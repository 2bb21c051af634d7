------------------------------ MODULE JobQueue ------------------------------
(***************************************************************************)
(* The PostgreSQL job queue (store_pg.py, table jobs) together with the    *)
(* two kinds of worker that drive it: the AsyncWorker of worker.py and the *)
(* background worker inside the API process (api.py).  Every store call is *)
(* one action, because it is one transaction; what a worker does between   *)
(* two calls is its phase for the job.                                     *)
(*                                                                         *)
(* Time is abstracted to the state of a job's lease: "live" until the      *)
(* clock passes lease_until, "lapsed" afterwards.  A store call has one of *)
(* three outcomes: "reply", "error" (it raised, nothing was committed) or  *)
(* "lost" (it committed and the caller saw an exception).                  *)
(***************************************************************************)
EXTENDS Naturals, FiniteSets

CONSTANTS
  Jobs,          \* job ids, numbered by created_at
  AsyncWorkers,  \* ids of AsyncWorker instances, one executing job each
  ApiWorkers,    \* ids of API background workers, one job per role each
  Role,          \* role of each job
  Serves,        \* roles each worker claims from
  NoWorker,      \* the empty worker_id
  MaxAttempts,   \* max_attempts of every job
  Faults,        \* which faults the environment may inject
  Mortal         \* the workers whose process may die

Workers == AsyncWorkers \cup ApiWorkers

FaultKinds == {"crash", "drain", "slow", "error", "lost"}

ASSUME JobsAssumption == Jobs \subseteq Nat /\ IsFiniteSet(Jobs)
ASSUME WorkersAssumption ==
  /\ AsyncWorkers \cap ApiWorkers = {}
  /\ NoWorker \notin AsyncWorkers \cup ApiWorkers
  /\ IsFiniteSet(AsyncWorkers \cup ApiWorkers)
ASSUME AttemptsAssumption == MaxAttempts \in Nat \ {0}
ASSUME FaultsAssumption == Faults \subseteq {"crash", "drain", "slow", "error", "lost"}

VARIABLES
  status,    \* status of each row; "absent" before the INSERT
  attempts,  \* attempts column
  owner,     \* worker_id column
  lease,     \* lease_until relative to now
  phase,     \* phase[w][j]: where worker w is in the processing of job j
  mode,      \* state of each worker's process
  executed   \* jobs for which some execute_job call returned normally

vars == <<status, attempts, owner, lease, phase, mode, executed>>
row == <<status, attempts, owner, lease>>

Held == {"leased", "running"}
Claimable == {"queued", "retry"}
Terminal == {"completed", "dead_letter"}
Statuses == Held \cup Claimable \cup Terminal \cup {"absent"}

(* "mute" is an execution whose heartbeat loop has ended; "ok", "err" and
   "fatal" are executions that ended and whose verdict is not yet stored. *)
Phases == {"idle", "claimed", "running", "mute", "ok", "err", "fatal"}

TypeOK ==
  /\ status \in [Jobs -> Statuses]
  /\ attempts \in [Jobs -> 0..MaxAttempts]
  /\ owner \in [Jobs -> Workers \cup {NoWorker}]
  /\ lease \in [Jobs -> {"none", "live", "lapsed"}]
  /\ phase \in [Workers -> [Jobs -> Phases]]
  /\ mode \in [Workers -> {"live", "draining", "dead"}]
  /\ executed \in SUBSET Jobs

Init ==
  /\ status = [j \in Jobs |-> "absent"]
  /\ attempts = [j \in Jobs |-> 0]
  /\ owner = [j \in Jobs |-> NoWorker]
  /\ lease = [j \in Jobs |-> "none"]
  /\ phase = [w \in Workers |-> [j \in Jobs |-> "idle"]]
  /\ mode = [w \in Workers |-> "live"]
  /\ executed = {}

-----------------------------------------------------------------------------
(* What the actions are built from. *)

Outcomes == {"reply"} \cup (Faults \cap {"error", "lost"})
Commits(o) == o # "error"

SetPhase(w, j, p) == phase' = [phase EXCEPT ![w][j] = p]

Busy(w) == \E j \in Jobs : phase[w][j] # "idle"

(* An AsyncWorker claims when it has nothing in hand; the API worker claims
   one job per role and takes no more until the whole batch has ended. *)
MayClaim(w, r) ==
  /\ mode[w] = "live"
  /\ r \in Serves[w]
  /\ \A j \in Jobs :
       \/ phase[w][j] = "idle"
       \/ w \in ApiWorkers /\ phase[w][j] = "claimed" /\ Role[j] # r

(* ORDER BY created_at ... FOR UPDATE SKIP LOCKED: an older claimable row is
   passed over only while another worker's claim transaction locks it. *)
Older(j) == {i \in Jobs : i < j /\ Role[i] = Role[j] /\ status[i] \in Claimable}
OtherClaimers(w, r) == {v \in Workers \ {w} : MayClaim(v, r)}

(* The phase in which an execution starts: AsyncWorker's heartbeat loop does
   not run once shutdown is requested, the API worker's always does. *)
StartPhase(w) ==
  IF w \in AsyncWorkers /\ mode[w] = "draining" THEN "mute" ELSE "running"

(* The rows requeue_expired_jobs updates: Expired.  ExpiredRunning forgets
   the rows leased but never started, ExpiredOrNot forgets the deadline. *)
ExpiredRunning == {j \in Jobs : status[j] = "running" /\ lease[j] = "lapsed"}
ExpiredOrNot == {j \in Jobs : status[j] \in Held}
Expired == {j \in Jobs : status[j] \in Held /\ lease[j] = "lapsed"}

(* Where a failed or expired attempt leaves the job: AfterFailure.  The two
   operators before it misjudge the budget by one. *)
OneTooMany(j, retryable) ==
  IF retryable /\ attempts[j] <= MaxAttempts THEN "retry" ELSE "dead_letter"
OneTooFew(j, retryable) ==
  IF retryable /\ attempts[j] + 1 < MaxAttempts THEN "retry" ELSE "dead_letter"
AfterFailure(j, retryable) ==
  IF retryable /\ attempts[j] < MaxAttempts THEN "retry" ELSE "dead_letter"

(* The UPDATE of requeue_expired_jobs, over every expired row at once. *)
SweepExpired ==
  /\ status' = [j \in Jobs |-> IF j \in Expired THEN AfterFailure(j, TRUE) ELSE status[j]]
  /\ owner' = [j \in Jobs |-> IF j \in Expired THEN NoWorker ELSE owner[j]]
  /\ lease' = [j \in Jobs |-> IF j \in Expired THEN "none" ELSE lease[j]]
  /\ UNCHANGED <<attempts, phase, mode, executed>>

(* claim_job counts the attempt when it hands the job out; CountLater does
   not. *)
CountLater(j) == attempts[j]
NextAttempt(j) == attempts[j] + 1

(* The WHERE id AND worker_id of finish_job and fail_job; AnyRow is the
   clause without worker_id. *)
AnyRow(w, j) == w \in Workers
OwnRow(w, j) == owner[j] = w

(* finish_job's UPDATE: the row keeps its worker_id and loses its lease,
   which CompleteUnderLease forgets. *)
CompleteUnderLease(j) ==
  status' = [status EXCEPT ![j] = "completed"] /\ UNCHANGED lease
Complete(j) ==
  /\ status' = [status EXCEPT ![j] = "completed"]
  /\ lease' = [lease EXCEPT ![j] = "none"]

(* A worker reports success only when execute_job has returned normally;
   EndedAnyhow reports it for every end. *)
EndedAnyhow(w, j) == phase[w][j] \in {"ok", "err"}
EndedWell(w, j) == phase[w][j] = "ok"

-----------------------------------------------------------------------------
(* Store operations. *)

(* The pipeline inserts a job.  Two jobs with the same resume_key are two
   members of Jobs here: the duplicate check is about which jobs exist. *)
Enqueue(j) ==
  /\ status[j] = "absent"
  /\ status' = [status EXCEPT ![j] = "queued"]
  /\ UNCHANGED <<attempts, owner, lease, phase, mode, executed>>

(* claim_job.  An error before the commit changes nothing and the worker
   polls again; with a lost reply the row is leased to a worker that does
   not know it. *)
Claim(w, j, o) ==
  /\ Commits(o)
  /\ status[j] \in Claimable
  /\ MayClaim(w, Role[j])
  /\ Cardinality(Older(j)) <= Cardinality(OtherClaimers(w, Role[j]))
  /\ status' = [status EXCEPT ![j] = "leased"]
  /\ attempts' = [attempts EXCEPT ![j] = NextAttempt(j)]
  /\ owner' = [owner EXCEPT ![j] = w]
  /\ lease' = [lease EXCEPT ![j] = "live"]
  /\ IF o = "reply" THEN SetPhase(w, j, "claimed") ELSE UNCHANGED phase
  /\ UNCHANGED <<mode, executed>>

(* AsyncWorker._execute up to the start of the pipeline: start_job. *)
Start(w, j, o) ==
  LET mine == owner[j] = w /\ status[j] = "leased" IN
  /\ w \in AsyncWorkers
  /\ phase[w][j] = "claimed"
  /\ IF mine /\ Commits(o)
     THEN /\ status' = [status EXCEPT ![j] = "running"]
          /\ lease' = [lease EXCEPT ![j] = "live"]
     ELSE UNCHANGED <<status, lease>>
  /\ SetPhase(w, j, IF o # "reply" THEN "err"
                    ELSE IF mine THEN StartPhase(w) ELSE "idle")
  /\ UNCHANGED <<attempts, owner, mode, executed>>

(* The API worker gathers its claims, then starts every claimed job without
   start_job: the row stays leased. *)
ApiBegin(w) ==
  /\ w \in ApiWorkers
  /\ \E j \in Jobs : phase[w][j] = "claimed"
  /\ phase' = [phase EXCEPT ![w] = [j \in Jobs |->
       IF phase[w][j] = "claimed" THEN StartPhase(w) ELSE phase[w][j]]]
  /\ UNCHANGED <<row, mode, executed>>

(* execute_job returns or raises.  Only AsyncWorker treats ValueError and
   TypeError as not retryable. *)
Return(w, j, verdict) ==
  /\ phase[w][j] \in {"running", "mute"}
  /\ verdict = "fatal" => w \in AsyncWorkers
  /\ SetPhase(w, j, verdict)
  /\ executed' = IF verdict = "ok" THEN executed \cup {j} ELSE executed
  /\ UNCHANGED <<row, mode>>

(* finish_job: the UPDATE matches id and worker_id whatever the status and
   keeps worker_id; on a miss a job already settled is returned, any other
   raises StoreError, which the worker treats like a failed execution. *)
Finish(w, j, o) ==
  /\ EndedWell(w, j)
  /\ IF OwnRow(w, j) /\ Commits(o) THEN Complete(j) ELSE UNCHANGED <<status, lease>>
  /\ SetPhase(w, j, IF o = "reply" /\ (OwnRow(w, j) \/ status[j] \in Terminal)
                    THEN "idle" ELSE "err")
  /\ UNCHANGED <<attempts, owner, mode, executed>>

(* fail_job: retry within the budget, dead_letter otherwise.  The worker
   only logs an exception of fail_job and goes on. *)
Fail(w, j, o) ==
  /\ phase[w][j] \in {"err", "fatal"}
  /\ IF OwnRow(w, j) /\ Commits(o)
     THEN /\ status' = [status EXCEPT ![j] = AfterFailure(j, phase[w][j] = "err")]
          /\ owner' = [owner EXCEPT ![j] = NoWorker]
          /\ lease' = [lease EXCEPT ![j] = "none"]
     ELSE UNCHANGED <<status, owner, lease>>
  /\ SetPhase(w, j, "idle")
  /\ UNCHANGED <<attempts, mode, executed>>

(* heartbeat_job extends the lease of a row still held by the worker. *)
Heartbeat(w, j) ==
  /\ phase[w][j] = "running"
  /\ owner[j] = w
  /\ status[j] \in Held
  /\ lease[j] = "lapsed"
  /\ lease' = [lease EXCEPT ![j] = "live"]
  /\ UNCHANGED <<status, attempts, owner, phase, mode, executed>>

(* One failed heartbeat ends the API worker's heartbeat loop; AsyncWorker
   logs it and beats again. *)
HeartbeatFails(w, j) ==
  /\ Faults \cap {"error", "lost"} # {}
  /\ w \in ApiWorkers
  /\ phase[w][j] = "running"
  /\ SetPhase(w, j, "mute")
  /\ UNCHANGED <<row, mode, executed>>

(* run_forever sweeps expired leases before each claim. *)
RequeueExpired(w) ==
  /\ w \in AsyncWorkers
  /\ mode[w] = "live"
  /\ ~Busy(w)
  /\ SweepExpired

(* POST /runs/{id}/recover-all: an operator asks the API to sweep. *)
RecoverAll ==
  /\ \E a \in ApiWorkers : mode[a] # "dead"
  /\ SweepExpired

-----------------------------------------------------------------------------
(* The clock and the workers' processes. *)

(* The clock passes lease_until.  Without the fault "slow" a worker that
   still heartbeats, or is between two store calls, is never that late. *)
Attended(j) ==
  \E w \in Workers :
    owner[j] = w /\ phase[w][j] \in {"claimed", "running", "ok", "err", "fatal"}

LeaseLapse(j) ==
  /\ status[j] \in Held
  /\ lease[j] = "live"
  /\ "slow" \in Faults \/ ~Attended(j)
  /\ lease' = [lease EXCEPT ![j] = "lapsed"]
  /\ UNCHANGED <<status, attempts, owner, phase, mode, executed>>

(* The process dies; a restarted one has a new worker id. *)
Crash(w) ==
  /\ "crash" \in Faults
  /\ w \in Mortal
  /\ mode[w] # "dead"
  /\ mode' = [mode EXCEPT ![w] = "dead"]
  /\ phase' = [phase EXCEPT ![w] = [j \in Jobs |-> "idle"]]
  /\ UNCHANGED <<row, executed>>

(* SIGTERM: no further claims (a signal during a claim is no different from
   one just after it).  The heartbeat loop of an AsyncWorker ends at
   once although its job goes on. *)
Shutdown(w) ==
  /\ "drain" \in Faults
  /\ w \in Mortal
  /\ mode[w] = "live"
  /\ mode' = [mode EXCEPT ![w] = "draining"]
  /\ phase' = [phase EXCEPT ![w] = [j \in Jobs |->
       IF w \in AsyncWorkers /\ phase[w][j] = "running" THEN "mute" ELSE phase[w][j]]]
  /\ UNCHANGED <<row, executed>>

(* A drained worker stops.  The API process waits at most 30 s for its jobs
   and then cancels them: they stay leased. *)
Stop(w) ==
  /\ mode[w] = "draining"
  /\ w \in ApiWorkers \/ ~Busy(w)
  /\ mode' = [mode EXCEPT ![w] = "dead"]
  /\ phase' = [phase EXCEPT ![w] = [j \in Jobs |-> "idle"]]
  /\ UNCHANGED <<row, executed>>

-----------------------------------------------------------------------------
WorkerStep(w, j) ==
  \/ \E o \in Outcomes : Claim(w, j, o)
  \/ \E o \in Outcomes : Start(w, j, o)
  \/ \E v \in {"ok", "err", "fatal"} : Return(w, j, v)
  \/ \E o \in Outcomes : Finish(w, j, o)
  \/ \E o \in Outcomes : Fail(w, j, o)
  \/ Heartbeat(w, j)
  \/ HeartbeatFails(w, j)

ProcessStep(w) ==
  \/ ApiBegin(w)
  \/ RequeueExpired(w)
  \/ Crash(w)
  \/ Shutdown(w)
  \/ Stop(w)

Next ==
  \/ \E j \in Jobs : Enqueue(j) \/ LeaseLapse(j)
  \/ \E w \in Workers, j \in Jobs : WorkerStep(w, j)
  \/ \E w \in Workers : ProcessStep(w)
  \/ RecoverAll

Spec == Init /\ [][Next]_vars

(* The event loop keeps running every process that is alive, each pipeline
   call ends (its LLM calls have timeouts), a store call that keeps being
   made gets through, and the clock advances.  Nobody is obliged to enqueue,
   to call recover-all, or to crash. *)
Fairness ==
  /\ \A w \in Workers, j \in Jobs :
       /\ WF_vars(Claim(w, j, "reply"))
       /\ WF_vars(\E o \in Outcomes : Start(w, j, o))
       /\ WF_vars(\E v \in {"ok", "err", "fatal"} : Return(w, j, v))
       /\ WF_vars(\E o \in Outcomes : Finish(w, j, o))
       /\ WF_vars(\E o \in Outcomes : Fail(w, j, o))
       /\ WF_vars(Heartbeat(w, j))
  /\ \A w \in Workers :
       WF_vars(ApiBegin(w)) /\ WF_vars(RequeueExpired(w)) /\ WF_vars(Stop(w))
  /\ \A j \in Jobs : WF_vars(LeaseLapse(j))

FairSpec == Spec /\ Fairness

-----------------------------------------------------------------------------
(* Safety. *)

(* A row under lease always names the worker that must settle it and the
   time at which it may be taken away, and a row that waits names nobody: no
   order of claims, sweeps and failures produces a job that nobody can ever
   claim or recover (claim_job, fail_job, requeue_expired_jobs). *)
LeaseConsistent ==
  \A j \in Jobs :
    /\ status[j] \in Held <=> lease[j] # "none"
    /\ status[j] \in Held => owner[j] # NoWorker
    /\ status[j] \in Claimable \cup {"absent", "dead_letter"} => owner[j] = NoWorker

(* A job that waits for a worker has an attempt left, so claim_job, which
   increments attempts without looking at max_attempts, never exceeds it. *)
WaitingHasBudget ==
  \A j \in Jobs : status[j] \in Claimable => attempts[j] < MaxAttempts

(* A completed job was executed to the end: no stale, crashed or resurrected
   claim lets finish_job complete a job whose pipeline never returned. *)
CompletedWasExecuted ==
  \A j \in Jobs : status[j] = "completed" => j \in executed

(* However often leases are lost, the executions of a job that overlap are
   never more than the attempts the queue has counted for it. *)
ExecutionsCounted ==
  \A j \in Jobs : Cardinality({w \in Workers : phase[w][j] # "idle"}) <= attempts[j]

(* While workers are punctual (no overdue heartbeat, no shutdown in
   progress, no API heartbeat loop ended by a store error), two workers
   never process the same job at the same time. *)
Punctual ==
  /\ Faults \cap {"slow", "drain"} = {}
  /\ ApiWorkers = {} \/ Faults \cap {"error", "lost"} = {}

AtMostOneExecutor ==
  \A j \in Jobs : \A v, w \in Workers :
    phase[v][j] # "idle" /\ phase[w][j] # "idle" => v = w

(* Only the worker that currently owns a held job settles it: a worker whose
   lease was taken away can neither complete nor fail the job under its new
   owner (the worker_id match of finish_job and fail_job); the only other
   way out of a lease is its expiry. *)
SettledByOwner ==
  [][\A j \in Jobs :
       status[j] \in Held /\ status'[j] \notin Held =>
         \/ lease[j] = "lapsed" /\ status'[j] # "completed"
         \/ \E w \in Workers :
              /\ owner[j] = w
              /\ phase[w][j] \in {"ok", "err", "fatal"}
              /\ status'[j] = "completed" => phase[w][j] = "ok"]_vars

(* A job is given up only when its attempts are used up or its owner hit an
   error it classified as not retryable. *)
DeadLetterJustified ==
  [][\A j \in Jobs :
       status[j] # "dead_letter" /\ status'[j] = "dead_letter" =>
         \/ attempts[j] = MaxAttempts
         \/ \E w \in Workers : owner[j] = w /\ phase[w][j] = "fatal"]_vars

(* _TERMINAL_JOB_STATUSES: a completed or dead-lettered job stays so. *)
TerminalIsFinal ==
  [][\A j \in Jobs : status[j] \in Terminal => status'[j] = status[j]]_vars

(* The queue implements the lease discipline of module JobLease. *)
StageOf(s) ==
  CASE s = "absent" -> "new"
    [] s \in Claimable -> "waiting"
    [] s \in Held -> "held"
    [] s = "completed" -> "done"
    [] OTHER -> "dead"

Abstract == INSTANCE JobLease WITH
  Workers <- AsyncWorkers \cup ApiWorkers,
  stage <- [j \in Jobs |-> StageOf(status[j])],
  holder <- [j \in Jobs |-> IF status[j] \in Held THEN owner[j] ELSE NoWorker],
  tries <- attempts

(* Unless a reply of finish_job is lost, every behaviour of the queue is one
   of the lease discipline. *)
ImplementsLease == Abstract!LSpec

-----------------------------------------------------------------------------
(* Liveness. *)

(* Every job put on the queue ends completed or dead-lettered and stays so,
   whatever happens to the workers that claim it on the way. *)
EveryJobSettles ==
  \A j \in Jobs : (status[j] # "absent") ~> [](status[j] \in Terminal)

=============================================================================
