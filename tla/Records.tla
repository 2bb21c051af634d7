------------------------------ MODULE Records ------------------------------
(***************************************************************************)
(* The two stores as their callers see them: enqueue_job and the waves and *)
(* packages that planning stores, in PostgresStore (store_pg.py) and in    *)
(* InMemoryStore (store_memory.py), and the life of a job in the second.   *)
(*                                                                         *)
(* A method of InMemoryStore holds the store's lock and is one step; one   *)
(* of PostgresStore is a transaction, in which a row that a SELECT did not *)
(* find may have been inserted by somebody else before the INSERT.  Jobs   *)
(* of PostgresStore are the subject of module JobQueue and only settle     *)
(* here; those of InMemoryStore are processed by the background worker of  *)
(* the API process, the one process that has the store.                    *)
(***************************************************************************)
EXTENDS Naturals, Sequences, FiniteSets, FiniteSetsExt

CONSTANTS
  Clients,     \* concurrent callers of enqueue_job
  Keys,        \* resume keys
  MaxJobs,     \* bound on the rows of the table jobs
  Planners,    \* executions of planning, each of the same plan
  Waves,       \* wave keys of the plan, in order; each has one package
  MaxCrashes,  \* bound on the executions of planning cut short
  MaxAttempts  \* of a job

ASSUME RecordsAssumption ==
  /\ IsFiniteSet(Clients) /\ IsFiniteSet(Planners) /\ IsFiniteSet(Keys)
  /\ "none" \notin Keys
  /\ Waves \in Seq(STRING)
  /\ MaxJobs \in Nat /\ MaxCrashes \in Nat /\ MaxAttempts \in Nat \ {0}

VARIABLES
  backend,  \* the store the process was started with
  jobs,     \* rows of jobs, in the order of their insertion
  looked,   \* key of the enqueue_job that found no row and has not inserted
  crowd,    \* history: most callers that ever were at that point, by key
  waves,    \* rows of waves
  packages, \* rows of work_packages
  planner,  \* wave ids each planner knows, and how many packages it stored
  crashes

vars == <<backend, jobs, looked, crowd, waves, packages, planner, crashes>>
queueing == <<jobs, looked, crowd>>
planning == <<waves, packages, planner, crashes>>

(* A job: its key, its status, its attempts, whether its lease lapsed, and
   how many executions of it the background worker has begun. *)
Terminal == {"completed", "dead_letter"}
Rows == DOMAIN jobs
LiveRows(k) == {i \in Rows : jobs[i].key = k /\ jobs[i].status \notin Terminal}

(* An id that upsert_wave is given is new: named after its planner, its wave
   and the executions that were cut short before. *)
Ids == Planners \X (DOMAIN Waves) \X (0..MaxCrashes)
NewId(a, n) == <<a, n, crashes>>

NewPlanner == [ids |-> <<>>, stored |-> 0]

Job == [key : Keys, status : {"queued", "leased"} \cup Terminal,
        attempts : 0..MaxAttempts, lapsed : BOOLEAN, held : Nat]

QueueingOK ==
  /\ backend \in {"postgres", "memory"}
  /\ jobs \in Seq(Job)
  /\ looked \in [Clients -> Keys \cup {"none"}]
  /\ crowd \in [Keys -> Nat]

PlanningOK ==
  /\ waves \subseteq [id : Ids, key : DOMAIN Waves]
  /\ packages \subseteq [wave_id : Ids, wave_key : DOMAIN Waves]
  /\ planner \in [Planners -> [ids : Seq(Ids), stored : Nat]]
  /\ \A a \in Planners : Len(planner[a].ids) <= Len(Waves)
  /\ crashes \in 0..MaxCrashes

(* The rows of both stores have the columns of jobs, waves and work_packages
   and their bounds; no row has more attempts than its budget. *)
TypeOK == QueueingOK /\ PlanningOK /\ Len(jobs) <= MaxJobs

Init ==
  /\ backend \in {"postgres", "memory"}
  /\ jobs = <<>>
  /\ looked = [c \in Clients |-> "none"]
  /\ crowd = [k \in Keys |-> 0]
  /\ waves = {}
  /\ packages = {}
  /\ planner = [a \in Planners |-> NewPlanner]
  /\ crashes = 0

-----------------------------------------------------------------------------
(* enqueue_job.                                                             *)

(* The row that stands for a key is one that has not settled: Standing.
   QueuedOnly misses the job that a worker has already taken. *)
QueuedOnly(k) == {i \in LiveRows(k) : jobs[i].status = "queued"}
Standing(k) == LiveRows(k)

Row(k) == [key |-> k, status |-> "queued", attempts |-> 0, lapsed |-> FALSE, held |-> 0]

Callers(k) == {c \in Clients : looked[c] = k}

(* InMemoryStore looks and inserts under its lock. *)
EnqueueAtOnce(k) ==
  /\ backend = "memory"
  /\ Len(jobs) < MaxJobs
  /\ Standing(k) = {}
  /\ jobs' = Append(jobs, Row(k))
  /\ crowd' = [crowd EXCEPT ![k] = Max({@, 1})]
  /\ UNCHANGED <<backend, looked, planning>>

(* PostgresStore: the SELECT found no row (a row it finds is returned and
   ends the call), *)
Look(c, k) ==
  /\ backend = "postgres"
  /\ looked[c] = "none"
  /\ Standing(k) = {}
  /\ looked' = [looked EXCEPT ![c] = k]
  /\ crowd' = [crowd EXCEPT ![k] = Max({@, Cardinality(Callers(k)) + 1})]
  /\ UNCHANGED <<backend, jobs, planning>>

(* and the INSERT, whose ON CONFLICT is about the id, never the key. *)
Insert(c) ==
  /\ looked[c] # "none"
  /\ Len(jobs) < MaxJobs
  /\ jobs' = Append(jobs, Row(looked[c]))
  /\ looked' = [looked EXCEPT ![c] = "none"]
  /\ UNCHANGED <<backend, crowd, planning>>

(* A job of PostgresStore is taken and settles; see JobQueue, which also has
   the completed job that a lost reply brings back to life, left out here. *)
Progress(i) ==
  /\ backend = "postgres"
  /\ jobs[i].status \notin Terminal
  /\ \E s \in (IF jobs[i].status = "queued" THEN {"leased"} ELSE Terminal) :
       jobs' = [jobs EXCEPT ![i].status = s]
  /\ UNCHANGED <<backend, looked, crowd, planning>>

-----------------------------------------------------------------------------
(* Jobs of InMemoryStore and the background worker.                         *)

(* The worker claims one job of each role at the same time and claims again
   when all of them have ended: BatchEnded.  Overlapping forgets that the
   loop waits for the batch.  Jobs with different keys have different roles
   here. *)
Overlapping == TRUE
BatchEnded == \A i \in Rows : jobs[i].held = 0

Waiting == {i \in Rows : jobs[i].status = "queued"}
Claims == {i \in Waiting : \A j \in Waiting : jobs[j].key = jobs[i].key => i <= j}

(* claim_job does not count an attempt. *)
Claim ==
  /\ backend = "memory"
  /\ BatchEnded
  /\ Claims # {}
  /\ jobs' = [i \in Rows |-> IF i \in Claims
       THEN [jobs[i] EXCEPT !.status = "leased", !.held = @ + 1] ELSE jobs[i]]
  /\ UNCHANGED <<backend, looked, crowd, planning>>

(* finish_job completes the row whatever its status and worker. *)
Finish(i) ==
  /\ backend = "memory"
  /\ jobs[i].held > 0
  /\ jobs' = [jobs EXCEPT ![i].status = "completed", ![i].held = @ - 1, ![i].lapsed = FALSE]
  /\ UNCHANGED <<backend, looked, crowd, planning>>

(* fail_job counts the attempt, also whatever the status and the worker;
   Uncounted leaves that to a claim that does not do it. *)
Uncounted(n) == n
Counted(n) == n + 1

HasAttempt(n) == n < MaxAttempts

Fail(i) ==
  LET n == Counted(jobs[i].attempts) IN
  /\ backend = "memory"
  /\ jobs[i].held > 0
  /\ jobs' = [jobs EXCEPT ![i].status = IF HasAttempt(n) THEN "queued" ELSE "dead_letter",
                          ![i].attempts = n, ![i].held = @ - 1, ![i].lapsed = FALSE]
  /\ UNCHANGED <<backend, looked, crowd, planning>>

(* Synchronous work keeps the event loop, and with it heartbeat_job, from
   running; a heartbeat extends a lease even if it has lapsed. *)
Lapse(i) ==
  /\ backend = "memory"
  /\ jobs[i].status = "leased"
  /\ jobs' = [jobs EXCEPT ![i].lapsed = ~@]
  /\ UNCHANGED <<backend, looked, crowd, planning>>

(* POST /runs/{id}/recover-all is the one caller of requeue_expired_jobs
   here, which does not look at attempts. *)
RecoverAll ==
  /\ backend = "memory"
  /\ \E i \in Rows : jobs[i].lapsed
  /\ jobs' = [i \in Rows |-> IF jobs[i].lapsed /\ jobs[i].status = "leased"
       THEN [jobs[i] EXCEPT !.status = "queued", !.lapsed = FALSE] ELSE jobs[i]]
  /\ UNCHANGED <<backend, looked, crowd, planning>>

-----------------------------------------------------------------------------
(* Waves and packages.                                                      *)

(* upsert_wave.  The key of the table waves is the run and the wave's key in
   PostgreSQL, where the stored row is read back, and the id in memory.
   ReturnsItsOwn returns the wave it was given. *)
StoredWave(n) == {w \in waves : w.key = n}
ReturnsItsOwn(a, n) == NewId(a, n)
Returned(a, n) ==
  IF backend = "postgres" /\ StoredWave(n) # {}
  THEN (CHOOSE w \in StoredWave(n) : TRUE).id ELSE NewId(a, n)

UpsertWave(a) ==
  LET n == Len(planner[a].ids) + 1 IN
  /\ n <= Len(Waves)
  /\ waves' = IF backend = "postgres" /\ StoredWave(n) # {} THEN waves
              ELSE waves \cup {[id |-> NewId(a, n), key |-> n]}
  /\ planner' = [planner EXCEPT ![a].ids = Append(@, Returned(a, n))]
  /\ UNCHANGED <<backend, queueing, packages, crashes>>

(* upsert_work_package never meets an id again; the rows that differ in their
   id alone are one here. *)
UpsertWorkPackage(a) ==
  LET n == planner[a].stored + 1 IN
  /\ Len(planner[a].ids) = Len(Waves)
  /\ n <= Len(Waves)
  /\ packages' = packages \cup
       {[wave_id |-> planner[a].ids[n], wave_key |-> n]}
  /\ planner' = [planner EXCEPT ![a].stored = n]
  /\ UNCHANGED <<backend, queueing, waves, crashes>>

(* The execution is cut short; the next attempt plans again, with new ids. *)
PlannerFails(a) ==
  /\ crashes < MaxCrashes
  /\ planner[a] # NewPlanner
  /\ planner' = [planner EXCEPT ![a] = NewPlanner]
  /\ crashes' = crashes + 1
  /\ UNCHANGED <<backend, queueing, waves, packages>>

-----------------------------------------------------------------------------
Next ==
  \/ \E k \in Keys : EnqueueAtOnce(k)
  \/ \E c \in Clients, k \in Keys : Look(c, k)
  \/ \E c \in Clients : Insert(c)
  \/ \E i \in Rows : Progress(i) \/ Finish(i) \/ Fail(i) \/ Lapse(i)
  \/ Claim
  \/ RecoverAll
  \/ \E a \in Planners : UpsertWave(a) \/ UpsertWorkPackage(a) \/ PlannerFails(a)

(* The event loop keeps running the background worker and every execution
   ends (each call has a timeout); nobody is obliged to enqueue, to plan or
   to call recover-all. *)
Spec ==
  /\ Init
  /\ [][Next]_vars
  /\ WF_vars(Claim)
  /\ \A i \in 1..MaxJobs : WF_vars(i \in Rows /\ (Finish(i) \/ Fail(i)))

-----------------------------------------------------------------------------
(* enqueue_job returns the row that stands for a resume key.  In PostgreSQL
   nothing but that look prevents a second one: n rows of one key that have
   not settled need n callers who all looked before any of them inserted;
   in memory there is never more than one (enqueue_job of both stores). *)
DuplicateRowsNeedOverlap ==
  \A k \in Keys : Cardinality(LiveRows(k)) <= crowd[k]

(* Every package belongs to a stored wave of its key, however planners run
   side by side or over again: advance_run would never execute a package of
   a wave that is not stored.  In PostgreSQL the packages of one wave key
   share their wave, which the dependencies within a wave rely on. *)
WavesResolve ==
  /\ \A p \in packages : [id |-> p.wave_id, key |-> p.wave_key] \in waves
  /\ backend = "postgres" =>
       \A p, q \in packages : p.wave_key = q.wave_key => p.wave_id = q.wave_id

(* finish_job and fail_job of InMemoryStore check neither the worker nor the
   status, and recover-all takes a job from a worker that still executes it.
   A settled job stays settled all the same, because the one worker claims
   nothing before its batch has ended. *)
SettledIsFinal ==
  [][\A i \in Rows : jobs[i].status \in Terminal => jobs'[i].status = jobs[i].status]_vars

(* However often recover-all puts it back without counting an attempt, a
   job of InMemoryStore settles: the execution that lost it still ends, and
   its end counts. *)
JobsSettle ==
  \A i \in 1..MaxJobs :
    (backend = "memory" /\ i \in Rows) ~> (i \in Rows /\ jobs[i].status \in Terminal)
=============================================================================
