------------------------------- MODULE Phases -------------------------------
(***************************************************************************)
(* The phase handlers (phases/*.py) of one run: the answers they ask for,  *)
(* those they keep in run.metadata.cache, the defaults that replace a      *)
(* failed answer, the packages planning stores, the checkpoint, the result *)
(* and the status that follow (pipeline.py), and the gates of quality.     *)
(*                                                                         *)
(* One worker at a time executes a job of the run, while API requests may  *)
(* resume it; an execution that a crash cuts short is repeated from the    *)
(* start.  Executions side by side, retry counters, waves and advance_run  *)
(* step by step are the subject of Pipeline, leases that of JobQueue.      *)
(***************************************************************************)
EXTENDS Naturals, Sequences, SequencesExt, FiniteSets

CONSTANTS
  PlanOf,       \* plan each usable scope answer leads to; "default" is one
  MaxAttempts,  \* of a job
  NewIds,       \* ids of the package rows, in the order they are given out
  MaxIncidents, \* bound on the faults explored
  Faults        \* faults the environment injects

(* A plan is a sequence of packages: infra if the role is "infrastructure",
   repair if it is "repair", placed if the wave the package names is one of
   the plan. *)
Phases == {"requirements_analysis", "architecture_design", "package_planning",
           "integration", "code_review", "quality", "release_notes", "release_candidate"}
ASSUME PhasesAssumption ==
  /\ "default" \in DOMAIN PlanOf /\ "none" \notin DOMAIN PlanOf
  /\ \A n \in DOMAIN PlanOf :
       PlanOf[n] \in Seq([key : STRING, infra : BOOLEAN, repair : BOOLEAN, placed : BOOLEAN])
  /\ NewIds \in Seq(STRING)
  /\ MaxAttempts \in Nat \ {0}
  /\ Range(NewIds) \cap (Phases \cup {"none"}) = {}
  /\ MaxIncidents \in Nat
  /\ Faults \subseteq {"refuse", "write", "crash", "resume"}

VARIABLES
  metadata,   \* results and cache of the run's metadata
  checkpoint, \* last phase recorded, or "release_ready"
  status,     \* of the run
  continuation, \* action the run's row names for what follows
  rows,       \* package rows, in the order of their insertion
  jobs,       \* state, attempts and retries of each job
  exec,       \* job, point and local variables of the execution
  answers,    \* history: usable answers received, by kind
  dropped,    \* history: answers lost to a fault before they were cached
  plannings,  \* history: executions of planning
  planned,    \* history: plan of the last planning that was recorded
  incidents

vars == <<metadata, checkpoint, status, continuation, rows, jobs, exec, answers, dropped,
          plannings, planned, incidents>>
history == <<answers, dropped, plannings, planned>>

NextPhase == [
  run_created           |-> "requirements_analysis",
  requirements_analysis |-> "architecture_design",
  architecture_design   |-> "package_planning",
  wave_completed        |-> "integration",
  integration           |-> "code_review",
  code_review           |-> "quality",
  quality               |-> "release_notes",
  release_notes         |-> "release_candidate"]
Checkpoints == DOMAIN NextPhase \cup {"package_planning", "release_candidate", "release_ready"}
Persisting == {"requirements_analysis", "architecture_design", "package_planning"}
Jobs == Phases \cup Range(NewIds)

(* The answers an execution asks for, stage by stage; those of one stage are
   asked for at the same time.  All but reports are kept in the cache. *)
Kinds == {"seed", "surface", "layout", "contracts", "scope", "wave"}
ArchitectureStages == <<{"seed"}, {"surface", "layout"}, {"contracts"}>>
PlanningStages == <<{"scope"}, {"wave"}>>
OneReport == <<{"report"}>>
Stages(j) ==
  CASE j = "architecture_design" -> ArchitectureStages
    [] j = "package_planning" -> PlanningStages
    [] OTHER -> OneReport

(* Answers a default replaces; the gate of quality that asks is for
   information only. *)
HasDefault(j, k) == k \in {"layout", "contracts", "scope", "wave"} \/ j = "quality"

None == [k \in Kinds \cup {"report"} |-> "none"]
Values == {"none", "answer", "default"} \cup DOMAIN PlanOf
Usable(k) == IF k = "scope" THEN DOMAIN PlanOf \ {"default"} ELSE {"answer"}

NoRun == [results |-> {}, cache |-> [k \in Kinds |-> "none"]]
Idle == [job |-> "none", pc |-> "idle", seen |-> NoRun, from |-> "run_created", stage |-> 1,
         asking |-> {}, got |-> None, todo |-> {}, read |-> NoRun, at |-> 1]
Execution(j) ==
  [Idle EXCEPT !.job = j, !.seen = metadata, !.from = checkpoint]
Points == {"idle", "ask", "read", "write", "store", "returned", "persist",
           "persisted", "advance", "refused", "raised", "finish"}

(* dead: an earlier job of the kind is a dead letter, which nothing removes. *)
NoJob == [state |-> "none", attempts |-> 0, retries |-> 0, dead |-> FALSE]
Queued(job) == [job EXCEPT !.state = "queued", !.attempts = 0]
Live(j) == jobs[j].state \in {"queued", "leased"}

Init ==
  /\ metadata = NoRun
  /\ checkpoint = "run_created"
  /\ status = "running"
  /\ continuation = "none"
  /\ rows = <<>>
  /\ jobs = [j \in Jobs |-> IF j = "requirements_analysis" THEN Queued(NoJob) ELSE NoJob]
  /\ exec = Idle
  /\ answers = [k \in Kinds |-> 0]
  /\ dropped = [k \in Kinds |-> 0]
  /\ plannings = 0
  /\ planned = "none"
  /\ incidents = 0

Fault(f) == f \in Faults /\ incidents < MaxIncidents /\ incidents' = incidents + 1

At(point) == exec.pc = point
Goto(point) == exec' = [exec EXCEPT !.pc = point]

-----------------------------------------------------------------------------
(* Asking.                                                                  *)

Enter(x, stage) ==
  LET have == [k \in Kinds \cup {"report"} |->
        IF k \in Stages(x.job)[stage] \ {"report"} THEN x.seen.cache[k] ELSE x.got[k]] IN
  [x EXCEPT !.pc = "ask", !.stage = stage, !.got = have,
            !.asking = {k \in Stages(x.job)[stage] : have[k] = "none"}]

(* Architecture that was recorded with its result is not repeated.  Planning
   has the same test of a key the metadata never holds. *)
ReturnsCompleted(x) ==
  /\ x.job = "architecture_design"
  /\ x.from = "architecture_design"
  /\ "architecture_design" \in x.seen.results

(* Integration, review and quality pass a run without packages. *)
PassesUnasked(x) == x.job \in {"integration", "code_review", "quality"} /\ rows = <<>>

CompletedEnds == "finish"
CompletedAdvances == "advance"

Start(x) ==
  CASE ReturnsCompleted(x) -> [x EXCEPT !.pc = CompletedAdvances]
    [] PassesUnasked(x) -> [x EXCEPT !.pc = "returned"]
    [] OTHER -> Enter(x, 1)

Claim(j) ==
  /\ jobs[j].state = "queued"
  /\ exec.pc = "idle"
  /\ jobs' = [jobs EXCEPT ![j].state = "leased", ![j].attempts = @ + 1]
  /\ exec' = Start(Execution(j))
  /\ plannings' = plannings + IF j = "package_planning" THEN 1 ELSE 0
  /\ UNCHANGED <<metadata, checkpoint, status, continuation, rows, answers, dropped, planned, incidents>>

Answered(k, v) ==
  /\ At("ask")
  /\ k \in exec.asking
  /\ v \in Usable(k)
  /\ exec' = [exec EXCEPT !.asking = @ \ {k}, !.got[k] = v]
  /\ answers' = IF k \in Kinds THEN [answers EXCEPT ![k] = @ + 1] ELSE answers
  /\ UNCHANGED <<metadata, checkpoint, status, continuation, rows, jobs, dropped, plannings, planned, incidents>>

(* The call fails or its answer is no use: NO_GO, critical issues. *)
Refused(k) ==
  /\ At("ask")
  /\ k \in exec.asking
  /\ Fault("refuse")
  /\ exec' = [exec EXCEPT !.asking = @ \ {k}]
  /\ UNCHANGED <<metadata, checkpoint, status, continuation, rows, jobs, history>>

(* Architecture caches each answer of the stage, asked for or not; planning
   those it did not find. *)
CachesLater(x, k) == k \in Kinds \ {"seed"}
Caches(x, k) == k \in Kinds /\ (x.job = "architecture_design" \/ x.seen.cache[k] = "none")
CacheOrder == [seed |-> 1, surface |-> 2, layout |-> 3, contracts |-> 4, scope |-> 5, wave |-> 6]
First(ks) == CHOOSE k \in ks : \A l \in ks : CacheOrder[k] <= CacheOrder[l]

AfterStages(x) ==
  [x EXCEPT !.pc = IF x.job = "package_planning" THEN "store" ELSE "returned"]
Onward(x) ==
  IF x.stage < Len(Stages(x.job)) THEN Enter(x, x.stage + 1) ELSE AfterStages(x)

Fresh(x) == {k \in Stages(x.job)[x.stage] \cap Kinds :
               x.seen.cache[k] = "none" /\ x.got[k] \in Usable(k)}
Drop(ks) == dropped' = [k \in Kinds |-> dropped[k] + IF k \in ks THEN 1 ELSE 0]

(* The gates of quality that decide, on the metadata the execution started
   with: mission state, package DAG, AI execution.  The scale profile always
   has a name. *)
MissionGateEither(seen) == seen.results \cap {"requirements_analysis", "architecture_design"} # {}
MissionGate(seen) == {"requirements_analysis", "architecture_design"} \subseteq seen.results
DagGate(seen) == "package_planning" \in seen.results \/ seen.cache["scope"] # "none"
ExecutionGate == \E i \in DOMAIN rows : rows[i].patched
Passes(x) == x.job = "quality" => MissionGate(x.seen) /\ DagGate(x.seen) /\ ExecutionGate

(* A stage is over: what is missing gets a default, or the handler returns
   blocked and what it has of the stage is lost. *)
Marked(id, field) ==
  [i \in DOMAIN rows |-> IF rows[i].id = id THEN [rows[i] EXCEPT ![field] = TRUE] ELSE rows[i]]

Settle ==
  LET x == exec
      stage == Stages(x.job)[x.stage]
      missing == {k \in stage : x.got[k] = "none"}
      got == [k \in DOMAIN x.got |-> IF k \in missing THEN "default" ELSE x.got[k]]
      todo == {k \in stage : Caches(x, k)} IN
  /\ At("ask")
  /\ x.asking = {}
  /\ IF (\A k \in missing : HasDefault(x.job, k)) /\ Passes(x)
     THEN /\ exec' = IF todo = {} THEN Onward([x EXCEPT !.got = got])
                     ELSE [x EXCEPT !.got = got, !.todo = todo, !.pc = "read"]
          /\ UNCHANGED dropped
     ELSE /\ Goto("refused")
          /\ Drop(Fresh(x))
  /\ rows' = IF missing = {} THEN Marked(x.job, "patched") ELSE rows
  /\ UNCHANGED <<metadata, checkpoint, status, continuation, jobs, answers, plannings, planned, incidents>>

(* _cache_result: get_run, then update_run of the whole metadata; an error of
   the store is only logged. *)
ReadCache ==
  /\ At("read")
  /\ exec' = [exec EXCEPT !.read = metadata, !.pc = "write"]
  /\ UNCHANGED <<metadata, checkpoint, status, continuation, rows, jobs, history, incidents>>

WriteCache ==
  LET x == exec
      k == First(x.todo)
      rest == [x EXCEPT !.todo = @ \ {k}, !.read = NoRun] IN
  /\ At("write")
  /\ \/ /\ metadata' = [x.read EXCEPT !.cache[k] = x.got[k]]
        /\ UNCHANGED <<dropped, incidents>>
     \/ /\ Fault("write")
        /\ Drop({k} \cap Fresh(x))
        /\ UNCHANGED metadata
  /\ exec' = IF rest.todo = {} THEN Onward(rest) ELSE [rest EXCEPT !.pc = "read"]
  /\ UNCHANGED <<checkpoint, status, continuation, rows, jobs, answers, plannings, planned>>

-----------------------------------------------------------------------------
(* Planning stores its packages one by one, each under a new id; one with the
   role "infrastructure" raises. *)

Plan == PlanOf[exec.got["scope"]]
SkipIfAnyStored == IF exec.at > 1 \/ rows = <<>> THEN exec.at ELSE Len(Plan) + 1
StoreAt == exec.at

StorePackage ==
  LET p == Plan[StoreAt] IN
  /\ At("store")
  /\ StoreAt <= Len(Plan)
  /\ Len(rows) < Len(NewIds)
  /\ IF p.placed /\ p.infra
     THEN /\ Goto("raised")
          /\ UNCHANGED rows
     ELSE /\ exec' = [exec EXCEPT !.at = @ + 1]
          /\ rows' = IF p.placed
                     THEN Append(rows, [id |-> NewIds[Len(rows) + 1], key |-> p.key,
                                        repair |-> p.repair, patched |-> FALSE, done |-> FALSE])
                     ELSE rows
  /\ UNCHANGED <<metadata, checkpoint, status, continuation, jobs, history, incidents>>

PlanStored ==
  /\ At("store")
  /\ StoreAt > Len(Plan)
  /\ Goto("returned")
  /\ UNCHANGED <<metadata, checkpoint, status, continuation, rows, jobs, history, incidents>>

-----------------------------------------------------------------------------
(* _advance_after_job.                                                      *)

(* The package of a job of type repair is not completed, and completing any
   other may fail with no more than a line of the log.  Requirements that do
   not parse are taken for GO and leave nothing to persist. *)
Repairs(j) == \E i \in DOMAIN rows : rows[i].id = j /\ rows[i].repair

Record ==
  LET j == exec.job IN
  /\ At("returned")
  /\ checkpoint' = IF j \in Phases THEN j ELSE checkpoint
  /\ planned' = IF j = "package_planning" THEN exec.got["scope"] ELSE planned
  /\ \/ /\ Goto(IF j \in Persisting THEN "persist" ELSE "advance")
        /\ rows' = IF Repairs(j) THEN rows ELSE Marked(j, "done")
        /\ UNCHANGED incidents
     \/ /\ \/ j \notin Phases /\ Fault("write")
           \/ j = "requirements_analysis" /\ Fault("refuse")
        /\ Goto("advance")
        /\ UNCHANGED rows
  /\ UNCHANGED <<metadata, status, continuation, jobs, answers, dropped, plannings>>

(* _persist_phase_result: the metadata is read again, behind the checkpoint,
   and an error is only logged. *)
AsStarted == exec.seen
AsStored == metadata

ReadResult ==
  /\ At("persist")
  /\ exec' = [exec EXCEPT !.read = AsStored, !.pc = "persisted"]
  /\ UNCHANGED <<metadata, checkpoint, status, continuation, rows, jobs, history, incidents>>

WriteResult ==
  /\ At("persisted")
  /\ \/ /\ metadata' = [exec.read EXCEPT !.results = @ \cup {exec.job}]
        /\ UNCHANGED incidents
     \/ Fault("write") /\ UNCHANGED metadata
  /\ Goto("advance")
  /\ UNCHANGED <<checkpoint, status, continuation, rows, jobs, history>>

(* advance_run: the jobs that follow the checkpoint, unless they are live or
   the run is released; from is the status it reads. *)
Undone == {rows[i].id : i \in {n \in DOMAIN rows : ~rows[n].done}}
Following ==
  CASE checkpoint = "package_planning" -> IF Undone = {} THEN {"integration"} ELSE Undone
    [] checkpoint \in {"release_candidate", "release_ready"} -> {}
    [] OTHER -> {NextPhase[checkpoint]}

Proceed(from) ==
  LET planningOver == checkpoint = "package_planning" IN
  /\ jobs' = [j \in Jobs |-> IF j \in Following /\ ~Live(j) THEN Queued(jobs[j]) ELSE jobs[j]]
  /\ checkpoint' = CASE checkpoint = "release_candidate" -> "release_ready"
                     [] planningOver /\ Undone = {} -> "wave_completed"
                     [] OTHER -> checkpoint
  /\ status' = IF checkpoint = "release_candidate" THEN "release_ready" ELSE from
  /\ continuation' = CASE planningOver /\ Undone = {} -> "integration"
                       [] planningOver /\ (\E j \in Undone : ~Live(j)) -> "wave_execution"
                       [] OTHER -> continuation

Advance ==
  /\ At("advance")
  /\ IF status = "release_ready" THEN UNCHANGED <<checkpoint, status, continuation, jobs>>
     ELSE Proceed(status)
  /\ Goto("finish")
  /\ UNCHANGED <<metadata, rows, history, incidents>>

(* Blocked or NO_GO: another job of the phase while the phase has retries
   left, else the run is blocked; at once if the handler returns the kind of
   the error and that is an open circuit.  A package's retry job lacks its
   package and always fails. *)
ReturnsErrorKind(j) == j \notin {"architecture_design", "package_planning", "quality"}

Retry ==
  LET j == exec.job
      again == j \in Phases /\ jobs[j].retries < MaxAttempts - 1 IN
  /\ At("refused")
  /\ \/ /\ again
        /\ jobs' = [jobs EXCEPT ![j] = [Queued(jobs[j]) EXCEPT !.retries = jobs[j].retries + 1]]
        /\ UNCHANGED status
     \/ /\ again => ReturnsErrorKind(j)
        /\ jobs' = [jobs EXCEPT ![j].state = "blocked"]
        /\ status' = "blocked"
  /\ exec' = Idle
  /\ UNCHANGED <<metadata, checkpoint, continuation, rows, history, incidents>>

Release(state) ==
  /\ jobs' = [jobs EXCEPT ![exec.job].state = state,
                          ![exec.job].dead = @ \/ state = "dead_letter"]
  /\ exec' = Idle

AgainAtLimit == IF jobs[exec.job].attempts <= MaxAttempts THEN "queued" ELSE "dead_letter"
Again == IF jobs[exec.job].attempts < MaxAttempts THEN "queued" ELSE "dead_letter"

Finish ==
  /\ At("finish")
  /\ Release("completed")
  /\ UNCHANGED <<metadata, checkpoint, status, continuation, rows, history, incidents>>

(* The handler raised: fail_job. *)
Raised ==
  /\ At("raised")
  /\ Release(Again)
  /\ UNCHANGED <<metadata, checkpoint, status, continuation, rows, history, incidents>>

-----------------------------------------------------------------------------
(* Faults.                                                                  *)

(* The worker dies; the sweep gives its job back. *)
Crash ==
  /\ exec.pc # "idle"
  /\ Fault("crash")
  /\ Release(Again)
  /\ IF exec.pc \in {"ask", "read", "write"}
     THEN Drop({k \in Fresh(exec) : At("ask") \/ k \in exec.todo})
     ELSE UNCHANGED dropped
  /\ UNCHANGED <<metadata, checkpoint, status, continuation, rows, answers, plannings, planned>>

(* An API request sets the run running and continues it. *)
Resume ==
  /\ Fault("resume")
  /\ Proceed("running")
  /\ UNCHANGED <<metadata, rows, exec, history>>

-----------------------------------------------------------------------------
(* build_checkpoint_resume_plan: what the page of the run says comes next.  A
   job that waits or runs comes before the packages, and those before the
   checkpoint; pending are the packages that are not completed. *)

PendingAnyRow == {rows[i].id : i \in DOMAIN rows}
Pending == Undone

CheckpointToAction ==
  CASE checkpoint = "package_planning" -> "wave_execution"
    [] checkpoint = "release_candidate" -> "release_ready"
    [] checkpoint = "release_ready" -> continuation
    [] OTHER -> NextPhase[checkpoint]

NextAction ==
  IF \E j \in Jobs : jobs[j].dead THEN "dead_letter_requeue"
  ELSE IF \E j \in Jobs : Live(j) THEN "worker_claim_pending_jobs"
  ELSE IF Pending # {} THEN "worker_claim_package_jobs"
  ELSE CheckpointToAction

-----------------------------------------------------------------------------

Work ==
  \/ \E j \in Jobs : Claim(j)
  \/ \E k \in Kinds \cup {"report"}, v \in Values : Answered(k, v)
  \/ Settle
  \/ ReadCache
  \/ WriteCache
  \/ StorePackage
  \/ PlanStored
  \/ Record
  \/ ReadResult
  \/ WriteResult
  \/ Advance
  \/ Retry
  \/ Finish
  \/ Raised

Next ==
  \/ Work
  \/ \E k \in Kinds \cup {"report"} : Refused(k)
  \/ Crash
  \/ Resume

(* The worker claims the jobs that wait and goes on with the one it has. *)
Fairness == WF_vars(Work)
Spec == Init /\ [][Next]_vars /\ Fairness

-----------------------------------------------------------------------------
(* Properties.                                                              *)

(* The state of the run's row, its packages, its jobs and its executions has
   the shape the handlers of phases/*.py expect. *)
TypeOK ==
  /\ metadata \in [results : SUBSET Persisting, cache : [Kinds -> Values]]
  /\ checkpoint \in Checkpoints
  /\ status \in {"running", "blocked", "release_ready"}
  /\ continuation \in {"none", "wave_execution", "integration"}
  /\ \A i \in DOMAIN rows : rows[i].id = NewIds[i] /\ rows[i].patched \in BOOLEAN /\ rows[i].done \in BOOLEAN
  /\ \A j \in Jobs :
       /\ jobs[j].state \in {"none", "queued", "leased", "completed", "blocked", "dead_letter"}
       /\ jobs[j].attempts \in 0..MaxAttempts
       /\ jobs[j].retries \in 0..MaxAttempts - 1
       /\ jobs[j].state = "dead_letter" => jobs[j].dead
       /\ jobs[j].state = "leased" <=> exec.job = j
  /\ exec.pc \in Points
  /\ exec.asking \subseteq Kinds \cup {"report"}
  /\ exec.todo # {} <=> exec.pc \in {"read", "write"}
  /\ planned \in DOMAIN PlanOf \cup {"none"}

(* Answers are kept (architecture.py:142, planning.py:175): a sub-phase whose
   answer was cached is never paid for again, however often its phase is
   blocked, retried, resumed or repeated after a crash; every further answer
   replaces one that a fault lost. *)
AnswersKept == \A k \in Kinds : answers[k] <= 1 + dropped[k]

(* Nothing is forgotten: the metadata is written back whole from a copy read
   before, by the cache and by _persist_phase_result; no such write loses a
   result or changes a cached answer. *)
NothingForgotten ==
  [][/\ metadata.results \subseteq metadata'.results
     /\ \A k \in Kinds : metadata.cache[k] # "none" =>
          metadata'.cache[k] = metadata.cache[k]]_vars

(* Storing a result may fail silently (pipeline.py:513) and the run goes on
   without it; the gates of quality stop such a run: quality is not recorded
   for a run with packages that lacks its requirements, its architecture or a
   package that was implemented. *)
QualityCatchesLoss ==
  [][checkpoint # "quality" /\ checkpoint' = "quality" /\ rows # <<>> =>
       /\ {"requirements_analysis", "architecture_design"} \subseteq metadata.results
       /\ \E i \in DOMAIN rows : rows[i].patched]_vars

(* Planning stores packages one by one (planning.py:135-147) and is repeated
   from the start: behind it every package of the plan that names a wave of
   the plan is stored, and, unless an answer gives two packages one key, at
   most once for each execution of planning. *)
Copies(key) == Cardinality({i \in DOMAIN rows : rows[i].key = key})
DistinctKeys ==
  \A n \in DOMAIN PlanOf : \A i, k \in DOMAIN PlanOf[n] :
    PlanOf[n][i].key = PlanOf[n][k].key => i = k

PlanIsStored ==
  planned # "none" =>
    \A i \in DOMAIN PlanOf[planned] :
      LET p == PlanOf[planned][i] IN
      /\ p.placed => Copies(p.key) >= 1
      /\ DistinctKeys => Copies(p.key) <= plannings

(* What the page of a run at rest says comes next (kernel.py:84-95) is what
   continuing it does (advance_run): claim jobs of packages that are not
   completed, or enqueue the phase it names.  Three things break this:
   planning that a crash repeats behind later phases, since no phase returns
   to the packages it adds; an earlier phase that a crash repeats behind
   planning and that is blocked, since it has taken the checkpoint back; and
   the release, whose checkpoint the page has no action for: it repeats the
   one the row names since the waves, and continuing does nothing. *)
NoneBlockedBefore ==
  \A j \in {"requirements_analysis", "architecture_design"} : jobs[j].state # "blocked"

ResumePlanTrue ==
  plannings <= 1 /\ NoneBlockedBefore /\ checkpoint # "release_ready" =>
  CASE NextAction \in {"dead_letter_requeue", "worker_claim_pending_jobs"} -> TRUE
    [] NextAction = "worker_claim_package_jobs" -> Following # {} /\ Following \subseteq Undone
    [] NextAction = "wave_execution" -> Following = {"integration"}
    [] NextAction = "release_ready" -> Following = {}
    [] OTHER -> Following = {NextAction}

(* A run never loses its last job: it comes to rest released, or blocked or
   with a dead letter, which an operator sees and can resume
   (pipeline.py:357-400, worker.py:110); or, which nothing shows but the page,
   with a package that was executed and is not completed.  This is one of role
   repair or one whose completion failed (pipeline.py:231-239); two of role
   repair are executed in turn for ever. *)
AtRest == \A j \in Jobs : ~Live(j)
OutOfIds == Len(rows) = Len(NewIds)
TwoRepairs == \E i, k \in DOMAIN rows : i # k /\ rows[i].repair /\ rows[k].repair
Stranded == \E i \in DOMAIN rows : ~rows[i].done /\ jobs[rows[i].id].state = "completed"
Stops ==
  \/ "release_ready" \in {status, checkpoint}
  \/ status = "blocked"
  \/ \E j \in Jobs : jobs[j].state = "dead_letter"
  \/ checkpoint = "package_planning" /\ Stranded
RunSettles == <>[](OutOfIds \/ TwoRepairs \/ (AtRest /\ Stops))
=============================================================================
