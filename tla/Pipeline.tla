------------------------------ MODULE Pipeline ------------------------------
(***************************************************************************)
(* One run on its way through the build pipeline (pipeline.py): phase      *)
(* jobs, waves of work packages, retries, and advance_run, which every     *)
(* finished job and several API requests execute concurrently.             *)
(*                                                                         *)
(* A live row of the jobs table and the worker that executes it are one    *)
(* actor: its pc is "open" from the INSERT until the phase handler has     *)
(* returned, then a point of _advance_after_job or advance_run, and        *)
(* "finish" when only finish_job is left; it is "none" when no live row    *)
(* exists.  Claims, leases and attempts are the subject of JobQueue.       *)
(* Every store call that another actor can notice is a step of its own.    *)
(*                                                                         *)
(* Planning gives every package of its plan a row with a new id, and does  *)
(* so again whenever it is executed again: its early return looks for a    *)
(* key that is never written (planning.py:73-82).  The answers it plans    *)
(* from are kept with the run, so it plans the same packages again; what a *)
(* lost answer does to the plan is the subject of Phases.  The store is    *)
(* the PostgreSQL one, where rows of the same wave_key share their wave.   *)
(***************************************************************************)
EXTENDS Naturals, FiniteSets

CONSTANTS
  Packages,     \* the keys of the packages of the plan
  Ids,          \* the rows of work_packages there may ever be,
  PackageOf,    \* the package each of them is a copy of,
  PlanningOf,   \* and which execution of planning stores it
  MaxPlannings, \* bound on those executions
  WaveOf,       \* position of the wave of each package
  DependsOn,    \* depends_on of each package
  TypeOf,       \* _package_job_type of the role of each package
  FreshKeys,    \* resume keys for retry and repair jobs
  Workers,      \* how many jobs are executed at a time
  Operators,    \* API requests that may be in progress at a time
  Requests,     \* the requests they make
  MaxRetries,   \* max_attempts - 1, the same for every job type
  MaxIncidents, \* bound on the failures, faults and requests explored
  Faults        \* which faults the environment may inject

PackageTypes == {"code_generation", "test_generation", "security_review", "repair"}

(* checkpoint_map of _advance_after_job and next_map of advance_run. *)
Reaches == [
  requirements_analysis |-> "requirements_completed",
  architecture_design   |-> "architecture_completed",
  package_planning      |-> "package_planning_completed",
  integration           |-> "integration_completed",
  code_review           |-> "review_completed",
  quality               |-> "quality_completed",
  release_notes         |-> "release_notes_completed",
  release_candidate     |-> "release_candidate_completed"]

NextPhase == [
  run_created             |-> "requirements_analysis",
  requirements_completed  |-> "architecture_design",
  architecture_completed  |-> "package_planning",
  wave_completed          |-> "integration",
  integration_completed   |-> "code_review",
  review_completed        |-> "quality",
  quality_completed       |-> "release_notes",
  release_notes_completed |-> "release_candidate"]

PhaseTypes == DOMAIN Reaches
JobTypes == PhaseTypes \cup PackageTypes
WaveCheckpoints == {"package_planning_completed", "wave_queued"}
Checkpoints == DOMAIN NextPhase \cup WaveCheckpoints
               \cup {"release_candidate_completed", "release_ready"}

(* The rows of the jobs table, named by what their resume_key holds: a phase,
   a row of work_packages, or a key nobody else has. *)
Rows == PhaseTypes \cup Ids \cup FreshKeys
Actors == Rows \cup Operators \cup {"create_run"}

ASSUME PlanAssumption ==
  /\ IsFiniteSet(Packages)
  /\ WaveOf \in [Packages -> Nat]
  /\ DependsOn \in [Packages -> SUBSET Packages]
  /\ TypeOf \in [Packages -> PackageTypes]
ASSUME IdsAssumption ==
  /\ IsFiniteSet(Ids)
  /\ Ids \cap (PhaseTypes \cup FreshKeys \cup Operators \cup {"create_run"}) = {}
  /\ PackageOf \in [Ids -> Packages]
  /\ PlanningOf \in [Ids -> 1..MaxPlannings]
  /\ \A n \in 1..MaxPlannings, p \in Packages :
       \E i \in Ids : PlanningOf[i] = n /\ PackageOf[i] = p
ASSUME BoundsAssumption ==
  /\ MaxPlannings \in Nat
  /\ Workers \in Nat \ {0}
  /\ MaxRetries \in Nat
  /\ MaxIncidents \in Nat
ASSUME ChoicesAssumption ==
  /\ Requests \subseteq {"resume", "requeue", "cancel", "pause", "repair"}
  /\ Faults \subseteq {"fail", "reject", "abort", "give_up", "unmarked"}

VARIABLES
  run,      \* status, checkpoint and metadata.retry_counts of the run
  stored,   \* the rows of work_packages
  done,     \* those with status completed
  local,    \* point and local variables of each actor
  passed,   \* history: phases whose handler has returned ok
  due,      \* history: the rows there were when planning first did
  plannings, \* executions of planning that have begun to store
  incidents \* failures, faults and requests so far

plan == <<stored, due, plannings>>
vars == <<run, plan, done, local, passed, incidents>>

Terminal == {"completed", "cancelled", "release_ready", "rolled_back"}
RunStatuses == {"queued", "running", "paused", "blocked", "cancelled", "release_ready"}

Points == {"none", "open", "store", "ok", "persist", "persisted", "failed", "counted",
           "retry", "stop", "advance", "packages", "jobs", "insert", "queued",
           "waved", "reread", "phase", "ready", "finish", "created"}

(* retry_counts: a dict that holds the job types that were retried. *)
NoCounts == <<>>
Get(counts, t) == IF t \in DOMAIN counts THEN counts[t] ELSE 0
Increment(counts, t) ==
  [s \in DOMAIN counts \cup {t} |-> IF s = t THEN Get(counts, t) + 1 ELSE counts[s]]

(* An actor at a point of the code with nothing read yet: type is the job
   type of a row, seen the checkpoint that was read, todo the packages to
   enqueue, counts the retry counts that were read. *)
Fresh(point, t) == [pc |-> point, type |-> t, seen |-> "run_created",
                    todo |-> {}, counts |-> NoCounts]
Gone == Fresh("none", "repair")

(* create_run has inserted the first job and not yet set the status. *)
Init ==
  /\ run = [status |-> "queued", checkpoint |-> "run_created", counts |-> NoCounts]
  /\ stored = {}
  /\ done = {}
  /\ local = [a \in Actors |->
       CASE a = "requirements_analysis" -> Fresh("open", a)
         [] a = "create_run" -> Fresh("created", "repair")
         [] OTHER -> Gone]
  /\ passed = {}
  /\ due = {}
  /\ plannings = 0
  /\ incidents = 0

-----------------------------------------------------------------------------
(* What the actions are built from. *)

pc(a) == local[a].pc
type(a) == local[a].type
Live(r) == pc(r) # "none"
Planned == "package_planning" \in passed

Incident == incidents < MaxIncidents /\ incidents' = incidents + 1
Fault(f) == f \in Faults /\ Incident

(* A worker executes one job at a time. *)
Returns(r) ==
  /\ pc(r) = "open"
  /\ Cardinality({b \in Rows : pc(b) \notin {"none", "open"}}) < Workers

(* A job that has executed returns to its worker, a request ends. *)
Rest(a) == IF a \in Rows THEN Fresh("finish", type(a)) ELSE Gone
Leave(a) == local' = [local EXCEPT ![a] = Rest(a)]
Goto(a, point) == local' = [local EXCEPT ![a].pc = point]
Update(field, value) == run' = [run EXCEPT ![field] = value]

(* enqueue_job: a live row with the same resume_key is kept; a fresh key is
   taken from those not in use, which bounds the retries alive at a time. *)
Insert(f, r, t) == IF Live(r) THEN f ELSE [f EXCEPT ![r] = Fresh("open", t)]
UnusedKeys == {k \in FreshKeys : ~Live(k)}
InsertFresh(f, t) ==
  LET k == CHOOSE k \in UnusedKeys : TRUE IN [f EXCEPT ![k] = Fresh("open", t)]

(* _advance_wave_execution works on the first wave with a row that is not
   completed.  In it, a row has to wait until each dependency in its own wave
   is completed; pkg_by_key holds one of the copies of a dependency, whichever
   the unordered listing names last. *)
Open == stored \ done
Wave(i) == WaveOf[PackageOf[i]]
CurrentWave == {i \in Open : \A j \in Open : Wave(i) <= Wave(j)}

PackageKeys == {PackageOf[i] : i \in stored}
Listings == {f \in [PackageKeys -> stored] : \A p \in PackageKeys : PackageOf[f[p]] = p}

DepsStarted(i, byKey) ==
  \A d \in DependsOn[PackageOf[i]] \cap PackageKeys :
    WaveOf[d] = Wave(i) => byKey[d] \in done \/ Live(byKey[d])
DepsSatisfied(i, byKey) ==
  \A d \in DependsOn[PackageOf[i]] \cap PackageKeys :
    WaveOf[d] = Wave(i) => byKey[d] \in done

Runnable(byKey) == {i \in CurrentWave : DepsSatisfied(i, byKey)}

TargetSkipsArchitecture(c) ==
  IF c = "requirements_completed" THEN "package_planning" ELSE NextPhase[c]
TargetSkipsQuality(c) ==
  IF c = "review_completed" THEN "release_notes" ELSE NextPhase[c]
Target(c) == NextPhase[c]

(* Where advance_run goes for the checkpoint it read. *)
PointFor(c) ==
  CASE c \in WaveCheckpoints -> "packages"
    [] c = "release_candidate_completed" -> "ready"
    [] c \in DOMAIN NextPhase -> "phase"
    [] OTHER -> "none"

Follow(a) ==
  IF PointFor(run.checkpoint) = "none" THEN Leave(a)
  ELSE local' = [local EXCEPT ![a] =
         [Fresh(PointFor(run.checkpoint), @.type) EXCEPT !.seen = run.checkpoint]]

-----------------------------------------------------------------------------
(* execute_job: what the phase handler returns. *)

(* A retried or repaired package has no work_package_id, so its handler
   always returns "work_package_not_found". *)
Orphan(a) == a \in FreshKeys /\ type(a) \in PackageTypes

(* "completed" is returned by architecture when its result is there already. *)
HandlerOk(a) ==
  /\ Returns(a)
  /\ ~Orphan(a)
  /\ type(a) # "package_planning"
  /\ \/ Goto(a, "ok")
     \/ /\ type(a) = "architecture_design"
        /\ type(a) \in passed
        /\ run.checkpoint = "architecture_completed"
        /\ Goto(a, "advance")
  /\ passed' = passed \cup ({type(a)} \cap PhaseTypes)
  /\ UNCHANGED <<run, plan, done, incidents>>

(* Planning has its plan, and stores a row for each package. *)
Plan(a) ==
  /\ Returns(a)
  /\ type(a) = "package_planning"
  /\ plannings < MaxPlannings
  /\ plannings' = plannings + 1
  /\ Goto(a, "store")
  /\ UNCHANGED <<run, stored, done, passed, due, incidents>>

ToStore == {i \in Ids : PlanningOf[i] = plannings} \ stored

StorePackage(a) ==
  /\ pc(a) = "store"
  /\ \E i \in ToStore : stored' = stored \cup {i}
  /\ UNCHANGED <<run, done, local, passed, due, plannings, incidents>>

PlanStored(a) ==
  /\ pc(a) = "store"
  /\ ToStore = {}
  /\ Goto(a, "ok")
  /\ passed' = passed \cup {"package_planning"}
  /\ due' = IF Planned THEN due ELSE stored
  /\ UNCHANGED <<run, stored, done, plannings, incidents>>

(* Only "ok" and "completed" advance the run. *)
AdvanceAnyway == "advance"
OnFailure == "failed"

(* Planning falls back to default plans and never returns blocked. *)
HandlerFails(a) ==
  /\ Returns(a)
  /\ type(a) # "package_planning"
  /\ \/ Orphan(a) /\ UNCHANGED incidents
     \/ ~Orphan(a) /\ Fault("fail")
  /\ Goto(a, OnFailure)
  /\ UNCHANGED <<run, plan, done, passed>>

(* error_kind "circuit_open", which architecture and quality do not pass on. *)
HandlerRejected(a) ==
  /\ Returns(a)
  /\ ~Orphan(a)
  /\ type(a) \notin {"architecture_design", "package_planning", "quality"}
  /\ Fault("reject")
  /\ Goto(a, "stop")
  /\ UNCHANGED <<run, plan, done, passed>>

-----------------------------------------------------------------------------
(* _advance_after_job. *)

(* Success: the phase's checkpoint; then _persist_phase_result reads the
   metadata, retry counts included, and writes it back whole. *)
Persists(a) == type(a) \in {"requirements_analysis", "architecture_design", "package_planning"}

RecordPhase(a) ==
  /\ pc(a) = "ok"
  /\ type(a) \in PhaseTypes
  /\ Update("checkpoint", Reaches[type(a)])
  /\ Goto(a, IF Persists(a) THEN "persist" ELSE "advance")
  /\ UNCHANGED <<plan, done, passed, incidents>>

ReadMetadata(a) ==
  /\ pc(a) = "persist"
  /\ local' = [local EXCEPT ![a].pc = "persisted", ![a].counts = run.counts]
  /\ UNCHANGED <<run, plan, done, passed, incidents>>

WriteMetadata(a) ==
  /\ pc(a) = "persisted"
  /\ Update("counts", local[a].counts)
  /\ local' = [local EXCEPT ![a] = Fresh("advance", @.type)]
  /\ UNCHANGED <<plan, done, passed, incidents>>

(* The status of the package's row.  An error of the store is only logged, and
   a package of role repair is not completed. *)
RecordPackage(a) ==
  /\ pc(a) = "ok"
  /\ a \in Ids
  /\ \/ /\ done' = IF type(a) = "repair" THEN done ELSE done \cup {a}
        /\ UNCHANGED incidents
     \/ Fault("unmarked") /\ UNCHANGED done
  /\ Goto(a, "advance")
  /\ UNCHANGED <<run, plan, passed>>

(* Failure: retry_counts is read with the run, and written back whole. *)
OneRetryMore(n) == n <= MaxRetries
RetryLeft(n) == n < MaxRetries

ReadCounts(a) ==
  /\ pc(a) = "failed"
  /\ IF RetryLeft(Get(run.counts, type(a)))
     THEN local' = [local EXCEPT ![a].pc = "counted",
                                 ![a].counts = Increment(run.counts, type(a))]
     ELSE Goto(a, "stop")
  /\ UNCHANGED <<run, plan, done, passed, incidents>>

WriteCounts(a) ==
  /\ pc(a) = "counted"
  /\ Update("counts", local[a].counts)
  /\ local' = [local EXCEPT ![a] = Fresh("retry", @.type)]
  /\ UNCHANGED <<plan, done, passed, incidents>>

EnqueueRetry(a) ==
  /\ pc(a) = "retry"
  /\ UnusedKeys # {}
  /\ local' = InsertFresh([local EXCEPT ![a] = Rest(a)], type(a))
  /\ UNCHANGED <<run, plan, done, passed, incidents>>

Block(a) ==
  /\ pc(a) = "stop"
  /\ Update("status", "blocked")
  /\ Leave(a)
  /\ UNCHANGED <<plan, done, passed, incidents>>

-----------------------------------------------------------------------------
(* advance_run. *)

ReadRun(a) ==
  /\ pc(a) = "advance"
  /\ IF run.status \in Terminal THEN Leave(a) ELSE Follow(a)
  /\ UNCHANGED <<run, plan, done, passed, incidents>>

ReadPackages(a) ==
  /\ pc(a) = "packages"
  /\ IF Open = {} THEN Goto(a, "waved")
     ELSE \E byKey \in Listings :
       local' = [local EXCEPT ![a].pc = "jobs", ![a].todo = Runnable(byKey)]
  /\ UNCHANGED <<run, plan, done, passed, incidents>>

ReadJobs(a) ==
  /\ pc(a) = "jobs"
  /\ LET new == {i \in local[a].todo : ~Live(i)} IN
     local' = [local EXCEPT ![a].todo = new,
                            ![a].pc = IF new = {} THEN "reread" ELSE "insert"]
  /\ UNCHANGED <<run, plan, done, passed, incidents>>

EnqueuePackage(a, i) ==
  /\ pc(a) = "insert"
  /\ i \in local[a].todo
  /\ LET rest == local[a].todo \ {i} IN
     local' = Insert([local EXCEPT ![a].todo = rest,
                                   ![a].pc = IF rest = {} THEN "queued" ELSE @],
                     i, TypeOf[PackageOf[i]])
  /\ UNCHANGED <<run, plan, done, passed, incidents>>

WaveQueued(a) ==
  /\ pc(a) = "queued"
  /\ Update("checkpoint", "wave_queued")
  /\ Goto(a, "reread")
  /\ UNCHANGED <<plan, done, passed, incidents>>

WaveCompleted(a) ==
  /\ pc(a) = "waved"
  /\ Update("checkpoint", "wave_completed")
  /\ Goto(a, "reread")
  /\ UNCHANGED <<plan, done, passed, incidents>>

(* The loop of advance_run: on with the new checkpoint, if it changed. *)
Reread(a) ==
  /\ pc(a) = "reread"
  /\ IF run.checkpoint = local[a].seen THEN Leave(a) ELSE Follow(a)
  /\ UNCHANGED <<run, plan, done, passed, incidents>>

EnqueuePhase(a) ==
  /\ pc(a) = "phase"
  /\ LET t == Target(local[a].seen) IN
     local' = [Insert(local, t, t) EXCEPT ![a] = Rest(a)]
  /\ UNCHANGED <<run, plan, done, passed, incidents>>

Ready(a) ==
  /\ pc(a) = "ready"
  /\ run' = [run EXCEPT !.status = "release_ready", !.checkpoint = "release_ready"]
  /\ Leave(a)
  /\ UNCHANGED <<plan, done, passed, incidents>>

Finish(r) ==
  /\ pc(r) = "finish"
  /\ local' = [local EXCEPT ![r] = Gone]
  /\ UNCHANGED <<run, plan, done, passed, incidents>>

-----------------------------------------------------------------------------
(* create_run's last step, and the API's requests about a run. *)

Created ==
  /\ pc("create_run") = "created"
  /\ Update("status", "running")
  /\ local' = [local EXCEPT !["create_run"] = Gone]
  /\ UNCHANGED <<plan, done, passed, incidents>>

Sets == [resume |-> "running", requeue |-> "queued",
         cancel |-> "cancelled", pause |-> "paused"]

Request(o, q) ==
  /\ ~Live(o)
  /\ q \in Requests \cap DOMAIN Sets
  /\ Incident
  /\ Update("status", Sets[q])
  /\ IF q \in {"resume", "requeue"} THEN Goto(o, "advance") ELSE UNCHANGED local
  /\ UNCHANGED <<plan, done, passed>>

Repair ==
  /\ "repair" \in Requests
  /\ Incident
  /\ UnusedKeys # {}
  /\ local' = InsertFresh(local, "repair")
  /\ UNCHANGED <<run, plan, done, passed>>

-----------------------------------------------------------------------------
(* The environment. *)

(* The execution is cut short by a crash, or by an exception of any store
   call, and the queue hands the job out again. *)
Abort(r) ==
  /\ Fault("abort")
  /\ pc(r) \notin {"none", "open"}
  /\ local' = [local EXCEPT ![r] = Fresh("open", @.type)]
  /\ UNCHANGED <<run, plan, done, passed>>

(* The same, and the job's attempts are used up: dead_letter. *)
GiveUp(r) ==
  /\ Fault("give_up")
  /\ Live(r)
  /\ local' = [local EXCEPT ![r] = Gone]
  /\ UNCHANGED <<run, plan, done, passed>>

-----------------------------------------------------------------------------
AfterJob(r) ==
  \/ HandlerOk(r)
  \/ Plan(r)
  \/ StorePackage(r)
  \/ PlanStored(r)
  \/ HandlerFails(r)
  \/ HandlerRejected(r)
  \/ RecordPhase(r)
  \/ ReadMetadata(r)
  \/ WriteMetadata(r)
  \/ RecordPackage(r)
  \/ ReadCounts(r)
  \/ WriteCounts(r)
  \/ EnqueueRetry(r)
  \/ Block(r)
  \/ Finish(r)

AdvanceRun(a) ==
  \/ ReadRun(a)
  \/ ReadPackages(a)
  \/ ReadJobs(a)
  \/ \E i \in Ids : EnqueuePackage(a, i)
  \/ WaveQueued(a)
  \/ WaveCompleted(a)
  \/ Reread(a)
  \/ EnqueuePhase(a)
  \/ Ready(a)

Next ==
  \/ \E r \in Rows : AfterJob(r) \/ Abort(r) \/ GiveUp(r)
  \/ \E a \in Rows \cup Operators : AdvanceRun(a)
  \/ \E o \in Operators, q \in Requests : Request(o, q)
  \/ Created
  \/ Repair

Spec == Init /\ [][Next]_vars

(* Workers keep claiming and executing, and a request that has begun goes on. *)
FairSpec ==
  /\ Spec
  /\ \A r \in Rows : WF_vars(AfterJob(r))
  /\ \A a \in Rows \cup Operators : WF_vars(AdvanceRun(a))
  /\ WF_vars(Created)

-----------------------------------------------------------------------------
(* Properties. *)

CountsOK(counts) ==
  /\ DOMAIN counts \subseteq JobTypes
  /\ \A t \in DOMAIN counts : counts[t] \in 1..MaxRetries

(* Types: among them, that no retry count exceeds max_attempts - 1 and that
   the run's checkpoint is always one advance_run knows. *)
TypeOK ==
  /\ run.status \in RunStatuses
  /\ run.checkpoint \in Checkpoints
  /\ CountsOK(run.counts)
  /\ stored \in SUBSET Ids
  /\ done \in SUBSET Ids
  /\ \A a \in Actors :
       /\ local[a].pc \in Points
       /\ local[a].type \in JobTypes
       /\ local[a].seen \in Checkpoints
       /\ local[a].todo \in SUBSET Ids
       /\ CountsOK(local[a].counts)
  /\ passed \in SUBSET PhaseTypes
  /\ due \in SUBSET stored
  /\ plannings \in 0..MaxPlannings
  /\ incidents \in 0..MaxIncidents

(* A copy of the package is completed. *)
Built(p) == \E i \in done : PackageOf[i] = p

(* Whatever snapshots concurrent advances work with, and however often
   planning has stored the packages again, no row of a package has a job
   before a copy of each package of an earlier wave, and of each package of
   its own wave that it depends on, is completed (_advance_wave_execution). *)
DependenciesFirst ==
  \A i \in Ids : Live(i) =>
    \A q \in Packages :
      WaveOf[q] < Wave(i) \/ (q \in DependsOn[PackageOf[i]] /\ WaveOf[q] = Wave(i)) => Built(q)

(* The phases in the order of the pipeline. *)
Rank == [
  requirements_analysis |-> 1, architecture_design |-> 2, package_planning |-> 3,
  integration |-> 4, code_review |-> 5, quality |-> 6, release_notes |-> 7,
  release_candidate |-> 8]

Earlier(t) == {s \in PhaseTypes : Rank[s] < Rank[t]}

(* However checkpoints are overwritten by late, repeated or retried jobs, a
   phase has a job only after every earlier phase has succeeded and, behind
   planning, every row there was when planning first succeeded is completed;
   packages only after planning. *)
PhasesInOrder ==
  /\ \A r \in Rows : Live(r) /\ type(r) \in PhaseTypes =>
       /\ Earlier(type(r)) \subseteq passed
       /\ Rank[type(r)] > Rank["package_planning"] => due \subseteq done
  /\ \A i \in Ids : Live(i) => Planned

(* A run is release_ready only when every phase has succeeded and, however
   often the checkpoint went back and forth, every package of the plan is
   built, with every row that the first planning left.  The rows that a later
   planning stores again need not be: nobody reads the packages any more
   between wave_completed and the release. *)
ReleaseEarned ==
  run.status = "release_ready" =>
    /\ passed = PhaseTypes
    /\ due \subseteq done
    /\ \A p \in Packages : Built(p)

(* Every run settles: it becomes release_ready, or blocked for somebody to
   look at. *)
EveryRunSettles == <>(run.status \in {"release_ready", "blocked"})

=============================================================================
