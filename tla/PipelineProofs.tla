--------------------------- MODULE PipelineProofs ---------------------------
(***************************************************************************)
(* Theorems about Pipeline, for any plan, any number of executions of      *)
(* planning, of workers and of API requests, and all faults.  The idea:    *)
(* what has passed and what is done only grows, and the rows that were     *)
(* there when planning first succeeded stay the same, so a checkpoint or a *)
(* list of packages that was justified when an actor read it still is when *)
(* the actor acts on it.                                                   *)
(***************************************************************************)
EXTENDS Pipeline, TLAPS

-----------------------------------------------------------------------------
(* Types.                                                                   *)

Counts == UNION {[T -> 1..MaxRetries] : T \in SUBSET JobTypes}

Run == [status : RunStatuses, checkpoint : Checkpoints, counts : Counts]
Local == [pc : Points, type : JobTypes, seen : Checkpoints,
          todo : SUBSET Ids, counts : Counts]

Typed ==
  /\ run \in Run
  /\ stored \in SUBSET Ids
  /\ done \in SUBSET Ids
  /\ local \in [Actors -> Local]
  /\ passed \in SUBSET PhaseTypes
  /\ due \in SUBSET stored
  /\ plannings \in 0..MaxPlannings
  /\ incidents \in 0..MaxIncidents

-----------------------------------------------------------------------------
(* The invariant.                                                           *)

(* What must have happened before a job of phase t exists, *)
Allowed(t) ==
  /\ Earlier(t) \subseteq passed
  /\ Rank[t] > Rank["package_planning"] => due \subseteq done

(* before a job of row i does, *)
Startable(i) ==
  /\ Planned
  /\ \A q \in Packages :
       WaveOf[q] < Wave(i) \/ (q \in DependsOn[PackageOf[i]] /\ WaveOf[q] = Wave(i)) => Built(q)

AllDone == PhaseTypes \subseteq passed /\ due \subseteq done

(* and before the run reaches checkpoint c. *)
Earned(c) ==
  /\ c \in DOMAIN NextPhase => Allowed(NextPhase[c])
  /\ c \in WaveCheckpoints => Earlier("integration") \subseteq passed
  /\ c \in {"release_candidate_completed", "release_ready"} => AllDone

(* What an actor has read and where it is going is justified. *)
InWaves == {"packages", "jobs", "insert", "queued", "waved"}

Justified(a) ==
  /\ Earned(local[a].seen)
  /\ \A p \in local[a].todo : Startable(p)
  /\ pc(a) \in InWaves => local[a].seen \in WaveCheckpoints
  /\ pc(a) = "waved" => Planned /\ due \subseteq done
  /\ pc(a) = "store" => plannings # 0 /\ type(a) = "package_planning"
  /\ pc(a) = "phase" => local[a].seen \in DOMAIN NextPhase
  /\ pc(a) = "ready" => local[a].seen = "release_candidate_completed"
  /\ pc(a) = "ok" /\ type(a) \in PhaseTypes => type(a) \in passed
  /\ pc(a) # "none" /\ type(a) \in PhaseTypes => Allowed(type(a))
  /\ pc(a) # "none" /\ a \in Ids => Startable(a)
  /\ pc(a) = "none" => type(a) = "repair"

(* Every package has a row that was there when planning first succeeded. *)
Covered == \A p \in Packages : \E i \in due : PackageOf[i] = p

RunJustified ==
  /\ Earned(run.checkpoint)
  /\ Planned => Covered
  /\ run.status = "release_ready" => AllDone

IInv == Typed /\ RunJustified /\ \A a \in Actors : Justified(a)

-----------------------------------------------------------------------------
(* Retry counts.                                                            *)

LEMMA NoCountsTyped == NoCounts \in Counts
<1>1. NoCounts \in [{} -> 1..MaxRetries]
  BY DEF NoCounts
<1> QED
  BY <1>1 DEF Counts

LEMMA CountsChecked == ASSUME NEW c \in Counts PROVE CountsOK(c)
  BY DEF Counts, CountsOK

LEMMA IncrementTyped ==
  ASSUME NEW c \in Counts, NEW t \in JobTypes, RetryLeft(Get(c, t))
  PROVE  Increment(c, t) \in Counts
<1>1. PICK T \in SUBSET JobTypes : c \in [T -> 1..MaxRetries]
  BY DEF Counts
<1>2. Get(c, t) \in Nat /\ Get(c, t) + 1 \in 1..MaxRetries
  BY <1>1, BoundsAssumption DEF Get, RetryLeft
<1>3. Increment(c, t) \in [T \cup {t} -> 1..MaxRetries]
  BY <1>1, <1>2 DEF Increment
<1> QED
  BY <1>3 DEF Counts

-----------------------------------------------------------------------------
(* Nothing is unlearned.                                                    *)

Grows ==
  /\ passed \subseteq passed' /\ done \subseteq done'
  /\ Planned => due' = due
  /\ plannings # 0 => plannings' # 0

(* A phase behind planning is allowed only once planning has succeeded. *)
LEMMA PlannedBefore ==
  ASSUME NEW t, Earlier(t) \subseteq passed, Rank[t] > Rank["package_planning"] PROVE Planned
  BY DEF Earlier, Planned, Rank, PhaseTypes, Reaches

LEMMA AllowedStays ==
  ASSUME Grows, NEW t, Allowed(t) PROVE Allowed(t)'
  BY PlannedBefore DEF Grows, Allowed, Earlier

LEMMA StartableStays ==
  ASSUME Grows, NEW i, Startable(i) PROVE Startable(i)'
  BY DEF Grows, Startable, Planned, Built, Wave

LEMMA EarnedStays ==
  ASSUME Grows, NEW c, Earned(c) PROVE Earned(c)'
<1>1. AllDone => AllDone'
  BY DEF Grows, AllDone, Planned, PhaseTypes, Reaches
<1> QED
  BY <1>1, AllowedStays DEF Grows, Earned, Earlier

LEMMA JustifiedStays ==
  ASSUME Grows, NEW a, Justified(a), local'[a] = local[a] PROVE Justified(a)'
<1>1. PICK l : l = local[a]
  OBVIOUS
<1>2. Earned(l.seen)' /\ (\A p \in l.todo : Startable(p)')
  BY <1>1, EarnedStays, StartableStays DEF Justified
<1>3. l.pc # "none" /\ l.type \in PhaseTypes => Allowed(l.type)'
  BY <1>1, AllowedStays DEF Justified, pc, type
<1>4. l.pc # "none" /\ a \in Ids => Startable(a)'
  BY <1>1, StartableStays DEF Justified, pc
<1>5. (local[a] = l)'
  BY <1>1
<1> QED
  BY <1>1, <1>2, <1>3, <1>4, <1>5 DEF Justified, Grows, Planned, pc, type

(* The steps after which the invariant holds again. *)
LocalOK ==
  /\ local' \in [Actors -> Local]
  /\ \A b \in Actors : local'[b] = local[b] \/ Justified(b)'

RunOK ==
  /\ run' \in Run
  /\ run'.checkpoint = run.checkpoint \/ Earned(run.checkpoint)'
  /\ run'.status = "release_ready" => run.status = "release_ready" \/ AllDone'

HistoryOK ==
  /\ Grows
  /\ Planned' => Planned \/ Covered'
  /\ stored' \in SUBSET Ids /\ due' \in SUBSET stored' /\ plannings' \in 0..MaxPlannings
  /\ done' \in SUBSET Ids /\ passed' \in SUBSET PhaseTypes
  /\ incidents' \in 0..MaxIncidents

LEMMA StepOK == ASSUME IInv, LocalOK, RunOK, HistoryOK PROVE IInv'
<1>1. Typed'
  BY DEF Typed, LocalOK, RunOK, HistoryOK
<1>2. RunJustified'
  <2>1. Earned(run.checkpoint)'
    <3>1. CASE run'.checkpoint = run.checkpoint
      <4>1. PICK c : c = run.checkpoint
        OBVIOUS
      <4>2. Earned(c)'
        BY <4>1, EarnedStays DEF IInv, RunJustified, HistoryOK
      <4> QED
        BY <3>1, <4>1, <4>2
    <3> QED
      BY <3>1 DEF RunOK
  <2>2. Planned' => Covered'
    BY DEF IInv, RunJustified, HistoryOK, Grows, Covered
  <2>3. run'.status = "release_ready" => AllDone'
    BY DEF IInv, RunJustified, RunOK, HistoryOK, Grows, AllDone, Planned, PhaseTypes, Reaches
  <2> QED
    BY <2>1, <2>2, <2>3 DEF RunJustified
<1>3. \A a \in Actors : Justified(a)'
  BY JustifiedStays DEF IInv, LocalOK, HistoryOK
<1> QED
  BY <1>1, <1>2, <1>3 DEF IInv

LEMMA SameRun == ASSUME IInv, run' = run PROVE RunOK
  BY DEF IInv, Typed, RunOK

LEMMA SameHistory ==
  ASSUME IInv, UNCHANGED <<plan, done, passed>>, incidents' = incidents \/ Incident
  PROVE  HistoryOK
  BY BoundsAssumption DEF IInv, Typed, HistoryOK, Grows, Incident, plan, Planned

-----------------------------------------------------------------------------
(* Where an actor may be put without further ado. *)
Plain == Points \ (InWaves \cup {"none", "phase", "ready", "ok", "store"})

LEMMA FreshTyped ==
  ASSUME NEW point \in Points, NEW t \in JobTypes PROVE Fresh(point, t) \in Local
  BY NoCountsTyped DEF Fresh, Local, Checkpoints, NextPhase

LEMMA GoneTyped == Gone \in Local
  BY FreshTyped DEF Gone, Points, JobTypes, PackageTypes

LEMMA FreshJustified ==
  ASSUME NEW a, NEW point \in Plain \cup {"none"}, NEW t \in JobTypes,
         local'[a] = Fresh(point, t), point = "none" => t = "repair",
         point # "none" /\ t \in PhaseTypes => Allowed(t)',
         point # "none" /\ a \in Ids => Startable(a)'
  PROVE  Justified(a)'
<1>1. local'[a].pc = point /\ local'[a].type = t /\ local'[a].seen = "run_created"
      /\ local'[a].todo = {}
  BY DEF Fresh
<1>2. Earned("run_created")'
  BY DEF Earned, Allowed, Earlier, NextPhase, Rank, WaveCheckpoints, PhaseTypes, Reaches
<1>3. Earned(local[a].seen)'
  BY <1>1, <1>2
<1>4. (pc(a) = point)' /\ (type(a) = t)'
  BY <1>1 DEF pc, type
<1>5. (type(a) \in PhaseTypes => Allowed(type(a)))' \/ point = "none"
  BY <1>4
<1> QED
  BY <1>1, <1>3, <1>4, <1>5 DEF Justified, Plain, InWaves

LEMMA GoneJustified == ASSUME NEW a, local'[a] = Gone PROVE Justified(a)'
  BY FreshJustified DEF Gone, JobTypes, PackageTypes

LEMMA AgainJustified ==
  ASSUME IInv, Grows, NEW a \in Actors, pc(a) # "none",
         NEW point \in Plain, local'[a] = Fresh(point, type(a))
  PROVE  Justified(a)'
<1>1. PICK t \in JobTypes : t = type(a)
  BY DEF IInv, Typed, Local, type
<1>2. t \in PhaseTypes => Allowed(t)'
  BY <1>1, AllowedStays DEF IInv, Justified
<1>3. a \in Ids => Startable(a)'
  BY StartableStays DEF IInv, Justified
<1> QED
  BY <1>1, <1>2, <1>3, FreshJustified DEF Plain

LEMMA RestJustified ==
  ASSUME IInv, Grows, NEW a \in Actors, pc(a) # "none", local'[a] = Rest(a)
  PROVE  Justified(a)'
<1>1. CASE a \in Rows
  BY <1>1, AgainJustified DEF Rest, Plain, Points, InWaves
<1>2. CASE a \notin Rows
  BY <1>2, GoneJustified DEF Rest
<1> QED
  BY <1>1, <1>2

LEMMA RestTyped ==
  ASSUME IInv, NEW a \in Actors PROVE Rest(a) \in Local
  BY FreshTyped, GoneTyped DEF IInv, Typed, Local, Rest, type, Points

LEMMA MovedJustified ==
  ASSUME IInv, Grows, NEW a \in Actors, pc(a) # "none", pc(a)' \in Plain, type(a)' = type(a),
         local'[a].seen = local[a].seen,
         local'[a].todo = local[a].todo
  PROVE  Justified(a)'
<1>1. PICK l : l = local[a]
  OBVIOUS
<1>2. Earned(l.seen)' /\ (\A p \in l.todo : Startable(p)')
  BY <1>1, EarnedStays, StartableStays DEF IInv, Justified
<1>3. l.type \in PhaseTypes => Allowed(l.type)'
  BY <1>1, AllowedStays DEF IInv, Justified, pc, type
<1>4. a \in Ids => Startable(a)'
  BY <1>1, StartableStays DEF IInv, Justified, pc
<1>5. (local[a].seen = l.seen)' /\ (type(a) = l.type)' /\ (local[a].todo = l.todo)'
  BY <1>1 DEF type
<1>6. Earned(local[a].seen)' /\ (type(a) \in PhaseTypes => Allowed(type(a)))'
  BY <1>2, <1>3, <1>5
<1> QED
  BY <1>2, <1>4, <1>5, <1>6 DEF Justified, Plain, InWaves

(* A step that changes one actor, which stays typed and justified. *)
LEMMA OneActor ==
  ASSUME IInv, NEW a \in Actors, NEW l \in Local, local' = [local EXCEPT ![a] = l], Justified(a)'
  PROVE  LocalOK
  BY DEF IInv, Typed, LocalOK

LEMMA GotoOK ==
  ASSUME IInv, Grows, NEW a \in Actors, pc(a) # "none", NEW point \in Plain, Goto(a, point)
  PROVE  LocalOK
<1>1. [local[a] EXCEPT !.pc = point] \in Local
  BY DEF IInv, Typed, Local, Plain
<1>2. local' = [local EXCEPT ![a] = [local[a] EXCEPT !.pc = point]]
  BY DEF Goto
<1>3. local'[a] = [local[a] EXCEPT !.pc = point] /\ local[a] \in Local
  BY <1>2 DEF IInv, Typed
<1>4. Justified(a)'
  BY <1>3, MovedJustified DEF Local, pc, type
<1> QED
  BY <1>1, <1>2, <1>4, OneActor

LEMMA AgainOK ==
  ASSUME IInv, Grows, NEW a \in Actors, pc(a) # "none", NEW point \in Plain,
         local' = [local EXCEPT ![a] = Fresh(point, type(a))]
  PROVE  LocalOK
<1>1. Fresh(point, type(a)) \in Local
  BY FreshTyped DEF IInv, Typed, Local, type, Plain
<1>2. local'[a] = Fresh(point, type(a))
  BY DEF IInv, Typed
<1> QED
  BY <1>1, <1>2, AgainJustified, OneActor

LEMMA LeaveOK ==
  ASSUME IInv, Grows, NEW a \in Actors, pc(a) # "none", Leave(a) PROVE LocalOK
<1>1. local'[a] = Rest(a)
  BY DEF Leave, IInv, Typed
<1> QED
  BY <1>1, RestTyped, RestJustified, OneActor DEF Leave

-----------------------------------------------------------------------------
(* _advance_after_job. *)

LEMMA RowsAct == Rows \subseteq Actors /\ Operators \subseteq Actors /\ "create_run" \in Actors
  BY DEF Actors

(* A handler that returns ok: its phase has passed. *)
LEMMA OkOK ==
  ASSUME IInv, Grows, NEW a \in Actors, pc(a) # "none",
         type(a) \in PhaseTypes => type(a) \in passed', Goto(a, "ok")
  PROVE  LocalOK
<1>1. local' = [local EXCEPT ![a] = [local[a] EXCEPT !.pc = "ok"]]
  BY DEF Goto
<1>2. local[a] \in Local /\ [local[a] EXCEPT !.pc = "ok"] \in Local
  BY DEF IInv, Typed, Local, Points
<1>3. PICK l : l = local[a]
  OBVIOUS
<1>4. local'[a] = [l EXCEPT !.pc = "ok"]
  BY <1>1, <1>3 DEF IInv, Typed
<1>5. Earned(l.seen)' /\ (\A i \in l.todo : Startable(i)')
  BY <1>3, EarnedStays, StartableStays DEF IInv, Justified
<1>6. l.type \in PhaseTypes => Allowed(l.type)' /\ l.type \in passed'
  BY <1>3, AllowedStays DEF IInv, Justified, pc, type
<1>7. a \in Ids => Startable(a)'
  BY StartableStays DEF IInv, Justified
<1>8. (local[a].seen = l.seen)' /\ (type(a) = l.type)' /\ (local[a].todo = l.todo)'
      /\ (pc(a) = "ok")'
  BY <1>2, <1>3, <1>4 DEF Local, type, pc
<1>9. Justified(a)'
  <2>1. Earned(local[a].seen)' /\ (type(a) \in PhaseTypes => Allowed(type(a)))'
    BY <1>5, <1>6, <1>8
  <2> QED
    BY <2>1, <1>5, <1>6, <1>7, <1>8 DEF Justified, InWaves
<1> QED
  BY <1>1, <1>2, <1>9, OneActor

LEMMA HandlerOkPreserves == ASSUME IInv, NEW a \in Rows, HandlerOk(a) PROVE IInv'
<1> USE RowsAct
<1>1. pc(a) = "open" /\ RunOK
  BY SameRun DEF HandlerOk, Returns
<1>2. HistoryOK
  BY DEF HandlerOk, plan, HistoryOK, Grows, Planned, IInv, Typed
<1>3. CASE Goto(a, "ok")
  <2>1. type(a) \in PhaseTypes => type(a) \in passed'
    BY DEF HandlerOk
  <2> QED
    BY <1>1, <1>2, <1>3, <2>1, OkOK, StepOK DEF HistoryOK
<1>4. CASE Goto(a, "advance")
  <2>1. LocalOK
    BY <1>1, <1>2, <1>4, GotoOK DEF Plain, Points, InWaves, HistoryOK
  <2> QED
    BY <1>1, <1>2, <2>1, StepOK
<1> QED
  BY <1>3, <1>4 DEF HandlerOk

LEMMA PlanPreserves == ASSUME IInv, NEW a \in Rows, Plan(a) PROVE IInv'
<1> USE RowsAct
<1>1. pc(a) = "open" /\ RunOK
  BY SameRun DEF Plan, Returns
<1>2. HistoryOK /\ plannings' # 0
  BY BoundsAssumption DEF Plan, HistoryOK, Grows, Planned, IInv, Typed
<1>3. PICK l : l = [local[a] EXCEPT !.pc = "store"]
  OBVIOUS
<1>4. l \in Local /\ local[a] \in Local
  BY <1>3 DEF IInv, Typed, Local, Points
<1>5. local' = [local EXCEPT ![a] = l] /\ local'[a] = l
  BY <1>3 DEF Plan, Goto, IInv, Typed
<1>6. l.pc = "store" /\ l.seen = local[a].seen /\ l.type = local[a].type
      /\ l.todo = local[a].todo
  BY <1>3, <1>4 DEF Local
<1>7. Earned(l.seen)' /\ (\A i \in l.todo : Startable(i)')
  BY <1>2, <1>6, EarnedStays, StartableStays DEF HistoryOK, IInv, Justified
<1>8. (l.type \in PhaseTypes => Allowed(l.type)') /\ (a \in Ids => Startable(a)')
  BY <1>1, <1>2, <1>6, AllowedStays, StartableStays DEF HistoryOK, IInv, Justified, type
<1>9. (local[a].seen = l.seen)' /\ (type(a) = l.type)' /\ (pc(a) = "store")'
      /\ (type(a) = "package_planning")'
  BY <1>5, <1>6 DEF Plan, type, pc
<1>10. Earned(local[a].seen)' /\ (type(a) \in PhaseTypes => Allowed(type(a)))'
  BY <1>7, <1>8, <1>9
<1>11. Justified(a)'
  BY <1>2, <1>5, <1>7, <1>8, <1>9, <1>10 DEF Justified, InWaves
<1> QED
  BY <1>1, <1>2, <1>4, <1>5, <1>11, OneActor, StepOK

LEMMA StorePackagePreserves == ASSUME IInv, NEW a \in Rows, StorePackage(a) PROVE IInv'
<1>1. HistoryOK
  BY DEF StorePackage, ToStore, HistoryOK, Grows, Planned, IInv, Typed
<1>2. RunOK /\ LocalOK
  BY SameRun DEF StorePackage, LocalOK, IInv, Typed
<1> QED
  BY <1>1, <1>2, StepOK

(* Planning has stored a row for each package. *)
LEMMA PlanStoredPreserves == ASSUME IInv, NEW a \in Rows, PlanStored(a) PROVE IInv'
<1> USE RowsAct
<1>1. pc(a) = "store" /\ RunOK /\ plannings \in 1..MaxPlannings
  BY SameRun, BoundsAssumption DEF PlanStored, IInv, Typed, Justified
<1>2. \A p \in Packages : \E i \in stored : PackageOf[i] = p
  BY <1>1, IdsAssumption DEF PlanStored, ToStore
<1>3. Covered' \/ Planned
  BY <1>2 DEF PlanStored, Covered
<1>4. HistoryOK
  BY <1>3 DEF PlanStored, HistoryOK, Grows, Planned, IInv, Typed, PhaseTypes, Reaches
<1>5. type(a) \in PhaseTypes => type(a) \in passed'
  BY DEF PlanStored, IInv, Justified
<1> QED
  BY <1>1, <1>4, <1>5, OkOK, StepOK DEF PlanStored, HistoryOK

LEMMA HandlerFailsPreserves ==
  ASSUME IInv, NEW a \in Rows, HandlerFails(a) \/ HandlerRejected(a) PROVE IInv'
<1>1. pc(a) = "open" /\ RunOK /\ HistoryOK
  BY SameRun, SameHistory DEF HandlerFails, HandlerRejected, Returns, Fault
<1>2. LocalOK
  BY <1>1, RowsAct, GotoOK
     DEF HandlerFails, HandlerRejected, OnFailure, Plain, Points, InWaves, HistoryOK
<1> QED
  BY <1>1, <1>2, StepOK

(* A phase that was allowed and has passed has earned its checkpoint. *)
LEMMA PhaseEarns ==
  ASSUME NEW t \in PhaseTypes, Allowed(t), t \in passed PROVE Earned(Reaches[t])
  BY DEF PhaseTypes, Reaches, Allowed, Earned, AllDone, Earlier, Rank, NextPhase, WaveCheckpoints

LEMMA RecordPhasePreserves == ASSUME IInv, NEW a \in Rows, RecordPhase(a) PROVE IInv'
<1>1. HistoryOK
  BY SameHistory DEF RecordPhase
<1>2. PICK t \in PhaseTypes : t = type(a)
  BY DEF RecordPhase
<1>3. Earned(Reaches[t])
  BY <1>2, RowsAct, PhaseEarns DEF RecordPhase, IInv, Justified
<1>4. Reaches[t] \in Checkpoints
  BY DEF PhaseTypes, Reaches, Checkpoints, NextPhase, WaveCheckpoints
<1>5. run' = [run EXCEPT !.checkpoint = Reaches[t]]
  BY <1>2 DEF RecordPhase, Update
<1>6. run' \in Run /\ run'.checkpoint = Reaches[t] /\ run'.status = run.status
  BY <1>4, <1>5 DEF IInv, Typed, Run
<1>7. Earned(Reaches[t])'
  BY <1>1, <1>3, EarnedStays DEF HistoryOK
<1>8. RunOK
  BY <1>6, <1>7 DEF RunOK, Earned
<1>9. LocalOK
  BY <1>1, RowsAct, GotoOK DEF RecordPhase, HistoryOK, Plain, Points, InWaves
<1> QED
  BY <1>1, <1>8, <1>9, StepOK

LEMMA MetadataPreserves ==
  ASSUME IInv, NEW a \in Rows, ReadMetadata(a) \/ WriteMetadata(a) PROVE IInv'
<1>1. HistoryOK
  BY SameHistory DEF ReadMetadata, WriteMetadata
<1>2. CASE ReadMetadata(a)
  <2>1. PICK l : l = [local[a] EXCEPT !.pc = "persisted", !.counts = run.counts]
    OBVIOUS
  <2>2. l \in Local /\ local[a] \in Local
    BY <2>1, RowsAct DEF IInv, Typed, Local, Run, Points
  <2>3. local' = [local EXCEPT ![a] = l]
    BY <1>2, <2>1 DEF ReadMetadata
  <2>4. local'[a] = l
    BY <2>3, RowsAct DEF IInv, Typed
  <2>5. Justified(a)'
    BY <1>1, <1>2, <2>1, <2>2, <2>4, RowsAct, MovedJustified
       DEF ReadMetadata, HistoryOK, Plain, Points, InWaves, Local, pc, type
  <2> QED
    BY <1>1, <1>2, <2>2, <2>3, <2>5, RowsAct, OneActor, SameRun, StepOK DEF ReadMetadata
<1>3. CASE WriteMetadata(a)
  <2>1. LocalOK
    BY <1>1, <1>3, RowsAct, AgainOK
       DEF WriteMetadata, HistoryOK, Plain, Points, InWaves, pc, type
  <2>2. RunOK
    BY <1>3, RowsAct DEF WriteMetadata, Update, RunOK, IInv, Typed, Run, Local
  <2> QED
    BY <1>1, <2>1, <2>2, StepOK
<1> QED
  BY <1>2, <1>3

LEMMA RecordPackagePreserves == ASSUME IInv, NEW a \in Rows, RecordPackage(a) PROVE IInv'
<1>1. HistoryOK
  BY BoundsAssumption
     DEF RecordPackage, HistoryOK, Grows, IInv, Typed, Fault, Incident, plan, Planned
<1>2. RunOK
  BY SameRun DEF RecordPackage
<1>3. LocalOK
  BY <1>1, RowsAct, GotoOK DEF RecordPackage, HistoryOK, Plain, Points, InWaves
<1> QED
  BY <1>1, <1>2, <1>3, StepOK

LEMMA ReadCountsPreserves == ASSUME IInv, NEW a \in Rows, ReadCounts(a) PROVE IInv'
<1>1. HistoryOK /\ RunOK /\ pc(a) = "failed"
  BY SameHistory, SameRun DEF ReadCounts
<1>2. CASE RetryLeft(Get(run.counts, type(a)))
  <2>1. PICK l : l = [local[a] EXCEPT !.pc = "counted", !.counts = Increment(run.counts, type(a))]
    OBVIOUS
  <2>2. l \in Local /\ local[a] \in Local
    <3>1. Increment(run.counts, type(a)) \in Counts
      BY <1>2, RowsAct, IncrementTyped DEF IInv, Typed, Run, Local, type
    <3> QED
      BY <2>1, <3>1, RowsAct DEF IInv, Typed, Local, Points
  <2>3. local' = [local EXCEPT ![a] = l]
    BY <1>2, <2>1 DEF ReadCounts
  <2>4. local'[a] = l
    BY <2>3, RowsAct DEF IInv, Typed
  <2>5. Justified(a)'
    BY <1>1, <2>1, <2>2, <2>4, RowsAct, MovedJustified
       DEF HistoryOK, Plain, Points, InWaves, Local, pc, type
  <2> QED
    BY <1>1, <2>2, <2>3, <2>5, RowsAct, OneActor, StepOK
<1>3. CASE ~RetryLeft(Get(run.counts, type(a)))
  <2>1. LocalOK
    BY <1>1, <1>3, RowsAct, GotoOK DEF ReadCounts, HistoryOK, Plain, Points, InWaves
  <2> QED
    BY <1>1, <2>1, StepOK
<1> QED
  BY <1>2, <1>3

LEMMA WriteCountsPreserves == ASSUME IInv, NEW a \in Rows, WriteCounts(a) PROVE IInv'
<1>1. HistoryOK
  BY SameHistory DEF WriteCounts
<1>2. LocalOK
  BY <1>1, RowsAct, AgainOK DEF WriteCounts, HistoryOK, Plain, Points, InWaves, pc, type
<1>3. RunOK
  BY RowsAct DEF WriteCounts, Update, RunOK, IInv, Typed, Run, Local
<1> QED
  BY <1>1, <1>2, <1>3, StepOK

(* A job under a key nobody has. *)
LEMMA FreshKeyOK ==
  ASSUME IInv, Grows, NEW t \in JobTypes, t \in PhaseTypes => Allowed(t)', UnusedKeys # {},
         NEW f \in [Actors -> Local],
         \A b \in Actors : f[b] = local[b] \/ (pc(b) # "none" /\ f[b] = Rest(b)),
         local' = InsertFresh(f, t)
  PROVE  LocalOK
<1>1. PICK k \in FreshKeys : local' = [f EXCEPT ![k] = Fresh("open", t)]
  BY DEF InsertFresh, UnusedKeys
<1>2. k \in Actors /\ k \notin Ids
  BY IdsAssumption DEF Actors, Rows
<1>3. Fresh("open", t) \in Local
  BY FreshTyped DEF Points
<1>4. local'[k] = Fresh("open", t) /\ local' \in [Actors -> Local]
  BY <1>1, <1>2, <1>3
<1>5. Justified(k)'
  BY <1>2, <1>4, FreshJustified DEF Plain, Points, InWaves
<1>6. ASSUME NEW b \in Actors PROVE local'[b] = local[b] \/ Justified(b)'
  <2>1. CASE b = k
    BY <1>5, <2>1
  <2>2. CASE b # k
    <3>1. local'[b] = f[b]
      BY <1>1, <2>2
    <3> QED
      BY <3>1, RestJustified
  <2> QED
    BY <2>1, <2>2
<1> QED
  BY <1>4, <1>6 DEF LocalOK

LEMMA EnqueueRetryPreserves == ASSUME IInv, NEW a \in Rows, EnqueueRetry(a) PROVE IInv'
<1>1. HistoryOK /\ RunOK
  BY SameHistory, SameRun DEF EnqueueRetry
<1>2. PICK t \in JobTypes : t = type(a)
  BY RowsAct DEF IInv, Typed, Local, type
<1>3. t \in PhaseTypes => Allowed(t)'
  BY <1>1, <1>2, RowsAct, AllowedStays DEF EnqueueRetry, HistoryOK, IInv, Justified
<1>4. [local EXCEPT ![a] = Rest(a)] \in [Actors -> Local]
  BY RowsAct, RestTyped DEF IInv, Typed
<1>5. LocalOK
  BY <1>1, <1>2, <1>3, <1>4, RowsAct, FreshKeyOK DEF EnqueueRetry, HistoryOK, IInv, Typed
<1> QED
  BY <1>1, <1>5, StepOK

LEMMA BlockPreserves == ASSUME IInv, NEW a \in Rows, Block(a) PROVE IInv'
<1>1. HistoryOK
  BY SameHistory DEF Block
<1>2. LocalOK
  BY <1>1, RowsAct, LeaveOK DEF Block, HistoryOK
<1>3. RunOK
  BY DEF Block, Update, RunOK, IInv, Typed, Run, RunStatuses
<1> QED
  BY <1>1, <1>2, <1>3, StepOK

LEMMA FinishPreserves == ASSUME IInv, NEW a \in Rows, Finish(a) PROVE IInv'
<1>1. HistoryOK /\ RunOK
  BY SameHistory, SameRun DEF Finish
<1>2. local'[a] = Gone
  BY RowsAct DEF Finish, IInv, Typed
<1>3. LocalOK
  BY <1>2, RowsAct, GoneTyped, GoneJustified, OneActor DEF Finish
<1> QED
  BY <1>1, <1>3, StepOK

-----------------------------------------------------------------------------
(* advance_run. *)

(* What is runnable may start, whichever copies the listing names last:
   packages completed since then only help. *)
LEMMA RunnableStartable ==
  ASSUME IInv, Planned, NEW byKey \in Listings, NEW i \in Runnable(byKey)
  PROVE  i \in Ids /\ Startable(i)
<1>1. i \in Open /\ \A j \in Open : Wave(i) <= Wave(j)
  BY DEF Runnable, CurrentWave
<1>2. Wave(i) \in Nat /\ i \in Ids /\ stored \subseteq Ids
  BY <1>1, IdsAssumption, PlanAssumption DEF Open, Wave, IInv, Typed
<1>3. \A q \in Packages : \E j \in stored : PackageOf[j] = q
  BY DEF IInv, Typed, RunJustified, Covered
<1>4. ASSUME NEW q \in Packages, WaveOf[q] < Wave(i) PROVE Built(q)
  <2>1. PICK j \in stored : PackageOf[j] = q
    BY <1>3
  <2>2. WaveOf[q] \in Nat
    BY PlanAssumption
  <2>3. j \notin Open
    BY <1>1, <1>2, <1>4, <2>1, <2>2 DEF Wave
  <2> QED
    BY <2>1, <2>3 DEF Open, Built
<1>5. ASSUME NEW q \in Packages, q \in DependsOn[PackageOf[i]], WaveOf[q] = Wave(i) PROVE Built(q)
  <2>1. q \in PackageKeys
    BY <1>3 DEF PackageKeys
  <2>2. PackageOf[byKey[q]] = q
    BY <2>1 DEF Listings
  <2>3. byKey[q] \in done
    BY <1>5, <2>1 DEF Runnable, DepsSatisfied
  <2> QED
    BY <2>2, <2>3 DEF Built
<1> QED
  BY <1>2, <1>4, <1>5 DEF Startable

(* The following steps leave the packages, what has passed and what is done
   as it is. *)
Still == UNCHANGED <<plan, done, passed>>

LEMMA StillSame ==
  ASSUME Still PROVE Grows /\ (\A c : Earned(c) => Earned(c)') /\ (\A p : Startable(p) => Startable(p)')
  BY EarnedStays, StartableStays DEF Still, Grows, plan

LEMMA FollowOK ==
  ASSUME IInv, Still, NEW a \in Actors, pc(a) # "none", Follow(a) PROVE LocalOK
<1>1. PICK c \in Checkpoints : c = run.checkpoint
  BY DEF IInv, Typed, Run
<1>2. PICK t \in JobTypes : t = type(a)
  BY DEF IInv, Typed, Local, type
<1>3. CASE PointFor(c) = "none"
  BY <1>1, <1>3, StillSame, LeaveOK DEF Follow
<1>4. CASE PointFor(c) # "none"
  <2>1. PICK l : l = [Fresh(PointFor(c), t) EXCEPT !.seen = c]
    OBVIOUS
  <2>2. PointFor(c) \in {"packages", "ready", "phase"}
        /\ (PointFor(c) = "packages" => c \in WaveCheckpoints)
        /\ (PointFor(c) = "ready" => c = "release_candidate_completed")
        /\ (PointFor(c) = "phase" => c \in DOMAIN NextPhase)
    BY <1>4 DEF PointFor
  <2>3. l \in Local
    BY <1>1, <1>2, <2>1, <2>2, FreshTyped DEF Local, Points
  <2>4. l.pc = PointFor(c) /\ l.type = t /\ l.seen = c /\ l.todo = {}
    BY <2>1 DEF Fresh
  <2>5. local' = [local EXCEPT ![a] = l]
    BY <1>1, <1>2, <1>4, <2>1 DEF Follow, type
  <2>6. local'[a] = l
    BY <2>5 DEF IInv, Typed
  <2>7. Earned(c)'
    BY <1>1, StillSame DEF IInv, RunJustified
  <2>8. (t \in PhaseTypes => Allowed(t)') /\ (a \in Ids => Startable(a)')
    BY <1>2, StillSame, AllowedStays DEF IInv, Justified
  <2>9. (local[a].seen = c)' /\ (type(a) = t)' /\ (pc(a) = PointFor(c))'
    BY <2>4, <2>6 DEF type, pc, PointFor
  <2>10. Earned(local[a].seen)' /\ (type(a) \in PhaseTypes => Allowed(type(a)))'
    BY <2>7, <2>8, <2>9
  <2>11. Justified(a)'
    BY <2>2, <2>4, <2>6, <2>8, <2>10 DEF Justified, InWaves, pc
  <2> QED
    BY <2>3, <2>5, <2>11, OneActor
<1> QED
  BY <1>3, <1>4

LEMMA ReadRunPreserves ==
  ASSUME IInv, NEW a \in Actors, ReadRun(a) \/ Reread(a) PROVE IInv'
<1>1. Still /\ HistoryOK /\ RunOK /\ pc(a) # "none"
  BY SameHistory, SameRun DEF ReadRun, Reread, Still
<1>2. LocalOK
  BY <1>1, StillSame, FollowOK, LeaveOK DEF ReadRun, Reread
<1> QED
  BY <1>1, <1>2, StepOK

(* An actor in the waves reads on: its row, its type and the checkpoint it
   has seen stay. *)
LEMMA WaveStepJustified ==
  ASSUME IInv, Still, NEW a \in Actors, pc(a) \in InWaves, NEW l \in Local,
         l.type = type(a), l.seen = local[a].seen,
         l.pc \in InWaves \cup {"reread"}, l.pc = "waved" => Planned /\ due \subseteq done,
         \A p \in l.todo : Startable(p), local'[a] = l
  PROVE  Justified(a)'
<1>1. Earned(l.seen)' /\ \A p \in l.todo : Startable(p)'
  BY StillSame DEF IInv, Justified
<1>2. (l.type \in PhaseTypes => Allowed(l.type)') /\ (a \in Ids => Startable(a)')
  <2>1. PICK t : t = l.type
    OBVIOUS
  <2>2. t \in PhaseTypes => Allowed(t)'
    BY <2>1, StillSame, AllowedStays DEF IInv, Justified, InWaves
  <2> QED
    BY <2>1, <2>2, StillSame DEF IInv, Justified, InWaves
<1>3. (local[a].seen = l.seen)' /\ (type(a) = l.type)'
  BY DEF type
<1>4. Earned(local[a].seen)' /\ (type(a) \in PhaseTypes => Allowed(type(a)))'
  BY <1>1, <1>2, <1>3
<1>5. l.seen \in WaveCheckpoints
  BY DEF IInv, Justified
<1> QED
  BY <1>1, <1>2, <1>4, <1>5 DEF Justified, InWaves, Still, plan, Planned, pc

LEMMA ReadPackagesPreserves ==
  ASSUME IInv, NEW a \in Actors, ReadPackages(a) PROVE IInv'
<1>1. Still /\ HistoryOK /\ RunOK
  BY SameHistory, SameRun DEF ReadPackages, Still
<1>2. Planned
  BY DEF IInv, Justified, ReadPackages, InWaves, Earned, Earlier, Rank, Planned, PhaseTypes, Reaches
<1>3. CASE Open = {}
  <2>1. PICK l : l = [local[a] EXCEPT !.pc = "waved"]
    OBVIOUS
  <2>2. l \in Local /\ local[a] \in Local
    BY <2>1 DEF IInv, Typed, Local, Points
  <2>3. local' = [local EXCEPT ![a] = l] /\ local'[a] = l
    BY <1>3, <2>1 DEF ReadPackages, Goto, IInv, Typed
  <2>4. \A i \in l.todo : Startable(i)
    BY <2>1, <2>2 DEF IInv, Justified, Local
  <2>5. due \subseteq done
    BY <1>3 DEF Open, IInv, Typed
  <2>6. Justified(a)'
    BY <1>1, <1>2, <2>1, <2>2, <2>3, <2>4, <2>5, WaveStepJustified
       DEF ReadPackages, InWaves, Local, pc, type
  <2> QED
    BY <1>1, <2>2, <2>3, <2>6, OneActor, StepOK
<1>4. CASE Open # {}
  <2>1. PICK byKey \in Listings :
          local' = [local EXCEPT ![a].pc = "jobs", ![a].todo = Runnable(byKey)]
    BY <1>4 DEF ReadPackages
  <2>2. PICK new : new = Runnable(byKey)
    OBVIOUS
  <2>3. \A i \in new : i \in Ids /\ Startable(i)
    BY <1>2, <2>2, RunnableStartable
  <2>4. PICK l : l = [local[a] EXCEPT !.pc = "jobs", !.todo = new]
    OBVIOUS
  <2>5. l \in Local /\ local[a] \in Local
    BY <2>3, <2>4 DEF IInv, Typed, Local, Points
  <2>6. local' = [local EXCEPT ![a] = l] /\ local'[a] = l
    BY <2>1, <2>2, <2>4 DEF IInv, Typed
  <2>7. Justified(a)'
    BY <1>1, <2>3, <2>4, <2>5, <2>6, WaveStepJustified DEF ReadPackages, InWaves, Local, pc, type
  <2> QED
    BY <1>1, <2>5, <2>6, <2>7, OneActor, StepOK
<1> QED
  BY <1>3, <1>4

LEMMA ReadJobsPreserves == ASSUME IInv, NEW a \in Actors, ReadJobs(a) PROVE IInv'
<1>1. Still /\ HistoryOK /\ RunOK
  BY SameHistory, SameRun DEF ReadJobs, Still
<1>2. PICK new : new = {i \in local[a].todo : ~Live(i)}
  OBVIOUS
<1>3. PICK l : l = [local[a] EXCEPT !.todo = new, !.pc = IF new = {} THEN "reread" ELSE "insert"]
  OBVIOUS
<1>4. l \in Local /\ local[a] \in Local
  BY <1>2, <1>3 DEF IInv, Typed, Local, Points
<1>5. \A i \in new : Startable(i)
  BY <1>2 DEF IInv, Justified
<1>6. local' = [local EXCEPT ![a] = l] /\ local'[a] = l
  BY <1>2, <1>3 DEF ReadJobs, IInv, Typed
<1>7. Justified(a)'
  BY <1>1, <1>3, <1>4, <1>5, <1>6, WaveStepJustified DEF ReadJobs, InWaves, Local, pc, type
<1> QED
  BY <1>1, <1>4, <1>6, <1>7, OneActor, StepOK

LEMMA EnqueuePackagePreserves ==
  ASSUME IInv, NEW a \in Actors, NEW p \in Ids, EnqueuePackage(a, p) PROVE IInv'
<1>1. Still /\ HistoryOK /\ RunOK
  BY SameHistory, SameRun DEF EnqueuePackage, Still
<1>2. PICK l : l = [local[a] EXCEPT !.todo = local[a].todo \ {p},
         !.pc = IF local[a].todo \ {p} = {} THEN "queued" ELSE @]
  OBVIOUS
<1>3. l \in Local /\ local[a] \in Local
  BY <1>2 DEF IInv, Typed, Local, Points
<1>4. PICK f : f = [local EXCEPT ![a] = l]
  OBVIOUS
<1>5. local' = Insert(f, p, TypeOf[PackageOf[p]])
  BY <1>2, <1>4 DEF EnqueuePackage
<1>6. \A q \in l.todo : Startable(q)
  BY <1>2, <1>3 DEF IInv, Justified, Local
<1>7. Startable(p)'
  BY <1>1, StillSame DEF EnqueuePackage, IInv, Justified
<1>8. a # p \/ Live(p)
  BY DEF EnqueuePackage, Live
<1>9. local'[a] = l
  BY <1>4, <1>5, <1>8 DEF Insert, IInv, Typed
<1>10. Justified(a)'
  <2>1. l.type = type(a) /\ l.seen = local[a].seen /\ l.pc \in {"insert", "queued"}
    BY <1>2, <1>3 DEF EnqueuePackage, Local, pc, type
  <2> QED
    BY <1>1, <1>3, <1>6, <1>9, <2>1, WaveStepJustified DEF EnqueuePackage, InWaves
<1>11. p \in Actors /\ TypeOf[PackageOf[p]] \in JobTypes /\ TypeOf[PackageOf[p]] \notin PhaseTypes
  BY PlanAssumption, IdsAssumption DEF Actors, Rows, JobTypes, PackageTypes, PhaseTypes, Reaches
<1>12. Fresh("open", TypeOf[PackageOf[p]]) \in Local
  BY <1>11, FreshTyped DEF Points
<1>13. local' \in [Actors -> Local]
  BY <1>3, <1>4, <1>5, <1>12 DEF Insert, IInv, Typed
<1>14. local'[p] = local[p] \/ Justified(p)'
  <2>1. CASE a = p
    BY <1>10, <2>1
  <2>2. CASE a # p /\ Live(p)
    BY <1>4, <1>5, <2>2 DEF Insert, IInv, Typed
  <2>3. CASE ~Live(p)
    <3>1. local'[p] = Fresh("open", TypeOf[PackageOf[p]])
      BY <1>4, <1>5, <1>11, <2>3 DEF Insert, IInv, Typed
    <3> QED
      BY <1>7, <1>11, <3>1, FreshJustified DEF Plain, Points, InWaves
  <2> QED
    BY <2>1, <2>2, <2>3
<1>15. \A b \in Actors : b # a /\ b # p => local'[b] = local[b]
  BY <1>4, <1>5 DEF Insert, IInv, Typed
<1>16. LocalOK
  BY <1>10, <1>13, <1>14, <1>15 DEF LocalOK
<1> QED
  BY <1>1, <1>16, StepOK

LEMMA WaveQueuedPreserves ==
  ASSUME IInv, NEW a \in Actors, WaveQueued(a) \/ WaveCompleted(a) PROVE IInv'
<1>1. Still /\ HistoryOK
  BY SameHistory DEF WaveQueued, WaveCompleted, Still
<1>2. Earlier("integration") \subseteq passed
  BY DEF WaveQueued, WaveCompleted, IInv, Justified, InWaves, Earned
<1>3. CASE WaveQueued(a)
  <2>1. LocalOK
    BY <1>1, <1>3, GotoOK DEF WaveQueued, HistoryOK, Plain, Points, InWaves
  <2>2. Earned("wave_queued")
    BY <1>2 DEF Earned, WaveCheckpoints, NextPhase
  <2>3. Earned("wave_queued")'
    BY <1>1, <2>2, StillSame
  <2>4. run' \in Run /\ run'.checkpoint = "wave_queued" /\ run'.status = run.status
    BY <1>3 DEF WaveQueued, Update, IInv, Typed, Run, Checkpoints, WaveCheckpoints
  <2>5. RunOK
    BY <2>3, <2>4 DEF RunOK, Earned
  <2> QED
    BY <1>1, <2>1, <2>5, StepOK
<1>4. CASE WaveCompleted(a)
  <2>1. LocalOK
    BY <1>1, <1>4, GotoOK DEF WaveCompleted, HistoryOK, Plain, Points, InWaves
  <2>6. due \subseteq done
    BY <1>4 DEF WaveCompleted, IInv, Justified
  <2>7. Earned("wave_completed")
    BY <1>2, <2>6 DEF Earned, WaveCheckpoints, NextPhase, Allowed
  <2>8. Earned("wave_completed")'
    BY <1>1, <2>7, StillSame
  <2>9. run' \in Run /\ run'.checkpoint = "wave_completed" /\ run'.status = run.status
    BY <1>4 DEF WaveCompleted, Update, IInv, Typed, Run, Checkpoints, NextPhase
  <2>10. RunOK
    BY <2>8, <2>9 DEF RunOK, Earned
  <2> QED
    BY <1>1, <2>1, <2>10, StepOK
<1> QED
  BY <1>3, <1>4

LEMMA EnqueuePhasePreserves ==
  ASSUME IInv, NEW a \in Actors, EnqueuePhase(a) PROVE IInv'
<1>1. Still /\ HistoryOK /\ RunOK
  BY SameHistory, SameRun DEF EnqueuePhase, Still
<1>2. PICK c \in DOMAIN NextPhase : c = local[a].seen
  BY DEF EnqueuePhase, IInv, Justified
<1>3. PICK t : t = NextPhase[c]
  OBVIOUS
<1>4. t \in PhaseTypes
  BY <1>3 DEF NextPhase, PhaseTypes, Reaches
<1>5. Allowed(t)
  BY <1>2, <1>3 DEF IInv, Justified, Earned
<1>6. t \in Actors /\ t \in JobTypes /\ t \notin Ids
  BY <1>4, IdsAssumption DEF Actors, Rows, JobTypes
<1>7. local' = [Insert(local, t, t) EXCEPT ![a] = Rest(a)]
  BY <1>2, <1>3 DEF EnqueuePhase, Target
<1>8. Rest(a) \in Local /\ Fresh("open", t) \in Local
  BY <1>6, RestTyped, FreshTyped DEF Points
<1>9. local' \in [Actors -> Local] /\ local'[a] = Rest(a)
  BY <1>6, <1>7, <1>8 DEF Insert, IInv, Typed
<1>10. Justified(a)'
  BY <1>1, <1>9, RestJustified, StillSame DEF EnqueuePhase
<1>11. ASSUME NEW b \in Actors, b # a PROVE local'[b] = local[b] \/ Justified(b)'
  <2>1. CASE b = t /\ ~Live(t)
    <3>1. local'[b] = Fresh("open", t)
      BY <1>7, <1>11, <2>1 DEF Insert, IInv, Typed
    <3>2. Allowed(t)'
      BY <1>1, <1>5, StillSame, AllowedStays
    <3> QED
      BY <1>6, <2>1, <3>1, <3>2, FreshJustified DEF Plain, Points, InWaves
  <2>2. CASE b # t \/ Live(t)
    BY <1>7, <1>11, <2>2 DEF Insert, IInv, Typed
  <2> QED
    BY <2>1, <2>2
<1>12. LocalOK
  BY <1>9, <1>10, <1>11 DEF LocalOK
<1> QED
  BY <1>1, <1>12, StepOK

LEMMA ReadyPreserves == ASSUME IInv, NEW a \in Actors, Ready(a) PROVE IInv'
<1>1. Still /\ HistoryOK
  BY SameHistory DEF Ready, Still
<1>2. AllDone /\ AllDone'
  BY <1>1 DEF Ready, IInv, Justified, Earned, AllDone, Still, plan
<1>3. RunOK
  BY <1>2 DEF Ready, RunOK, Earned, IInv, Typed, Run, RunStatuses, Checkpoints, NextPhase,
              WaveCheckpoints
<1>4. LocalOK
  BY <1>1, StillSame, LeaveOK DEF Ready
<1> QED
  BY <1>1, <1>3, <1>4, StepOK

-----------------------------------------------------------------------------
(* Requests and the environment. *)

LEMMA CreatedPreserves == ASSUME IInv, Created PROVE IInv'
<1>1. HistoryOK
  BY SameHistory DEF Created
<1>2. RunOK
  BY DEF Created, Update, RunOK, IInv, Typed, Run, RunStatuses
<1>3. local'["create_run"] = Gone
  BY RowsAct DEF Created, IInv, Typed
<1>4. LocalOK
  BY <1>3, RowsAct, GoneTyped, GoneJustified, OneActor DEF Created
<1> QED
  BY <1>1, <1>2, <1>4, StepOK

LEMMA RequestPreserves ==
  ASSUME IInv, NEW o \in Operators, NEW q \in Requests, Request(o, q) PROVE IInv'
<1>1. Still /\ HistoryOK
  BY SameHistory DEF Request, Still
<1>2. RunOK
  BY DEF Request, Update, Sets, RunOK, IInv, Typed, Run, RunStatuses
<1>3. LocalOK
  <2>1. CASE local' = local
    BY <2>1 DEF LocalOK, IInv, Typed
  <2>2. CASE Goto(o, "advance")
    <3>1. PICK l : l = [local[o] EXCEPT !.pc = "advance"]
      OBVIOUS
    <3>2. l \in Local /\ local[o] \in Local
      BY <3>1, RowsAct DEF IInv, Typed, Local, Points
    <3>3. local' = [local EXCEPT ![o] = l] /\ local'[o] = l
      BY <2>2, <3>1, RowsAct DEF Goto, IInv, Typed
    <3>4. l.pc = "advance" /\ l.type = "repair" /\ l.seen = local[o].seen
          /\ l.todo = local[o].todo
      BY <3>1, <3>2, RowsAct DEF Request, Live, IInv, Justified, Local, pc, type
    <3>5. Earned(l.seen)' /\ (\A p \in l.todo : Startable(p)')
      BY <1>1, <3>4, RowsAct, StillSame DEF IInv, Justified
    <3>6. (local[o].seen = l.seen)' /\ (pc(o) = "advance")' /\ (type(o) = "repair")'
      BY <3>3, <3>4 DEF pc, type
    <3>7. Earned(local[o].seen)'
      BY <3>5, <3>6
    <3>8. o \notin Ids /\ "repair" \notin PhaseTypes
      BY IdsAssumption DEF PhaseTypes, Reaches
    <3>9. Justified(o)'
      BY <3>3, <3>5, <3>6, <3>7, <3>8 DEF Justified, InWaves
    <3> QED
      BY <3>2, <3>3, <3>9, RowsAct, OneActor
  <2> QED
    BY <2>1, <2>2 DEF Request
<1> QED
  BY <1>1, <1>2, <1>3, StepOK

LEMMA RepairPreserves == ASSUME IInv, Repair PROVE IInv'
<1>1. HistoryOK /\ RunOK
  BY SameHistory, SameRun DEF Repair
<1>2. "repair" \in JobTypes /\ "repair" \notin PhaseTypes
  BY DEF JobTypes, PackageTypes, PhaseTypes, Reaches
<1>3. local \in [Actors -> Local] /\ local' = InsertFresh(local, "repair") /\ UnusedKeys # {}
  BY DEF IInv, Typed, Repair
<1>4. LocalOK
  BY <1>1, <1>2, <1>3, FreshKeyOK DEF HistoryOK
<1> QED
  BY <1>1, <1>4, StepOK

LEMMA AbortPreserves == ASSUME IInv, NEW a \in Rows, Abort(a) \/ GiveUp(a) PROVE IInv'
<1>1. HistoryOK /\ RunOK
  BY SameHistory, SameRun DEF Abort, GiveUp, Fault
<1>2. CASE Abort(a)
  <2>1. LocalOK
    BY <1>1, <1>2, RowsAct, AgainOK DEF Abort, HistoryOK, Plain, Points, InWaves, type
  <2> QED
    BY <1>1, <2>1, StepOK
<1>3. CASE GiveUp(a)
  <2>1. local'[a] = Gone
    BY <1>3, RowsAct DEF GiveUp, IInv, Typed
  <2>2. LocalOK
    BY <1>3, <2>1, RowsAct, GoneTyped, GoneJustified, OneActor DEF GiveUp
  <2> QED
    BY <1>1, <2>2, StepOK
<1> QED
  BY <1>2, <1>3

-----------------------------------------------------------------------------
(* The invariant holds. *)

LEMMA InitJustified == Init => IInv
<1> SUFFICES ASSUME Init PROVE IInv
  OBVIOUS
<1>1. Earned("run_created")
  BY DEF Earned, Allowed, Earlier, NextPhase, Rank, WaveCheckpoints, PhaseTypes, Reaches
<1>2. \A a \in Actors : local[a] \in Local
  BY FreshTyped, GoneTyped DEF Init, Points, JobTypes, PackageTypes, PhaseTypes, Reaches
<1>3. Typed
  BY <1>2, NoCountsTyped, BoundsAssumption
     DEF Init, Typed, Run, RunStatuses, Checkpoints, NextPhase
<1>4. ASSUME NEW a \in Actors PROVE Justified(a)
  <2>1. local[a].seen = "run_created" /\ local[a].todo = {}
    BY DEF Init, Fresh, Gone
  <2>2. \/ pc(a) = "none" /\ type(a) = "repair"
        \/ pc(a) = "created" /\ type(a) = "repair" /\ a = "create_run"
        \/ pc(a) = "open" /\ type(a) = a /\ a = "requirements_analysis"
    BY DEF Init, Fresh, Gone, pc, type
  <2>3. a \in Ids => pc(a) = "none"
    BY <2>2, IdsAssumption DEF PhaseTypes, Reaches
  <2>4. pc(a) # "none" /\ type(a) \in PhaseTypes => Allowed(type(a))
    <3>1. Allowed("requirements_analysis")
      BY <1>1 DEF Earned, NextPhase
    <3>2. "repair" \notin PhaseTypes
      BY DEF PhaseTypes, Reaches
    <3> QED
      BY <2>2, <3>1, <3>2
  <2> QED
    BY <1>1, <2>1, <2>2, <2>3, <2>4 DEF Justified, InWaves
<1> QED
  BY <1>1, <1>3, <1>4 DEF IInv, RunJustified, Init, Planned

LEMMA NextPreserves == IInv /\ [Next]_vars => IInv'
<1> SUFFICES ASSUME IInv, [Next]_vars PROVE IInv'
  OBVIOUS
<1>1. ASSUME NEW r \in Rows, AfterJob(r) PROVE IInv'
  BY <1>1, HandlerOkPreserves, PlanPreserves, StorePackagePreserves, PlanStoredPreserves,
     HandlerFailsPreserves, RecordPhasePreserves,
     MetadataPreserves, RecordPackagePreserves, ReadCountsPreserves, WriteCountsPreserves,
     EnqueueRetryPreserves, BlockPreserves, FinishPreserves
     DEF AfterJob
<1>2. ASSUME NEW a \in Rows \cup Operators, AdvanceRun(a) PROVE IInv'
  BY <1>2, RowsAct, ReadRunPreserves, ReadPackagesPreserves, ReadJobsPreserves,
     EnqueuePackagePreserves, WaveQueuedPreserves, EnqueuePhasePreserves, ReadyPreserves
     DEF AdvanceRun
<1>3. CASE UNCHANGED vars
  <2>1. LocalOK /\ HistoryOK /\ RunOK
    BY <1>3, SameHistory, SameRun DEF vars, plan, LocalOK, IInv, Typed
  <2> QED
    BY <2>1, StepOK
<1> QED
  BY <1>1, <1>2, <1>3, AbortPreserves, RequestPreserves, CreatedPreserves, RepairPreserves
     DEF Next

LEMMA IInvHolds == Spec => []IInv
  BY InitJustified, NextPreserves, PTL DEF Spec

-----------------------------------------------------------------------------
(* The theorems. *)

(* Type correctness: no retry count exceeds max_attempts - 1, although
   counts are read, incremented and written back by several jobs at once. *)
THEOREM PipelineTypeCorrect == Spec => []TypeOK
<1>1. IInv => TypeOK
  BY CountsChecked DEF IInv, Typed, TypeOK, Run, Local, Actors
<1> QED
  BY <1>1, IInvHolds, PTL

(* No row of a package has a job before a copy of each package it waits for
   is completed, for any waves and dependencies and however often planning is
   executed again (_advance_wave_execution). *)
THEOREM PackagesWait == Spec => []DependenciesFirst
<1>1. IInv => DependenciesFirst
  BY DEF IInv, Justified, Startable, DependenciesFirst, Live, Actors, Rows
<1> QED
  BY <1>1, IInvHolds, PTL

(* No phase has a job before those in front of it have succeeded and every
   row of the first planning is completed, however often the checkpoint is
   moved back and the packages are stored again (advance_run). *)
THEOREM PhasesWait == Spec => []PhasesInOrder
<1>1. IInv => PhasesInOrder
  BY DEF IInv, Justified, Startable, Allowed, PhasesInOrder, Live, Actors, Rows
<1> QED
  BY <1>1, IInvHolds, PTL

(* A run that is release_ready has all its phases, every row of its first
   planning and at least one copy of each package behind it. *)
THEOREM ReleasesEarned == Spec => []ReleaseEarned
<1>1. IInv => ReleaseEarned
  BY DEF IInv, Typed, RunJustified, AllDone, Covered, Built, Planned, PhaseTypes, Reaches,
         ReleaseEarned
<1> QED
  BY <1>1, IInvHolds, PTL
=============================================================================
