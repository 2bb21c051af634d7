-------------------------- MODULE PhasesPlanProofs --------------------------
(***************************************************************************)
(* More theorems about Phases: the packages of a plan are all stored, and  *)
(* the page of a run at rest names what continuing it does.  Planning and  *)
(* the phases before it may be cut short anywhere and executed again, so   *)
(* the invariants say how far the plan in hand is stored, and which job    *)
(* is left to lead a run on that has fallen back behind planning.          *)
(***************************************************************************)
EXTENDS PhasesProofs, FiniteSetTheorems

-----------------------------------------------------------------------------
(* The invariants. *)

Planning(points) == exec.job = "package_planning" /\ exec.pc \in points
StoredKeys == {rows[i].key : i \in DOMAIN rows}

(* How far the plan in hand is stored. *)
StoredOK ==
  /\ Planning(Busy) => exec.at = 1
  /\ Planning({"store", "returned"}) =>
       \A i \in DOMAIN Plan :
         Plan[i].placed /\ (i < exec.at \/ exec.pc = "returned") => Plan[i].key \in StoredKeys
  /\ planned # "none" =>
       \A i \in DOMAIN PlanOf[planned] :
         PlanOf[planned][i].placed => PlanOf[planned][i].key \in StoredKeys

(* A package that the execution of planning has yet to store has a copy less
   than there were executions. *)
AtMost(n) ==
  \A m \in DOMAIN PlanOf : \A i \in DOMAIN PlanOf[m] : Copies(PlanOf[m][i].key) <= n
CopiesOK ==
  /\ AtMost(plannings)
  /\ Planning(Busy) => AtMost(plannings - 1)
  /\ Planning({"store"}) =>
       \A m \in DOMAIN PlanOf : m = exec.got["scope"] =>
         \A i \in DOMAIN PlanOf[m] : i >= exec.at => Copies(PlanOf[m][i].key) <= plannings - 1

(* The phases up to planning, and the checkpoints before it is recorded. *)
Early == {"requirements_analysis", "architecture_design"}
Prior == Early \cup {"package_planning"}
Later == Phases \ Prior
Behind == Early \cup {"run_created"}
Recorded == {"persist", "persisted", "advance", "finish"}

(* Planning has not been executed, or is for the first time. *)
FirstPlanning(points) == plannings = 0 \/ (plannings = 1 /\ Planning(points))

(* Until planning is recorded for the first time nothing behind it has
   started, and until it stores there are no packages. *)
FirstAlone ==
  FirstPlanning(Busy \cup {"refused", "store", "returned"}) =>
    /\ checkpoint \in Behind /\ \A j \in Jobs \ Prior : jobs[j].state = "none"
    /\ status # "release_ready"
FirstEmpty == FirstPlanning(Busy \cup {"refused"}) => rows = <<>>

(* What is behind the packages starts when none of them is left. *)
LaterAfterAll ==
  plannings <= 1 /\ (checkpoint \notin Behind \cup {"package_planning"}
                     \/ (\E j \in Later : jobs[j].state # "none")
                     \/ status = "release_ready")
    => Undone = {}

(* A run with packages left whose checkpoint is behind planning has a job that
   leads it on, unless that job is blocked. *)
Leads(j) == Live(j) \/ jobs[j].dead
Led ==
  plannings <= 1 /\ Undone # {} /\ checkpoint \in Behind =>
    (\E j \in Prior : Leads(j)) \/ (\E j \in Early : jobs[j].state = "blocked")

(* An execution that has taken the checkpoint back to its phase leaves the
   next one behind when it ends, unless the run is released. *)
EarlyHolds ==
  exec.job \in Early /\ exec.pc \in Recorded =>
    checkpoint = exec.job /\ (exec.pc = "finish" => Live(NextPhase[checkpoint]) \/ status = "release_ready")
PlanningHolds == Planning(Recorded) => checkpoint \notin Behind

CountsOK ==
  /\ plannings \in Nat /\ (exec.job = "package_planning" => plannings > 0)
  /\ Len(rows) <= Len(NewIds)

OrderOK ==
  /\ CountsOK /\ FirstAlone /\ FirstEmpty /\ LaterAfterAll
  /\ Led /\ EarlyHolds /\ PlanningHolds

PlanInv == IInv /\ StoredOK /\ (DistinctKeys => CopiesOK) /\ OrderOK

-----------------------------------------------------------------------------
(* Rows. *)

(* The rows keep their ids and keys, and what is done stays done. *)
SameRows ==
  /\ DOMAIN rows' = DOMAIN rows
  /\ \A i \in DOMAIN rows : /\ rows'[i].id = rows[i].id /\ rows'[i].key = rows[i].key
                            /\ rows[i].done => rows'[i].done

LEMMA MarkedSame ==
  ASSUME Typed, NEW id, NEW field \in {"patched", "done"},
         rows' = Marked(id, field)
  PROVE  SameRows
<1>1. rows \in Seq(Row) /\ DOMAIN rows = 1..Len(rows)
  BY DEF Typed
<1>2. rows' = [i \in 1..Len(rows) |->
                 IF rows[i].id = id THEN [rows[i] EXCEPT ![field] = TRUE] ELSE rows[i]]
  BY <1>1 DEF Marked
<1>3. DOMAIN rows' = DOMAIN rows
  BY <1>1, <1>2
<1>4. ASSUME NEW i \in DOMAIN rows
      PROVE  /\ rows'[i].id = rows[i].id /\ rows'[i].key = rows[i].key
             /\ rows[i].done => rows'[i].done
  <2>1. rows[i] \in Row /\ i \in 1..Len(rows)
    BY <1>1, <1>4
  <2>2. CASE field = "patched"
    BY <1>2, <2>1, <2>2 DEF Row
  <2>3. CASE field = "done"
    BY <1>2, <2>1, <2>3 DEF Row
  <2> QED
    BY <2>2, <2>3
<1> QED
  BY <1>3, <1>4 DEF SameRows

LEMMA RecordedSame ==
  ASSUME Typed, Record
  PROVE  SameRows
<1>1. CASE rows' = rows
  BY <1>1 DEF SameRows
<1>2. CASE rows' = Marked(exec.job, "done")
  BY <1>2, MarkedSame
<1> QED
  BY <1>1, <1>2 DEF Record

LEMMA SameKeys ==
  ASSUME SameRows, NEW key
  PROVE  /\ Copies(key)' = Copies(key)
         /\ StoredKeys' = StoredKeys
<1>1. {i \in DOMAIN rows' : rows'[i].key = key} = {i \in DOMAIN rows : rows[i].key = key}
  BY DEF SameRows
<1>2. Copies(key)' = Copies(key)
  BY <1>1 DEF Copies
<1>3. StoredKeys' = StoredKeys
  BY DEF StoredKeys, SameRows
<1> QED
  BY <1>2, <1>3

LEMMA SameUndone ==
  ASSUME Typed, Typed', SameRows
  PROVE  /\ Undone = {} => Undone' = {}
         /\ rows' = <<>> <=> rows = <<>>
<1>1. Undone = {} => Undone' = {}
  BY DEF Undone, SameRows
<1>2. /\ rows = <<>> <=> DOMAIN rows = {}
      /\ rows' = <<>> <=> DOMAIN rows' = {}
  BY DEF Typed
<1> QED
  BY <1>1, <1>2 DEF SameRows

(* A row more. *)
LEMMA CopiesBound ==
  ASSUME Typed, NEW key
  PROVE  /\ IsFiniteSet({i \in DOMAIN rows : rows[i].key = key})
         /\ Copies(key) \in Nat
         /\ key \in StoredKeys <=> Copies(key) >= 1
<1> DEFINE S == {i \in DOMAIN rows : rows[i].key = key}
<1>1. IsFiniteSet(1..Len(rows))
  <2>1. Len(rows) \in Int /\ 1 \in Int
    BY DEF Typed
  <2> QED
    BY <2>1, FS_Interval, Zenon
<1>2. S \subseteq 1..Len(rows)
  BY DEF Typed
<1>3. IsFiniteSet(S) /\ Cardinality(S) \in Nat /\ (Cardinality(S) = 0 <=> S = {})
  BY <1>1, <1>2, FS_Subset, FS_CardinalityType, FS_EmptySet
<1> QED
  BY <1>3 DEF Copies, StoredKeys

LEMMA Appended ==
  ASSUME Typed, NEW r, r \in Row, rows' = Append(rows, r), NEW key
  PROVE  /\ StoredKeys \subseteq StoredKeys'
         /\ r.key \in StoredKeys'
         /\ Copies(key)' = Copies(key) + (IF key = r.key THEN 1 ELSE 0)
<1> DEFINE S == {i \in DOMAIN rows : rows[i].key = key}
           T == {i \in DOMAIN rows' : rows'[i].key = key}
           n == Len(rows) + 1
<1>1. /\ DOMAIN rows = 1..Len(rows) /\ Len(rows) \in Nat /\ DOMAIN rows' = 1..n
      /\ \A i \in 1..Len(rows) : rows'[i] = rows[i]
      /\ rows'[n] = r
  BY DEF Typed
<1>2. IsFiniteSet(S)
  BY CopiesBound
<1>3. n \notin S
  BY <1>1
<1>4. /\ Copies(key) = Cardinality(S) /\ Copies(key)' = Cardinality(T)
      /\ StoredKeys \subseteq StoredKeys'
      /\ r.key \in StoredKeys'
  BY <1>1 DEF Copies, StoredKeys
<1>5. Copies(key) \in Nat
  BY CopiesBound
<1> HIDE DEF S, T
<1>6. CASE key = r.key
  <2>1. T = S \cup {n}
    BY <1>1, <1>6 DEF S, T
  <2>2. Cardinality(T) = Cardinality(S) + 1
    BY <1>2, <1>3, <2>1, FS_AddElement
  <2> QED
    BY <1>4, <1>6, <2>2
<1>7. CASE key # r.key
  <2>1. T = S
    BY <1>1, <1>7 DEF S, T
  <2> QED
    BY <1>4, <1>5, <1>7, <2>1
<1> QED
  BY <1>6, <1>7

-----------------------------------------------------------------------------
(* What the steps do to what the invariants speak of. *)

(* A step of an execution within its stages, or out of them. *)
Turn ==
  /\ exec.pc \in Busy /\ exec'.job = exec.job /\ exec'.at = exec.at
  /\ exec'.pc \in Busy \cup {"store", "returned", "refused"}
  /\ exec'.pc = "returned" => exec.job # "package_planning"
  /\ SameRows
  /\ UNCHANGED <<checkpoint, status, jobs, plannings, planned>>

LEMMA OnwardShape ==
  ASSUME NEW x \in ExecType
  PROVE  LET y == Onward(x) IN
         /\ y.job = x.job /\ y.at = x.at /\ y.pc \in {"ask", "store", "returned"}
         /\ y.pc = "returned" => x.job # "package_planning"
<1>1. CASE x.stage < Len(Stages(x.job))
  <2>1. PICK y : y = Enter(x, x.stage + 1)
    OBVIOUS
  <2>2. y.job = x.job /\ y.at = x.at /\ y.pc = "ask"
    BY <2>1 DEF Enter, ExecType
  <2> QED
    BY <1>1, <2>1, <2>2 DEF Onward
<1>2. CASE ~(x.stage < Len(Stages(x.job)))
  BY <1>2 DEF Onward, AfterStages, ExecType
<1> QED
  BY <1>1, <1>2

LEMMA SameWhenUnchanged == rows' = rows => SameRows
  BY DEF SameRows

LEMMA AnsweredTurn ==
  ASSUME IInv, NEW k \in AllKinds, (\E v \in Values : Answered(k, v)) \/ Refused(k)
  PROVE  Turn
<1>1. /\ exec \in ExecType /\ exec.pc = "ask"
      /\ UNCHANGED <<checkpoint, status, rows, jobs, plannings, planned>>
      /\ \/ \E v \in Values : exec' = [exec EXCEPT !.asking = @ \ {k}, !.got[k] = v]
         \/ exec' = [exec EXCEPT !.asking = @ \ {k}]
  BY DEF Answered, Refused, At, IInv, Typed, history
<1>2. exec'.job = exec.job /\ exec'.at = exec.at /\ exec'.pc = exec.pc
  BY <1>1 DEF ExecType
<1> QED
  BY <1>1, <1>2, SameWhenUnchanged DEF Turn, Busy

LEMMA SettleTurn ==
  ASSUME IInv, Settle
  PROVE  Turn
<1>1. PICK x, y : x = exec /\ y = exec'
  OBVIOUS
<1>2. PICK got, todo, missing :
        /\ UNCHANGED <<checkpoint, status, jobs, plannings, planned>>
        /\ rows' = IF missing = {} THEN Marked(x.job, "patched") ELSE rows
        /\ \/ y = Onward([x EXCEPT !.got = got])
           \/ y = [x EXCEPT !.got = got, !.todo = todo, !.pc = "read"]
           \/ y = [x EXCEPT !.pc = "refused"]
        /\ got \in Got
  <2> DEFINE stage == Stages(x.job)[x.stage]
             missing == {k \in stage : x.got[k] = "none"}
             got == [k \in DOMAIN x.got |-> IF k \in missing THEN "default" ELSE x.got[k]]
             todo == {k \in stage : Caches(x, k)}
             Good == (\A k \in missing : HasDefault(x.job, k)) /\ Passes(x)
  <2>1. got \in Got
    BY <1>1, ValueFacts DEF ExecType, Got, AllKinds, Kinds, IInv, Typed
  <2>2. /\ UNCHANGED <<checkpoint, status, jobs, plannings, planned>>
        /\ rows' = IF missing = {} THEN Marked(x.job, "patched") ELSE rows
        /\ IF Good
           THEN y = IF todo = {} THEN Onward([x EXCEPT !.got = got])
                    ELSE [x EXCEPT !.got = got, !.todo = todo, !.pc = "read"]
           ELSE y = [x EXCEPT !.pc = "refused"]
    BY <1>1 DEF Settle, Goto
  <2> HIDE DEF got, todo, missing, Good
  <2> QED
    BY <2>1, <2>2
<1>3. SameRows
  BY <1>2, MarkedSame, SameWhenUnchanged DEF IInv
<1>4. x \in ExecType /\ x.pc = "ask"
  BY <1>1 DEF Settle, At, IInv, Typed
<1>5. /\ y.job = x.job /\ y.at = x.at /\ y.pc \in Busy \cup {"store", "returned", "refused"}
      /\ y.pc = "returned" => x.job # "package_planning"
  <2>1. CASE y = Onward([x EXCEPT !.got = got])
    <3>1. PICK z : z = [x EXCEPT !.got = got]
      OBVIOUS
    <3>2. z \in ExecType /\ z.job = x.job /\ z.at = x.at
      BY <1>2, <1>4, <3>1 DEF ExecType
    <3>3. PICK w : w = Onward(z)
      OBVIOUS
    <3>4. /\ w.job = x.job /\ w.at = x.at /\ w.pc \in {"ask", "store", "returned"}
          /\ w.pc = "returned" => x.job # "package_planning"
      BY <3>2, <3>3, OnwardShape
    <3> QED
      BY <2>1, <3>1, <3>3, <3>4 DEF Busy
  <2>2. CASE y = [x EXCEPT !.got = got, !.todo = todo, !.pc = "read"]
    BY <1>4, <2>2 DEF ExecType, Busy
  <2>3. CASE y = [x EXCEPT !.pc = "refused"]
    BY <1>4, <2>3 DEF ExecType, Busy
  <2> QED
    BY <1>2, <2>1, <2>2, <2>3
<1> QED
  BY <1>1, <1>2, <1>3, <1>4, <1>5 DEF Turn, Busy

LEMMA CacheTurn ==
  ASSUME IInv, ReadCache \/ WriteCache
  PROVE  Turn
<1>1. PICK x, y : x = exec /\ y = exec'
  OBVIOUS
<1>2. x \in ExecType /\ x.pc \in Busy /\ UNCHANGED <<checkpoint, status, rows, jobs, plannings, planned>>
  BY <1>1 DEF ReadCache, WriteCache, At, Busy, history, IInv, Typed
<1>3. /\ y.job = x.job /\ y.at = x.at /\ y.pc \in Busy \cup {"store", "returned", "refused"}
      /\ y.pc = "returned" => x.job # "package_planning"
  <2>1. CASE ReadCache
    BY <1>1, <1>2, <2>1 DEF ReadCache, ExecType, Busy
  <2>2. CASE WriteCache
    <3>1. PICK rest : rest = [x EXCEPT !.todo = x.todo \ {First(x.todo)}, !.read = NoRun]
      OBVIOUS
    <3>2. y = IF rest.todo = {} THEN Onward(rest) ELSE [rest EXCEPT !.pc = "read"]
      BY <1>1, <2>2, <3>1 DEF WriteCache
    <3>3. NoRun \in Metadata
      BY ValueFacts DEF NoRun, Metadata, Cache, Kinds
    <3>4. rest \in ExecType /\ rest.job = x.job /\ rest.at = x.at
      BY <1>2, <3>1, <3>3 DEF ExecType
    <3>5. CASE rest.todo = {}
      <4>1. PICK w : w = Onward(rest)
        OBVIOUS
      <4>2. /\ w.job = x.job /\ w.at = x.at /\ w.pc \in {"ask", "store", "returned"}
            /\ w.pc = "returned" => x.job # "package_planning"
        BY <3>4, <4>1, OnwardShape
      <4> QED
        BY <3>2, <3>5, <4>1, <4>2 DEF Busy
    <3>6. CASE rest.todo # {}
      BY <3>2, <3>4, <3>6 DEF ExecType, Busy
    <3> QED
      BY <3>5, <3>6
  <2> QED
    BY <2>1, <2>2
<1> QED
  BY <1>1, <1>2, <1>3, SameWhenUnchanged DEF Turn

LEMMA StartShape ==
  ASSUME IInv, NEW j \in Jobs
  PROVE  LET y == Start(Execution(j)) IN
         /\ y.job = j /\ y.at = 1 /\ y.pc \in {"ask", "advance", "returned"}
         /\ y.pc = "advance" => j = "architecture_design" /\ checkpoint = j
         /\ y.pc = "returned" => j \notin Prior
<1>1. PICK x : x = Execution(j)
  OBVIOUS
<1>2. x.job = j /\ x.at = 1 /\ x.from = checkpoint
      /\ \A p : [x EXCEPT !.pc = p].job = j /\ [x EXCEPT !.pc = p].at = 1
                /\ [x EXCEPT !.pc = p].pc = p
  BY <1>1 DEF Execution, Idle
<1>3. CASE ReturnsCompleted(x)
  <2>1. ~PassesUnasked(x) /\ j = "architecture_design" /\ checkpoint = j
    BY <1>2, <1>3 DEF ReturnsCompleted, PassesUnasked
  <2>2. Start(Execution(j)) = [x EXCEPT !.pc = "advance"]
    BY <1>1, <1>3, <2>1 DEF Start, CompletedAdvances
  <2> QED
    BY <1>2, <2>1, <2>2
<1>4. CASE ~ReturnsCompleted(x) /\ PassesUnasked(x)
  <2>1. j \notin Prior
    BY <1>2, <1>4 DEF PassesUnasked, Prior, Early
  <2>2. Start(Execution(j)) = [x EXCEPT !.pc = "returned"]
    BY <1>1, <1>4 DEF Start
  <2> QED
    BY <1>2, <2>1, <2>2
<1>5. CASE ~ReturnsCompleted(x) /\ ~PassesUnasked(x)
  <2>1. Start(Execution(j)) = Enter(x, 1)
    BY <1>1, <1>5 DEF Start
  <2>2. Enter(x, 1).job = j /\ Enter(x, 1).at = 1 /\ Enter(x, 1).pc = "ask"
    BY <1>1 DEF Enter, Execution, Idle
  <2> QED
    BY <2>1, <2>2
<1> QED
  BY <1>3, <1>4, <1>5

(* The plan that planning has in hand is one of the plans. *)
LEMMA PlanInHand ==
  ASSUME NEW x \in ExecType, AskOK(x), x.job = "package_planning", x.pc \in {"store", "returned"}
  PROVE  /\ x.got["scope"] \in DOMAIN PlanOf
         /\ PlanOf[x.got["scope"]] \in Seq([key : STRING, infra : BOOLEAN, repair : BOOLEAN, placed : BOOLEAN])
         /\ DOMAIN PlanOf[x.got["scope"]] = 1..Len(PlanOf[x.got["scope"]])
<1>1. x.got["scope"] \in Plans /\ x.got["scope"] # "none"
  BY DEF AskOK, ExecType, Got
<1> QED
  BY <1>1, PhasesAssumption DEF Plans

(* Executions that are not within the stages of planning, nor store. *)
LEMMA StoredKept ==
  ASSUME StoredOK, SameRows, planned' = planned,
         ~(exec'.job = "package_planning" /\ exec'.pc \in Busy \cup {"store", "returned"})
  PROVE  StoredOK'
<1>1. StoredKeys \subseteq StoredKeys'
  BY SameKeys
<1>2. ~Planning(Busy)' /\ ~Planning({"store", "returned"})'
  BY DEF Planning
<1> HIDE DEF Planning, StoredKeys
<1> QED
  BY <1>1, <1>2 DEF StoredOK

LEMMA StoredTurn ==
  ASSUME IInv, IInv', StoredOK, Turn
  PROVE  StoredOK'
<1>1. CASE ~(exec'.job = "package_planning" /\ exec'.pc \in Busy \cup {"store", "returned"})
  BY <1>1, StoredKept DEF Turn
<1>2. CASE exec'.job = "package_planning" /\ exec'.pc \in Busy \cup {"store", "returned"}
  <2>1. exec'.at = 1 /\ exec'.pc # "returned" /\ planned' = planned
    BY <1>2 DEF Turn, StoredOK, Planning
  <2>2. StoredKeys \subseteq StoredKeys'
    BY SameKeys DEF Turn
  <2>3. ASSUME exec'.pc = "store"
        PROVE  \A i \in DOMAIN Plan' : ~(i < exec'.at)
    <3>1. PICK y : y = exec'
      OBVIOUS
    <3>2. y \in ExecType /\ AskOK(y) /\ Plan' = PlanOf[y.got["scope"]]
      BY <3>1 DEF IInv, Typed, Plan
    <3> QED
      BY <1>2, <2>1, <2>3, <3>1, <3>2, PlanInHand
  <2>4. Planning({"store", "returned"})' =>
          \A i \in DOMAIN Plan' :
            Plan'[i].placed /\ (i < exec'.at \/ exec'.pc = "returned") => Plan'[i].key \in StoredKeys'
    BY <2>1, <2>3 DEF Planning
  <2>5. planned' # "none" =>
          \A i \in DOMAIN PlanOf[planned'] :
            PlanOf[planned'][i].placed => PlanOf[planned'][i].key \in StoredKeys'
    BY <2>1, <2>2 DEF StoredOK
  <2> QED
    BY <2>1, <2>4, <2>5 DEF StoredOK
<1> QED
  BY <1>1, <1>2

LEMMA StoredStore ==
  ASSUME IInv, IInv', StoredOK, StorePackage
  PROVE  StoredOK'
<1>1. PICK x, y, plan, at : x = exec /\ y = exec' /\ plan = Plan /\ at = exec.at
  OBVIOUS
<1>2. /\ x \in ExecType /\ AskOK(x) /\ x.pc = "store" /\ x.job = "package_planning"
      /\ plan = PlanOf[x.got["scope"]] /\ UNCHANGED planned
  BY <1>1 DEF StorePackage, At, history, IInv, Typed, AskOK, Plan
<1>3. at \in DOMAIN plan /\ DOMAIN plan = 1..Len(plan) /\ at \in Nat
  BY <1>1, <1>2, PlanInHand DEF StorePackage, StoreAt, ExecType
<1>4. CASE plan[at].placed /\ plan[at].infra
  BY <1>1, <1>2, <1>4, StoredKept, SameWhenUnchanged DEF StorePackage, Goto, StoreAt, ExecType, Busy
<1>5. CASE ~(plan[at].placed /\ plan[at].infra)
  <2>1. y = [x EXCEPT !.at = at + 1]
    BY <1>1, <1>5 DEF StorePackage, StoreAt
  <2>2. y.job = x.job /\ y.pc = "store" /\ y.at = at + 1 /\ y.got = x.got
    BY <1>2, <2>1 DEF ExecType
  <2>3. /\ StoredKeys \subseteq StoredKeys'
        /\ plan[at].placed => plan[at].key \in StoredKeys'
    <3>1. CASE plan[at].placed
      <4>1. PICK r : r = [id |-> NewIds[Len(rows) + 1], key |-> plan[at].key,
                          repair |-> plan[at].repair, patched |-> FALSE, done |-> FALSE]
        OBVIOUS
      <4>2. rows' = Append(rows, r)
        BY <1>1, <1>5, <3>1, <4>1 DEF StorePackage, StoreAt
      <4>3. Typed /\ rows \in Seq(Row) /\ rows' \in Seq(Row) /\ r.key = plan[at].key
        BY <4>1 DEF IInv, Typed
      <4>4. rows'[Len(rows) + 1] = r /\ Len(rows) + 1 \in DOMAIN rows'
        BY <4>2, <4>3
      <4>5. r \in Row
        BY <4>3, <4>4, ElementOfSeq
      <4> QED
        BY <4>2, <4>3, <4>5, Appended
    <3>2. CASE ~plan[at].placed
      BY <1>1, <1>5, <3>2, SameWhenUnchanged, SameKeys DEF StorePackage, StoreAt
    <3> QED
      BY <3>1, <3>2
  <2>4. \A i \in DOMAIN plan : plan[i].placed /\ i < at => plan[i].key \in StoredKeys
    BY <1>1, <1>2 DEF StoredOK, Planning
  <2>5. \A i \in DOMAIN plan : plan[i].placed /\ i < at + 1 => plan[i].key \in StoredKeys'
    BY <1>3, <2>3, <2>4
  <2>6. Plan' = plan
    BY <1>1, <1>2, <2>2 DEF Plan
  <2>7. Planning({"store", "returned"})' =>
          \A i \in DOMAIN Plan' :
            Plan'[i].placed /\ (i < exec'.at \/ exec'.pc = "returned") => Plan'[i].key \in StoredKeys'
    BY <1>1, <2>2, <2>5, <2>6
  <2>8. ~Planning(Busy)'
    BY <1>1, <2>2 DEF Planning, Busy
  <2>9. planned' # "none" =>
          \A i \in DOMAIN PlanOf[planned'] :
            PlanOf[planned'][i].placed => PlanOf[planned'][i].key \in StoredKeys'
    BY <1>2, <2>3 DEF StoredOK
  <2> QED
    BY <2>7, <2>8, <2>9 DEF StoredOK
<1> QED
  BY <1>4, <1>5

LEMMA StoredEnd ==
  ASSUME IInv, IInv', StoredOK, PlanStored
  PROVE  StoredOK'
<1>1. PICK x, y, plan, at : x = exec /\ y = exec' /\ plan = Plan /\ at = exec.at
  OBVIOUS
<1>2. /\ x \in ExecType /\ AskOK(x) /\ x.pc = "store" /\ x.job = "package_planning"
      /\ plan = PlanOf[x.got["scope"]] /\ y = [x EXCEPT !.pc = "returned"]
      /\ UNCHANGED <<rows, planned>>
  BY <1>1 DEF PlanStored, At, Goto, history, IInv, Typed, AskOK, Plan
<1>3. DOMAIN plan = 1..Len(plan) /\ at \in Nat /\ at > Len(plan) /\ Len(plan) \in Nat
  BY <1>1, <1>2, PlanInHand DEF PlanStored, StoreAt, ExecType
<1>4. y.job = x.job /\ y.pc = "returned" /\ y.got = x.got
  BY <1>2 DEF ExecType
<1>5. StoredKeys' = StoredKeys
  BY <1>2, SameWhenUnchanged, SameKeys
<1>6. \A i \in DOMAIN plan : plan[i].placed => plan[i].key \in StoredKeys'
  BY <1>1, <1>2, <1>3, <1>5 DEF StoredOK, Planning
<1>7. Plan' = plan
  BY <1>1, <1>2, <1>4 DEF Plan
<1>8. ~Planning(Busy)'
  BY <1>1, <1>4 DEF Planning, Busy
<1>9. planned' # "none" =>
        \A i \in DOMAIN PlanOf[planned'] :
          PlanOf[planned'][i].placed => PlanOf[planned'][i].key \in StoredKeys'
  BY <1>2, <1>5 DEF StoredOK
<1> QED
  BY <1>6, <1>7, <1>8, <1>9 DEF StoredOK

LEMMA StoredRecord ==
  ASSUME IInv, IInv', StoredOK, Record
  PROVE  StoredOK'
<1>1. /\ exec \in ExecType /\ AskOK(exec) /\ exec.pc = "returned"
      /\ exec'.pc \in {"persist", "advance"} /\ Plan = PlanOf[exec.got["scope"]]
      /\ planned' = IF exec.job = "package_planning" THEN exec.got["scope"] ELSE planned
      /\ SameRows
  BY RecordedSame DEF Record, At, Goto, IInv, Typed, Plan, ExecType
<1>2. StoredKeys \subseteq StoredKeys'
  BY <1>1, SameKeys
<1>3. planned' # "none" =>
        \A i \in DOMAIN PlanOf[planned'] :
          PlanOf[planned'][i].placed => PlanOf[planned'][i].key \in StoredKeys'
  <2>1. CASE exec.job = "package_planning"
    <3>1. planned' = exec.got["scope"] /\ Planning({"store", "returned"})
      BY <1>1, <2>1 DEF Planning
    <3>2. \A i \in DOMAIN PlanOf[planned'] :
            PlanOf[planned'][i].placed => PlanOf[planned'][i].key \in StoredKeys
      BY <1>1, <3>1 DEF StoredOK
    <3> QED
      BY <1>2, <3>2
  <2>2. CASE exec.job # "package_planning"
    BY <1>1, <1>2, <2>2 DEF StoredOK
  <2> QED
    BY <2>1, <2>2
<1>4. ~Planning(Busy)' /\ ~Planning({"store", "returned"})'
  BY <1>1 DEF Planning, Busy
<1> QED
  BY <1>3, <1>4 DEF StoredOK

LEMMA StoredClaim ==
  ASSUME IInv, StoredOK, NEW j \in Jobs, Claim(j)
  PROVE  StoredOK'
<1>1. PICK y : y = exec'
  OBVIOUS
<1>2. /\ y.job = j /\ y.at = 1 /\ y.pc \in {"ask", "advance", "returned"}
      /\ y.pc = "returned" => j \notin Prior
      /\ UNCHANGED <<rows, planned>>
  BY <1>1, StartShape DEF Claim
<1>3. CASE y.job = "package_planning" /\ y.pc = "ask"
  <2>1. ~Planning({"store", "returned"})' /\ (Planning(Busy)' => exec'.at = 1)
    BY <1>1, <1>2, <1>3 DEF Planning
  <2>2. planned' = planned /\ StoredKeys' = StoredKeys
    BY <1>2, SameWhenUnchanged, SameKeys
  <2> QED
    BY <2>1, <2>2 DEF StoredOK
<1>4. CASE ~(y.job = "package_planning" /\ y.pc = "ask")
  BY <1>1, <1>2, <1>4, SameWhenUnchanged, StoredKept DEF Prior, Busy
<1> QED
  BY <1>3, <1>4

-----------------------------------------------------------------------------
(* Copies. *)

LEMMA BoundsIn ==
  ASSUME CopiesOK, NEW m \in DOMAIN PlanOf, NEW i \in DOMAIN PlanOf[m]
  PROVE  /\ Copies(PlanOf[m][i].key) <= plannings
         /\ Planning(Busy) => Copies(PlanOf[m][i].key) <= plannings - 1
         /\ Planning({"store"}) /\ m = exec.got["scope"] /\ i >= exec.at =>
              Copies(PlanOf[m][i].key) <= plannings - 1
  BY DEF CopiesOK, AtMost

(* The steps that add no row, by what they mean for planning. *)
LEMMA CopiesKept ==
  ASSUME CopiesOK, SameRows, plannings' = plannings,
         ~(exec'.job = "package_planning" /\ exec'.pc \in Busy \cup {"store"})
  PROVE  CopiesOK'
<1>1. \A key : Copies(key)' = Copies(key)
  BY SameKeys
<1>2. ~Planning(Busy)' /\ ~Planning({"store"})'
  BY DEF Planning
<1>3. AtMost(plannings)'
  BY <1>1 DEF CopiesOK, AtMost
<1> QED
  BY <1>2, <1>3 DEF CopiesOK

LEMMA CopiesTurn ==
  ASSUME IInv, IInv', CopiesOK, Turn
  PROVE  CopiesOK'
<1>1. CASE ~(exec'.job = "package_planning" /\ exec'.pc \in Busy \cup {"store"})
  BY <1>1, CopiesKept DEF Turn
<1>2. CASE exec'.job = "package_planning" /\ exec'.pc \in Busy \cup {"store"}
  <2>1. Planning(Busy) /\ plannings' = plannings
    BY <1>2 DEF Turn, Planning
  <2>2. ASSUME NEW m \in DOMAIN PlanOf, NEW i \in DOMAIN PlanOf[m]
        PROVE  /\ Copies(PlanOf[m][i].key)' <= plannings'
               /\ Copies(PlanOf[m][i].key)' <= plannings' - 1
    <3>1. Copies(PlanOf[m][i].key)' = Copies(PlanOf[m][i].key)
      BY SameKeys DEF Turn
    <3> QED
      BY <2>1, <3>1, BoundsIn
  <2>3. AtMost(plannings)' /\ AtMost(plannings - 1)'
    BY <2>2 DEF AtMost
  <2>4. Planning({"store"})' =>
          \A m \in DOMAIN PlanOf : m = exec'.got["scope"] =>
            \A i \in DOMAIN PlanOf[m] : i >= exec'.at => Copies(PlanOf[m][i].key)' <= plannings' - 1
    BY <2>2
  <2> QED
    BY <2>3, <2>4 DEF CopiesOK
<1> QED
  BY <1>1, <1>2

LEMMA CopiesClaim ==
  ASSUME IInv, CopiesOK, plannings \in Nat, NEW j \in Jobs, Claim(j)
  PROVE  CopiesOK'
<1>1. PICK y : y = exec'
  OBVIOUS
<1>2. /\ y.job = j /\ y.pc \in {"ask", "advance", "returned"}
      /\ plannings' = plannings + IF j = "package_planning" THEN 1 ELSE 0
      /\ SameRows
  BY <1>1, StartShape, SameWhenUnchanged DEF Claim
<1>3. CASE j = "package_planning"
  <2>1. ASSUME NEW m \in DOMAIN PlanOf, NEW i \in DOMAIN PlanOf[m]
        PROVE  /\ Copies(PlanOf[m][i].key)' <= plannings'
               /\ Copies(PlanOf[m][i].key)' <= plannings' - 1
    <3>1. /\ Copies(PlanOf[m][i].key)' = Copies(PlanOf[m][i].key)
          /\ Copies(PlanOf[m][i].key) <= plannings
          /\ Copies(PlanOf[m][i].key) \in Nat
      BY <1>2, SameKeys, BoundsIn, CopiesBound DEF IInv
    <3>2. plannings' = plannings + 1
      BY <1>2, <1>3
    <3> QED
      BY <3>1, <3>2
  <2>2. AtMost(plannings)' /\ AtMost(plannings - 1)'
    BY <2>1 DEF AtMost
  <2>3. ~Planning({"store"})'
    BY <1>1, <1>2 DEF Planning
  <2> QED
    BY <2>2, <2>3 DEF CopiesOK
<1>4. CASE j # "package_planning"
  BY <1>1, <1>2, <1>4, CopiesKept
<1> QED
  BY <1>3, <1>4

LEMMA CopiesStore ==
  ASSUME IInv, IInv', CopiesOK, DistinctKeys, plannings \in Nat, StorePackage
  PROVE  CopiesOK'
<1>1. PICK x, y, n, at : x = exec /\ y = exec' /\ n = exec.got["scope"] /\ at = exec.at
  OBVIOUS
<1>2. /\ x \in ExecType /\ AskOK(x) /\ x.pc = "store" /\ x.job = "package_planning"
      /\ Plan = PlanOf[n] /\ n = x.got["scope"] /\ UNCHANGED plannings
  BY <1>1 DEF StorePackage, At, history, IInv, Typed, AskOK, Plan
<1>3. /\ n \in DOMAIN PlanOf /\ at \in DOMAIN PlanOf[n] /\ DOMAIN PlanOf[n] = 1..Len(PlanOf[n])
      /\ at \in Nat /\ Planning({"store"})
  BY <1>1, <1>2, PlanInHand DEF StorePackage, StoreAt, ExecType, Planning
<1>4. CASE PlanOf[n][at].placed /\ PlanOf[n][at].infra
  BY <1>1, <1>2, <1>4, CopiesKept, SameWhenUnchanged DEF StorePackage, Goto, StoreAt, ExecType, Busy
<1>5. CASE ~(PlanOf[n][at].placed /\ PlanOf[n][at].infra)
  <2>1. y = [x EXCEPT !.at = at + 1]
    BY <1>1, <1>2, <1>5 DEF StorePackage, StoreAt
  <2>2. y.job = x.job /\ y.pc = "store" /\ y.at = at + 1 /\ y.got = x.got
    BY <1>2, <2>1 DEF ExecType
  <2>3. PICK old : old = PlanOf[n][at].key
    OBVIOUS
  <2>4. ASSUME NEW key
        PROVE  /\ Copies(key) \in Nat
               /\ Copies(key)' \in {Copies(key), Copies(key) + 1}
               /\ key # old => Copies(key)' = Copies(key)
    <3>1. CASE PlanOf[n][at].placed
      <4>1. PICK r : r = [id |-> NewIds[Len(rows) + 1], key |-> old,
                          repair |-> PlanOf[n][at].repair, patched |-> FALSE, done |-> FALSE]
        OBVIOUS
      <4>2. rows' = Append(rows, r)
        BY <1>1, <1>2, <1>5, <2>3, <3>1, <4>1 DEF StorePackage, StoreAt
      <4>3. Typed /\ rows \in Seq(Row) /\ rows' \in Seq(Row) /\ r.key = old
        BY <4>1 DEF IInv, Typed
      <4>4. rows'[Len(rows) + 1] = r /\ Len(rows) + 1 \in DOMAIN rows'
        BY <4>2, <4>3
      <4>5. r \in Row
        BY <4>3, <4>4, ElementOfSeq
      <4>6. Copies(key)' = Copies(key) + (IF key = r.key THEN 1 ELSE 0)
        BY <4>2, <4>3, <4>5, Appended
      <4>7. Copies(key) \in Nat
        BY <4>3, CopiesBound
      <4> QED
        BY <4>3, <4>6, <4>7
    <3>2. CASE ~PlanOf[n][at].placed
      <4>1. rows' = rows
        BY <1>1, <1>2, <1>5, <3>2 DEF StorePackage, StoreAt
      <4>2. Copies(key)' = Copies(key)
        BY <4>1, SameWhenUnchanged, SameKeys
      <4>3. Copies(key) \in Nat
        BY CopiesBound DEF IInv
      <4> QED
        BY <4>2, <4>3
    <3> QED
      BY <3>1, <3>2
  <2>5. Copies(old) <= plannings - 1
    BY <1>1, <1>3, <2>3, BoundsIn
  <2>6. ASSUME NEW m \in DOMAIN PlanOf, NEW i \in DOMAIN PlanOf[m]
        PROVE  Copies(PlanOf[m][i].key)' <= plannings
    <3>1. PICK key : key = PlanOf[m][i].key
      OBVIOUS
    <3>2. Copies(key) <= plannings
      BY <3>1, BoundsIn
    <3>3. Copies(key)' <= plannings
      BY <2>4, <2>5, <3>2
    <3> QED
      BY <3>1, <3>3
  <2>7. ASSUME NEW i \in DOMAIN PlanOf[n], i >= at + 1
        PROVE  Copies(PlanOf[n][i].key)' <= plannings - 1
    <3>1. PICK key : key = PlanOf[n][i].key
      OBVIOUS
    <3>2. key # old
      BY <1>3, <2>3, <2>7, <3>1 DEF DistinctKeys
    <3>3. Copies(key) <= plannings - 1
      BY <1>1, <1>3, <2>7, <3>1, BoundsIn
    <3>4. Copies(key)' <= plannings - 1
      BY <2>4, <3>2, <3>3
    <3> QED
      BY <3>1, <3>4
  <2>8. AtMost(plannings)'
    BY <1>2, <2>6 DEF AtMost
  <2>9. ~Planning(Busy)'
    BY <1>1, <2>2 DEF Planning, Busy
  <2>10. \A m \in DOMAIN PlanOf : m = exec'.got["scope"] =>
           \A i \in DOMAIN PlanOf[m] : i >= exec'.at => Copies(PlanOf[m][i].key)' <= plannings' - 1
    BY <1>1, <1>2, <2>2, <2>7
  <2> QED
    BY <2>8, <2>9, <2>10 DEF CopiesOK
<1> QED
  BY <1>4, <1>5

-----------------------------------------------------------------------------
(* Order. *)

LEMMA PhaseFacts ==
  /\ Prior \subseteq Phases /\ Later \subseteq Phases /\ Prior \cap Later = {}
  /\ Early \subseteq Behind \cap Prior /\ "package_planning" \in Prior \ Behind
  /\ {"package_planning", "wave_completed", "release_candidate", "release_ready"} \cap Behind = {}
  /\ \A c \in Behind : NextPhase[c] \in Prior \ {c}
  BY DEF Prior, Later, Behind, Early, Phases, NextPhase

(* The rows' ids are no phases. *)
LEMMA UndoneFacts ==
  ASSUME Typed, Len(rows) <= Len(NewIds)
  PROVE  Undone \cap Phases = {}
<1>1. NewIds \in Seq(STRING) /\ Range(NewIds) \cap Phases = {}
  BY PhasesAssumption
<1>2. \A i \in DOMAIN rows : rows[i].id = NewIds[i] /\ i \in DOMAIN NewIds
  BY <1>1 DEF Typed
<1>3. \A i \in DOMAIN NewIds : NewIds[i] \in Range(NewIds)
  BY <1>1 DEF Range
<1> QED
  BY <1>1, <1>2, <1>3 DEF Undone

(* A step that only moves the execution on, within its stages or behind its
   record. *)
LEMMA OrderTurn ==
  ASSUME IInv, IInv', OrderOK, Turn
  PROVE  OrderOK'
<1>1. /\ exec.pc \in Busy /\ exec'.job = exec.job
      /\ exec'.pc \in Busy \cup {"store", "returned", "refused"}
      /\ UNCHANGED <<checkpoint, status, jobs, plannings>>
  BY DEF Turn
<1>2. (Undone = {} => Undone' = {}) /\ (rows' = <<>> <=> rows = <<>>)
  BY SameUndone DEF Turn, IInv
<1>3. CountsOK'
  <2>1. Len(rows') = Len(rows)
    BY DEF Turn, SameRows, IInv, Typed
  <2> QED
    BY <1>1, <2>1 DEF OrderOK, CountsOK
<1>4. FirstAlone' /\ FirstEmpty'
  BY <1>1, <1>2 DEF OrderOK, FirstAlone, FirstEmpty, FirstPlanning, Planning
<1>5. LaterAfterAll' /\ Led'
  <2>1. Undone' = {} \/ Undone # {}
    BY <1>2
  <2> QED
    BY <1>1, <1>2, <2>1 DEF OrderOK, LaterAfterAll, Led, Leads, Live
<1>6. EarlyHolds' /\ PlanningHolds'
  BY <1>1 DEF EarlyHolds, PlanningHolds, Planning, Recorded, Busy
<1> QED
  BY <1>3, <1>4, <1>5, <1>6 DEF OrderOK

LEMMA OrderClaim ==
  ASSUME IInv, IInv', OrderOK, NEW j \in Jobs, Claim(j)
  PROVE  OrderOK'
<1>1. PICK y : y = exec'
  OBVIOUS
<1>2. /\ y.job = j /\ y.pc \in {"ask", "advance", "returned"}
      /\ y.pc = "advance" => j = "architecture_design" /\ checkpoint = j
      /\ plannings' = plannings + IF j = "package_planning" THEN 1 ELSE 0
      /\ UNCHANGED <<checkpoint, status, rows>>
  BY <1>1, StartShape DEF Claim
<1>3. /\ jobs' = [jobs EXCEPT ![j].state = "leased", ![j].attempts = @ + 1]
      /\ jobs \in [Jobs -> JobType] /\ jobs[j].state = "queued"
  BY DEF Claim, IInv, Typed
<1>4. /\ jobs'[j].state = "leased" /\ jobs'[j].dead = jobs[j].dead
      /\ \A i \in Jobs \ {j} : jobs'[i] = jobs[i]
  BY <1>3 DEF JobType
<1>5. Prior \subseteq Jobs /\ Early \subseteq Jobs /\ Later \subseteq Jobs
  BY JobFacts, PhaseFacts
<1>6. CountsOK'
  BY <1>1, <1>2 DEF OrderOK, CountsOK
<1>7. plannings \in Nat /\ exec.job = "none"
  BY DEF OrderOK, CountsOK, Claim, IInv, JobsOK
<1>8. FirstAlone'
  <2>1. SUFFICES ASSUME FirstPlanning(Busy \cup {"refused", "store", "returned"})'
                 PROVE  /\ checkpoint' \in Behind /\ \A i \in Jobs \ Prior : jobs'[i].state = "none"
                        /\ status' # "release_ready"
    BY DEF FirstAlone
  <2>2. plannings = 0
    BY <1>1, <1>2, <1>7, <2>1 DEF FirstPlanning, Planning
  <2>3. /\ checkpoint \in Behind /\ \A i \in Jobs \ Prior : jobs[i].state = "none"
        /\ status # "release_ready"
    BY <2>2 DEF OrderOK, FirstAlone, FirstPlanning
  <2>4. j \in Prior
    BY <1>3, <2>3
  <2> QED
    BY <1>2, <1>4, <2>3, <2>4
<1>9. FirstEmpty'
  <2>1. SUFFICES ASSUME FirstPlanning(Busy \cup {"refused"})'
                 PROVE  rows' = <<>>
    BY DEF FirstEmpty
  <2>2. plannings = 0
    BY <1>1, <1>2, <1>7, <2>1 DEF FirstPlanning, Planning
  <2> QED
    BY <1>2, <2>2 DEF OrderOK, FirstEmpty, FirstPlanning
<1>10. Undone' = Undone
  BY <1>2 DEF Undone
<1>11. LaterAfterAll'
  BY <1>2, <1>3, <1>4, <1>5, <1>7, <1>10 DEF OrderOK, LaterAfterAll
<1>12. Led'
  <2>1. SUFFICES ASSUME plannings' <= 1, Undone' # {}, checkpoint' \in Behind
                 PROVE  \/ \E i \in Prior : Leads(i)'
                        \/ \E i \in Early : jobs'[i].state = "blocked"
    BY DEF Led
  <2>2. plannings <= 1 /\ Undone # {} /\ checkpoint \in Behind
    BY <1>2, <1>7, <1>10, <2>1
  <2>3. \A i \in Prior : Leads(i) => Leads(i)'
    BY <1>4, <1>5 DEF Leads, Live
  <2>4. \A i \in Early : jobs[i].state = "blocked" => jobs'[i].state = "blocked"
    BY <1>3, <1>4, <1>5
  <2> QED
    BY <2>2, <2>3, <2>4 DEF OrderOK, Led
<1>13. EarlyHolds' /\ PlanningHolds'
  BY <1>1, <1>2 DEF EarlyHolds, PlanningHolds, Planning, Recorded
<1> QED
  BY <1>6, <1>8, <1>9, <1>11, <1>12, <1>13 DEF OrderOK

LEMMA OrderStore ==
  ASSUME IInv, IInv', OrderOK, StorePackage \/ PlanStored
  PROVE  OrderOK'
<1>1. /\ exec.pc = "store" /\ exec.job = "package_planning" /\ exec'.job = exec.job
      /\ exec'.pc \in {"store", "raised", "returned"}
      /\ UNCHANGED <<checkpoint, status, jobs, plannings>>
      /\ exec \in ExecType
  BY DEF StorePackage, PlanStored, At, Goto, history, IInv, Typed, AskOK, ExecType
<1>2. plannings \in Nat /\ plannings > 0
  BY <1>1 DEF OrderOK, CountsOK
<1>3. CountsOK'
  <2>1. rows \in Seq(Row) /\ rows' \in Seq(Row) /\ Len(NewIds) \in Nat
    BY PhasesAssumption DEF IInv, Typed
  <2>2. Len(rows') <= Len(NewIds)
    <3>1. CASE rows' = rows
      BY <3>1 DEF OrderOK, CountsOK
    <3>2. CASE rows' # rows
      <4>1. PICK r : rows' = Append(rows, r) /\ Len(rows) < Len(NewIds)
        BY <3>2 DEF StorePackage, PlanStored
      <4>2. Len(rows') = Len(rows) + 1
        BY <2>1, <4>1
      <4> QED
        BY <2>1, <4>1, <4>2
    <3> QED
      BY <3>1, <3>2
  <2> QED
    BY <1>1, <1>2, <2>2 DEF CountsOK
<1>4. plannings = 1 => /\ checkpoint \in Behind /\ \A j \in Jobs \ Prior : jobs[j].state = "none"
                       /\ status # "release_ready"
  BY <1>1 DEF OrderOK, FirstAlone, FirstPlanning, Planning
<1>5. FirstAlone' /\ FirstEmpty'
  BY <1>1, <1>2, <1>4 DEF FirstAlone, FirstEmpty, FirstPlanning, Planning, Busy
<1>6. LaterAfterAll'
  <2>1. Later \subseteq Jobs \ Prior
    BY PhaseFacts, JobFacts
  <2> QED
    BY <1>1, <1>2, <1>4, <2>1 DEF LaterAfterAll
<1>7. Led'
  <2>1. exec.job \in Prior /\ jobs'[exec.job].state = "leased"
    BY <1>1, WorkingJob, PhaseFacts
  <2> QED
    BY <2>1 DEF Led, Leads, Live
<1>8. EarlyHolds' /\ PlanningHolds'
  BY <1>1 DEF EarlyHolds, PlanningHolds, Planning, Recorded
<1> QED
  BY <1>3, <1>5, <1>6, <1>7, <1>8 DEF OrderOK

LEMMA OrderRecord ==
  ASSUME IInv, IInv', OrderOK, Record
  PROVE  OrderOK'
<1>1. PICK j : j = exec.job
  OBVIOUS
<1>2. /\ exec.pc = "returned" /\ exec'.job = j /\ exec'.pc \in {"persist", "advance"}
      /\ checkpoint' = IF j \in Phases THEN j ELSE checkpoint
      /\ UNCHANGED <<status, jobs, plannings>> /\ SameRows
  BY <1>1, RecordedSame DEF Record, At, Goto, IInv, Typed, ExecType
<1>3. j \in Jobs /\ jobs[j].state = "leased"
  BY <1>1, <1>2, WorkingJob
<1>4. (Undone = {} => Undone' = {}) /\ (rows' = <<>> <=> rows = <<>>)
  BY <1>2, SameUndone DEF IInv
<1>5. CountsOK'
  <2>1. Len(rows') = Len(rows)
    BY <1>2 DEF SameRows, IInv, Typed
  <2> QED
    BY <1>1, <1>2, <2>1 DEF OrderOK, CountsOK
<1>6. plannings \in Nat /\ (j = "package_planning" => plannings > 0)
  BY <1>1 DEF OrderOK, CountsOK
<1>7. ASSUME NEW points, points \cap {"persist", "advance"} = {}, FirstPlanning(points)'
      PROVE  plannings = 0 /\ j \in Early
  <2>1. plannings = 0
    BY <1>2, <1>7 DEF FirstPlanning, Planning
  <2>2. \A i \in Jobs \ Prior : jobs[i].state = "none"
    BY <2>1 DEF OrderOK, FirstAlone, FirstPlanning
  <2> QED
    BY <1>3, <1>6, <2>1, <2>2 DEF Prior
<1>8. FirstAlone'
  <2>1. SUFFICES ASSUME FirstPlanning(Busy \cup {"refused", "store", "returned"})'
                 PROVE  /\ checkpoint' \in Behind /\ \A i \in Jobs \ Prior : jobs'[i].state = "none"
                        /\ status' # "release_ready"
    BY DEF FirstAlone
  <2>2. plannings = 0 /\ j \in Early
    BY <1>7, <2>1 DEF Busy
  <2>3. checkpoint' \in Behind
    BY <1>2, <2>2, PhaseFacts
  <2> QED
    BY <1>2, <2>2, <2>3 DEF OrderOK, FirstAlone, FirstPlanning
<1>9. FirstEmpty'
  <2>1. SUFFICES ASSUME FirstPlanning(Busy \cup {"refused"})'
                 PROVE  rows' = <<>>
    BY DEF FirstEmpty
  <2>2. plannings = 0
    BY <1>7, <2>1 DEF Busy
  <2> QED
    BY <1>4, <2>2 DEF OrderOK, FirstEmpty, FirstPlanning
<1>10. LaterAfterAll'
  <2>1. CASE j \in Later
    BY <1>2, <1>3, <1>4, <2>1 DEF OrderOK, LaterAfterAll
  <2>2. CASE j \in Prior
    <3>1. checkpoint' \in Behind \cup {"package_planning"}
      BY <1>2, <2>2, PhaseFacts DEF Prior
    <3> QED
      BY <1>2, <1>4, <3>1 DEF OrderOK, LaterAfterAll
  <2>3. CASE j \notin Phases
    BY <1>2, <1>4, <2>3 DEF OrderOK, LaterAfterAll
  <2> QED
    BY <2>1, <2>2, <2>3 DEF Later
<1>11. Led'
  <2>1. CASE j \in Prior
    BY <1>2, <1>3, <2>1 DEF Led, Leads, Live
  <2>2. CASE j \notin Prior
    <3>1. checkpoint' \in Behind => checkpoint' = checkpoint
      BY <1>2, <2>2, PhaseFacts DEF Behind, Phases, Prior, Early
    <3>2. Undone' # {} => Undone # {}
      BY <1>4
    <3> QED
      BY <1>2, <3>1, <3>2 DEF OrderOK, Led, Leads, Live
  <2> QED
    BY <2>1, <2>2
<1>12. EarlyHolds' /\ PlanningHolds'
  BY <1>2, PhaseFacts DEF EarlyHolds, PlanningHolds, Planning, Prior
<1> QED
  BY <1>5, <1>8, <1>9, <1>10, <1>11, <1>12 DEF OrderOK

LEMMA OrderResult ==
  ASSUME IInv, IInv', OrderOK, ReadResult \/ WriteResult
  PROVE  OrderOK'
<1>1. /\ exec.pc \in {"persist", "persisted"} /\ exec'.job = exec.job
      /\ exec'.pc \in {"persisted", "advance"}
      /\ UNCHANGED <<checkpoint, status, rows, jobs, plannings>>
      /\ exec \in ExecType
  BY DEF ReadResult, WriteResult, At, Goto, history, IInv, Typed, ExecType
<1>2. Undone' = Undone
  BY <1>1 DEF Undone
<1>3. CountsOK'
  BY <1>1 DEF OrderOK, CountsOK
<1>4. FirstAlone' /\ FirstEmpty'
  BY <1>1 DEF OrderOK, FirstAlone, FirstEmpty, FirstPlanning, Planning, Busy
<1>5. LaterAfterAll' /\ Led'
  BY <1>1, <1>2 DEF OrderOK, LaterAfterAll, Led, Leads, Live
<1>6. EarlyHolds' /\ PlanningHolds'
  BY <1>1 DEF OrderOK, EarlyHolds, PlanningHolds, Planning, Recorded
<1> QED
  BY <1>3, <1>4, <1>5, <1>6 DEF OrderOK

(* Advance finds the run released and only ends the execution. *)
LEMMA OrderReleased ==
  ASSUME IInv, IInv', OrderOK, Advance, status = "release_ready"
  PROVE  OrderOK'
<1>1. /\ exec.pc = "advance" /\ exec'.pc = "finish" /\ exec'.job = exec.job
      /\ UNCHANGED <<checkpoint, status, rows, jobs, plannings>>
  BY DEF Advance, At, Goto, history, IInv, Typed, ExecType
<1>2. Undone' = Undone
  BY <1>1 DEF Undone
<1>3. CountsOK'
  BY <1>1 DEF OrderOK, CountsOK
<1>4. FirstAlone' /\ FirstEmpty'
  BY <1>1 DEF OrderOK, FirstAlone, FirstEmpty, FirstPlanning, Planning, Busy
<1>5. LaterAfterAll' /\ Led'
  BY <1>1, <1>2 DEF OrderOK, LaterAfterAll, Led, Leads, Live
<1>6. EarlyHolds' /\ PlanningHolds'
  BY <1>1 DEF OrderOK, EarlyHolds, PlanningHolds, Planning, Recorded
<1> QED
  BY <1>3, <1>4, <1>5, <1>6 DEF OrderOK

LEMMA OrderProceed ==
  ASSUME IInv, IInv', OrderOK, Advance \/ Resume, ~(Advance /\ status = "release_ready")
  PROVE  OrderOK'
<1>1. PICK from : /\ Proceed(from) /\ from # "release_ready"
                  /\ exec'.job = exec.job
                  /\ exec'.pc = exec.pc \/ (exec.pc = "advance" /\ exec'.pc = "finish")
                  /\ UNCHANGED <<rows, plannings>>
                  /\ exec.pc # "advance" => exec'.pc = exec.pc
  <2>1. CASE Advance
    <3>1. Proceed(status) /\ status # "release_ready"
      BY <2>1 DEF Advance
    <3>2. /\ exec.pc = "advance" /\ exec'.pc = "finish" /\ exec'.job = exec.job
          /\ UNCHANGED <<rows, plannings>>
      BY <2>1 DEF Advance, At, Goto, history, IInv, Typed, ExecType
    <3> QED
      BY <3>1, <3>2
  <2>2. CASE Resume
    <3>1. Proceed("running") /\ UNCHANGED <<exec, rows, plannings>>
      BY <2>2 DEF Resume, history
    <3> QED
      BY <3>1
  <2> QED
    BY <2>1, <2>2
<1>2. /\ jobs' = [j \in Jobs |-> IF j \in Following /\ ~Live(j) THEN Queued(jobs[j]) ELSE jobs[j]]
      /\ jobs \in [Jobs -> JobType]
      /\ \/ checkpoint' = checkpoint
         \/ checkpoint' = "wave_completed" /\ Undone = {}
         \/ checkpoint = "release_candidate"
      /\ checkpoint \in Behind => checkpoint' = checkpoint
      /\ checkpoint = "package_planning" => checkpoint' \in {checkpoint, "wave_completed"}
      /\ checkpoint' \in {checkpoint, "wave_completed", "release_ready"}
      /\ status' = "release_ready" => checkpoint = "release_candidate"
  BY <1>1, PhaseFacts DEF Proceed, IInv, Typed
<1>3. ASSUME NEW j \in Jobs
      PROVE  /\ Live(j) => jobs'[j] = jobs[j]
             /\ jobs'[j].dead = jobs[j].dead
             /\ jobs'[j] = jobs[j] \/ (j \in Following /\ jobs'[j].state = "queued")
             /\ j \in Following => Live(j)'
  <2>1. jobs[j] \in JobType
    BY <1>2
  <2>2. Queued(jobs[j]).state = "queued" /\ Queued(jobs[j]).dead = jobs[j].dead
    BY <2>1 DEF Queued, JobType
  <2> QED
    BY <1>2, <2>2 DEF Live
<1>4. /\ checkpoint \in Behind => Following = {NextPhase[checkpoint]}
      /\ checkpoint = "package_planning" =>
           (Following = {"integration"} /\ Undone = {}) \/ Following = Undone
  BY PhaseFacts DEF Following
<1>5. Prior \subseteq Jobs /\ Early \subseteq Jobs /\ Later \subseteq Jobs
  BY JobFacts, PhaseFacts
<1>6. Undone' = Undone /\ CountsOK'
  BY <1>1 DEF OrderOK, CountsOK, Undone
<1>7. FirstAlone'
  <2>1. SUFFICES ASSUME FirstPlanning(Busy \cup {"refused", "store", "returned"})'
                 PROVE  /\ checkpoint' \in Behind /\ \A i \in Jobs \ Prior : jobs'[i].state = "none"
                        /\ status' # "release_ready"
    BY DEF FirstAlone
  <2>2. /\ checkpoint \in Behind /\ \A i \in Jobs \ Prior : jobs[i].state = "none"
    BY <1>1, <2>1 DEF OrderOK, FirstAlone, FirstPlanning, Planning, Busy
  <2>3. Following \subseteq Prior
    BY <1>4, <2>2, PhaseFacts
  <2> QED
    BY <1>2, <1>3, <2>2, <2>3, PhaseFacts
<1>8. FirstEmpty'
  BY <1>1 DEF OrderOK, FirstEmpty, FirstPlanning, Planning, Busy
<1>9. LaterAfterAll'
  <2>1. SUFFICES ASSUME plannings <= 1,
                        \/ checkpoint' \notin Behind \cup {"package_planning"}
                        \/ \E j \in Later : jobs'[j].state # "none"
                        \/ status' = "release_ready"
                 PROVE  Undone = {}
    BY <1>1, <1>6 DEF LaterAfterAll
  <2>2. CASE checkpoint \notin Behind \cup {"package_planning"} \/ \E j \in Later : jobs[j].state # "none"
    BY <2>1, <2>2 DEF OrderOK, LaterAfterAll
  <2>3. CASE checkpoint \in Behind \cup {"package_planning"} /\ \A j \in Later : jobs[j].state = "none"
    <3>1. CASE checkpoint' # checkpoint
      BY <1>2, <2>3, <3>1, PhaseFacts
    <3>2. CASE checkpoint' = checkpoint
      <4>1. PICK j \in Later : jobs'[j].state # "none"
        BY <1>2, <2>1, <2>3, <3>2, PhaseFacts
      <4>2. j \in Following
        BY <1>3, <1>5, <2>3, <4>1
      <4>3. checkpoint = "package_planning"
        BY <1>4, <2>3, <4>1, <4>2, PhaseFacts
      <4>4. Undone \cap Later = {}
        BY UndoneFacts, PhaseFacts DEF OrderOK, CountsOK, IInv
      <4> QED
        BY <1>4, <4>1, <4>2, <4>3, <4>4
    <3> QED
      BY <3>1, <3>2
  <2> QED
    BY <2>2, <2>3
<1>10. Led'
  <2>1. SUFFICES ASSUME plannings' <= 1, Undone' # {}, checkpoint' \in Behind
                 PROVE  \/ \E i \in Prior : Leads(i)'
                        \/ \E i \in Early : jobs'[i].state = "blocked"
    BY DEF Led
  <2>2. plannings <= 1 /\ Undone # {} /\ checkpoint \in Behind
    <3>1. "wave_completed" \notin Behind /\ "release_ready" \notin Behind
      BY DEF Behind, Early
    <3> QED
      BY <1>1, <1>2, <1>6, <2>1, <3>1
  <2>3. \A i \in Prior : Leads(i) => Leads(i)'
    BY <1>3, <1>5 DEF Leads, Live
  <2>4. \A i \in Early : jobs[i].state = "blocked" => jobs'[i].state = "blocked" \/ Leads(i)'
    BY <1>3, <1>5 DEF Leads, Live
  <2> QED
    BY <2>2, <2>3, <2>4, PhaseFacts DEF OrderOK, Led
<1>11. EarlyHolds'
  <2>1. SUFFICES ASSUME exec'.job \in Early, exec'.pc \in Recorded
                 PROVE  /\ checkpoint' = exec'.job
                        /\ jobs'[NextPhase[checkpoint']].state \in {"queued", "leased"}
    BY DEF EarlyHolds, Live
  <2>2. /\ exec.job \in Early /\ exec.pc \in Recorded
    BY <1>1, <2>1 DEF Recorded
  <2>3. checkpoint = exec.job
    BY <2>2 DEF OrderOK, EarlyHolds
  <2>4. checkpoint \in Behind /\ checkpoint' = checkpoint /\ NextPhase[checkpoint] \in Jobs
    BY <1>2, <1>5, <2>2, <2>3, PhaseFacts
  <2>5. PICK n : n = NextPhase[checkpoint]
    OBVIOUS
  <2>6. n \in Following /\ n \in Jobs
    BY <1>4, <2>4, <2>5
  <2>7. jobs'[n].state \in {"queued", "leased"}
    BY <1>3, <2>6 DEF Live
  <2> QED
    BY <1>1, <2>3, <2>4, <2>5, <2>7
<1>12. PlanningHolds'
  <2>1. Planning(Recorded)' => Planning(Recorded)
    BY <1>1 DEF Planning, Recorded
  <2> QED
    BY <1>2, <2>1 DEF OrderOK, PlanningHolds, Behind, Early
<1> QED
  BY <1>6, <1>7, <1>8, <1>9, <1>10, <1>11, <1>12 DEF OrderOK

LEMMA OrderEnqueue ==
  ASSUME IInv, IInv', OrderOK, Advance \/ Resume
  PROVE  OrderOK'
BY OrderReleased, OrderProceed

(* An execution ends: its job is done, or waits or is dead, or is blocked. *)
Ended ==
  /\ exec.pc # "idle" /\ exec'.job = "none" /\ exec'.pc = "idle"
  /\ UNCHANGED <<checkpoint, rows, plannings>> /\ status' \in {status, "blocked"}
  /\ \A j \in Jobs \ {exec.job} : jobs'[j] = jobs[j]
  /\ \/ exec.pc = "finish"
     \/ jobs'[exec.job].state = "queued" \/ jobs'[exec.job].dead
     \/ exec.pc = "refused" /\ jobs'[exec.job].state = "blocked"

LEMMA EndShape ==
  ASSUME IInv, IInv', Retry \/ Finish \/ Raised \/ Crash
  PROVE  exec'.job = "none" /\ exec'.pc = "idle" /\ exec.pc # "idle"
         /\ UNCHANGED <<checkpoint, rows, planned, plannings>>
         /\ status' \in {status, "blocked"}
  BY IdleOK DEF Retry, Finish, Raised, Crash, Release, At, Idle, history

LEMMA EndedShape ==
  ASSUME IInv, IInv', Retry \/ Finish \/ Raised \/ Crash
  PROVE  Ended
<1>1. PICK j : j = exec.job
  OBVIOUS
<1>2. /\ exec'.job = "none" /\ exec'.pc = "idle" /\ exec.pc # "idle"
      /\ UNCHANGED <<checkpoint, rows, plannings>> /\ status' \in {status, "blocked"}
  BY EndShape
<1>3. j \in Jobs /\ jobs \in [Jobs -> JobType] /\ jobs[j] \in JobType
  BY <1>1, <1>2, WorkingJob DEF IInv, Typed
<1>4. CASE Retry
  <2>1. PICK job : /\ jobs' = [jobs EXCEPT ![j] = job]
                   /\ \/ job = [Queued(jobs[j]) EXCEPT !.retries = jobs[j].retries + 1]
                      \/ job = [jobs[j] EXCEPT !.state = "blocked"]
    BY <1>1, <1>4 DEF Retry
  <2>2. exec.pc = "refused"
    BY <1>4 DEF Retry, At
  <2>3. job.state \in {"queued", "blocked"}
    BY <1>3, <2>1 DEF Queued, JobType
  <2>4. jobs'[j] = job /\ \A i \in Jobs \ {j} : jobs'[i] = jobs[i]
    BY <1>3, <2>1
  <2> QED
    BY <1>1, <1>2, <2>2, <2>3, <2>4 DEF Ended
<1>5. CASE Finish \/ Raised \/ Crash
  <2>1. PICK state : /\ jobs' = [jobs EXCEPT ![j].state = state, ![j].dead = @ \/ state = "dead_letter"]
                     /\ exec.pc = "finish" \/ state \in {"queued", "dead_letter"}
    BY <1>1, <1>5 DEF Finish, Raised, Crash, Release, At, Again
  <2>2. jobs'[j].state = state /\ jobs'[j].dead = (jobs[j].dead \/ state = "dead_letter")
        /\ \A i \in Jobs \ {j} : jobs'[i] = jobs[i]
    BY <1>3, <2>1 DEF JobType
  <2>3. CASE exec.pc = "finish"
    BY <1>1, <1>2, <2>2, <2>3 DEF Ended
  <2>4. CASE state \in {"queued", "dead_letter"}
    BY <1>1, <1>2, <2>2, <2>4 DEF Ended
  <2> QED
    BY <2>1, <2>3, <2>4
<1> QED
  BY <1>4, <1>5

LEMMA OrderEnd ==
  ASSUME IInv, IInv', OrderOK, Ended
  PROVE  OrderOK'
<1>1. PICK j : j = exec.job
  OBVIOUS
<1>2. /\ j \in Jobs /\ jobs[j].state = "leased" /\ exec'.job = "none" /\ exec'.pc = "idle"
      /\ \A i \in Jobs \ {j} : jobs'[i] = jobs[i]
      /\ UNCHANGED <<checkpoint, rows, plannings>> /\ status' \in {status, "blocked"}
  BY <1>1, WorkingJob DEF Ended
<1>3. Prior \subseteq Jobs /\ Early \subseteq Jobs /\ Later \subseteq Jobs
  BY JobFacts, PhaseFacts
<1>4. Undone' = Undone
  BY <1>2 DEF Undone
<1>5. CountsOK'
  BY <1>2 DEF OrderOK, CountsOK
<1>6. FirstAlone'
  <2>1. SUFFICES ASSUME FirstPlanning(Busy \cup {"refused", "store", "returned"})'
                 PROVE  /\ checkpoint' \in Behind /\ \A i \in Jobs \ Prior : jobs'[i].state = "none"
                        /\ status' # "release_ready"
    BY DEF FirstAlone
  <2>2. plannings = 0
    BY <1>2, <2>1 DEF FirstPlanning, Planning
  <2>3. /\ checkpoint \in Behind /\ \A i \in Jobs \ Prior : jobs[i].state = "none"
        /\ status # "release_ready"
    BY <2>2 DEF OrderOK, FirstAlone, FirstPlanning
  <2> QED
    BY <1>2, <2>3
<1>7. FirstEmpty'
  BY <1>2 DEF OrderOK, FirstEmpty, FirstPlanning, Planning
<1>8. LaterAfterAll'
  BY <1>2, <1>3, <1>4 DEF OrderOK, LaterAfterAll
<1>9. Led'
  <2>1. SUFFICES ASSUME plannings <= 1, Undone # {}, checkpoint \in Behind
                 PROVE  \/ \E i \in Prior : Leads(i)'
                        \/ \E i \in Early : jobs'[i].state = "blocked"
    BY <1>2, <1>4 DEF Led
  <2>2. \/ \E i \in Prior : Leads(i)
        \/ \E i \in Early : jobs[i].state = "blocked"
    BY <2>1 DEF OrderOK, Led
  <2>3. \A i \in Prior \ {j} : Leads(i) => Leads(i)'
    BY <1>2, <1>3 DEF Leads, Live
  <2>4. \A i \in Early : jobs[i].state = "blocked" => jobs'[i].state = "blocked"
    BY <1>2, <1>3
  <2>5. CASE j \notin Prior
    BY <2>2, <2>3, <2>4, <2>5
  <2>6. CASE j \in Prior /\ (jobs'[j].state = "queued" \/ jobs'[j].dead)
    BY <2>6 DEF Leads, Live
  <2>7. CASE j \in Early /\ exec.pc = "refused" /\ jobs'[j].state = "blocked"
    BY <2>7
  <2>8. CASE j = "package_planning" /\ exec.pc = "refused"
    <3>1. plannings = 1
      BY <1>1, <2>1, <2>8 DEF OrderOK, CountsOK
    <3>2. rows = <<>>
      BY <1>1, <2>8, <3>1 DEF OrderOK, FirstEmpty, FirstPlanning, Planning
    <3> QED
      BY <2>1, <3>2 DEF Undone
  <2>9. CASE j = "package_planning" /\ exec.pc = "finish"
    BY <1>1, <2>1, <2>9 DEF OrderOK, PlanningHolds, Planning, Recorded
  <2>10. CASE j \in Early /\ exec.pc = "finish"
    <3>1. checkpoint = j /\ Live(NextPhase[checkpoint])
      <4>1. status # "release_ready"
        BY <2>1 DEF OrderOK, LaterAfterAll
      <4> QED
        BY <1>1, <2>10, <4>1 DEF OrderOK, EarlyHolds, Recorded
    <3>2. PICK n : n = NextPhase[checkpoint]
      OBVIOUS
    <3>3. n \in Prior /\ n # j
      BY <2>1, <3>1, <3>2, PhaseFacts
    <3>4. Leads(n)
      BY <3>1, <3>2 DEF Leads
    <3> QED
      BY <2>3, <3>3, <3>4
  <2> QED
    BY <1>1, <2>5, <2>6, <2>7, <2>8, <2>9, <2>10 DEF Ended, Prior
<1>10. EarlyHolds' /\ PlanningHolds'
  BY <1>2 DEF EarlyHolds, PlanningHolds, Planning, Recorded
<1> QED
  BY <1>5, <1>6, <1>7, <1>8, <1>9, <1>10 DEF OrderOK

-----------------------------------------------------------------------------
(* The invariants hold. *)

(* The steps behind the stages of an execution that store nothing. *)
LEMMA StoredElsewhere ==
  ASSUME IInv, IInv', StoredOK,
         ReadResult \/ WriteResult \/ Advance \/ Resume \/ Retry \/ Finish \/ Raised \/ Crash
           \/ UNCHANGED vars
  PROVE  StoredOK'
<1>1. CASE ReadResult \/ WriteResult \/ Advance
  <2>1. rows' = rows /\ planned' = planned /\ exec'.pc \in {"persisted", "advance", "finish"}
    BY <1>1 DEF ReadResult, WriteResult, Advance, Goto, history, IInv, Typed, ExecType
  <2> QED
    BY <2>1, SameWhenUnchanged, StoredKept DEF Busy
<1>2. CASE Resume \/ UNCHANGED vars
  BY <1>2 DEF Resume, vars, history, StoredOK, StoredKeys, Planning, Plan
<1>3. CASE Retry \/ Finish \/ Raised \/ Crash
  BY <1>3, EndShape, SameWhenUnchanged, StoredKept
<1> QED
  BY <1>1, <1>2, <1>3

LEMMA CopiesElsewhere ==
  ASSUME IInv, IInv', CopiesOK,
         PlanStored \/ Record \/ ReadResult \/ WriteResult \/ Advance \/ Resume
           \/ Retry \/ Finish \/ Raised \/ Crash \/ UNCHANGED vars
  PROVE  CopiesOK'
<1>1. CASE PlanStored \/ ReadResult \/ WriteResult \/ Advance
  <2>1. /\ rows' = rows /\ plannings' = plannings
        /\ exec'.pc \in {"returned", "persisted", "advance", "finish"}
    BY <1>1 DEF PlanStored, ReadResult, WriteResult, Advance, Goto, history, IInv, Typed, ExecType
  <2> QED
    BY <2>1, SameWhenUnchanged, CopiesKept DEF Busy
<1>2. CASE Record
  <2>1. SameRows /\ plannings' = plannings /\ exec'.pc \in {"persist", "advance"}
    BY <1>2, RecordedSame DEF Record, Goto, IInv, Typed, ExecType
  <2> QED
    BY <2>1, CopiesKept DEF Busy
<1>3. CASE Resume \/ UNCHANGED vars
  <2>1. UNCHANGED <<rows, exec, plannings>>
    BY <1>3 DEF Resume, vars, history
  <2> QED
    BY <2>1 DEF CopiesOK, AtMost, Copies, Planning
<1>4. CASE Retry \/ Finish \/ Raised \/ Crash
  BY <1>4, EndShape, SameWhenUnchanged, CopiesKept
<1> QED
  BY <1>1, <1>2, <1>3, <1>4

LEMMA StoredStep == IInv /\ IInv' /\ StoredOK /\ [Next]_vars => StoredOK'
<1> SUFFICES ASSUME IInv, IInv', StoredOK, [Next]_vars PROVE StoredOK'
  OBVIOUS
<1>1. ASSUME NEW j \in Jobs, Claim(j) PROVE StoredOK'
  BY <1>1, StoredClaim
<1>2. ASSUME NEW k \in AllKinds, (\E v \in Values : Answered(k, v)) \/ Refused(k) PROVE StoredOK'
  BY <1>2, AnsweredTurn, StoredTurn
<1>3. CASE Settle
  BY <1>3, SettleTurn, StoredTurn
<1>4. CASE ReadCache \/ WriteCache
  BY <1>4, CacheTurn, StoredTurn
<1>5. CASE StorePackage
  BY <1>5, StoredStore
<1>6. CASE PlanStored
  BY <1>6, StoredEnd
<1>7. CASE Record
  BY <1>7, StoredRecord
<1>8. CASE ReadResult \/ WriteResult \/ Advance \/ Resume \/ Retry \/ Finish \/ Raised \/ Crash
             \/ UNCHANGED vars
  BY <1>8, StoredElsewhere
<1> QED
  BY <1>1, <1>2, <1>3, <1>4, <1>5, <1>6, <1>7, <1>8 DEF Next, Work, AllKinds

LEMMA CopiesStep ==
  DistinctKeys /\ IInv /\ IInv' /\ plannings \in Nat /\ CopiesOK /\ [Next]_vars => CopiesOK'
<1> SUFFICES ASSUME DistinctKeys, IInv, IInv', plannings \in Nat, CopiesOK, [Next]_vars
             PROVE  CopiesOK'
  OBVIOUS
<1>1. ASSUME NEW j \in Jobs, Claim(j) PROVE CopiesOK'
  BY <1>1, CopiesClaim
<1>2. ASSUME NEW k \in AllKinds, (\E v \in Values : Answered(k, v)) \/ Refused(k) PROVE CopiesOK'
  BY <1>2, AnsweredTurn, CopiesTurn
<1>3. CASE Settle
  BY <1>3, SettleTurn, CopiesTurn
<1>4. CASE ReadCache \/ WriteCache
  BY <1>4, CacheTurn, CopiesTurn
<1>5. CASE StorePackage
  BY <1>5, CopiesStore
<1>6. CASE PlanStored \/ Record \/ ReadResult \/ WriteResult \/ Advance \/ Resume
             \/ Retry \/ Finish \/ Raised \/ Crash \/ UNCHANGED vars
  BY <1>6, CopiesElsewhere
<1> QED
  BY <1>1, <1>2, <1>3, <1>4, <1>5, <1>6 DEF Next, Work, AllKinds

LEMMA OrderStep == IInv /\ IInv' /\ OrderOK /\ [Next]_vars => OrderOK'
<1> SUFFICES ASSUME IInv, IInv', OrderOK, [Next]_vars PROVE OrderOK'
  OBVIOUS
<1>1. ASSUME NEW j \in Jobs, Claim(j) PROVE OrderOK'
  BY <1>1, OrderClaim
<1>2. ASSUME NEW k \in AllKinds, (\E v \in Values : Answered(k, v)) \/ Refused(k) PROVE OrderOK'
  BY <1>2, AnsweredTurn, OrderTurn
<1>3. CASE Settle
  BY <1>3, SettleTurn, OrderTurn
<1>4. CASE ReadCache \/ WriteCache
  BY <1>4, CacheTurn, OrderTurn
<1>5. CASE StorePackage \/ PlanStored
  BY <1>5, OrderStore
<1>6. CASE Record
  BY <1>6, OrderRecord
<1>7. CASE ReadResult \/ WriteResult
  BY <1>7, OrderResult
<1>8. CASE Advance \/ Resume
  BY <1>8, OrderEnqueue
<1>9. CASE Retry \/ Finish \/ Raised \/ Crash
  BY <1>9, EndedShape, OrderEnd
<1>10. CASE UNCHANGED vars
  BY <1>10 DEF vars, OrderOK, CountsOK, FirstAlone, FirstEmpty, LaterAfterAll, Led, Leads, Live,
               EarlyHolds, PlanningHolds, FirstPlanning, Planning, Undone
<1> QED
  BY <1>1, <1>2, <1>3, <1>4, <1>5, <1>6, <1>7, <1>8, <1>9, <1>10 DEF Next, Work, AllKinds

LEMMA PlanInit == Init => PlanInv
<1> SUFFICES ASSUME Init PROVE PlanInv
  OBVIOUS
<1>1. exec.job = "none" /\ exec.pc = "idle" /\ planned = "none" /\ plannings = 0 /\ rows = <<>>
      /\ checkpoint = "run_created" /\ status = "running"
  BY DEF Init, Idle
<1>2. IInv
  BY InitOK
<1>3. StoredOK
  BY <1>1 DEF StoredOK, Planning
<1>4. CopiesOK
  <2>1. ASSUME NEW key
        PROVE  Copies(key) = 0
    <3>1. {i \in DOMAIN rows : rows[i].key = key} = {}
      BY <1>1
    <3> QED
      BY <3>1, FS_EmptySet DEF Copies
  <2> QED
    BY <1>1, <2>1 DEF CopiesOK, AtMost, Planning
<1>5. \A j \in Jobs \ Prior : jobs[j].state = "none"
  BY DEF Init, NoJob, Prior, Early
<1>6. Len(NewIds) \in Nat /\ Later \subseteq Jobs \ Prior
  BY PhasesAssumption, PhaseFacts, JobFacts
<1>7. OrderOK
  BY <1>1, <1>5, <1>6 DEF OrderOK, CountsOK, FirstAlone, FirstEmpty, LaterAfterAll, Led,
                          EarlyHolds, PlanningHolds, Planning, Undone, Behind, Early, Recorded
<1> QED
  BY <1>2, <1>3, <1>4, <1>7 DEF PlanInv

LEMMA PlanStep == PlanInv /\ [Next]_vars => PlanInv'
<1>1. plannings \in Nat \/ ~OrderOK
  BY DEF OrderOK, CountsOK
<1> QED
  BY <1>1, NextOK, StoredStep, CopiesStep, OrderStep DEF PlanInv

(* The plan in hand is stored up to where planning stands, with a copy of its
   other packages less than executions; and a run that has fallen back behind
   planning has a job that leads it on. *)
THEOREM PlanInvariant == Spec => []PlanInv
<1> QED
  BY PlanInit, PlanStep, PTL DEF Spec

LEMMA StoredFollows == PlanInv => PlanIsStored
<1> SUFFICES ASSUME PlanInv, planned # "none", NEW i \in DOMAIN PlanOf[planned]
             PROVE  /\ PlanOf[planned][i].placed => Copies(PlanOf[planned][i].key) >= 1
                    /\ DistinctKeys => Copies(PlanOf[planned][i].key) <= plannings
  BY DEF PlanIsStored
<1>1. planned \in DOMAIN PlanOf /\ Typed
  BY DEF PlanInv, IInv, Typed, Plans
<1>2. PlanOf[planned][i].placed => Copies(PlanOf[planned][i].key) >= 1
  BY <1>1, CopiesBound DEF PlanInv, StoredOK
<1>3. DistinctKeys => Copies(PlanOf[planned][i].key) <= plannings
  BY <1>1, BoundsIn DEF PlanInv
<1> QED
  BY <1>2, <1>3

(* PlanIsStored: behind planning, wherever crashes cut it short, every package
   of the recorded plan that names a wave is stored, and at most once for each
   execution of planning (planning.py:135-147). *)
THEOREM PlansStored == Spec => []PlanIsStored
<1> QED
  BY PlanInvariant, StoredFollows, PTL

LEMMA ResumeFollows == PlanInv => ResumePlanTrue
<1> SUFFICES ASSUME PlanInv, plannings <= 1, NoneBlockedBefore,
                    checkpoint # "release_ready"
             PROVE  CASE NextAction \in {"dead_letter_requeue", "worker_claim_pending_jobs"} -> TRUE
                      [] NextAction = "worker_claim_package_jobs" ->
                           Following # {} /\ Following \subseteq Undone
                      [] NextAction = "wave_execution" -> Following = {"integration"}
                      [] NextAction = "release_ready" -> Following = {}
                      [] OTHER -> Following = {NextAction}
  BY DEF ResumePlanTrue
<1>1. checkpoint \in Checkpoints /\ OrderOK
  BY DEF PlanInv, IInv, Typed
<1>2. CASE \E j \in Jobs : jobs[j].dead \/ Live(j)
  <2>1. CASE \E j \in Jobs : jobs[j].dead
    <3>1. NextAction = "dead_letter_requeue"
      BY <2>1 DEF NextAction
    <3> QED
      BY <3>1
  <2>2. CASE ~(\E j \in Jobs : jobs[j].dead) /\ (\E j \in Jobs : Live(j))
    <3>1. NextAction = "worker_claim_pending_jobs"
      BY <2>2 DEF NextAction
    <3> QED
      BY <3>1
  <2> QED
    BY <1>2, <2>1, <2>2
<1>3. CASE ~(\E j \in Jobs : jobs[j].dead \/ Live(j)) /\ Undone # {}
  <2>1. NextAction = "worker_claim_package_jobs"
    BY <1>3 DEF NextAction, Pending
  <2>3. ~(\E j \in Prior : Leads(j)) /\ ~(\E j \in Early : jobs[j].state = "blocked")
    BY <1>3, JobFacts, PhaseFacts DEF Leads, NoneBlockedBefore, Early
  <2>4. checkpoint \notin Behind
    BY <1>1, <1>3, <2>3 DEF OrderOK, Led
  <2>5. checkpoint = "package_planning"
    BY <1>1, <1>3, <2>4 DEF OrderOK, LaterAfterAll
  <2>6. Following = Undone
    BY <1>3, <2>5 DEF Following
  <2> QED
    BY <1>3, <2>1, <2>6
<1>4. CASE ~(\E j \in Jobs : jobs[j].dead \/ Live(j)) /\ Undone = {}
  <2>1. NextAction = CheckpointToAction
    BY <1>4 DEF NextAction, Pending
  <2>2. CASE checkpoint = "package_planning"
    BY <1>4, <2>1, <2>2 DEF CheckpointToAction, Following
  <2>3. CASE checkpoint = "release_candidate"
    BY <2>1, <2>3 DEF CheckpointToAction, Following
  <2>4. CASE checkpoint \notin {"package_planning", "release_candidate"}
    <3>1. PICK a : a = NextPhase[checkpoint]
      OBVIOUS
    <3>2. a \in Phases
      BY <1>1, <2>4, <3>1 DEF Checkpoints, NextPhase, Phases
    <3>3. NextAction = a /\ Following = {a}
      BY <2>1, <2>4, <3>1 DEF CheckpointToAction, Following
    <3> QED
      BY <3>2, <3>3 DEF Phases
  <2> QED
    BY <2>2, <2>3, <2>4
<1> QED
  BY <1>2, <1>3, <1>4

(* ResumePlanTrue: what the page of a run at rest says comes next is what
   continuing it does (kernel.py:84-95, advance_run), unless planning was
   executed twice, a phase before it is blocked or the run was released. *)
THEOREM ResumePlanHolds == Spec => []ResumePlanTrue
<1> QED
  BY PlanInvariant, ResumeFollows, PTL
=============================================================================
