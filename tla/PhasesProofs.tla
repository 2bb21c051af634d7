---------------------------- MODULE PhasesProofs ----------------------------
(***************************************************************************)
(* Theorems about Phases, for any plans, attempts, faults and resumes.     *)
(* One execution works on a run at a time, but over several reads and      *)
(* writes of the whole metadata and over what its earlier executions left: *)
(* the invariant says how what it holds agrees with what is stored.        *)
(***************************************************************************)
EXTENDS Phases, SequenceTheorems, TLAPS

-----------------------------------------------------------------------------
(* Types.                                                                   *)

AllKinds == Kinds \cup {"report"}
Plans == DOMAIN PlanOf \cup {"none"}
Cache == {c \in [Kinds -> Values] : c["scope"] \in Plans}
Got == {g \in [AllKinds -> Values] : g["scope"] \in Plans}
Metadata == [results : SUBSET Persisting, cache : Cache]
ExecType ==
  [job : Jobs \cup {"none"}, pc : Points, seen : Metadata, from : Checkpoints,
   stage : Nat, asking : SUBSET AllKinds, got : Got,
   todo : SUBSET Kinds, read : Metadata, at : Nat \ {0}]
JobType ==
  [state : {"none", "queued", "leased", "completed", "blocked", "dead_letter"},
   attempts : 0..MaxAttempts, retries : 0..MaxAttempts - 1, dead : BOOLEAN]
Row == [id : STRING, key : STRING, repair : BOOLEAN, patched : BOOLEAN, done : BOOLEAN]

Typed ==
  /\ metadata \in Metadata
  /\ checkpoint \in Checkpoints
  /\ rows \in Seq(Row)
  /\ \A i \in DOMAIN rows : rows[i].id = NewIds[i]
  /\ jobs \in [Jobs -> JobType]
  /\ exec \in ExecType
  /\ planned \in Plans

-----------------------------------------------------------------------------
(* The invariant. *)

(* A job that waits has an attempt left; the one that is leased is the one
   that is executed. *)
JobsOK ==
  /\ \A j \in Jobs :
       /\ jobs[j].state = "queued" => jobs[j].attempts < MaxAttempts
       /\ jobs[j].state = "dead_letter" => jobs[j].dead
       /\ jobs[j].state = "leased" <=> exec.job = j
  /\ exec.pc = "idle" <=> exec.job = "none"

(* What an execution x asks for: the stage it is in is one of its job's, it
   asks for what it neither found in the cache nor was given, and what it is
   to cache was found there or answered or replaced. *)
Busy == {"ask", "read", "write"}

AskOK(x) ==
  /\ x.todo # {} <=> x.pc \in {"read", "write"}
  /\ x.pc \in Busy =>
       /\ x.stage \in DOMAIN Stages(x.job)
       /\ x.todo \subseteq Stages(x.job)[x.stage]
       /\ \A k \in Stages(x.job)[x.stage] \cap Kinds :
            x.seen.cache[k] # "none" => x.got[k] = x.seen.cache[k]
  /\ x.pc \in {"read", "write"} => \A k \in Stages(x.job)[x.stage] : x.got[k] # "none"
  /\ x.pc = "ask" =>
       \A k \in x.asking :
         /\ k \in Stages(x.job)[x.stage]
         /\ x.got[k] = "none"
         /\ k \in Kinds => x.seen.cache[k] = "none"
  /\ x.job = "package_planning" /\ (x.pc \in {"store", "returned"} \/ (x.pc \in Busy /\ x.stage > 1))
       => x.got["scope"] # "none"
  /\ x.pc = "store" => x.job = "package_planning"
  /\ x.pc \in {"persist", "persisted"} => x.job \in Persisting

(* The kinds an execution has yet to cache. *)
Ahead(x) ==
  {k \in Kinds :
     /\ x.pc \in Busy
     /\ \/ k \in x.todo
        \/ \E s \in DOMAIN Stages(x.job) :
             /\ k \in Stages(x.job)[s]
             /\ s > x.stage \/ (s = x.stage /\ x.pc = "ask")}

(* The metadata m keeps what the execution has seen, and of what it has yet
   to cache it still is what was seen. *)
SeenOK(x, m) ==
  /\ x.seen.results \subseteq m.results
  /\ \A k \in Kinds : x.seen.cache[k] # "none" => m.cache[k] = x.seen.cache[k]
  /\ \A k \in Ahead(x) : m.cache[k] = x.seen.cache[k]

ReadOK == exec.pc \in {"write", "persisted"} => exec.read = metadata

(* Quality returns well for a run with packages only if it passed its gates. *)
GateOK ==
  exec.job = "quality" /\ exec.pc = "returned" /\ rows # <<>> =>
    MissionGate(exec.seen) /\ ExecutionGate

(* A usable answer is stored, or in the hands of the execution, or dropped. *)
InHand(x) == {k \in Fresh(x) : x.pc = "ask" \/ (x.pc \in Busy /\ k \in x.todo)}
CountOK ==
  /\ answers \in [Kinds -> Nat] /\ dropped \in [Kinds -> Nat]
  /\ \A k \in Kinds :
       /\ answers[k] <= 1 + dropped[k]
       /\ answers[k] <= dropped[k] \/ metadata.cache[k] # "none" \/ k \in InHand(exec)

IInv ==
  /\ Typed /\ JobsOK
  /\ AskOK(exec) /\ SeenOK(exec, metadata) /\ ReadOK
  /\ GateOK /\ CountOK

-----------------------------------------------------------------------------
(* Stages. *)

LEMMA StageFacts ==
  ASSUME NEW j
  PROVE  /\ Stages(j) \in Seq(SUBSET AllKinds)
         /\ Len(Stages(j)) \in Nat \ {0}
         /\ \A s, t \in DOMAIN Stages(j) : s # t => Stages(j)[s] \cap Stages(j)[t] = {}
         /\ j = "package_planning" => Stages(j)[1] = {"scope"}
         /\ j \notin {"architecture_design", "package_planning"} =>
              Len(Stages(j)) = 1 /\ Stages(j)[1] = {"report"}
<1>1. CASE j = "architecture_design"
  BY <1>1 DEF Stages, ArchitectureStages, AllKinds, Kinds
<1>2. CASE j = "package_planning"
  BY <1>2 DEF Stages, PlanningStages, AllKinds, Kinds
<1>3. CASE j \notin {"architecture_design", "package_planning"}
  <2>1. Stages(j) = <<{"report"}>>
    BY <1>3 DEF Stages, OneReport
  <2>2. {"report"} \in SUBSET AllKinds
    BY DEF AllKinds
  <2>3. Stages(j) \in Seq(SUBSET AllKinds) /\ Len(Stages(j)) = 1
    BY <2>1, <2>2
  <2>4. DOMAIN Stages(j) = {1}
    BY <2>3
  <2> QED
    BY <1>3, <2>1, <2>3, <2>4
<1> QED
  BY <1>1, <1>2, <1>3

LEMMA ValueFacts ==
  /\ "none" \in Values /\ "answer" \in Values /\ "default" \in Values
  /\ "none" \in Plans /\ "default" \in Plans
  /\ \A k \in AllKinds : "none" \notin Usable(k) /\ Usable(k) \subseteq Values
  /\ Usable("scope") \subseteq Plans
  BY PhasesAssumption DEF Values, Plans, Usable

(* An execution whose last stage left it with nothing to cache. *)
Settled(x, m) ==
  /\ x \in ExecType /\ m \in Metadata /\ x.todo = {}
  /\ x.seen.results \subseteq m.results
  /\ \A k \in Kinds : x.seen.cache[k] # "none" => m.cache[k] = x.seen.cache[k]

Unchanged(x, m, s) ==
  \A t \in DOMAIN Stages(x.job) : t >= s =>
    \A k \in Stages(x.job)[t] \cap Kinds : m.cache[k] = x.seen.cache[k]

LEMMA EnterOK ==
  ASSUME NEW x, NEW m, Settled(x, m), NEW s \in DOMAIN Stages(x.job), Unchanged(x, m, s),
         x.job = "package_planning" /\ s > 1 => x.got["scope"] # "none"
  PROVE  LET y == Enter(x, s) IN
         y \in ExecType /\ AskOK(y) /\ SeenOK(y, m) /\ y.job = x.job /\ y.pc = "ask"
<1> DEFINE have == [k \in AllKinds |->
             IF k \in Stages(x.job)[s] \ {"report"} THEN x.seen.cache[k] ELSE x.got[k]]
           y == Enter(x, s)
<1>1. Stages(x.job)[s] \subseteq AllKinds /\ s \in Nat
  BY StageFacts
<1>2. have \in Got
  BY <1>1 DEF Settled, ExecType, Metadata, Cache, Got, AllKinds, Kinds
<1>3. y = [x EXCEPT !.pc = "ask", !.stage = s, !.got = have,
                    !.asking = {k \in Stages(x.job)[s] : have[k] = "none"}]
  BY DEF Enter, AllKinds
<1> HIDE DEF have, y
<1>4. y \in ExecType /\ y.job = x.job /\ y.pc = "ask" /\ y.stage = s /\ y.got = have
      /\ y.seen = x.seen /\ y.todo = {} /\ y.asking = {k \in Stages(x.job)[s] : have[k] = "none"}
  BY <1>1, <1>2, <1>3 DEF Settled, ExecType, Points
<1>5. \A k \in Stages(x.job)[s] \cap Kinds : have[k] = x.seen.cache[k]
  BY <1>1 DEF have, AllKinds, Kinds
<1>6. x.job = "package_planning" /\ s > 1 => have["scope"] # "none"
  BY StageFacts DEF have, AllKinds, Kinds
<1>7. AskOK(y)
  BY <1>4, <1>5, <1>6 DEF AskOK, Busy
<1>8. \A k \in Ahead(y) : m.cache[k] = y.seen.cache[k]
  BY <1>4, StageFacts DEF Ahead, Busy, Unchanged
<1>9. SeenOK(y, m)
  BY <1>4, <1>8 DEF SeenOK, Settled
<1> QED
  BY <1>4, <1>7, <1>9 DEF y

(* An execution that has left its stages has nothing to cache any more. *)
LEMMA IdleAsk ==
  ASSUME NEW x \in ExecType, NEW m, x.pc \notin Busy, x.todo = {},
         x.seen.results \subseteq m.results,
         \A k \in Kinds : x.seen.cache[k] # "none" => m.cache[k] = x.seen.cache[k],
         x.job = "package_planning" /\ x.pc \in {"store", "returned"} => x.got["scope"] # "none",
         x.pc = "store" => x.job = "package_planning",
         x.pc \in {"persist", "persisted"} => x.job \in Persisting
  PROVE  AskOK(x) /\ SeenOK(x, m)
  BY DEF AskOK, SeenOK, Ahead, Busy

LEMMA OnwardOK ==
  ASSUME NEW x, NEW m, Settled(x, m), x.stage \in DOMAIN Stages(x.job),
         Unchanged(x, m, x.stage + 1), \A k \in Stages(x.job)[x.stage] : x.got[k] # "none",
         x.job = "package_planning" /\ x.stage > 1 => x.got["scope"] # "none"
  PROVE  LET y == Onward(x) IN
         /\ y \in ExecType /\ AskOK(y) /\ SeenOK(y, m) /\ y.job = x.job
         /\ y.pc \in {"ask", "store", "returned"} /\ y.seen = x.seen
<1>1. x.job = "package_planning" => x.got["scope"] # "none"
  BY StageFacts
<1>2. CASE x.stage < Len(Stages(x.job))
  <2>1. x.stage + 1 \in DOMAIN Stages(x.job)
    BY <1>2, StageFacts
  <2>2. Enter(x, x.stage + 1).seen = x.seen
    BY DEF Enter, Settled, ExecType
  <2> QED
    BY <1>1, <1>2, <2>1, <2>2, EnterOK DEF Onward
<1>3. CASE ~(x.stage < Len(Stages(x.job)))
  <2>1. PICK y : y = AfterStages(x)
    OBVIOUS
  <2>2. y \in ExecType /\ y.job = x.job /\ y.seen = x.seen /\ y.todo = {} /\ y.got = x.got
        /\ y.pc \in {"store", "returned"} /\ (y.pc = "store" => y.job = "package_planning")
    BY <2>1 DEF AfterStages, Settled, ExecType, Points
  <2>3. AskOK(y) /\ SeenOK(y, m)
    BY <1>1, <2>2, IdleAsk DEF Busy, Settled
  <2> QED
    BY <1>3, <2>1, <2>2, <2>3 DEF Onward
<1> QED
  BY <1>2, <1>3

-----------------------------------------------------------------------------
(* What several actions have in common. *)

LEMMA JobFacts ==
  /\ Phases \subseteq Jobs /\ "none" \notin Jobs
  /\ Phases \subseteq Checkpoints /\ Persisting \subseteq Phases
  /\ {"wave_completed", "run_created"} \subseteq Checkpoints
<1>1. "none" \notin Range(NewIds)
  BY PhasesAssumption
<1>2. "none" \notin Phases
  BY DEF Phases
<1> QED
  BY <1>1, <1>2 DEF Jobs, Phases, Checkpoints, NextPhase, Persisting

LEMMA IdleOK ==
  ASSUME NEW m \in Metadata
  PROVE  /\ Idle \in ExecType /\ AskOK(Idle) /\ SeenOK(Idle, m)
         /\ Idle.job = "none" /\ Idle.pc = "idle"
<1>1. NoRun \in Metadata /\ \A k \in Kinds : NoRun.cache[k] = "none"
  BY ValueFacts DEF NoRun, Metadata, Cache, Kinds
<1>2. None \in Got
  BY ValueFacts DEF None, Got, AllKinds, Kinds
<1>3. Idle \in ExecType /\ Idle.job = "none" /\ Idle.pc = "idle" /\ Idle.todo = {} /\ Idle.seen = NoRun
  BY <1>1, <1>2, JobFacts DEF Idle, ExecType, Points
<1>4. NoRun.results = {}
  BY DEF NoRun
<1> QED
  BY <1>1, <1>3, <1>4, IdleAsk DEF Busy

(* An execution that is out of its stages goes from one point to another. *)
LEMMA GotoOK ==
  ASSUME IInv, exec.pc \notin Busy, NEW p \in Points \ {"ask", "read", "write", "store"},
         NEW x, x.pc = p, x \in ExecType, x.job = exec.job, x.todo = exec.todo,
         x.seen = exec.seen, x.got = exec.got,
         NEW m \in Metadata, metadata.results \subseteq m.results,
         \A k \in Kinds : metadata.cache[k] # "none" => m.cache[k] = metadata.cache[k],
         x.job = "package_planning" /\ p = "returned" => exec.pc \in {"store", "returned"},
         p \in {"persist", "persisted"} => x.job \in Persisting
  PROVE  AskOK(x) /\ SeenOK(x, m)
<1>1. x.todo = {}
  BY DEF IInv, AskOK, Busy
<1>2. x.seen.results \subseteq m.results
  BY DEF IInv, SeenOK
<1>3. \A k \in Kinds : x.seen.cache[k] # "none" => m.cache[k] = x.seen.cache[k]
  BY DEF IInv, SeenOK
<1>4. x.job = "package_planning" /\ x.pc \in {"store", "returned"} => x.got["scope"] # "none"
  BY DEF IInv, AskOK
<1> QED
  BY <1>1, <1>2, <1>3, <1>4, IdleAsk DEF Busy

LEMMA JobsStay ==
  ASSUME IInv, UNCHANGED jobs, exec'.job = exec.job, exec'.pc = "idle" <=> exec.pc = "idle"
  PROVE  JobsOK'
  BY DEF IInv, JobsOK

(* No answer is given or lost, and what was stored or in hand still is. *)
LEMMA CountStays ==
  ASSUME IInv, UNCHANGED <<answers, dropped>>,
         \A k \in Kinds : metadata.cache[k] # "none" \/ k \in InHand(exec) =>
           metadata'.cache[k] # "none" \/ k \in InHand(exec')
  PROVE  CountOK'
<1>1. \A k \in Kinds : metadata'.cache[k] # "none" \/ k \in InHand(exec') <=>
        (metadata.cache[k] # "none" \/ k \in InHand(exec))'
  OBVIOUS
<1> QED
  BY <1>1 DEF IInv, CountOK

LEMMA InHandBusy == \A x : x.pc \notin Busy => InHand(x) = {}
  BY DEF InHand, Busy

(* Answers in hand are dropped. *)
LEMMA CountDrops ==
  ASSUME IInv, UNCHANGED <<answers, metadata>>, NEW ks, ks \subseteq InHand(exec), Drop(ks),
         InHand(exec) \ ks \subseteq InHand(exec')
  PROVE  CountOK'
<1>1. dropped' \in [Kinds -> Nat] /\ \A k \in Kinds :
        dropped'[k] = dropped[k] + IF k \in ks THEN 1 ELSE 0
  BY DEF Drop, IInv, CountOK
<1>2. ASSUME NEW k \in Kinds
      PROVE  /\ answers'[k] <= 1 + dropped'[k]
             /\ answers'[k] <= dropped'[k] \/ metadata'.cache[k] # "none" \/ k \in InHand(exec')
  <2>1. answers[k] \in Nat /\ dropped[k] \in Nat /\ answers[k] <= 1 + dropped[k]
    BY DEF IInv, CountOK
  <2>2. CASE k \in ks
    BY <1>1, <2>1, <2>2
  <2>3. CASE k \notin ks
    BY <1>1, <2>1, <2>3 DEF IInv, CountOK
  <2> QED
    BY <2>2, <2>3
<1>3. answers' \in [Kinds -> Nat]
  BY DEF IInv, CountOK
<1>4. \A k \in Kinds : (k \in InHand(exec))' <=> k \in InHand(exec')
  OBVIOUS
<1> QED
  BY <1>1, <1>2, <1>3, <1>4 DEF CountOK

LEMMA MarkedOK ==
  ASSUME Typed, NEW id, NEW field \in {"patched", "done"}
  PROVE  LET r == Marked(id, field) IN
         /\ r \in Seq(Row) /\ DOMAIN r = DOMAIN rows
         /\ \A i \in DOMAIN rows : r[i].id = rows[i].id /\ (rows[i].patched => r[i].patched)
<1> DEFINE r == Marked(id, field)
<1>1. rows \in Seq(Row) /\ DOMAIN rows = 1..Len(rows) /\ Len(rows) \in Nat
  BY DEF Typed
<1>2. r = [i \in 1..Len(rows) |->
             IF rows[i].id = id THEN [rows[i] EXCEPT ![field] = TRUE] ELSE rows[i]]
  BY <1>1 DEF Marked
<1> HIDE DEF r
<1>3. ASSUME NEW i \in 1..Len(rows)
      PROVE  r[i] \in Row /\ r[i].id = rows[i].id /\ (rows[i].patched => r[i].patched)
  <2>1. rows[i] \in Row
    BY <1>1
  <2>2. CASE field = "patched"
    BY <1>2, <2>1, <2>2 DEF Row
  <2>3. CASE field = "done"
    BY <1>2, <2>1, <2>3 DEF Row
  <2> QED
    BY <2>2, <2>3
<1>4. r \in [1..Len(rows) -> Row]
  BY <1>2, <1>3
<1>5. r \in Seq(Row) /\ DOMAIN r = 1..Len(rows)
  BY <1>1, <1>4
<1> QED
  BY <1>1, <1>3, <1>5 DEF r

-----------------------------------------------------------------------------
(* Each action preserves the invariant. *)

LEMMA StartOK ==
  ASSUME IInv, NEW j \in Jobs
  PROVE  LET y == Start(Execution(j)) IN
         /\ y \in ExecType /\ AskOK(y) /\ SeenOK(y, metadata) /\ y.job = j
         /\ y.pc \in {"ask", "advance", "returned"}
         /\ y.pc = "returned" => rows = <<>>
<1>1. PICK x : x = Execution(j)
  OBVIOUS
<1>2. metadata \in Metadata /\ checkpoint \in Checkpoints
  BY DEF IInv, Typed
<1>3. x = [Idle EXCEPT !.job = j, !.seen = metadata, !.from = checkpoint]
  BY <1>1 DEF Execution
<1>4. Idle \in ExecType /\ Idle.todo = {}
  BY <1>2, IdleOK DEF Idle
<1>5. x \in ExecType /\ x.job = j /\ x.seen = metadata /\ x.todo = {}
  BY <1>2, <1>3, <1>4 DEF ExecType
<1>6. Settled(x, metadata) /\ Unchanged(x, metadata, 1)
  BY <1>2, <1>5 DEF Settled, Unchanged
<1>7. CASE ReturnsCompleted(x)
  <2>1. PICK y : y = [x EXCEPT !.pc = CompletedAdvances]
    OBVIOUS
  <2>2. y \in ExecType /\ y.job = j /\ y.seen = metadata /\ y.todo = {} /\ y.pc = "advance"
    BY <1>5, <2>1 DEF ExecType, Points, CompletedAdvances
  <2>3. AskOK(y) /\ SeenOK(y, metadata)
    BY <2>2, IdleAsk DEF Busy
  <2>4. ~PassesUnasked(x)
    BY <1>7 DEF ReturnsCompleted, PassesUnasked
  <2>5. Start(Execution(j)) = y
    BY <1>1, <1>7, <2>1, <2>4 DEF Start
  <2> QED
    BY <2>2, <2>3, <2>5
<1>8. CASE ~ReturnsCompleted(x) /\ PassesUnasked(x)
  <2>1. PICK y : y = [x EXCEPT !.pc = "returned"]
    OBVIOUS
  <2>2. y \in ExecType /\ y.job = j /\ y.seen = metadata /\ y.todo = {} /\ y.pc = "returned"
    BY <1>5, <2>1 DEF ExecType, Points
  <2>3. y.job # "package_planning" /\ rows = <<>>
    BY <1>5, <1>8, <2>2 DEF PassesUnasked
  <2>4. AskOK(y) /\ SeenOK(y, metadata)
    BY <2>2, <2>3, IdleAsk DEF Busy
  <2> QED
    BY <1>1, <1>8, <2>1, <2>2, <2>3, <2>4 DEF Start
<1>9. CASE ~ReturnsCompleted(x) /\ ~PassesUnasked(x)
  <2>1. 1 \in DOMAIN Stages(x.job)
    BY StageFacts
  <2>2. PICK y : y = Enter(x, 1)
    OBVIOUS
  <2>3. y \in ExecType /\ AskOK(y) /\ SeenOK(y, metadata) /\ y.job = x.job /\ y.pc = "ask"
    BY <1>6, <2>1, <2>2, EnterOK
  <2>4. Start(Execution(j)) = y
    BY <1>1, <1>9, <2>2 DEF Start
  <2> QED
    BY <1>5, <2>3, <2>4
<1> QED
  BY <1>7, <1>8, <1>9

LEMMA ClaimOK ==
  ASSUME IInv, NEW j \in Jobs, Claim(j)
  PROVE  IInv'
<1>1. PICK y : y = exec'
  OBVIOUS
<1>2. /\ y \in ExecType /\ AskOK(y) /\ SeenOK(y, metadata) /\ y.job = j
      /\ y.pc \in {"ask", "advance", "returned"} /\ (y.pc = "returned" => rows = <<>>)
  BY <1>1, StartOK DEF Claim
<1>3. AskOK(exec)' /\ SeenOK(exec, metadata)'
  BY <1>1, <1>2 DEF Claim
<1>4. jobs' = [jobs EXCEPT ![j].state = "leased", ![j].attempts = @ + 1]
      /\ jobs \in [Jobs -> JobType] /\ jobs[j].state = "queued"
  BY DEF Claim, IInv, Typed
<1>5. jobs[j].attempts < MaxAttempts /\ jobs[j].attempts \in Nat /\ exec.job = "none"
  BY <1>4 DEF IInv, JobsOK, JobType, Claim
<1>6. jobs[j].attempts + 1 \in 0..MaxAttempts
  BY <1>5, PhasesAssumption
<1>7. jobs' \in [Jobs -> JobType]
  BY <1>4, <1>6 DEF JobType
<1>8. Typed'
  BY <1>1, <1>2, <1>7 DEF IInv, Typed, Claim
<1>9. JobsOK'
  <2>1. jobs'[j].state = "leased" /\ \A i \in Jobs \ {j} : jobs'[i] = jobs[i]
    BY <1>4 DEF JobType
  <2>2. ASSUME NEW i \in Jobs
        PROVE  /\ jobs'[i].state = "queued" => jobs'[i].attempts < MaxAttempts
               /\ jobs'[i].state = "dead_letter" => jobs'[i].dead
               /\ jobs'[i].state = "leased" <=> i = j
    BY <1>5, <2>1, JobFacts DEF IInv, JobsOK
  <2> QED
    BY <1>1, <1>2, <2>2, JobFacts DEF JobsOK
<1>10. ReadOK' /\ GateOK'
  BY <1>1, <1>2 DEF ReadOK, GateOK, Claim
<1>11. InHand(exec) = {}
  BY InHandBusy DEF Claim, Busy
<1>12. CountOK'
  BY <1>11, CountStays DEF Claim
<1> QED
  BY <1>3, <1>8, <1>9, <1>10, <1>12 DEF IInv

LEMMA AnsweredOK ==
  ASSUME IInv, NEW k \in AllKinds, NEW v \in Values, Answered(k, v)
  PROVE  IInv'
<1>1. PICK x, y : x = exec /\ y = exec'
  OBVIOUS
<1>2. /\ x \in ExecType /\ x.pc = "ask" /\ k \in x.asking /\ v \in Usable(k) /\ v # "none"
      /\ y = [x EXCEPT !.asking = x.asking \ {k}, !.got[k] = v]
      /\ x.asking \subseteq AllKinds
  BY <1>1, ValueFacts DEF Answered, At, IInv, Typed, ExecType
<1>3. x.got \in Got /\ [x.got EXCEPT ![k] = v] \in Got
  BY <1>2, ValueFacts DEF ExecType, Got, AllKinds, Kinds
<1>4. /\ y \in ExecType /\ y.pc = "ask" /\ y.job = x.job /\ y.seen = x.seen /\ y.stage = x.stage
      /\ y.todo = x.todo /\ y.asking = x.asking \ {k} /\ y.got = [x.got EXCEPT ![k] = v]
  BY <1>2, <1>3 DEF ExecType
<1>5. y.got[k] = v /\ \A l \in AllKinds \ {k} : y.got[l] = x.got[l]
  BY <1>3, <1>4 DEF Got
<1>6. AskOK(x) /\ SeenOK(x, metadata)
  BY <1>1 DEF IInv
<1>7. x.stage \in DOMAIN Stages(x.job) /\ Stages(x.job)[x.stage] \subseteq AllKinds
      /\ k \in Stages(x.job)[x.stage] /\ x.got[k] = "none"
      /\ (k \in Kinds => x.seen.cache[k] = "none")
  BY <1>2, <1>6, StageFacts DEF AskOK, Busy
<1>8. "scope" \in AllKinds /\ Kinds \subseteq AllKinds
  BY DEF AllKinds, Kinds
<1>9. AskOK(y)
  BY <1>2, <1>4, <1>5, <1>6, <1>7, <1>8 DEF AskOK, Busy
<1>10. Ahead(y) = Ahead(x)
  BY <1>2, <1>4 DEF Ahead
<1>11. SeenOK(y, metadata)
  BY <1>4, <1>6, <1>10 DEF SeenOK
<1>12. AskOK(exec)' /\ SeenOK(exec, metadata)'
  BY <1>1, <1>9, <1>11 DEF Answered
<1>13. Typed' /\ JobsOK'
  BY <1>1, <1>2, <1>4, JobsStay DEF IInv, Typed, Answered
<1>14. ReadOK' /\ GateOK'
  BY <1>1, <1>4 DEF ReadOK, GateOK
<1>15. InHand(x) \subseteq InHand(y) /\ k \notin InHand(x) /\ (k \in Kinds => k \in InHand(y))
  <2>1. Fresh(x) \subseteq Fresh(y) /\ k \notin Fresh(x) /\ (k \in Kinds => k \in Fresh(y))
    BY <1>2, <1>4, <1>5, <1>7, <1>8, ValueFacts DEF Fresh
  <2> QED
    BY <1>2, <1>4, <2>1 DEF InHand
<1>16. CASE k \notin Kinds
  BY <1>1, <1>12, <1>13, <1>14, <1>15, <1>16, CountStays DEF Answered, IInv
<1>17. CASE k \in Kinds
  <2>1. k \in Ahead(x)
    BY <1>2, <1>7, <1>17 DEF Ahead, Busy
  <2>2. metadata.cache[k] = "none"
    BY <1>6, <1>7, <1>17, <2>1 DEF SeenOK
  <2>3. answers[k] \in Nat /\ dropped[k] \in Nat /\ answers[k] <= dropped[k]
    BY <1>1, <1>15, <1>17, <2>2 DEF IInv, CountOK
  <2>4. answers' = [answers EXCEPT ![k] = answers[k] + 1] /\ UNCHANGED <<dropped, metadata>>
    BY <1>17 DEF Answered
  <2>5. ASSUME NEW l \in Kinds
        PROVE  /\ answers'[l] <= 1 + dropped'[l]
               /\ answers'[l] <= dropped'[l] \/ metadata'.cache[l] # "none" \/ l \in InHand(exec')
    BY <1>1, <1>15, <2>3, <2>4 DEF IInv, CountOK
  <2>6. answers' \in [Kinds -> Nat] /\ dropped' \in [Kinds -> Nat]
    <3>1. answers \in [Kinds -> Nat] /\ dropped \in [Kinds -> Nat] /\ answers[k] + 1 \in Nat
      BY <2>3 DEF IInv, CountOK
    <3> QED
      BY <2>4, <3>1
  <2>7. \A l \in Kinds : (l \in InHand(exec))' <=> l \in InHand(exec')
    OBVIOUS
  <2>8. CountOK'
    BY <2>5, <2>6, <2>7 DEF CountOK
  <2> QED
    BY <1>12, <1>13, <1>14, <2>8 DEF IInv
<1> QED
  BY <1>16, <1>17

LEMMA RefusedOK ==
  ASSUME IInv, NEW k \in AllKinds, Refused(k)
  PROVE  IInv'
<1>1. PICK x, y : x = exec /\ y = exec'
  OBVIOUS
<1>2. /\ x \in ExecType /\ x.pc = "ask" /\ y = [x EXCEPT !.asking = x.asking \ {k}]
  BY <1>1 DEF Refused, At, IInv, Typed
<1>3. /\ y \in ExecType /\ y.pc = "ask" /\ y.job = x.job /\ y.seen = x.seen /\ y.stage = x.stage
      /\ y.todo = x.todo /\ y.asking = x.asking \ {k} /\ y.got = x.got
  BY <1>2 DEF ExecType
<1>4. AskOK(x) /\ SeenOK(x, metadata)
  BY <1>1 DEF IInv
<1>5. AskOK(y)
  BY <1>2, <1>3, <1>4 DEF AskOK, Busy
<1>6. Ahead(y) = Ahead(x) /\ InHand(y) = InHand(x)
  BY <1>2, <1>3 DEF Ahead, InHand, Fresh
<1>7. SeenOK(y, metadata)
  BY <1>3, <1>4, <1>6 DEF SeenOK
<1>8. AskOK(exec)' /\ SeenOK(exec, metadata)'
  BY <1>1, <1>5, <1>7 DEF Refused
<1>9. Typed' /\ JobsOK'
  BY <1>1, <1>2, <1>3, JobsStay DEF IInv, Typed, Refused, history
<1>10. ReadOK' /\ GateOK'
  BY <1>1, <1>3 DEF ReadOK, GateOK
<1>11. CountOK'
  BY <1>1, <1>6, CountStays DEF Refused, history
<1> QED
  BY <1>8, <1>9, <1>10, <1>11 DEF IInv

LEMMA SettleRefusedOK ==
  ASSUME IInv, At("ask"), Goto("refused"), Drop(Fresh(exec)), UNCHANGED <<metadata, checkpoint, jobs, answers, planned>>,
         rows' \in Seq(Row), \A i \in DOMAIN rows' : rows'[i].id = NewIds[i]
  PROVE  IInv'
<1>1. PICK x, y : x = exec /\ y = exec'
  OBVIOUS
<1>2. x \in ExecType /\ x.pc = "ask" /\ y = [x EXCEPT !.pc = "refused"]
  BY <1>1 DEF Goto, At, IInv, Typed
<1>3. y \in ExecType /\ y.pc = "refused" /\ y.job = x.job /\ y.seen = x.seen /\ y.todo = x.todo
  BY <1>2 DEF ExecType, Points
<1>4. AskOK(x) /\ SeenOK(x, metadata)
  BY <1>1 DEF IInv
<1>5. y.todo = {}
  BY <1>2, <1>3, <1>4 DEF AskOK
<1>6. AskOK(y) /\ SeenOK(y, metadata)
  BY <1>3, <1>4, <1>5, IdleAsk DEF Busy, SeenOK
<1>7. AskOK(exec)' /\ SeenOK(exec, metadata)'
  BY <1>1, <1>6
<1>8. Typed' /\ JobsOK'
  BY <1>1, <1>2, <1>3, JobsStay DEF IInv, Typed
<1>9. ReadOK' /\ GateOK'
  BY <1>1, <1>3 DEF ReadOK, GateOK
<1>10. Fresh(exec) \subseteq InHand(exec) /\ InHand(exec) \ Fresh(exec) = {}
  BY DEF InHand, At
<1>11. CountOK'
  BY <1>10, CountDrops
<1> QED
  BY <1>7, <1>8, <1>9, <1>11 DEF IInv

LEMMA SettleOK ==
  ASSUME IInv, Settle
  PROVE  IInv'
<1>1. PICK x, y : x = exec /\ y = exec'
  OBVIOUS
<1> DEFINE stage == Stages(x.job)[x.stage]
           missing == {k \in stage : x.got[k] = "none"}
           got == [k \in DOMAIN x.got |-> IF k \in missing THEN "default" ELSE x.got[k]]
           todo == {k \in stage : Caches(x, k)}
           Good == (\A k \in missing : HasDefault(x.job, k)) /\ Passes(x)
<1>2. /\ x \in ExecType /\ x.pc = "ask" /\ x.asking = {}
      /\ UNCHANGED <<metadata, checkpoint, jobs, answers, planned>>
      /\ rows' = IF missing = {} THEN Marked(x.job, "patched") ELSE rows
      /\ IF Good
         THEN /\ y = IF todo = {} THEN Onward([x EXCEPT !.got = got])
                     ELSE [x EXCEPT !.got = got, !.todo = todo, !.pc = "read"]
              /\ UNCHANGED dropped
         ELSE Goto("refused") /\ Drop(Fresh(x))
  BY <1>1 DEF Settle, At, IInv, Typed
<1>3. AskOK(x) /\ SeenOK(x, metadata) /\ metadata \in Metadata
  BY <1>1 DEF IInv, Typed
<1>4. stage \subseteq AllKinds /\ x.stage \in DOMAIN Stages(x.job) /\ x.todo = {}
  BY <1>2, <1>3, StageFacts DEF AskOK, Busy
<1>5. /\ rows' \in Seq(Row) /\ DOMAIN rows' = DOMAIN rows
      /\ \A i \in DOMAIN rows : rows'[i].id = rows[i].id /\ (rows[i].patched => rows'[i].patched)
  <2>1. CASE missing = {}
    BY <1>2, <2>1, MarkedOK DEF IInv
  <2>2. CASE missing # {}
    BY <1>2, <2>2 DEF IInv, Typed
  <2> QED
    BY <2>1, <2>2
<1>6. \A i \in DOMAIN rows' : rows'[i].id = NewIds[i]
  BY <1>5 DEF IInv, Typed
<1>7. CASE ~Good
  BY <1>1, <1>2, <1>5, <1>6, <1>7, SettleRefusedOK DEF At
<1>8. CASE Good
  <2>1. got \in Got
    BY <1>2, ValueFacts DEF ExecType, Got, AllKinds, Kinds
  <2>2. \A k \in stage : got[k] # "none"
    BY <1>2, <1>4 DEF ExecType, Got
  <2>3. \A k \in AllKinds : x.got[k] # "none" => got[k] = x.got[k]
    BY <1>2, <1>4 DEF ExecType, Got
  <2>4. "scope" \in AllKinds /\ Kinds \subseteq AllKinds
    BY DEF AllKinds, Kinds
  <2>5. PICK z : z = [x EXCEPT !.got = got]
    OBVIOUS
  <2> HIDE DEF got
  <2>6. /\ z \in ExecType /\ z.job = x.job /\ z.stage = x.stage /\ z.seen = x.seen /\ z.todo = {}
        /\ z.got = got /\ z.pc = "ask"
    BY <1>2, <1>4, <2>1, <2>5 DEF ExecType
  <2>7. x.job = "package_planning" /\ x.stage > 1 => got["scope"] # "none"
    BY <1>2, <1>3, <2>3, <2>4 DEF AskOK, Busy
  <2>8. /\ y \in ExecType /\ AskOK(y) /\ SeenOK(y, metadata) /\ y.job = x.job /\ y.seen = x.seen
        /\ y.pc \in {"ask", "store", "returned", "read"} /\ InHand(x) \subseteq InHand(y)
    <3>1. CASE todo = {}
      <4>1. Settled(z, metadata)
        BY <1>3, <2>6 DEF Settled, SeenOK
      <4>2. Unchanged(z, metadata, z.stage + 1)
        BY <1>2, <1>3, <1>4, <2>6, StageFacts DEF Unchanged, SeenOK, Ahead, Busy, ExecType
      <4>3. PICK w : w = Onward(z)
        OBVIOUS
      <4>4. /\ w \in ExecType /\ AskOK(w) /\ SeenOK(w, metadata) /\ w.job = x.job
            /\ w.pc \in {"ask", "store", "returned"} /\ w.seen = x.seen
        BY <1>4, <2>2, <2>6, <2>7, <4>1, <4>2, <4>3, OnwardOK
      <4>5. InHand(x) = {}
        BY <1>2, <3>1 DEF InHand, Fresh, Caches
      <4>6. y = w
        BY <1>2, <1>8, <2>5, <3>1, <4>3 DEF got
      <4> QED
        BY <4>4, <4>5, <4>6
    <3>2. CASE todo # {}
      <4>1. y = [x EXCEPT !.got = got, !.todo = todo, !.pc = "read"]
        BY <1>2, <1>8, <3>2 DEF got
      <4>2. todo \subseteq Kinds
        BY DEF Caches
      <4>3. /\ y \in ExecType /\ y.job = x.job /\ y.stage = x.stage /\ y.seen = x.seen
            /\ y.todo = todo /\ y.got = got /\ y.pc = "read"
        BY <1>2, <2>1, <4>1, <4>2 DEF ExecType, Points
      <4>4. AskOK(y)
        BY <1>2, <1>3, <1>4, <2>2, <2>3, <2>4, <2>7, <3>2, <4>3 DEF AskOK, Busy
      <4>5. Ahead(y) \subseteq Ahead(x)
        BY <1>2, <1>4, <4>3 DEF Ahead, Busy
      <4>6. SeenOK(y, metadata)
        BY <1>3, <4>3, <4>5 DEF SeenOK
      <4>7. InHand(x) \subseteq InHand(y)
        BY <1>2, <1>4, <2>3, <2>4, <4>3, ValueFacts DEF InHand, Fresh, Caches, Busy
      <4> QED
        BY <4>3, <4>4, <4>6, <4>7
    <3> QED
      BY <3>1, <3>2
  <2>9. AskOK(exec)' /\ SeenOK(exec, metadata)'
    BY <1>1, <1>2, <2>8
  <2>10. Typed' /\ JobsOK'
    BY <1>1, <1>2, <1>5, <1>6, <2>8, JobsStay DEF IInv, Typed
  <2>11. ReadOK'
    BY <1>1, <2>8 DEF ReadOK
  <2>12. GateOK'
    BY <1>1, <1>2, <1>5, <1>8, <2>8 DEF GateOK, Passes, ExecutionGate, MissionGate, IInv, Typed
  <2>13. CountOK'
    BY <1>1, <1>2, <1>8, <2>8, CountStays
  <2> QED
    BY <2>9, <2>10, <2>11, <2>12, <2>13 DEF IInv
<1> QED
  BY <1>7, <1>8

LEMMA ReadCacheOK ==
  ASSUME IInv, ReadCache
  PROVE  IInv'
<1>1. PICK x, y : x = exec /\ y = exec'
  OBVIOUS
<1>2. x \in ExecType /\ x.pc = "read" /\ y = [x EXCEPT !.read = metadata, !.pc = "write"]
      /\ metadata \in Metadata
  BY <1>1 DEF ReadCache, At, IInv, Typed
<1>3. /\ y \in ExecType /\ y.pc = "write" /\ y.job = x.job /\ y.seen = x.seen /\ y.stage = x.stage
      /\ y.todo = x.todo /\ y.asking = x.asking /\ y.got = x.got /\ y.read = metadata
  BY <1>2 DEF ExecType, Points
<1>4. AskOK(x) /\ SeenOK(x, metadata)
  BY <1>1 DEF IInv
<1>5. AskOK(y)
  BY <1>2, <1>3, <1>4 DEF AskOK, Busy
<1>6. Ahead(y) = Ahead(x) /\ InHand(y) = InHand(x)
  BY <1>2, <1>3 DEF Ahead, InHand, Fresh, Busy
<1>7. SeenOK(y, metadata)
  BY <1>3, <1>4, <1>6 DEF SeenOK
<1>8. AskOK(exec)' /\ SeenOK(exec, metadata)'
  BY <1>1, <1>5, <1>7 DEF ReadCache
<1>9. Typed' /\ JobsOK'
  BY <1>1, <1>2, <1>3, JobsStay DEF IInv, Typed, ReadCache, history
<1>10. ReadOK' /\ GateOK'
  BY <1>1, <1>3 DEF ReadOK, GateOK, ReadCache
<1>11. CountOK'
  BY <1>1, <1>6, CountStays DEF ReadCache, history
<1> QED
  BY <1>8, <1>9, <1>10, <1>11 DEF IInv

LEMMA FirstIn ==
  ASSUME NEW ks \in SUBSET Kinds, ks # {}
  PROVE  First(ks) \in ks
<1>1. /\ CacheOrder["seed"] = 1 /\ CacheOrder["surface"] = 2 /\ CacheOrder["layout"] = 3
      /\ CacheOrder["contracts"] = 4 /\ CacheOrder["scope"] = 5 /\ CacheOrder["wave"] = 6
  BY DEF CacheOrder
<1>2. \A l \in ks : l \in {"seed", "surface", "layout", "contracts", "scope", "wave"}
  BY DEF Kinds
<1>3. \E k \in ks : \A l \in ks : CacheOrder[k] <= CacheOrder[l]
  <2>1. CASE "seed" \in ks
    BY <1>1, <1>2, <2>1
  <2>2. CASE "seed" \notin ks /\ "surface" \in ks
    BY <1>1, <1>2, <2>2
  <2>3. CASE {"seed", "surface"} \cap ks = {} /\ "layout" \in ks
    BY <1>1, <1>2, <2>3
  <2>4. CASE {"seed", "surface", "layout"} \cap ks = {} /\ "contracts" \in ks
    BY <1>1, <1>2, <2>4
  <2>5. CASE {"seed", "surface", "layout", "contracts"} \cap ks = {} /\ "scope" \in ks
    BY <1>1, <1>2, <2>5
  <2>6. CASE {"seed", "surface", "layout", "contracts", "scope"} \cap ks = {}
    BY <1>1, <1>2, <2>6
  <2> QED
    BY <2>1, <2>2, <2>3, <2>4, <2>5, <2>6
<1> QED
  BY <1>3 DEF First

(* The kind whose turn it is to be cached, by an execution that has read. *)
LEMMA TurnOK ==
  ASSUME IInv, exec.pc = "write", NEW k, k = First(exec.todo)
  PROVE  /\ k \in exec.todo /\ k \in Kinds /\ k \in Stages(exec.job)[exec.stage]
         /\ exec.read = metadata /\ exec.got[k] \in Values \ {"none"}
         /\ k = "scope" => exec.got[k] \in Plans
         /\ metadata.cache[k] = exec.seen.cache[k]
         /\ metadata.cache[k] # "none" => exec.got[k] = metadata.cache[k]
<1>1. exec \in ExecType /\ AskOK(exec) /\ SeenOK(exec, metadata) /\ ReadOK
  BY DEF IInv, Typed
<1>2. k \in exec.todo /\ k \in Kinds
  BY <1>1, FirstIn DEF AskOK, ExecType
<1>3. k \in Stages(exec.job)[exec.stage] /\ exec.got[k] # "none"
  BY <1>1, <1>2 DEF AskOK, Busy
<1>4. exec.got[k] \in Values /\ (k = "scope" => exec.got[k] \in Plans)
  BY <1>1, <1>2 DEF ExecType, Got, AllKinds
<1>5. k \in Ahead(exec)
  BY <1>2 DEF Ahead, Busy
<1>6. metadata.cache[k] = exec.seen.cache[k]
  BY <1>1, <1>5 DEF SeenOK
<1>7. exec.seen.cache[k] # "none" => exec.got[k] = exec.seen.cache[k]
  BY <1>1, <1>2, <1>3 DEF AskOK, Busy
<1> QED
  BY <1>1, <1>2, <1>3, <1>4, <1>6, <1>7 DEF ReadOK

LEMMA WriteCacheOK ==
  ASSUME IInv, WriteCache
  PROVE  IInv'
<1>1. PICK x, y, k : x = exec /\ y = exec' /\ k = First(exec.todo)
  OBVIOUS
<1>2. PICK rest : rest = [x EXCEPT !.todo = x.todo \ {k}, !.read = NoRun]
  OBVIOUS
<1>3. /\ x \in ExecType /\ x.pc = "write" /\ metadata \in Metadata
      /\ y = IF rest.todo = {} THEN Onward(rest) ELSE [rest EXCEPT !.pc = "read"]
      /\ UNCHANGED <<checkpoint, rows, jobs, answers, planned>>
  BY <1>1, <1>2 DEF WriteCache, At, IInv, Typed
<1>4. AskOK(x) /\ SeenOK(x, metadata)
  BY <1>1 DEF IInv
<1>5. /\ k \in x.todo /\ k \in Kinds /\ k \in Stages(x.job)[x.stage]
      /\ x.read = metadata /\ x.got[k] \in Values \ {"none"}
      /\ k = "scope" => x.got[k] \in Plans
      /\ metadata.cache[k] = x.seen.cache[k]
      /\ metadata.cache[k] # "none" => x.got[k] = metadata.cache[k]
  BY <1>1, <1>3, TurnOK
<1>6. \/ /\ metadata' = [metadata EXCEPT !.cache[k] = x.got[k]]
         /\ UNCHANGED dropped
      \/ /\ Drop({k} \cap Fresh(x))
         /\ UNCHANGED metadata
  BY <1>1, <1>5 DEF WriteCache
<1>7. /\ metadata' \in Metadata /\ metadata'.results = metadata.results
      /\ \A l \in Kinds \ {k} : metadata'.cache[l] = metadata.cache[l]
      /\ metadata.cache[k] # "none" => metadata'.cache[k] = metadata.cache[k]
  <2>1. CASE metadata' = [metadata EXCEPT !.cache[k] = x.got[k]]
    <3>1. [metadata.cache EXCEPT ![k] = x.got[k]] \in Cache
      BY <1>3, <1>5 DEF Metadata, Cache, Kinds
    <3>2. metadata'.cache = [metadata.cache EXCEPT ![k] = x.got[k]] /\ metadata'.results = metadata.results
          /\ metadata' \in Metadata
      BY <1>3, <2>1, <3>1 DEF Metadata
    <3> QED
      BY <1>3, <1>5, <3>2 DEF Metadata, Cache
  <2>2. CASE UNCHANGED metadata
    BY <1>3, <2>2
  <2> QED
    BY <1>6, <2>1, <2>2
<1>8. PICK m : m = metadata'
  OBVIOUS
<1>9. x.seen.results \subseteq m.results
      /\ \A l \in Kinds : x.seen.cache[l] # "none" => m.cache[l] = x.seen.cache[l]
  BY <1>4, <1>5, <1>7, <1>8 DEF SeenOK
<1>10. NoRun \in Metadata
  BY ValueFacts DEF NoRun, Metadata, Cache, Kinds
<1>11. /\ rest \in ExecType /\ rest.job = x.job /\ rest.seen = x.seen /\ rest.stage = x.stage
       /\ rest.todo = x.todo \ {k} /\ rest.got = x.got /\ rest.pc = "write"
  BY <1>2, <1>3, <1>10 DEF ExecType
<1>12. x.stage \in DOMAIN Stages(x.job) /\ (\A l \in Stages(x.job)[x.stage] : x.got[l] # "none")
       /\ x.todo \subseteq Stages(x.job)[x.stage]
       /\ (x.job = "package_planning" /\ x.stage > 1 => x.got["scope"] # "none")
       /\ \A l \in Stages(x.job)[x.stage] \cap Kinds : x.seen.cache[l] # "none" => x.got[l] = x.seen.cache[l]
  BY <1>3, <1>4 DEF AskOK, Busy
<1>13. /\ y \in ExecType /\ AskOK(y) /\ SeenOK(y, m) /\ y.job = x.job /\ y.seen = x.seen
       /\ y.pc \in {"ask", "store", "returned", "read"} /\ InHand(x) \ {k} \subseteq InHand(y)
       /\ y.pc = "returned" => y.job # "quality"
  <2>1. CASE rest.todo = {}
    <3>1. Settled(rest, m)
      BY <1>7, <1>8, <1>9, <1>11, <2>1 DEF Settled
    <3>2. Unchanged(rest, m, rest.stage + 1)
      <4> SUFFICES ASSUME NEW t \in DOMAIN Stages(x.job), t >= x.stage + 1,
                          NEW l \in Stages(x.job)[t] \cap Kinds
                   PROVE  m.cache[l] = x.seen.cache[l]
        BY <1>11 DEF Unchanged
      <4>1. t > x.stage /\ t # x.stage
        BY <1>12, StageFacts
      <4>2. l \in Ahead(x)
        BY <1>3, <4>1 DEF Ahead, Busy
      <4>3. l # k
        BY <1>5, <1>12, <4>1, StageFacts
      <4> QED
        BY <1>4, <1>7, <1>8, <4>2, <4>3 DEF SeenOK
    <3>3. PICK w : w = Onward(rest)
      OBVIOUS
    <3>4. /\ w \in ExecType /\ AskOK(w) /\ SeenOK(w, m) /\ w.job = x.job
          /\ w.pc \in {"ask", "store", "returned"} /\ w.seen = x.seen
      BY <1>11, <1>12, <3>1, <3>2, <3>3, OnwardOK
    <3>5. InHand(x) \ {k} = {}
      BY <1>3, <1>11, <2>1 DEF InHand
    <3>6. x.job # "quality"
      BY <1>5, <1>12, StageFacts DEF Kinds
    <3>7. y = w
      BY <1>3, <2>1, <3>3
    <3> QED
      BY <3>4, <3>5, <3>6, <3>7
  <2>2. CASE rest.todo # {}
    <3>1. y = [rest EXCEPT !.pc = "read"]
      BY <1>3, <2>2
    <3>2. /\ y \in ExecType /\ y.job = x.job /\ y.seen = x.seen /\ y.stage = x.stage
          /\ y.todo = x.todo \ {k} /\ y.got = x.got /\ y.pc = "read"
      BY <1>11, <3>1 DEF ExecType, Points
    <3>3. AskOK(y)
      BY <1>11, <1>12, <2>2, <3>2 DEF AskOK, Busy
    <3>4. Ahead(y) \subseteq Ahead(x) \ {k}
      <4> SUFFICES ASSUME NEW l \in Ahead(y)
                   PROVE  l \in Ahead(x) /\ l # k
        OBVIOUS
      <4>1. CASE l \in x.todo \ {k}
        BY <1>3, <4>1 DEF Ahead, Busy
      <4>2. CASE l \notin x.todo \ {k}
        <5>1. PICK s \in DOMAIN Stages(x.job) : l \in Stages(x.job)[s] /\ s > x.stage
          BY <3>2, <4>2 DEF Ahead
        <5>2. s # x.stage
          BY <1>12, <5>1, StageFacts
        <5>3. l # k
          BY <1>5, <1>12, <5>1, <5>2, StageFacts
        <5> QED
          BY <1>3, <5>1, <5>3 DEF Ahead, Busy
      <4> QED
        BY <4>1, <4>2
    <3>5. SeenOK(y, m)
      BY <1>4, <1>7, <1>8, <1>9, <3>2, <3>4 DEF SeenOK, Ahead
    <3>6. InHand(x) \ {k} \subseteq InHand(y)
      BY <1>3, <3>2 DEF InHand, Fresh, Busy
    <3> QED
      BY <3>2, <3>3, <3>5, <3>6
  <2> QED
    BY <2>1, <2>2
<1>14. AskOK(exec)' /\ SeenOK(exec, metadata)'
  BY <1>1, <1>8, <1>13
<1>15. Typed' /\ JobsOK'
  BY <1>1, <1>3, <1>7, <1>13, JobsStay DEF IInv, Typed
<1>16. ReadOK' /\ GateOK'
  BY <1>1, <1>13 DEF ReadOK, GateOK
<1>17. CountOK'
  <2>1. CASE metadata' = [metadata EXCEPT !.cache[k] = x.got[k]] /\ UNCHANGED dropped
    <3>1. metadata'.cache[k] # "none"
      BY <1>3, <1>5, <2>1 DEF Metadata, Cache
    <3>2. \A l \in Kinds : metadata.cache[l] # "none" \/ l \in InHand(exec) =>
            metadata'.cache[l] # "none" \/ l \in InHand(exec')
      BY <1>1, <1>7, <1>13, <3>1
    <3> QED
      BY <1>3, <2>1, <3>2, CountStays
  <2>2. CASE Drop({k} \cap Fresh(x)) /\ UNCHANGED metadata
    <3>1. {k} \cap Fresh(x) \subseteq InHand(x)
      BY <1>3, <1>5 DEF InHand, Busy
    <3>2. InHand(x) \ ({k} \cap Fresh(x)) \subseteq InHand(y)
      BY <1>13 DEF InHand
    <3> QED
      BY <1>1, <1>3, <2>2, <3>1, <3>2, CountDrops
  <2> QED
    BY <1>6, <2>1, <2>2
<1> QED
  BY <1>14, <1>15, <1>16, <1>17 DEF IInv

LEMMA StorePackageOK ==
  ASSUME IInv, StorePackage
  PROVE  IInv'
<1>1. PICK x, y : x = exec /\ y = exec'
  OBVIOUS
<1>2. /\ x \in ExecType /\ x.pc = "store" /\ AskOK(x) /\ SeenOK(x, metadata)
      /\ x.at \in Nat \ {0} /\ rows \in Seq(Row) /\ Len(rows) \in Nat
      /\ UNCHANGED <<metadata, checkpoint, jobs, answers, dropped, planned>>
  BY <1>1 DEF StorePackage, At, IInv, Typed, ExecType, history
<1>3. x.job = "package_planning" /\ x.got["scope"] # "none" /\ x.todo = {}
  BY <1>2 DEF AskOK
<1>4. y = [x EXCEPT !.pc = "raised"] \/ y = [x EXCEPT !.at = x.at + 1]
  BY <1>1 DEF StorePackage, Goto
<1>5. /\ y \in ExecType /\ y.pc \in {"raised", "store"} /\ y.job = x.job /\ y.seen = x.seen
      /\ y.got = x.got /\ y.todo = x.todo
  BY <1>2, <1>4 DEF ExecType, Points
<1>6. AskOK(y) /\ SeenOK(y, metadata)
  BY <1>2, <1>3, <1>5, IdleAsk DEF Busy, SeenOK
<1>7. AskOK(exec)' /\ SeenOK(exec, metadata)'
  BY <1>1, <1>2, <1>6
<1>8. rows' \in Seq(Row) /\ \A i \in DOMAIN rows' : rows'[i].id = NewIds[i]
  <2>1. CASE UNCHANGED rows
    BY <2>1 DEF IInv, Typed
  <2>2. CASE rows' # rows
    <3>1. PICK plan, at : plan = Plan /\ at = StoreAt
      OBVIOUS
    <3>2. at \in 1..Len(plan) /\ Len(rows) < Len(NewIds)
          /\ rows' = Append(rows, [id |-> NewIds[Len(rows) + 1], key |-> plan[at].key,
                                   repair |-> plan[at].repair, patched |-> FALSE, done |-> FALSE])
      BY <1>1, <1>2, <2>2, <3>1 DEF StorePackage, StoreAt
    <3>3. x.got["scope"] \in DOMAIN PlanOf
      BY <1>2, <1>3 DEF ExecType, Got, Plans
    <3>4. plan \in Seq([key : STRING, infra : BOOLEAN, repair : BOOLEAN, placed : BOOLEAN]) /\ NewIds \in Seq(STRING)
      BY <1>1, <3>1, <3>3, PhasesAssumption DEF Plan
    <3>5. plan[at].key \in STRING /\ plan[at].repair \in BOOLEAN
      <4>1. plan[at] \in [key : STRING, infra : BOOLEAN, repair : BOOLEAN, placed : BOOLEAN]
        BY <3>2, <3>4, ElementOfSeq
      <4> QED
        BY <4>1
    <3>6. Len(rows) + 1 \in 1..Len(NewIds)
      BY <1>2, <3>2, <3>4
    <3>7. NewIds[Len(rows) + 1] \in STRING
      BY <3>4, <3>6
    <3>8. PICK r : r = [id |-> NewIds[Len(rows) + 1], key |-> plan[at].key,
                        repair |-> plan[at].repair, patched |-> FALSE, done |-> FALSE]
      OBVIOUS
    <3>9. r \in Row /\ r.id = NewIds[Len(rows) + 1]
      BY <3>5, <3>7, <3>8 DEF Row
    <3>10. rows' = Append(rows, r)
      BY <3>2, <3>8
    <3> QED
      BY <1>2, <3>9, <3>10 DEF IInv, Typed
  <2> QED
    BY <2>1, <2>2
<1>9. Typed' /\ JobsOK'
  BY <1>1, <1>2, <1>5, <1>8, JobsStay DEF IInv, Typed
<1>10. ReadOK' /\ GateOK'
  BY <1>1, <1>5 DEF ReadOK, GateOK
<1>11. InHand(exec) = {}
  BY <1>1, <1>2, InHandBusy DEF Busy
<1>12. CountOK'
  BY <1>2, <1>11, CountStays
<1> QED
  BY <1>7, <1>9, <1>10, <1>12 DEF IInv

(* The steps of an execution behind its stages that only go to a point. *)
LEMMA StepOK ==
  ASSUME IInv, exec.pc \notin Busy \cup {"idle"}, exec.job # "none",
         NEW p \in Points \ {"idle", "ask", "read", "write", "store"},
         exec'.pc = p, exec' \in ExecType, exec'.job = exec.job, exec'.todo = exec.todo,
         exec'.seen = exec.seen, exec'.got = exec.got,
         metadata' \in Metadata, metadata.results \subseteq metadata'.results,
         \A k \in Kinds : metadata.cache[k] # "none" => metadata'.cache[k] = metadata.cache[k],
         exec.job = "package_planning" /\ p = "returned" => exec.pc = "store",
         p \in {"persist", "persisted"} => exec.job \in Persisting,
         p = "persisted" => exec'.read = metadata',
         p = "returned" => exec.job # "quality",
         UNCHANGED <<answers, dropped>>
  PROVE  /\ AskOK(exec)' /\ SeenOK(exec, metadata)' /\ ReadOK' /\ GateOK' /\ CountOK'
<1>1. PICK y, m : y = exec' /\ m = metadata'
  OBVIOUS
<1>2. AskOK(y) /\ SeenOK(y, m)
  BY <1>1, GotoOK
<1>3. AskOK(exec)' /\ SeenOK(exec, metadata)'
  BY <1>1, <1>2
<1>4. ReadOK' /\ GateOK'
  BY DEF ReadOK, GateOK
<1>5. InHand(exec) = {}
  BY InHandBusy
<1>6. CountOK'
  BY <1>5, CountStays
<1> QED
  BY <1>3, <1>4, <1>6

LEMMA WorkingJob ==
  ASSUME IInv, exec.pc # "idle"
  PROVE  /\ exec \in ExecType /\ exec.job \in Jobs /\ exec.job # "none"
         /\ jobs[exec.job].state = "leased" /\ jobs[exec.job] \in JobType
         /\ \A j \in Jobs \ {exec.job} : jobs[j].state # "leased"
  BY DEF IInv, Typed, JobsOK, ExecType

LEMMA PlanStoredOK ==
  ASSUME IInv, PlanStored
  PROVE  IInv'
<1>1. exec.pc = "store" /\ exec.job = "package_planning"
      /\ exec' = [exec EXCEPT !.pc = "returned"]
      /\ UNCHANGED <<metadata, checkpoint, rows, jobs, answers, dropped, planned>>
  BY DEF PlanStored, At, Goto, history, IInv, AskOK
<1>2. /\ exec' \in ExecType /\ exec'.pc = "returned" /\ exec'.job = exec.job /\ exec'.todo = exec.todo
      /\ exec'.seen = exec.seen /\ exec'.got = exec.got
  BY <1>1, WorkingJob DEF ExecType, Points
<1>3. Typed' /\ JobsOK'
  BY <1>1, <1>2, JobsStay DEF IInv, Typed
<1>4. metadata \in Metadata
  BY DEF IInv, Typed
<1>5. AskOK(exec)' /\ SeenOK(exec, metadata)' /\ ReadOK' /\ GateOK' /\ CountOK'
  BY <1>1, <1>2, <1>4, StepOK, WorkingJob DEF Busy, Points
<1> QED
  BY <1>3, <1>5 DEF IInv

LEMMA RecordOK ==
  ASSUME IInv, Record
  PROVE  IInv'
<1>1. PICK p : /\ exec' = [exec EXCEPT !.pc = p]
               /\ p = "advance" \/ (p = "persist" /\ exec.job \in Persisting)
  BY DEF Record, Goto
<1>2. /\ exec.pc = "returned" /\ exec' = [exec EXCEPT !.pc = p]
      /\ checkpoint' = IF exec.job \in Phases THEN exec.job ELSE checkpoint
      /\ rows' = rows \/ rows' = Marked(exec.job, "done")
      /\ planned' = IF exec.job = "package_planning" THEN exec.got["scope"] ELSE planned
      /\ UNCHANGED <<metadata, jobs, answers, dropped>>
  BY <1>1 DEF Record, At
<1>3. /\ exec' \in ExecType /\ exec'.pc = p /\ exec'.job = exec.job /\ exec'.todo = exec.todo
      /\ exec'.seen = exec.seen /\ exec'.got = exec.got
  BY <1>1, <1>2, WorkingJob DEF ExecType, Points
<1>4. rows' \in Seq(Row) /\ \A i \in DOMAIN rows' : rows'[i].id = NewIds[i]
  <2>1. /\ rows' \in Seq(Row) /\ DOMAIN rows' = DOMAIN rows
        /\ \A i \in DOMAIN rows : rows'[i].id = rows[i].id
    <3>1. CASE rows' = rows
      BY <3>1 DEF IInv, Typed
    <3>2. CASE rows' = Marked(exec.job, "done")
      BY <3>2, MarkedOK DEF IInv
    <3> QED
      BY <1>2, <3>1, <3>2
  <2> QED
    BY <2>1 DEF IInv, Typed
<1>5. checkpoint' \in Checkpoints
  BY <1>2, JobFacts DEF IInv, Typed
<1>6. planned' \in Plans
  BY <1>2, WorkingJob DEF IInv, Typed, ExecType, Got
<1>7. Typed' /\ JobsOK'
  BY <1>1, <1>2, <1>3, <1>4, <1>5, <1>6, JobsStay DEF IInv, Typed
<1>8. metadata \in Metadata
  BY DEF IInv, Typed
<1>9. AskOK(exec)' /\ SeenOK(exec, metadata)' /\ ReadOK' /\ GateOK' /\ CountOK'
  BY <1>1, <1>2, <1>3, <1>8, StepOK, WorkingJob DEF Busy, Points
<1> QED
  BY <1>7, <1>9 DEF IInv

LEMMA ReadResultOK ==
  ASSUME IInv, ReadResult
  PROVE  IInv'
<1>1. /\ exec.pc = "persist" /\ exec' = [exec EXCEPT !.read = metadata, !.pc = "persisted"]
      /\ UNCHANGED <<metadata, checkpoint, rows, jobs, answers, dropped, planned>>
  BY DEF ReadResult, AsStored, At, history
<1>2. metadata \in Metadata /\ exec.job \in Persisting
  BY <1>1 DEF IInv, Typed, AskOK
<1>3. /\ exec' \in ExecType /\ exec'.pc = "persisted" /\ exec'.job = exec.job /\ exec'.todo = exec.todo
      /\ exec'.seen = exec.seen /\ exec'.got = exec.got /\ exec'.read = metadata
  BY <1>1, <1>2, WorkingJob DEF ExecType, Points
<1>4. Typed' /\ JobsOK'
  BY <1>1, <1>3, JobsStay DEF IInv, Typed
<1>5. AskOK(exec)' /\ SeenOK(exec, metadata)' /\ ReadOK' /\ GateOK' /\ CountOK'
  BY <1>1, <1>2, <1>3, StepOK, WorkingJob DEF Busy, Points
<1> QED
  BY <1>4, <1>5 DEF IInv

LEMMA WriteResultOK ==
  ASSUME IInv, WriteResult
  PROVE  /\ IInv'
         /\ metadata.results \subseteq metadata'.results /\ metadata'.cache = metadata.cache
<1>1. /\ exec.pc = "persisted" /\ exec' = [exec EXCEPT !.pc = "advance"]
      /\ UNCHANGED <<checkpoint, rows, jobs, answers, dropped, planned>>
      /\ \/ metadata' = [exec.read EXCEPT !.results = exec.read.results \cup {exec.job}]
         \/ UNCHANGED metadata
  BY DEF WriteResult, At, Goto, history
<1>2. metadata \in Metadata /\ exec.job \in Persisting /\ exec.read = metadata
  BY <1>1 DEF IInv, Typed, AskOK, ReadOK
<1>3. metadata' \in Metadata /\ metadata.results \subseteq metadata'.results
      /\ metadata'.cache = metadata.cache
  BY <1>1, <1>2 DEF Metadata
<1>4. /\ exec' \in ExecType /\ exec'.pc = "advance" /\ exec'.job = exec.job /\ exec'.todo = exec.todo
      /\ exec'.seen = exec.seen /\ exec'.got = exec.got
  BY <1>1, WorkingJob DEF ExecType, Points
<1>5. Typed' /\ JobsOK'
  BY <1>1, <1>3, <1>4, JobsStay DEF IInv, Typed
<1>6. AskOK(exec)' /\ SeenOK(exec, metadata)' /\ ReadOK' /\ GateOK' /\ CountOK'
  BY <1>1, <1>3, <1>4, StepOK, WorkingJob DEF Busy, Points
<1> QED
  BY <1>3, <1>5, <1>6 DEF IInv

LEMMA QueuedFacts ==
  ASSUME NEW job \in JobType, NEW retries \in 0..MaxAttempts - 1, NEW q,
         q = Queued(job) \/ q = [Queued(job) EXCEPT !.retries = retries]
  PROVE  q \in JobType /\ q.state = "queued" /\ q.attempts = 0 /\ q.attempts < MaxAttempts
<1>1. 0 \in 0..MaxAttempts /\ 0 < MaxAttempts
  BY PhasesAssumption
<1>2. PICK r : r = [job EXCEPT !.state = "queued", !.attempts = 0]
  OBVIOUS
<1>3. r \in JobType /\ r.state = "queued" /\ r.attempts = 0
  BY <1>1, <1>2 DEF JobType
<1>4. PICK t : t = [r EXCEPT !.retries = retries]
  OBVIOUS
<1>5. t \in JobType /\ t.state = "queued" /\ t.attempts = 0
  BY <1>3, <1>4 DEF JobType
<1>6. q = r \/ q = t
  BY <1>2, <1>4 DEF Queued
<1> QED
  BY <1>1, <1>3, <1>5, <1>6

LEMMA ProceedOK ==
  ASSUME IInv, NEW from, Proceed(from), exec'.job = exec.job, exec'.pc = "idle" <=> exec.pc = "idle"
  PROVE  jobs' \in [Jobs -> JobType] /\ checkpoint' \in Checkpoints /\ JobsOK'
<1>1. jobs' = [j \in Jobs |-> IF j \in Following /\ ~Live(j) THEN Queued(jobs[j]) ELSE jobs[j]]
      /\ jobs \in [Jobs -> JobType] /\ checkpoint \in Checkpoints
      /\ checkpoint' \in {checkpoint, "wave_completed", "release_ready"}
  BY DEF Proceed, IInv, Typed
<1>2. ASSUME NEW j \in Jobs
      PROVE  /\ jobs'[j] \in JobType
             /\ jobs'[j].state = "queued" => jobs'[j].attempts < MaxAttempts
             /\ jobs'[j].state = "dead_letter" => jobs'[j].dead
             /\ jobs'[j].state = "leased" <=> jobs[j].state = "leased"
  <2>1. jobs[j] \in JobType /\ MaxAttempts \in Nat \ {0}
    BY <1>1, PhasesAssumption
  <2>2. CASE j \in Following /\ ~Live(j)
    <3>1. jobs'[j] = Queued(jobs[j])
      BY <1>1, <2>2
    <3>2. jobs[j].state # "leased"
      BY <2>2 DEF Live
    <3>3. jobs'[j] \in JobType /\ jobs'[j].state = "queued" /\ jobs'[j].attempts = 0
      <4>1. jobs[j].retries \in 0..MaxAttempts - 1
        BY <2>1 DEF JobType
      <4> QED
        BY <2>1, <3>1, <4>1, QueuedFacts
    <3> QED
      BY <2>1, <3>2, <3>3
  <2>3. CASE ~(j \in Following /\ ~Live(j))
    <3>1. jobs'[j] = jobs[j]
      BY <1>1, <2>3
    <3> QED
      BY <2>1, <3>1 DEF IInv, JobsOK
  <2> QED
    BY <2>2, <2>3
<1>3. jobs' \in [Jobs -> JobType]
  BY <1>1, <1>2
<1>4. JobsOK'
  BY <1>2 DEF IInv, JobsOK
<1>5. {"wave_completed", "release_ready"} \subseteq Checkpoints
  BY DEF Checkpoints, NextPhase
<1> QED
  BY <1>1, <1>3, <1>4, <1>5

LEMMA AdvanceOK ==
  ASSUME IInv, Advance
  PROVE  IInv'
<1>1. /\ exec.pc = "advance" /\ exec' = [exec EXCEPT !.pc = "finish"]
      /\ Proceed(status) \/ UNCHANGED <<checkpoint, jobs>>
      /\ UNCHANGED <<metadata, rows, answers, dropped, planned>>
  BY DEF Advance, At, Goto, history
<1>2. metadata \in Metadata
  BY DEF IInv, Typed
<1>3. /\ exec' \in ExecType /\ exec'.pc = "finish" /\ exec'.job = exec.job /\ exec'.todo = exec.todo
      /\ exec'.seen = exec.seen /\ exec'.got = exec.got
  BY <1>1, WorkingJob DEF ExecType, Points
<1>4. jobs' \in [Jobs -> JobType] /\ checkpoint' \in Checkpoints /\ JobsOK'
  <2>1. CASE Proceed(status)
    BY <1>1, <1>3, <2>1, ProceedOK
  <2>2. CASE UNCHANGED <<checkpoint, jobs>>
    BY <1>1, <1>3, <2>2, JobsStay DEF IInv, Typed
  <2> QED
    BY <1>1, <2>1, <2>2
<1>5. Typed'
  BY <1>1, <1>3, <1>4 DEF IInv, Typed
<1>6. AskOK(exec)' /\ SeenOK(exec, metadata)' /\ ReadOK' /\ GateOK' /\ CountOK'
  BY <1>1, <1>2, <1>3, StepOK, WorkingJob DEF Busy, Points
<1> QED
  BY <1>4, <1>5, <1>6 DEF IInv

LEMMA ResumeOK ==
  ASSUME IInv, Resume
  PROVE  IInv'
<1>1. Proceed("running") /\ UNCHANGED <<metadata, rows, exec, answers, dropped, planned>>
  BY DEF Resume, history
<1>2. jobs' \in [Jobs -> JobType] /\ checkpoint' \in Checkpoints /\ JobsOK'
  BY <1>1, ProceedOK
<1>3. Typed'
  BY <1>1, <1>2 DEF IInv, Typed
<1>4. AskOK(exec)' /\ SeenOK(exec, metadata)' /\ ReadOK' /\ GateOK'
  BY <1>1 DEF IInv, ReadOK, GateOK, ExecutionGate
<1>5. CountOK'
  BY <1>1, CountStays
<1> QED
  BY <1>2, <1>3, <1>4, <1>5 DEF IInv

(* An execution ends, and leaves its job in another state. *)
LEMMA EndOK ==
  ASSUME IInv, exec.pc # "idle", exec' = Idle, UNCHANGED <<metadata, checkpoint, rows, planned>>,
         NEW j, j = exec.job, NEW job \in JobType, jobs' = [jobs EXCEPT ![j] = job],
         job.state # "leased", job.state = "queued" => job.attempts < MaxAttempts,
         job.state = "dead_letter" => job.dead,
         CountOK'
  PROVE  IInv'
<1>1. j \in Jobs /\ jobs \in [Jobs -> JobType] /\ metadata \in Metadata
  BY WorkingJob DEF IInv, Typed
<1>2. jobs' \in [Jobs -> JobType] /\ jobs'[j] = job /\ \A i \in Jobs \ {j} : jobs'[i] = jobs[i]
  BY <1>1
<1>3. PICK y : y = exec'
  OBVIOUS
<1>4. y \in ExecType /\ AskOK(y) /\ SeenOK(y, metadata) /\ y.job = "none" /\ y.pc = "idle"
  BY <1>1, <1>3, IdleOK
<1>5. AskOK(exec)' /\ SeenOK(exec, metadata)'
  BY <1>3, <1>4
<1>6. Typed'
  BY <1>2, <1>3, <1>4 DEF IInv, Typed
<1>7. \A i \in Jobs :
        /\ jobs'[i].state = "queued" => jobs'[i].attempts < MaxAttempts
        /\ jobs'[i].state = "dead_letter" => jobs'[i].dead
        /\ jobs'[i].state # "leased"
  BY <1>1, <1>2, WorkingJob DEF IInv, JobsOK
<1>8. JobsOK'
  BY <1>3, <1>4, <1>7, JobFacts DEF JobsOK
<1>9. ReadOK' /\ GateOK'
  BY <1>3, <1>4 DEF ReadOK, GateOK
<1> QED
  BY <1>5, <1>6, <1>8, <1>9 DEF IInv

LEMMA ReleaseOK ==
  ASSUME IInv, exec.pc # "idle", NEW state \in {"completed", "queued", "dead_letter"},
         Release(state), state = "queued" => jobs[exec.job].attempts < MaxAttempts,
         UNCHANGED <<metadata, checkpoint, rows, planned>>, CountOK'
  PROVE  IInv'
<1>1. PICK j, job : j = exec.job /\ job = [jobs[j] EXCEPT !.state = state,
                                                           !.dead = jobs[j].dead \/ state = "dead_letter"]
  OBVIOUS
<1>2. j \in Jobs /\ jobs[j] \in JobType /\ jobs \in [Jobs -> JobType]
  BY <1>1, WorkingJob DEF IInv, Typed
<1>3. job \in JobType /\ job.state = state /\ job.attempts = jobs[j].attempts
      /\ (state = "dead_letter" => job.dead)
  BY <1>1, <1>2 DEF JobType
<1>4. jobs' = [jobs EXCEPT ![j] = job] /\ exec' = Idle
  BY <1>1, <1>2 DEF Release
<1> QED
  BY <1>1, <1>3, <1>4, EndOK

LEMMA AgainFacts ==
  ASSUME IInv, exec.pc # "idle"
  PROVE  Again \in {"queued", "dead_letter"} /\ (Again = "queued" => jobs[exec.job].attempts < MaxAttempts)
  BY DEF Again

LEMMA RetryOK ==
  ASSUME IInv, Retry
  PROVE  IInv'
<1>1. PICK j, old : j = exec.job /\ old = jobs[j]
  OBVIOUS
<1>2. exec.pc = "refused" /\ exec' = Idle /\ j \in Jobs /\ old \in JobType
      /\ jobs \in [Jobs -> JobType] /\ MaxAttempts \in Nat \ {0}
      /\ UNCHANGED <<metadata, checkpoint, rows, answers, dropped, planned>>
  BY <1>1, WorkingJob, PhasesAssumption DEF Retry, At, history, IInv, Typed
<1>3. InHand(exec) = {}
  BY <1>2, InHandBusy DEF Busy
<1>4. CountOK'
  BY <1>2, <1>3, CountStays
<1>5. CASE old.retries < MaxAttempts - 1 /\ jobs' = [jobs EXCEPT ![j] = [Queued(old) EXCEPT !.retries = old.retries + 1]]
  <2>1. PICK job : job = [Queued(old) EXCEPT !.retries = old.retries + 1]
    OBVIOUS
  <2>2. jobs' = [jobs EXCEPT ![j] = job]
    BY <1>5, <2>1
  <2>3. old.retries + 1 \in 0..MaxAttempts - 1
    BY <1>2, <1>5 DEF JobType
  <2>4. job \in JobType /\ job.state = "queued" /\ job.attempts < MaxAttempts
    BY <1>2, <2>1, <2>3, QueuedFacts
  <2> QED
    BY <1>1, <1>2, <1>4, <2>2, <2>4, EndOK
<1>6. CASE jobs' = [jobs EXCEPT ![j].state = "blocked"]
  <2>1. PICK job : job = [old EXCEPT !.state = "blocked"]
    OBVIOUS
  <2>2. jobs' = [jobs EXCEPT ![j] = job]
    BY <1>1, <1>2, <1>6, <2>1
  <2>3. job \in JobType /\ job.state = "blocked"
    BY <1>2, <2>1 DEF JobType
  <2> QED
    BY <1>1, <1>2, <1>4, <2>2, <2>3, EndOK
<1> QED
  BY <1>1, <1>5, <1>6 DEF Retry

LEMMA FinishOK ==
  ASSUME IInv, Finish
  PROVE  IInv'
<1>1. exec.pc = "finish" /\ Release("completed")
      /\ UNCHANGED <<metadata, checkpoint, rows, answers, dropped, planned>>
  BY DEF Finish, At, history
<1>2. InHand(exec) = {}
  BY <1>1, InHandBusy DEF Busy
<1>3. CountOK'
  BY <1>1, <1>2, CountStays
<1> QED
  BY <1>1, <1>3, ReleaseOK

LEMMA RaisedOK ==
  ASSUME IInv, Raised
  PROVE  IInv'
<1>1. exec.pc = "raised" /\ Release(Again)
      /\ UNCHANGED <<metadata, checkpoint, rows, answers, dropped, planned>>
  BY DEF Raised, At, history
<1>2. InHand(exec) = {}
  BY <1>1, InHandBusy DEF Busy
<1>3. CountOK'
  BY <1>1, <1>2, CountStays
<1> QED
  BY <1>1, <1>3, AgainFacts, ReleaseOK

LEMMA CrashOK ==
  ASSUME IInv, Crash
  PROVE  IInv'
<1>1. exec.pc # "idle" /\ Release(Again)
      /\ UNCHANGED <<metadata, checkpoint, rows, answers, planned>>
  BY DEF Crash
<1>2. CASE exec.pc \in Busy
  <2>1. PICK ks : ks = {k \in Fresh(exec) : At("ask") \/ k \in exec.todo}
    OBVIOUS
  <2>2. Drop(ks)
    BY <1>2, <2>1 DEF Crash, Busy
  <2>3. InHand(exec) = ks
    BY <1>2, <2>1 DEF InHand, At
  <2>4. InHand(exec) \ ks \subseteq InHand(exec')
    BY <2>3
  <2>5. CountOK'
    BY <1>1, <2>2, <2>3, <2>4, CountDrops
  <2> QED
    BY <1>1, <2>5, AgainFacts, ReleaseOK
<1>3. CASE exec.pc \notin Busy
  <2>1. InHand(exec) = {} /\ UNCHANGED dropped
    BY <1>3, InHandBusy DEF Crash, Busy
  <2>2. CountOK'
    BY <1>1, <2>1, CountStays
  <2> QED
    BY <1>1, <2>2, AgainFacts, ReleaseOK
<1> QED
  BY <1>2, <1>3

-----------------------------------------------------------------------------
(* The invariant holds. *)

LEMMA InitOK == Init => IInv
<1> SUFFICES ASSUME Init PROVE IInv
  OBVIOUS
<1>1. metadata \in Metadata /\ \A k \in Kinds : metadata.cache[k] = "none"
  BY ValueFacts DEF Init, NoRun, Metadata, Cache, Kinds
<1>2. PICK x : x = exec
  OBVIOUS
<1>3. x \in ExecType /\ AskOK(x) /\ SeenOK(x, metadata) /\ x.job = "none" /\ x.pc = "idle"
  BY <1>1, <1>2, IdleOK DEF Init
<1>4. /\ NoJob \in JobType /\ NoJob.state = "none" /\ NoJob.retries \in 0..MaxAttempts - 1
  BY PhasesAssumption DEF NoJob, JobType
<1>5. PICK q : q = Queued(NoJob)
  OBVIOUS
<1>6. q \in JobType /\ q.state = "queued" /\ q.attempts < MaxAttempts
  BY <1>4, <1>5, QueuedFacts
<1>7. jobs = [j \in Jobs |-> IF j = "requirements_analysis" THEN q ELSE NoJob]
  BY <1>5 DEF Init
<1>8. jobs \in [Jobs -> JobType] /\ \A j \in Jobs :
        /\ jobs[j].state = "queued" => jobs[j].attempts < MaxAttempts
        /\ jobs[j].state = "dead_letter" => jobs[j].dead
        /\ jobs[j].state # "leased"
  BY <1>4, <1>6, <1>7
<1>9. Typed
  BY <1>1, <1>2, <1>3, <1>8, ValueFacts, JobFacts DEF Init, Typed
<1>10. JobsOK
  BY <1>2, <1>3, <1>8, JobFacts DEF JobsOK
<1>11. ReadOK /\ GateOK
  BY <1>2, <1>3 DEF ReadOK, GateOK
<1>12. CountOK
  BY DEF Init, CountOK
<1> QED
  BY <1>2, <1>3, <1>9, <1>10, <1>11, <1>12 DEF IInv

LEMMA StutterOK ==
  ASSUME IInv, UNCHANGED vars
  PROVE  IInv'
<1>1. UNCHANGED <<metadata, checkpoint, rows, jobs, exec, answers, dropped, planned>>
  BY DEF vars
<1>2. Typed' /\ JobsOK' /\ ReadOK' /\ GateOK'
  BY <1>1 DEF IInv, Typed, JobsOK, ReadOK, GateOK, ExecutionGate
<1>3. AskOK(exec)' /\ SeenOK(exec, metadata)'
  BY <1>1 DEF IInv
<1>4. CountOK'
  BY <1>1, CountStays
<1> QED
  BY <1>2, <1>3, <1>4 DEF IInv

LEMMA NextOK == IInv /\ [Next]_vars => IInv'
<1> SUFFICES ASSUME IInv, [Next]_vars PROVE IInv'
  OBVIOUS
<1>1. ASSUME NEW j \in Jobs, Claim(j) PROVE IInv'
  BY <1>1, ClaimOK
<1>2. ASSUME NEW k \in AllKinds, NEW v \in Values, Answered(k, v) PROVE IInv'
  BY <1>2, AnsweredOK
<1>3. ASSUME NEW k \in AllKinds, Refused(k) PROVE IInv'
  BY <1>3, RefusedOK
<1>4. CASE Settle
  BY <1>4, SettleOK
<1>5. CASE ReadCache
  BY <1>5, ReadCacheOK
<1>6. CASE WriteCache
  BY <1>6, WriteCacheOK
<1>7. CASE StorePackage
  BY <1>7, StorePackageOK
<1>8. CASE PlanStored
  BY <1>8, PlanStoredOK
<1>9. CASE Record
  BY <1>9, RecordOK
<1>10. CASE ReadResult
  BY <1>10, ReadResultOK
<1>11. CASE WriteResult
  BY <1>11, WriteResultOK
<1>12. CASE Advance
  BY <1>12, AdvanceOK
<1>13. CASE Retry
  BY <1>13, RetryOK
<1>14. CASE Finish
  BY <1>14, FinishOK
<1>15. CASE Raised
  BY <1>15, RaisedOK
<1>16. CASE Crash
  BY <1>16, CrashOK
<1>17. CASE Resume
  BY <1>17, ResumeOK
<1>18. CASE UNCHANGED vars
  BY <1>18, StutterOK
<1> QED
  BY <1>1, <1>2, <1>3, <1>4, <1>5, <1>6, <1>7, <1>8, <1>9, <1>10, <1>11, <1>12, <1>13,
     <1>14, <1>15, <1>16, <1>17, <1>18 DEF Next, Work, AllKinds

(* What the executions of a run hold agrees with what is stored. *)
THEOREM PhasesInvariant == Spec => []IInv
<1> QED
  BY InitOK, NextOK, PTL DEF Spec

-----------------------------------------------------------------------------
(* The properties. *)

StateTyped ==
  /\ status \in {"running", "blocked", "release_ready"}
  /\ continuation \in {"none", "wave_execution", "integration"}

LEMMA StateInvariant == Spec => []StateTyped
<1>1. Init => StateTyped
  BY DEF Init, StateTyped
<1>2. StateTyped /\ [Next]_vars => StateTyped'
  <2> SUFFICES ASSUME StateTyped, Next \/ UNCHANGED vars PROVE StateTyped'
    OBVIOUS
  <2>1. ASSUME NEW from \in {"running", "blocked", "release_ready"}, Proceed(from) PROVE StateTyped'
    BY <2>1 DEF Proceed, StateTyped
  <2>2. CASE Advance \/ Resume
    BY <2>1, <2>2 DEF Advance, Resume, StateTyped
  <2>3. CASE Retry
    BY <2>3 DEF Retry, StateTyped
  <2>4. CASE ~(Advance \/ Resume \/ Retry)
    <3>1. UNCHANGED <<status, continuation>>
      BY <2>4 DEF Next, Work, Claim, Answered, Refused, Settle, ReadCache, WriteCache, StorePackage,
                  PlanStored, Record, ReadResult, WriteResult, Finish, Raised, Crash, vars
    <3> QED
      BY <3>1 DEF StateTyped
  <2> QED
    BY <2>2, <2>3, <2>4
<1> QED
  BY <1>1, <1>2, PTL DEF Spec

LEMMA TypeFollows == IInv /\ StateTyped => TypeOK
<1> SUFFICES ASSUME IInv, StateTyped PROVE TypeOK
  OBVIOUS
<1>1. metadata \in [results : SUBSET Persisting, cache : [Kinds -> Values]]
  BY DEF IInv, Typed, Metadata, Cache
<1>2. \A i \in DOMAIN rows :
        rows[i].id = NewIds[i] /\ rows[i].patched \in BOOLEAN /\ rows[i].done \in BOOLEAN
  <2>1. \A i \in DOMAIN rows : rows[i] \in Row
    BY DEF IInv, Typed
  <2> QED
    BY <2>1 DEF IInv, Typed, Row
<1>3. ASSUME NEW j \in Jobs
      PROVE  /\ jobs[j].state \in {"none", "queued", "leased", "completed", "blocked", "dead_letter"}
             /\ jobs[j].attempts \in 0..MaxAttempts
             /\ jobs[j].retries \in 0..MaxAttempts - 1
             /\ jobs[j].state = "dead_letter" => jobs[j].dead
             /\ jobs[j].state = "leased" <=> exec.job = j
  <2>1. jobs[j] \in JobType
    BY DEF IInv, Typed
  <2>2. /\ jobs[j].state = "dead_letter" => jobs[j].dead
        /\ jobs[j].state = "leased" <=> exec.job = j
    BY DEF IInv, JobsOK
  <2> QED
    BY <2>1, <2>2 DEF JobType
<1>4. exec.pc \in Points /\ exec.asking \subseteq Kinds \cup {"report"}
  BY DEF IInv, Typed, ExecType, AllKinds
<1>5. exec.todo # {} <=> exec.pc \in {"read", "write"}
  BY DEF IInv, AskOK
<1>6. checkpoint \in Checkpoints /\ planned \in DOMAIN PlanOf \cup {"none"}
  BY DEF IInv, Typed, Plans
<1> QED
  BY <1>1, <1>2, <1>3, <1>4, <1>5, <1>6 DEF TypeOK, StateTyped

(* TypeOK: the state has the shape the handlers of phases/*.py expect, and
   only the job that is executed is leased. *)
THEOREM PhasesTypeCorrect == Spec => []TypeOK
<1> QED
  BY PhasesInvariant, StateInvariant, TypeFollows, PTL

(* AnswersKept: however often a phase is refused, retried, resumed or cut
   short by a crash, no further answer of a kind is paid for unless a fault
   lost the one before (architecture.py:142, planning.py:175). *)
THEOREM AnswersPaidOnce == Spec => []AnswersKept
<1>1. IInv => AnswersKept
  BY DEF IInv, CountOK, AnswersKept
<1> QED
  BY <1>1, PhasesInvariant, PTL

LEMMA NothingLost ==
  IInv /\ [Next]_vars =>
    [/\ metadata.results \subseteq metadata'.results
     /\ \A k \in Kinds : metadata.cache[k] # "none" =>
          metadata'.cache[k] = metadata.cache[k]]_vars
<1> SUFFICES ASSUME IInv, [Next]_vars
             PROVE  /\ metadata.results \subseteq metadata'.results
                    /\ \A k \in Kinds : metadata.cache[k] # "none" =>
                         metadata'.cache[k] = metadata.cache[k]
  OBVIOUS
<1>1. CASE WriteCache
  <2>1. PICK k : k = First(exec.todo)
    OBVIOUS
  <2>2. /\ exec.read = metadata /\ k \in Kinds
        /\ metadata.cache[k] # "none" => exec.got[k] = metadata.cache[k]
    BY <1>1, <2>1, TurnOK DEF WriteCache, At
  <2>3. UNCHANGED metadata \/ metadata' = [metadata EXCEPT !.cache[k] = exec.got[k]]
    BY <1>1, <2>1, <2>2 DEF WriteCache
  <2>4. metadata \in [results : SUBSET Persisting, cache : [Kinds -> Values]]
    BY DEF IInv, Typed, Metadata, Cache
  <2> QED
    BY <2>2, <2>3, <2>4
<1>2. CASE WriteResult
  BY <1>2, WriteResultOK
<1>3. CASE ~WriteCache /\ ~WriteResult
  <2>1. UNCHANGED metadata
    BY <1>3 DEF Next, Work, Claim, Answered, Refused, Settle, ReadCache, StorePackage, PlanStored,
       Record, ReadResult, Advance, Retry, Finish, Raised, Crash, Resume, vars
  <2> QED
    BY <2>1
<1> QED
  BY <1>1, <1>2, <1>3

(* NothingForgotten: every write of the whole metadata, of the cache and of
   _persist_phase_result, keeps the results and the cached answers. *)
THEOREM MetadataKept == Spec => NothingForgotten
<1> QED
  BY PhasesInvariant, NothingLost, PTL DEF Spec, NothingForgotten

LEMMA LossIsCaught ==
  IInv /\ [Next]_vars =>
    [checkpoint # "quality" /\ checkpoint' = "quality" /\ rows # <<>> =>
       /\ {"requirements_analysis", "architecture_design"} \subseteq metadata.results
       /\ \E i \in DOMAIN rows : rows[i].patched]_vars
<1> SUFFICES ASSUME IInv, [Next]_vars, checkpoint # "quality", checkpoint' = "quality", rows # <<>>
             PROVE  /\ {"requirements_analysis", "architecture_design"} \subseteq metadata.results
                    /\ \E i \in DOMAIN rows : rows[i].patched
  OBVIOUS
<1>1. CASE Record
  <2>1. exec.job = "quality" /\ exec.pc = "returned"
    BY <1>1 DEF Record, At
  <2>2. MissionGate(exec.seen) /\ ExecutionGate
    BY <2>1 DEF IInv, GateOK
  <2>3. exec.seen.results \subseteq metadata.results
    BY DEF IInv, SeenOK
  <2> QED
    BY <2>2, <2>3 DEF MissionGate, ExecutionGate
<1>2. CASE ~Record
  <2>1. checkpoint' \in {checkpoint, "wave_completed"}
    BY <1>2 DEF Next, Work, Claim, Answered, Refused, Settle, ReadCache, WriteCache, StorePackage,
       PlanStored, ReadResult, WriteResult, Advance, Proceed, Retry, Finish, Raised, Crash, Resume, vars
  <2> QED
    BY <2>1
<1> QED
  BY <1>1, <1>2

(* QualityCatchesLoss: a result whose storing failed silently
   (pipeline.py:513) is missed by the gates of quality. *)
THEOREM LossNeverReleased == Spec => QualityCatchesLoss
<1> QED
  BY PhasesInvariant, LossIsCaught, PTL DEF Spec, QualityCatchesLoss
=============================================================================
