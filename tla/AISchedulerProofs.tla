------------------------- MODULE AISchedulerProofs -------------------------
(***************************************************************************)
(* Theorems about AIScheduler, for any processes, calls and limits, and    *)
(* for any combination of faults unless a theorem names the faults it      *)
(* excludes.                                                               *)
(***************************************************************************)
EXTENDS AIScheduler, FiniteSetTheorems, TLAPS

-----------------------------------------------------------------------------
(* The breaker.  Type correctness, the agreement of health and streak, and
   the probe behind every entry of _half_open_inflight are inductive as one
   conjunction. *)

BreakerInv ==
  /\ TypeOK
  /\ StreakMatchesHealth
  /\ InflightHasProbe

(* What record_success and record_failure do to the breaker's fields. *)
LEMMA RecordSuccessPreserves ==
  ASSUME NEW c \in Calls, BreakerInv, RecordSuccess(c), probing' = probing \ {c}
  PROVE  /\ health' \in [Processes -> Health]
         /\ streak' \in [Processes -> 0..Threshold]
         /\ inflight' \in [Processes -> BOOLEAN]
         /\ StreakMatchesHealth'
         /\ InflightHasProbe'
<1> USE CallsAssumption, LimitsAssumption
<1> USE DEF BreakerInv, TypeOK, RecordSuccess, Home, Health
<1>1. /\ health' \in [Processes -> Health]
      /\ streak' \in [Processes -> 0..Threshold]
      /\ inflight' \in [Processes -> BOOLEAN]
  OBVIOUS
<1>2. StreakMatchesHealth'
  BY DEF StreakMatchesHealth
<1>3. InflightHasProbe'
  BY DEF InflightHasProbe
<1>4. QED
  BY <1>1, <1>2, <1>3

LEMMA RecordFailurePreserves ==
  ASSUME NEW c \in Calls, NEW retryable \in BOOLEAN,
         BreakerInv, RecordFailure(c, retryable), probing' = probing \ {c}
  PROVE  /\ health' \in [Processes -> Health]
         /\ streak' \in [Processes -> 0..Threshold]
         /\ inflight' \in [Processes -> BOOLEAN]
         /\ StreakMatchesHealth'
         /\ InflightHasProbe'
<1> USE CallsAssumption, LimitsAssumption
<1> USE DEF BreakerInv, TypeOK, RecordFailure, Home, Health, Opens, Longer
<1>1. /\ health' \in [Processes -> Health]
      /\ streak' \in [Processes -> 0..Threshold]
      /\ inflight' \in [Processes -> BOOLEAN]
  OBVIOUS
<1>2. StreakMatchesHealth'
  BY DEF StreakMatchesHealth
<1>3. InflightHasProbe'
  BY DEF InflightHasProbe
<1>4. QED
  BY <1>1, <1>2, <1>3

LEMMA SlotIsSlot == TypeOK => \A c \in Calls : SlotOf(c) \in Slots
BY DEF TypeOK, SlotOf, Slots

LEMMA RespondPreserves ==
  ASSUME NEW c \in Calls, NEW v \in Verdicts, BreakerInv, Respond(c, v)
  PROVE  BreakerInv'
<1>1. CASE v = "ok"
  <2>1. RecordSuccess(c)
    BY <1>1 DEF Respond
  <2>2. QED
    BY <2>1, RecordSuccessPreserves
    DEF BreakerInv, TypeOK, Respond, Verdicts, Goto, Points, HasGlobal, HasProvider, HasRun
<1>2. CASE v # "ok"
  <2>1. RecordFailure(c, v = "retryable") /\ (v = "retryable") \in BOOLEAN
    BY <1>2 DEF Respond
  <2>2. QED
    BY <2>1, RecordFailurePreserves
    DEF BreakerInv, TypeOK, Respond, Verdicts, Goto, Points, HasGlobal, HasProvider, HasRun
<1>3. QED
  BY <1>1, <1>2

LEMMA SlotFailsPreserves ==
  ASSUME NEW c \in Calls, BreakerInv, SlotFails(c)
  PROVE  BreakerInv'
<1>1. RecordFailure(c, FALSE) /\ FALSE \in BOOLEAN
  BY DEF SlotFails
<1>2. active' \in SUBSET Slots
  BY SlotIsSlot DEF SlotFails, BreakerInv, TypeOK
<1>3. QED
  BY <1>1, <1>2, RecordFailurePreserves
  DEF BreakerInv, TypeOK, SlotFails, Goto, Points, Ended

(* Steps of a call that leave the breaker's fields alone. *)
LEMMA QuietPreserves ==
  ASSUME NEW c \in Calls, BreakerInv,
         \/ Admit(c) \/ Reject(c) \/ CountSlots(c) \/ InsertSlot(c)
         \/ EnterGlobal(c) \/ EnterProvider(c) \/ EnterRun(c)
         \/ ReleaseSlot(c) \/ Leave(c)
  PROVE  BreakerInv'
<1> USE DEF BreakerInv, breaker
<1>1. UNCHANGED breaker
  BY DEF Admit, Reject, CountSlots, InsertSlot, EnterGlobal, EnterProvider, EnterRun, ReleaseSlot, Leave
<1>2. StreakMatchesHealth' /\ InflightHasProbe'
  BY <1>1 DEF StreakMatchesHealth, InflightHasProbe
<1>3. TypeOK'
  <2> USE <1>1 DEF TypeOK, Goto, Points, HasGlobal, HasProvider, HasRun, Ended
  <2>1. CASE Admit(c) \/ Reject(c) \/ CountSlots(c)
    BY <2>1 DEF Admit, Reject, CountSlots
  <2>2. CASE InsertSlot(c)
    BY <2>2, SlotIsSlot DEF InsertSlot
  <2>3. CASE EnterGlobal(c) \/ EnterProvider(c) \/ EnterRun(c)
    BY <2>3 DEF EnterGlobal, EnterProvider, EnterRun
  <2>4. CASE ReleaseSlot(c)
    BY <2>4 DEF ReleaseSlot
  <2>5. CASE Leave(c)
    BY <2>5, LimitsAssumption DEF Leave, Retries, AttemptAfter
  <2>6. QED
    BY <2>1, <2>2, <2>3, <2>4, <2>5
<1>4. QED
  BY <1>2, <1>3

LEMMA ProbePreserves ==
  ASSUME NEW c \in Calls, BreakerInv, AdmitOpen(c) \/ AdmitHalfOpen(c)
  PROVE  BreakerInv'
<1> USE CallsAssumption
<1> USE DEF BreakerInv, AdmitOpen, AdmitHalfOpen, Home, Goto
<1>1. TypeOK'
  <2>1. CASE AdmitOpen(c)
    BY <2>1 DEF TypeOK, Points, Health
  <2>2. CASE AdmitHalfOpen(c)
    BY <2>2 DEF TypeOK, Points
  <2>3. QED
    BY <2>1, <2>2
<1>2. StreakMatchesHealth'
  BY DEF TypeOK, StreakMatchesHealth
<1>3. InflightHasProbe'
  BY DEF TypeOK, InflightHasProbe
<1>4. QED
  BY <1>1, <1>2, <1>3

LEMMA ProcessPreserves ==
  ASSUME NEW p \in Processes, BreakerInv, Reset(p) \/ Crash(p)
  PROVE  BreakerInv'
<1> USE CallsAssumption, LimitsAssumption
<1> USE DEF BreakerInv, Reset, Crash
<1>1. TypeOK'
  <2>1. CASE Reset(p)
    BY <2>1 DEF TypeOK, Health
  <2>2. CASE Crash(p)
    <3>1. pc' \in [Calls -> Points]
      BY <2>2 DEF TypeOK, Points, Ended
    <3>2. QED
      BY <2>2, <3>1 DEF TypeOK, Health
  <2>3. QED
    BY <2>1, <2>2
<1>2. StreakMatchesHealth'
  BY DEF TypeOK, StreakMatchesHealth
<1>3. InflightHasProbe'
  BY DEF TypeOK, InflightHasProbe
<1>4. QED
  BY <1>1, <1>2, <1>3

(* Every reachable state has the right types, a breaker whose health agrees
   with its failure streak, and a probe behind every in-flight entry. *)
THEOREM BreakerInvHolds == Spec => []BreakerInv
<1>1. Init => BreakerInv
  BY LimitsAssumption
  DEF Init, BreakerInv, TypeOK, StreakMatchesHealth, InflightHasProbe, Points, Health
<1>2. BreakerInv /\ [Next]_vars => BreakerInv'
  <2> SUFFICES ASSUME BreakerInv, [Next]_vars PROVE BreakerInv'
    OBVIOUS
  <2>1. ASSUME NEW c \in Calls, CallStep(c) PROVE BreakerInv'
    BY <2>1, QuietPreserves, ProbePreserves, SlotFailsPreserves, RespondPreserves DEF CallStep
  <2>2. ASSUME NEW p \in Processes, Reset(p) \/ Crash(p) PROVE BreakerInv'
    BY <2>2, ProcessPreserves
  <2>3. ASSUME NEW s \in Slots, SlotLapse(s) PROVE BreakerInv'
    BY <2>3 DEF SlotLapse, breaker, BreakerInv, TypeOK, StreakMatchesHealth, InflightHasProbe
  <2>4. CASE UNCHANGED vars
    BY <2>4 DEF vars, BreakerInv, TypeOK, StreakMatchesHealth, InflightHasProbe
  <2>5. QED
    BY <2>1, <2>2, <2>3, <2>4 DEF Next
<1>3. QED
  BY <1>1, <1>2, PTL DEF Spec

(* Type correctness of the scheduler, its breaker and the slot table. *)
THEOREM SchedulerTypeCorrect == Spec => []TypeOK
BY BreakerInvHolds, PTL DEF BreakerInv

(* No order of late answers, probes, resets and crashes makes the breaker's
   health disagree with its failure streak. *)
THEOREM HealthFollowsStreak == Spec => []StreakMatchesHealth
BY BreakerInvHolds, PTL DEF BreakerInv

(* A half-open breaker never waits for a probe that nobody is making. *)
THEOREM ProbeWillReport == Spec => []InflightHasProbe
BY BreakerInvHolds, PTL DEF BreakerInv

-----------------------------------------------------------------------------
(* The slots.  A row is taken from the moment its transaction has counted
   until it leaves the table.  What a transaction counts lies within the
   limits, and the rows it cannot see are those of the other transactions
   open beside it: each COUNT finds at most limit - 1 rows, and at most
   MaxOverlap transactions add theirs.  No other step takes a row. *)

Pending == {SlotOf(c) : c \in Counted}
Taken == active \cup Pending
OfRun(rows, r) == {s \in rows : RunOf[s[1]] = r}

SlotInv ==
  /\ TypeOK
  /\ Cardinality(Counted) <= MaxOverlap
  /\ Cardinality(Taken) <= ProviderLimit + (MaxOverlap - 1)
  /\ \A c \in Calls :
       Cardinality(OfRun(Taken, RunOf[c])) <= RunLimit + (MaxOverlap - 1)

(* The slot table is finite, and so is every part of it. *)
LEMMA SlotsFinite == IsFiniteSet(Slots)
<1>1. IsFiniteSet(0..MaxRetries)
  BY FS_Interval, LimitsAssumption
<1>2. QED
  BY <1>1, FS_Product, CallsAssumption DEF Slots

(* A part of a finite set has no more elements than the whole. *)
LEMMA SmallerCount ==
  ASSUME NEW S, IsFiniteSet(S), NEW T \in SUBSET S
  PROVE  /\ Cardinality(S) \in Nat
         /\ IsFiniteSet(T) /\ Cardinality(T) \in Nat
         /\ Cardinality(T) <= Cardinality(S)
<1>1. IsFiniteSet(T) /\ Cardinality(T) <= Cardinality(S)
  BY FS_Subset
<1>2. QED
  BY <1>1, FS_CardinalityType

(* Two finite sets together have at most as many elements as each added. *)
LEMMA UnionCount ==
  ASSUME NEW S, NEW T, IsFiniteSet(S), IsFiniteSet(T),
         NEW U \in SUBSET (S \cup T)
  PROVE  /\ Cardinality(U) \in Nat /\ Cardinality(S) \in Nat /\ Cardinality(T) \in Nat
         /\ Cardinality(U) <= Cardinality(S) + Cardinality(T)
<1>1. /\ IsFiniteSet(S \cup T) /\ IsFiniteSet(S \cap T)
      /\ Cardinality(S \cup T) = Cardinality(S) + Cardinality(T) - Cardinality(S \cap T)
  BY FS_Union, FS_Subset
<1>2. /\ Cardinality(S \cup T) \in Nat /\ Cardinality(S \cap T) \in Nat
      /\ Cardinality(S) \in Nat /\ Cardinality(T) \in Nat
  BY <1>1, FS_CardinalityType
<1>3. Cardinality(U) \in Nat /\ Cardinality(U) <= Cardinality(S \cup T)
  BY <1>1, SmallerCount
<1>4. QED
  BY <1>1, <1>2, <1>3

(* A step that takes no row keeps the counts within the limits. *)
LEMMA TakesNothing ==
  ASSUME SlotInv, TypeOK', active' \subseteq Taken,
         \A c \in Calls : pc'[c] = "counted" =>
            pc[c] = "counted" /\ attempt'[c] = attempt[c]
  PROVE  SlotInv'
<1> USE LimitsAssumption
<1>1. Counted' \subseteq Counted /\ Taken' \subseteq Taken
  BY DEF Counted, Taken, Pending, SlotOf
<1>2. IsFiniteSet(Counted) /\ IsFiniteSet(Taken)
  <2>1. Taken \subseteq Slots
    BY SlotIsSlot DEF SlotInv, TypeOK, Taken, Pending, Counted
  <2>2. QED
    BY <2>1, SlotsFinite, FS_Subset, CallsAssumption DEF Counted
<1>3. Cardinality(Counted') <= MaxOverlap
  <2>1. /\ Cardinality(Counted) \in Nat /\ Cardinality(Counted') \in Nat
        /\ Cardinality(Counted') <= Cardinality(Counted)
    BY <1>1, <1>2, SmallerCount
  <2>2. QED
    BY <2>1 DEF SlotInv
<1>4. Cardinality(Taken') <= ProviderLimit + (MaxOverlap - 1)
  <2>1. /\ Cardinality(Taken) \in Nat /\ Cardinality(Taken') \in Nat
        /\ Cardinality(Taken') <= Cardinality(Taken)
    BY <1>1, <1>2, SmallerCount
  <2>2. QED
    BY <2>1 DEF SlotInv
<1>5. ASSUME NEW c \in Calls
      PROVE  Cardinality(OfRun(Taken', RunOf[c])) <= RunLimit + (MaxOverlap - 1)
  <2> DEFINE S == OfRun(Taken, RunOf[c])
             T == OfRun(Taken', RunOf[c])
  <2>1. S \subseteq Taken /\ T \subseteq S
    BY <1>1 DEF OfRun
  <2>2. Cardinality(S) <= RunLimit + (MaxOverlap - 1)
    BY DEF SlotInv
  <2> HIDE DEF S, T
  <2>3. IsFiniteSet(S)
    BY <1>2, <2>1, FS_Subset
  <2>4. Cardinality(S) \in Nat /\ Cardinality(T) \in Nat /\ Cardinality(T) <= Cardinality(S)
    BY <2>1, <2>3, SmallerCount
  <2>5. Cardinality(T) <= RunLimit + (MaxOverlap - 1)
    BY <2>2, <2>4
  <2>6. QED
    BY <2>5 DEF T
<1>6. QED
  BY <1>3, <1>4, <1>5 DEF SlotInv, OfRun

(* The rows of some transactions are no more than the transactions. *)
LEMMA PendingCount ==
  ASSUME NEW D \in SUBSET Calls, NEW R, R = {SlotOf(c) : c \in D}
  PROVE  /\ IsFiniteSet(R) /\ Cardinality(R) \in Nat
         /\ IsFiniteSet(D) /\ Cardinality(D) \in Nat
         /\ Cardinality(R) <= Cardinality(D)
<1> DEFINE f == [c \in D |-> SlotOf(c)]
<1>1. IsFiniteSet(D) /\ Cardinality(D) \in Nat
  BY CallsAssumption, FS_Subset, FS_CardinalityType
<1>2. f \in Surjection(D, R)
  BY DEF Surjection
<1>3. IsFiniteSet(R) /\ Cardinality(R) <= Cardinality(D)
  BY <1>1, <1>2, FS_Surjection
<1>4. QED
  BY <1>1, <1>3, FS_CardinalityType

LEMMA OneMore ==
  ASSUME NEW S, IsFiniteSet(S), NEW x
  PROVE  /\ Cardinality(S) \in Nat /\ Cardinality(S \cup {x}) \in Nat
         /\ Cardinality(S \cup {x}) <= Cardinality(S) + 1
<1>1. Cardinality(S) \in Nat
  BY FS_CardinalityType
<1>2. IsFiniteSet(S \cup {x}) /\ Cardinality(S \cup {x}) <= Cardinality(S) + 1
  BY <1>1, FS_AddElement
<1>3. QED
  BY <1>1, <1>2, FS_CardinalityType

(* A transaction that has counted takes a row beside those it found. *)
LEMMA CountPreservesSlotInv ==
  ASSUME NEW c \in Calls, SlotInv, TypeOK', CountSlots(c)
  PROVE  SlotInv'
<1> USE LimitsAssumption
<1>1. /\ active' = active /\ attempt' = attempt
      /\ Counted' = Counted \cup {c}
  BY DEF CountSlots, SlotInv, TypeOK, Counted, Goto
<1>2. Cardinality(Counted') <= MaxOverlap
  <2>1. IsFiniteSet(Counted) /\ Cardinality(Counted) < MaxOverlap
    BY CallsAssumption, FS_Subset DEF Counted, CountSlots
  <2>2. /\ Cardinality(Counted) \in Nat /\ Cardinality(Counted \cup {c}) \in Nat
        /\ Cardinality(Counted \cup {c}) <= Cardinality(Counted) + 1
    BY <2>1, OneMore
  <2>3. QED
    BY <1>1, <2>1, <2>2
<1>3. PICK new : new = Pending'
  OBVIOUS
<1>4. IsFiniteSet(new) /\ Cardinality(new) \in Nat /\ Cardinality(new) <= MaxOverlap
  <2>1. PICK D : D = Counted'
    OBVIOUS
  <2>2. D \subseteq Calls /\ new = {SlotOf(d) : d \in D}
    BY <1>1, <1>3, <2>1 DEF Pending, Counted, SlotOf
  <2>3. /\ IsFiniteSet(new) /\ Cardinality(new) \in Nat
        /\ Cardinality(D) \in Nat /\ Cardinality(new) <= Cardinality(D)
    BY <2>2, PendingCount
  <2>4. QED
    BY <1>2, <2>1, <2>3
<1>5. active \subseteq Slots /\ IsFiniteSet(active)
  BY SlotsFinite, FS_Subset DEF SlotInv, TypeOK
<1>6. Taken' = active \cup new
  BY <1>1, <1>3 DEF Taken
<1>7. Cardinality(Taken') <= ProviderLimit + (MaxOverlap - 1)
  <2>1. Cardinality(active) < ProviderLimit
    BY DEF CountSlots, SlotFree
  <2>2. /\ Cardinality(Taken') \in Nat /\ Cardinality(active) \in Nat
        /\ Cardinality(Taken') <= Cardinality(active) + Cardinality(new)
    BY <1>4, <1>5, <1>6, UnionCount
  <2>3. QED
    BY <1>4, <2>1, <2>2
<1>8. ASSUME NEW d \in Calls
      PROVE  Cardinality(OfRun(Taken', RunOf[d])) <= RunLimit + (MaxOverlap - 1)
  <2> DEFINE S == SlotsOfRun(RunOf[d])
             T == OfRun(Taken', RunOf[d])
  <2>1. S \subseteq active /\ T \subseteq S \cup new
    BY <1>6 DEF OfRun, SlotsOfRun
  <2>2. CASE RunOf[d] = RunOf[c]
    <3>1. Cardinality(S) < RunLimit
      BY <2>2 DEF CountSlots, SlotFree
    <3> HIDE DEF S, T
    <3>2. IsFiniteSet(S)
      BY <1>5, <2>1, FS_Subset
    <3>3. /\ Cardinality(T) \in Nat /\ Cardinality(S) \in Nat
          /\ Cardinality(T) <= Cardinality(S) + Cardinality(new)
      BY <1>4, <2>1, <3>2, UnionCount
    <3>4. Cardinality(T) <= RunLimit + (MaxOverlap - 1)
      BY <1>4, <3>1, <3>3
    <3>5. QED
      BY <3>4 DEF T
  <2>3. CASE RunOf[d] # RunOf[c]
    <3>1. OfRun(Taken', RunOf[d]) = OfRun(Taken, RunOf[d])
      BY <1>1, <2>3 DEF OfRun, Taken, Pending, SlotOf
    <3>2. QED
      BY <3>1 DEF SlotInv
  <2>4. QED
    BY <2>2, <2>3
<1>9. QED
  BY <1>2, <1>7, <1>8 DEF SlotInv, OfRun

(* The other steps of a call. *)
LEMMA CallPreservesSlotInv ==
  ASSUME NEW c \in Calls, SlotInv, TypeOK', CallStep(c)
  PROVE  SlotInv'
<1> DEFINE Nothing == /\ active' \subseteq Taken
                      /\ \A d \in Calls : pc'[d] = "counted" =>
                           pc[d] = "counted" /\ attempt'[d] = attempt[d]
<1> USE DEF SlotInv, TypeOK, Goto
<1>1. CASE Admit(c) \/ AdmitOpen(c) \/ AdmitHalfOpen(c) \/ Reject(c)
  <2>1. Nothing
    BY <1>1 DEF Admit, AdmitOpen, AdmitHalfOpen, Reject, Taken
  <2>2. QED
    BY <2>1, TakesNothing
<1>2. CASE EnterGlobal(c) \/ EnterProvider(c) \/ EnterRun(c) \/ \E v \in Verdicts : Respond(c, v)
  <2>1. Nothing
    BY <1>2 DEF EnterGlobal, EnterProvider, EnterRun, Respond, Taken
  <2>2. QED
    BY <2>1, TakesNothing
<1>3. CASE SlotFails(c) \/ InsertSlot(c)
  <2>1. Nothing
    BY <1>3 DEF SlotFails, InsertSlot, Taken, Pending, Counted
  <2>2. QED
    BY <2>1, TakesNothing
<1>4. CASE ReleaseSlot(c) \/ Leave(c)
  <2>1. Nothing
    BY <1>4 DEF ReleaseSlot, Freed, Leave, Taken
  <2>2. QED
    BY <2>1, TakesNothing
<1>5. CASE CountSlots(c)
  BY <1>5, CountPreservesSlotInv
<1>6. QED
  BY <1>1, <1>2, <1>3, <1>4, <1>5 DEF CallStep

(* The rows taken stay within the limits and the overlap, under all faults. *)
THEOREM SlotInvHolds == Spec => []SlotInv
<1>1. Init => SlotInv
  <2> SUFFICES ASSUME Init PROVE SlotInv
    OBVIOUS
  <2>1. TypeOK
    BY LimitsAssumption DEF Init, TypeOK, Points, Health
  <2>2. Counted = {} /\ Taken = {}
    BY DEF Init, Counted, Taken, Pending
  <2>3. \A c \in Calls : OfRun(Taken, RunOf[c]) = {}
    BY <2>2 DEF OfRun
  <2>4. QED
    BY <2>1, <2>2, <2>3, FS_EmptySet, LimitsAssumption DEF SlotInv
<1>2. TypeOK' /\ SlotInv /\ [Next]_vars => SlotInv'
  <2> SUFFICES ASSUME TypeOK', SlotInv, [Next]_vars PROVE SlotInv'
    OBVIOUS
  <2>1. ASSUME NEW c \in Calls, CallStep(c) PROVE SlotInv'
    BY <2>1, CallPreservesSlotInv
  <2>2. ASSUME NEW p \in Processes, Reset(p) \/ Crash(p) PROVE SlotInv'
    <3>1. active' = active /\ attempt' = attempt
      BY <2>2 DEF Reset, Crash
    <3>2. \A c \in Calls : pc'[c] = pc[c] \/ pc'[c] = "gone"
      BY <2>2 DEF Reset, Crash, SlotInv, TypeOK
    <3>3. QED
      BY <3>1, <3>2, TakesNothing DEF Taken
  <2>3. ASSUME NEW s \in Slots, SlotLapse(s) PROVE SlotInv'
    BY <2>3, TakesNothing DEF SlotLapse, Taken
  <2>4. CASE UNCHANGED vars
    BY <2>4, TakesNothing DEF vars, Taken
  <2>5. QED
    BY <2>1, <2>2, <2>3, <2>4 DEF Next
<1>3. QED
  BY <1>1, <1>2, SchedulerTypeCorrect, PTL DEF Spec

(* Of some calls, those that still have their row in a part of the table are
   no more than its rows. *)
LEMMA ServedCount ==
  ASSUME TypeOK, NEW D \in SUBSET Calls, NEW R \in SUBSET Slots,
         \A d \in D : SlotOf(d) \in active => SlotOf(d) \in R
  PROVE  /\ Cardinality(D) \in Nat /\ Cardinality(R) \in Nat
         /\ Cardinality(Overdue(D)) \in Nat
         /\ Cardinality(D) <= Cardinality(R) + Cardinality(Overdue(D))
<1> DEFINE served == D \ Overdue(D)
           f == [d \in served |-> SlotOf(d)]
<1>1. IsFiniteSet(R) /\ Cardinality(R) \in Nat
  BY SlotsFinite, FS_Subset, FS_CardinalityType
<1>2. IsFiniteSet(served) /\ IsFiniteSet(Overdue(D))
  BY CallsAssumption, FS_Subset DEF Overdue
<1>3. f \in Injection(served, R)
  BY DEF Injection, IsInjective, SlotOf, Overdue
<1> HIDE DEF f
<1>4. Cardinality(served) <= Cardinality(R)
  BY <1>1, <1>3, FS_Injection
<1>5. D \subseteq served \cup Overdue(D)
  OBVIOUS
<1> HIDE DEF served
<1>6. /\ Cardinality(D) \in Nat /\ Cardinality(served) \in Nat
      /\ Cardinality(Overdue(D)) \in Nat
      /\ Cardinality(D) <= Cardinality(served) + Cardinality(Overdue(D))
  BY <1>2, <1>5, UnionCount
<1>7. QED
  BY <1>1, <1>4, <1>6

LEMMA CallsCountedByRows == SlotInv => SlotsLimitCalls
<1> SUFFICES ASSUME SlotInv PROVE SlotsLimitCalls
  OBVIOUS
<1> USE LimitsAssumption
<1>1. TypeOK /\ Calling \subseteq Calls
  BY DEF SlotInv, Calling
<1>2. IsFiniteSet(Taken) /\ Taken \subseteq Slots /\ active \subseteq Taken
  BY <1>1, SlotIsSlot, SlotsFinite, FS_Subset DEF TypeOK, Taken, Pending, Counted
<1>3. Cardinality(Calling)
        <= ProviderLimit + (MaxOverlap - 1) + Cardinality(Overdue(Calling))
  <2>1. /\ Cardinality(Calling) \in Nat /\ Cardinality(Taken) \in Nat
        /\ Cardinality(Overdue(Calling)) \in Nat
        /\ Cardinality(Calling) <= Cardinality(Taken) + Cardinality(Overdue(Calling))
    BY <1>1, <1>2, ServedCount
  <2>2. QED
    BY <2>1 DEF SlotInv
<1>4. ASSUME NEW c \in Calling
      PROVE  Cardinality(CallingOf(RunOf[c]))
               <= RunLimit + (MaxOverlap - 1) + Cardinality(Overdue(CallingOf(RunOf[c])))
  <2> DEFINE D == CallingOf(RunOf[c])
             R == OfRun(Taken, RunOf[c])
  <2>1. D \subseteq Calls /\ R \subseteq Slots
    BY <1>1, <1>2 DEF CallingOf, OfRun
  <2>2. \A d \in D : SlotOf(d) \in active => SlotOf(d) \in R
    BY <1>2 DEF CallingOf, OfRun, SlotOf
  <2>3. Cardinality(R) <= RunLimit + (MaxOverlap - 1)
    BY <1>1 DEF SlotInv
  <2> HIDE DEF D, R
  <2>4. /\ Cardinality(D) \in Nat /\ Cardinality(R) \in Nat
        /\ Cardinality(Overdue(D)) \in Nat
        /\ Cardinality(D) <= Cardinality(R) + Cardinality(Overdue(D))
    BY <1>1, <2>1, <2>2, ServedCount
  <2>5. Cardinality(D) <= RunLimit + (MaxOverlap - 1) + Cardinality(Overdue(D))
    BY <2>3, <2>4
  <2>6. QED
    BY <2>5 DEF D
<1>5. QED
  BY <1>3, <1>4 DEF SlotsLimitCalls

(* Under every combination of faults, all processes together exceed the
   limits on calls at the provider, and on those of one run, by no more than
   the transactions that overlap and the calls that outlived their slot: the
   slot table does what per-process semaphores cannot. *)
THEOREM SlotsLimitHolds == Spec => []SlotsLimitCalls
BY SlotInvHolds, CallsCountedByRows, PTL

(* The faults a theorem excludes. *)
Quiet(fs) == Faults \cap fs = {}

-----------------------------------------------------------------------------
(* Without crashes and failing stores every active row is owned. *)
THEOREM SlotsGivenBack ==
  ASSUME Quiet({"crash", "lost", "leak"})
  PROVE  Spec => []NoSlotLeft
<1> USE DEF Quiet
<1>1. Init => NoSlotLeft
  BY DEF Init, NoSlotLeft
<1>2. TypeOK /\ NoSlotLeft /\ [Next]_vars => NoSlotLeft'
  <2> SUFFICES ASSUME TypeOK, NoSlotLeft, [Next]_vars PROVE NoSlotLeft'
    OBVIOUS
  <2> USE DEF TypeOK, NoSlotLeft, Owned, SlotOf, HasSlot
  <2>1. ASSUME NEW c \in Calls, CallStep(c) PROVE NoSlotLeft'
    <3> USE DEF Goto
    <3>1. CASE Admit(c) \/ AdmitOpen(c) \/ AdmitHalfOpen(c) \/ Reject(c) \/ CountSlots(c)
      BY <3>1 DEF Admit, AdmitOpen, AdmitHalfOpen, Reject, CountSlots, Slots
    <3>2. CASE EnterGlobal(c) \/ EnterProvider(c) \/ EnterRun(c) \/ \E v \in Verdicts : Respond(c, v)
      BY <3>2 DEF EnterGlobal, EnterProvider, EnterRun, Respond, Slots
    <3>3. CASE SlotFails(c) \/ Leave(c)
      <4>1. /\ active' = active
            /\ pc[c] \notin HasSlot
            /\ \A d \in Calls \ {c} : pc'[d] = pc[d] /\ attempt'[d] = attempt[d]
        BY <3>3 DEF SlotFails, Leave
      <4>2. QED
        BY <4>1 DEF Slots
    <3>4. CASE InsertSlot(c)
      BY <3>4 DEF InsertSlot, Slots
    <3>5. CASE ReleaseSlot(c)
      BY <3>5 DEF ReleaseSlot, Freed, Slots
    <3>6. QED
      BY <2>1, <3>1, <3>2, <3>3, <3>4, <3>5 DEF CallStep
  <2>2. ASSUME NEW p \in Processes, Reset(p) \/ Crash(p) PROVE NoSlotLeft'
    BY <2>2 DEF Reset, Crash
  <2>3. ASSUME NEW s \in Slots, SlotLapse(s) PROVE NoSlotLeft'
    BY <2>3 DEF SlotLapse
  <2>4. CASE UNCHANGED vars
    BY <2>4 DEF vars
  <2>5. QED
    BY <2>1, <2>2, <2>3, <2>4 DEF Next
<1>3. QED
  BY <1>1, <1>2, SchedulerTypeCorrect, PTL DEF Spec

=============================================================================
