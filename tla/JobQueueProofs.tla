--------------------------- MODULE JobQueueProofs ---------------------------
(***************************************************************************)
(* Theorems about JobQueue, for any set of jobs and workers, any budget of *)
(* attempts and any combination of faults unless a theorem names the       *)
(* faults it excludes.                                                     *)
(***************************************************************************)
EXTENDS JobQueue, FiniteSetTheorems, TLAPS

(* What LeaseConsistent, WaitingHasBudget and CompletedWasExecuted need to
   be inductive: a row that was never inserted has used no attempt, and a
   verdict "ok" in a worker's hands comes from an execution that returned. *)
FreshUnused == \A j \in Jobs : status[j] = "absent" => attempts[j] = 0
OkWasExecuted ==
  \A w \in Workers, j \in Jobs : phase[w][j] = "ok" => j \in executed

IInv ==
  /\ TypeOK
  /\ LeaseConsistent
  /\ WaitingHasBudget
  /\ FreshUnused
  /\ OkWasExecuted
  /\ CompletedWasExecuted

LEMMA SweepPreservesIInv == IInv /\ SweepExpired => IInv'
<1> SUFFICES ASSUME IInv, SweepExpired PROVE IInv'
  OBVIOUS
<1> USE AttemptsAssumption
<1>1. TypeOK'
  BY DEF IInv, TypeOK, SweepExpired, Expired, AfterFailure, Statuses, Held, Claimable, Terminal
<1>2. LeaseConsistent'
  BY DEF IInv, TypeOK, LeaseConsistent, SweepExpired, Expired, AfterFailure, Statuses, Held, Claimable, Terminal
<1>3. WaitingHasBudget'
  BY DEF IInv, TypeOK, WaitingHasBudget, SweepExpired, Expired, AfterFailure, Claimable, Held
<1>4. FreshUnused'
  BY DEF IInv, FreshUnused, SweepExpired, Expired, AfterFailure
<1>5. OkWasExecuted'
  BY DEF IInv, OkWasExecuted, SweepExpired
<1>6. CompletedWasExecuted'
  BY DEF IInv, CompletedWasExecuted, SweepExpired, AfterFailure
<1>7. QED
  BY <1>1, <1>2, <1>3, <1>4, <1>5, <1>6 DEF IInv

LEMMA ClaimPreservesIInv ==
  ASSUME NEW w \in Workers, NEW j \in Jobs, NEW o \in Outcomes, IInv, Claim(w, j, o)
  PROVE  IInv'
<1> USE AttemptsAssumption, WorkersAssumption
<1> USE DEF IInv, Claim, SetPhase, NextAttempt
<1>1. TypeOK'
  <2>1. attempts[j] + 1 \in 0..MaxAttempts
    BY DEF TypeOK, WaitingHasBudget
  <2>2. QED
    BY <2>1 DEF TypeOK, Statuses, Held, Phases
<1>2. LeaseConsistent'
  BY DEF TypeOK, LeaseConsistent, Statuses, Held, Claimable, Terminal, Workers
<1>3. WaitingHasBudget'
  BY DEF TypeOK, WaitingHasBudget, Claimable
<1>4. FreshUnused'
  BY DEF TypeOK, FreshUnused, Claimable
<1>5. OkWasExecuted'
  BY DEF TypeOK, OkWasExecuted
<1>6. CompletedWasExecuted'
  BY DEF TypeOK, CompletedWasExecuted
<1>7. QED
  BY <1>1, <1>2, <1>3, <1>4, <1>5, <1>6

LEMMA StartPreservesIInv ==
  ASSUME NEW w \in Workers, NEW j \in Jobs, NEW o \in Outcomes, IInv, Start(w, j, o)
  PROVE  IInv'
<1> USE DEF IInv, Start, SetPhase, StartPhase
<1>1. TypeOK'
  BY DEF TypeOK, Statuses, Held, Phases
<1>2. LeaseConsistent'
  BY DEF TypeOK, LeaseConsistent, Statuses, Held, Claimable, Terminal
<1>3. WaitingHasBudget'
  BY DEF TypeOK, WaitingHasBudget, Claimable
<1>4. FreshUnused'
  BY DEF TypeOK, FreshUnused
<1>5. OkWasExecuted'
  BY DEF TypeOK, OkWasExecuted
<1>6. CompletedWasExecuted'
  BY DEF TypeOK, CompletedWasExecuted
<1>7. QED
  BY <1>1, <1>2, <1>3, <1>4, <1>5, <1>6

LEMMA FinishPreservesIInv ==
  ASSUME NEW w \in Workers, NEW j \in Jobs, NEW o \in Outcomes, IInv, Finish(w, j, o)
  PROVE  IInv'
<1> USE DEF IInv, Finish, SetPhase, EndedWell, OwnRow, Complete
<1>1. TypeOK'
  BY DEF TypeOK, Statuses, Terminal, Phases
<1>2. LeaseConsistent'
  BY DEF TypeOK, LeaseConsistent, Statuses, Held, Claimable, Terminal
<1>3. WaitingHasBudget'
  BY DEF TypeOK, WaitingHasBudget, Claimable
<1>4. FreshUnused'
  BY DEF TypeOK, FreshUnused
<1>5. OkWasExecuted'
  BY DEF TypeOK, OkWasExecuted
<1>6. CompletedWasExecuted'
  BY DEF TypeOK, CompletedWasExecuted, OkWasExecuted
<1>7. QED
  BY <1>1, <1>2, <1>3, <1>4, <1>5, <1>6

LEMMA FailPreservesIInv ==
  ASSUME NEW w \in Workers, NEW j \in Jobs, NEW o \in Outcomes, IInv, Fail(w, j, o)
  PROVE  IInv'
<1> USE AttemptsAssumption
<1> USE DEF IInv, Fail, SetPhase, OwnRow, AfterFailure
<1>1. TypeOK'
  BY DEF TypeOK, Statuses, Terminal, Claimable, Phases
<1>2. LeaseConsistent'
  BY DEF TypeOK, LeaseConsistent, Statuses, Held, Claimable, Terminal
<1>3. WaitingHasBudget'
  BY DEF TypeOK, WaitingHasBudget, Claimable
<1>4. FreshUnused'
  BY DEF TypeOK, FreshUnused
<1>5. OkWasExecuted'
  BY DEF TypeOK, OkWasExecuted
<1>6. CompletedWasExecuted'
  BY DEF TypeOK, CompletedWasExecuted
<1>7. QED
  BY <1>1, <1>2, <1>3, <1>4, <1>5, <1>6

LEMMA ReturnPreservesIInv ==
  ASSUME NEW w \in Workers, NEW j \in Jobs, NEW v \in {"ok", "err", "fatal"},
         IInv, Return(w, j, v)
  PROVE  IInv'
<1> USE DEF IInv, Return, SetPhase, row
<1>1. TypeOK'
  BY DEF TypeOK, Phases
<1>2. LeaseConsistent' /\ WaitingHasBudget' /\ FreshUnused'
  BY DEF LeaseConsistent, WaitingHasBudget, FreshUnused
<1>3. OkWasExecuted'
  BY DEF TypeOK, OkWasExecuted
<1>4. CompletedWasExecuted'
  BY DEF CompletedWasExecuted
<1>5. QED
  BY <1>1, <1>2, <1>3, <1>4

(* The steps that leave every row but perhaps its lease alone. *)
LEMMA LocalPreservesIInv ==
  ASSUME NEW w \in Workers, NEW j \in Jobs, IInv,
         \/ Heartbeat(w, j) \/ HeartbeatFails(w, j) \/ LeaseLapse(j)
         \/ ApiBegin(w) \/ Crash(w) \/ Shutdown(w) \/ Stop(w)
  PROVE  IInv'
<1> USE DEF IInv, row
<1>1. CASE Heartbeat(w, j)
  BY <1>1 DEF Heartbeat, TypeOK, LeaseConsistent, WaitingHasBudget, FreshUnused,
              OkWasExecuted, CompletedWasExecuted, Held
<1>2. CASE HeartbeatFails(w, j)
  BY <1>2 DEF HeartbeatFails, SetPhase, TypeOK, Phases, LeaseConsistent,
              WaitingHasBudget, FreshUnused, OkWasExecuted, CompletedWasExecuted
<1>3. CASE LeaseLapse(j)
  BY <1>3 DEF LeaseLapse, TypeOK, LeaseConsistent, WaitingHasBudget, FreshUnused,
              OkWasExecuted, CompletedWasExecuted, Held
<1>4. CASE ApiBegin(w)
  BY <1>4 DEF ApiBegin, StartPhase, TypeOK, Phases, LeaseConsistent,
              WaitingHasBudget, FreshUnused, OkWasExecuted, CompletedWasExecuted
<1>5. CASE Crash(w)
  BY <1>5 DEF Crash, TypeOK, Phases, LeaseConsistent,
              WaitingHasBudget, FreshUnused, OkWasExecuted, CompletedWasExecuted
<1>6. CASE Shutdown(w)
  BY <1>6 DEF Shutdown, TypeOK, Phases, LeaseConsistent,
              WaitingHasBudget, FreshUnused, OkWasExecuted, CompletedWasExecuted
<1>7. CASE Stop(w)
  BY <1>7 DEF Stop, TypeOK, Phases, LeaseConsistent,
              WaitingHasBudget, FreshUnused, OkWasExecuted, CompletedWasExecuted
<1>8. QED
  BY <1>1, <1>2, <1>3, <1>4, <1>5, <1>6, <1>7

LEMMA EnqueuePreservesIInv ==
  ASSUME NEW j \in Jobs, IInv, Enqueue(j)
  PROVE  IInv'
<1> USE AttemptsAssumption
<1> USE DEF IInv, Enqueue
<1>1. TypeOK'
  BY DEF TypeOK, Statuses, Claimable
<1>2. LeaseConsistent'
  BY DEF TypeOK, LeaseConsistent, Held, Claimable
<1>3. WaitingHasBudget' /\ FreshUnused'
  BY DEF TypeOK, WaitingHasBudget, FreshUnused, Claimable
<1>4. OkWasExecuted' /\ CompletedWasExecuted'
  BY DEF TypeOK, OkWasExecuted, CompletedWasExecuted
<1>5. QED
  BY <1>1, <1>2, <1>3, <1>4

LEMMA IInvHolds == Spec => []IInv
<1>1. Init => IInv
  BY AttemptsAssumption
  DEF Init, IInv, TypeOK, Statuses, Phases, LeaseConsistent, WaitingHasBudget,
      FreshUnused, OkWasExecuted, CompletedWasExecuted, Held, Claimable
<1>2. IInv /\ [Next]_vars => IInv'
  <2> SUFFICES ASSUME IInv, [Next]_vars PROVE IInv'
    OBVIOUS
  <2>1. CASE UNCHANGED vars
    BY <2>1 DEF vars, IInv, TypeOK, LeaseConsistent, WaitingHasBudget,
                FreshUnused, OkWasExecuted, CompletedWasExecuted
  <2>2. ASSUME NEW j \in Jobs, Enqueue(j) PROVE IInv'
    BY <2>2, EnqueuePreservesIInv
  <2>3. ASSUME NEW j \in Jobs, LeaseLapse(j) PROVE IInv'
    <3>1. TypeOK' /\ LeaseConsistent'
      BY <2>3 DEF IInv, LeaseLapse, TypeOK, LeaseConsistent, Held
    <3>2. WaitingHasBudget' /\ FreshUnused' /\ OkWasExecuted' /\ CompletedWasExecuted'
      BY <2>3 DEF IInv, LeaseLapse, WaitingHasBudget, FreshUnused, OkWasExecuted,
                  CompletedWasExecuted
    <3>3. QED
      BY <3>1, <3>2 DEF IInv
  <2>4. ASSUME NEW w \in Workers, NEW j \in Jobs, WorkerStep(w, j) PROVE IInv'
    BY <2>4, ClaimPreservesIInv, StartPreservesIInv, ReturnPreservesIInv,
       FinishPreservesIInv, FailPreservesIInv, LocalPreservesIInv DEF WorkerStep
  <2>5. ASSUME NEW w \in Workers, ProcessStep(w) PROVE IInv'
    <3>1. CASE RequeueExpired(w)
      BY <3>1, SweepPreservesIInv DEF RequeueExpired
    <3>2. CASE ApiBegin(w) \/ Crash(w) \/ Shutdown(w) \/ Stop(w)
      <4>1. TypeOK'
        BY <3>2 DEF IInv, TypeOK, ApiBegin, StartPhase, Crash, Shutdown, Stop, row, Phases
      <4>2. LeaseConsistent' /\ WaitingHasBudget' /\ FreshUnused' /\ CompletedWasExecuted'
        BY <3>2 DEF IInv, LeaseConsistent, WaitingHasBudget, FreshUnused,
                    CompletedWasExecuted, ApiBegin, Crash, Shutdown, Stop, row
      <4>3. OkWasExecuted'
        BY <3>2 DEF IInv, TypeOK, OkWasExecuted, ApiBegin, StartPhase, Crash, Shutdown, Stop
      <4>4. QED
        BY <4>1, <4>2, <4>3 DEF IInv
    <3>3. QED
      BY <2>5, <3>1, <3>2 DEF ProcessStep
  <2>6. CASE RecoverAll
    BY <2>6, SweepPreservesIInv DEF RecoverAll
  <2>7. QED
    BY <2>1, <2>2, <2>3, <2>4, <2>5, <2>6 DEF Next
<1>3. QED
  BY <1>1, <1>2, PTL DEF Spec

(* Every variable of the queue keeps its type; in particular attempts never
   exceeds max_attempts although claim_job does not look at it. *)
THEOREM TypeCorrect == Spec => []TypeOK
<1>1. IInv => TypeOK
  BY DEF IInv
<1>2. QED
  BY <1>1, IInvHolds, PTL

(* Under every fault owner, expiry and status of a row agree (claim_job,
   finish_job, fail_job, requeue_expired_jobs). *)
THEOREM RowsConsistent == Spec => []LeaseConsistent
<1>1. IInv => LeaseConsistent
  BY DEF IInv
<1>2. QED
  BY <1>1, IInvHolds, PTL

(* Under every fault a job that waits to be claimed has an attempt left,
   which claim_job does not test. *)
THEOREM BudgetLeft == Spec => []WaitingHasBudget
<1>1. IInv => WaitingHasBudget
  BY DEF IInv
<1>2. QED
  BY <1>1, IInvHolds, PTL

(* No job is reported completed unless its pipeline handler returned. *)
THEOREM NoPhantomCompletion == Spec => []CompletedWasExecuted
<1>1. IInv => CompletedWasExecuted
  BY DEF IInv
<1>2. QED
  BY <1>1, IInvHolds, PTL

-----------------------------------------------------------------------------
(* Attempts bound the executions. *)

(* The workers that hold an execution of a job, whoever owns its row. *)
Executing(j) == {w \in Workers : phase[w][j] # "idle"}

LEMMA OnlyClaimsExecute ==
  ASSUME IInv, [Next]_vars, NEW i \in Jobs
  PROVE  \/ /\ attempts'[i] = attempts[i]
            /\ Executing(i)' \subseteq Executing(i)
         \/ /\ attempts'[i] = attempts[i] + 1
            /\ \E w \in Workers : Executing(i)' \subseteq Executing(i) \cup {w}
<1> DEFINE Kept == attempts'[i] = attempts[i] /\ Executing(i)' \subseteq Executing(i)
           More == attempts'[i] = attempts[i] + 1
                   /\ \E w \in Workers : Executing(i)' \subseteq Executing(i) \cup {w}
<1> SUFFICES Kept \/ More
  OBVIOUS
<1>1. attempts \in [Jobs -> 0..MaxAttempts] /\ phase \in [Workers -> [Jobs -> Phases]]
  BY DEF IInv, TypeOK
<1>2. SweepExpired \/ UNCHANGED vars => Kept
  BY DEF SweepExpired, Executing, vars
<1>3. ASSUME NEW w \in Workers, NEW j \in Jobs, WorkerStep(w, j) PROVE Kept \/ More
  <2>1. ASSUME NEW o \in Outcomes, Claim(w, j, o) PROVE Kept \/ More
    <3>1. attempts' = [attempts EXCEPT ![j] = attempts[j] + 1]
          /\ (UNCHANGED phase \/ phase' = [phase EXCEPT ![w][j] = "claimed"])
      BY <2>1 DEF Claim, NextAttempt, SetPhase
    <3>2. CASE i = j
      BY <1>1, <3>1, <3>2 DEF Executing
    <3>3. CASE i # j
      BY <1>1, <3>1, <3>3 DEF Executing
    <3>4. QED
      BY <3>2, <3>3
  <2>2. ASSUME NEW p \in Phases, UNCHANGED attempts, phase[w][j] # "idle", SetPhase(w, j, p)
        PROVE  Kept
    BY <1>1, <2>2 DEF SetPhase, Executing
  <2>3. ASSUME NEW o \in Outcomes, Start(w, j, o) \/ Finish(w, j, o) \/ Fail(w, j, o) PROVE Kept
    BY <2>2, <2>3 DEF Start, StartPhase, Finish, EndedWell, Fail, Phases
  <2>4. ASSUME NEW v \in {"ok", "err", "fatal"}, Return(w, j, v) PROVE Kept
    BY <2>2, <2>4 DEF Return, row, Phases
  <2>5. Heartbeat(w, j) => Kept
    BY DEF Heartbeat, Executing
  <2>6. HeartbeatFails(w, j) => Kept
    BY <2>2 DEF HeartbeatFails, row, Phases
  <2>7. QED
    BY <1>3, <2>1, <2>3, <2>4, <2>5, <2>6 DEF WorkerStep
<1>4. ASSUME NEW w \in Workers, ProcessStep(w) PROVE Kept
  <2>1. CASE ApiBegin(w)
    BY <1>1, <2>1 DEF ApiBegin, row, Executing
  <2>2. CASE Crash(w) \/ Stop(w)
    BY <1>1, <2>2 DEF Crash, Stop, row, Executing
  <2>3. CASE Shutdown(w)
    BY <1>1, <2>3 DEF Shutdown, row, Executing
  <2>4. QED
    BY <1>2, <1>4, <2>1, <2>2, <2>3 DEF ProcessStep, RequeueExpired
<1>5. ASSUME NEW j \in Jobs, Enqueue(j) \/ LeaseLapse(j) PROVE Kept
  BY <1>5 DEF Enqueue, LeaseLapse, Executing
<1>6. QED
  BY <1>2, <1>3, <1>4, <1>5 DEF Next, RecoverAll

(* However many workers lose their leases and go on, each execution of a job
   was counted in attempts when claim_job handed it out: lost leases cannot
   multiply executions beyond the budget. *)
THEOREM NeverMoreThanCounted == Spec => []ExecutionsCounted
<1>1. Init => ExecutionsCounted
  <2> SUFFICES ASSUME Init, NEW j \in Jobs
               PROVE  Cardinality({w \in Workers : phase[w][j] # "idle"}) <= attempts[j]
    BY DEF ExecutionsCounted
  <2>1. {w \in Workers : phase[w][j] # "idle"} = {}
    BY DEF Init
  <2>2. attempts[j] = 0
    BY DEF Init
  <2>3. QED
    BY <2>1, <2>2, FS_EmptySet
<1>2. IInv /\ ExecutionsCounted /\ [Next]_vars => ExecutionsCounted'
  <2> SUFFICES ASSUME IInv, ExecutionsCounted, [Next]_vars, NEW j \in Jobs
               PROVE  Cardinality(Executing(j)') <= attempts'[j]
    BY DEF ExecutionsCounted, Executing
  <2>1. PICK E, F : E = Executing(j) /\ F = Executing(j)'
    OBVIOUS
  <2>2. IsFiniteSet(E) /\ IsFiniteSet(Workers)
    BY <2>1, WorkersAssumption, FS_Subset DEF Executing, Workers
  <2>3. Cardinality(E) <= attempts[j] /\ attempts[j] \in Nat /\ Cardinality(E) \in Nat
    BY <2>1, <2>2, FS_CardinalityType DEF ExecutionsCounted, Executing, IInv, TypeOK
  <2>4. F \in SUBSET Workers
    BY <2>1 DEF Executing
  <2>5. CASE attempts'[j] = attempts[j] /\ F \subseteq E
    <3>1. Cardinality(F) <= Cardinality(E) /\ Cardinality(F) \in Nat
      BY <2>2, <2>5, FS_Subset, FS_CardinalityType
    <3>2. QED
      BY <2>1, <2>3, <2>5, <3>1
  <2>6. ASSUME attempts'[j] = attempts[j] + 1, NEW w \in Workers, F \subseteq E \cup {w}
        PROVE  Cardinality(F) <= attempts'[j]
    <3>1. IsFiniteSet(E \cup {w})
          /\ Cardinality(E \cup {w}) = IF w \in E THEN Cardinality(E) ELSE Cardinality(E) + 1
      BY <2>2, FS_AddElement
    <3>2. Cardinality(E \cup {w}) <= Cardinality(E) + 1 /\ Cardinality(E \cup {w}) \in Nat
      BY <2>3, <3>1
    <3>3. Cardinality(F) <= Cardinality(E \cup {w}) /\ Cardinality(F) \in Nat
      BY <2>6, <3>1, FS_Subset, FS_CardinalityType
    <3>4. QED
      BY <2>3, <2>6, <3>2, <3>3
  <2>7. QED
    BY <2>1, <2>5, <2>6, OnlyClaimsExecute
<1>3. QED
  BY <1>1, <1>2, IInvHolds, PTL DEF Spec

(* A job becomes a dead letter only when its attempts are used up or its own
   worker reports an error that no retry can mend (fail_job,
   requeue_expired_jobs): no order of sweeps and late failures gives up a job
   early. *)
THEOREM NoEarlyDeadLetter == Spec => DeadLetterJustified
<1> DEFINE A(j) ==
      status[j] # "dead_letter" /\ status'[j] = "dead_letter" =>
        \/ attempts[j] = MaxAttempts
        \/ \E w \in Workers : owner[j] = w /\ phase[w][j] = "fatal"
<1>1. IInv /\ [Next]_vars => \A j \in Jobs : A(j)
  <2> SUFFICES ASSUME IInv, [Next]_vars, NEW i \in Jobs PROVE A(i)
    OBVIOUS
  <2>0. /\ status \in [Jobs -> Statuses] /\ attempts[i] \in 0..MaxAttempts
        /\ MaxAttempts \in Nat
    BY AttemptsAssumption DEF IInv, TypeOK
  <2>1. SweepExpired => A(i)
    BY <2>0 DEF SweepExpired, AfterFailure
  <2>2. ASSUME NEW w \in Workers, NEW j \in Jobs, WorkerStep(w, j) PROVE A(i)
    <3>1. ASSUME NEW o \in Outcomes, Claim(w, j, o) PROVE A(i)
      BY <3>1, <2>0 DEF Claim
    <3>2. ASSUME NEW o \in Outcomes, Start(w, j, o) PROVE A(i)
      BY <3>2, <2>0 DEF Start
    <3>3. ASSUME NEW o \in Outcomes, Finish(w, j, o) PROVE A(i)
      BY <3>3, <2>0 DEF Finish, Complete
    <3>4. ASSUME NEW o \in Outcomes, Fail(w, j, o) PROVE A(i)
      <4>1. \/ UNCHANGED status
            \/ owner[j] = w /\ status' = [status EXCEPT ![j] = AfterFailure(j, phase[w][j] = "err")]
        BY <3>4 DEF Fail, OwnRow
      <4>2. phase[w][j] = "err" \/ phase[w][j] = "fatal"
        BY <3>4 DEF Fail
      <4>3. QED
        BY <2>0, <4>1, <4>2 DEF AfterFailure
    <3>5. (\E v \in {"ok", "err", "fatal"} : Return(w, j, v)) => A(i)
      BY DEF Return, row
    <3>6. Heartbeat(w, j) \/ HeartbeatFails(w, j) => A(i)
      BY DEF Heartbeat, HeartbeatFails, row
    <3>7. QED
      BY <2>2, <3>1, <3>2, <3>3, <3>4, <3>5, <3>6 DEF WorkerStep
  <2>3. ASSUME NEW w \in Workers, ProcessStep(w) PROVE A(i)
    BY <2>1, <2>3 DEF ProcessStep, RequeueExpired, ApiBegin, Crash, Shutdown, Stop, row
  <2>4. ASSUME NEW j \in Jobs, Enqueue(j) \/ LeaseLapse(j) PROVE A(i)
    BY <2>4, <2>0 DEF Enqueue, LeaseLapse
  <2>5. UNCHANGED vars \/ RecoverAll => A(i)
    BY <2>1 DEF vars, RecoverAll
  <2>6. QED
    BY <2>2, <2>3, <2>4, <2>5 DEF Next
<1>2. (\A j \in Jobs : A(j)) =>
        \A j \in Jobs :
          status[j] # "dead_letter" /\ status'[j] = "dead_letter" =>
            \/ attempts[j] = MaxAttempts
            \/ \E w \in Workers : owner[j] = w /\ phase[w][j] = "fatal"
  OBVIOUS
<1>3. QED
  BY <1>1, <1>2, IInvHolds, PTL DEF Spec, DeadLetterJustified

-----------------------------------------------------------------------------
(* A worker that lost its lease cannot settle the job under its new owner. *)
THEOREM OnlyOwnerSettles == Spec => SettledByOwner
<1> DEFINE A(j) ==
      status[j] \in Held /\ status'[j] \notin Held =>
        \/ lease[j] = "lapsed" /\ status'[j] # "completed"
        \/ \E w \in Workers :
             /\ owner[j] = w
             /\ phase[w][j] \in {"ok", "err", "fatal"}
             /\ status'[j] = "completed" => phase[w][j] = "ok"
<1>1. IInv /\ [Next]_vars => \A j \in Jobs : A(j)
  <2> SUFFICES ASSUME IInv, [Next]_vars, NEW i \in Jobs PROVE A(i)
    OBVIOUS
  <2>0. status \in [Jobs -> Statuses]
    BY DEF IInv, TypeOK
  <2>1. SweepExpired => A(i)
    BY DEF SweepExpired, Expired, AfterFailure
  <2>2. ASSUME NEW w \in Workers, NEW j \in Jobs, WorkerStep(w, j) PROVE A(i)
    <3>1. ASSUME NEW o \in Outcomes, Claim(w, j, o) PROVE A(i)
      BY <3>1, <2>0 DEF Claim, Held, Claimable
    <3>2. ASSUME NEW o \in Outcomes, Start(w, j, o) PROVE A(i)
      BY <3>2, <2>0 DEF Start, Held
    <3>3. ASSUME NEW o \in Outcomes, Finish(w, j, o) PROVE A(i)
      BY <3>3, <2>0 DEF Finish, EndedWell, OwnRow, Complete, Held
    <3>4. ASSUME NEW o \in Outcomes, Fail(w, j, o) PROVE A(i)
      BY <3>4, <2>0 DEF Fail, OwnRow, AfterFailure, Held
    <3>5. (\E v \in {"ok", "err", "fatal"} : Return(w, j, v)) => A(i)
      BY DEF Return, row
    <3>6. Heartbeat(w, j) \/ HeartbeatFails(w, j) => A(i)
      BY DEF Heartbeat, HeartbeatFails, row
    <3>7. QED
      BY <2>2, <3>1, <3>2, <3>3, <3>4, <3>5, <3>6 DEF WorkerStep
  <2>3. ASSUME NEW w \in Workers, ProcessStep(w) PROVE A(i)
    BY <2>1, <2>3 DEF ProcessStep, RequeueExpired, ApiBegin, Crash, Shutdown, Stop, row
  <2>4. ASSUME NEW j \in Jobs, Enqueue(j) \/ LeaseLapse(j) PROVE A(i)
    BY <2>4, <2>0 DEF Enqueue, LeaseLapse, Held
  <2>5. UNCHANGED vars \/ RecoverAll => A(i)
    BY <2>1 DEF vars, RecoverAll
  <2>6. QED
    BY <2>2, <2>3, <2>4, <2>5 DEF Next
<1>2. QED
  BY <1>1, IInvHolds, PTL DEF Spec, SettledByOwner

-----------------------------------------------------------------------------
(* With punctual workers, whoever is processing a job owns its row, and the
   row's lease has not lapsed: nobody else can claim it meanwhile. *)
ExecutorOwns ==
  \A w \in Workers, j \in Jobs :
    phase[w][j] # "idle" =>
      phase[w][j] # "mute" /\ owner[j] = w /\ lease[j] # "lapsed"
NeverDraining == \A w \in Workers : mode[w] # "draining"
PInv == ExecutorOwns /\ NeverDraining

LEMMA PunctualWorkerStep ==
  ASSUME Punctual, IInv, PInv, NEW w \in Workers, NEW j \in Jobs, WorkerStep(w, j)
  PROVE  PInv'
<1> USE WorkersAssumption
<1> USE DEF PInv, ExecutorOwns, NeverDraining, IInv, TypeOK, SetPhase
<1>1. ASSUME NEW o \in Outcomes, Claim(w, j, o) PROVE PInv'
  BY <1>1 DEF Claim, LeaseConsistent, Workers
<1>2. ASSUME NEW o \in Outcomes, Start(w, j, o) PROVE PInv'
  BY <1>2 DEF Start, StartPhase
<1>3. ASSUME NEW v \in {"ok", "err", "fatal"}, Return(w, j, v) PROVE PInv'
  BY <1>3 DEF Return, row
<1>4. ASSUME NEW o \in Outcomes, Finish(w, j, o) PROVE PInv'
  BY <1>4 DEF Finish, EndedWell, OwnRow, Complete
<1>5. ASSUME NEW o \in Outcomes, Fail(w, j, o) PROVE PInv'
  BY <1>5 DEF Fail, OwnRow, AfterFailure
<1>6. CASE Heartbeat(w, j)
  BY <1>6 DEF Heartbeat
<1>7. ~HeartbeatFails(w, j)
  BY DEF HeartbeatFails, Punctual
<1>8. QED
  BY <1>1, <1>2, <1>3, <1>4, <1>5, <1>6, <1>7 DEF WorkerStep

LEMMA PunctualPInv == ASSUME Punctual PROVE Spec => []PInv
<1>1. Init => PInv
  BY DEF Init, PInv, ExecutorOwns, NeverDraining
<1>2. IInv /\ PInv /\ [Next]_vars => PInv'
  <2> SUFFICES ASSUME IInv, PInv, [Next]_vars PROVE PInv'
    OBVIOUS
  <2>1. SweepExpired => PInv'
    BY DEF PInv, ExecutorOwns, NeverDraining, SweepExpired, Expired
  <2>2. ASSUME NEW w \in Workers, ProcessStep(w) PROVE PInv'
    <3>1. ~Shutdown(w) /\ ~Stop(w)
      BY DEF Shutdown, Stop, Punctual, PInv, NeverDraining
    <3>2. CASE RequeueExpired(w)
      BY <2>1, <3>2 DEF RequeueExpired
    <3>3. CASE ApiBegin(w)
      BY <3>3 DEF ApiBegin, StartPhase, PInv, ExecutorOwns, NeverDraining, IInv, TypeOK, row
    <3>4. CASE Crash(w)
      BY <3>4 DEF Crash, PInv, ExecutorOwns, NeverDraining, IInv, TypeOK, row
    <3>5. QED
      BY <2>2, <3>1, <3>2, <3>3, <3>4 DEF ProcessStep
  <2>3. ASSUME NEW j \in Jobs, Enqueue(j) PROVE PInv'
    BY <2>3 DEF Enqueue, PInv, ExecutorOwns, NeverDraining
  <2>4. ASSUME NEW j \in Jobs, LeaseLapse(j) PROVE PInv'
    <3>1. ~Attended(j)
      BY <2>4 DEF LeaseLapse, Punctual
    <3>2. \A w \in Workers : phase[w][j] = "idle"
      BY <3>1 DEF Attended, PInv, ExecutorOwns, IInv, TypeOK, Phases
    <3>3. QED
      BY <2>4, <3>2 DEF LeaseLapse, PInv, ExecutorOwns, NeverDraining, IInv, TypeOK
  <2>5. UNCHANGED vars \/ RecoverAll => PInv'
    BY <2>1 DEF vars, RecoverAll, PInv, ExecutorOwns, NeverDraining
  <2>6. QED
    BY <2>2, <2>3, <2>4, <2>5, PunctualWorkerStep DEF Next
<1>3. QED
  BY <1>1, <1>2, IInvHolds, PTL DEF Spec

(* Punctual workers never process one job twice at the same time, crashes
   and restarts included. *)
THEOREM ExclusiveExecution == ASSUME Punctual PROVE Spec => []AtMostOneExecutor
<1>1. PInv => AtMostOneExecutor
  BY DEF PInv, ExecutorOwns, AtMostOneExecutor
<1>2. QED
  BY <1>1, PunctualPInv, PTL

-----------------------------------------------------------------------------
(* Without lost replies, a worker that is processing a job and owns its row
   finds the row still held. *)
OwnedIsHeld ==
  \A w \in Workers, j \in Jobs :
    phase[w][j] # "idle" /\ owner[j] = w => status[j] \in Held

LEMMA NoLossOwnedIsHeld == ASSUME "lost" \notin Faults PROVE Spec => []OwnedIsHeld
<1>1. Init => OwnedIsHeld
  BY DEF Init, OwnedIsHeld
<1>2. IInv /\ OwnedIsHeld /\ [Next]_vars => OwnedIsHeld'
  <2> SUFFICES ASSUME IInv, OwnedIsHeld, [Next]_vars PROVE OwnedIsHeld'
    OBVIOUS
  <2> USE WorkersAssumption
  <2>1. SweepExpired => OwnedIsHeld'
    BY DEF OwnedIsHeld, SweepExpired, Expired, AfterFailure, Workers
  <2>2. ASSUME NEW w \in Workers, NEW j \in Jobs, WorkerStep(w, j) PROVE OwnedIsHeld'
    <3> USE DEF OwnedIsHeld, IInv, TypeOK, SetPhase
    <3>0. \A o \in Outcomes : o \in {"reply", "error"}
      BY DEF Outcomes
    <3>1. ASSUME NEW o \in Outcomes, Claim(w, j, o) PROVE OwnedIsHeld'
      BY <3>1 DEF Claim, Held
    <3>2. ASSUME NEW o \in Outcomes, Start(w, j, o) PROVE OwnedIsHeld'
      BY <3>2 DEF Start, StartPhase, Held
    <3>3. ASSUME NEW v \in {"ok", "err", "fatal"}, Return(w, j, v) PROVE OwnedIsHeld'
      BY <3>3 DEF Return, row
    <3>4. ASSUME NEW o \in Outcomes, Finish(w, j, o) PROVE OwnedIsHeld'
      BY <3>4, <3>0 DEF Finish, EndedWell, OwnRow, Complete, Commits
    <3>5. ASSUME NEW o \in Outcomes, Fail(w, j, o) PROVE OwnedIsHeld'
      BY <3>5 DEF Fail, OwnRow, AfterFailure, Workers
    <3>6. ASSUME Heartbeat(w, j) \/ HeartbeatFails(w, j) PROVE OwnedIsHeld'
      BY <3>6 DEF Heartbeat, HeartbeatFails, row
    <3>7. QED
      BY <2>2, <3>1, <3>2, <3>3, <3>4, <3>5, <3>6 DEF WorkerStep
  <2>3. ASSUME NEW w \in Workers, ProcessStep(w) PROVE OwnedIsHeld'
    BY <2>1, <2>3 DEF ProcessStep, RequeueExpired, ApiBegin, StartPhase, Crash, Shutdown,
                      Stop, row, OwnedIsHeld, IInv, TypeOK
  <2>4. ASSUME NEW j \in Jobs, Enqueue(j) \/ LeaseLapse(j) PROVE OwnedIsHeld'
    BY <2>4 DEF Enqueue, LeaseLapse, OwnedIsHeld, IInv, TypeOK, LeaseConsistent, Held, Workers
  <2>5. UNCHANGED vars \/ RecoverAll => OwnedIsHeld'
    BY <2>1 DEF vars, RecoverAll, OwnedIsHeld
  <2>6. QED
    BY <2>2, <2>3, <2>4, <2>5 DEF Next
<1>3. QED
  BY <1>1, <1>2, IInvHolds, PTL DEF Spec

(* Without lost replies no step ever takes a job out of completed or
   dead_letter. *)
THEOREM SettledForGood == ASSUME "lost" \notin Faults PROVE Spec => TerminalIsFinal
<1> DEFINE F(j) == status[j] \in Terminal => status'[j] = status[j]
<1>1. IInv /\ OwnedIsHeld /\ [Next]_vars => \A j \in Jobs : F(j)
  <2> SUFFICES ASSUME IInv, OwnedIsHeld, [Next]_vars, NEW i \in Jobs PROVE F(i)
    OBVIOUS
  <2> USE DEF Terminal, Held, Claimable
  <2>1. SweepExpired => F(i)
    BY DEF SweepExpired, Expired, AfterFailure
  <2>2. ASSUME NEW w \in Workers, NEW j \in Jobs, WorkerStep(w, j) PROVE F(i)
    <3> USE DEF IInv, TypeOK, OwnedIsHeld
    <3>1. (\E o \in Outcomes : Claim(w, j, o) \/ Start(w, j, o)) => F(i)
      BY DEF Claim, Start
    <3>2. (\E o \in Outcomes : Finish(w, j, o) \/ Fail(w, j, o)) => F(i)
      BY DEF Finish, EndedWell, OwnRow, Complete, Fail, OwnRow, AfterFailure
    <3>3. (\E v \in {"ok", "err", "fatal"} : Return(w, j, v)) => F(i)
      BY DEF Return, row
    <3>4. Heartbeat(w, j) \/ HeartbeatFails(w, j) => F(i)
      BY DEF Heartbeat, HeartbeatFails, row
    <3>5. QED
      BY <2>2, <3>1, <3>2, <3>3, <3>4 DEF WorkerStep
  <2>3. ASSUME NEW w \in Workers, ProcessStep(w) PROVE F(i)
    BY <2>1, <2>3 DEF ProcessStep, RequeueExpired, ApiBegin, Crash, Shutdown, Stop, row
  <2>4. ASSUME NEW j \in Jobs, Enqueue(j) \/ LeaseLapse(j) PROVE F(i)
    BY <2>4 DEF Enqueue, LeaseLapse, IInv, TypeOK
  <2>5. UNCHANGED vars \/ RecoverAll => F(i)
    BY <2>1 DEF vars, RecoverAll
  <2>6. QED
    BY <2>2, <2>3, <2>4, <2>5 DEF Next
<1>2. QED
  BY <1>1, IInvHolds, NoLossOwnedIsHeld, PTL DEF Spec, TerminalIsFinal

-----------------------------------------------------------------------------
(* The refinement.  A step that changes no row's status, holder or attempts
   is a stuttering step of the lease discipline. *)
stageBar == [j \in Jobs |-> StageOf(status[j])]
holderBar == [j \in Jobs |-> IF status[j] \in Held THEN owner[j] ELSE NoWorker]

LEMMA StageValues ==
  /\ StageOf("absent") = "new"
  /\ StageOf("queued") = "waiting" /\ StageOf("retry") = "waiting"
  /\ StageOf("leased") = "held" /\ StageOf("running") = "held"
  /\ StageOf("completed") = "done" /\ StageOf("dead_letter") = "dead"
  BY DEF StageOf, Claimable, Held

LEMMA AbstractStutter ==
  ASSUME stageBar' = stageBar, holderBar' = holderBar, attempts' = attempts
  PROVE  UNCHANGED Abstract!lvars
  BY DEF Abstract!lvars, stageBar, holderBar

LEMMA TakeBackIsStep ==
  ASSUME NEW S \in SUBSET Jobs, Abstract!TakeBack(S) PROVE Abstract!LNext
  BY DEF Abstract!LNext

LEMMA EndIsStep ==
  ASSUME NEW w \in Workers, NEW j \in Jobs, NEW s \in {"waiting", "done", "dead"},
         Abstract!End(w, j, s)
  PROVE  Abstract!LNext
  BY DEF Abstract!LNext, Workers

LEMMA SweepRefines == ASSUME IInv, SweepExpired PROVE Abstract!LNext
<1>0. PICK S \in SUBSET Jobs :
        S = {j \in Jobs : status[j] \in Held /\ lease[j] = "lapsed"}
  OBVIOUS
<1>1. \A j \in S : stageBar[j] = "held"
  BY <1>0, StageValues DEF stageBar, Held
<1>2. stageBar' = [j \in Jobs |->
        IF j \notin S THEN stageBar[j]
        ELSE IF attempts[j] < MaxAttempts THEN "waiting" ELSE "dead"]
  BY <1>0, StageValues DEF SweepExpired, Expired, AfterFailure, stageBar
<1>3. holderBar' = [j \in Jobs |-> IF j \in S THEN NoWorker ELSE holderBar[j]]
  BY <1>0 DEF SweepExpired, Expired, AfterFailure, holderBar, Held
<1>4. Abstract!TakeBack(S)
  BY <1>1, <1>2, <1>3 DEF Abstract!TakeBack, stageBar, holderBar, SweepExpired
<1>5. QED
  BY <1>4, TakeBackIsStep

LEMMA WorkerRefines ==
  ASSUME "lost" \notin Faults, IInv, OwnedIsHeld,
         NEW w \in Workers, NEW j \in Jobs, WorkerStep(w, j)
  PROVE  [Abstract!LNext]_(Abstract!lvars)
<1> USE DEF IInv, TypeOK
<1>0. w \in AsyncWorkers \cup ApiWorkers
  BY DEF Workers
<1>1. ASSUME NEW o \in Outcomes, Claim(w, j, o) PROVE Abstract!LNext
  <2>1. stageBar[j] = "waiting" /\ attempts[j] < MaxAttempts
    BY <1>1, StageValues DEF Claim, Claimable, WaitingHasBudget, stageBar
  <2>2. stageBar' = [stageBar EXCEPT ![j] = "held"]
    BY <1>1, StageValues DEF Claim, stageBar
  <2>3. holderBar' = [holderBar EXCEPT ![j] = w]
    BY <1>1 DEF Claim, holderBar, Held
  <2>4. Abstract!Take(w, j)
    BY <1>1, <2>1, <2>2, <2>3 DEF Claim, NextAttempt, Abstract!Take, stageBar, holderBar
  <2>5. QED
    BY <2>4, <1>0 DEF Abstract!LNext
<1>2. ASSUME NEW o \in Outcomes, Start(w, j, o) PROVE UNCHANGED Abstract!lvars
  <2>1. stageBar' = stageBar
    BY <1>2, StageValues DEF Start, stageBar
  <2>2. holderBar' = holderBar
    BY <1>2 DEF Start, holderBar, Held
  <2>3. QED
    BY <1>2, <2>1, <2>2, AbstractStutter DEF Start
<1>3. ASSUME NEW v \in {"ok", "err", "fatal"}, Return(w, j, v)
      PROVE UNCHANGED Abstract!lvars
  BY <1>3, AbstractStutter DEF Return, row, stageBar, holderBar
<1>4. ASSUME NEW o \in Outcomes, Finish(w, j, o) PROVE [Abstract!LNext]_(Abstract!lvars)
  <2>1. CASE OwnRow(w, j) /\ Commits(o)
    <3>1. status[j] \in Held
      BY <1>4, <2>1 DEF Finish, EndedWell, OwnRow, Complete, OwnedIsHeld
    <3>2. stageBar[j] = "held" /\ holderBar[j] = w
      BY <2>1, <3>1, StageValues DEF OwnRow, stageBar, holderBar, Held
    <3>3. stageBar' = [stageBar EXCEPT ![j] = "done"]
      BY <1>4, <2>1, StageValues DEF Finish, EndedWell, OwnRow, Complete, stageBar
    <3>4. holderBar' = [holderBar EXCEPT ![j] = NoWorker]
      BY <1>4, <2>1 DEF Finish, EndedWell, OwnRow, Complete, holderBar, Held
    <3>5. Abstract!End(w, j, "done")
      BY <1>4, <3>2, <3>3, <3>4 DEF Finish, Abstract!End, stageBar, holderBar
    <3>6. QED
      BY <3>5, <1>0 DEF Abstract!LNext
  <2>2. CASE ~(OwnRow(w, j) /\ Commits(o))
    BY <1>4, <2>2, AbstractStutter DEF Finish, EndedWell, OwnRow, Complete, stageBar, holderBar
  <2>3. QED
    BY <2>1, <2>2
<1>5. ASSUME NEW o \in Outcomes, Fail(w, j, o) PROVE [Abstract!LNext]_(Abstract!lvars)
  <2>1. CASE OwnRow(w, j) /\ Commits(o)
    <3>0. PICK t \in {"waiting", "done", "dead"} :
            t = IF phase[w][j] = "err" /\ attempts[j] < MaxAttempts
                THEN "waiting" ELSE "dead"
      OBVIOUS
    <3>1. status[j] \in Held
      BY <1>5, <2>1 DEF Fail, OwnRow, AfterFailure, OwnedIsHeld
    <3>2. stageBar[j] = "held" /\ holderBar[j] = w
      BY <2>1, <3>1, StageValues DEF OwnRow, stageBar, holderBar, Held
    <3>3. stageBar' = [stageBar EXCEPT ![j] = t]
      BY <1>5, <2>1, <3>0, StageValues DEF Fail, OwnRow, AfterFailure, stageBar
    <3>4. holderBar' = [holderBar EXCEPT ![j] = NoWorker]
      BY <1>5, <2>1 DEF Fail, OwnRow, AfterFailure, holderBar, Held
    <3>5. Abstract!End(w, j, t)
      BY <1>5, <3>0, <3>2, <3>3, <3>4 DEF Fail, Abstract!End, stageBar, holderBar
    <3>6. QED
      BY <3>5, EndIsStep
  <2>2. CASE ~(OwnRow(w, j) /\ Commits(o))
    BY <1>5, <2>2, AbstractStutter DEF Fail, OwnRow, AfterFailure, stageBar, holderBar
  <2>3. QED
    BY <2>1, <2>2
<1>6. ASSUME Heartbeat(w, j) \/ HeartbeatFails(w, j) PROVE UNCHANGED Abstract!lvars
  BY <1>6, AbstractStutter DEF Heartbeat, HeartbeatFails, row, stageBar, holderBar
<1>7. QED
  BY <1>1, <1>2, <1>3, <1>4, <1>5, <1>6 DEF WorkerStep

(* Every behaviour without lost replies is a behaviour of the lease
   discipline: one holder at a time, a bounded number of tries, only the
   holder ends the job, and an ended job never starts again. *)
THEOREM QueueImplementsLease == ASSUME "lost" \notin Faults PROVE Spec => ImplementsLease
<1>1. Init => Abstract!LInit
  BY StageValues DEF Init, Abstract!LInit, Held
<1>2. IInv /\ OwnedIsHeld /\ [Next]_vars => [Abstract!LNext]_(Abstract!lvars)
  <2> SUFFICES ASSUME IInv, OwnedIsHeld, [Next]_vars
               PROVE [Abstract!LNext]_(Abstract!lvars)
    OBVIOUS
  <2>1. ASSUME NEW j \in Jobs, Enqueue(j) PROVE Abstract!LNext
    <3>1. stageBar[j] = "new" /\ stageBar' = [stageBar EXCEPT ![j] = "waiting"]
      BY <2>1, StageValues DEF Enqueue, stageBar, IInv, TypeOK
    <3>2. holderBar' = holderBar
      BY <2>1 DEF Enqueue, holderBar, Held, IInv, TypeOK
    <3>3. Abstract!Offer(j)
      BY <2>1, <3>1, <3>2 DEF Enqueue, Abstract!Offer, stageBar, holderBar
    <3>4. QED
      BY <3>3 DEF Abstract!LNext
  <2>2. ASSUME NEW j \in Jobs, LeaseLapse(j) PROVE UNCHANGED Abstract!lvars
    BY <2>2, AbstractStutter DEF LeaseLapse, stageBar, holderBar
  <2>3. ASSUME NEW w \in Workers, ProcessStep(w)
        PROVE [Abstract!LNext]_(Abstract!lvars)
    <3>1. CASE RequeueExpired(w)
      BY <3>1, SweepRefines DEF RequeueExpired
    <3>2. CASE ApiBegin(w) \/ Crash(w) \/ Shutdown(w) \/ Stop(w)
      BY <3>2, AbstractStutter DEF ApiBegin, Crash, Shutdown, Stop, row, stageBar, holderBar
    <3>3. QED
      BY <2>3, <3>1, <3>2 DEF ProcessStep
  <2>4. CASE RecoverAll
    BY <2>4, SweepRefines DEF RecoverAll
  <2>5. CASE UNCHANGED vars
    BY <2>5, AbstractStutter DEF vars, stageBar, holderBar
  <2>6. QED
    BY <2>1, <2>2, <2>3, <2>4, <2>5, WorkerRefines DEF Next
<1>3. QED
  BY <1>1, <1>2, IInvHolds, NoLossOwnedIsHeld, PTL DEF Spec, ImplementsLease, Abstract!LSpec
=============================================================================
