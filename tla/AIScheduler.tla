---------------------------- MODULE AIScheduler ----------------------------
(***************************************************************************)
(* LLM calls on their way to the provider: AsyncAIScheduler (scheduler.py) *)
(* with its three semaphores, the ProviderCircuitBreaker (resilience.py)   *)
(* and the pool of AI slots shared by all processes through PostgreSQL     *)
(* (store_pg.py, table ai_slots).                                          *)
(*                                                                         *)
(* Semaphores and breaker belong to a process, slots to everybody.  The    *)
(* provider is a property of the LLM configuration, so there is one.  A    *)
(* permit is held exactly while the task is inside the `async with` block, *)
(* so the holders of a semaphore are read off pc.                          *)
(***************************************************************************)
EXTENDS Naturals, FiniteSets

CONSTANTS
  Processes,     \* processes with an event loop, a breaker and semaphores
  Calls,         \* invocations of AsyncAIScheduler.call
  ProcessOf,     \* process in which each call is made
  RunOf,         \* run each call works for
  GlobalLimit,   \* global_concurrency
  ProviderLimit, \* provider_concurrency
  RunLimit,      \* run_concurrency
  MaxRetries,    \* scheduler_max_retries
  Threshold,     \* failure_threshold of the breaker
  MaxOverlap,    \* bound: acquiring transactions open at one time
  Faults         \* which faults the environment may inject

FaultKinds == {"crash", "lapse", "error", "lost", "leak"}

ASSUME CallsAssumption ==
  /\ IsFiniteSet(Calls)
  /\ ProcessOf \in [Calls -> Processes]
ASSUME LimitsAssumption ==
  /\ GlobalLimit \in Nat \ {0}
  /\ ProviderLimit \in Nat \ {0}
  /\ RunLimit \in Nat \ {0}
  /\ MaxRetries \in Nat
  /\ Threshold \in Nat \ {0}
  /\ MaxOverlap \in Nat \ {0}
ASSUME FaultsAssumption == Faults \subseteq FaultKinds

VARIABLES
  pc,       \* where each call is
  attempt,  \* attempts already given up by the retry loop
  verdict,  \* how the current attempt ended
  active,   \* slot rows with status 'active' and lease_until not passed
  health,   \* status of the provider in each process's breaker
  streak,   \* failure_streak, counted up to Threshold
  inflight, \* whether the provider is in _half_open_inflight
  probing   \* history: calls let through by an open or half-open breaker
            \* that have not reported yet

vars == <<pc, attempt, verdict, active, health, streak, inflight, probing>>
breaker == <<health, streak, inflight, probing>>

Health == {"healthy", "degraded", "circuit_open", "half_open", "blocked"}

(* The holders of each semaphore, and the calls that own a slot. *)
HasRun == {"calling", "reported", "released"}
HasProvider == {"provider"} \cup HasRun
HasGlobal == {"global"} \cup HasProvider
HasSlot == {"slotted", "global", "provider", "calling", "reported"}
Ended == {"done", "gone"}
Points == {"new", "waiting", "counted", "slotted", "released"}
          \cup HasGlobal \cup Ended

Slots == Calls \X (0..MaxRetries)
SlotOf(c) == <<c, attempt[c]>>

TypeOK ==
  /\ pc \in [Calls -> Points]
  /\ attempt \in [Calls -> 0..MaxRetries]
  /\ verdict \in [Calls -> {"none", "ok", "retryable", "fatal"}]
  /\ active \in SUBSET Slots
  /\ health \in [Processes -> Health]
  /\ streak \in [Processes -> 0..Threshold]
  /\ inflight \in [Processes -> BOOLEAN]
  /\ probing \in SUBSET Calls

Init ==
  /\ pc = [c \in Calls |-> "new"]
  /\ attempt = [c \in Calls |-> 0]
  /\ verdict = [c \in Calls |-> "none"]
  /\ active = {}
  /\ health = [p \in Processes |-> "healthy"]
  /\ streak = [p \in Processes |-> 0]
  /\ inflight = [p \in Processes |-> FALSE]
  /\ probing = {}

-----------------------------------------------------------------------------
(* What the actions are built from. *)

Goto(c, point) == pc' = [pc EXCEPT ![c] = point]
Home(c) == ProcessOf[c]

(* Calls of process p at one of the points, and those of c's run. *)
At(p, points) == {d \in Calls : ProcessOf[d] = p /\ pc[d] \in points}
SameRun(c, points) == {d \in At(Home(c), points) : RunOf[d] = RunOf[c]}

(* The admission test of acquire_ai_slot, after it expired stale rows.
   SlotOvercount is the test with both comparisons off by one. *)
SlotsOfRun(r) == {s \in active : RunOf[s[1]] = r}

SlotOvercount(c) ==
  /\ Cardinality(active) <= ProviderLimit
  /\ Cardinality(SlotsOfRun(RunOf[c])) <= RunLimit
SlotFree(c) ==
  /\ Cardinality(active) < ProviderLimit
  /\ Cardinality(SlotsOfRun(RunOf[c])) < RunLimit

(* record_success: healthy from any state.  ProbeForgotten leaves the
   provider in _half_open_inflight. *)
ProbeForgotten(c) ==
  /\ health' = [health EXCEPT ![Home(c)] = "healthy"]
  /\ streak' = [streak EXCEPT ![Home(c)] = 0]
  /\ UNCHANGED inflight
RecordSuccess(c) ==
  /\ health' = [health EXCEPT ![Home(c)] = "healthy"]
  /\ streak' = [streak EXCEPT ![Home(c)] = 0]
  /\ inflight' = [inflight EXCEPT ![Home(c)] = FALSE]

(* record_failure: a failure that is not retryable blocks the provider, a
   retryable one opens the circuit once the streak reaches the threshold. *)
Longer(n) == IF n < Threshold THEN n + 1 ELSE n

(* OpensLate compares the streak before this failure is added to it. *)
OpensLate(p) == streak[p] >= Threshold
Opens(p) == Longer(streak[p]) >= Threshold

RecordFailure(c, retryable) ==
  LET p == Home(c) IN
  /\ health' = [health EXCEPT ![p] =
       IF ~retryable THEN "blocked"
       ELSE IF Opens(p) THEN "circuit_open" ELSE "degraded"]
  /\ streak' = [streak EXCEPT ![p] = Longer(streak[p])]
  /\ inflight' = [inflight EXCEPT ![p] = FALSE]

-----------------------------------------------------------------------------
(* allow_request. *)

Admit(c) ==
  /\ pc[c] = "new"
  /\ health[Home(c)] \in {"healthy", "degraded"}
  /\ Goto(c, "waiting")
  /\ UNCHANGED <<attempt, verdict, active, breaker>>

(* The first request after circuit_open_until turns the breaker half-open
   and goes through; it is not entered in _half_open_inflight. *)
AdmitOpen(c) ==
  /\ pc[c] = "new"
  /\ health[Home(c)] = "circuit_open"
  /\ health' = [health EXCEPT ![Home(c)] = "half_open"]
  /\ probing' = probing \cup {c}
  /\ Goto(c, "waiting")
  /\ UNCHANGED <<attempt, verdict, active, streak, inflight>>

AdmitHalfOpen(c) ==
  /\ pc[c] = "new"
  /\ health[Home(c)] = "half_open"
  /\ ~inflight[Home(c)]
  /\ inflight' = [inflight EXCEPT ![Home(c)] = TRUE]
  /\ probing' = probing \cup {c}
  /\ Goto(c, "waiting")
  /\ UNCHANGED <<attempt, verdict, active, health, streak>>

(* A rejected call ends: the retry loop returns a circuit_open result.  An
   open circuit rejects until circuit_open_until, which is not tracked. *)
Reject(c) ==
  /\ pc[c] = "new"
  /\ \/ health[Home(c)] \in {"blocked", "circuit_open"}
     \/ health[Home(c)] = "half_open" /\ inflight[Home(c)]
  /\ Goto(c, "done")
  /\ UNCHANGED <<attempt, verdict, active, breaker>>

-----------------------------------------------------------------------------
(* acquire_ai_slot. *)

(* The two COUNTs see what is committed; nothing locks the rows, so
   transactions that overlap may all find the last slot free.  How many do is
   up to the schedule: MaxOverlap names the number, and Cardinality(Calls)
   for it leaves the schedule free. *)
Counted == {c \in Calls : pc[c] = "counted"}

CountSlots(c) ==
  /\ pc[c] = "waiting"
  /\ SlotFree(c)
  /\ Cardinality(Counted) < MaxOverlap
  /\ Goto(c, "counted")
  /\ UNCHANGED <<attempt, verdict, active, breaker>>

InsertSlot(c) ==
  /\ pc[c] = "counted"
  /\ active' = active \cup {SlotOf(c)}
  /\ Goto(c, "slotted")
  /\ UNCHANGED <<attempt, verdict, breaker>>

(* No slot before the deadline, or the store raised, possibly after the
   commit: classify_error calls both "unknown", which is not retryable. *)
SlotFails(c) ==
  /\ \/ pc[c] = "waiting" /\ ~SlotFree(c) /\ UNCHANGED active
     \/ "error" \in Faults /\ pc[c] \in {"waiting", "counted"} /\ UNCHANGED active
     \/ "lost" \in Faults /\ pc[c] = "counted" /\ active' = active \cup {SlotOf(c)}
  /\ RecordFailure(c, FALSE)
  /\ probing' = probing \ {c}
  /\ Goto(c, "done")
  /\ UNCHANGED <<attempt, verdict>>

-----------------------------------------------------------------------------
(* The semaphores, in the order global, provider, run. *)

EnterGlobal(c) ==
  /\ pc[c] = "slotted"
  /\ Cardinality(At(Home(c), HasGlobal)) < GlobalLimit
  /\ Goto(c, "global")
  /\ UNCHANGED <<attempt, verdict, active, breaker>>

EnterProvider(c) ==
  /\ pc[c] = "global"
  /\ Cardinality(At(Home(c), HasProvider)) < ProviderLimit
  /\ Goto(c, "provider")
  /\ UNCHANGED <<attempt, verdict, active, breaker>>

EnterRun(c) ==
  /\ pc[c] = "provider"
  /\ Cardinality(SameRun(c, HasRun)) < RunLimit
  /\ Goto(c, "calling")
  /\ UNCHANGED <<attempt, verdict, active, breaker>>

-----------------------------------------------------------------------------
(* _execute_call and the retry loop. *)

(* AsyncLLMClient.chat returns or raises LLMError; the breaker is told. *)
Respond(c, v) ==
  /\ pc[c] = "calling"
  /\ IF v = "ok" THEN RecordSuccess(c) ELSE RecordFailure(c, v = "retryable")
  /\ verdict' = [verdict EXCEPT ![c] = v]
  /\ probing' = probing \ {c}
  /\ Goto(c, "reported")
  /\ UNCHANGED <<attempt, active>>

(* _safe_release_slot swallows a failing release: the row stays active until
   its lease ends.  FreedOnSuccess forgets the exit through LLMError. *)
FreedOnSuccess(c) == IF verdict[c] = "ok" THEN {SlotOf(c)} ELSE {}
Freed(c) == {SlotOf(c)}

ReleaseSlot(c) ==
  /\ pc[c] = "reported"
  /\ \/ active' = active \ Freed(c)
     \/ "leak" \in Faults /\ UNCHANGED active
  /\ Goto(c, "released")
  /\ UNCHANGED <<attempt, verdict, breaker>>

(* The task leaves the three semaphores; call retries a retryable error.
   SameAttempt does not count its attempts. *)
Retries(c) == verdict[c] = "retryable" /\ attempt[c] < MaxRetries

SameAttempt(c) == attempt[c]
AttemptAfter(c) == attempt[c] + 1

Leave(c) ==
  /\ pc[c] = "released"
  /\ IF Retries(c)
     THEN attempt' = [attempt EXCEPT ![c] = AttemptAfter(c)] /\ Goto(c, "new")
     ELSE UNCHANGED attempt /\ Goto(c, "done")
  /\ verdict' = [verdict EXCEPT ![c] = "none"]
  /\ UNCHANGED <<active, breaker>>

-----------------------------------------------------------------------------
(* The environment. *)

(* POST /providers/{name}/reset. *)
Reset(p) ==
  /\ health[p] # "healthy"
  /\ health' = [health EXCEPT ![p] = "healthy"]
  /\ streak' = [streak EXCEPT ![p] = 0]
  /\ UNCHANGED <<pc, attempt, verdict, active, inflight, probing>>

(* lease_until of a slot passes.  Without the fault "lapse" no call outlives
   its slot: only rows left behind ever get there. *)
Owned(s) == pc[s[1]] \in HasSlot /\ s = SlotOf(s[1])

SlotLapse(s) ==
  /\ s \in active
  /\ "lapse" \in Faults \/ ~Owned(s)
  /\ active' = active \ {s}
  /\ UNCHANGED <<pc, attempt, verdict, breaker>>

Begun(c) == pc[c] \notin Ended /\ (pc[c] = "new" => attempt[c] > 0)

(* A process dies and is started again: its calls are gone, its breaker and
   semaphores are new, its slots stay in the table. *)
Crash(p) ==
  /\ "crash" \in Faults
  /\ pc' = [c \in Calls |->
       IF ProcessOf[c] = p /\ Begun(c) THEN "gone" ELSE pc[c]]
  /\ health' = [health EXCEPT ![p] = "healthy"]
  /\ streak' = [streak EXCEPT ![p] = 0]
  /\ inflight' = [inflight EXCEPT ![p] = FALSE]
  /\ probing' = {c \in probing : ProcessOf[c] # p}
  /\ UNCHANGED <<attempt, verdict, active>>

-----------------------------------------------------------------------------
Verdicts == {"ok", "retryable", "fatal"}

CallStep(c) ==
  \/ Admit(c)
  \/ AdmitOpen(c)
  \/ AdmitHalfOpen(c)
  \/ Reject(c)
  \/ CountSlots(c)
  \/ InsertSlot(c)
  \/ SlotFails(c)
  \/ EnterGlobal(c)
  \/ EnterProvider(c)
  \/ EnterRun(c)
  \/ \E v \in Verdicts : Respond(c, v)
  \/ ReleaseSlot(c)
  \/ Leave(c)

Next ==
  \/ \E c \in Calls : CallStep(c)
  \/ \E p \in Processes : Reset(p) \/ Crash(p)
  \/ \E s \in Slots : SlotLapse(s)

Spec == Init /\ [][Next]_vars

(* The event loop schedules every task that can go on; chat has a timeout
   and slot acquisition a deadline. *)
FairSpec == Spec /\ \A c \in Calls : WF_vars(CallStep(c))

-----------------------------------------------------------------------------
(* Properties. *)

(* How far calls at the provider may exceed provider_concurrency, and those
   of one run run_concurrency, over all processes together and after any
   crashes and failed releases: by one for each acquiring transaction but the
   first of those that may be open at one time, however often they overlap,
   and by the calls that outlived the lease of their slot. *)
Calling == {c \in Calls : pc[c] = "calling"}
CallingOf(r) == {c \in Calling : RunOf[c] = r}
Overdue(calls) == {c \in calls : SlotOf(c) \notin active}

SlotsLimitCalls ==
  /\ Cardinality(Calling)
       <= ProviderLimit + (MaxOverlap - 1) + Cardinality(Overdue(Calling))
  /\ \A c \in Calling :
       Cardinality(CallingOf(RunOf[c]))
         <= RunLimit + (MaxOverlap - 1) + Cardinality(Overdue(CallingOf(RunOf[c])))

(* The slot of an attempt is given back on every path out of it: when
   neither crashes nor failing stores interfere, every active row belongs to
   a call that still needs it. *)
NoSlotLeft == \A s \in active : Owned(s)

(* The breaker's status agrees with its failure streak, whatever order late
   answers, probes and resets come in. *)
StreakMatchesHealth ==
  \A p \in Processes :
    /\ health[p] = "healthy" => streak[p] = 0
    /\ health[p] = "degraded" => streak[p] \in 1..(Threshold - 1)
    /\ health[p] \in {"circuit_open", "half_open"} => streak[p] = Threshold

(* The provider's entry in _half_open_inflight is always backed by a probe
   that has yet to report, so a half-open breaker is never stuck rejecting
   everybody for ever. *)
InflightHasProbe ==
  \A p \in Processes : inflight[p] => \E c \in probing : ProcessOf[c] = p

(* Every call ends, whatever the contention for slots and semaphores. *)
EveryCallEnds == \A c \in Calls : <>(pc[c] \in Ended)

=============================================================================
