------------------------------ MODULE JobLease ------------------------------
(***************************************************************************)
(* What the job queue promises, without rows, phases or clocks: a job is   *)
(* handed to one worker at a time, at most MaxAttempts times; only the     *)
(* worker that holds it ends it, except that a lease can be taken back;    *)
(* and what has ended never starts again.                                  *)
(***************************************************************************)
EXTENDS Naturals

CONSTANTS Jobs, Workers, NoWorker, MaxAttempts

VARIABLES
  stage,   \* where each job is
  holder,  \* the worker that holds it
  tries    \* how often it was handed out

lvars == <<stage, holder, tries>>

LInit ==
  /\ stage = [j \in Jobs |-> "new"]
  /\ holder = [j \in Jobs |-> NoWorker]
  /\ tries = [j \in Jobs |-> 0]

Offer(j) ==
  /\ stage[j] = "new"
  /\ stage' = [stage EXCEPT ![j] = "waiting"]
  /\ UNCHANGED <<holder, tries>>

Take(w, j) ==
  /\ stage[j] = "waiting"
  /\ tries[j] < MaxAttempts
  /\ stage' = [stage EXCEPT ![j] = "held"]
  /\ holder' = [holder EXCEPT ![j] = w]
  /\ tries' = [tries EXCEPT ![j] = @ + 1]

(* The holder ends the job: done, given up, or back for another try. *)
End(w, j, s) ==
  /\ stage[j] = "held"
  /\ holder[j] = w
  /\ s = "waiting" => tries[j] < MaxAttempts
  /\ stage' = [stage EXCEPT ![j] = s]
  /\ holder' = [holder EXCEPT ![j] = NoWorker]
  /\ UNCHANGED tries

(* The leases of a set of held jobs are taken back at once. *)
TakeBack(S) ==
  /\ \A j \in S : stage[j] = "held"
  /\ stage' = [j \in Jobs |->
       IF j \notin S THEN stage[j]
       ELSE IF tries[j] < MaxAttempts THEN "waiting" ELSE "dead"]
  /\ holder' = [j \in Jobs |-> IF j \in S THEN NoWorker ELSE holder[j]]
  /\ UNCHANGED tries

LNext ==
  \/ \E j \in Jobs : Offer(j)
  \/ \E w \in Workers, j \in Jobs : Take(w, j)
  \/ \E w \in Workers, j \in Jobs, s \in {"waiting", "done", "dead"} : End(w, j, s)
  \/ \E S \in SUBSET Jobs : TakeBack(S)

LSpec == LInit /\ [][LNext]_lvars
=============================================================================
