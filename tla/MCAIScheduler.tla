--------------------------- MODULE MCAIScheduler ---------------------------
(* Small instances of AIScheduler: calls of three runs, made in the API process
   and in a worker process. *)
EXTENDS AIScheduler

CONSTANTS api, worker, c1, c2, c3, c4, r1, r2, r3

TwoProcesses == [c \in Calls |-> IF c \in {c3, c4} THEN worker ELSE api]
OneProcess == [c \in Calls |-> api]
Runs == [c \in Calls |-> CASE c \in {c1, c3} -> r1 [] c = c2 -> r2 [] OTHER -> r3]

=============================================================================
