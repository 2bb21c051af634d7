----------------------------- MODULE MCJobQueue -----------------------------
(* Instances of JobQueue for TLC. *)
EXTENDS JobQueue

CONSTANTS w1, w2, a1, a2, none

OneRole == [j \in Jobs |-> "backend"]
TwoRoles == [j \in Jobs |-> IF j = 1 THEN "backend" ELSE "frontend"]
(* An AsyncWorker polls a single role, the API worker all of them. *)
ServeAll == [w \in AsyncWorkers \cup ApiWorkers |->
  IF w \in ApiWorkers THEN {"backend", "frontend"} ELSE {"backend"}]
=============================================================================
