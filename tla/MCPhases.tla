------------------------------ MODULE MCPhases ------------------------------
(* Phases on small instances. *)
EXTENDS Phases

(* Plans of the planner: the infrastructure package in a wave that exists, as
   the prompt asks for, before or behind another package; in one that does
   not, with two packages, one of them of role repair, or alone. *)
Pkg(key, placed) == [key |-> key, infra |-> FALSE, repair |-> FALSE, placed |-> placed]
Infra(placed) == [Pkg("infrastructure_setup", placed) EXCEPT !.infra = TRUE]
Repair(key) == [Pkg(key, TRUE) EXCEPT !.repair = TRUE]

MCPlanOf == [
  default |-> <<Infra(TRUE), Pkg("backend", TRUE), Pkg("tests", TRUE)>>,
  behind  |-> <<Pkg("backend", TRUE), Infra(TRUE)>>,
  stored  |-> <<Infra(FALSE), Pkg("backend", TRUE), Pkg("tests", TRUE)>>,
  repair  |-> <<Infra(FALSE), Pkg("backend", TRUE), Repair("fixes")>>,
  nothing |-> <<Infra(FALSE)>>]

MCNewIds == <<"row1", "row2", "row3", "row4">>
=============================================================================
