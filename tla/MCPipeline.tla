----------------------------- MODULE MCPipeline -----------------------------
(* Small instances of Pipeline: package b depends on a in the first wave, and
   c is alone in the second.  The rows a1, b1, c1 are of the first execution of
   planning, a2, b2, c2 of the second. *)
EXTENDS Pipeline

CONSTANTS op, k1, k2

CopyOf == [i \in Ids |->
  CASE i \in {"a1", "a2"} -> "a" [] i \in {"b1", "b2"} -> "b" [] OTHER -> "c"]
StoredBy == [i \in Ids |-> IF i \in {"a1", "b1", "c1"} THEN 1 ELSE 2]
Waves == [p \in Packages |-> IF p = "c" THEN 2 ELSE 1]
Deps == [p \in Packages |-> IF p = "b" THEN {"a"} ELSE {}]
NoDeps == [p \in Packages |-> {}]
Types == [p \in Packages |-> IF p = "b" THEN "test_generation" ELSE "code_generation"]
=============================================================================
