------------------------------ MODULE MCRecords ------------------------------
(* Records on small instances. *)
EXTENDS Records

MCWaves == <<"wave_1", "wave_2">>
=============================================================================
