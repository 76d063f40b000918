------------------------------ MODULE MCEQLink ------------------------------
(* An instance of EQLink for TLC.                                          *)
EXTENDS EQLink

(* A request of two segments, and a response of a status and two more.     *)
Bodies == [l \in Lane |-> IF l = "request" THEN 2 ELSE 3]
=============================================================================
