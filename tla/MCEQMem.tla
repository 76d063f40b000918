------------------------------ MODULE MCEQMem ------------------------------
(* Instances of EQMem for TLC.                                             *)
EXTENDS EQMem, MCRequests, TLC

Symmetry == Permutations(Call) \cup Permutations(Struct) \cup Permutations(Claimant)
=============================================================================
