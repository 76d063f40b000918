---------------------------- MODULE MCQueueLocks ----------------------------
(* Instances of QueueLocks for TLC.                                        *)
EXTENDS QueueLocks, TLC

Symmetry == Permutations(Call) \cup Permutations(Struct)
=============================================================================
