------------------------------- MODULE MCSubQ -------------------------------
(* An instance of SubQ for TLC.                                            *)
EXTENDS SubQ, TLC

CONSTANTS w1, w2, w3

(* One claim of both queues beside one of the first; three of one queue. *)
SmallPlans == {(w1 :> {1, 2}) @@ (w2 :> {1}) @@ (w3 :> {}), [w \in Waiter |-> {1}]}
=============================================================================
