----------------------------- MODULE MCHandoff -----------------------------
(* An instance of Handoff for TLC.                                         *)
EXTENDS Handoff

(* The tasks that wait for the workers; requests are the workers' own.     *)
Waiting == {[i \in Id |-> [queue |-> Inbox, version |-> 0, at |-> 0,
                           claimant |-> NoOne, claims |-> 0]]}
=============================================================================
