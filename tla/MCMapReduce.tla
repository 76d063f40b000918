---------------------------- MODULE MCMapReduce -----------------------------
(* An instance of MapReduce for TLC. *)
EXTENDS MapReduce, TLC

CONSTANTS s1, s2, p1, p2

(* One split has records for one partition and the other for both; both    *)
(* have records for one partition; and no split has any.                   *)
Uneven == (s1 :> {p1}) @@ (s2 :> {p1, p2})
Narrow == [s \in Split |-> {p1}]
Silent == [s \in Split |-> {}]

SmallScenarios ==
    { [emits |-> Uneven, faults |-> 1, backups |-> 0],
      [emits |-> Narrow, faults |-> 1, backups |-> 1],
      [emits |-> Silent, faults |-> 2, backups |-> 0] }
=============================================================================
