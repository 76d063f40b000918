---------------------------- MODULE MCDocStore ----------------------------
(* Instances of DocStore for TLC.                                          *)
EXTENDS DocStore, TLC

CONSTANTS d1, d2, s1, s2, p1, p2, c1, c2

Symmetry == Permutations({d1, d2}) \cup Permutations({p1, p2})
            \cup Permutations({c1, c2}) \cup Permutations(Set)

Nothing(c) == [claimant |-> c, inserts |-> {}, changes |-> {}, deletes |-> {},
               depends |-> {}, setDepends |-> {}, arrives |-> {}]

Puts == [id : DocId, set : Set, place : Place, by : {0}]
Versions == 0 .. MaxVersion

(* One doc inserted, changed or deleted, or one set renewed or released. *)
Single ==
    UNION {{[Nothing(c) EXCEPT !.inserts = {o}] : o \in [id : DocId, set : Set, place : Place, by : {0, 1}]}
           \cup {[Nothing(c) EXCEPT !.changes = {o}] : o \in [id : DocId, version : Versions, by : {0, 1}]}
           \cup {[Nothing(c) EXCEPT !.deletes = {o}] : o \in [id : DocId, version : Versions]}
           \cup {[Nothing(c) EXCEPT !.arrives = {o}] : o \in [set : Set, version : Versions, by : {0, 1}]}
           : c \in Claimant}

(* Two docs at once: two inserts, one doc replaced by another, which is    *)
(* named by its set's version, or an insert that depends on another doc.   *)
Double ==
    {mod \in UNION {{[Nothing(c) EXCEPT !.inserts = {o, p}] : o, p \in Puts}
                    \cup {[Nothing(c) EXCEPT !.inserts = {o}, !.deletes = {[id |-> i, version |-> 0]},
                                             !.setDepends = {[set |-> g, version |-> v]}]
                          : o \in Puts, i \in DocId, g \in Set, v \in Versions}
                    \cup {[Nothing(c) EXCEPT !.inserts = {o}, !.depends = {[id |-> i, version |-> v]}]
                          : o \in Puts, i \in DocId, v \in Versions}
                    : c \in Claimant} : ValidDocs(mod)}

SingleAndDouble == Single \cup Double

(* One client, inserting and deleting. *)
Plain == {mod \in Single : mod.changes = {} /\ mod.arrives = {} /\ \A o \in mod.inserts : o.by = 0}
=============================================================================
