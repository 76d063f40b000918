------------------------------ MODULE DocSets ------------------------------
(***************************************************************************)
(* The rules of doc sets that every backend shares (pkg/backend/internal/  *)
(* docset): when a claim or a modification of docs is refused, and the     *)
(* lock each set it writes is left with.                                   *)
(*                                                                         *)
(* A doc set is the docs of one primary key; its lock carries the only     *)
(* version, claimant and arrival its docs have.  The sets here are those   *)
(* of one namespace, a place is a secondary key, and contents are left     *)
(* out.  Of a modification only the doc operations are kept.               *)
(***************************************************************************)
EXTENDS Integers, FiniteSets, FiniteSetsExt

CONSTANTS
    DocId,     \* doc IDs
    Set,       \* doc sets: the primary keys of a namespace
    Place,     \* secondary keys
    Claimant,  \* client IDs
    NoOne,     \* the empty claimant
    NoDoc      \* what is found under an ID that names nothing

ASSUME NoOneIsNoClaimant == NoOne \notin Claimant

(* A stored doc keeps the version its set had when the doc was last written. *)
Doc == [set : Set, place : Place, version : Nat]

ASSUME NoDocIsNoDoc == NoDoc \notin Doc

Lock == [stored : BOOLEAN, version : Nat, claimant : Claimant \cup {NoOne},
         at : Int, numDocs : Nat]

(* The lock of a set nothing has stored. *)
Absent == [stored |-> FALSE, version |-> 0, claimant |-> NoOne, at |-> 0,
           numDocs |-> 0]

DocModification ==
    [claimant : Claimant,
     inserts : SUBSET [id : DocId, set : Set, place : Place, by : Int],
     changes : SUBSET [id : DocId, version : Nat, by : Int],
     deletes : SUBSET [id : DocId, version : Nat],
     depends : SUBSET [id : DocId, version : Nat],
     setDepends : SUBSET [set : Set, version : Nat],
     arrives : SUBSET [set : Set, version : Nat, by : Int]]

DocOps(mod) == mod.inserts \cup mod.changes \cup mod.deletes \cup mod.depends

(* What validate.Modification lets through: no ID in two operations, no    *)
(* two inserts in one place, no set given two arrivals.                    *)
ValidDocs(mod) ==
    /\ \A o, p \in DocOps(mod) : o.id = p.id => o = p
    /\ mod.deletes \cap mod.depends = {}
    /\ \A o, p \in mod.inserts : o.set = p.set /\ o.place = p.place => o = p
    /\ \A a, b \in mod.arrives : a.set = b.set => a = b

-----------------------------------------------------------------------------

Held(l, now) == l.claimant # NoOne /\ now < l.at

HeldByOther(l, c, now) == Held(l, now) /\ l.claimant # c

Members(docs, g) == {i \in DocId : docs[i] # NoDoc /\ docs[i].set = g}

(* The lock of a set once c has claimed it. *)
Claim(l, c, until) ==
    [stored |-> TRUE, version |-> l.version + 1, claimant |-> c, at |-> until,
     numDocs |-> l.numDocs]

ClaimSome(G, c, now, until, locks) ==
    until > now /\ \E g \in G : ~HeldByOther(locks[g], c, now)

(* A claim takes all the sets it names, if none is held by another, and    *)
(* only for a hold that reaches past now.                                  *)
ClaimAll(G, c, now, until, locks) ==
    until > now /\ \A g \in G : ~HeldByOther(locks[g], c, now)

-----------------------------------------------------------------------------

(* The sets whose version the modification states itself. *)
Provided(mod) == {o.set : o \in mod.arrives \cup mod.setDepends}

StoredAnyVersion(mod, o, docs, locks) == docs[o.id] # NoDoc

(* An operation on a doc finds it stored with its set at the version it    *)
(* names; zero stands for the version the modification states of the set.  *)
Stored(mod, o, docs, locks) ==
    /\ docs[o.id] # NoDoc
    /\ \/ o.version = 0 /\ docs[o.id].set \in Provided(mod)
       \/ o.version = locks[docs[o.id].set].version

OccupiedNever(o, docs, locks) == FALSE

(* Someone already has the insert's place; an empty set is not looked into. *)
Occupied(o, docs, locks) ==
    /\ locks[o.set].numDocs > 0
    /\ \E i \in Members(docs, o.set) : docs[i].place = o.place

(* A set is found at the version an operation on the whole set names. *)
StoredSet(o, locks) == locks[o.set].stored /\ locks[o.set].version = o.version

(* Evaluate finds something that cannot proceed. *)
Refused(mod, now, docs, locks) ==
    \/ \E o \in mod.inserts :
           \/ docs[o.id] # NoDoc
           \/ Occupied(o, docs, locks)
           \/ HeldByOther(locks[o.set], mod.claimant, now)
    \/ \E o \in mod.changes \cup mod.deletes :
           \/ ~Stored(mod, o, docs, locks)
           \/ HeldByOther(locks[docs[o.id].set], mod.claimant, now)
    \/ \E o \in mod.depends : ~Stored(mod, o, docs, locks)
    \/ \E o \in mod.setDepends : ~StoredSet(o, locks)
    \/ \E o \in mod.arrives :
           ~StoredSet(o, locks) \/ HeldByOther(locks[o.set], mod.claimant, now)

(* The arrivals the modification's writes to g ask for; a delete asks for  *)
(* none, which is zero.                                                    *)
Asked(mod, g, docs) ==
    {o.by : o \in {i \in mod.inserts : i.set = g}}
    \cup {o.by : o \in {c \in mod.changes : docs[c.id].set = g}}
    \cup {0 : o \in {d \in mod.deletes : docs[d.id].set = g}}
    \cup {o.by : o \in {a \in mod.arrives : a.set = g}}

Writes(mod, docs) == {g \in Set : Asked(mod, g, docs) # {}}

AddedInserts(mod, g, docs) == Cardinality({o \in mod.inserts : o.set = g})

(* Docs inserted into g less docs deleted from it. *)
Added(mod, g, docs) ==
    Cardinality({o \in mod.inserts : o.set = g})
    - Cardinality({o \in mod.deletes : docs[o.id].set = g})

WrittenInPlace(l) == l.version

(* The version a write produces: a first write creates the set at zero. *)
Written(l) == IF l.stored THEN l.version + 1 ELSE 0

(* The lock of a set the modification writes: held by the writer until the *)
(* latest arrival that lies ahead, or released if none does.               *)
Planned(mod, g, now, docs, locks) ==
    LET by == Max(Asked(mod, g, docs))
    IN  [stored |-> TRUE,
         version |-> Written(locks[g]),
         claimant |-> IF by > 0 THEN mod.claimant ELSE NoOne,
         at |-> IF by > 0 THEN now + by ELSE now,
         numDocs |-> locks[g].numDocs + Added(mod, g, docs)]

(* The locks a modification leaves. *)
Plan(mod, now, docs, locks) ==
    [g \in Set |-> IF g \in Writes(mod, docs) THEN Planned(mod, g, now, docs, locks)
                   ELSE locks[g]]

(* The docs it leaves: a doc written carries its set's new version, and a  *)
(* change keeps the place the stored doc has.                              *)
DocsAfter(mod, docs, locks) ==
    [i \in DocId |->
        IF \E o \in mod.deletes : o.id = i THEN NoDoc
        ELSE IF \E o \in mod.changes : o.id = i
        THEN [docs[i] EXCEPT !.version = Written(locks[docs[i].set])]
        ELSE IF \E o \in mod.inserts : o.id = i
        THEN LET o == CHOOSE o \in mod.inserts : o.id = i
             IN  [set |-> o.set, place |-> o.place, version |-> Written(locks[o.set])]
        ELSE docs[i]]
=============================================================================
