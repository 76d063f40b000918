-------------------------- MODULE DocStoreProofs --------------------------
(***************************************************************************)
(* What the doc sets of the in-memory backend promise holds for any docs,  *)
(* sets, secondary keys, clients, modifications, holds and batches.        *)
(***************************************************************************)
EXTENDS DocStore, FiniteSetTheorems, WellFoundedInduction, TLAPS

DocMap == [DocId -> Doc \cup {NoDoc}]

DocTypeOK ==
    /\ docs \in DocMap /\ locks \in [Set -> Lock]
    /\ disk \in [docs : DocMap, locks : [Set -> Lock]]
    /\ now \in Int
    /\ claiming \in [Claimant -> {Idle} \cup [at : Int, until : Int]]
    /\ collector \in {Idle} \cup [at : Int, gone : SUBSET Set]
    /\ seen # Idle => seen.set \in Set /\ seen.version \in Nat
    /\ collected \in BOOLEAN

(* A clock read before the lock was taken is not ahead of the clock. *)
ReadBefore ==
    /\ \A c \in Claimant : claiming[c] # Idle => claiming[c].at <= now
    /\ collector # Idle => collector.at <= now

SetsAreFinite == \A g \in Set : IsFiniteSet(Members(docs, g))

(* The journal yields the docs as they are and, until the first lock is    *)
(* collected, every lock but for its count.                                *)
JournalRight ==
    /\ disk.docs = docs
    /\ \A g \in Set : /\ disk.locks[g].numDocs = 0
                      /\ disk.locks[g] = Absent \/ disk.locks[g].stored
    /\ ~collected => /\ \A g \in Set : disk.locks[g] = Journaled(locks[g])
                     /\ collector # Idle => collector.gone = {}

(* Until then, a set at the version a reader saw is the set it saw. *)
SeenRight ==
    ~collected /\ seen # Idle =>
        /\ locks[seen.set].stored /\ seen.version <= locks[seen.set].version
        /\ locks[seen.set].version = seen.version => DocsOf(seen.set) = seen.docs

DocInv ==
    /\ DocTypeOK /\ ReadBefore /\ SetsAreFinite
    /\ MembersCounted /\ SetIsMap /\ JournalRight /\ SeenRight

-----------------------------------------------------------------------------
(* Sets, their greatest members and their images. *)

(* A finite set of integers has a greatest member. *)
LEMMA MaxIsMember ==
    ASSUME NEW S \in SUBSET Int, IsFiniteSet(S), S # {}
    PROVE  Max(S) \in S /\ \A y \in S : y <= Max(S)
<1> DEFINE Above(x) == {y \in S : y > x}
           N == {Cardinality(Above(x)) : x \in S}
<1>1. ASSUME NEW x \in S PROVE IsFiniteSet(Above(x)) /\ Cardinality(Above(x)) \in Nat
  BY FS_Subset, FS_CardinalityType
<1>2. N \subseteq Nat /\ N # {}
  BY <1>1, Zenon
<1> HIDE DEF N
<1>3. PICK n \in N : \A m \in N : ~(<<m, n>> \in OpToRel(<, Nat))
  BY <1>2, NatLessThanWellFounded, WFMin
<1>4. \A m \in N : ~(m < n)
  BY <1>2, <1>3, Zenon DEF OpToRel
<1>5. PICK x \in S : n = Cardinality(Above(x))
  BY DEF N
<1>6. ASSUME NEW y \in S, y > x PROVE FALSE
  <2>1. Above(y) \subseteq Above(x) /\ y \in Above(x) /\ y \notin Above(y)
    <3>1. x \in Int /\ y \in Int /\ \A z \in S : z \in Int
      OBVIOUS
    <3>2. \A z \in S : z > y => z > x
      BY <1>6, <3>1
    <3>3. ~(y > y)
      BY <3>1
    <3> QED
      BY <1>6, <3>2, <3>3, Zenon
  <2> HIDE DEF Above
  <2>2. Cardinality(Above(y)) <= Cardinality(Above(x)) /\ Cardinality(Above(y)) # Cardinality(Above(x))
    BY <1>1, <2>1, FS_Subset
  <2>3. Cardinality(Above(y)) \in N /\ Cardinality(Above(y)) \in Nat /\ n \in Nat
    BY <1>1, <1>5 DEF N
  <2> QED
    BY <1>4, <1>5, <2>2, <2>3
<1>7. \A y \in S : x >= y
  BY <1>6
<1> QED
  BY <1>7, Zenon DEF Max

(* The image of a finite set under a function is finite. *)
LEMMA ImageIsFinite ==
    ASSUME NEW S, IsFiniteSet(S), NEW f, DOMAIN f = S, f = [x \in S |-> f[x]]
    PROVE  IsFiniteSet({f[x] : x \in S})
<1> DEFINE T == {f[x] : x \in S}
<1>1. f \in Surjection(S, T)
  BY DEF Surjection
<1> QED
  BY <1>1, FS_Surjection

(* There are as many operations as the IDs they name, if no two name one. *)
LEMMA CountedByID ==
    ASSUME NEW S, IsFiniteSet(S), \A o, p \in S : o.id = p.id => o = p
    PROVE  /\ IsFiniteSet({o.id : o \in S})
           /\ Cardinality({o.id : o \in S}) = Cardinality(S)
<1> DEFINE T == {o.id : o \in S}
           f == [o \in S |-> o.id]
<1>1. f \in Bijection(S, T)
  BY DEF Bijection, Injection, Surjection, IsInjective
<1>2. ExistsBijection(S, T)
  BY <1>1 DEF ExistsBijection
<1> QED
  BY <1>2, FS_Bijection
-----------------------------------------------------------------------------
(* A modification that goes through. *)

(* What a request is made of. *)
LEMMA RequestParts ==
    ASSUME NEW mod \in DocRequests
    PROVE  /\ mod.claimant \in Claimant
           /\ \A o \in mod.inserts :
                  o.id \in DocId /\ o.set \in Set /\ o.place \in Place /\ o.by \in Int
           /\ \A o \in mod.changes : o.id \in DocId /\ o.by \in Int
           /\ \A o \in mod.deletes : o.id \in DocId
           /\ \A o \in mod.arrives : o.set \in Set /\ o.by \in Int
<1>1. mod \in DocModification
  BY DocRequestsAreRequests, Zenon
<1> QED
  BY <1>1 DEF DocModification

(* Its lists are finite. *)
LEMMA RequestFinite ==
    ASSUME NEW mod \in DocRequests
    PROVE  /\ IsFiniteSet(mod.inserts) /\ IsFiniteSet(mod.changes)
           /\ IsFiniteSet(mod.deletes) /\ IsFiniteSet(mod.arrives)
<1> DEFINE all == DocOps(mod) \cup mod.arrives
<1>1. IsFiniteSet(all)
  BY DocRequestsAreFinite, Zenon
<1>2. /\ mod.inserts \in SUBSET all /\ mod.changes \in SUBSET all
      /\ mod.deletes \in SUBSET all /\ mod.arrives \in SUBSET all
  BY Zenon DEF DocOps
<1> HIDE DEF all
<1> QED
  BY <1>1, <1>2, FS_Subset, Zenon

(* No ID is in two inserts, or in two deletes. *)
LEMMA RequestKeyed ==
    ASSUME NEW mod \in DocRequests
    PROVE  /\ \A o, p \in mod.inserts : o.id = p.id => o = p
           /\ \A o, p \in mod.deletes : o.id = p.id => o = p
           /\ \A o, p \in mod.inserts : o.set = p.set /\ o.place = p.place => o = p
<1>1. ValidDocs(mod)
  BY DocRequestsAreRequests, Zenon
<1> QED
  BY <1>1, Zenon DEF ValidDocs, DocOps

(* What Evaluate found, if it refused nothing. *)
LEMMA NotRefused ==
    ASSUME DocTypeOK, NEW mod \in DocRequests, ~Refused(mod, now, docs, locks)
    PROVE  /\ \A o \in mod.inserts : docs[o.id] = NoDoc /\ ~Occupied(o, docs, locks)
           /\ \A o \in mod.changes \cup mod.deletes : docs[o.id] \in Doc
<1>1. \A o \in mod.inserts : docs[o.id] = NoDoc /\ ~Occupied(o, docs, locks)
  BY Zenon DEF Refused
<1>2. \A o \in mod.changes \cup mod.deletes : docs[o.id] # NoDoc
  BY Zenon DEF Refused, Stored
<1>3. \A i \in DocId : docs[i] # NoDoc => docs[i] \in Doc
  BY DEF DocTypeOK, DocMap
<1> QED
  BY <1>1, <1>2, <1>3, RequestParts, Zenon

(* What a write makes of a version. *)
LEMMA WrittenIsVersion == \A l \in Lock : Written(l) \in Nat
  BY DEF Lock, Written

(* A doc deleted. *)
LEMMA DeletedAfter ==
    ASSUME NEW mod, NEW i \in DocId, \E o \in mod.deletes : o.id = i
    PROVE  DocsAfter(mod, docs, locks)[i] = NoDoc
  BY DEF DocsAfter

(* A doc changed. *)
LEMMA ChangedAfter ==
    ASSUME DocTypeOK, NEW mod, NEW i \in DocId, docs[i] \in Doc,
           ~\E o \in mod.deletes : o.id = i, \E o \in mod.changes : o.id = i
    PROVE  LET d == DocsAfter(mod, docs, locks)[i]
           IN  d \in Doc /\ d.set = docs[i].set /\ d.place = docs[i].place
<1>1. DocsAfter(mod, docs, locks)[i] = [docs[i] EXCEPT !.version = Written(locks[docs[i].set])]
  BY DEF DocsAfter
<1>2. Written(locks[docs[i].set]) \in Nat
  BY WrittenIsVersion DEF DocTypeOK, Doc
<1> QED
  BY <1>1, <1>2 DEF Doc

(* A doc inserted. *)
LEMMA InsertedAfter ==
    ASSUME DocTypeOK, NEW mod \in DocRequests, NEW o \in mod.inserts,
           ~\E p \in mod.deletes \cup mod.changes : p.id = o.id
    PROVE  LET d == DocsAfter(mod, docs, locks)[o.id]
           IN  d \in Doc /\ d.set = o.set /\ d.place = o.place
<1>1. o.id \in DocId /\ o.set \in Set /\ o.place \in Place
  BY RequestParts, Zenon
<1>2. (CHOOSE p \in mod.inserts : p.id = o.id) = o
  BY RequestKeyed
<1>3. DocsAfter(mod, docs, locks)[o.id]
          = [set |-> o.set, place |-> o.place, version |-> Written(locks[o.set])]
  BY <1>1, <1>2 DEF DocsAfter
<1>4. Written(locks[o.set]) \in Nat
  BY <1>1, WrittenIsVersion DEF DocTypeOK
<1> QED
  BY <1>1, <1>3, <1>4 DEF Doc

(* A doc left alone. *)
LEMMA KeptAfter ==
    ASSUME NEW mod, NEW i \in DocId,
           ~\E o \in mod.inserts \cup mod.changes \cup mod.deletes : o.id = i
    PROVE  DocsAfter(mod, docs, locks)[i] = docs[i]
<1>1. /\ ~\E o \in mod.inserts : o.id = i
      /\ ~\E o \in mod.changes : o.id = i
      /\ ~\E o \in mod.deletes : o.id = i
  BY Zenon
<1> QED
  BY <1>1 DEF DocsAfter

(* What a modification does to each doc. *)
LEMMA ModifyDocs ==
    ASSUME DocTypeOK, NEW mod \in DocRequests, Modify(mod)
    PROVE  /\ docs' \in DocMap
           /\ \A o \in mod.inserts : /\ docs[o.id] = NoDoc /\ docs'[o.id] \in Doc
                                     /\ docs'[o.id].set = o.set /\ docs'[o.id].place = o.place
           /\ \A o \in mod.deletes : docs[o.id] \in Doc /\ docs'[o.id] = NoDoc
           /\ \A i \in DocId :
                  \/ \E o \in mod.inserts \cup mod.deletes : o.id = i
                  \/ docs'[i] = docs[i] /\ ~\E o \in mod.changes : o.id = i
                  \/ /\ docs[i] \in Doc /\ docs'[i] \in Doc /\ \E o \in mod.changes : o.id = i
                     /\ docs'[i].set = docs[i].set /\ docs'[i].place = docs[i].place
<1>1. docs' = DocsAfter(mod, docs, locks) /\ ~Refused(mod, now, docs, locks)
  BY Zenon DEF Modify
<1>2. /\ \A o \in mod.inserts : docs[o.id] = NoDoc
      /\ \A o \in mod.changes \cup mod.deletes : docs[o.id] \in Doc
  BY <1>1, NotRefused, Zenon
<1>3. NoDoc \notin Doc
  BY NoDocIsNoDoc
<1>4. ASSUME NEW o \in mod.inserts
      PROVE  /\ docs[o.id] = NoDoc /\ docs'[o.id] \in Doc
             /\ docs'[o.id].set = o.set /\ docs'[o.id].place = o.place
  <2>1. ~\E p \in mod.deletes \cup mod.changes : p.id = o.id
    BY <1>2, <1>3, Zenon
  <2> QED
    BY <1>1, <1>2, <2>1, InsertedAfter, Zenon
<1>5. ASSUME NEW o \in mod.deletes PROVE docs[o.id] \in Doc /\ docs'[o.id] = NoDoc
  BY <1>1, <1>2, RequestParts, DeletedAfter, Zenon
<1>6. ASSUME NEW i \in DocId
      PROVE  \/ \E o \in mod.inserts \cup mod.deletes : o.id = i
             \/ docs'[i] = docs[i] /\ ~\E o \in mod.changes : o.id = i
             \/ /\ docs[i] \in Doc /\ docs'[i] \in Doc /\ \E o \in mod.changes : o.id = i
                /\ docs'[i].set = docs[i].set /\ docs'[i].place = docs[i].place
  <2>1. CASE \E o \in mod.inserts \cup mod.deletes : o.id = i
    BY <2>1, Zenon
  <2>2. CASE ~(\E o \in mod.inserts \cup mod.deletes : o.id = i) /\ \E o \in mod.changes : o.id = i
    <3>1. docs[i] \in Doc /\ ~\E o \in mod.deletes : o.id = i
      BY <1>2, <2>2, Zenon
    <3> QED
      BY <1>1, <2>2, <3>1, ChangedAfter, Zenon
  <2>3. CASE ~\E o \in mod.inserts \cup mod.changes \cup mod.deletes : o.id = i
    <3>1. docs'[i] = docs[i]
      BY <1>1, <2>3, KeptAfter, Zenon
    <3> QED
      BY <2>3, <3>1, Zenon
  <2> QED
    BY <2>1, <2>2, <2>3, Zenon
<1>7. docs' \in DocMap
  <2>1. \A i \in DocId : docs[i] \in Doc \cup {NoDoc}
    BY DEF DocTypeOK, DocMap
  <2>2. ASSUME NEW i \in DocId PROVE docs'[i] \in Doc \cup {NoDoc}
    <3>1. CASE \E o \in mod.inserts : o.id = i
      BY <1>4, <3>1, Zenon
    <3>2. CASE \E o \in mod.deletes : o.id = i
      BY <1>5, <3>2, Zenon
    <3>3. CASE docs'[i] = docs[i] \/ docs'[i] \in Doc
      BY <2>1, <3>3, Zenon
    <3> QED
      BY <1>6, <3>1, <3>2, <3>3, Zenon
  <2>3. docs' = [i \in DocId |-> docs'[i]]
    BY <1>1 DEF DocsAfter
  <2> QED
    BY <2>2, <2>3 DEF DocMap
<1> QED
  BY <1>4, <1>5, <1>6, <1>7, Zenon

InsertedInto(mod, g) == {o \in mod.inserts : o.set = g}
DeletedFrom(mod, g) == {o \in mod.deletes : docs[o.id].set = g}
NamedBy(ops) == {o.id : o \in ops}

(* A set's docs after a modification: those it had, without the ones       *)
(* deleted, and the ones inserted.                                         *)
LEMMA MembersAfter ==
    ASSUME DocTypeOK, NEW mod \in DocRequests, Modify(mod), NEW g \in Set
    PROVE  LET out == NamedBy(DeletedFrom(mod, g))
               in == NamedBy(InsertedInto(mod, g))
           IN  /\ Members(docs, g)' = (Members(docs, g) \ out) \cup in
               /\ out \subseteq Members(docs, g)
               /\ in \cap Members(docs, g) = {}
<1> DEFINE out == NamedBy(DeletedFrom(mod, g))
           in == NamedBy(InsertedInto(mod, g))
<1>1. NoDoc \notin Doc
  BY NoDocIsNoDoc
<1>2. /\ \A o \in mod.inserts : o.id \in DocId /\ docs[o.id] = NoDoc /\ docs'[o.id] \in Doc
                                /\ docs'[o.id].set = o.set
      /\ \A o \in mod.deletes : o.id \in DocId /\ docs[o.id] \in Doc /\ docs'[o.id] = NoDoc
  BY ModifyDocs, RequestParts, Zenon
<1>3. \A i \in DocId : \/ \E o \in mod.inserts \cup mod.deletes : o.id = i
                       \/ docs'[i] = docs[i]
                       \/ docs[i] \in Doc /\ docs'[i] \in Doc /\ docs'[i].set = docs[i].set
  BY ModifyDocs, Zenon
<1>4. out \subseteq Members(docs, g) /\ in \cap Members(docs, g) = {}
  BY <1>1, <1>2, Zenon DEF NamedBy, DeletedFrom, InsertedInto, Members
<1>5. ASSUME NEW i \in DocId
      PROVE  i \in Members(docs, g)' <=> i \in (Members(docs, g) \ out) \cup in
  <2>1. i \in Members(docs, g)' <=> docs'[i] # NoDoc /\ docs'[i].set = g
    BY Zenon DEF Members
  <2>2. i \in Members(docs, g) <=> docs[i] # NoDoc /\ docs[i].set = g
    BY Zenon DEF Members
  <2>3. i \in out <=> \E o \in mod.deletes : docs[i].set = g /\ o.id = i
    BY Zenon DEF NamedBy, DeletedFrom
  <2>4. i \in in <=> \E o \in mod.inserts : o.set = g /\ o.id = i
    BY Zenon DEF NamedBy, InsertedInto
  <2> HIDE DEF out, in
  <2>5. CASE \E o \in mod.inserts : o.id = i
    BY <1>1, <1>2, <2>1, <2>2, <2>3, <2>4, <2>5, ZenonT(40)
  <2>6. CASE \E o \in mod.deletes : o.id = i
    BY <1>1, <1>2, <2>1, <2>2, <2>3, <2>4, <2>6, ZenonT(40)
  <2>7. CASE ~\E o \in mod.inserts \cup mod.deletes : o.id = i
    BY <1>1, <1>3, <2>1, <2>2, <2>3, <2>4, <2>7, Zenon
  <2> QED
    BY <2>5, <2>6, <2>7, Zenon
<1>6. Members(docs, g)' \subseteq DocId /\ Members(docs, g) \subseteq DocId /\ in \subseteq DocId
  BY <1>2, Zenon DEF Members, NamedBy, InsertedInto
<1> HIDE DEF out, in
<1>7. Members(docs, g)' = (Members(docs, g) \ out) \cup in
  BY <1>5, <1>6, Zenon
<1> QED
  BY <1>4, <1>7, Zenon DEF out, in

(* A modification that does not write a set leaves it alone. *)
LEMMA NotWritten ==
    ASSUME DocTypeOK, NEW mod \in DocRequests, Modify(mod),
           NEW g \in Set, g \notin Writes(mod, docs)
    PROVE  /\ locks'[g] = locks[g] /\ disk'.locks[g] = disk.locks[g]
           /\ Members(docs, g)' = Members(docs, g) /\ DocsOf(g)' = DocsOf(g)
<1>1. Asked(mod, g, docs) = {}
  BY Zenon DEF Writes
<1>2. /\ \A o \in mod.inserts : o.set # g
      /\ \A o \in mod.changes : docs[o.id].set # g
      /\ \A o \in mod.deletes : docs[o.id].set # g
  BY <1>1, Zenon DEF Asked
<1>3. NamedBy(DeletedFrom(mod, g)) = {} /\ NamedBy(InsertedInto(mod, g)) = {}
  BY <1>2, Zenon DEF NamedBy, DeletedFrom, InsertedInto
<1>4. Members(docs, g)' = Members(docs, g)
  <2>1. Members(docs, g)' = (Members(docs, g) \ {}) \cup {}
    BY <1>3, MembersAfter, Zenon
  <2> QED
    BY <2>1
<1>5. ASSUME NEW i \in Members(docs, g) PROVE docs'[i] = docs[i]
  <2>1. i \in DocId /\ docs[i] # NoDoc /\ docs[i].set = g
    BY Zenon DEF Members
  <2>2. /\ \A o \in mod.inserts : docs[o.id] = NoDoc
        /\ \/ \E o \in mod.inserts \cup mod.deletes : o.id = i
           \/ docs'[i] = docs[i]
           \/ \E o \in mod.changes : o.id = i
    BY <2>1, ModifyDocs, Zenon
  <2> QED
    BY <1>2, <2>1, <2>2, Zenon
<1>6. DocsOf(g)' = DocsOf(g)
  <2>1. DocsOf(g)' = [i \in Members(docs, g)' |-> docs'[i]]
    BY Zenon DEF DocsOf
  <2> QED
    BY <1>4, <1>5, <2>1 DEF DocsOf
<1>7. locks'[g] = locks[g] /\ disk'.locks[g] = disk.locks[g]
  BY DEF Modify, Plan, Journal
<1> QED
  BY <1>4, <1>6, <1>7, Zenon

(* A set's docs are as many as before, and those added. *)
LEMMA CountAfter ==
    ASSUME DocInv, NEW mod \in DocRequests, Modify(mod), NEW g \in Set
    PROVE  /\ IsFiniteSet(Members(docs, g)')
           /\ Cardinality(Members(docs, g)') = Cardinality(Members(docs, g)) + Added(mod, g, docs)
           /\ Cardinality(Members(docs, g)') \in Nat /\ Added(mod, g, docs) \in Int
<1> DEFINE M == Members(docs, g)
           dels == DeletedFrom(mod, g)
           inss == InsertedInto(mod, g)
           out == NamedBy(dels)
           in == NamedBy(inss)
<1>1. DocTypeOK /\ IsFiniteSet(M)
  BY Zenon DEF DocInv, SetsAreFinite
<1>2. M' = (M \ out) \cup in /\ out \subseteq M /\ in \cap M = {}
  BY <1>1, MembersAfter, Zenon
<1>3. IsFiniteSet(dels) /\ IsFiniteSet(inss)
  <2>1. dels \in SUBSET mod.deletes /\ inss \in SUBSET mod.inserts
    BY Zenon DEF DeletedFrom, InsertedInto
  <2> HIDE DEF dels, inss
  <2> QED
    BY <2>1, RequestFinite, FS_Subset, Zenon
<1>4. (\A o, p \in dels : o.id = p.id => o = p) /\ \A o, p \in inss : o.id = p.id => o = p
  BY RequestKeyed, Zenon DEF DeletedFrom, InsertedInto
<1>5. Added(mod, g, docs) = Cardinality(inss) - Cardinality(dels)
  BY Zenon DEF Added, DeletedFrom, InsertedInto
<1> HIDE DEF dels, inss, M
<1>6. /\ IsFiniteSet(out) /\ Cardinality(out) = Cardinality(dels)
      /\ IsFiniteSet(in) /\ Cardinality(in) = Cardinality(inss)
  BY <1>3, <1>4, CountedByID, Zenon DEF NamedBy
<1> HIDE DEF out, in
<1>7. IsFiniteSet(M \ out) /\ Cardinality(M \ out) = Cardinality(M) - Cardinality(out)
  <2>1. M \cap out = out
    BY <1>2, Zenon
  <2> QED
    BY <1>1, <2>1, FS_Difference
<1>8. /\ IsFiniteSet(M')
      /\ Cardinality(M') = Cardinality(M \ out) + Cardinality(in) - Cardinality({})
  <2>1. (M \ out) \cap in = {}
    BY <1>2, Zenon
  <2> QED
    BY <1>2, <1>6, <1>7, <2>1, FS_Union
<1>9. /\ Cardinality(M) \in Nat /\ Cardinality(M') \in Nat /\ Cardinality(inss) \in Nat
      /\ Cardinality(dels) \in Nat /\ Cardinality({}) = 0
  BY <1>1, <1>3, <1>8, FS_CardinalityType, FS_EmptySet, Zenon
<1>10. /\ Cardinality(M') = Cardinality(M) + Added(mod, g, docs)
       /\ Added(mod, g, docs) \in Int
  BY <1>5, <1>6, <1>7, <1>8, <1>9
<1> QED
  BY <1>8, <1>9, <1>10, Zenon DEF M

(* The arrivals asked of a set that is written have a latest one. *)
LEMMA AskedHasLatest ==
    ASSUME NEW mod \in DocRequests, NEW g \in Writes(mod, docs)
    PROVE  Max(Asked(mod, g, docs)) \in Int
<1> DEFINE ins == {o \in mod.inserts : o.set = g}
           chs == {o \in mod.changes : docs[o.id].set = g}
           dels == {o \in mod.deletes : docs[o.id].set = g}
           arrs == {o \in mod.arrives : o.set = g}
           asked == Asked(mod, g, docs)
<1>1. /\ ins \in SUBSET mod.inserts /\ chs \in SUBSET mod.changes
      /\ arrs \in SUBSET mod.arrives
  BY Zenon
<1>2. asked = {o.by : o \in ins} \cup {o.by : o \in chs} \cup {0 : o \in dels}
              \cup {o.by : o \in arrs}
  BY Zenon DEF Asked
<1>3. asked # {}
  BY Zenon DEF Writes
<1>4. asked \in SUBSET Int
  <2>1. /\ \A o \in ins : o.by \in Int
        /\ \A o \in chs : o.by \in Int
        /\ \A o \in arrs : o.by \in Int
    BY RequestParts, Zenon
  <2> HIDE DEF asked, ins, chs, dels, arrs
  <2> QED
    BY <1>2, <2>1
<1> HIDE DEF asked, ins, chs, dels, arrs
<1>5. IsFiniteSet(ins) /\ IsFiniteSet(chs) /\ IsFiniteSet(arrs)
  BY <1>1, RequestFinite, FS_Subset, Zenon
<1>6. ASSUME NEW S, IsFiniteSet(S) PROVE IsFiniteSet({o.by : o \in S})
  <2> DEFINE f == [o \in S |-> o.by]
  <2>1. DOMAIN f = S /\ f = [x \in S |-> f[x]] /\ {f[x] : x \in S} = {o.by : o \in S}
    OBVIOUS
  <2> HIDE DEF f
  <2>2. IsFiniteSet({f[x] : x \in S})
    BY <1>6, <2>1, ImageIsFinite
  <2> QED
    BY <2>1, <2>2, Zenon
<1>7. IsFiniteSet({0 : o \in dels})
  <2>1. {0 : o \in dels} \in SUBSET {0}
    BY Zenon
  <2> QED
    BY <2>1, FS_Singleton, FS_Subset, Zenon
<1>8. IsFiniteSet(asked)
  <2>1. IsFiniteSet({o.by : o \in ins}) /\ IsFiniteSet({o.by : o \in chs})
        /\ IsFiniteSet({o.by : o \in arrs})
    BY <1>5, <1>6, Zenon
  <2>2. IsFiniteSet({o.by : o \in ins} \cup {o.by : o \in chs})
    BY <2>1, FS_Union, Zenon
  <2>3. IsFiniteSet({o.by : o \in ins} \cup {o.by : o \in chs} \cup {0 : o \in dels})
    BY <1>7, <2>2, FS_Union, Zenon
  <2> QED
    BY <1>2, <2>1, <2>3, FS_Union, Zenon
<1>9. Max(asked) \in asked
  BY <1>3, <1>4, <1>8, MaxIsMember, Zenon
<1> QED
  BY <1>4, <1>9 DEF asked

(* The lock a modification leaves a set it writes, and journals. *)
LEMMA LockAfter ==
    ASSUME DocInv, NEW mod \in DocRequests, Modify(mod), NEW g \in Writes(mod, docs)
    PROVE  /\ g \in Set /\ locks'[g] \in Lock /\ locks'[g].stored
           /\ locks'[g].numDocs = Cardinality(Members(docs, g)')
           /\ locks'[g].version = Written(locks[g])
           /\ disk'.locks[g] = Journaled(locks'[g])
<1> DEFINE by == Max(Asked(mod, g, docs))
           l == locks[g]
<1>1. g \in Set /\ mod.claimant \in Claimant
  BY RequestParts, Zenon DEF Writes
<1>2. l \in Lock /\ now \in Int /\ by \in Int
  <2>1. locks \in [Set -> Lock] /\ now \in Int
    BY Zenon DEF DocInv, DocTypeOK
  <2> QED
    BY <1>1, <2>1, AskedHasLatest
<1>3. /\ IsFiniteSet(Members(docs, g)')
      /\ Cardinality(Members(docs, g)') = Cardinality(Members(docs, g)) + Added(mod, g, docs)
      /\ Cardinality(Members(docs, g)') \in Nat /\ Added(mod, g, docs) \in Int
  BY <1>1, CountAfter, Zenon
<1>4. l.numDocs = Cardinality(Members(docs, g))
  BY <1>1, Zenon DEF DocInv, MembersCounted
<1>5. Written(l) \in Nat
  BY <1>2, WrittenIsVersion
<1>6. locks' = Plan(mod, now, docs, locks) /\ Journal(mod)
  BY Zenon DEF Modify
<1>7. locks'[g] = Planned(mod, g, now, docs, locks)
  BY <1>1, <1>6 DEF Plan
<1>8. disk'.locks[g] = Journaled(locks'[g])
  BY <1>1, <1>6 DEF Journal
<1>9. locks'[g] = [stored |-> TRUE, version |-> Written(l),
                   claimant |-> IF by > 0 THEN mod.claimant ELSE NoOne,
                   at |-> IF by > 0 THEN now + by ELSE now,
                   numDocs |-> l.numDocs + Added(mod, g, docs)]
  BY <1>7, Zenon DEF Planned
<1> HIDE DEF by, l
<1>10. /\ locks'[g] \in Lock /\ locks'[g].stored
       /\ locks'[g].numDocs = l.numDocs + Added(mod, g, docs)
       /\ locks'[g].version = Written(l)
  BY <1>1, <1>2, <1>3, <1>4, <1>5, <1>9 DEF Lock
<1> QED
  BY <1>1, <1>3, <1>4, <1>8, <1>10 DEF l

(* A modification keeps every set a map: an insert finds its place free,   *)
(* and a change keeps the doc's.                                           *)
LEMMA ModifyKeepsMap ==
    ASSUME DocInv, NEW mod \in DocRequests, Modify(mod)
    PROVE  SetIsMap'
<1>1. DocTypeOK /\ MembersCounted /\ SetIsMap /\ SetsAreFinite
  BY Zenon DEF DocInv
<1>2. ASSUME NEW g \in Set, NEW i \in Members(docs, g)', ~\E o \in mod.inserts : o.id = i
      PROVE  i \in Members(docs, g) /\ docs'[i].place = docs[i].place
  <2>1. i \in DocId /\ docs'[i] # NoDoc /\ docs'[i].set = g
    BY Zenon DEF Members
  <2>2. ~\E o \in mod.deletes : o.id = i
    <3>1. \A o \in mod.deletes : docs'[o.id] = NoDoc
      BY <1>1, ModifyDocs, Zenon
    <3> QED
      BY <2>1, <3>1, Zenon
  <2>3. docs'[i] = docs[i] \/ (/\ docs[i] \in Doc /\ docs'[i].set = docs[i].set
                               /\ docs'[i].place = docs[i].place)
    BY <1>1, <1>2, <2>1, <2>2, ModifyDocs, Zenon
  <2> QED
    BY <2>1, <2>3, NoDocIsNoDoc, Zenon DEF Members
<1>3. ASSUME NEW g \in Set, NEW o \in mod.inserts, o.set = g, NEW i \in Members(docs, g)
      PROVE  docs[i].place # o.place
  <2>1. ~Occupied(o, docs, locks)
    BY <1>1, NotRefused, Zenon DEF Modify
  <2>2. Cardinality(Members(docs, g)) \in Nat /\ Cardinality(Members(docs, g)) # 0
    BY <1>1, FS_CardinalityType, FS_EmptySet DEF SetsAreFinite
  <2>3. locks[g].numDocs > 0
    BY <1>1, <2>2 DEF MembersCounted
  <2> QED
    BY <1>3, <2>1, <2>3, Zenon DEF Occupied
<1>4. ASSUME NEW g \in Set, NEW i \in Members(docs, g)', NEW o \in mod.inserts, o.id = i
      PROVE  o.set = g /\ docs'[i].place = o.place
  BY <1>1, <1>4, ModifyDocs, Zenon DEF Members
<1>5. ASSUME NEW g \in Set, NEW i \in Members(docs, g)', NEW j \in Members(docs, g)',
             docs'[i].place = docs'[j].place
      PROVE  i = j
  <2>1. CASE (\E o \in mod.inserts : o.id = i) /\ \E o \in mod.inserts : o.id = j
    <3>1. PICK o \in mod.inserts, p \in mod.inserts : o.id = i /\ p.id = j
      BY <2>1, Zenon
    <3>2. o.set = g /\ docs'[i].place = o.place
      BY <1>4, <3>1, SMTT(30)
    <3>3. p.set = g /\ docs'[j].place = p.place
      BY <1>4, <3>1
    <3> QED
      BY <1>5, <3>1, <3>2, <3>3, RequestKeyed, Zenon
  <2>2. CASE (\E o \in mod.inserts : o.id = i) /\ ~\E o \in mod.inserts : o.id = j
    <3>1. PICK o \in mod.inserts : o.id = i
      BY <2>2, Zenon
    <3>2. o.set = g /\ docs'[i].place = o.place
      BY <1>4, <3>1, SMTT(30)
    <3>3. j \in Members(docs, g) /\ docs'[j].place = docs[j].place
      BY <1>2, <2>2, Zenon
    <3>4. docs[j].place # o.place
      BY <1>3, <3>2, <3>3, Zenon
    <3> QED
      BY <1>5, <3>2, <3>3, <3>4, Zenon
  <2>3. CASE ~(\E o \in mod.inserts : o.id = i) /\ \E o \in mod.inserts : o.id = j
    <3>1. PICK o \in mod.inserts : o.id = j
      BY <2>3, Zenon
    <3>2. o.set = g /\ docs'[j].place = o.place
      BY <1>4, <3>1, SMTT(30)
    <3>3. i \in Members(docs, g) /\ docs'[i].place = docs[i].place
      BY <1>2, <2>3, Zenon
    <3>4. docs[i].place # o.place
      BY <1>3, <3>2, <3>3, Zenon
    <3> QED
      BY <1>5, <3>2, <3>3, <3>4, Zenon
  <2>4. CASE ~(\E o \in mod.inserts : o.id = i) /\ ~\E o \in mod.inserts : o.id = j
    BY <1>1, <1>2, <1>5, <2>4, Zenon DEF SetIsMap
  <2> QED
    BY <2>1, <2>2, <2>3, <2>4, Zenon
<1> QED
  BY <1>5, Zenon DEF SetIsMap

(* It keeps every set counted. *)
LEMMA ModifyKeepsCount ==
    ASSUME DocInv, NEW mod \in DocRequests, Modify(mod)
    PROVE  SetsAreFinite' /\ MembersCounted'
<1>1. SetsAreFinite'
  BY CountAfter, Zenon DEF SetsAreFinite
<1>2. ASSUME NEW g \in Set
      PROVE  /\ locks'[g].numDocs = Cardinality(Members(docs, g)')
             /\ Members(docs, g)' # {} => locks'[g].stored
  <2>1. CASE g \in Writes(mod, docs)
    BY <2>1, LockAfter, Zenon
  <2>2. CASE g \notin Writes(mod, docs)
    <3>1. Members(docs, g)' = Members(docs, g) /\ locks'[g] = locks[g]
      BY <2>2, NotWritten, Zenon DEF DocInv
    <3>2. /\ locks[g].numDocs = Cardinality(Members(docs, g))
          /\ Members(docs, g) # {} => locks[g].stored
      BY Zenon DEF DocInv, MembersCounted
    <3> QED
      BY <3>1, <3>2, Zenon
  <2> QED
    BY <2>1, <2>2, Zenon
<1> QED
  BY <1>1, <1>2, Zenon DEF MembersCounted

(* The journal follows it. *)
LEMMA ModifyKeepsJournal ==
    ASSUME DocInv, NEW mod \in DocRequests, Modify(mod)
    PROVE  JournalRight' /\ disk' \in [docs : DocMap, locks : [Set -> Lock]]
<1>1. DocTypeOK /\ JournalRight
  BY Zenon DEF DocInv
<1>2. /\ docs' \in DocMap
      /\ \A i \in DocId : \/ \E o \in mod.inserts \cup mod.changes \cup mod.deletes : o.id = i
                          \/ docs'[i] = docs[i]
  BY <1>1, ModifyDocs, SMTT(30)
<1>3. /\ disk' = [docs |-> disk'.docs, locks |-> disk'.locks]
      /\ disk'.docs = [i \in DocId |->
             IF \E o \in mod.inserts \cup mod.changes \cup mod.deletes : o.id = i
             THEN docs'[i] ELSE disk.docs[i]]
      /\ disk'.locks = [g \in Set |-> disk'.locks[g]]
  BY DEF Modify, Journal
<1>4. disk'.docs = docs'
  <2>1. \A i \in DocId : disk'.docs[i] = docs'[i]
    BY <1>1, <1>2, <1>3 DEF JournalRight
  <2>2. docs' = [i \in DocId |-> docs'[i]]
    BY <1>2 DEF DocMap
  <2>3. disk'.docs = [i \in DocId |-> disk'.docs[i]]
    BY <1>3
  <2> QED
    BY <2>1, <2>2, <2>3
<1>5. ASSUME NEW g \in Set
      PROVE  /\ disk'.locks[g] \in Lock
             /\ disk'.locks[g].numDocs = 0
             /\ disk'.locks[g] = Absent \/ disk'.locks[g].stored
             /\ ~collected => disk'.locks[g] = Journaled(locks'[g])
  <2>1. CASE g \in Writes(mod, docs)
    <3>1. locks'[g] \in Lock /\ locks'[g].stored /\ disk'.locks[g] = Journaled(locks'[g])
      BY <2>1, LockAfter, Zenon
    <3> QED
      BY <3>1 DEF Journaled, Lock
  <2>2. CASE g \notin Writes(mod, docs)
    <3>1. disk'.locks[g] = disk.locks[g] /\ locks'[g] = locks[g]
      BY <1>1, <2>2, NotWritten, Zenon
    <3>2. /\ disk.locks[g].numDocs = 0
          /\ disk.locks[g] = Absent \/ disk.locks[g].stored
          /\ ~collected => disk.locks[g] = Journaled(locks[g])
      BY <1>1, Zenon DEF JournalRight
    <3>3. disk.locks[g] \in Lock
      BY <1>1 DEF DocTypeOK
    <3> QED
      BY <3>1, <3>2, <3>3, Zenon
  <2> QED
    BY <2>1, <2>2, Zenon
<1>6. collected' = collected /\ collector' = collector
  BY Zenon DEF Modify
<1>7. JournalRight'
  BY <1>1, <1>4, <1>5, <1>6, Zenon DEF JournalRight
<1>8. disk'.locks \in [Set -> Lock]
  BY <1>3, <1>5, Zenon
<1> QED
  BY <1>2, <1>3, <1>4, <1>7, <1>8

(* What a reader saw stays right: a set that is written moves on. *)
LEMMA ModifyKeepsSeen ==
    ASSUME DocInv, NEW mod \in DocRequests, Modify(mod)
    PROVE  SeenRight'
<1>1. collected' = collected /\ seen' = seen
  BY Zenon DEF Modify
<1> SUFFICES ASSUME ~collected, seen # Idle
             PROVE  /\ locks'[seen.set].stored /\ seen.version <= locks'[seen.set].version
                    /\ locks'[seen.set].version = seen.version => DocsOf(seen.set)' = seen.docs
  <2>1. DocsOf(seen.set)' = [i \in Members(docs', seen.set) |-> docs'[i]]
    BY <1>1, Zenon DEF DocsOf
  <2> QED
    BY <1>1, <2>1, Zenon DEF SeenRight
<1> DEFINE g == seen.set
<1>2. g \in Set /\ seen.version \in Nat /\ DocTypeOK
  BY Zenon DEF DocInv, DocTypeOK
<1>3. /\ locks[g].stored /\ seen.version <= locks[g].version
      /\ locks[g].version = seen.version => DocsOf(g) = seen.docs
  BY Zenon DEF DocInv, SeenRight
<1>4. locks[g].version \in Nat
  BY <1>2 DEF DocTypeOK, Lock
<1>5. CASE g \in Writes(mod, docs)
  <2>1. locks'[g].stored /\ locks'[g].version = locks[g].version + 1
    BY <1>3, <1>5, LockAfter, Zenon DEF Written
  <2> HIDE DEF g
  <2> QED
    BY <1>2, <1>3, <1>4, <2>1 DEF g
<1>6. CASE g \notin Writes(mod, docs)
  BY <1>1, <1>2, <1>3, <1>6, NotWritten, Zenon
<1> QED
  BY <1>5, <1>6, Zenon

(* A modification keeps the invariant. *)
LEMMA ModifyKeeps ==
    ASSUME DocInv, NEW mod \in DocRequests, Modify(mod)
    PROVE  DocInv'
<1>1. DocTypeOK /\ ReadBefore
  BY Zenon DEF DocInv
<1>2. UNCHANGED <<now, claiming, collector, seen, collected>>
  BY Zenon DEF Modify
<1>3. locks' \in [Set -> Lock]
  <2>1. locks' = [g \in Set |-> locks'[g]]
    BY DEF Modify, Plan
  <2>2. ASSUME NEW g \in Set PROVE locks'[g] \in Lock
    <3>1. CASE g \in Writes(mod, docs)
      BY <3>1, LockAfter, Zenon
    <3>2. CASE g \notin Writes(mod, docs)
      <4>1. locks[g] \in Lock
        BY <1>1 DEF DocTypeOK
      <4> QED
        BY <1>1, <3>2, <4>1, NotWritten, Zenon
    <3> QED
      BY <3>1, <3>2, Zenon
  <2> QED
    BY <2>1, <2>2, Zenon
<1>4. DocTypeOK'
  BY <1>1, <1>2, <1>3, ModifyDocs, ModifyKeepsJournal, Zenon DEF DocTypeOK
<1>5. ReadBefore'
  BY <1>1, <1>2, Zenon DEF ReadBefore
<1> QED
  BY <1>4, <1>5, ModifyKeepsCount, ModifyKeepsMap, ModifyKeepsJournal, ModifyKeepsSeen, Zenon
     DEF DocInv

-----------------------------------------------------------------------------
(* The other steps. *)

(* What the invariant says of the sets follows from the docs and the locks. *)
LEMMA SameSets ==
    ASSUME docs' = docs
    PROVE  /\ \A g : Members(docs, g)' = Members(docs, g)
           /\ SetsAreFinite => SetsAreFinite'
           /\ SetIsMap => SetIsMap'
<1>1. \A g : Members(docs, g)' = Members(docs, g)
  BY Zenon DEF Members
<1> QED
  BY <1>1, Zenon DEF SetsAreFinite, SetIsMap

(* A claim takes locks, and counts what they count. *)
LEMMA ClaimKeeps ==
    ASSUME DocInv, NEW c \in Claimant, NEW G \in SUBSET Set, ClaimDocs(c, G)
    PROVE  DocInv'
<1> DEFINE until == claiming[c].until
<1>1. /\ DocTypeOK /\ ReadBefore /\ SetsAreFinite /\ MembersCounted /\ SetIsMap
      /\ JournalRight /\ SeenRight
  BY Zenon DEF DocInv
<1>2. /\ claiming[c] # Idle /\ claiming' = [claiming EXCEPT ![c] = Idle]
      /\ UNCHANGED <<docs, now, collector, seen, collected>>
  BY Zenon DEF ClaimDocs
<1>3. until \in Int
  BY <1>1, <1>2 DEF DocTypeOK
<1>4. \/ locks' = locks /\ disk' = disk
      \/ /\ locks' = [g \in Set |-> IF g \in G THEN Claim(locks[g], c, until) ELSE locks[g]]
         /\ disk' = [disk EXCEPT !.locks = [g \in Set |-> IF g \in G THEN Journaled(locks'[g])
                                                          ELSE @[g]]]
  BY Zenon DEF ClaimDocs
<1> HIDE DEF until
<1>5. ASSUME NEW g \in Set
      PROVE  \/ locks'[g] = locks[g] /\ disk'.locks[g] = disk.locks[g]
             \/ /\ locks'[g] = Claim(locks[g], c, until)
                /\ disk'.locks[g] = Journaled(locks'[g])
  <2>1. disk \in [docs : DocMap, locks : [Set -> Lock]]
    BY <1>1, Zenon DEF DocTypeOK
  <2> QED
    BY <1>4, <2>1
<1>6. ASSUME NEW g \in Set
      PROVE  /\ locks'[g] \in Lock /\ disk'.locks[g] \in Lock
             /\ locks'[g].numDocs = locks[g].numDocs
             /\ locks[g].stored => locks'[g].stored
             /\ locks'[g] = locks[g] \/ locks'[g].version = locks[g].version + 1
             /\ disk'.locks[g].numDocs = 0
             /\ disk'.locks[g] = Absent \/ disk'.locks[g].stored
             /\ ~collected => disk'.locks[g] = Journaled(locks'[g])
  <2>1. /\ locks[g] \in Lock /\ disk.locks[g] \in Lock
    BY <1>1 DEF DocTypeOK
  <2>2. /\ disk.locks[g].numDocs = 0
        /\ disk.locks[g] = Absent \/ disk.locks[g].stored
        /\ ~collected => disk.locks[g] = Journaled(locks[g])
    BY <1>1, Zenon DEF JournalRight
  <2>3. CASE locks'[g] = locks[g] /\ disk'.locks[g] = disk.locks[g]
    BY <2>1, <2>2, <2>3, Zenon
  <2>4. CASE locks'[g] = Claim(locks[g], c, until) /\ disk'.locks[g] = Journaled(locks'[g])
    <3>1. /\ locks'[g] \in Lock /\ locks'[g].numDocs = locks[g].numDocs /\ locks'[g].stored
          /\ locks'[g].version = locks[g].version + 1
      BY <1>3, <2>1, <2>4 DEF Claim, Lock
    <3>2. disk'.locks[g] \in Lock /\ disk'.locks[g].numDocs = 0 /\ disk'.locks[g].stored
      BY <2>4, <3>1 DEF Journaled, Lock
    <3> QED
      BY <2>4, <3>1, <3>2, Zenon
  <2> QED
    BY <1>5, <2>3, <2>4, Zenon
<1>7. /\ locks' \in [Set -> Lock]
      /\ disk' \in [docs : DocMap, locks : [Set -> Lock]] /\ disk'.docs = disk.docs
  <2>1. disk \in [docs : DocMap, locks : [Set -> Lock]] /\ locks \in [Set -> Lock]
    BY <1>1, Zenon DEF DocTypeOK
  <2>2. locks' = [g \in Set |-> locks'[g]] /\ disk'.locks = [g \in Set |-> disk'.locks[g]]
        /\ disk' = [docs |-> disk.docs, locks |-> disk'.locks]
    BY <1>4, <2>1
  <2>3. locks' \in [Set -> Lock] /\ disk'.locks \in [Set -> Lock]
    BY <1>6, <2>2, Zenon
  <2> QED
    BY <2>1, <2>2, <2>3
<1>8. DocTypeOK' /\ ReadBefore'
  <2>1. claiming' \in [Claimant -> {Idle} \cup [at : Int, until : Int]]
    BY <1>1, <1>2 DEF DocTypeOK
  <2>2. \A d \in Claimant : claiming'[d] = Idle \/ claiming'[d] = claiming[d]
    BY <1>1, <1>2 DEF DocTypeOK
  <2> QED
    BY <1>1, <1>2, <1>7, <2>1, <2>2, Zenon DEF DocTypeOK, ReadBefore
<1>9. SetsAreFinite' /\ SetIsMap' /\ MembersCounted'
  BY <1>1, <1>2, <1>6, SameSets, Zenon DEF MembersCounted
<1>10. JournalRight'
  BY <1>1, <1>2, <1>6, <1>7, Zenon DEF JournalRight
<1>11. SeenRight'
  <2> SUFFICES ASSUME ~collected, seen # Idle
               PROVE  /\ locks'[seen.set].stored /\ seen.version <= locks'[seen.set].version
                      /\ locks'[seen.set].version = seen.version => DocsOf(seen.set) = seen.docs
    <3>1. DocsOf(seen.set)' = DocsOf(seen.set)
      BY <1>2, Zenon DEF DocsOf, Members
    <3> QED
      BY <1>2, <3>1, Zenon DEF SeenRight
  <2> DEFINE g == seen.set
  <2>1. /\ g \in Set /\ seen.version \in Nat /\ locks[g].stored /\ seen.version <= locks[g].version
        /\ locks[g].version = seen.version => DocsOf(g) = seen.docs
    BY <1>1, Zenon DEF DocTypeOK, SeenRight
  <2>2. locks[g].version \in Nat
    BY <1>1, <2>1 DEF DocTypeOK, Lock
  <2>3. locks'[g].stored /\ (locks'[g] = locks[g] \/ locks'[g].version = locks[g].version + 1)
    BY <1>6, <2>1, Zenon
  <2> HIDE DEF g
  <2> QED
    BY <2>1, <2>2, <2>3 DEF g
<1> QED
  BY <1>8, <1>9, <1>10, <1>11, Zenon DEF DocInv

(* The collector removes locks of empty sets, which count nothing. *)
LEMMA CollectKeeps ==
    ASSUME DocInv, CollectLocks
    PROVE  DocInv'
<1>1. /\ DocTypeOK /\ ReadBefore /\ SetsAreFinite /\ MembersCounted /\ SetIsMap
      /\ JournalRight /\ SeenRight
  BY Zenon DEF DocInv
<1>2. PICK G \in SUBSET Collectible(collector.at) :
          /\ collector' = IF G = {} THEN Idle ELSE [collector EXCEPT !.gone = G]
          /\ locks' = [g \in Set |-> IF g \in G THEN Absent ELSE locks[g]]
          /\ collected' = (collected \/ G # {})
  BY Zenon DEF CollectLocks
<1>3. collector # Idle /\ UNCHANGED <<docs, disk, now, claiming, seen>>
  BY Zenon DEF CollectLocks
<1>4. G \in SUBSET Set /\ \A g \in G : Members(docs, g) = {}
  BY Zenon DEF Collectible
<1>5. Absent \in Lock /\ Absent.numDocs = 0
  BY DEF Absent, Lock
<1>6. locks' \in [Set -> Lock] /\ \A g \in Set : locks'[g] = IF g \in G THEN Absent ELSE locks[g]
  BY <1>1, <1>2, <1>5 DEF DocTypeOK
<1>7. /\ collector' \in {Idle} \cup [at : Int, gone : SUBSET Set]
      /\ collector' # Idle => collector'.at = collector.at
      /\ G = {} => collector' = Idle
  <2>1. collector \in [at : Int, gone : SUBSET Set]
    BY <1>1, <1>3, Zenon DEF DocTypeOK
  <2> QED
    BY <1>2, <1>4, <2>1
<1>8. collected' \in BOOLEAN /\ (~collected' => ~collected /\ G = {})
  BY <1>1, <1>2, Zenon DEF DocTypeOK
<1>9. DocTypeOK' /\ ReadBefore'
  BY <1>1, <1>3, <1>6, <1>7, <1>8, Zenon DEF DocTypeOK, ReadBefore
<1>10. SetsAreFinite' /\ SetIsMap'
  BY <1>1, <1>3, SameSets, Zenon
<1>11. MembersCounted'
  <2>1. ASSUME NEW g \in Set
        PROVE  /\ locks'[g].numDocs = Cardinality(Members(docs, g))
               /\ Members(docs, g) # {} => locks'[g].stored
    <3>1. CASE g \in G
      <4>1. Members(docs, g) = {} /\ locks'[g].numDocs = 0
        BY <1>4, <1>5, <1>6, <3>1, Zenon
      <4> QED
        BY <4>1, FS_EmptySet, Zenon
    <3>2. CASE g \notin G
      BY <1>1, <1>6, <3>2, Zenon DEF MembersCounted
    <3> QED
      BY <3>1, <3>2, Zenon
  <2>2. \A g \in Set : Members(docs, g)' = Members(docs, g)
    BY <1>3, SameSets, Zenon
  <2> QED
    BY <2>1, <2>2, Zenon DEF MembersCounted
<1>12. ~collected' => locks' = locks
  BY <1>1, <1>6, <1>8 DEF DocTypeOK
<1>13. JournalRight'
  BY <1>1, <1>3, <1>7, <1>8, <1>12, Zenon DEF JournalRight
<1>14. SeenRight'
  <2>1. DocsOf(seen.set)' = DocsOf(seen.set)
    BY <1>3, Zenon DEF DocsOf, Members
  <2> QED
    BY <1>1, <1>3, <1>8, <1>12, <2>1, Zenon DEF SeenRight
<1> QED
  BY <1>9, <1>10, <1>11, <1>13, <1>14, Zenon DEF DocInv

(* What it journals of that afterwards. *)
LEMMA JournalCollectedKeeps ==
    ASSUME DocInv, JournalCollected
    PROVE  DocInv'
<1>1. /\ DocTypeOK /\ ReadBefore /\ SetsAreFinite /\ MembersCounted /\ SetIsMap
      /\ JournalRight /\ SeenRight
  BY Zenon DEF DocInv
<1>2. /\ collector # Idle /\ collector.gone # {} /\ collector' = Idle
      /\ disk' = [disk EXCEPT !.locks = [g \in Set |-> IF g \in collector.gone THEN Absent
                                                       ELSE @[g]]]
      /\ UNCHANGED <<docs, locks, now, claiming, seen, collected>>
  BY Zenon DEF JournalCollected
<1>3. collected
  BY <1>1, <1>2, Zenon DEF JournalRight
<1>4. Absent \in Lock /\ Absent.numDocs = 0
  BY DEF Absent, Lock
<1>5. disk \in [docs : DocMap, locks : [Set -> Lock]]
  BY <1>1, Zenon DEF DocTypeOK
<1>6. /\ disk' \in [docs : DocMap, locks : [Set -> Lock]] /\ disk'.docs = disk.docs
      /\ \A g \in Set : disk'.locks[g] = Absent \/ disk'.locks[g] = disk.locks[g]
  BY <1>2, <1>4, <1>5
<1>7. DocTypeOK' /\ ReadBefore'
  BY <1>1, <1>2, <1>6, Zenon DEF DocTypeOK, ReadBefore
<1>8. SetsAreFinite' /\ SetIsMap' /\ MembersCounted'
  BY <1>1, <1>2, SameSets, Zenon DEF MembersCounted
<1>9. \A g \in Set : /\ disk'.locks[g].numDocs = 0
                     /\ disk'.locks[g] = Absent \/ disk'.locks[g].stored
  <2>1. \A g \in Set : /\ disk.locks[g].numDocs = 0
                       /\ disk.locks[g] = Absent \/ disk.locks[g].stored
    BY <1>1, Zenon DEF JournalRight
  <2> QED
    BY <1>4, <1>6, <2>1, Zenon
<1>10. JournalRight' /\ SeenRight'
  BY <1>1, <1>2, <1>3, <1>6, <1>9, Zenon DEF JournalRight, SeenRight
<1> QED
  BY <1>7, <1>8, <1>10, Zenon DEF DocInv

(* What is restored of a set: its lock as journaled, or a new one, and its *)
(* count.                                                                  *)
LEMMA RestoredLock ==
    ASSUME DocInv, NEW g \in Set
    PROVE  LET back == Restored(disk.docs, disk.locks)[g]
           IN  /\ back \in Lock
               /\ back.numDocs = Cardinality(Members(docs, g))
               /\ Members(docs, g) # {} => back.stored
               /\ ~collected => back = locks[g]
<1> DEFINE all == Members(docs, g)
           l == disk.locks[g]
           back == Restored(disk.docs, disk.locks)[g]
           versions == {docs[i].version : i \in all}
           new == [Absent EXCEPT !.stored = TRUE, !.version = Max(versions) + 1]
<1>1. /\ disk.docs = docs /\ l.numDocs = 0 /\ (l = Absent \/ l.stored)
      /\ ~collected => l = Journaled(locks[g])
  BY Zenon DEF DocInv, JournalRight
<1>2. l \in Lock /\ locks[g] \in Lock
  BY DEF DocInv, DocTypeOK
<1>3. /\ locks[g].numDocs = Cardinality(all) /\ (all # {} => locks[g].stored)
      /\ IsFiniteSet(all) /\ Cardinality(all) \in Nat
  BY FS_CardinalityType, Zenon DEF DocInv, MembersCounted, SetsAreFinite
<1>4. /\ all = {} => back = l
      /\ all # {} => back = [(IF l = Absent THEN new ELSE l) EXCEPT !.numDocs = Cardinality(all)]
  <2>1. back = Restored(docs, disk.locks)[g]
    BY <1>1, Zenon
  <2>2. Restored(docs, disk.locks)[g]
          = IF all = {} THEN l
            ELSE [(IF l = Absent THEN new ELSE l) EXCEPT !.numDocs = Cardinality(all)]
    BY Zenon DEF Restored
  <2> HIDE DEF all, l, back, new
  <2> QED
    BY <2>1, <2>2, Zenon
<1>5. all # {} => new \in Lock /\ new.stored
  <2> SUFFICES ASSUME all # {} PROVE new \in Lock /\ new.stored
    BY Zenon
  <2> DEFINE f == [i \in all |-> docs[i].version]
  <2>1. versions \in SUBSET Nat /\ versions # {}
    <3>1. \A i \in all : docs[i].version \in Nat
      BY DEF DocInv, DocTypeOK, DocMap, Members, Doc
    <3> HIDE DEF all
    <3> QED
      BY <3>1
  <2>2. DOMAIN f = all /\ f = [x \in all |-> f[x]] /\ versions = {f[x] : x \in all}
    OBVIOUS
  <2> HIDE DEF f, versions, all
  <2>3. IsFiniteSet(versions)
    BY <1>3, <2>2, ImageIsFinite
  <2>4. Max(versions) \in Nat
    <3>1. versions \in SUBSET Int
      BY <2>1
    <3> QED
      BY <2>1, <2>3, <3>1, MaxIsMember, Zenon
  <2> DEFINE n == Max(versions) + 1
  <2>5. n \in Nat
    BY <2>4
  <2>6. new = [Absent EXCEPT !.stored = TRUE, !.version = n]
    BY Zenon
  <2> HIDE DEF n, new
  <2>7. Absent \in Lock
    BY DEF Absent, Lock
  <2>8. new \in Lock
    BY <2>5, <2>6, <2>7, Zenon DEF Lock
  <2>9. new.stored = TRUE
    BY <2>6, <2>7 DEF Lock
  <2> QED
    BY <2>8, <2>9, Zenon
<1> HIDE DEF all, l, back, new
<1>6. CASE all = {}
  <2>1. Cardinality(all) = 0 /\ back = l
    BY <1>4, <1>6, FS_EmptySet, Zenon
  <2>2. ~collected => back = locks[g]
    BY <1>1, <1>2, <1>3, <2>1 DEF Journaled, Lock
  <2> QED
    BY <1>1, <1>2, <1>6, <2>1, <2>2 DEF all, back
<1>7. CASE all # {}
  <2>1. ASSUME NEW k \in Lock, k.stored
        PROVE  LET b == [k EXCEPT !.numDocs = Cardinality(all)]
               IN  b \in Lock /\ b.numDocs = Cardinality(all) /\ b.stored
    BY <1>3, <2>1 DEF Lock
  <2>2. back \in Lock /\ back.numDocs = Cardinality(all) /\ back.stored
    BY <1>1, <1>2, <1>4, <1>5, <1>7, <2>1, Zenon
  <2>3. ASSUME ~collected PROVE back = locks[g]
    <3>1. l = Journaled(locks[g]) /\ locks[g].stored
      BY <1>1, <1>3, <1>7, <2>3, Zenon
    <3>2. l.stored /\ l # Absent
      BY <1>2, <3>1 DEF Journaled, Lock, Absent
    <3>3. back = [l EXCEPT !.numDocs = Cardinality(all)]
      BY <1>4, <1>7, <3>2, Zenon
    <3> QED
      BY <1>2, <1>3, <3>1, <3>3, Zenon DEF Journaled, Lock
  <2> QED
    BY <2>2, <2>3 DEF all, back
<1> QED
  BY <1>6, <1>7, Zenon

(* A restart keeps the invariant. *)
LEMMA RestartKeeps ==
    ASSUME DocInv, Restart
    PROVE  DocInv'
<1>1. /\ DocTypeOK /\ ReadBefore /\ SetsAreFinite /\ MembersCounted /\ SetIsMap
      /\ JournalRight /\ SeenRight
  BY Zenon DEF DocInv
<1>2. /\ docs' = docs /\ locks' = Restored(disk.docs, disk.locks)
      /\ claiming' = [c \in Claimant |-> Idle] /\ collector' = Idle
      /\ UNCHANGED <<disk, now, seen, collected>>
  BY <1>1, Zenon DEF Restart, JournalRight
<1>3. \A g \in Set : /\ locks'[g] \in Lock
                     /\ locks'[g].numDocs = Cardinality(Members(docs, g))
                     /\ Members(docs, g) # {} => locks'[g].stored
                     /\ ~collected => locks'[g] = locks[g]
  BY <1>2, RestoredLock, Zenon
<1>4. locks' \in [Set -> Lock]
  <2>1. locks' = [g \in Set |-> locks'[g]]
    BY <1>2, Zenon DEF Restored
  <2> QED
    BY <1>3, <2>1, ZenonT(40)
<1>5. DocTypeOK' /\ ReadBefore'
  <2>1. claiming' \in [Claimant -> {Idle} \cup [at : Int, until : Int]]
        /\ \A c \in Claimant : claiming'[c] = Idle
    BY <1>2
  <2> QED
    BY <1>1, <1>2, <1>4, <2>1, Zenon DEF DocTypeOK, ReadBefore
<1>6. SetsAreFinite' /\ SetIsMap' /\ MembersCounted'
  <2>1. \A g : Members(docs, g)' = Members(docs, g)
    BY <1>2, SameSets, Zenon
  <2> QED
    BY <1>1, <1>2, <1>3, <2>1, SameSets, Zenon DEF MembersCounted
<1>7. JournalRight'
  BY <1>1, <1>2, <1>3, Zenon DEF JournalRight
<1>8. SeenRight'
  <2>1. DocsOf(seen.set)' = DocsOf(seen.set)
    BY <1>2, Zenon DEF DocsOf, Members
  <2>2. ~collected /\ seen # Idle => seen.set \in Set /\ locks'[seen.set] = locks[seen.set]
    BY <1>1, <1>3, Zenon DEF DocTypeOK
  <2> QED
    BY <1>1, <1>2, <2>1, <2>2, Zenon DEF SeenRight
<1> QED
  BY <1>5, <1>6, <1>7, <1>8, Zenon DEF DocInv

(* The docs, the locks and the journal are left alone. *)
LEMMA StoreUntouched ==
    ASSUME DocInv, UNCHANGED <<docs, locks, disk, collected>>,
           collector' # Idle => collector'.gone = {} \/ collector' = collector
    PROVE  /\ SetsAreFinite' /\ MembersCounted' /\ SetIsMap' /\ JournalRight'
           /\ \A g : DocsOf(g)' = DocsOf(g)
<1>1. SetsAreFinite /\ MembersCounted /\ SetIsMap /\ JournalRight
  BY Zenon DEF DocInv
<1>2. SetsAreFinite' /\ SetIsMap' /\ MembersCounted'
  BY <1>1, SameSets, Zenon DEF MembersCounted
<1>3. JournalRight'
  BY <1>1, Zenon DEF JournalRight
<1>4. \A g : DocsOf(g)' = DocsOf(g)
  BY Zenon DEF DocsOf, Members
<1> QED
  BY <1>2, <1>3, <1>4, Zenon

(* A claim that resolves its hold, the clock, and the start of a           *)
(* collection.                                                             *)
LEMMA ClockKeeps ==
    ASSUME DocInv, (\E c \in Claimant : ResolveHold(c)) \/ Tick \/ StartCollection
    PROVE  DocInv'
<1>1. DocTypeOK /\ ReadBefore /\ SeenRight /\ now \in Int
  BY Zenon DEF DocInv, DocTypeOK
<1>2. UNCHANGED <<docs, locks, disk, seen, collected>>
  BY Zenon DEF ResolveHold, Tick, StartCollection
<1>3. collector' # Idle => collector'.gone = {} \/ collector' = collector
  BY DEF ResolveHold, Tick, StartCollection
<1>4. SetsAreFinite' /\ MembersCounted' /\ SetIsMap' /\ JournalRight' /\ SeenRight'
  BY <1>1, <1>2, <1>3, StoreUntouched, Zenon DEF SeenRight
<1>5. CASE \E c \in Claimant : ResolveHold(c)
  <2>1. PICK c \in Claimant, d \in Holds :
            claiming' = [claiming EXCEPT ![c] = [at |-> now, until |-> now + d]]
    BY <1>5, Zenon DEF ResolveHold
  <2>2. now' = now /\ collector' = collector /\ d \in Int
    BY <1>5, HoldsAreTimes, Zenon DEF ResolveHold
  <2>3. claiming' \in [Claimant -> {Idle} \cup [at : Int, until : Int]]
    BY <1>1, <2>1, <2>2 DEF DocTypeOK
  <2>4. \A b \in Claimant : claiming'[b] # Idle => claiming'[b].at <= now
    BY <1>1, <2>1 DEF DocTypeOK, ReadBefore
  <2> QED
    BY <1>1, <1>2, <1>4, <2>2, <2>3, <2>4, Zenon DEF DocInv, DocTypeOK, ReadBefore
<1>6. CASE Tick
  <2>1. now' = now + 1 /\ claiming' = claiming /\ collector' = collector
    BY <1>6, Zenon DEF Tick
  <2>2. \A c \in Claimant : claiming[c] # Idle => claiming[c].at <= now'
    <3>1. \A c \in Claimant : claiming[c] # Idle => claiming[c].at \in Int /\ claiming[c].at <= now
      BY <1>1 DEF DocTypeOK, ReadBefore
    <3> QED
      BY <1>1, <2>1, <3>1
  <2>3. collector # Idle => collector.at <= now'
    <3>1. collector # Idle => collector.at \in Int /\ collector.at <= now
      BY <1>1 DEF DocTypeOK, ReadBefore
    <3> QED
      BY <1>1, <2>1, <3>1
  <2>4. now' \in Int
    BY <1>1, <2>1
  <2> QED
    BY <1>1, <1>2, <1>4, <2>1, <2>2, <2>3, <2>4, Zenon DEF DocInv, DocTypeOK, ReadBefore
<1>7. CASE StartCollection
  <2>1. collector' = [at |-> now, gone |-> {}] /\ now' = now /\ claiming' = claiming
    BY <1>7, Zenon DEF StartCollection
  <2>2. collector' \in [at : Int, gone : SUBSET Set] /\ collector'.at <= now
    BY <1>1, <2>1
  <2> QED
    BY <1>1, <1>2, <1>4, <2>1, <2>2, Zenon DEF DocInv, DocTypeOK, ReadBefore
<1> QED
  BY <1>5, <1>6, <1>7, Zenon

(* A reader's steps, and no step at all. *)
LEMMA ReaderKeeps ==
    ASSUME DocInv, Reader \/ UNCHANGED docVars
    PROVE  DocInv'
<1>1. DocTypeOK /\ ReadBefore /\ SeenRight
  BY Zenon DEF DocInv
<1>2. UNCHANGED <<docs, locks, disk, now, claiming, collector, collected>>
  BY Zenon DEF Reader, Look, CommitOnSeen, docVars
<1>3. /\ SetsAreFinite' /\ MembersCounted' /\ SetIsMap' /\ JournalRight'
      /\ \A g : DocsOf(g)' = DocsOf(g)
  BY <1>2, StoreUntouched, Zenon
<1>4. CASE \E g \in Set : Look(g)
  <2>1. PICK g \in Set :
            locks[g].stored /\ seen' = [set |-> g, version |-> locks[g].version, docs |-> DocsOf(g)]
    BY <1>4, Zenon DEF Look
  <2>2. seen'.set = g /\ seen'.version = locks[g].version /\ seen'.docs = DocsOf(g)
    BY <2>1
  <2>3. locks[g].version \in Nat /\ locks[g].version <= locks[g].version
    BY <1>1 DEF DocTypeOK, Lock
  <2>4. DocTypeOK'
    BY <1>1, <1>2, <2>2, <2>3, Zenon DEF DocTypeOK
  <2>5. DocsOf(seen.set)' = DocsOf(g)
    BY <1>2, <2>2, Zenon DEF DocsOf, Members
  <2>6. SeenRight'
    BY <1>2, <2>1, <2>2, <2>3, <2>5, Zenon DEF SeenRight
  <2> QED
    BY <1>1, <1>2, <1>3, <2>4, <2>6, Zenon DEF DocInv, ReadBefore
<1>5. CASE seen' = Idle
  BY <1>1, <1>2, <1>3, <1>5, Zenon DEF DocInv, DocTypeOK, ReadBefore, SeenRight
<1>6. CASE seen' = seen
  <2>1. DocsOf(seen.set)' = DocsOf(seen.set)
    BY <1>2, <1>6, Zenon DEF DocsOf, Members
  <2> QED
    BY <1>1, <1>2, <1>3, <1>6, <2>1, Zenon DEF DocInv, DocTypeOK, ReadBefore, SeenRight
<1> QED
  BY <1>4, <1>5, <1>6, Zenon DEF Reader, CommitOnSeen, docVars

-----------------------------------------------------------------------------
(* The invariant, and what follows. *)

(* It opens that way. *)
LEMMA DocInvInit == DocInit => DocInv
<1> SUFFICES ASSUME DocInit PROVE DocInv
  OBVIOUS
<1>1. \A g \in Set : Members(docs, g) = {}
  BY DEF DocInit, Members
<1>2. Absent \in Lock /\ Absent.numDocs = 0 /\ Journaled(Absent) = Absent
  <2>1. Absent \in Lock
    BY DEF Absent, Lock
  <2>2. Absent.numDocs = 0
    BY DEF Absent
  <2> QED
    BY <2>1, <2>2 DEF Lock, Journaled
<1>3. DocTypeOK
  <2>1. docs \in DocMap /\ locks \in [Set -> Lock]
    BY <1>2 DEF DocInit, DocMap
  <2>2. disk \in [docs : DocMap, locks : [Set -> Lock]]
    BY <2>1 DEF DocInit
  <2>3. /\ now \in Int /\ claiming \in [Claimant -> {Idle} \cup [at : Int, until : Int]]
        /\ collector = Idle /\ seen = Idle
    BY DEF DocInit
  <2>4. collected \in BOOLEAN
    BY Zenon DEF DocInit
  <2> QED
    BY <2>1, <2>2, <2>3, <2>4, Zenon DEF DocTypeOK
<1>4. ReadBefore
  BY DEF DocInit, ReadBefore
<1>5. SetsAreFinite /\ SetIsMap
  BY <1>1, FS_EmptySet, Zenon DEF SetsAreFinite, SetIsMap
<1>6. \A g \in Set : locks[g] = Absent /\ disk.locks[g] = Absent
  BY DEF DocInit
<1>7. MembersCounted
  BY <1>1, <1>2, <1>6, FS_EmptySet, Zenon DEF MembersCounted
<1>8. disk.docs = docs /\ collector = Idle /\ seen = Idle
  BY DEF DocInit
<1>9. JournalRight /\ SeenRight
  BY <1>2, <1>6, <1>8, Zenon DEF JournalRight, SeenRight
<1> QED
  BY <1>3, <1>4, <1>5, <1>7, <1>9, Zenon DEF DocInv

(* Every step keeps it. *)
LEMMA DocInvNext ==
    ASSUME DocInv, [DocNext]_docVars
    PROVE  DocInv'
<1>1. CASE \E mod \in DocRequests : Modify(mod)
  BY <1>1, ModifyKeeps, Zenon
<1>2. CASE \E c \in Claimant, G \in SUBSET Set \ {{}} : ClaimDocs(c, G)
  BY <1>2, ClaimKeeps, Zenon
<1>3. CASE (\E c \in Claimant : ResolveHold(c)) \/ Tick \/ StartCollection
  BY <1>3, ClockKeeps, Zenon
<1>4. CASE CollectLocks
  BY <1>4, CollectKeeps, Zenon
<1>5. CASE JournalCollected
  BY <1>5, JournalCollectedKeeps, Zenon
<1>6. CASE Restart
  BY <1>6, RestartKeeps, Zenon
<1>7. CASE Reader \/ UNCHANGED docVars
  BY <1>7, ReaderKeeps, Zenon
<1> QED
  BY <1>1, <1>2, <1>3, <1>4, <1>5, <1>6, <1>7, Zenon DEF DocNext, ClientStep, CollectorStep

(* The docs, the locks and the journal stay as DocInv says. *)
LEMMA DocInvHolds == DocSpec => []DocInv
<1>1. DocInv /\ [DocNext]_docVars => DocInv'
  BY DocInvNext, Zenon
<1> QED
  BY <1>1, DocInvInit, PTL DEF DocSpec

(* Whatever is inserted, changed, deleted, claimed, collected and          *)
(* restarted, in any number of sets: each lock counts its set's docs.      *)
THEOREM SetsStayCounted == DocSpec => []MembersCounted
<1>1. DocInv => MembersCounted
  BY Zenon DEF DocInv
<1> QED
  BY <1>1, DocInvHolds, PTL

(* No two docs of a set ever have the same secondary key, although an      *)
(* insert looks for its place only where the count is not zero.            *)
THEOREM SetsStayMaps == DocSpec => []SetIsMap
<1>1. DocInv => SetIsMap
  BY Zenon DEF DocInv
<1> QED
  BY <1>1, DocInvHolds, PTL

(* Until the first lock is collected, a crash brings back the docs and     *)
(* every set's lock as they are.                                           *)
THEOREM DocsAreDurable == DocSpec => []DocDurable
<1>1. ASSUME DocInv, ~collected PROVE DurableThroughout
  <2>1. disk.docs = docs
    BY <1>1, Zenon DEF DocInv, JournalRight
  <2>2. \A g \in Set : Restored(disk.docs, disk.locks)[g] = locks[g]
    BY <1>1, RestoredLock, Zenon
  <2> QED
    BY <2>1, <2>2, Zenon DEF DurableThroughout
<1>2. DocInv => DocDurable
  BY <1>1, Zenon DEF DocDurable
<1> QED
  BY <1>2, DocInvHolds, PTL

(* A modification writes a set only if it may: a claim on the set is its   *)
(* sender's.                                                               *)
LEMMA WriterHolds ==
    ASSUME DocTypeOK, NEW mod \in DocRequests, Modify(mod), NEW g \in Writes(mod, docs)
    PROVE  Held(locks[g], now) => locks[g].claimant = mod.claimant
<1>1. Asked(mod, g, docs) # {} /\ ~Refused(mod, now, docs, locks)
  BY Zenon DEF Writes, Modify
<1>2. \/ \E o \in mod.inserts : o.set = g
      \/ \E o \in mod.changes \cup mod.deletes : docs[o.id].set = g
      \/ \E o \in mod.arrives : o.set = g
  BY <1>1, Zenon DEF Asked
<1>3. ~HeldByOther(locks[g], mod.claimant, now)
  BY <1>1, <1>2, Zenon DEF Refused
<1> QED
  BY <1>3, Zenon DEF HeldByOther

(* What was held when the clock was read later was held before. *)
LEMMA HeldBefore ==
    ASSUME NEW l \in Lock, NEW at \in Int, now \in Int, at <= now, Held(l, now)
    PROVE  Held(l, at)
  BY DEF Held, Lock

(* A step changes a held set only if its holder takes it, or the backend   *)
(* restarts.                                                               *)
LEMMA HolderActs ==
    ASSUME DocInv, [DocNext]_docVars, NEW g \in Set, Held(locks[g], now),
           <<DocsOf(g), locks[g]>>' # <<DocsOf(g), locks[g]>>
    PROVE  Acts(locks[g].claimant) \/ Restart
<1>1. DocTypeOK /\ ReadBefore /\ now \in Int /\ locks[g] \in Lock
  BY DEF DocInv, DocTypeOK
<1>2. DocsOf(g)' # DocsOf(g) \/ locks'[g] # locks[g]
  BY Zenon
<1>3. docs' = docs => DocsOf(g)' = DocsOf(g)
  BY Zenon DEF DocsOf, Members
<1>4. ASSUME NEW mod \in DocRequests, Modify(mod) PROVE Acts(locks[g].claimant)
  <2>1. g \in Writes(mod, docs)
    BY <1>1, <1>2, <1>4, NotWritten, Zenon
  <2>2. locks[g].claimant = mod.claimant
    BY <1>1, <1>4, <2>1, WriterHolds, Zenon
  <2> QED
    BY <1>4, <2>2, Zenon DEF Acts
<1>5. ASSUME NEW c \in Claimant, NEW G \in SUBSET Set \ {{}}, ClaimDocs(c, G)
      PROVE  Acts(locks[g].claimant)
  <2>1. docs' = docs /\ claiming[c] # Idle
    BY <1>5, Zenon DEF ClaimDocs
  <2>2. locks' # locks
    BY <1>2, <1>3, <2>1, Zenon
  <2>3. /\ ClaimAll(G, c, claiming[c].at, claiming[c].until, locks)
        /\ locks' = [f \in Set |-> IF f \in G THEN Claim(locks[f], c, claiming[c].until)
                                   ELSE locks[f]]
    BY <1>5, <2>2, Zenon DEF ClaimDocs
  <2>4. g \in G
    BY <1>2, <1>3, <2>1, <2>3
  <2>5. claiming[c].at \in Int /\ claiming[c].at <= now
    BY <1>1, <2>1 DEF DocTypeOK, ReadBefore
  <2>6. Held(locks[g], claiming[c].at)
    BY <1>1, <2>5, HeldBefore, Zenon
  <2>7. locks[g].claimant = c
    BY <2>3, <2>4, <2>6, Zenon DEF ClaimAll, HeldByOther
  <2> QED
    BY <1>5, <2>7, Zenon DEF Acts
<1>6. ASSUME CollectLocks PROVE FALSE
  <2>1. PICK G \in SUBSET Collectible(collector.at) :
            locks' = [f \in Set |-> IF f \in G THEN Absent ELSE locks[f]]
    BY <1>6, Zenon DEF CollectLocks
  <2>2. docs' = docs /\ collector # Idle
    BY <1>6, Zenon DEF CollectLocks
  <2>3. g \in G
    BY <1>2, <1>3, <2>1, <2>2
  <2>4. collector.at \in Int /\ collector.at <= now
    BY <1>1, <2>2 DEF DocTypeOK, ReadBefore
  <2>5. Held(locks[g], collector.at)
    BY <1>1, <2>4, HeldBefore, Zenon
  <2> QED
    BY <2>3, <2>5, Zenon DEF Collectible
<1>7. ASSUME UNCHANGED <<docs, locks>> PROVE FALSE
  BY <1>2, <1>3, <1>7, Zenon
<1>8. \/ \E mod \in DocRequests : Modify(mod)
      \/ \E c \in Claimant, G \in SUBSET Set \ {{}} : ClaimDocs(c, G)
      \/ CollectLocks
      \/ Restart
      \/ UNCHANGED <<docs, locks>>
  BY Zenon DEF DocNext, ClientStep, CollectorStep, Reader, ResolveHold, Tick, StartCollection,
               JournalCollected, Look, CommitOnSeen, docVars
<1> QED
  BY <1>4, <1>5, <1>6, <1>7, <1>8, Zenon

(* While a claim runs, only its holder writes, renews or claims the set    *)
(* again: neither a claim nor the collector, each with a clock it read     *)
(* before taking the namespace lock, takes it away.                        *)
THEOREM HoldersKeepSets == DocSpec => HolderKeepsSet
<1> DEFINE Kept == \A g \in Set :
               Held(locks[g], now) /\ <<DocsOf(g), locks[g]>>' # <<DocsOf(g), locks[g]>>
                   => Acts(locks[g].claimant) \/ Restart
<1>1. DocInv /\ [DocNext]_docVars => Kept
  BY HolderActs, Zenon
<1> HIDE DEF Kept
<1>2. DocSpec => [][Kept]_docVars
  BY <1>1, DocInvHolds, PTL DEF DocSpec
<1> QED
  BY <1>2 DEF Kept, HolderKeepsSet

(* A commit that depends on the version a reader saw finds the set as the  *)
(* reader saw it, until the first lock is collected.                       *)
THEOREM SeenSetsAreCurrent == DocSpec => SeenIsCurrent
<1> DEFINE Current == CommitOnSeen /\ ~collected => DocsOf(seen.set) = seen.docs
<1>1. DocInv => Current
  <2> SUFFICES ASSUME DocInv, CommitOnSeen, ~collected PROVE DocsOf(seen.set) = seen.docs
    BY Zenon
  <2>1. seen # Idle
    BY Zenon DEF CommitOnSeen
  <2> DEFINE dep == [set |-> seen.set, version |-> seen.version]
  <2>2. PICK c \in Claimant :
            ~Refused([claimant |-> c, inserts |-> {}, changes |-> {}, deletes |-> {},
                      depends |-> {}, arrives |-> {}, setDepends |-> {dep}], now, docs, locks)
    BY ZenonT(40) DEF CommitOnSeen
  <2>3. StoredSet(dep, locks)
    BY <2>2, Zenon DEF Refused
  <2>4. locks[seen.set].version = seen.version
    BY <2>3 DEF StoredSet
  <2> QED
    BY <2>1, <2>4, Zenon DEF DocInv, SeenRight
<1> HIDE DEF Current
<1>2. DocSpec => [][Current]_docVars
  BY <1>1, DocInvHolds, PTL
<1> QED
  BY <1>2 DEF Current, SeenIsCurrent
=============================================================================
