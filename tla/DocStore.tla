------------------------------ MODULE DocStore ------------------------------
(***************************************************************************)
(* The doc sets of one namespace of the in-memory backend (pkg/backend/    *)
(* eqmem: docs.go, doclocks.go, docnamespace.go, the doc half of           *)
(* modifyImpl), with its journal, the collector of empty sets' locks, and  *)
(* restarts.                                                               *)
(*                                                                         *)
(* A modification checks, writes and journals under the namespace lock, so *)
(* it is one step.  A claim reads the clock and resolves its hold first    *)
(* and takes the lock later.  The collector reads the clock, removes locks *)
(* under the namespace lock, and journals the removal after releasing it.  *)
(***************************************************************************)
EXTENDS DocSets

CONSTANTS
    DocRequests,  \* the modifications clients may send
    Holds,        \* how far past now a claim's hold may reach; a matched task may have lapsed
    Batch,        \* how many locks one collection removes at most
    MaxVersion,   \* bound: no write is tried of a set that has reached it
    MaxNow,       \* bound: the last instant of the clock
    Idle          \* a claim not under way, a collector at rest, a reader that read nothing

ASSUME DocRequestsAreRequests ==
    DocRequests \subseteq DocModification /\ \A mod \in DocRequests : ValidDocs(mod)

(* A request is a few lists. *)
ASSUME DocRequestsAreFinite ==
    \A mod \in DocRequests : IsFiniteSet(DocOps(mod) \cup mod.arrives)

ASSUME HoldsAreTimes == Holds \subseteq Int

ASSUME BatchIsPositive == Batch \in Nat \ {0}

VARIABLES
    docs,       \* what is stored under each doc ID
    locks,      \* each set's lock, Absent if there is none
    disk,       \* the docs and the locks that replaying the journal so far yields
    now,        \* the backend's clock
    claiming,   \* by client, the clock a claim under way read and its hold's end
    collector,  \* the clock the collector read, and the locks it has still to journal
    seen,       \* a set, its version and its docs as a reader saw them
    collected   \* history: whether a lock has been collected so far

docVars == <<docs, locks, disk, now, claiming, collector, seen, collected>>

(* A lock in the journal has no count. *)
Journaled(l) == [l EXCEPT !.numDocs = 0]

DocInit ==
    /\ docs = [i \in DocId |-> NoDoc]
    /\ locks = [g \in Set |-> Absent]
    /\ disk = [docs |-> docs, locks |-> locks]
    /\ now = 0
    /\ claiming = [c \in Claimant |-> Idle]
    /\ collector = Idle
    /\ seen = Idle
    /\ collected = FALSE

(* A set's docs, as a reader sees them. *)
DocsOf(g) == [i \in Members(docs, g) |-> docs[i]]

-----------------------------------------------------------------------------

(* Appended to the journal: a modification's docs as it leaves them, and   *)
(* the locks written.                                                      *)
Journal(mod) ==
    disk' = [docs |-> [i \in DocId |->
                        IF \E o \in mod.inserts \cup mod.changes \cup mod.deletes : o.id = i
                        THEN docs'[i] ELSE disk.docs[i]],
             locks |-> [g \in Set |-> IF g \in Writes(mod, docs)
                                      THEN Journaled(locks'[g]) ELSE disk.locks[g]]]

Modify(mod) ==
    /\ ~Refused(mod, now, docs, locks)
    /\ \A g \in Writes(mod, docs) : locks[g].version < MaxVersion
    /\ docs' = DocsAfter(mod, docs, locks)
    /\ locks' = Plan(mod, now, docs, locks)
    /\ Journal(mod)
    /\ UNCHANGED <<now, claiming, collector, seen, collected>>

(* ClaimDocs before it takes the namespace lock: the clock is read and the *)
(* hold resolved, from a duration or from the task it is to match.         *)
ResolveHold(c) ==
    /\ claiming[c] = Idle
    /\ \E d \in Holds : claiming' = [claiming EXCEPT ![c] = [at |-> now, until |-> now + d]]
    /\ UNCHANGED <<docs, locks, disk, now, collector, seen, collected>>

(* ClaimDocs under the lock: all the sets or none, and journaled. *)
ClaimDocs(c, G) ==
    /\ claiming[c] # Idle
    /\ claiming' = [claiming EXCEPT ![c] = Idle]
    /\ IF ClaimAll(G, c, claiming[c].at, claiming[c].until, locks)
       THEN /\ \A g \in G : locks[g].version < MaxVersion
            /\ locks' = [g \in Set |-> IF g \in G THEN Claim(locks[g], c, claiming[c].until)
                                       ELSE locks[g]]
            /\ disk' = [disk EXCEPT !.locks = [g \in Set |-> IF g \in G THEN Journaled(locks'[g])
                                                             ELSE @[g]]]
       ELSE UNCHANGED <<locks, disk>>
    /\ UNCHANGED <<docs, now, collector, seen, collected>>

-----------------------------------------------------------------------------

(* collectLocksOnce reads the clock... *)
StartCollection ==
    /\ collector = Idle
    /\ collector' = [at |-> now, gone |-> {}]
    /\ UNCHANGED <<docs, locks, disk, now, claiming, seen, collected>>

Collectible(at) ==
    {g \in Set : locks[g].stored /\ ~Held(locks[g], at) /\ Members(docs, g) = {}}

(* ...removes, under the namespace lock, the locks of up to Batch sets     *)
(* that are empty and not held...                                          *)
CollectLocks ==
    /\ collector # Idle
    /\ collector.gone = {}
    /\ \E G \in SUBSET Collectible(collector.at) :
           /\ Cardinality(G) = Min({Batch, Cardinality(Collectible(collector.at))})
           /\ collector' = IF G = {} THEN Idle ELSE [collector EXCEPT !.gone = G]
           /\ locks' = [g \in Set |-> IF g \in G THEN Absent ELSE locks[g]]
           /\ collected' = (collected \/ G # {})
    /\ UNCHANGED <<docs, disk, now, claiming, seen>>

(* ...and journals their removal, without it. *)
JournalCollected ==
    /\ collector # Idle
    /\ collector.gone # {}
    /\ disk' = [disk EXCEPT !.locks = [g \in Set |-> IF g \in collector.gone THEN Absent
                                                     ELSE @[g]]]
    /\ collector' = Idle
    /\ UNCHANGED <<docs, locks, now, claiming, seen, collected>>

-----------------------------------------------------------------------------

RestoredUncounted(ds, ls) == ls

(* finishDocReplay: a set with docs and no lock gets one past its highest  *)
(* doc, and every set with docs is counted.                                *)
Restored(ds, ls) ==
    [g \in Set |->
        LET all == Members(ds, g)
        IN  IF all = {} THEN ls[g]
            ELSE [(IF ls[g] = Absent
                   THEN [Absent EXCEPT !.stored = TRUE,
                                       !.version = Max({ds[i].version : i \in all}) + 1]
                   ELSE ls[g]) EXCEPT !.numDocs = Cardinality(all)]]

(* The server stops at any moment, and starts again from its journal. *)
Restart ==
    /\ docs' = disk.docs
    /\ locks' = Restored(disk.docs, disk.locks)
    /\ claiming' = [c \in Claimant |-> Idle]
    /\ collector' = Idle
    /\ UNCHANGED <<disk, now, seen, collected>>

Tick == now < MaxNow /\ now' = now + 1 /\ UNCHANGED <<docs, locks, disk, claiming, collector, seen, collected>>

(* A client reads a stored set and its version. *)
Look(g) ==
    /\ seen = Idle
    /\ locks[g].stored
    /\ seen' = [set |-> g, version |-> locks[g].version, docs |-> DocsOf(g)]
    /\ UNCHANGED <<docs, locks, disk, now, claiming, collector, collected>>

(* It commits a modification that depends on the version it saw. *)
CommitOnSeen ==
    /\ seen # Idle
    /\ \E c \in Claimant :
           ~Refused([claimant |-> c, inserts |-> {}, changes |-> {}, deletes |-> {},
                     depends |-> {}, arrives |-> {},
                     setDepends |-> {[set |-> seen.set, version |-> seen.version]}],
                    now, docs, locks)
    /\ seen' = Idle
    /\ UNCHANGED <<docs, locks, disk, now, claiming, collector, collected>>

(* Clients send these modifications and claim these sets. *)
ClientStep(mods, sets) ==
    \/ \E mod \in mods : Modify(mod)
    \/ \E c \in Claimant : ResolveHold(c)
    \/ \E c \in Claimant, G \in SUBSET sets \ {{}} : ClaimDocs(c, G)
    \/ Tick

CollectorStep == StartCollection \/ CollectLocks \/ JournalCollected

Reader == (\E g \in Set : Look(g)) \/ CommitOnSeen

DocNext == ClientStep(DocRequests, Set) \/ Restart \/ CollectorStep \/ Reader

DocSpec == DocInit /\ [][DocNext]_docVars

-----------------------------------------------------------------------------

(* A lock's count is the number of docs in its set, and a set with docs    *)
(* has a lock: Evaluate skips looking for a place's occupant when the      *)
(* count is zero, and the collector trusts neither.                        *)
MembersCounted ==
    \A g \in Set : /\ locks[g].numDocs = Cardinality(Members(docs, g))
                   /\ Members(docs, g) # {} => locks[g].stored

(* A set is a map from secondary keys to docs, whatever order inserts,     *)
(* deletes, collections and restarts come in.                              *)
SetIsMap ==
    \A g \in Set : \A i, j \in Members(docs, g) : docs[i].place = docs[j].place => i = j

(* What a crash now would bring back is what clients were told: the docs,  *)
(* and every set's version, claimant, arrival and count.  A lock collected *)
(* and not yet journaled may come back.                                    *)
DurableThroughout ==
    LET pending == IF collector = Idle THEN {} ELSE collector.gone
        back == Restored(disk.docs, disk.locks)
    IN  /\ disk.docs = docs
        /\ \A g \in Set : back[g] = locks[g] \/ (g \in pending /\ locks[g] = Absent)

(* That holds until the first lock is collected. *)
DocDurable == ~collected => DurableThroughout

(* Client c is the one who acts in this step. *)
Acts(c) ==
    \/ \E mod \in DocRequests : mod.claimant = c /\ Modify(mod)
    \/ \E G \in SUBSET Set \ {{}} : ClaimDocs(c, G)

(* While a claim runs, only its holder inserts, changes or deletes in the  *)
(* set, renews it or claims it again, although claims and the collector    *)
(* look at it with a clock they read before taking the lock.  (What a      *)
(* restart keeps of it is DocDurable.)                                     *)
HolderKeepsSet ==
    [][\A g \in Set : Held(locks[g], now) /\ <<DocsOf(g), locks[g]>>' # <<DocsOf(g), locks[g]>>
                          => Acts(locks[g].claimant) \/ Restart]_docVars

(* A modification that depends on the version a reader saw commits only if *)
(* the set, membership included, is as it saw it, until the first lock is  *)
(* collected: a set that starts again has versions it had before.          *)
SeenIsCurrent == [][CommitOnSeen /\ ~collected => DocsOf(seen.set) = seen.docs]_docVars
=============================================================================
