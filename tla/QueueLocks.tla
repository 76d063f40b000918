----------------------------- MODULE QueueLocks -----------------------------
(***************************************************************************)
(* The lock registry of the in-memory backend (pkg/backend/eqmem).         *)
(*                                                                         *)
(* A queue exists only while it holds tasks or while a call depends on it. *)
(* A call finds the lock structure of each queue it needs under the global *)
(* lock, counting itself a dependent, lets the global lock go, and only    *)
(* then takes the queue locks, in sorted order.  When it is done it        *)
(* unlocks them and, under the global lock again, stops being a dependent, *)
(* dropping every structure that has no dependent left and no content.     *)
(* Namespaces of docs go through the same dance, after the queues.         *)
(*                                                                         *)
(* A section of the code that runs under the global lock is one step here. *)
(* Queue and namespace names are numbers, in the order slices.Sort gives   *)
(* them.  Struct is the set of addresses a lock structure can have: a new  *)
(* structure may reuse an address that nothing points to any longer.       *)
(***************************************************************************)
EXTENDS Integers

CONSTANTS
    Call,       \* goroutines, each serving one request
    Queue,      \* queue names
    Namespace,  \* doc namespace names
    Struct,     \* addresses of lock structures
    Content,    \* what a structure's queue or namespace can hold
    Empty,      \* holding nothing
    Nil         \* the nil pointer

Name == Queue \cup Namespace

ASSUME NamesAreSorted == Name \subseteq Nat /\ Queue \cap Namespace = {}

ASSUME NilIsNoObject == Nil \notin Struct \cup Call

ASSUME EmptyIsContent == Empty \in Content

VARIABLES
    registry,    \* locksSuperUnsafe/queues (and the NS maps): name -> structure
    dependents,  \* the calls counted in each structure's dependents field
    holder,      \* the call that has locked each structure's mutex
    content,     \* the tasks or docs each structure holds
    pc,          \* where each call is
    round,       \* whether it is at its queues or at its namespaces
    want,        \* the names it has to lock
    got          \* the structures it found for them

lockVars == <<registry, dependents, holder, content, pc, round, want, got>>

PCs == {"start", "lookup", "lock", "work", "unlock", "release", "done"}

(* Every variable has its type. *)
LocksTypeOK ==
    /\ registry \in [Name -> Struct \cup {Nil}]
    /\ dependents \in [Name -> [Struct -> SUBSET Call]]
    /\ holder \in [Name -> [Struct -> Call \cup {Nil}]]
    /\ content \in [Name -> [Struct -> Content]]
    /\ pc \in [Call -> PCs]
    /\ round \in [Call -> {"queues", "namespaces"}]
    /\ want \in [Call -> SUBSET Name]
    /\ got \in [Call -> [Name -> Struct \cup {Nil}]]

(* Loading a journal leaves a structure for each name that holds something. *)
LocksInit ==
    /\ registry \in [Name -> Struct \cup {Nil}]
    /\ content \in [Name -> [Struct -> Content]]
    /\ \A n \in Name, s \in Struct : content[n][s] # Empty <=> registry[n] = s
    /\ dependents = [n \in Name |-> [s \in Struct |-> {}]]
    /\ holder = [n \in Name |-> [s \in Struct |-> Nil]]
    /\ pc = [c \in Call |-> "start"]
    /\ round = [c \in Call |-> "queues"]
    /\ want = [c \in Call |-> {}]
    /\ got = [c \in Call |-> [n \in Name |-> Nil]]

-----------------------------------------------------------------------------

(* The names call c has to handle in its current round. *)
Names(c) == want[c] \cap (IF round[c] = "queues" THEN Queue ELSE Namespace)

(* Whether c has locked the structure it found for name n. *)
Holds(c, n) == got[c][n] # Nil /\ holder[n][got[c][n]] = c

(* An address at which a new structure for n can be allocated. *)
Unused(n, s) == registry[n] # s /\ \A c \in Call : got[c][n] # s

(* The length of the queue registered under n, 0 when there is none. *)
IsEmpty(n) == registry[n] = Nil \/ content[n][registry[n]] = Empty

CollectableWithContent(c, n) == dependents[n][got[c][n]] \subseteq {c}
NeverCollectable(c, n) == FALSE

(* What c, the last dependent of n's structure, may drop from the registry. *)
Collectable(c, n) == dependents[n][got[c][n]] \subseteq {c} /\ IsEmpty(n)

AnyOrder(c, n) == ~Holds(c, n)

(* n is the first name of the round, in sorted order, that c has not locked. *)
NextInOrder(c, n) == ~Holds(c, n) /\ \A m \in Names(c) : m < n => Holds(c, m)

(* A request arrives that has to lock the names ns.  Locking no queues, or *)
(* no namespaces, is skipped.                                              *)
Begin(c, ns) ==
    /\ pc[c] = "start"
    /\ ns # {}
    /\ want' = [want EXCEPT ![c] = ns]
    /\ round' = [round EXCEPT ![c] = IF ns \cap Queue # {} THEN "queues"
                                                           ELSE "namespaces"]
    /\ pc' = [pc EXCEPT ![c] = "lookup"]
    /\ UNCHANGED <<registry, dependents, holder, content, got>>

LockAnew(n, s) == Unused(n, s)

(* lockForQueueUnsafe: the registered structure, or a new one. *)
LockForQueue(n, s) == IF registry[n] = Nil THEN Unused(n, s) ELSE s = registry[n]

(* locksForQueues finds the structures of every name at once, under the    *)
(* global lock, and counts c as a dependent of each.                       *)
Lookup(c) ==
    /\ pc[c] = "lookup"
    /\ \E found \in [Names(c) -> Struct] :
        /\ \A n \in Names(c) : LockForQueue(n, found[n])
        /\ registry' = [n \in Name |-> IF n \in Names(c) THEN found[n]
                                                         ELSE registry[n]]
        /\ got' = [got EXCEPT ![c] = [n \in Name |->
                        IF n \in Names(c) THEN found[n] ELSE got[c][n]]]
        /\ dependents' = [n \in Name |-> [s \in Struct |->
                IF n \in Names(c) /\ s = found[n] THEN dependents[n][s] \cup {c}
                                                  ELSE dependents[n][s]]]
    /\ pc' = [pc EXCEPT ![c] = "lock"]
    /\ UNCHANGED <<holder, content, round, want>>

(* ql.Lock() on the first structure, in sorted order, not yet locked. *)
Lock(c) ==
    /\ pc[c] = "lock"
    /\ \E n \in Names(c) :
        /\ NextInOrder(c, n)
        /\ holder[n][got[c][n]] = Nil
        /\ holder' = [holder EXCEPT ![n][got[c][n]] = c]
    /\ UNCHANGED <<registry, dependents, content, pc, round, want, got>>

(* Every lock of the round is held: the namespaces follow the queues, and  *)
(* the work under the locks follows the namespaces.                        *)
Locked(c) ==
    /\ pc[c] = "lock"
    /\ \A n \in Names(c) : Holds(c, n)
    /\ \/ /\ round[c] = "queues" /\ want[c] \cap Namespace # {}
          /\ pc' = [pc EXCEPT ![c] = "lookup"]
          /\ round' = [round EXCEPT ![c] = "namespaces"]
       \/ /\ round[c] = "namespaces" \/ want[c] \cap Namespace = {}
          /\ pc' = [pc EXCEPT ![c] = "work"]
          /\ UNCHANGED round
    /\ UNCHANGED <<registry, dependents, holder, content, want, got>>

(* The work under the locks changes what the locked structures hold. *)
Write(c) ==
    /\ pc[c] = "work"
    /\ content' \in [Name -> [Struct -> Content]]
    /\ \A n \in Name, s \in Struct :
        content'[n][s] # content[n][s] => n \in want[c] /\ s = got[c][n]
    /\ UNCHANGED <<registry, dependents, holder, pc, round, want, got>>

(* The call returns, and its deferred unlocks run: namespaces, then queues. *)
Finish(c) ==
    /\ pc[c] = "work"
    /\ pc' = [pc EXCEPT ![c] = "unlock"]
    /\ UNCHANGED <<registry, dependents, holder, content, round, want, got>>

(* The mutexes of the round are unlocked. *)
Unlock(c) ==
    /\ pc[c] = "unlock"
    /\ holder' = [n \in Name |-> IF n \notin Names(c) THEN holder[n]
                                 ELSE [holder[n] EXCEPT ![got[c][n]] = Nil]]
    /\ pc' = [pc EXCEPT ![c] = "release"]
    /\ UNCHANGED <<registry, dependents, content, round, want, got>>

(* Under the global lock, c stops being a dependent of the round's         *)
(* structures, and those left with no dependent and nothing in them go.    *)
Release(c) ==
    /\ pc[c] = "release"
    /\ dependents' = [n \in Name |-> [s \in Struct |->
            IF n \in Names(c) /\ s = got[c][n] THEN dependents[n][s] \ {c}
                                               ELSE dependents[n][s]]]
    /\ registry' = [n \in Name |->
            IF n \in Names(c) /\ Collectable(c, n)
            THEN Nil ELSE registry[n]]
    /\ got' = [got EXCEPT ![c] = [n \in Name |-> IF n \in Names(c) THEN Nil
                                                                   ELSE got[c][n]]]
    /\ \/ /\ round[c] = "namespaces" /\ want[c] \cap Queue # {}
          /\ pc' = [pc EXCEPT ![c] = "unlock"]
          /\ round' = [round EXCEPT ![c] = "queues"]
          /\ UNCHANGED want
       \/ /\ round[c] = "queues" \/ want[c] \cap Queue = {}
          /\ pc' = [pc EXCEPT ![c] = "done"]
          /\ want' = [want EXCEPT ![c] = {}]
          /\ UNCHANGED round
    /\ UNCHANGED <<holder, content>>

LocksNext ==
    \E c \in Call :
        \/ \E ns \in SUBSET Name : Begin(c, ns)
        \/ Write(c)
        \/ Lookup(c)
        \/ Lock(c)
        \/ Locked(c)
        \/ Finish(c)
        \/ Unlock(c)
        \/ Release(c)

LocksSpec == LocksInit /\ [][LocksNext]_lockVars

(* A goroutine that can run is scheduled in the end, and a Go mutex hands  *)
(* itself to a waiter that has starved, so a lock that is free again and   *)
(* again is obtained.                                                      *)
LocksFairness ==
    \A c \in Call :
        /\ WF_lockVars(Lookup(c) \/ Locked(c) \/ Finish(c) \/ Unlock(c) \/ Release(c))
        /\ SF_lockVars(Lock(c))

FairLocksSpec == LocksSpec /\ LocksFairness

-----------------------------------------------------------------------------

(* A structure that some call has found, and has not released, is the one  *)
(* that is registered: no call waits on, or works under, a lock that       *)
(* lockQueues or lockNamespaces has already dropped.                       *)
Registered ==
    \A c \in Call, n \in Name : got[c][n] # Nil => registry[n] = got[c][n]

(* Two calls never have the same queue or namespace locked: the mutexes    *)
(* exclude each other although they are created and dropped on the fly.    *)
Exclusive ==
    \A c, d \in Call, n \in Name : Holds(c, n) /\ Holds(d, n) => c = d

(* Dropping a structure never drops what it holds: all content is in the   *)
(* structure the registry leads to.                                        *)
NothingLost ==
    \A n \in Name, s \in Struct : content[n][s] # Empty => registry[n] = s

(* The registry does not leak: a queue or namespace that no call depends   *)
(* on is registered only as long as it holds something.                    *)
NoLeak ==
    \A n \in Name :
        registry[n] # Nil /\ (\A c \in Call : got[c][n] = Nil) => ~IsEmpty(n)

(* The dependents field counts exactly the calls that have found the       *)
(* structure and not released it, and only such a call has it locked.      *)
Counted ==
    \A n \in Name, s \in Struct :
        /\ dependents[n][s] = {c \in Call : got[c][n] = s}
        /\ holder[n][s] # Nil => got[holder[n][s]][n] = s

(* Where a call is says which structures it has found, and which of them   *)
(* it has locked: all it wants while it works, those of the round while it *)
(* unlocks, and those of its queues all through the round of namespaces.   *)
InStep(c) ==
    /\ pc[c] \in {"start", "done"} => want[c] = {}
    /\ \A n \in Name : got[c][n] # Nil => n \in want[c]
    /\ \A n \in Names(c) :
        /\ pc[c] = "lookup" <=> got[c][n] = Nil
        /\ pc[c] \in {"work", "unlock"} => Holds(c, n)
        /\ pc[c] = "release" => ~Holds(c, n)
    /\ \A n \in want[c] \ Names(c) :
        IF round[c] = "namespaces" THEN Holds(c, n)
                                   ELSE got[c][n] = Nil /\ pc[c] # "work"

(* Together with the type, what every step of the dance preserves. *)
LocksInv ==
    /\ LocksTypeOK /\ Counted /\ (\A c \in Call : InStep(c))
    /\ Registered /\ NothingLost /\ NoLeak

(* Every request gets through the dance of locks, whatever names the       *)
(* requests beside it lock: sorted order leaves no circular wait.          *)
Served == \A c \in Call : pc[c] = "lookup" ~> pc[c] = "done"
=============================================================================
