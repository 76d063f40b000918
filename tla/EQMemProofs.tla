---------------------------- MODULE EQMemProofs ----------------------------
(***************************************************************************)
(* The in-memory backend keeps IDs unique, its index right and its journal *)
(* complete, and implements TaskStore and QueueLocks.  First, the          *)
(* invariant that ties its queues, its index and its journal together, and *)
(* what a journal entry does to queues and to an index; then, that its     *)
(* steps keep the invariant as long as they keep the locks in order; and   *)
(* last, that what it writes is what TaskStore says, and, with the locks   *)
(* of QueueLocksProofs, the theorems.                                      *)
(***************************************************************************)
EXTENDS EQMem, TLAPS

Written == [id : Id, from : Queue, task : Task]

Placed == [id : Id, task : Task]

Entry == [claimant : Claimant \cup {NoOne}, deletes : SUBSET TaskID,
          depends : SUBSET TaskID, changes : SUBSET Written, inserts : SUBSET Placed]

Journals == [ok : {TRUE}, tasks : [Queue -> Contents], qByID : [Id -> Queue \cup {Nil}]]

(* No ID is in two operations of an entry. *)
Keyed(e) ==
    /\ \A x, y \in e.changes : x.id = y.id => x = y
    /\ \A x, y \in e.inserts : x.id = y.id => x = y
    /\ Ids(e.changes) \cap Ids(e.inserts) = {}
    /\ Ids(e.deletes) \cap Ids(Put(e)) = {}

(* The entry is about these queues only. *)
Within(e, Q) ==
    /\ \A x \in e.changes : x.from \in Q /\ x.task.queue \in Q
    /\ \A x \in e.inserts : x.task.queue \in Q
    /\ \A x \in e.deletes \cup e.depends : x.queue \in Q

(* The index has the tasks of the entry where the entry found them. *)
Indexed(index, e) ==
    /\ \A x \in e.deletes : index[x.id] = x.queue
    /\ \A x \in e.changes : index[x.id] = x.from
    /\ \A x \in e.inserts : index[x.id] = Nil

(* An index tells which of the queues in Q a task is in. *)
Agrees(tasks, index, Q) ==
    \A q \in Q, i \in Id : tasks[q][i] # NoTask <=> index[i] = q

Mem == [q \in Queue |-> Memory(q)]

-----------------------------------------------------------------------------
(* What every step preserves. *)

MemTypeOK ==
    /\ qByID \in [Id -> Queue \cup {Nil}]
    /\ req \in [Call -> ValidRequests \cup ClaimQuery \cup {NoRequest}]
    /\ prep \in [Call -> [failed : BOOLEAN, misplaced : {{}}]]
    /\ step \in [Call -> {"none", "apply", "index", "journal"}]
    /\ entry \in [Call -> Entry]
    /\ disk \in Journals
    /\ used \in SUBSET Id
    /\ now \in Nat

(* The IDs that c has to insert, or is inserting. *)
Mine(c) == IF req[c] \in ValidRequests THEN Ids(req[c].inserts) ELSE {}

(* How far c is says where it is, and what it wants to have locked. *)
Serving(c) ==
    /\ step[c] \in {"index", "journal"} => pc[c] = "work"
    /\ step[c] # "none" => pc[c] \in {"lookup", "lock", "work"}
    /\ step[c] = "none" <=> req[c] = NoRequest
    /\ req[c] \in ValidRequests => \A o \in Ops(req[c]) : OpQueues(o) \subseteq want[c]
    /\ req[c] \in ClaimQuery => req[c].queue \in want[c]

(* What c has to insert is nowhere until c puts it there. *)
Fresh(c) ==
    \A i \in Mine(c) :
        /\ i \in used
        /\ \A d \in Call \ {c} : i \notin Mine(d)
        /\ disk.qByID[i] = Nil
        /\ step[c] # "journal" => qByID[i] = Nil
        /\ step[c] = "apply" => \A q \in Queue : Memory(q)[i] = NoTask

(* What c has done and not yet indexed or journaled. *)
Pending(c) ==
    LET e == entry[c]
    IN  /\ Keyed(e) /\ Within(e, want[c]) /\ Ids(e.inserts) \subseteq Mine(c)
        /\ Replayable(disk, e)
        /\ \A q \in want[c], i \in Id :
            Lapsed(Mem[q][i]) = Lapsed(Rewritten(disk.tasks, Gone(e), Put(e))[q][i])
        /\ step[c] = "index" => /\ Indexed(qByID, e)
                                /\ Agrees(Mem, Reindexed(qByID, e), want[c])

(* Tasks are in the queues they say they are in, and no ID is unused. *)
InPlace(tasks) ==
    \A q \in Queue, i \in Id : tasks[q][i] # NoTask => tasks[q][i].queue = q /\ i \in used

MemInv ==
    /\ LocksInv /\ MemTypeOK
    /\ \A c \in Call : /\ Serving(c) /\ Fresh(c)
                       /\ step[c] \in {"index", "journal"} => Pending(c)
    /\ IndexAgrees /\ Journaled
    /\ Agrees(disk.tasks, disk.qByID, Queue)
    /\ InPlace(Mem) /\ InPlace(disk.tasks)

(* What it means that an entry is ready to be carried out by c. *)
Ready(c, e) ==
    /\ e \in Entry /\ Keyed(e) /\ Within(e, want[c]) /\ Ids(e.inserts) \subseteq Mine(c)
    /\ Replayable(disk, e) /\ Indexed(qByID, e)

-----------------------------------------------------------------------------
(* What the queues hold. *)

(* What QueueLocks assumes of its constants. *)
LEMMA LocksAssumed ==
    /\ Queue \cup {} \subseteq Nat /\ Queue \cap {} = {}
    /\ Nil \notin Struct \cup Call
    /\ NoTasks \in Contents
<1>1. NoTasks \in Contents
  BY Zenon DEF NoTasks, Contents
<1> QED
  BY <1>1, QueuesAreSorted, NilIsNothing, Zenon

(* There are no names but those of queues. *)
LEMMA NameIsQueue == Name = Queue
  BY Zenon DEF Name

(* A queue holds tasks, or nothing, under each ID. *)
LEMMA MemoryTyped ==
    ASSUME LocksInv, NEW q \in Queue
    PROVE  Memory(q) \in Contents /\ Mem[q] = Memory(q)
<1>1. registry[q] \in Struct \cup {Nil} /\ \A s \in Struct : content[q][s] \in Contents
  BY NameIsQueue, Zenon DEF LocksInv, LocksTypeOK
<1>2. Memory(q) \in Contents
  BY <1>1, LocksAssumed, Zenon DEF Memory
<1> QED
  BY <1>2, Zenon DEF Mem

(* A call that works under its locks has the registered queues. *)
LEMMA WorksOnMemory ==
    ASSUME LocksInv, NEW c \in Call, pc[c] = "work", NEW q \in want[c]
    PROVE  /\ q \in Queue /\ got[c][q] \in Struct /\ registry[q] = got[c][q]
           /\ holder[q][got[c][q]] = c
           /\ Locking(c)[q] = Memory(q) /\ Memory(q) = content[q][got[c][q]]
<1>1. q \in Queue /\ want[c] \subseteq Queue /\ got[c][q] \in Struct \cup {Nil}
  BY NameIsQueue DEF LocksInv, LocksTypeOK
<1>2. InStep(c)
  BY Zenon DEF LocksInv
<1>3. Holds(c, q)
  <2>1. CASE q \in Names(c)
    BY <1>2, <2>1, Zenon DEF InStep
  <2>2. CASE q \notin Names(c)
    BY <1>2, <2>2, Zenon DEF InStep
  <2> QED
    BY <2>1, <2>2, Zenon
<1>4. got[c][q] # Nil /\ holder[q][got[c][q]] = c
  BY <1>3, Zenon DEF Holds
<1>5. registry[q] = got[c][q]
  BY <1>1, <1>4, NameIsQueue, Zenon DEF LocksInv, Registered
<1>6. got[c][q] \in Struct /\ registry[q] # Nil
  BY <1>1, <1>4, <1>5, Zenon
<1>7. Memory(q) = content[q][got[c][q]]
  BY <1>5, <1>6, Zenon DEF Memory
<1>8. Locking(c)[q] = content[q][got[c][q]]
  BY <1>1, Zenon DEF Locking
<1> QED
  BY <1>1, <1>4, <1>5, <1>6, <1>7, <1>8, Zenon

(* Two calls never work on one queue. *)
LEMMA WorkApart ==
    ASSUME LocksInv, NEW c \in Call, NEW d \in Call, c # d, pc[c] = "work", pc[d] = "work"
    PROVE  want[c] \cap want[d] = {}
<1> SUFFICES ASSUME NEW q \in want[c], q \in want[d] PROVE FALSE
  BY Zenon
<1>1. registry[q] = got[c][q] /\ holder[q][got[c][q]] = c
  BY WorksOnMemory, Zenon
<1>2. registry[q] = got[d][q] /\ holder[q][got[d][q]] = d
  BY WorksOnMemory, Zenon
<1> QED
  BY <1>1, <1>2, Zenon

(* The dance changes nothing of what the queues hold. *)
LEMMA DanceKeepsMemory ==
    ASSUME LocksInv, NEW c \in Call,
           Lookup(c) \/ Lock(c) \/ Locked(c) \/ Unlock(c) \/ Release(c) \/ Finish(c)
    PROVE  /\ \A q \in Queue : Memory(q)' = Memory(q)
           /\ Mem' = Mem
<1>1. ASSUME NEW q \in Queue PROVE Memory(q)' = Memory(q)
  <2>1. content' = content
    BY Zenon DEF Lookup, Lock, Locked, Unlock, Release, Finish
  <2>2. CASE registry'[q] = registry[q]
    BY <2>1, <2>2, Zenon DEF Memory
  <2>3. CASE registry'[q] # registry[q]
    <3>1. CASE Lookup(c)
      <4>1. PICK found \in [Names(c) -> Struct] :
              /\ \A n \in Names(c) : LockForQueue(n, found[n])
              /\ registry' = [n \in Name |-> IF n \in Names(c) THEN found[n] ELSE registry[n]]
        BY <3>1, Zenon DEF Lookup
      <4>2. q \in Names(c) /\ registry'[q] = found[q] /\ found[q] \in Struct
        BY <2>3, <4>1, NameIsQueue, Zenon
      <4>3. registry[q] = Nil
        BY <2>3, <4>1, <4>2, Zenon DEF LockForQueue
      <4>4. content[q][found[q]] = NoTasks
        BY <4>2, <4>3, LocksAssumed, NameIsQueue, Zenon DEF LocksInv, NothingLost
      <4>5. found[q] # Nil
        BY <4>2, LocksAssumed, Zenon
      <4> QED
        BY <2>1, <4>2, <4>3, <4>4, <4>5, Zenon DEF Memory
    <3>2. CASE Release(c)
      <4>1. registry' = [n \in Name |->
                IF n \in Names(c) /\ Collectable(c, n) THEN Nil ELSE registry[n]]
        BY <3>2, Zenon DEF Release
      <4>2. registry'[q] = Nil /\ IsEmpty(q)
        BY <2>3, <4>1, NameIsQueue, Zenon DEF Collectable
      <4> QED
        BY <4>2, Zenon DEF Memory, IsEmpty
    <3>3. CASE Lock(c) \/ Locked(c) \/ Unlock(c) \/ Finish(c)
      BY <2>3, <3>3, Zenon DEF Lock, Locked, Unlock, Finish
    <3> QED
      BY <3>1, <3>2, <3>3, Zenon
  <2> QED
    BY <2>2, <2>3, Zenon
<1>2. Mem' = Mem
  BY <1>1, Zenon DEF Mem
<1> QED
  BY <1>1, <1>2, Zenon

-----------------------------------------------------------------------------
(* Entries, and what they make of queues and of an index. *)

(* What is written under an ID is one task. *)
LEMMA OnePut ==
    ASSUME NEW e, Keyed(e), NEW x \in Put(e), NEW y \in Put(e), x.id = y.id
    PROVE  x = y
  BY ZenonT(40) DEF Keyed, Put, Ids

(* A place is left empty by a delete, or by a change that moves its task. *)
LEMMA GoneFrom ==
    ASSUME NEW e, NEW i, NEW q
    PROVE  <<i, q>> \in Gone(e) <=>
              \/ \E x \in e.deletes : x.id = i /\ x.queue = q
              \/ \E x \in e.changes : x.id = i /\ x.from = q /\ x.from # x.task.queue
  BY Zenon DEF Gone

(* The task written to a place, if there is one. *)
LEMMA RewrittenPut ==
    ASSUME NEW T, NEW e, Keyed(e), NEW p \in Put(e), p.id \in Id, p.task.queue \in Queue
    PROVE  Rewritten(T, Gone(e), Put(e))[p.task.queue][p.id] = p.task
<1> DEFINE x == CHOOSE x \in Put(e) : x.id = p.id /\ x.task.queue = p.task.queue
<1>1. Rewritten(T, Gone(e), Put(e))[p.task.queue][p.id] = x.task
  BY Zenon DEF Rewritten
<1>2. x \in Put(e) /\ x.id = p.id
  BY Zenon
<1>3. x = p
  BY <1>2, OnePut, Zenon
<1> QED
  BY <1>1, <1>3, Zenon

(* Any other place is emptied, or left as it is. *)
LEMMA RewrittenElse ==
    ASSUME NEW T, NEW e, NEW q \in Queue, NEW i \in Id,
           \A p \in Put(e) : p.id = i => p.task.queue # q
    PROVE  Rewritten(T, Gone(e), Put(e))[q][i] =
              IF <<i, q>> \in Gone(e) THEN NoTask ELSE T[q][i]
  BY Zenon DEF Rewritten

(* An ID that is put somewhere is indexed by what puts it there. *)
LEMMA ReindexedBy ==
    ASSUME NEW X, NEW e, Keyed(e), NEW i \in Id, \E p \in Put(e) : p.id = i
    PROVE  \E x \in Put(e) : x.id = i /\ Reindexed(X, e)[i] = x.task.queue
<1> DEFINE x == CHOOSE x \in Put(e) : x.id = i
           del == i \in Ids(e.deletes)
           put == \E p \in Put(e) : p.id = i
           to == x.task.queue
<1>1. x \in Put(e) /\ x.id = i
  BY Zenon
<1>2. Reindexed(X, e)[i] = CASE put -> to [] del -> Nil [] OTHER -> X[i]
  BY Zenon DEF Reindexed
<1>3. put /\ ~del
  BY Zenon DEF Keyed, Ids
<1> HIDE DEF x, put, del, to
<1>4. Reindexed(X, e)[i] = to
  BY <1>2, <1>3, Zenon
<1> QED
  BY <1>1, <1>4, Zenon DEF to

(* The queue an ID is put in, if it is. *)
LEMMA ReindexedPut ==
    ASSUME NEW X, NEW e, Keyed(e), NEW p \in Put(e), p.id \in Id
    PROVE  Reindexed(X, e)[p.id] = p.task.queue
<1>1. PICK x \in Put(e) : x.id = p.id /\ Reindexed(X, e)[p.id] = x.task.queue
  <2>1. \E x \in Put(e) : x.id = p.id
    BY Zenon
  <2> QED
    BY <2>1, ReindexedBy
<1>2. x = p
  BY <1>1, OnePut, Zenon
<1> QED
  BY <1>1, <1>2, Zenon

(* Any other ID is dropped, or stays where it is. *)
LEMMA ReindexedElse ==
    ASSUME NEW X, NEW e, NEW i \in Id, \A p \in Put(e) : p.id # i
    PROVE  Reindexed(X, e)[i] = IF i \in Ids(e.deletes) THEN Nil ELSE X[i]
<1>1. CASE i \in Ids(e.deletes)
  BY <1>1, Zenon DEF Reindexed
<1>2. CASE i \notin Ids(e.deletes)
  BY <1>2, Zenon DEF Reindexed
<1> QED
  BY <1>1, <1>2, Zenon

(* An entry of the right type has these parts. *)
LEMMA EntryParts ==
    ASSUME NEW e \in Entry
    PROVE  /\ \A x \in e.deletes \cup e.depends :
                  x.id \in Id /\ x.queue \in Queue /\ x.version \in Nat
           /\ \A x \in e.changes : x.id \in Id /\ x.from \in Queue /\ x.task \in Task
           /\ \A x \in e.inserts : x.id \in Id /\ x.task \in Task
           /\ \A x \in Put(e) : /\ x.id \in Id /\ x.task \in Task
                                /\ x.task.queue \in Queue /\ x.task # NoTask
<1>1. /\ \A x \in e.deletes \cup e.depends :
             x.id \in Id /\ x.queue \in Queue /\ x.version \in Nat
  BY Zenon DEF Entry, TaskID
<1>2. \A x \in e.changes : x.id \in Id /\ x.from \in Queue /\ x.task \in Task
  BY Zenon DEF Entry, Written
<1>3. \A x \in e.inserts : x.id \in Id /\ x.task \in Task
  BY Zenon DEF Entry, Placed
<1>4. \A t \in Task : t.queue \in Queue /\ t # NoTask
  BY NoTaskIsNoTask, Zenon DEF Task
<1> QED
  BY <1>1, <1>2, <1>3, <1>4, Zenon DEF Put

(* What becomes of typed queues, and of a typed index, is typed. *)
LEMMA RewrittenTyped ==
    ASSUME NEW T \in [Queue -> Contents], NEW e \in Entry
    PROVE  Rewritten(T, Gone(e), Put(e)) \in [Queue -> Contents]
<1> DEFINE R == Rewritten(T, Gone(e), Put(e))
<1>1. ASSUME NEW q \in Queue, NEW i \in Id PROVE R[q][i] \in Task \cup {NoTask}
  <2>1. CASE \E p \in Put(e) : p.id = i /\ p.task.queue = q
    <3> DEFINE x == CHOOSE p \in Put(e) : p.id = i /\ p.task.queue = q
    <3>1. R[q][i] = x.task
      BY <2>1, Zenon DEF Rewritten
    <3>2. x \in Put(e)
      BY <2>1, Zenon
    <3> QED
      BY <3>1, <3>2, EntryParts, Zenon
  <2>2. CASE ~\E p \in Put(e) : p.id = i /\ p.task.queue = q
    <3>1. R[q][i] = NoTask \/ R[q][i] = T[q][i]
      <4>1. \A p \in Put(e) : p.id = i => p.task.queue # q
        BY <2>2, Zenon
      <4>2. R[q][i] = IF <<i, q>> \in Gone(e) THEN NoTask ELSE T[q][i]
        BY <4>1, RewrittenElse
      <4> QED
        BY <4>2, Zenon
    <3>2. T[q][i] \in Task \cup {NoTask}
      BY Zenon DEF Contents
    <3> QED
      BY <3>1, <3>2, Zenon
  <2> QED
    BY <2>1, <2>2, Zenon
<1>2. R = [q \in Queue |-> R[q]] /\ \A q \in Queue : R[q] = [i \in Id |-> R[q][i]]
  BY Zenon DEF Rewritten
<1> HIDE DEF R
<1>3. ASSUME NEW q \in Queue PROVE R[q] \in Contents
  <2>1. [i \in Id |-> R[q][i]] \in Contents
    BY <1>1, Zenon DEF Contents
  <2> QED
    BY <1>2, <2>1, Zenon
<1>4. [q \in Queue |-> R[q]] \in [Queue -> Contents]
  BY <1>3, Zenon
<1>5. R \in [Queue -> Contents]
  BY <1>2, <1>4, Zenon
<1> QED
  BY <1>5, Zenon DEF R

(* And it leaves an index an index. *)
LEMMA ReindexedTyped ==
    ASSUME NEW X \in [Id -> Queue \cup {Nil}], NEW e \in Entry, Keyed(e)
    PROVE  Reindexed(X, e) \in [Id -> Queue \cup {Nil}]
<1> DEFINE R == Reindexed(X, e)
<1>1. ASSUME NEW i \in Id PROVE R[i] \in Queue \cup {Nil}
  <2>1. CASE \E p \in Put(e) : p.id = i
    <3>1. PICK x \in Put(e) : R[i] = x.task.queue
      BY <2>1, ReindexedBy
    <3> QED
      BY <3>1, EntryParts, Zenon
  <2>2. CASE ~\E p \in Put(e) : p.id = i
    <3>1. R[i] = Nil \/ R[i] = X[i]
      BY <2>2, ReindexedElse
    <3>2. X[i] \in Queue \cup {Nil}
      BY Zenon
    <3> QED
      BY <3>1, <3>2, Zenon
  <2> QED
    BY <2>1, <2>2, Zenon
<1>2. Reindexed(X, e) = [i \in Id |-> Reindexed(X, e)[i]]
  BY DEF Reindexed
<1>3. [i \in Id |-> Reindexed(X, e)[i]] \in [Id -> Queue \cup {Nil}]
  BY <1>1, Zenon
<1> QED
  BY <1>2, <1>3, Zenon

(* A queue that the entry is not about keeps what it has. *)
LEMMA RewrittenElsewhere ==
    ASSUME NEW T, NEW e, NEW S, Within(e, S), NEW q \in Queue, q \notin S, NEW i \in Id
    PROVE  Rewritten(T, Gone(e), Put(e))[q][i] = T[q][i]
<1>1. \A p \in Put(e) : p.id = i => p.task.queue # q
  BY Zenon DEF Within, Put
<1>2. <<i, q>> \notin Gone(e)
  <2>1. \A x \in e.deletes : x.queue # q
    BY Zenon DEF Within
  <2>2. \A x \in e.changes : x.from # q
    BY Zenon DEF Within
  <2> QED
    BY <2>1, <2>2, GoneFrom
<1>3. Rewritten(T, Gone(e), Put(e))[q][i] =
              IF <<i, q>> \in Gone(e) THEN NoTask ELSE T[q][i]
  BY <1>1, RewrittenElse
<1> QED
  BY <1>2, <1>3, Zenon

(* And the index has the same IDs there. *)
LEMMA ReindexedElsewhere ==
    ASSUME NEW X, NEW e \in Entry, NEW S, Keyed(e), Within(e, S), Indexed(X, e),
           NEW q \in Queue, q \notin S, NEW i \in Id
    PROVE  Reindexed(X, e)[i] = q <=> X[i] = q
<1>1. CASE \E p \in Put(e) : p.id = i
  <2>1. PICK p \in Put(e) : p.id = i
    BY <1>1, Zenon
  <2>2. Reindexed(X, e)[i] = p.task.queue
    BY <2>1, ReindexedPut, Zenon
  <2>3. p.task.queue \in S
    BY Zenon DEF Within, Put
  <2>4. X[i] \in S \cup {Nil}
    <3>1. CASE p \in e.changes
      BY <2>1, <3>1, Zenon DEF Within, Indexed
    <3>2. CASE p \in e.inserts
      BY <2>1, <3>2, Zenon DEF Indexed
    <3> QED
      BY <3>1, <3>2, Zenon DEF Put
  <2>5. q # Nil
    BY NilIsNothing, Zenon
  <2> QED
    BY <2>2, <2>3, <2>4, <2>5, Zenon
<1>2. CASE \A p \in Put(e) : p.id # i
  <2>1. Reindexed(X, e)[i] = IF i \in Ids(e.deletes) THEN Nil ELSE X[i]
    BY <1>2, ReindexedElse, Zenon
  <2>2. i \in Ids(e.deletes) => X[i] \in S
    BY DEF Ids, Within, Indexed
  <2>3. q # Nil
    BY NilIsNothing, Zenon
  <2> QED
    BY <2>1, <2>2, <2>3, Zenon
<1> QED
  BY <1>1, <1>2, Zenon

(* An index that tells where tasks are still does so once both the queues  *)
(* and the index have followed an entry that it fits.                      *)
LEMMA RewrittenAgrees ==
    ASSUME NEW T, NEW X, NEW e \in Entry, NEW S \in SUBSET Queue,
           Keyed(e), Indexed(X, e), Agrees(T, X, S)
    PROVE  Agrees(Rewritten(T, Gone(e), Put(e)), Reindexed(X, e), S)
<1> DEFINE R == Rewritten(T, Gone(e), Put(e))
<1> SUFFICES ASSUME NEW q \in S, NEW i \in Id
             PROVE  R[q][i] # NoTask <=> Reindexed(X, e)[i] = q
  BY Zenon DEF Agrees
<1>1. q \in Queue /\ q # Nil /\ (T[q][i] # NoTask <=> X[i] = q)
  BY NilIsNothing, Zenon DEF Agrees
<1>2. CASE \E p \in Put(e) : p.id = i
  <2>1. PICK p \in Put(e) : p.id = i
    BY <1>2, Zenon
  <2>2. Reindexed(X, e)[i] = p.task.queue
    BY <2>1, ReindexedPut, Zenon
  <2>3. CASE p.task.queue = q
    <3>1. R[q][i] = p.task
      BY <1>1, <2>1, <2>3, RewrittenPut, Zenon
    <3>2. p.task # NoTask
      BY EntryParts, Zenon
    <3> QED
      BY <2>2, <2>3, <3>1, <3>2, Zenon
  <2>4. CASE p.task.queue # q
    <3>1. \A x \in Put(e) : x.id = i => x.task.queue # q
      BY <2>1, <2>4, OnePut, Zenon
    <3>2. R[q][i] = IF <<i, q>> \in Gone(e) THEN NoTask ELSE T[q][i]
      BY <1>1, <3>1, RewrittenElse
    <3>3. CASE p \in e.changes
      <4>1. X[i] = q => <<i, q>> \in Gone(e)
        BY <2>1, <2>4, <3>3, GoneFrom DEF Indexed
      <4> QED
        BY <1>1, <2>2, <2>4, <3>2, <4>1, Zenon
    <3>4. CASE p \in e.inserts
      <4>1. X[i] = Nil
        BY <2>1, <3>4, Zenon DEF Indexed
      <4> QED
        BY <1>1, <2>2, <2>4, <3>2, <4>1, Zenon
    <3> QED
      BY <3>3, <3>4, Zenon DEF Put
  <2> QED
    BY <2>3, <2>4, Zenon
<1>3. CASE \A p \in Put(e) : p.id # i
  <2>1. Reindexed(X, e)[i] = IF i \in Ids(e.deletes) THEN Nil ELSE X[i]
    BY <1>3, ReindexedElse, Zenon
  <2>2. \A p \in Put(e) : p.id = i => p.task.queue # q
    BY <1>3, Zenon
  <2>3. R[q][i] = IF <<i, q>> \in Gone(e) THEN NoTask ELSE T[q][i]
    BY <1>1, <2>2, RewrittenElse
  <2>4. CASE i \in Ids(e.deletes)
    <3>1. X[i] = q => <<i, q>> \in Gone(e)
      BY <2>4, GoneFrom DEF Indexed, Ids
    <3> QED
      BY <1>1, <2>1, <2>3, <2>4, <3>1, Zenon
  <2>5. CASE i \notin Ids(e.deletes)
    <3>1. <<i, q>> \notin Gone(e)
      BY <1>3, <2>5, GoneFrom DEF Ids, Put
    <3> QED
      BY <1>1, <2>1, <2>3, <2>5, <3>1, Zenon
  <2> QED
    BY <2>4, <2>5, Zenon
<1> QED
  BY <1>2, <1>3, Zenon

(* Rewriting what two stores have under an ID makes them no different. *)
LEMMA RewrittenSame ==
    ASSUME NEW T, NEW U, NEW e, Keyed(e), NEW q \in Queue, NEW i \in Id,
           Lapsed(T[q][i]) = Lapsed(U[q][i])
    PROVE  Lapsed(Rewritten(T, Gone(e), Put(e))[q][i]) =
           Lapsed(Rewritten(U, Gone(e), Put(e))[q][i])
<1>1. CASE \E p \in Put(e) : p.id = i /\ p.task.queue = q
  <2>1. PICK p \in Put(e) : p.id = i /\ p.task.queue = q
    BY <1>1, Zenon
  <2>2. Rewritten(T, Gone(e), Put(e))[q][i] = p.task
    BY <2>1, RewrittenPut, Zenon
  <2>3. Rewritten(U, Gone(e), Put(e))[q][i] = p.task
    BY <2>1, RewrittenPut, Zenon
  <2> QED
    BY <2>2, <2>3, Zenon
<1>2. CASE \A p \in Put(e) : p.id = i => p.task.queue # q
  <2>1. Rewritten(T, Gone(e), Put(e))[q][i] = IF <<i, q>> \in Gone(e) THEN NoTask ELSE T[q][i]
    BY <1>2, RewrittenElse
  <2>2. Rewritten(U, Gone(e), Put(e))[q][i] = IF <<i, q>> \in Gone(e) THEN NoTask ELSE U[q][i]
    BY <1>2, RewrittenElse
  <2> QED
    BY <2>1, <2>2, Zenon
<1> QED
  BY <1>1, <1>2, Zenon

(* It stays the task it is: its queue, its version, and whether it is one. *)
LEMMA LapsedKeeps ==
    ASSUME NEW t \in Task \cup {NoTask}
    PROVE  /\ Lapsed(t) \in Task \cup {NoTask}
           /\ Lapsed(t) = NoTask <=> t = NoTask
           /\ t # NoTask => Lapsed(t).queue = t.queue /\ Lapsed(t).version = t.version
           /\ Lapsed(Lapsed(t)) = Lapsed(t)
<1>1. CASE t # NoTask /\ t.version = 0 /\ Available(t, now)
  <2>1. Lapsed(t) = [t EXCEPT !.claimant = NoOne]
    BY <1>1, Zenon DEF Lapsed
  <2>2. t \in Task
    BY <1>1, Zenon
  <2>3. /\ [t EXCEPT !.claimant = NoOne] \in Task
        /\ [t EXCEPT !.claimant = NoOne].queue = t.queue
        /\ [t EXCEPT !.claimant = NoOne].version = t.version
        /\ [t EXCEPT !.claimant = NoOne].claimant = NoOne
    BY <2>2, Zenon DEF Task
  <2>4. Lapsed(t) \in Task /\ Lapsed(t).claimant = NoOne
    BY <2>1, <2>3, Zenon
  <2>5. \A u \in Task : u.claimant = NoOne => [u EXCEPT !.claimant = NoOne] = u
    BY Zenon DEF Task
  <2>6. Lapsed(Lapsed(t)) = Lapsed(t)
    BY <2>4, <2>5, Zenon DEF Lapsed
  <2> QED
    BY <1>1, <2>1, <2>3, <2>4, <2>6, NoTaskIsNoTask, Zenon
<1>2. CASE ~(t # NoTask /\ t.version = 0 /\ Available(t, now))
  <2>1. Lapsed(t) = t
    BY <1>2, Zenon DEF Lapsed
  <2> QED
    BY <2>1, Zenon
<1> QED
  BY <1>1, <1>2, Zenon

(* Tasks that differ only in claims that have lapsed go on doing so. *)
LEMMA LapsedLater ==
    ASSUME NEW t \in Task \cup {NoTask}, NEW u \in Task \cup {NoTask},
           now \in Nat, now' \in Nat, now <= now', Lapsed(t) = Lapsed(u)
    PROVE  Lapsed(t)' = Lapsed(u)'
<1> DEFINE Freed(v) == [v EXCEPT !.claimant = NoOne]
           Then(v) == IF v # NoTask /\ v.version = 0 /\ Available(v, now')
                      THEN Freed(v) ELSE v
<1>1. ASSUME NEW v \in Task \cup {NoTask}
      PROVE  Then(v) = Then(Lapsed(v))
  <2>1. CASE v # NoTask /\ v.version = 0 /\ Available(v, now)
    <3>1. v \in Task
      BY <2>1, Zenon
    <3>2. v.at <= now'
      BY <2>1, <3>1 DEF Available, Task
    <3>3. Lapsed(v) = Freed(v)
      BY <2>1, Zenon DEF Lapsed
    <3>4. Then(v) = Freed(v)
      BY <2>1, <3>2, Zenon DEF Available
    <3>5. Freed(v) \in Task /\ Freed(Freed(v)) = Freed(v)
      BY <3>1, Zenon DEF Task
    <3>6. \A w : Freed(w) = w => Then(w) = w
      BY Zenon
    <3> QED
      BY <3>3, <3>4, <3>5, <3>6, Zenon
  <2>2. CASE ~(v # NoTask /\ v.version = 0 /\ Available(v, now))
    <3>1. Lapsed(v) = v
      BY <2>2, Zenon DEF Lapsed
    <3> QED
      BY <3>1, Zenon
  <2> QED
    BY <2>1, <2>2, Zenon
<1>2. Lapsed(t)' = Then(t) /\ Lapsed(u)' = Then(u)
  BY Zenon DEF Lapsed
<1> HIDE DEF Then
<1> QED
  BY <1>1, <1>2, Zenon

-----------------------------------------------------------------------------
(* What the invariant says of a state. *)

(* A call between its changes and its journal entry works under its locks, *)
(* on queues that no other call works on.                                  *)
LEMMA PendingApart ==
    ASSUME MemInv, NEW c \in Call, NEW d \in Call, c # d, pc[c] = "work",
           step[d] \in {"index", "journal"}
    PROVE  want[c] \cap want[d] = {}
<1>1. pc[d] = "work" /\ LocksInv
  BY Zenon DEF MemInv, Serving
<1> QED
  BY <1>1, WorkApart, Zenon

(* Its entry says what has been found in the index, or is found there yet. *)
LEMMA PendingEntry ==
    ASSUME MemInv, NEW c \in Call, step[c] \in {"index", "journal"}
    PROVE  /\ pc[c] = "work" /\ entry[c] \in Entry /\ Keyed(entry[c])
           /\ Within(entry[c], want[c]) /\ want[c] \subseteq Queue
           /\ Ids(entry[c].inserts) \subseteq Mine(c)
           /\ Replayable(disk, entry[c]) /\ Indexed(disk.qByID, entry[c])
           /\ step[c] = "index" => /\ Indexed(qByID, entry[c])
                                   /\ Agrees(Mem, Reindexed(qByID, entry[c]), want[c])
<1>1. /\ pc[c] = "work" /\ Pending(c) /\ Fresh(c)
  BY Zenon DEF MemInv, Serving
<1>2. entry[c] \in Entry
  BY Zenon DEF MemInv, MemTypeOK
<1>3. want[c] \subseteq Queue
  BY NameIsQueue, Zenon DEF MemInv, LocksInv, LocksTypeOK
<1>4. /\ Keyed(entry[c]) /\ Within(entry[c], want[c])
      /\ Ids(entry[c].inserts) \subseteq Mine(c) /\ Replayable(disk, entry[c])
      /\ step[c] = "index" => /\ Indexed(qByID, entry[c])
                              /\ Agrees(Mem, Reindexed(qByID, entry[c]), want[c])
  BY <1>1, Zenon DEF Pending
<1>5. Indexed(disk.qByID, entry[c])
  <2>1. \A x \in entry[c].inserts : disk.qByID[x.id] = Nil
    BY <1>1, <1>4, Zenon DEF Fresh, Ids
  <2>2. /\ \A x \in entry[c].deletes : disk.qByID[x.id] = x.queue
        /\ \A x \in entry[c].changes : disk.qByID[x.id] = x.from
    BY <1>4, Zenon DEF Replayable
  <2> QED
    BY <2>1, <2>2, Zenon DEF Indexed
<1> QED
  BY <1>1, <1>2, <1>3, <1>4, <1>5, Zenon

(* What is journaled, and what is indexed, has been used. *)
LEMMA JournaledIsUsed ==
    ASSUME MemInv, NEW i \in Id, disk.qByID[i] # Nil
    PROVE  i \in used
<1>1. disk.qByID[i] \in Queue
  BY Zenon DEF MemInv, MemTypeOK, Journals
<1>2. disk.tasks[disk.qByID[i]][i] # NoTask
  BY <1>1, Zenon DEF MemInv, Agrees
<1> QED
  BY <1>1, <1>2, Zenon DEF MemInv, InPlace

(* And so has what is indexed. *)
LEMMA IndexedIsUsed ==
    ASSUME MemInv, NEW i \in Id, qByID[i] # Nil
    PROVE  i \in used
<1> DEFINE q == qByID[i]
<1>1. q \in Queue
  BY Zenon DEF MemInv, MemTypeOK
<1>2. CASE Memory(q)[i] # NoTask
  <2>1. Mem[q] = Memory(q)
    BY <1>1, Zenon DEF Mem
  <2> QED
    BY <1>1, <1>2, <2>1, Zenon DEF MemInv, InPlace
<1>3. CASE Memory(q)[i] = NoTask
  <2>1. PICK c \in Call : step[c] = "index" /\ q \in want[c]
    BY <1>1, <1>3, Zenon DEF MemInv, IndexAgrees
  <2>2. /\ entry[c] \in Entry /\ Indexed(qByID, entry[c]) /\ Indexed(disk.qByID, entry[c])
        /\ Agrees(Mem, Reindexed(qByID, entry[c]), want[c])
    BY <2>1, PendingEntry, Zenon
  <2>3. Mem[q] = Memory(q)
    BY <1>1, Zenon DEF Mem
  <2>4. Reindexed(qByID, entry[c])[i] # q
    BY <1>3, <2>1, <2>2, <2>3, Zenon DEF Agrees
  <2>5. CASE i \in Ids(entry[c].deletes) \/ \E p \in Put(entry[c]) : p.id = i
    <3>1. disk.qByID[i] # Nil
      <4>1. CASE i \in Ids(entry[c].deletes)
        BY <4>1, <2>2, NilIsNothing, EntryParts DEF Ids, Indexed
      <4>2. CASE \E p \in Put(entry[c]) : p.id = i
        <5>1. PICK p \in Put(entry[c]) : p.id = i
          BY <4>2, Zenon
        <5>2. p \in entry[c].changes
          BY <5>1, <2>2, Zenon DEF Indexed, Put
        <5> QED
          BY <5>1, <5>2, <2>2, NilIsNothing, EntryParts, Zenon DEF Indexed
      <4> QED
        BY <4>1, <4>2, <2>5, Zenon
    <3> QED
      BY <3>1, JournaledIsUsed, Zenon
  <2>6. CASE i \notin Ids(entry[c].deletes) /\ \A p \in Put(entry[c]) : p.id # i
    <3>1. Reindexed(qByID, entry[c])[i] = qByID[i]
      BY <2>6, ReindexedElse, Zenon
    <3> QED
      BY <3>1, <2>4, Zenon
  <2> QED
    BY <2>5, <2>6, Zenon
<1> QED
  BY <1>2, <1>3, Zenon

(* An unused ID is nowhere. *)
LEMMA UnusedIsNowhere ==
    ASSUME MemInv, NEW i \in Id, i \notin used
    PROVE  /\ qByID[i] = Nil /\ disk.qByID[i] = Nil
           /\ \A q \in Queue : Memory(q)[i] = NoTask
           /\ \A c \in Call : i \notin Mine(c)
<1>1. qByID[i] = Nil /\ disk.qByID[i] = Nil
  BY IndexedIsUsed, JournaledIsUsed, Zenon
<1>2. \A c \in Call : i \notin Mine(c)
  BY Zenon DEF MemInv, Fresh
<1>3. ASSUME NEW q \in Queue PROVE Memory(q)[i] = NoTask
  <2>1. Mem[q] = Memory(q) /\ InPlace(Mem)
    BY Zenon DEF Mem, MemInv
  <2>2. Mem[q][i] = NoTask
    BY <2>1, Zenon DEF InPlace
  <2> QED
    BY <2>1, <2>2, Zenon
<1> QED
  BY <1>1, <1>2, <1>3, Zenon

(* No two queues have the same ID. *)
LEMMA OneQueue ==
    ASSUME MemInv
    PROVE  UniqueIDs
<1> SUFFICES ASSUME NEW i \in Id, NEW p \in Queue, NEW q \in Queue,
                    Memory(p)[i] # NoTask, Memory(q)[i] # NoTask, p # q
             PROVE  FALSE
  BY Zenon DEF UniqueIDs
<1> DEFINE Settled(n) == \A c \in Call : step[c] = "index" => n \notin want[c]
           New(c) == Reindexed(qByID, entry[c])
<1>1. Mem[p] = Memory(p) /\ Mem[q] = Memory(q)
  BY Zenon DEF Mem
<1>2. ASSUME NEW n \in Queue, Memory(n)[i] # NoTask, Settled(n)
      PROVE  qByID[i] = n
  BY <1>2, Zenon DEF MemInv, IndexAgrees
<1>3. ASSUME NEW n \in Queue, Memory(n)[i] # NoTask, NEW c \in Call,
             step[c] = "index", n \in want[c]
      PROVE  New(c)[i] = n
  <2>1. Agrees(Mem, New(c), want[c]) /\ Mem[n] = Memory(n)
    BY <1>3, PendingEntry, Zenon DEF Mem
  <2> QED
    BY <1>3, <2>1, Zenon DEF Agrees
<1>4. ASSUME NEW n \in Queue, NEW c \in Call, step[c] = "index", n \notin want[c]
      PROVE  New(c)[i] = n <=> qByID[i] = n
  <2>1. /\ entry[c] \in Entry /\ Keyed(entry[c]) /\ Within(entry[c], want[c])
        /\ Indexed(qByID, entry[c])
    BY <1>4, PendingEntry, Zenon
  <2> QED
    BY <1>4, <2>1, ReindexedElsewhere, Zenon
<1>5. ASSUME NEW n \in Queue, NEW m \in Queue, Memory(n)[i] # NoTask, Memory(m)[i] # NoTask,
             n # m, Settled(n)
      PROVE  FALSE
  <2>1. qByID[i] = n
    BY <1>2, <1>5, Zenon
  <2>2. PICK c \in Call : step[c] = "index" /\ m \in want[c]
    BY <1>2, <1>5, <2>1, Zenon
  <2>3. New(c)[i] = m
    BY <1>3, <1>5, <2>2, Zenon
  <2>4. n \notin want[c]
    BY <1>5, <2>2, Zenon
  <2>5. New(c)[i] = n
    BY <1>4, <2>1, <2>2, <2>4, Zenon
  <2> QED
    BY <1>5, <2>3, <2>5, Zenon
<1>6. PICK c \in Call : step[c] = "index" /\ p \in want[c]
  BY <1>5, Zenon
<1>7. PICK d \in Call : step[d] = "index" /\ q \in want[d]
  BY <1>5, Zenon
<1>8. New(c)[i] = p /\ New(d)[i] = q
  BY <1>3, <1>6, <1>7, Zenon
<1>9. c # d
  BY <1>8, Zenon
<1>10. want[c] \cap want[d] = {}
  BY <1>6, <1>7, <1>9, PendingApart, PendingEntry, Zenon
<1>11. ASSUME NEW a \in Call, NEW b \in Call, step[a] = "index", step[b] = "index", a # b,
              NEW n \in Queue, NEW m \in Queue, New(a)[i] = n, New(b)[i] = m,
              n \in want[a], m \in want[b], want[a] \cap want[b] = {}
       PROVE  i \in Mine(a)
  <2>1. /\ entry[a] \in Entry /\ Indexed(qByID, entry[a]) /\ Within(entry[a], want[a])
        /\ Ids(entry[a].inserts) \subseteq Mine(a) /\ want[a] \subseteq Queue
    BY <1>11, PendingEntry, Zenon
  <2>2. qByID[i] \notin want[a]
    <3>1. ASSUME qByID[i] \in want[a] PROVE FALSE
      <4>1. qByID[i] \in Queue /\ qByID[i] \notin want[b]
        BY <1>11, <2>1, <3>1, Zenon
      <4>2. New(b)[i] = qByID[i]
        BY <1>4, <1>11, <4>1, Zenon
      <4> QED
        BY <1>11, <4>1, <4>2, Zenon
    <3> QED
      BY <3>1, Zenon
  <2>3. CASE \A x \in Put(entry[a]) : x.id # i
    <3>1. New(a)[i] = IF i \in Ids(entry[a].deletes) THEN Nil ELSE qByID[i]
      BY <2>3, ReindexedElse, Zenon
    <3>2. n # Nil
      BY NilIsNothing, Zenon
    <3> QED
      BY <1>11, <2>2, <3>1, <3>2, Zenon
  <2>4. CASE \E x \in Put(entry[a]) : x.id = i
    <3>1. PICK x \in Put(entry[a]) : x.id = i
      BY <2>4, Zenon
    <3>2. x \notin entry[a].changes
      BY <2>1, <2>2, <3>1, Zenon DEF Indexed, Within
    <3>3. x \in entry[a].inserts
      BY <3>1, <3>2, Zenon DEF Put
    <3> QED
      BY <2>1, <3>1, <3>3, Zenon DEF Ids
  <2> QED
    BY <2>3, <2>4, Zenon
<1>12. i \in Mine(c)
  BY <1>6, <1>7, <1>8, <1>9, <1>10, <1>11, Zenon
<1>13. i \in Mine(d)
  <2>1. want[d] \cap want[c] = {}
    BY <1>10, Zenon
  <2> QED
    BY <1>6, <1>7, <1>8, <1>9, <1>11, <2>1, Zenon
<1> QED
  BY <1>9, <1>12, <1>13, Zenon DEF MemInv, Fresh

(* The queues, the journal and the entries are typed. *)
LEMMA MemIsTyped ==
    ASSUME MemInv
    PROVE  /\ Mem \in [Queue -> Contents] /\ disk.tasks \in [Queue -> Contents]
           /\ \A q \in Queue, i \in Id : /\ Mem[q][i] \in Task \cup {NoTask}
                                         /\ disk.tasks[q][i] \in Task \cup {NoTask}
           /\ disk.ok = TRUE /\ disk.qByID \in [Id -> Queue \cup {Nil}]
           /\ disk = [ok |-> TRUE, tasks |-> disk.tasks, qByID |-> disk.qByID]
<1>1. LocksInv /\ disk \in Journals
  BY Zenon DEF MemInv, MemTypeOK
<1>2. /\ disk.ok = TRUE /\ disk.tasks \in [Queue -> Contents]
      /\ disk.qByID \in [Id -> Queue \cup {Nil}]
      /\ disk = [ok |-> TRUE, tasks |-> disk.tasks, qByID |-> disk.qByID]
  BY <1>1, Zenon DEF Journals
<1>3. \A q \in Queue : Memory(q) \in Contents
  BY <1>1, MemoryTyped, Zenon
<1>4. Mem \in [Queue -> Contents]
  BY <1>3, Zenon DEF Mem
<1>5. ASSUME NEW T \in [Queue -> Contents], NEW q \in Queue, NEW i \in Id
      PROVE  T[q][i] \in Task \cup {NoTask}
  BY Zenon DEF Contents
<1> QED
  BY <1>2, <1>4, <1>5, Zenon

-----------------------------------------------------------------------------
(* Requests, and what a call that has its locks writes. *)

(* Of a request, what kind it is, and what its parts are. *)
LEMMA ModifyRequest ==
    ASSUME NEW mod \in ValidRequests
    PROVE  /\ mod \in Request /\ IsModify(mod) /\ ~IsClaim(mod)
           /\ mod \notin ClaimQuery /\ mod # NoRequest
           /\ Ids(mod.inserts) \subseteq Id
<1>1. mod \in Request
  BY RequestsAreRequests, Zenon DEF ValidRequests
<1>2. DOMAIN mod = {"claimant", "inserts", "changes", "deletes", "depends", "arrives"}
  BY <1>1, Zenon DEF Request
<1>3. "inserts" \in DOMAIN mod /\ "duration" \notin DOMAIN mod
  BY <1>2, Zenon
<1>4. \A r \in ClaimQuery : DOMAIN r = {"claimant", "queue", "duration"}
  BY Zenon DEF ClaimQuery
<1>5. DOMAIN NoRequest = {"none"}
  BY Zenon DEF NoRequest
<1>6. mod \notin ClaimQuery /\ mod # NoRequest
  BY <1>3, <1>4, <1>5
<1>7. Ids(mod.inserts) \subseteq Id
  BY <1>1, Zenon DEF Request, Insert, Ids
<1> QED
  BY <1>1, <1>3, <1>6, <1>7, Zenon DEF IsModify, IsClaim

(* A claim names queues. *)
LEMMA ClaimRequest ==
    ASSUME NEW cq \in ClaimQuery
    PROVE  /\ ~IsModify(cq) /\ IsClaim(cq) /\ cq \notin ValidRequests /\ cq # NoRequest
           /\ cq.queue \in Queue /\ cq.claimant \in Claimant /\ cq.duration \in Nat \ {0}
<1>1. DOMAIN cq = {"claimant", "queue", "duration"}
  BY Zenon DEF ClaimQuery
<1>2. ~IsModify(cq) /\ IsClaim(cq)
  BY <1>1, Zenon DEF IsModify, IsClaim
<1>3. cq \notin ValidRequests
  BY ModifyRequest, Zenon
<1>4. cq # NoRequest
  BY <1>1 DEF NoRequest
<1>5. cq.queue \in Queue /\ cq.claimant \in Claimant /\ cq.duration \in Nat \ {0}
  BY LeasesLast, Zenon DEF ClaimQuery
<1> QED
  BY <1>2, <1>3, <1>4, <1>5, Zenon

(* No request is none of these. *)
LEMMA NoRequestIsNone ==
    /\ NoRequest \notin ValidRequests /\ NoRequest \notin ClaimQuery
    /\ ~IsModify(NoRequest) /\ ~IsClaim(NoRequest)
<1>1. ~IsModify(NoRequest) /\ ~IsClaim(NoRequest)
  BY Zenon DEF IsModify, IsClaim, NoRequest
<1> QED
  BY <1>1, ModifyRequest, ClaimRequest, Zenon

(* The operations of a request, by kind: an insert is put in its queue, a  *)
(* change is made where it says its task is from, the others where they    *)
(* say it is.                                                              *)
LEMMA Operations ==
    ASSUME NEW mod \in Request
    PROVE  /\ \A o \in mod.inserts : /\ o \in Insert /\ Named(o) = o.queue
                                     /\ OpQueues(o) = {o.queue} /\ o \in Ops(mod)
           /\ \A o \in Changes(mod) : /\ o \in Change /\ Named(o) = o.from
                                      /\ OpQueues(o) = {o.queue, o.from} /\ o \in Ops(mod)
           /\ \A o \in mod.deletes \cup mod.depends :
                /\ o \in TaskID /\ Named(o) = o.queue
                /\ OpQueues(o) = {o.queue} /\ o \in Ops(mod)
           /\ \A o \in Ops(mod) : o.id \in Id /\ OpQueues(o) \subseteq Queue
<1>1. /\ mod.inserts \subseteq Insert /\ mod.changes \subseteq Change
      /\ mod.deletes \subseteq TaskID /\ mod.depends \subseteq TaskID
      /\ mod.arrives \subseteq TaskArrival
  BY Zenon DEF Request
<1>2. \A a \in TaskArrival : ArrivalChange(a) \in Change
  BY Zenon DEF TaskArrival, ArrivalChange, Change
<1>3. Changes(mod) \subseteq Change
  BY <1>1, <1>2, Zenon DEF Changes
<1>4. \A o \in Insert : /\ Named(o) = o.queue /\ OpQueues(o) = {o.queue}
                        /\ o.id \in Id /\ o.queue \in Queue
  BY Zenon DEF Insert, Named, OpQueues
<1>5. \A o \in Change : /\ Named(o) = o.from /\ OpQueues(o) = {o.queue, o.from}
                        /\ o.id \in Id /\ o.queue \in Queue /\ o.from \in Queue
  BY Zenon DEF Change, Named, OpQueues
<1>6. \A o \in TaskID : /\ Named(o) = o.queue /\ OpQueues(o) = {o.queue}
                        /\ o.id \in Id /\ o.queue \in Queue
  BY Zenon DEF TaskID, Named, OpQueues
<1>7. /\ mod.inserts \subseteq Ops(mod) /\ Changes(mod) \subseteq Ops(mod)
      /\ mod.deletes \subseteq Ops(mod) /\ mod.depends \subseteq Ops(mod)
  BY Zenon DEF Ops
<1>8. \A o \in Ops(mod) : o.id \in Id /\ OpQueues(o) \subseteq Queue
  <2> SUFFICES ASSUME NEW o \in Ops(mod) PROVE o.id \in Id /\ OpQueues(o) \subseteq Queue
    BY Zenon
  <2>1. o \in Insert \/ o \in Change \/ o \in TaskID
    BY <1>1, <1>3, Zenon DEF Ops
  <2> QED
    BY <2>1, <1>4, <1>5, <1>6, Zenon
<1> QED
  BY <1>1, <1>3, <1>4, <1>5, <1>6, <1>7, <1>8, Zenon

(* A call writes to the registered queues, and only to those it has locked. *)
LEMMA RewriteMemory ==
    ASSUME LocksInv, NEW c \in Call, pc[c] = "work", NEW e \in Entry, Rewrite(c, e)
    PROVE  /\ Write(c)
           /\ \A q \in want[c] : Mem'[q] = Rewritten(Mem, Gone(e), Put(e))[q]
           /\ \A q \in Queue \ want[c] : Mem'[q] = Mem[q]
<1> DEFINE L == Locking(c)
           R == Rewritten(L, Gone(e), Put(e))
           M == Rewritten(Mem, Gone(e), Put(e))
<1>1. /\ content' = [q \in Queue |->
            IF q \notin want[c] THEN content[q] ELSE [content[q] EXCEPT ![got[c][q]] = R[q]]]
      /\ registry' = registry /\ dependents' = dependents /\ holder' = holder /\ pc' = pc
      /\ round' = round /\ want' = want /\ got' = got
  BY Zenon DEF Rewrite
<1>2. /\ content \in [Queue -> [Struct -> Contents]] /\ want[c] \subseteq Queue
  BY NameIsQueue, Zenon DEF LocksInv, LocksTypeOK
<1>3. \A q \in want[c] : /\ got[c][q] \in Struct /\ registry[q] = got[c][q]
                         /\ L[q] = Memory(q) /\ Memory(q) = content[q][got[c][q]]
  BY WorksOnMemory, Zenon
<1>4. L \in [Queue -> Contents]
  <2>1. \A q \in want[c] : content[q][got[c][q]] \in Contents
    BY <1>2, <1>3, Zenon
  <2>2. NoTasks \in Contents
    BY LocksAssumed, Zenon
  <2> QED
    BY <2>1, <2>2, Zenon DEF Locking
<1>5. R \in [Queue -> Contents]
  BY <1>4, RewrittenTyped, Zenon
<1>6. ASSUME NEW q \in want[c] PROVE R[q] = M[q]
  <2>1. q \in Queue /\ L[q] = Mem[q]
    BY <1>2, <1>3, Zenon DEF Mem
  <2> QED
    BY <2>1, Zenon DEF Rewritten
<1> HIDE DEF L, R, M
<1>7. ASSUME NEW q \in want[c]
      PROVE  /\ content'[q] \in [Struct -> Contents] /\ content'[q][got[c][q]] = R[q]
             /\ \A s \in Struct : s # got[c][q] => content'[q][s] = content[q][s]
  <2>1. content'[q] = [content[q] EXCEPT ![got[c][q]] = R[q]] /\ q \in Queue
    BY <1>1, <1>2, Zenon
  <2>2. content[q] \in [Struct -> Contents] /\ R[q] \in Contents /\ got[c][q] \in Struct
    BY <1>2, <1>3, <1>5, <2>1, Zenon
  <2> QED
    BY <2>1, <2>2, Zenon
<1>8. ASSUME NEW q \in Queue, q \notin want[c] PROVE content'[q] = content[q]
  BY <1>1, <1>8, Zenon
<1>9. Write(c)
  <2>1. content' \in [Queue -> [Struct -> Contents]]
    <3>1. \A q \in Queue : content'[q] \in [Struct -> Contents]
      BY <1>2, <1>7, <1>8, Zenon
    <3>2. content' = [q \in Queue |-> content'[q]]
      BY <1>1, Zenon
    <3>3. [q \in Queue |-> content'[q]] \in [Queue -> [Struct -> Contents]]
      BY <3>1, Zenon
    <3> QED
      BY <3>2, <3>3, Zenon
  <2>2. \A q \in Queue, s \in Struct :
            content'[q][s] # content[q][s] => q \in want[c] /\ s = got[c][q]
    BY <1>7, <1>8, Zenon
  <2> QED
    BY <1>1, <2>1, <2>2, NameIsQueue, Zenon DEF Write
<1>10. ASSUME NEW q \in want[c] PROVE Mem'[q] = M[q]
  <2>1. q \in Queue /\ registry'[q] = got[c][q] /\ got[c][q] # Nil
    BY <1>1, <1>2, <1>3, LocksAssumed, Zenon
  <2>2. Memory(q)' = content'[q][got[c][q]]
    BY <2>1, Zenon DEF Memory
  <2>3. Mem'[q] = Memory(q)'
    BY <2>1, Zenon DEF Mem
  <2> QED
    BY <1>6, <1>7, <2>2, <2>3, Zenon
<1>11. ASSUME NEW q \in Queue \ want[c] PROVE Mem'[q] = Mem[q]
  <2>1. Mem'[q] = Memory(q)' /\ Mem[q] = Memory(q)
    BY Zenon DEF Mem
  <2>2. Memory(q)' = Memory(q)
    BY <1>1, <1>8, Zenon DEF Memory
  <2> QED
    BY <2>1, <2>2, Zenon
<1> QED
  BY <1>9, <1>10, <1>11, Zenon DEF M

-----------------------------------------------------------------------------
(* Steps that leave the queues, the index and the journal alone. *)

(* What a call has pending stays so while its queues, the index and the    *)
(* journal are left alone, whatever time it becomes.                       *)
LEMMA PendingStays ==
    ASSUME MemInv, NEW c \in Call, step[c] \in {"index", "journal"},
           \A q \in want[c] : Mem'[q] = Mem[q],
           qByID' = qByID, disk' = disk, now' \in Nat, now <= now',
           step'[c] = step[c], want'[c] = want[c], entry'[c] = entry[c], req'[c] = req[c]
    PROVE  Pending(c)'
<1> DEFINE e == entry[c]
           R == Rewritten(disk.tasks, Gone(e), Put(e))
<1>1. Pending(c) /\ want[c] \subseteq Queue /\ e \in Entry
  BY PendingEntry, Zenon DEF MemInv
<1>2. R \in [Queue -> Contents] /\ now \in Nat
  BY <1>1, MemIsTyped, RewrittenTyped, Zenon DEF MemInv, MemTypeOK
<1>3. \A q \in Queue, i \in Id : /\ Mem[q][i] \in Task \cup {NoTask}
                                 /\ R[q][i] \in Task \cup {NoTask}
  BY <1>2, MemIsTyped, Zenon DEF Contents
<1>4. \A q \in want[c], i \in Id : Lapsed(Mem[q][i]) = Lapsed(R[q][i])
  BY <1>1, Zenon DEF Pending
<1>5. R' = R /\ e' = e
  BY Zenon
<1> HIDE DEF R
<1>6. ASSUME NEW q \in want[c], NEW i \in Id
      PROVE  Lapsed(Mem[q][i])' = Lapsed(R[q][i])'
  <2>1. Mem'[q][i] = Mem[q][i] /\ q \in Queue
    BY <1>1, Zenon
  <2>2. PICK t, u : t = Mem[q][i] /\ u = R[q][i]
    BY Zenon
  <2>3. t \in Task \cup {NoTask} /\ u \in Task \cup {NoTask} /\ Lapsed(t) = Lapsed(u)
    BY <1>3, <1>4, <2>1, <2>2, Zenon
  <2>4. Lapsed(t)' = Lapsed(u)'
    BY <1>2, <2>3, LapsedLater, Zenon
  <2>5. Lapsed(Mem[q][i])' = Lapsed(t)' /\ Lapsed(R[q][i])' = Lapsed(u)'
    BY <1>5, <2>1, <2>2, Zenon DEF Lapsed
  <2> QED
    BY <2>4, <2>5, Zenon
<1>7. Mine(c)' = Mine(c)
  BY Zenon DEF Mine
<1>8. Agrees(Mem, Reindexed(qByID, e), want[c]) => Agrees(Mem, Reindexed(qByID, e), want[c])'
  <2> DEFINE N == Reindexed(qByID, e)
  <2>1. N' = N
    BY Zenon
  <2> HIDE DEF N
  <2>2. Agrees(Mem, N, want[c]) => Agrees(Mem, N, want[c])'
    BY <2>1 DEF Agrees
  <2> QED
    BY <2>2, Zenon DEF N
<1>9. /\ (Keyed(e) /\ Within(e, want[c]) /\ Ids(e.inserts) \subseteq Mine(c))'
      /\ Replayable(disk, e)'
      /\ step'[c] = "index" => Indexed(qByID, e)' /\ Agrees(Mem, Reindexed(qByID, e), want[c])'
  BY <1>1, <1>7, <1>8, Zenon DEF Pending
<1>10. \A q \in want'[c], i \in Id : Lapsed(Mem[q][i])' = Lapsed(R[q][i])'
  BY <1>6, Zenon
<1> QED
  BY <1>9, <1>10, Zenon DEF Pending, R

(* Calls may begin, take and release locks, and give up, as time passes. *)
LEMMA QuietKeeps ==
    ASSUME MemInv, Mem' = Mem, qByID' = qByID, disk' = disk, now' \in Nat, now <= now',
           used \subseteq used',
           \A c \in Call : {step[c], step'[c]} \cap {"index", "journal"} # {} =>
                /\ step'[c] = step[c] /\ want'[c] = want[c]
                /\ entry'[c] = entry[c] /\ req'[c] = req[c]
    PROVE  /\ \A c \in Call : step'[c] \in {"index", "journal"} => Pending(c)'
           /\ IndexAgrees' /\ Journaled' /\ Agrees(disk.tasks, disk.qByID, Queue)'
           /\ InPlace(Mem)' /\ InPlace(disk.tasks)'
<1>1. ASSUME NEW c \in Call, step'[c] \in {"index", "journal"}
      PROVE  Pending(c)'
  <2>1. /\ step[c] \in {"index", "journal"} /\ step'[c] = step[c] /\ want'[c] = want[c]
        /\ entry'[c] = entry[c] /\ req'[c] = req[c]
    BY <1>1, Zenon
  <2> QED
    BY <2>1, PendingStays, Zenon
<1>2. \A q \in Queue : Memory(q)' = Memory(q)
  <2>1. \A q \in Queue : Mem'[q] = Memory(q)' /\ Mem[q] = Memory(q)
    BY Zenon DEF Mem
  <2> QED
    BY <2>1, Zenon
<1>3. \A c \in Call : (step[c] = "index" => step'[c] = "index" /\ want'[c] = want[c])
  BY Zenon
<1>4. IndexAgrees'
  <2> SUFFICES ASSUME NEW i \in Id, NEW q \in Queue,
                      \A c \in Call : step'[c] = "index" => q \notin want'[c]
               PROVE  Memory(q)'[i] # NoTask <=> qByID'[i] = q
    BY Zenon DEF IndexAgrees
  <2>1. \A c \in Call : step[c] = "index" => q \notin want[c]
    BY <1>3, Zenon
  <2>2. IndexAgrees
    BY Zenon DEF MemInv
  <2>3. Memory(q)[i] # NoTask <=> qByID[i] = q
    BY <2>1, <2>2, Zenon DEF IndexAgrees
  <2> QED
    BY <1>2, <2>3, Zenon
<1>5. Journaled'
  <2> SUFFICES ASSUME NEW i \in Id, NEW q \in Queue,
                      \A c \in Call : step'[c] \in {"index", "journal"} => q \notin want'[c]
               PROVE  Lapsed(Memory(q)[i])' = Lapsed(disk.tasks[q][i])'
    BY Zenon DEF Journaled
  <2>1. \A c \in Call : step[c] \in {"index", "journal"} => q \notin want[c]
    BY Zenon
  <2>2. disk.ok = TRUE
    BY MemIsTyped, Zenon
  <2>3. Lapsed(Memory(q)[i]) = Lapsed(disk.tasks[q][i])
    BY <2>1, <2>2, Zenon DEF MemInv, Journaled
  <2>4. PICK t, u : t = Memory(q)[i] /\ u = disk.tasks[q][i]
    BY Zenon
  <2>5. Mem[q] = Memory(q) /\ now \in Nat
    BY Zenon DEF Mem, MemInv, MemTypeOK
  <2>6. t \in Task \cup {NoTask} /\ u \in Task \cup {NoTask} /\ Lapsed(t) = Lapsed(u)
    BY <2>3, <2>4, <2>5, MemIsTyped, Zenon
  <2>7. Lapsed(t)' = Lapsed(u)'
    BY <2>5, <2>6, LapsedLater, Zenon
  <2>8. Memory(q)'[i] = t /\ disk'.tasks[q][i] = u
    BY <1>2, <2>4, Zenon
  <2> QED
    BY <2>7, <2>8, Zenon
<1>6. Agrees(disk.tasks, disk.qByID, Queue)'
  BY Zenon DEF MemInv, Agrees
<1>7. InPlace(Mem)' /\ InPlace(disk.tasks)'
  BY Zenon DEF MemInv, InPlace
<1> QED
  BY <1>1, <1>4, <1>5, <1>6, <1>7, Zenon

(* What a call has to insert stays nowhere while nothing is changed. *)
LEMMA FreshStays ==
    ASSUME MemInv, Mem' = Mem, qByID' = qByID, disk' = disk, used \subseteq used',
           NEW c \in Call, Mine(c)' \subseteq Mine(c), step'[c] = step[c],
           \A d \in Call \ {c} : \A i \in Mine(d)' : i \in Mine(d) \/ i \notin used
    PROVE  Fresh(c)'
<1>1. \A q \in Queue : Memory(q)' = Memory(q)
  <2>1. \A q \in Queue : Mem'[q] = Memory(q)' /\ Mem[q] = Memory(q)
    BY Zenon DEF Mem
  <2> QED
    BY <2>1, Zenon
<1>2. Fresh(c)
  BY Zenon DEF MemInv
<1> SUFFICES ASSUME NEW i \in Mine(c)
             PROVE  /\ i \in used'
                    /\ \A d \in Call \ {c} : i \notin Mine(d)'
                    /\ disk'.qByID[i] = Nil
                    /\ step'[c] # "journal" => qByID'[i] = Nil
                    /\ step'[c] = "apply" => \A q \in Queue : Memory(q)'[i] = NoTask
  BY Zenon DEF Fresh
<1>3. /\ i \in used /\ disk.qByID[i] = Nil
      /\ step[c] # "journal" => qByID[i] = Nil
      /\ \A d \in Call \ {c} : i \notin Mine(d)
      /\ step[c] = "apply" => \A q \in Queue : Memory(q)[i] = NoTask
  BY <1>2, Zenon DEF Fresh
<1>4. \A d \in Call \ {c} : i \notin Mine(d)'
  BY <1>3, Zenon
<1> QED
  BY <1>1, <1>3, <1>4, Zenon

(* A call that has not begun, or is on its way out, serves nothing. *)
LEMMA NotServing ==
    ASSUME MemInv, NEW c \in Call, pc[c] \notin {"lookup", "lock", "work"}
    PROVE  step[c] = "none" /\ req[c] = NoRequest /\ Mine(c) = {}
<1>1. Serving(c)
  BY Zenon DEF MemInv
<1>2. step[c] = "none" /\ req[c] = NoRequest
  BY <1>1, Zenon DEF Serving
<1> QED
  BY <1>2, NoRequestIsNone, Zenon DEF Mine

(* The queues are as they were if the locks' registry and content are. *)
LEMMA MemoryStays ==
    ASSUME registry' = registry, content' = content
    PROVE  Mem' = Mem /\ \A q \in Queue : Memory(q)' = Memory(q)
<1>1. \A q \in Queue : Memory(q)' = Memory(q)
  BY Zenon DEF Memory
<1> QED
  BY <1>1, Zenon DEF Mem

(* What Serving says of a call stays true while its own state does. *)
LEMMA ServingStays ==
    ASSUME NEW c \in Call, Serving(c), step'[c] = step[c], pc'[c] = pc[c],
           req'[c] = req[c], want'[c] = want[c]
    PROVE  Serving(c)'
  BY Zenon DEF Serving

(* A request of fresh IDs finds none of them in another queue. *)
LEMMA NothingMisplaced ==
    ASSUME MemInv, NEW mod \in ValidRequests, Ids(mod.inserts) \cap used = {}
    PROVE  Misplaced(mod) = {}
<1>1. \A o \in mod.inserts : qByID[o.id] = Nil
  <2> SUFFICES ASSUME NEW o \in mod.inserts PROVE qByID[o.id] = Nil
    BY Zenon
  <2>1. o.id \in Ids(mod.inserts) /\ o.id \in Id
    BY ModifyRequest, Zenon DEF Ids
  <2>2. o.id \notin used
    BY <2>1, Zenon
  <2> QED
    BY <2>1, <2>2, UnusedIsNowhere, Zenon
<1> QED
  BY <1>1, Zenon DEF Misplaced

(* What ModPrep has to lock are the queues that the operations name. *)
LEMMA ModPrepBegins ==
    ASSUME MemInv, ~ExplicitIDs, NEW c \in Call, NEW mod \in ValidRequests, ModPrep(c, mod)
    PROVE  /\ Begin(c, UNION {OpQueues(o) : o \in Ops(mod)})
           /\ UNION {OpQueues(o) : o \in Ops(mod)} \in SUBSET Queue
<1> DEFINE ns == UNION {OpQueues(o) : o \in Ops(mod)}
<1>1. Misplaced(mod) = {}
  BY NothingMisplaced, Zenon DEF ModPrep
<1>2. Begin(c, ns \cup {m[2] : m \in Misplaced(mod)})
  BY Zenon DEF ModPrep
<1>3. ns \cup {m[2] : m \in Misplaced(mod)} = ns
  BY <1>1, Zenon
<1>4. mod \in Request
  BY ModifyRequest, Zenon
<1>5. \A o \in Ops(mod) : OpQueues(o) \subseteq Queue
  BY <1>4, Operations, Zenon
<1> QED
  BY <1>2, <1>3, <1>5, Zenon

(* Starting a modification keeps the invariant: its new IDs are its own. *)
LEMMA ModPrepKeeps ==
    ASSUME MemInv, LocksInv', ~ExplicitIDs, NEW c \in Call, NEW mod \in ValidRequests,
           ModPrep(c, mod)
    PROVE  MemInv'
<1> DEFINE ns == UNION {OpQueues(o) : o \in Ops(mod)}
<1>1. /\ Ids(mod.inserts) \cap used = {} /\ used' = used \cup Ids(mod.inserts)
      /\ req' = [req EXCEPT ![c] = mod] /\ step' = [step EXCEPT ![c] = "apply"]
      /\ prep' = [prep EXCEPT ![c] = [failed |-> WrongQueue(mod), misplaced |-> Misplaced(mod)]]
      /\ qByID' = qByID /\ entry' = entry /\ disk' = disk /\ now' = now
  BY Zenon DEF ModPrep
<1>2. Misplaced(mod) = {}
  BY <1>1, NothingMisplaced, Zenon
<1>4. Begin(c, ns)
  BY ModPrepBegins, Zenon
<1>5. mod \in Request /\ mod # NoRequest /\ mod \notin ClaimQuery /\ Ids(mod.inserts) \subseteq Id
  BY ModifyRequest, Zenon
<1> HIDE DEF ns
<1>7. LocksInv' /\ LocksInv
  BY Zenon DEF MemInv
<1>8. /\ pc[c] = "start" /\ pc' = [pc EXCEPT ![c] = "lookup"]
      /\ want' = [want EXCEPT ![c] = ns] /\ registry' = registry /\ content' = content
  BY <1>4, Zenon DEF Begin
<1>9. Mem' = Mem /\ \A q \in Queue : Memory(q)' = Memory(q)
  BY <1>8, MemoryStays, Zenon
<1>10. step[c] = "none"
  BY <1>8, NotServing, Zenon
<1>11. MemTypeOK /\ pc \in [Call -> PCs] /\ want \in [Call -> SUBSET Name]
  BY <1>7, Zenon DEF MemInv, LocksInv, LocksTypeOK
<1>12. /\ req'[c] = mod /\ step'[c] = "apply" /\ pc'[c] = "lookup" /\ want'[c] = ns
       /\ \A d \in Call \ {c} : /\ req'[d] = req[d] /\ step'[d] = step[d]
                                /\ pc'[d] = pc[d] /\ want'[d] = want[d]
  BY <1>1, <1>8, <1>11, Zenon DEF MemTypeOK
<1>13. MemTypeOK'
  <2>1. req' \in [Call -> ValidRequests \cup ClaimQuery \cup {NoRequest}]
    BY <1>1, <1>11, Zenon DEF MemTypeOK
  <2>2. [failed |-> WrongQueue(mod), misplaced |-> Misplaced(mod)]
            \in [failed : BOOLEAN, misplaced : {{}}]
    BY <1>2, Zenon DEF WrongQueue
  <2>3. prep' \in [Call -> [failed : BOOLEAN, misplaced : {{}}]]
    BY <1>1, <1>11, <2>2, Zenon DEF MemTypeOK
  <2>4. step' \in [Call -> {"none", "apply", "index", "journal"}]
    BY <1>1, <1>11, Zenon DEF MemTypeOK
  <2>5. used' \in SUBSET Id
    BY <1>1, <1>5, <1>11, Zenon DEF MemTypeOK
  <2> QED
    BY <1>1, <1>11, <2>1, <2>3, <2>4, <2>5, Zenon DEF MemTypeOK
<1>14. ASSUME NEW d \in Call PROVE Serving(d)'
  <2>1. CASE d = c
    <3>1. \A o \in Ops(mod) : OpQueues(o) \subseteq ns
      BY Zenon DEF ns
    <3> QED
      BY <1>5, <1>12, <2>1, <3>1, Zenon DEF Serving
  <2>2. CASE d # c
    BY <1>12, <2>2, ServingStays, Zenon DEF MemInv
  <2> QED
    BY <2>1, <2>2, Zenon
<1>15. Mine(c)' = Ids(mod.inserts) /\ \A d \in Call \ {c} : Mine(d)' = Mine(d)
  BY <1>12, Zenon DEF Mine
<1>16. ASSUME NEW d \in Call PROVE Fresh(d)'
  <2>1. CASE d = c
    <3> SUFFICES ASSUME NEW i \in Mine(c)'
                 PROVE  /\ i \in used' /\ disk'.qByID[i] = Nil /\ qByID'[i] = Nil
                        /\ \A k \in Call \ {c} : i \notin Mine(k)'
                        /\ \A q \in Queue : Memory(q)'[i] = NoTask
      BY <2>1, Zenon DEF Fresh
    <3>1. i \in Id /\ i \notin used /\ i \in used'
      BY <1>1, <1>5, <1>15, Zenon
    <3>2. /\ qByID[i] = Nil /\ disk.qByID[i] = Nil
          /\ \A q \in Queue : Memory(q)[i] = NoTask
          /\ \A k \in Call : i \notin Mine(k)
      BY <3>1, UnusedIsNowhere, Zenon
    <3> QED
      BY <1>1, <1>9, <1>15, <3>1, <3>2, Zenon
  <2>2. CASE d # c
    <3>1. \A k \in Call \ {d} : \A i \in Mine(k)' : i \in Mine(k) \/ i \notin used
      BY <1>1, <1>15, Zenon
    <3>2. Mine(d)' \subseteq Mine(d) /\ step'[d] = step[d] /\ used \subseteq used'
      BY <1>1, <1>12, <1>15, <2>2, Zenon
    <3> QED
      BY <1>1, <1>9, <3>1, <3>2, FreshStays, Zenon
  <2> QED
    BY <2>1, <2>2, Zenon
<1>17. /\ \A d \in Call : step'[d] \in {"index", "journal"} => Pending(d)'
       /\ IndexAgrees' /\ Journaled' /\ Agrees(disk.tasks, disk.qByID, Queue)'
       /\ InPlace(Mem)' /\ InPlace(disk.tasks)'
  <2>1. now' \in Nat /\ now <= now' /\ used \subseteq used'
    BY <1>1, <1>11 DEF MemTypeOK
  <2>2. \A d \in Call : {step[d], step'[d]} \cap {"index", "journal"} # {} =>
                /\ step'[d] = step[d] /\ want'[d] = want[d]
                /\ entry'[d] = entry[d] /\ req'[d] = req[d]
    BY <1>1, <1>10, <1>12, Zenon
  <2> QED
    BY <1>1, <1>9, <2>1, <2>2, QuietKeeps, Zenon
<1> QED
  BY <1>7, <1>13, <1>14, <1>16, <1>17, Zenon DEF MemInv

(* So does starting a claim. *)
LEMMA StartClaimKeeps ==
    ASSUME MemInv, LocksInv', NEW c \in Call, NEW cq \in ClaimQuery, StartClaim(c, cq)
    PROVE  MemInv'
<1>1. /\ Begin(c, {cq.queue})
      /\ req' = [req EXCEPT ![c] = cq] /\ step' = [step EXCEPT ![c] = "apply"]
      /\ qByID' = qByID /\ prep' = prep /\ entry' = entry /\ disk' = disk
      /\ used' = used /\ now' = now
  BY Zenon DEF StartClaim
<1>2. cq.queue \in Queue /\ cq # NoRequest /\ cq \notin ValidRequests
  BY ClaimRequest, Zenon
<1>4. LocksInv' /\ LocksInv
  BY Zenon DEF MemInv
<1>5. /\ pc[c] = "start" /\ pc' = [pc EXCEPT ![c] = "lookup"]
      /\ want' = [want EXCEPT ![c] = {cq.queue}] /\ registry' = registry /\ content' = content
  BY <1>1, Zenon DEF Begin
<1>6. Mem' = Mem
  BY <1>5, MemoryStays, Zenon
<1>7. step[c] = "none" /\ Mine(c) = {}
  BY <1>5, NotServing, Zenon
<1>8. MemTypeOK /\ pc \in [Call -> PCs] /\ want \in [Call -> SUBSET Name]
  BY <1>4, Zenon DEF MemInv, LocksInv, LocksTypeOK
<1>9. /\ req'[c] = cq /\ step'[c] = "apply" /\ pc'[c] = "lookup" /\ want'[c] = {cq.queue}
      /\ \A d \in Call \ {c} : /\ req'[d] = req[d] /\ step'[d] = step[d]
                               /\ pc'[d] = pc[d] /\ want'[d] = want[d]
  BY <1>1, <1>5, <1>8, Zenon DEF MemTypeOK
<1>10. MemTypeOK'
  <2>1. req' \in [Call -> ValidRequests \cup ClaimQuery \cup {NoRequest}]
    BY <1>1, <1>8, Zenon DEF MemTypeOK
  <2>2. step' \in [Call -> {"none", "apply", "index", "journal"}]
    BY <1>1, <1>8, Zenon DEF MemTypeOK
  <2> QED
    BY <1>1, <1>8, <2>1, <2>2, Zenon DEF MemTypeOK
<1>11. ASSUME NEW d \in Call PROVE Serving(d)'
  <2>1. CASE d = c
    BY <1>2, <1>9, <2>1, Zenon DEF Serving
  <2>2. CASE d # c
    BY <1>9, <2>2, ServingStays, Zenon DEF MemInv
  <2> QED
    BY <2>1, <2>2, Zenon
<1>12. Mine(c)' = {} /\ \A d \in Call \ {c} : Mine(d)' = Mine(d)
  BY <1>2, <1>9, Zenon DEF Mine
<1>13. ASSUME NEW d \in Call PROVE Fresh(d)'
  <2>1. CASE d = c
    BY <1>12, <2>1, Zenon DEF Fresh
  <2>2. CASE d # c
    <3>1. \A k \in Call \ {d} : \A i \in Mine(k)' : i \in Mine(k) \/ i \notin used
      BY <1>12, Zenon
    <3>2. Mine(d)' \subseteq Mine(d) /\ step'[d] = step[d] /\ used \subseteq used'
      BY <1>1, <1>9, <1>12, <2>2, Zenon
    <3> QED
      BY <1>1, <1>6, <3>1, <3>2, FreshStays, Zenon
  <2> QED
    BY <2>1, <2>2, Zenon
<1>14. /\ \A d \in Call : step'[d] \in {"index", "journal"} => Pending(d)'
       /\ IndexAgrees' /\ Journaled' /\ Agrees(disk.tasks, disk.qByID, Queue)'
       /\ InPlace(Mem)' /\ InPlace(disk.tasks)'
  <2>1. now' \in Nat /\ now <= now' /\ used \subseteq used'
    BY <1>1, <1>8 DEF MemTypeOK
  <2>2. \A d \in Call : {step[d], step'[d]} \cap {"index", "journal"} # {} =>
                /\ step'[d] = step[d] /\ want'[d] = want[d]
                /\ entry'[d] = entry[d] /\ req'[d] = req[d]
    BY <1>1, <1>7, <1>9, Zenon
  <2> QED
    BY <1>1, <1>6, <2>1, <2>2, QuietKeeps, Zenon
<1> QED
  BY <1>4, <1>10, <1>11, <1>13, <1>14, Zenon DEF MemInv

(* So do taking and dropping locks. *)
LEMMA DanceKeeps ==
    ASSUME MemInv, LocksInv', NEW c \in Call, Dance(c)
    PROVE  MemInv'
<1>1. /\ Lookup(c) \/ Lock(c) \/ Locked(c) \/ Unlock(c) \/ Release(c)
      /\ qByID' = qByID /\ req' = req /\ prep' = prep /\ step' = step /\ entry' = entry
      /\ disk' = disk /\ used' = used /\ now' = now
  BY Zenon DEF Dance, memVars
<1>2. LocksInv /\ MemTypeOK
  BY Zenon DEF MemInv
<1>3. LocksInv' /\ Mem' = Mem
  BY <1>1, <1>2, DanceKeepsMemory, Zenon
<1>4. pc \in [Call -> PCs] /\ want \in [Call -> SUBSET Name]
  BY <1>2, Zenon DEF LocksInv, LocksTypeOK
<1>5. \A d \in Call \ {c} : pc'[d] = pc[d] /\ want'[d] = want[d]
  BY <1>1, <1>4, Zenon DEF Lookup, Lock, Locked, Unlock, Release
<1>6. \/ /\ pc[c] \in {"lookup", "lock"} /\ pc'[c] \in {"lookup", "lock", "work"}
         /\ want'[c] = want[c]
      \/ pc[c] \notin {"lookup", "lock", "work"}
  BY <1>1, <1>4, Zenon DEF Lookup, Lock, Locked, Unlock, Release
<1>7. step[c] \notin {"index", "journal"}
  <2>1. Serving(c)
    BY Zenon DEF MemInv
  <2>2. pc[c] # "work"
    BY <1>6, Zenon
  <2> QED
    BY <2>1, <2>2, Zenon DEF Serving
<1>8. MemTypeOK'
  BY <1>1, <1>2, Zenon DEF MemTypeOK
<1>9. ASSUME NEW d \in Call PROVE Serving(d)'
  <2>1. CASE d = c
    <3>1. Serving(c)
      BY Zenon DEF MemInv
    <3>2. CASE /\ pc[c] \in {"lookup", "lock"} /\ pc'[c] \in {"lookup", "lock", "work"}
               /\ want'[c] = want[c]
      BY <1>1, <1>7, <2>1, <3>1, <3>2, Zenon DEF Serving
    <3>3. CASE pc[c] \notin {"lookup", "lock", "work"}
      <4>1. step[c] = "none" /\ req[c] = NoRequest
        BY <3>3, NotServing, Zenon
      <4> QED
        BY <1>1, <2>1, <4>1, NoRequestIsNone, Zenon DEF Serving
    <3> QED
      BY <1>6, <3>2, <3>3, Zenon
  <2>2. CASE d # c
    BY <1>1, <1>5, <2>2, ServingStays, Zenon DEF MemInv
  <2> QED
    BY <2>1, <2>2, Zenon
<1>10. \A d \in Call : Mine(d)' = Mine(d)
  BY <1>1, Zenon DEF Mine
<1>11. ASSUME NEW d \in Call PROVE Fresh(d)'
  <2>1. \A k \in Call \ {d} : \A i \in Mine(k)' : i \in Mine(k) \/ i \notin used
    BY <1>10, Zenon
  <2>2. Mine(d)' \subseteq Mine(d) /\ step'[d] = step[d] /\ used \subseteq used'
    BY <1>1, <1>10, Zenon
  <2> QED
    BY <1>1, <1>3, <2>1, <2>2, FreshStays, Zenon
<1>12. /\ \A d \in Call : step'[d] \in {"index", "journal"} => Pending(d)'
       /\ IndexAgrees' /\ Journaled' /\ Agrees(disk.tasks, disk.qByID, Queue)'
       /\ InPlace(Mem)' /\ InPlace(disk.tasks)'
  <2>1. now' \in Nat /\ now <= now' /\ used \subseteq used'
    BY <1>1, <1>2 DEF MemTypeOK
  <2>2. \A d \in Call : {step[d], step'[d]} \cap {"index", "journal"} # {} =>
                /\ step'[d] = step[d] /\ want'[d] = want[d]
                /\ entry'[d] = entry[d] /\ req'[d] = req[d]
    BY <1>1, <1>5, <1>7, Zenon
  <2> QED
    BY <1>1, <1>3, <2>1, <2>2, QuietKeeps, Zenon
<1> QED
  BY <1>3, <1>8, <1>9, <1>11, <1>12, Zenon DEF MemInv

(* A call that is refused, or finds nothing to claim, returns. *)
LEMMA ReturnKeeps ==
    ASSUME MemInv, LocksInv', NEW c \in Call, step[c] = "apply", Return(c),
           qByID' = qByID, disk' = disk, used' = used, now' = now
    PROVE  MemInv'
<1>1. /\ Finish(c) /\ pc[c] = "work" /\ pc' = [pc EXCEPT ![c] = "unlock"] /\ want' = want
      /\ registry' = registry /\ content' = content
  BY Zenon DEF Return, Finish
<1>2. /\ req' = [req EXCEPT ![c] = NoRequest] /\ prep' = [prep EXCEPT ![c] = NoPrep]
      /\ entry' = [entry EXCEPT ![c] = NoEntry] /\ step' = [step EXCEPT ![c] = "none"]
  BY Zenon DEF Return
<1>3. LocksInv /\ MemTypeOK
  BY Zenon DEF MemInv
<1>4. LocksInv' /\ Mem' = Mem
  BY <1>1, <1>3, MemoryStays, Zenon
<1>5. pc \in [Call -> PCs]
  BY <1>3, Zenon DEF LocksInv, LocksTypeOK
<1>6. /\ req'[c] = NoRequest /\ step'[c] = "none" /\ pc'[c] = "unlock"
      /\ \A d \in Call \ {c} : /\ req'[d] = req[d] /\ step'[d] = step[d]
                               /\ pc'[d] = pc[d] /\ entry'[d] = entry[d]
  BY <1>1, <1>2, <1>3, <1>5, Zenon DEF MemTypeOK
<1>7. MemTypeOK'
  <2>1. NoPrep \in [failed : BOOLEAN, misplaced : {{}}] /\ NoEntry \in Entry
    BY Zenon DEF NoPrep, NoEntry, Entry
  <2>2. /\ req' \in [Call -> ValidRequests \cup ClaimQuery \cup {NoRequest}]
        /\ prep' \in [Call -> [failed : BOOLEAN, misplaced : {{}}]]
        /\ entry' \in [Call -> Entry]
        /\ step' \in [Call -> {"none", "apply", "index", "journal"}]
    BY <1>2, <1>3, <2>1, Zenon DEF MemTypeOK
  <2> QED
    BY <1>3, <2>2, Zenon DEF MemTypeOK
<1>8. ASSUME NEW d \in Call PROVE Serving(d)'
  <2>1. CASE d = c
    BY <1>6, <2>1, NoRequestIsNone, Zenon DEF Serving
  <2>2. CASE d # c
    BY <1>1, <1>6, <2>2, ServingStays, Zenon DEF MemInv
  <2> QED
    BY <2>1, <2>2, Zenon
<1>9. Mine(c)' = {} /\ \A d \in Call \ {c} : Mine(d)' = Mine(d)
  BY <1>6, NoRequestIsNone, Zenon DEF Mine
<1>10. ASSUME NEW d \in Call PROVE Fresh(d)'
  <2>1. CASE d = c
    BY <1>9, <2>1, Zenon DEF Fresh
  <2>2. CASE d # c
    <3>1. \A k \in Call \ {d} : \A i \in Mine(k)' : i \in Mine(k) \/ i \notin used
      BY <1>9, Zenon
    <3>2. Mine(d)' \subseteq Mine(d) /\ step'[d] = step[d] /\ used \subseteq used'
      BY <1>6, <1>9, <2>2, Zenon
    <3> QED
      BY <1>4, <3>1, <3>2, FreshStays, Zenon
  <2> QED
    BY <2>1, <2>2, Zenon
<1>11. /\ \A d \in Call : step'[d] \in {"index", "journal"} => Pending(d)'
       /\ IndexAgrees' /\ Journaled' /\ Agrees(disk.tasks, disk.qByID, Queue)'
       /\ InPlace(Mem)' /\ InPlace(disk.tasks)'
  <2>1. now' \in Nat /\ now <= now' /\ used \subseteq used'
    BY <1>3 DEF MemTypeOK
  <2>2. \A d \in Call : {step[d], step'[d]} \cap {"index", "journal"} # {} =>
                /\ step'[d] = step[d] /\ want'[d] = want[d]
                /\ entry'[d] = entry[d] /\ req'[d] = req[d]
    BY <1>1, <1>6, Zenon
  <2> QED
    BY <1>4, <2>1, <2>2, QuietKeeps, Zenon
<1> QED
  BY <1>4, <1>7, <1>8, <1>10, <1>11, Zenon DEF MemInv

(* So does the clock. *)
LEMMA TickKeeps ==
    ASSUME MemInv, Tick \/ UNCHANGED vars
    PROVE  MemInv'
<1>1. /\ registry' = registry /\ content' = content /\ pc' = pc /\ want' = want
      /\ dependents' = dependents /\ holder' = holder /\ round' = round /\ got' = got
      /\ qByID' = qByID /\ req' = req /\ prep' = prep /\ step' = step /\ entry' = entry
      /\ disk' = disk /\ used' = used
  BY Zenon DEF Tick, vars, locks, memVars
<1>2. LocksInv /\ MemTypeOK
  BY Zenon DEF MemInv
<1>3. now' \in Nat /\ now <= now' /\ used \subseteq used'
  BY <1>1, <1>2 DEF Tick, vars, memVars, MemTypeOK
<1>4. LocksInv'
  <2>1. \A d \in Call : InStep(d)' <=> InStep(d)
    BY <1>1 DEF InStep, Names, Holds
  <2>2. LocksTypeOK' /\ Counted' /\ Registered' /\ NothingLost'
    BY <1>1, <1>2 DEF LocksInv, LocksTypeOK, Counted, Registered, NothingLost
  <2>3. NoLeak'
    BY <1>1, <1>2, Zenon DEF LocksInv, NoLeak, IsEmpty
  <2> QED
    BY <1>2, <2>1, <2>2, <2>3, Zenon DEF LocksInv
<1>5. Mem' = Mem
  BY <1>1, MemoryStays, Zenon
<1>6. MemTypeOK'
  BY <1>1, <1>2, <1>3, Zenon DEF MemTypeOK
<1>7. \A d \in Call : Serving(d)'
  BY <1>1, ServingStays, Zenon DEF MemInv
<1>8. \A d \in Call : Mine(d)' = Mine(d)
  BY <1>1, Zenon DEF Mine
<1>9. ASSUME NEW d \in Call PROVE Fresh(d)'
  <2>1. \A k \in Call \ {d} : \A i \in Mine(k)' : i \in Mine(k) \/ i \notin used
    BY <1>8, Zenon
  <2>2. Mine(d)' \subseteq Mine(d) /\ step'[d] = step[d]
    BY <1>1, <1>8, Zenon
  <2> QED
    BY <1>1, <1>3, <1>5, <2>1, <2>2, FreshStays, Zenon
<1>10. /\ \A d \in Call : step'[d] \in {"index", "journal"} => Pending(d)'
       /\ IndexAgrees' /\ Journaled' /\ Agrees(disk.tasks, disk.qByID, Queue)'
       /\ InPlace(Mem)' /\ InPlace(disk.tasks)'
  BY <1>1, <1>3, <1>5, QuietKeeps, Zenon
<1> QED
  BY <1>4, <1>6, <1>7, <1>9, <1>10, Zenon DEF MemInv

-----------------------------------------------------------------------------
(* Steps that change what the queues hold. *)

(* A task of an ID that another call has to insert is not written. *)
LEMMA NotMine ==
    ASSUME MemInv, NEW c \in Call, NEW d \in Call, c # d, NEW e \in Entry, NEW X,
           Ids(e.inserts) \subseteq Mine(c), Indexed(X, e), NEW i \in Mine(d), X[i] = Nil
    PROVE  \A p \in Put(e) : p.id # i
<1> SUFFICES ASSUME NEW p \in Put(e), p.id = i PROVE FALSE
  BY Zenon
<1>1. CASE p \in e.inserts
  <2>1. i \in Mine(c)
    BY <1>1, Zenon DEF Ids
  <2> QED
    BY <2>1, Zenon DEF MemInv, Fresh
<1>2. CASE p \in e.changes
  <2>1. X[i] \in Queue
    BY <1>2, EntryParts, Zenon DEF Indexed
  <2> QED
    BY <2>1, NilIsNothing, Zenon
<1> QED
  BY <1>1, <1>2, Zenon DEF Put

(* What an entry writes has been used. *)
LEMMA WrittenIsUsed ==
    ASSUME MemInv, NEW c \in Call, NEW e \in Entry, Ids(e.inserts) \subseteq Mine(c),
           Indexed(qByID, e) \/ Indexed(disk.qByID, e), NEW p \in Put(e)
    PROVE  p.id \in used
<1>1. CASE p \in e.inserts
  <2>1. p.id \in Mine(c)
    BY <1>1, Zenon DEF Ids
  <2> QED
    BY <2>1, Zenon DEF MemInv, Fresh
<1>2. CASE p \in e.changes
  <2>1. p.id \in Id /\ p.from \in Queue /\ p.from # Nil
    BY <1>2, EntryParts, NilIsNothing, Zenon
  <2>2. qByID[p.id] = p.from \/ disk.qByID[p.id] = p.from
    BY <1>2, Zenon DEF Indexed
  <2>3. qByID[p.id] # Nil \/ disk.qByID[p.id] # Nil
    BY <2>1, <2>2, Zenon
  <2> QED
    BY <2>1, <2>3, IndexedIsUsed, JournaledIsUsed, SMTT(30)
<1> QED
  BY <1>1, <1>2, Zenon DEF Put

(* Tasks stay in place, and none is of an unused ID. *)
LEMMA RewrittenInPlace ==
    ASSUME NEW T, InPlace(T), NEW e \in Entry, Keyed(e), \A p \in Put(e) : p.id \in used
    PROVE  InPlace(Rewritten(T, Gone(e), Put(e)))
<1> DEFINE R == Rewritten(T, Gone(e), Put(e))
<1> SUFFICES ASSUME NEW q \in Queue, NEW i \in Id, R[q][i] # NoTask
             PROVE  R[q][i].queue = q /\ i \in used
  BY Zenon DEF InPlace
<1>1. CASE \E p \in Put(e) : p.id = i /\ p.task.queue = q
  <2>1. PICK p \in Put(e) : p.id = i /\ p.task.queue = q
    BY <1>1, Zenon
  <2>2. R[q][i] = p.task
    BY <2>1, RewrittenPut, Zenon
  <2> QED
    BY <2>1, <2>2, Zenon
<1>2. CASE \A p \in Put(e) : p.id = i => p.task.queue # q
  <2>1. R[q][i] = IF <<i, q>> \in Gone(e) THEN NoTask ELSE T[q][i]
    BY <1>2, RewrittenElse
  <2>2. R[q][i] = T[q][i]
    BY <2>1, Zenon
  <2> QED
    BY <2>2, Zenon DEF InPlace
<1> QED
  BY <1>1, <1>2, Zenon

(* Carrying out an entry, the index and the journal yet to follow: only    *)
(* the index of a claim is right as it is.                                 *)
LEMMA WriteKeeps ==
    ASSUME MemInv, LocksInv', NEW c \in Call, pc[c] = "work", step[c] = "apply",
           NEW e, Ready(c, e), Rewrite(c, e), NEW to \in {"index", "journal"},
           to = "journal" => Reindexed(qByID, e) = qByID,
           entry' = [entry EXCEPT ![c] = e], step' = [step EXCEPT ![c] = to],
           qByID' = qByID, req' = req, prep' = prep, disk' = disk, used' = used, now' = now
    PROVE  MemInv'
<1> DEFINE R == Rewritten(Mem, Gone(e), Put(e))
<1>1. LocksInv /\ MemTypeOK /\ e \in Entry /\ Keyed(e) /\ Within(e, want[c])
  BY Zenon DEF MemInv, Ready
<1>2. Ids(e.inserts) \subseteq Mine(c) /\ Replayable(disk, e) /\ Indexed(qByID, e)
  BY ZenonT(40) DEF Ready
<1>3. /\ \A q \in want[c] : Mem'[q] = R[q]
      /\ \A q \in Queue \ want[c] : Mem'[q] = Mem[q]
  BY <1>1, RewriteMemory, Zenon
<1>4. pc' = pc /\ want' = want /\ want[c] \subseteq Queue
  BY <1>1, NameIsQueue, Zenon DEF Rewrite, LocksInv, LocksTypeOK
<1>5. /\ entry'[c] = e /\ step'[c] = to
      /\ \A d \in Call \ {c} : entry'[d] = entry[d] /\ step'[d] = step[d]
  BY <1>1, ZenonT(40) DEF MemTypeOK
<1>6. ASSUME NEW q \in Queue, q \notin want[c], NEW i \in Id PROVE R[q][i] = Mem[q][i]
  BY <1>1, <1>6, RewrittenElsewhere
<1>7. ASSUME NEW q \in Queue, NEW i \in Id PROVE Mem'[q][i] = R[q][i]
  BY <1>3, <1>6, Zenon
<1>8. \A q \in Queue : Mem[q] = Memory(q) /\ Mem'[q] = Memory(q)'
  BY Zenon DEF Mem
<1>9. \A d \in Call : Mine(d)' = Mine(d)
  BY Zenon DEF Mine
<1>10. ASSUME NEW d \in Call \ {c}, step[d] \in {"index", "journal"}
       PROVE  want[c] \cap want[d] = {}
  BY <1>10, PendingApart, Zenon
<1>11. MemTypeOK'
  <2>1. entry' \in [Call -> Entry] /\ step' \in [Call -> {"none", "apply", "index", "journal"}]
    BY <1>1, Zenon DEF MemTypeOK
  <2> QED
    BY <1>1, <2>1, Zenon DEF MemTypeOK
<1>12. ASSUME NEW d \in Call PROVE Serving(d)'
  <2>1. CASE d = c
    <3>1. Serving(c)
      BY Zenon DEF MemInv
    <3> QED
      BY <1>4, <1>5, <2>1, <3>1, Zenon DEF Serving
  <2>2. CASE d # c
    BY <1>4, <1>5, <2>2, ServingStays, Zenon DEF MemInv
  <2> QED
    BY <2>1, <2>2, Zenon
<1>13. ASSUME NEW d \in Call PROVE Fresh(d)'
  <2> SUFFICES ASSUME NEW i \in Mine(d)
               PROVE  /\ i \in used /\ disk.qByID[i] = Nil
                      /\ \A k \in Call \ {d} : i \notin Mine(k)
                      /\ step'[d] # "journal" => qByID[i] = Nil
                      /\ step'[d] = "apply" => \A q \in Queue : Memory(q)'[i] = NoTask
    BY <1>9, Zenon DEF Fresh
  <2>1. /\ i \in used /\ disk.qByID[i] = Nil
        /\ \A k \in Call \ {d} : i \notin Mine(k)
        /\ step[d] # "journal" => qByID[i] = Nil
        /\ step[d] = "apply" => \A q \in Queue : Memory(q)[i] = NoTask
    BY Zenon DEF MemInv, Fresh
  <2>2. CASE d = c
    BY <1>5, <2>1, <2>2, Zenon
  <2>3. CASE d # c /\ step[d] # "apply"
    BY <1>5, <2>1, <2>3, Zenon
  <2>4. CASE d # c /\ step[d] = "apply"
    <3>1. step'[d] = "apply" /\ qByID[i] = Nil
      BY <1>5, <2>1, <2>4, Zenon
    <3>2. \A p \in Put(e) : p.id # i
      BY <1>1, <1>2, <2>4, <3>1, NotMine, Zenon
    <3>3. i \in Id
      BY <1>1, <2>1, Zenon DEF MemTypeOK
    <3>4. ASSUME NEW q \in Queue PROVE Memory(q)'[i] = NoTask
      <4>1. \A p \in Put(e) : p.id = i => p.task.queue # q
        BY <3>2, Zenon
      <4>2. R[q][i] = IF <<i, q>> \in Gone(e) THEN NoTask ELSE Mem[q][i]
        BY <3>3, <4>1, RewrittenElse
      <4>3. Mem[q][i] = NoTask
        BY <1>8, <2>1, <2>4, Zenon
      <4> QED
        BY <1>7, <1>8, <3>3, <4>2, <4>3, Zenon
    <3> QED
      BY <2>1, <3>1, <3>4, Zenon
  <2> QED
    BY <2>2, <2>3, <2>4, Zenon
<1>14. Agrees(R, Reindexed(qByID, e), want[c])
  <2>1. Agrees(Mem, qByID, want[c])
    <3> SUFFICES ASSUME NEW q \in want[c], NEW i \in Id
                 PROVE  Mem[q][i] # NoTask <=> qByID[i] = q
      BY Zenon DEF Agrees
    <3>1. \A d \in Call : step[d] = "index" => q \notin want[d]
      BY <1>10, Zenon
    <3>2. IndexAgrees /\ q \in Queue
      BY <1>4, Zenon DEF MemInv
    <3>3. Memory(q)[i] # NoTask <=> qByID[i] = q
      BY <3>1, <3>2, Zenon DEF IndexAgrees
    <3> QED
      BY <1>8, <3>2, <3>3, Zenon
  <2> QED
    BY <1>1, <1>2, <1>4, <2>1, RewrittenAgrees, Zenon
<1>15. Pending(c)'
  <2> DEFINE D == Rewritten(disk.tasks, Gone(e), Put(e))
  <2>1. ASSUME NEW q \in want[c], NEW i \in Id
        PROVE  Lapsed(Mem'[q][i]) = Lapsed(D[q][i])
    <3>1. \A d \in Call : step[d] \in {"index", "journal"} => q \notin want[d]
      BY <1>10, Zenon
    <3>2. Lapsed(Memory(q)[i]) = Lapsed(disk.tasks[q][i])
      BY <1>4, <3>1, MemIsTyped, ZenonT(40) DEF MemInv, Journaled
    <3>3. Lapsed(Mem[q][i]) = Lapsed(disk.tasks[q][i]) /\ q \in Queue
      BY <1>4, <1>8, <3>2, Zenon
    <3>4. Lapsed(R[q][i]) = Lapsed(D[q][i])
      BY <1>1, <3>3, RewrittenSame
    <3> QED
      BY <1>7, <3>3, <3>4, Zenon
  <2>2. \A q \in want[c], i \in Id : Lapsed(Mem[q][i])' = Lapsed(D[q][i])'
    <3>1. D' = D
      BY Zenon
    <3> HIDE DEF D
    <3> QED
      BY <1>4, <2>1, <3>1 DEF Lapsed
  <2>3. to = "index" => Agrees(Mem', Reindexed(qByID, e), want[c])
    BY <1>4, <1>7, <1>14, Zenon DEF Agrees
  <2>4. Ids(e.inserts) \subseteq Mine(c)'
    BY <1>2, <1>9, Zenon
  <2> QED
    BY <1>1, <1>2, <1>4, <1>5, <2>2, <2>3, <2>4, ZenonT(40) DEF Pending
<1>16. ASSUME NEW d \in Call, step'[d] \in {"index", "journal"} PROVE Pending(d)'
  <2>1. CASE d = c
    BY <1>15, <2>1, Zenon
  <2>2. CASE d # c
    <3>1. step[d] \in {"index", "journal"} /\ step'[d] = step[d] /\ entry'[d] = entry[d]
      BY <1>5, <1>16, <2>2, Zenon
    <3>2. \A q \in want[d] : Mem'[q] = Mem[q]
      <4>1. want[d] \subseteq Queue /\ want[c] \cap want[d] = {}
        BY <1>10, <2>2, <3>1, PendingEntry, SMTT(30)
      <4> QED
        BY <1>3, <4>1, Zenon
    <3>3. now' \in Nat /\ now <= now'
      BY <1>1 DEF MemTypeOK
    <3> QED
      BY <1>4, <3>1, <3>2, <3>3, PendingStays, Zenon
  <2> QED
    BY <2>1, <2>2, Zenon
<1>17. IndexAgrees'
  <2> SUFFICES ASSUME NEW i \in Id, NEW q \in Queue,
                      \A d \in Call : step'[d] = "index" => q \notin want'[d]
               PROVE  Memory(q)'[i] # NoTask <=> qByID'[i] = q
    BY Zenon DEF IndexAgrees
  <2>1. CASE q \in want[c]
    <3>1. Reindexed(qByID, e) = qByID
      BY <1>4, <1>5, <2>1, Zenon
    <3>2. R[q][i] # NoTask <=> Reindexed(qByID, e)[i] = q
      BY <1>14, <2>1, Zenon DEF Agrees
    <3> QED
      BY <1>7, <1>8, <3>1, <3>2, Zenon
  <2>2. CASE q \notin want[c]
    <3>1. \A d \in Call : step[d] = "index" => q \notin want[d]
      BY <1>4, <1>5, <2>2, Zenon
    <3>2. Memory(q)[i] # NoTask <=> qByID[i] = q
      BY <3>1, Zenon DEF MemInv, IndexAgrees
    <3> QED
      BY <1>3, <1>8, <2>2, <3>2, Zenon
  <2> QED
    BY <2>1, <2>2, Zenon
<1>18. Journaled'
  <2> SUFFICES ASSUME NEW i \in Id, NEW q \in Queue,
                      \A d \in Call : step'[d] \in {"index", "journal"} => q \notin want'[d]
               PROVE  Lapsed(Memory(q)[i])' = Lapsed(disk.tasks[q][i])'
    BY Zenon DEF Journaled
  <2>1. q \notin want[c] /\ \A d \in Call : step[d] \in {"index", "journal"} => q \notin want[d]
    BY <1>4, <1>5, Zenon
  <2>2. Lapsed(Memory(q)[i]) = Lapsed(disk.tasks[q][i])
    BY <2>1, MemIsTyped, Zenon DEF MemInv, Journaled
  <2>3. Memory(q)' = Memory(q)
    BY <1>3, <1>8, <2>1, Zenon
  <2> QED
    BY <2>2, <2>3, Zenon DEF Lapsed
<1>19. InPlace(Mem)'
  <2>1. InPlace(R)
    <3>1. \A p \in Put(e) : p.id \in used
      BY <1>1, <1>2, WrittenIsUsed, Zenon
    <3>2. InPlace(Mem)
      BY Zenon DEF MemInv
    <3> QED
      BY <1>1, <3>1, <3>2, RewrittenInPlace, SMTT(30)
  <2> HIDE DEF R
  <2> QED
    BY <1>7, <2>1, SMTT(30) DEF InPlace
<1>20. Agrees(disk.tasks, disk.qByID, Queue)' /\ InPlace(disk.tasks)'
  BY ZenonT(40) DEF MemInv, Agrees, InPlace
<1> QED
  BY <1>3, <1>11, <1>12, <1>13, <1>16, <1>17, <1>18, <1>19, <1>20, Zenon DEF MemInv

-----------------------------------------------------------------------------
(* The index and the journal follow. *)

(* Updating the index keeps the invariant: it catches up with the queues. *)
LEMMA IndexKeeps ==
    ASSUME MemInv, NEW c \in Call, Index(c)
    PROVE  MemInv'
<1> DEFINE e == entry[c]
           X == Reindexed(qByID, e)
<1>1. /\ pc[c] = "work" /\ step[c] = "index" /\ qByID' = X
      /\ step' = [step EXCEPT ![c] = "journal"]
      /\ req' = req /\ prep' = prep /\ entry' = entry /\ disk' = disk /\ used' = used
      /\ now' = now
  BY Zenon DEF Index
<1>2. /\ registry' = registry /\ content' = content /\ pc' = pc /\ want' = want
      /\ dependents' = dependents /\ holder' = holder /\ round' = round /\ got' = got
  BY Zenon DEF Index, locks
<1>3. LocksInv /\ MemTypeOK
  BY Zenon DEF MemInv
<1>4. LocksInv'
  <2>1. \A d \in Call : InStep(d)' <=> InStep(d)
    BY <1>2 DEF InStep, Names, Holds
  <2>2. LocksTypeOK' /\ Counted' /\ Registered' /\ NothingLost'
    BY <1>2, <1>3, SMTT(30) DEF LocksInv, LocksTypeOK, Counted, Registered, NothingLost
  <2>3. NoLeak'
    BY <1>2, <1>3, Zenon DEF LocksInv, NoLeak, IsEmpty
  <2> QED
    BY <1>3, <2>1, <2>2, <2>3, Zenon DEF LocksInv
<1>5. Mem' = Mem /\ \A q \in Queue : Memory(q)' = Memory(q) /\ Mem[q] = Memory(q)
  BY <1>2, MemoryStays, ZenonT(40) DEF Mem
<1>6. /\ e \in Entry /\ Keyed(e) /\ Within(e, want[c]) /\ want[c] \subseteq Queue
      /\ Ids(e.inserts) \subseteq Mine(c) /\ Indexed(qByID, e)
      /\ Agrees(Mem, X, want[c])
  BY <1>1, PendingEntry, Zenon
<1>7. step'[c] = "journal" /\ \A d \in Call \ {c} : step'[d] = step[d]
  BY <1>1, <1>3, Zenon DEF MemTypeOK
<1>8. \A d \in Call : Mine(d)' = Mine(d)
  BY <1>1, ZenonT(40) DEF Mine
<1>9. ASSUME NEW q \in Queue, q \notin want[c], NEW i \in Id
      PROVE  X[i] = q <=> qByID[i] = q
  BY <1>6, <1>9, ReindexedElsewhere, Zenon
<1>10. ASSUME NEW d \in Call \ {c}, NEW i \in Mine(d), step[d] # "journal"
       PROVE  X[i] = Nil /\ qByID[i] = Nil
  <2>1. qByID[i] = Nil /\ i \in Id
    BY <1>3, <1>10, Zenon DEF MemInv, Fresh, MemTypeOK
  <2>2. \A p \in Put(e) : p.id # i
    BY <1>6, <2>1, NotMine, Zenon
  <2>3. X[i] = IF i \in Ids(e.deletes) THEN Nil ELSE qByID[i]
    BY <2>1, <2>2, ReindexedElse, Zenon
  <2> QED
    BY <2>1, <2>3, Zenon
<1>11. MemTypeOK'
  <2>1. X \in [Id -> Queue \cup {Nil}]
    BY <1>3, <1>6, ReindexedTyped, Zenon DEF MemTypeOK
  <2>2. step' \in [Call -> {"none", "apply", "index", "journal"}]
    BY <1>1, <1>3, Zenon DEF MemTypeOK
  <2> HIDE DEF X
  <2> QED
    BY <1>1, <1>3, <2>1, <2>2, Zenon DEF MemTypeOK
<1>12. ASSUME NEW d \in Call PROVE Serving(d)'
  <2>1. CASE d = c
    <3>1. Serving(c)
      BY Zenon DEF MemInv
    <3> QED
      BY <1>1, <1>2, <1>7, <2>1, <3>1, Zenon DEF Serving
  <2>2. CASE d # c
    BY <1>1, <1>2, <1>7, <2>2, ServingStays, Zenon DEF MemInv
  <2> QED
    BY <2>1, <2>2, Zenon
<1> HIDE DEF X
<1>13. ASSUME NEW d \in Call PROVE Fresh(d)'
  <2> SUFFICES ASSUME NEW i \in Mine(d)
               PROVE  /\ i \in used /\ disk.qByID[i] = Nil
                      /\ \A k \in Call \ {d} : i \notin Mine(k)
                      /\ step'[d] # "journal" => X[i] = Nil
                      /\ step'[d] = "apply" => \A q \in Queue : Memory(q)[i] = NoTask
    BY <1>1, <1>5, <1>8, Zenon DEF Fresh
  <2>1. /\ i \in used /\ disk.qByID[i] = Nil
        /\ \A k \in Call \ {d} : i \notin Mine(k)
        /\ step[d] = "apply" => \A q \in Queue : Memory(q)[i] = NoTask
    BY Zenon DEF MemInv, Fresh
  <2>2. CASE d = c
    BY <1>7, <2>1, <2>2, Zenon
  <2>3. CASE d # c
    BY <1>7, <1>10, <2>1, <2>3, Zenon
  <2> QED
    BY <2>2, <2>3, Zenon
<1>14. ASSUME NEW d \in Call, step'[d] \in {"index", "journal"} PROVE Pending(d)'
  <2> DEFINE f == entry[d]
             D == Rewritten(disk.tasks, Gone(f), Put(f))
  <2>1. step[d] \in {"index", "journal"}
    BY <1>1, <1>7, <1>14, Zenon
  <2>2. Pending(d)
    BY <2>1, Zenon DEF MemInv
  <2>3. /\ Keyed(f)' /\ Within(f, want[d])' /\ Replayable(disk, f)'
        /\ (Ids(f.inserts) \subseteq Mine(d))'
    BY <1>1, <1>2, <1>8, <2>2, Zenon DEF Pending
  <2>4. \A q \in want'[d], i \in Id : Lapsed(Mem[q][i])' = Lapsed(D[q][i])'
    <3>1. \A q \in want[d], i \in Id : Lapsed(Mem[q][i]) = Lapsed(D[q][i])
      BY <2>2, Zenon DEF Pending
    <3>2. D' = D
      BY <1>1, Zenon
    <3> HIDE DEF D
    <3> QED
      BY <1>1, <1>2, <1>5, <3>1, <3>2 DEF Lapsed
  <2>5. ASSUME step'[d] = "index"
        PROVE  Indexed(X, f) /\ Agrees(Mem, Reindexed(X, f), want[d])
    <3>1. d # c /\ step[d] = "index"
      BY <1>7, <2>5, SMTT(30)
    <3>2. /\ f \in Entry /\ Keyed(f) /\ Within(f, want[d]) /\ want[d] \subseteq Queue
          /\ Ids(f.inserts) \subseteq Mine(d) /\ Indexed(qByID, f)
          /\ Agrees(Mem, Reindexed(qByID, f), want[d])
      BY <3>1, PendingEntry, Zenon
    <3>3. want[c] \cap want[d] = {}
      BY <1>1, <3>1, PendingApart, Zenon
    <3>4. \A q \in want[d], i \in Id : X[i] = q <=> qByID[i] = q
      BY <1>9, <3>2, <3>3, Zenon
    <3>5. Indexed(X, f)
      <4>1. \A x \in f.deletes : x.id \in Id /\ x.queue \in want[d]
        BY <3>2, EntryParts, Zenon DEF Within
      <4>2. \A x \in f.changes : x.id \in Id /\ x.from \in want[d]
        BY <3>2, EntryParts, ZenonT(40) DEF Within
      <4>3. \A x \in f.inserts : X[x.id] = Nil
        BY <1>10, <3>1, <3>2, Zenon DEF Ids
      <4>4. \A x \in f.deletes : X[x.id] = x.queue
        BY <3>2, <3>4, <4>1, Zenon DEF Indexed
      <4>5. \A x \in f.changes : X[x.id] = x.from
        BY <3>2, <3>4, <4>2, Zenon DEF Indexed
      <4> QED
        BY <4>3, <4>4, <4>5, Zenon DEF Indexed
    <3>6. ASSUME NEW q \in want[d], NEW i \in Id
          PROVE  Reindexed(X, f)[i] = q <=> Reindexed(qByID, f)[i] = q
      <4>1. CASE \E p \in Put(f) : p.id = i
        <5>1. PICK p \in Put(f) : p.id = i
          BY <4>1, SMTT(30)
        <5>2. Reindexed(X, f)[i] = p.task.queue /\ Reindexed(qByID, f)[i] = p.task.queue
          <6>1. Keyed(f) /\ p.id \in Id
            BY <3>2, <5>1, Zenon
          <6>2. Reindexed(X, f)[p.id] = p.task.queue
            BY <6>1, ReindexedPut, SMTT(30)
          <6>3. Reindexed(qByID, f)[p.id] = p.task.queue
            BY <6>1, ReindexedPut, SMTT(30)
          <6> QED
            BY <5>1, <6>2, <6>3, Zenon
        <5> QED
          BY <5>2, SMTT(30)
      <4>2. CASE \A p \in Put(f) : p.id # i
        <5>1. /\ Reindexed(X, f)[i] = IF i \in Ids(f.deletes) THEN Nil ELSE X[i]
              /\ Reindexed(qByID, f)[i] = IF i \in Ids(f.deletes) THEN Nil ELSE qByID[i]
          BY <4>2, ReindexedElse, Zenon
        <5> QED
          BY <3>4, <5>1, Zenon
      <4> QED
        BY <4>1, <4>2, Zenon
    <3>7. Agrees(Mem, Reindexed(X, f), want[d])
      BY <3>2, <3>6, Zenon DEF Agrees
    <3> QED
      BY <3>5, <3>7, Zenon
  <2>6. step'[d] = "index" =>
            Indexed(qByID, f)' /\ Agrees(Mem, Reindexed(qByID, f), want[d])'
    BY <1>1, <1>2, <1>5, <2>5, Zenon
  <2> QED
    BY <2>3, <2>4, <2>6, Zenon DEF Pending
<1>15. IndexAgrees'
  <2> SUFFICES ASSUME NEW i \in Id, NEW q \in Queue,
                      \A d \in Call : step'[d] = "index" => q \notin want[d]
               PROVE  Memory(q)[i] # NoTask <=> X[i] = q
    BY <1>1, <1>2, <1>5, Zenon DEF IndexAgrees
  <2>1. CASE q \in want[c]
    BY <1>5, <1>6, <2>1 DEF Agrees
  <2>2. CASE q \notin want[c]
    <3>1. \A d \in Call : step[d] = "index" => q \notin want[d]
      BY <1>7, <2>2, Zenon
    <3>2. Memory(q)[i] # NoTask <=> qByID[i] = q
      BY <3>1, Zenon DEF MemInv, IndexAgrees
    <3> QED
      BY <1>9, <2>2, <3>2, Zenon
  <2> QED
    BY <2>1, <2>2, Zenon
<1>16. Journaled'
  <2> SUFFICES ASSUME NEW i \in Id, NEW q \in Queue,
                      \A d \in Call : step'[d] \in {"index", "journal"} => q \notin want'[d]
               PROVE  Lapsed(Memory(q)[i])' = Lapsed(disk.tasks[q][i])'
    BY Zenon DEF Journaled
  <2>1. \A d \in Call : step[d] \in {"index", "journal"} => q \notin want[d]
    BY <1>2, <1>7, Zenon
  <2>2. Lapsed(Memory(q)[i]) = Lapsed(disk.tasks[q][i])
    BY <2>1, MemIsTyped, Zenon DEF MemInv, Journaled
  <2> QED
    BY <1>1, <1>5, <2>2, Zenon DEF Lapsed
<1>17. Agrees(disk.tasks, disk.qByID, Queue)' /\ InPlace(Mem)' /\ InPlace(disk.tasks)'
  BY <1>1, <1>5, Zenon DEF MemInv, Agrees, InPlace
<1> QED
  BY <1>4, <1>11, <1>12, <1>13, <1>14, <1>15, <1>16, <1>17, Zenon DEF MemInv

(* So does the journal's append, before any lock is dropped. *)
LEMMA JournalKeeps ==
    ASSUME MemInv, LocksInv', NEW c \in Call, Journal(c)
    PROVE  MemInv'
<1> DEFINE e == entry[c]
           T == Rewritten(disk.tasks, Gone(e), Put(e))
           X == Reindexed(disk.qByID, e)
<1>1. /\ pc[c] = "work" /\ step[c] = "journal" /\ Finish(c)
      /\ disk' = Replay(disk, e) /\ qByID' = qByID /\ used' = used /\ now' = now
      /\ req' = [req EXCEPT ![c] = NoRequest] /\ prep' = [prep EXCEPT ![c] = NoPrep]
      /\ entry' = [entry EXCEPT ![c] = NoEntry] /\ step' = [step EXCEPT ![c] = "none"]
  BY Zenon DEF Journal, Return
<1>2. /\ registry' = registry /\ content' = content /\ want' = want
      /\ pc' = [pc EXCEPT ![c] = "unlock"]
  BY <1>1, Zenon DEF Finish
<1>3. LocksInv /\ MemTypeOK /\ LocksInv'
  BY Zenon DEF MemInv
<1>4. Mem' = Mem /\ \A q \in Queue : Memory(q)' = Memory(q) /\ Mem[q] = Memory(q)
  BY <1>2, MemoryStays, ZenonT(40) DEF Mem
<1>5. /\ e \in Entry /\ Keyed(e) /\ Within(e, want[c]) /\ want[c] \subseteq Queue
      /\ Ids(e.inserts) \subseteq Mine(c)
      /\ Replayable(disk, e) /\ Indexed(disk.qByID, e)
  BY <1>1, PendingEntry, Zenon
<1>6. disk' = [ok |-> TRUE, tasks |-> T, qByID |-> X]
  <2>1. disk.ok = TRUE
    BY MemIsTyped, Zenon
  <2> QED
    BY <1>1, <1>5, <2>1, Zenon DEF Replay, Replayed
<1>7. disk'.ok = TRUE /\ disk'.tasks = T /\ disk'.qByID = X
  <2> HIDE DEF T, X
  <2> QED
    BY <1>6, Zenon
<1>8. pc \in [Call -> PCs]
  BY <1>3, Zenon DEF LocksInv, LocksTypeOK
<1>9. /\ req'[c] = NoRequest /\ step'[c] = "none" /\ pc'[c] = "unlock"
      /\ \A d \in Call \ {c} : /\ req'[d] = req[d] /\ step'[d] = step[d]
                               /\ pc'[d] = pc[d] /\ entry'[d] = entry[d]
  BY <1>1, <1>2, <1>3, <1>8, Zenon DEF MemTypeOK
<1>10. Mine(c)' = {} /\ \A d \in Call \ {c} : Mine(d)' = Mine(d)
  BY <1>9, NoRequestIsNone, Zenon DEF Mine
<1>11. T \in [Queue -> Contents] /\ X \in [Id -> Queue \cup {Nil}]
  <2>1. disk.tasks \in [Queue -> Contents] /\ disk.qByID \in [Id -> Queue \cup {Nil}]
    BY MemIsTyped, Zenon
  <2>2. T \in [Queue -> Contents]
    BY <1>5, <2>1, RewrittenTyped, Zenon
  <2>3. X \in [Id -> Queue \cup {Nil}]
    BY <1>5, <2>1, ReindexedTyped, Zenon
  <2> QED
    BY <2>2, <2>3, Zenon
<1>12. ASSUME NEW q \in Queue, q \notin want[c], NEW i \in Id
       PROVE  T[q][i] = disk.tasks[q][i] /\ (X[i] = q <=> disk.qByID[i] = q)
  <2>1. T[q][i] = disk.tasks[q][i]
    BY <1>5, <1>12, RewrittenElsewhere, SMTT(30)
  <2>2. X[i] = q <=> disk.qByID[i] = q
    BY <1>5, <1>12, ReindexedElsewhere, Zenon
  <2> QED
    BY <2>1, <2>2, Zenon
<1>13. ASSUME NEW d \in Call \ {c}, NEW i \in Mine(d)
       PROVE  X[i] = Nil
  <2>1. disk.qByID[i] = Nil /\ i \in Id
    BY <1>3, Zenon DEF MemInv, Fresh, MemTypeOK
  <2>2. \A p \in Put(e) : p.id # i
    BY <1>5, <2>1, NotMine, Zenon
  <2>3. X[i] = IF i \in Ids(e.deletes) THEN Nil ELSE disk.qByID[i]
    BY <2>1, <2>2, ReindexedElse
  <2> QED
    BY <2>1, <2>3, Zenon
<1>14. MemTypeOK'
  <2>1. NoPrep \in [failed : BOOLEAN, misplaced : {{}}] /\ NoEntry \in Entry
    BY Zenon DEF NoPrep, NoEntry, Entry
  <2>2. /\ req' \in [Call -> ValidRequests \cup ClaimQuery \cup {NoRequest}]
        /\ prep' \in [Call -> [failed : BOOLEAN, misplaced : {{}}]]
        /\ entry' \in [Call -> Entry]
        /\ step' \in [Call -> {"none", "apply", "index", "journal"}]
    BY <1>1, <1>3, <2>1, Zenon DEF MemTypeOK
  <2>3. disk' \in Journals
    <3> HIDE DEF T, X
    <3> QED
      BY <1>6, <1>11, Zenon DEF Journals
  <2> QED
    BY <1>1, <1>3, <2>2, <2>3, Zenon DEF MemTypeOK
<1>15. ASSUME NEW d \in Call PROVE Serving(d)'
  <2>1. CASE d = c
    BY <1>9, <2>1, NoRequestIsNone, Zenon DEF Serving
  <2>2. CASE d # c
    BY <1>2, <1>9, <2>2, ServingStays, Zenon DEF MemInv
  <2> QED
    BY <2>1, <2>2, Zenon
<1>16. ASSUME NEW d \in Call PROVE Fresh(d)'
  <2>1. CASE d = c
    BY <1>10, <2>1, Zenon DEF Fresh
  <2>2. CASE d # c
    <3> SUFFICES ASSUME NEW i \in Mine(d)
                 PROVE  /\ i \in used /\ disk'.qByID[i] = Nil
                        /\ \A k \in Call \ {d} : i \notin Mine(k)'
                        /\ step[d] # "journal" => qByID[i] = Nil
                        /\ step[d] = "apply" => \A q \in Queue : Memory(q)[i] = NoTask
      <4>1. /\ Mine(d)' = Mine(d) /\ step'[d] = step[d] /\ qByID' = qByID /\ used' = used
            /\ \A q \in Queue : Memory(q)' = Memory(q)
        BY <1>1, <1>4, <1>9, <1>10, <2>2, Zenon
      <4> QED
        BY <4>1, Zenon DEF Fresh
    <3>1. /\ i \in used
          /\ \A k \in Call \ {d} : i \notin Mine(k)
          /\ step[d] # "journal" => qByID[i] = Nil
          /\ step[d] = "apply" => \A q \in Queue : Memory(q)[i] = NoTask
      BY Zenon DEF MemInv, Fresh
    <3>2. disk'.qByID[i] = Nil
      BY <1>7, <1>13, <2>2, Zenon
    <3>3. \A k \in Call \ {d} : i \notin Mine(k)'
      BY <1>10, <3>1, Zenon
    <3> QED
      BY <3>1, <3>2, <3>3, Zenon
  <2> QED
    BY <2>1, <2>2, Zenon
<1>17. ASSUME NEW d \in Call, step'[d] \in {"index", "journal"} PROVE Pending(d)'
  <2> DEFINE f == entry[d]
             D == Rewritten(disk.tasks, Gone(f), Put(f))
             E == Rewritten(T, Gone(f), Put(f))
  <2>1. d # c /\ step[d] \in {"index", "journal"} /\ step'[d] = step[d]
    BY <1>9, <1>17, Zenon
  <2>2. Pending(d) /\ entry'[d] = f /\ Mine(d)' = Mine(d)
    BY <1>9, <1>10, <2>1, ZenonT(40) DEF MemInv
  <2>3. /\ f \in Entry /\ Keyed(f) /\ Within(f, want[d]) /\ want[d] \subseteq Queue
        /\ Ids(f.inserts) \subseteq Mine(d) /\ Replayable(disk, f)
        /\ step[d] = "index" => /\ Indexed(qByID, f)
                                /\ Agrees(Mem, Reindexed(qByID, f), want[d])
    BY <2>1, PendingEntry, SMTT(30)
  <2>4. want[c] \cap want[d] = {}
    BY <1>1, <2>1, PendingApart, Zenon
  <2>5. \A q \in want[d], i \in Id :
            T[q][i] = disk.tasks[q][i] /\ (X[i] = q <=> disk.qByID[i] = q)
    BY <1>12, <2>3, <2>4, Zenon
  <2>6. Replayable(disk', f)
    <3> HIDE DEF T, X
    <3>1. ASSUME NEW o, o.id \in Id, NEW q \in want[d], NEW v,
                 disk.qByID[o.id] = q, Matches(disk.tasks[q][o.id], v)
          PROVE  disk'.qByID[o.id] = q /\ Matches(disk'.tasks[q][o.id], v)
      BY <1>7, <2>5, <3>1
    <3>2. \A o \in f.deletes \cup f.depends :
              disk'.qByID[o.id] = o.queue /\ Matches(disk'.tasks[o.queue][o.id], o.version)
      <4> SUFFICES ASSUME NEW o \in f.deletes \cup f.depends
                   PROVE  /\ disk'.qByID[o.id] = o.queue
                          /\ Matches(disk'.tasks[o.queue][o.id], o.version)
        BY Zenon
      <4>1. disk.qByID[o.id] = o.queue /\ Matches(disk.tasks[o.queue][o.id], o.version)
        BY <2>3, Zenon DEF Replayable
      <4>2. o.id \in Id /\ o.queue \in want[d]
        BY <2>3, EntryParts, Zenon DEF Within
      <4> QED
        BY <3>1, <4>1, <4>2, Zenon
    <3>3. \A o \in f.changes :
              /\ disk'.qByID[o.id] = o.from
              /\ Matches(disk'.tasks[o.from][o.id], o.task.version - 1)
      <4> SUFFICES ASSUME NEW o \in f.changes
                   PROVE  /\ disk'.qByID[o.id] = o.from
                          /\ Matches(disk'.tasks[o.from][o.id], o.task.version - 1)
        BY SMTT(30)
      <4>1. disk.qByID[o.id] = o.from /\ Matches(disk.tasks[o.from][o.id], o.task.version - 1)
        BY <2>3, Zenon DEF Replayable
      <4>2. o.id \in Id /\ o.from \in want[d]
        BY <2>3, EntryParts, Zenon DEF Within
      <4> QED
        BY <3>1, <4>1, <4>2, Zenon
    <3>4. \A o \in f.inserts : /\ disk'.tasks[o.task.queue][o.id] = NoTask
                               /\ disk'.qByID[o.id] = Nil
      <4> SUFFICES ASSUME NEW o \in f.inserts
                   PROVE  disk'.tasks[o.task.queue][o.id] = NoTask /\ disk'.qByID[o.id] = Nil
        BY Zenon
      <4>1. disk.tasks[o.task.queue][o.id] = NoTask
        BY <2>3, Zenon DEF Replayable
      <4>2. o.id \in Id /\ o.task.queue \in want[d] /\ o.id \in Mine(d)
        BY <2>3, EntryParts, Zenon DEF Within, Ids
      <4> QED
        BY <1>7, <1>13, <2>1, <2>5, <4>1, <4>2, SMTT(30)
    <3> QED
      BY <3>2, <3>3, <3>4, SMTT(30) DEF Replayable
  <2>7. \A q \in want[d], i \in Id : Lapsed(Mem[q][i]) = Lapsed(E[q][i])
    <3> SUFFICES ASSUME NEW q \in want[d], NEW i \in Id
                 PROVE  Lapsed(Mem[q][i]) = Lapsed(E[q][i])
      BY Zenon
    <3>1. Lapsed(Mem[q][i]) = Lapsed(D[q][i])
      BY <2>2, Zenon DEF Pending
    <3>2. Lapsed(T[q][i]) = Lapsed(disk.tasks[q][i]) /\ q \in Queue
      BY <2>3, <2>5, Zenon
    <3> HIDE DEF T
    <3>3. Keyed(f)
      BY <2>3, Zenon
    <3>4. ASSUME NEW U, NEW V, Lapsed(U[q][i]) = Lapsed(V[q][i])
          PROVE  Lapsed(Rewritten(U, Gone(f), Put(f))[q][i]) =
                 Lapsed(Rewritten(V, Gone(f), Put(f))[q][i])
      BY <3>2, <3>3, <3>4, RewrittenSame
    <3>5. Lapsed(E[q][i]) = Lapsed(D[q][i])
      BY <3>2, <3>4, Zenon
    <3> QED
      BY <3>1, <3>5, Zenon
  <2>8. \A q \in want'[d], i \in Id :
           Lapsed(Mem[q][i])' = Lapsed(Rewritten(disk.tasks, Gone(f), Put(f))[q][i])'
    <3>1. Rewritten(disk.tasks, Gone(f), Put(f))' = E
      BY <1>7, <2>2, Zenon
    <3> HIDE DEF E
    <3>2. want'[d] = want[d]
      BY <1>2, Zenon
    <3>3. ASSUME NEW q \in want[d], NEW i \in Id
          PROVE  Lapsed(Mem[q][i])' = Lapsed(Mem[q][i])
      BY <1>1, <1>4, Zenon DEF Lapsed
    <3>4. ASSUME NEW q \in want[d], NEW i \in Id
          PROVE  Lapsed(Rewritten(disk.tasks, Gone(f), Put(f))[q][i])' = Lapsed(E[q][i])
      BY <1>1, <3>1, SMTT(30) DEF Lapsed
    <3> QED
      BY <2>7, <3>2, <3>3, <3>4
  <2>9. /\ Keyed(f)' /\ Within(f, want[d])' /\ Replayable(disk, f)'
        /\ (Ids(f.inserts) \subseteq Mine(d))'
    BY <1>2, <2>2, <2>3, <2>6, Zenon
  <2>10. step'[d] = "index" =>
            Indexed(qByID, f)' /\ Agrees(Mem, Reindexed(qByID, f), want[d])'
    BY <1>1, <1>2, <1>4, <2>1, <2>2, <2>3, Zenon
  <2> QED
    BY <2>8, <2>9, <2>10, Zenon DEF Pending
<1>18. IndexAgrees'
  <2> SUFFICES ASSUME NEW i \in Id, NEW q \in Queue,
                      \A d \in Call : step'[d] = "index" => q \notin want[d]
               PROVE  Memory(q)[i] # NoTask <=> qByID[i] = q
    BY <1>1, <1>2, <1>4, Zenon DEF IndexAgrees
  <2>1. \A d \in Call : step[d] = "index" => q \notin want[d]
    BY <1>1, <1>9, Zenon
  <2> QED
    BY <2>1, Zenon DEF MemInv, IndexAgrees
<1>19. Journaled'
  <2> SUFFICES ASSUME NEW i \in Id, NEW q \in Queue,
                      \A d \in Call : step'[d] \in {"index", "journal"} => q \notin want'[d]
               PROVE  Lapsed(Memory(q)[i])' = Lapsed(disk.tasks[q][i])'
    BY Zenon DEF Journaled
  <2>1. Lapsed(Memory(q)[i]) = Lapsed(T[q][i])
    <3>1. CASE q \in want[c]
      <4>1. Pending(c)
        BY <1>1, Zenon DEF MemInv
      <4>2. Lapsed(Mem[q][i]) = Lapsed(T[q][i])
        BY <3>1, <4>1, Zenon DEF Pending
      <4> QED
        BY <1>4, <4>2, Zenon
    <3>2. CASE q \notin want[c]
      <4>1. \A d \in Call : step[d] \in {"index", "journal"} => q \notin want[d]
        BY <1>2, <1>9, <3>2, Zenon
      <4>2. Lapsed(Memory(q)[i]) = Lapsed(disk.tasks[q][i])
        BY <4>1, MemIsTyped, Zenon DEF MemInv, Journaled
      <4> QED
        BY <1>12, <3>2, <4>2, Zenon
    <3> QED
      BY <3>1, <3>2, Zenon
  <2> HIDE DEF T
  <2> QED
    BY <1>1, <1>4, <1>7, <2>1, Zenon DEF Lapsed
<1>20. Agrees(disk.tasks, disk.qByID, Queue)'
  <2>1. Agrees(T, X, Queue)
    BY <1>5, RewrittenAgrees, Zenon DEF MemInv
  <2> QED
    BY <1>7, <2>1, Zenon
<1>21. InPlace(Mem)'
  BY <1>1, <1>4, ZenonT(40) DEF MemInv, InPlace
<1>22. InPlace(disk.tasks)'
  <2>1. InPlace(T)
    <3>1. \A p \in Put(e) : p.id \in used
      BY <1>5, WrittenIsUsed, Zenon
    <3>2. InPlace(disk.tasks)
      BY Zenon DEF MemInv
    <3> QED
      BY <1>5, <3>1, <3>2, RewrittenInPlace, SMTT(30)
  <2> HIDE DEF T
  <2> QED
    BY <1>1, <1>7, <2>1, SMTT(30) DEF InPlace
<1> QED
  BY <1>3, <1>14, <1>15, <1>16, <1>17, <1>18, <1>19, <1>20, <1>21, <1>22, Zenon DEF MemInv

-----------------------------------------------------------------------------
(* What a modification does fits the index and the journal. *)

(* A task in a queue that a call has to itself is indexed and journaled,   *)
(* and the journal has its version.                                        *)
LEMMA HeldTask ==
    ASSUME MemInv, NEW c \in Call, pc[c] = "work", step[c] = "apply",
           NEW q \in want[c], NEW i \in Id, Memory(q)[i] # NoTask
    PROVE  /\ Memory(q)[i] \in Task /\ Memory(q)[i].queue = q
           /\ qByID[i] = q /\ disk.qByID[i] = q
           /\ \A v : Matches(Memory(q)[i], v) => Matches(disk.tasks[q][i], v)
<1> DEFINE t == Memory(q)[i]
           u == disk.tasks[q][i]
<1>1. q \in Queue
  BY NameIsQueue, Zenon DEF MemInv, LocksInv, LocksTypeOK
<1>2. \A d \in Call : step[d] \in {"index", "journal"} => q \notin want[d]
  BY PendingApart, Zenon
<1>3. qByID[i] = q
  BY <1>1, <1>2, Zenon DEF MemInv, IndexAgrees
<1>4. Mem[q] = Memory(q)
  BY <1>1, Zenon DEF Mem
<1>5. t \in Task /\ u \in Task \cup {NoTask} /\ disk.ok
  BY <1>1, <1>4, MemIsTyped, Zenon
<1>6. t.queue = q
  BY <1>1, <1>4, Zenon DEF MemInv, InPlace
<1>7. Lapsed(t) = Lapsed(u)
  BY <1>1, <1>2, <1>5, Zenon DEF MemInv, Journaled
<1> HIDE DEF t, u
<1>8. u # NoTask /\ u.version = t.version
  BY <1>5, <1>7, LapsedKeeps DEF t
<1>9. disk.qByID[i] = q
  BY <1>1, <1>8, Zenon DEF MemInv, Agrees, u
<1>10. \A v : Matches(t, v) => Matches(u, v)
  BY <1>8, Zenon DEF Matches
<1> QED
  BY <1>3, <1>5, <1>6, <1>9, <1>10, Zenon DEF t, u

(* An operation finds what is in the queue it names. *)
LEMMA FoundThere ==
    ASSUME MemInv, NEW c \in Call, pc[c] = "work", req[c] \in ValidRequests,
           NEW o \in Ops(req[c])
    PROVE  /\ o.id \in Id /\ Named(o) \in want[c] /\ Named(o) \in Queue
           /\ Found(c)[o.id] = Memory(Named(o))[o.id]
<1> DEFINE i == o.id
           L == Locking(c)
           at == {q \in want[c] :
                    /\ L[q][i] # NoTask
                    /\ \/ \E x \in Ops(req[c]) : x.id = i /\ Named(x) = q
                       \/ <<i, q>> \in prep[c].misplaced}
<1>1. LocksInv /\ MemTypeOK /\ Serving(c) /\ req[c] \in Request
  BY ModifyRequest, Zenon DEF MemInv
<1>2. i \in Id /\ OpQueues(o) \subseteq want[c]
  BY <1>1, Operations, Zenon DEF Serving
<1>3. Named(o) \in want[c]
  <2>1. Named(o) \in OpQueues(o)
    BY Zenon DEF Named, OpQueues
  <2> QED
    BY <1>2, <2>1, Zenon
<1>4. Named(o) \in Queue /\ L[Named(o)] = Memory(Named(o))
  BY <1>1, <1>3, WorksOnMemory, Zenon
<1>5. \A x \in Ops(req[c]) : x.id = i => x = o
  BY Zenon DEF ValidRequests, Valid
<1>6. prep[c].misplaced = {}
  BY <1>1, Zenon DEF MemTypeOK
<1>7. Found(c)[i] = IF at = {} THEN NoTask ELSE L[CHOOSE q \in at : TRUE][i]
  BY <1>2, Zenon DEF Found
<1>8. \A q \in at : q = Named(o) /\ L[q][i] # NoTask
  BY <1>5, <1>6, Zenon
<1>9. CASE Memory(Named(o))[i] = NoTask
  <2>1. at = {}
    BY <1>4, <1>8, <1>9, Zenon
  <2> HIDE DEF at
  <2> QED
    BY <1>2, <1>3, <1>4, <1>7, <1>9, <2>1, Zenon
<1>10. CASE Memory(Named(o))[i] # NoTask
  <2>1. Named(o) \in at
    BY <1>3, <1>4, <1>10, Zenon
  <2>2. (CHOOSE q \in at : TRUE) \in at
    BY <2>1, Zenon
  <2> HIDE DEF at
  <2>3. (CHOOSE q \in at : TRUE) = Named(o)
    BY <1>8, <2>2, Zenon
  <2>4. at # {}
    BY <2>1, Zenon
  <2>5. Found(c)[i] = L[Named(o)][i]
    BY <1>7, <2>3, <2>4, Zenon
  <2> QED
    BY <1>2, <1>3, <1>4, <2>5, Zenon
<1> QED
  BY <1>9, <1>10, Zenon

(* A modification that is not refused found every task it names. *)
LEMMA FoundAll ==
    ASSUME MemInv, NEW c \in Call, pc[c] = "work", step[c] = "apply",
           req[c] \in ValidRequests, ~Refused(c)
    PROVE  /\ \A o \in Changes(req[c]) \cup req[c].deletes \cup req[c].depends :
                /\ Matches(Found(c)[o.id], o.version) /\ Found(c)[o.id] \in Task
                /\ qByID[o.id] = Named(o) /\ disk.qByID[o.id] = Named(o)
                /\ Matches(disk.tasks[Named(o)][o.id], o.version)
           /\ \A o \in req[c].inserts :
                /\ qByID[o.id] = Nil /\ disk.qByID[o.id] = Nil
                /\ disk.tasks[o.queue][o.id] = NoTask
<1> DEFINE mod == req[c]
<1>1. mod \in Request
  BY ModifyRequest, Zenon
<1>2. ~HasAny(DependencyError(mod, Found(c), now))
  BY Zenon DEF Refused
<1>3. \A o \in Changes(mod) \cup mod.deletes \cup mod.depends : Matches(Found(c)[o.id], o.version)
  <2> DEFINE missing(ops) == {o \in ops : ~Matches(Found(c)[o.id], o.version)}
  <2>1. /\ Ids(missing(mod.depends)) = {} /\ Ids(missing(mod.deletes)) = {}
        /\ Ids(missing(Changes(mod))) = {}
    BY <1>2, Zenon DEF HasAny, HasMissing, DependencyError
  <2> QED
    BY <2>1, Zenon DEF Ids
<1>4. ASSUME NEW o \in Changes(mod) \cup mod.deletes \cup mod.depends
      PROVE  /\ Found(c)[o.id] \in Task
             /\ qByID[o.id] = Named(o) /\ disk.qByID[o.id] = Named(o)
             /\ Matches(disk.tasks[Named(o)][o.id], o.version)
  <2>1. o \in Ops(mod)
    BY Zenon DEF Ops
  <2>2. /\ o.id \in Id /\ Named(o) \in want[c]
        /\ Found(c)[o.id] = Memory(Named(o))[o.id]
    BY <2>1, FoundThere, Zenon
  <2>3. Memory(Named(o))[o.id] # NoTask
    BY <1>3, <2>2, Zenon DEF Matches
  <2> QED
    BY <1>3, <2>2, <2>3, HeldTask
<1>5. ASSUME NEW o \in mod.inserts
      PROVE  /\ qByID[o.id] = Nil /\ disk.qByID[o.id] = Nil
             /\ disk.tasks[o.queue][o.id] = NoTask
  <2>1. o.id \in Mine(c)
    BY Zenon DEF Mine, Ids
  <2>2. qByID[o.id] = Nil /\ disk.qByID[o.id] = Nil
    BY <2>1, Zenon DEF MemInv, Fresh
  <2>3. o.queue \in Queue /\ o.id \in Id
    BY <1>1, Operations, Zenon DEF Insert
  <2>4. disk.qByID[o.id] # o.queue
    BY <2>2, <2>3, NilIsNothing, Zenon
  <2> QED
    BY <2>2, <2>3, <2>4, Zenon DEF MemInv, Agrees
<1> QED
  BY <1>3, <1>4, <1>5, Zenon

(* A change leaves a task, and so does an insert. *)
LEMMA ChangedIsTask ==
    ASSUME NEW a \in Claimant, NEW o \in Change, NEW t \in Task, now \in Nat
    PROVE  /\ Changed(a, o, t, now) \in Task /\ Changed(a, o, t, now).queue = o.queue
           /\ Changed(a, o, t, now).version = o.version + 1
<1> DEFINE at == NormalizeArrival(now + o.by, now)
           h == HolderOf(a, at, now)
           n == IF o.reset THEN 0 ELSE t.claims
<1>1. /\ o.queue \in Queue /\ o.version \in Nat /\ o.by \in Int /\ o.reset \in BOOLEAN
      /\ t.claims \in Nat
  BY Zenon DEF Change, Task
<1>2. at \in Int
  BY <1>1, WindowIsDuration DEF NormalizeArrival
<1>3. h \in Claimant \cup {NoOne} /\ n \in Nat
  BY <1>1, Zenon DEF HolderOf
<1>4. Changed(a, o, t, now) = [queue |-> o.queue, version |-> o.version + 1, at |-> at,
                               claimant |-> h, claims |-> n]
  BY Zenon DEF Changed
<1> HIDE DEF at, h, n
<1> QED
  BY <1>1, <1>2, <1>3, <1>4 DEF Task

(* What is inserted is a task. *)
LEMMA InsertedIsTask ==
    ASSUME NEW a \in Claimant, NEW o \in Insert, now \in Nat
    PROVE  /\ Inserted(a, o, now) \in Task /\ Inserted(a, o, now).queue = o.queue
           /\ Inserted(a, o, now).version = 0
<1> DEFINE at == NormalizeArrival(now + o.by, now)
           h == HolderOf(a, at, now)
<1>1. o.queue \in Queue /\ o.by \in Int
  BY Zenon DEF Insert
<1>2. at \in Int
  BY <1>1, WindowIsDuration DEF NormalizeArrival
<1>3. h \in Claimant \cup {NoOne}
  BY Zenon DEF HolderOf
<1>4. Inserted(a, o, now) = [queue |-> o.queue, version |-> 0, at |-> at,
                             claimant |-> h, claims |-> 0]
  BY Zenon DEF Inserted
<1> HIDE DEF at, h
<1> QED
  BY <1>1, <1>2, <1>3, <1>4 DEF Task

(* The entry of a modification that is not refused fits. *)
LEMMA EntryIsReady ==
    ASSUME MemInv, NEW c \in Call, pc[c] = "work", step[c] = "apply",
           req[c] \in ValidRequests, ~Refused(c)
    PROVE  Ready(c, EntryOf(req[c], Found(c)))
<1> DEFINE mod == req[c]
           e == EntryOf(mod, Found(c))
           After(o) == Changed(mod.claimant, o, Found(c)[o.id], now)
           New(o) == Inserted(mod.claimant, o, now)
<1>1. mod \in Request /\ mod.claimant \in Claimant /\ now \in Nat
  BY ModifyRequest, Zenon DEF MemInv, MemTypeOK, Request
<1>2. mod.deletes \subseteq TaskID /\ mod.depends \subseteq TaskID
  BY <1>1, SMTT(30) DEF Request
<1>3. /\ e.claimant = mod.claimant /\ e.deletes = mod.deletes /\ e.depends = mod.depends
      /\ e.changes = {[id |-> o.id, from |-> o.from, task |-> After(o)] : o \in Changes(mod)}
      /\ e.inserts = {[id |-> o.id, task |-> New(o)] : o \in mod.inserts}
      /\ e = [claimant |-> e.claimant, deletes |-> e.deletes, depends |-> e.depends,
              changes |-> e.changes, inserts |-> e.inserts]
  BY Zenon DEF EntryOf
<1>4. ASSUME NEW o \in Changes(mod)
      PROVE  /\ o \in Ops(mod) /\ o.id \in Id /\ o.from \in want[c] /\ o.queue \in want[c]
             /\ o.from \in Queue /\ Named(o) = o.from /\ o.version \in Nat
             /\ After(o) \in Task /\ After(o).queue = o.queue
             /\ After(o).version = o.version + 1
             /\ qByID[o.id] = o.from /\ disk.qByID[o.id] = o.from
             /\ Matches(disk.tasks[o.from][o.id], o.version)
  <2>1. o \in Change /\ Named(o) = o.from /\ OpQueues(o) = {o.queue, o.from} /\ o \in Ops(mod)
    BY <1>1, Operations, Zenon
  <2>2. OpQueues(o) \subseteq want[c]
    BY <2>1, Zenon DEF MemInv, Serving
  <2>3. o.id \in Id /\ o.version \in Nat /\ o.from \in Queue
    BY <2>1, Zenon DEF Change
  <2>4. /\ Found(c)[o.id] \in Task
        /\ qByID[o.id] = Named(o) /\ disk.qByID[o.id] = Named(o)
        /\ Matches(disk.tasks[Named(o)][o.id], o.version)
    BY FoundAll, Zenon
  <2>5. After(o) \in Task /\ After(o).queue = o.queue /\ After(o).version = o.version + 1
    BY <1>1, <2>1, <2>4, ChangedIsTask, Zenon
  <2> HIDE DEF After
  <2> QED
    BY <2>1, <2>2, <2>3, <2>4, <2>5, Zenon
<1>5. ASSUME NEW o \in mod.inserts
      PROVE  /\ o \in Ops(mod) /\ o.id \in Id /\ o.queue \in want[c]
             /\ New(o) \in Task /\ New(o).queue = o.queue
             /\ qByID[o.id] = Nil /\ disk.qByID[o.id] = Nil
             /\ disk.tasks[o.queue][o.id] = NoTask
  <2>1. o \in Insert /\ OpQueues(o) = {o.queue} /\ o \in Ops(mod)
    BY <1>1, Operations, Zenon
  <2>2. OpQueues(o) \subseteq want[c]
    BY <2>1, Zenon DEF MemInv, Serving
  <2>3. o.id \in Id
    BY <2>1, Zenon DEF Insert
  <2>4. /\ qByID[o.id] = Nil /\ disk.qByID[o.id] = Nil
        /\ disk.tasks[o.queue][o.id] = NoTask
    BY FoundAll, Zenon
  <2>5. New(o) \in Task /\ New(o).queue = o.queue
    BY <1>1, <2>1, InsertedIsTask, Zenon
  <2> HIDE DEF New
  <2> QED
    BY <2>1, <2>2, <2>3, <2>4, <2>5, Zenon
<1>6. ASSUME NEW o \in mod.deletes \cup mod.depends
      PROVE  /\ o \in Ops(mod) /\ o.queue \in want[c]
             /\ qByID[o.id] = o.queue /\ disk.qByID[o.id] = o.queue
             /\ Matches(disk.tasks[o.queue][o.id], o.version)
  <2>1. o \in TaskID /\ Named(o) = o.queue /\ OpQueues(o) = {o.queue} /\ o \in Ops(mod)
    BY <1>1, Operations, Zenon
  <2>2. OpQueues(o) \subseteq want[c]
    BY <2>1, Zenon DEF MemInv, Serving
  <2>3. /\ qByID[o.id] = Named(o) /\ disk.qByID[o.id] = Named(o)
        /\ Matches(disk.tasks[Named(o)][o.id], o.version)
    BY FoundAll, Zenon
  <2> QED
    BY <2>1, <2>2, <2>3, Zenon
<1>7. \A x, y \in Ops(mod) : x.id = y.id => x = y
  BY Zenon DEF ValidRequests, Valid
<1> HIDE DEF e, After, New, mod
<1>8. \A x \in e.changes : \E o \in Changes(mod) :
            x.id = o.id /\ x.from = o.from /\ x.task = After(o) /\ x \in Written
  BY <1>3, <1>4 DEF Written
<1>9. \A x \in e.inserts : \E o \in mod.inserts :
            x.id = o.id /\ x.task = New(o) /\ x \in Placed
  BY <1>3, <1>5 DEF Placed
<1>10. e \in Entry
  <2>1. e.changes \subseteq Written /\ e.inserts \subseteq Placed
    BY <1>8, <1>9, Zenon
  <2> QED
    BY <1>1, <1>2, <1>3, <2>1, Zenon DEF Entry
<1>11. Keyed(e)
  <2>1. \A x, y \in e.changes : x.id = y.id => x = y
    BY <1>3, <1>4, <1>7
  <2>2. \A x, y \in e.inserts : x.id = y.id => x = y
    BY <1>3, <1>5, <1>7
  <2>3. \A o \in Changes(mod), x \in mod.inserts : o # x
    <3>1. \A o \in Changes(mod) : "from" \in DOMAIN o
      BY <1>1, Operations, Zenon DEF Change
    <3>2. \A o \in mod.inserts : "from" \notin DOMAIN o
      BY <1>1, Operations DEF Insert
    <3> QED
      BY <3>1, <3>2, Zenon
  <2>4. \A o \in Changes(mod) \cup mod.inserts, x \in mod.deletes : o # x
    <3>1. \A o \in Changes(mod) \cup mod.inserts : "by" \in DOMAIN o
      BY <1>1, Operations DEF Change, Insert
    <3>2. \A o \in mod.deletes : "by" \notin DOMAIN o
      BY <1>2 DEF TaskID
    <3> QED
      BY <3>1, <3>2, Zenon
  <2>5. Ids(e.changes) \cap Ids(e.inserts) = {}
    BY <1>4, <1>5, <1>7, <1>8, <1>9, <2>3, SMTT(30) DEF Ids
  <2>6. Ids(e.deletes) \cap Ids(Put(e)) = {}
    BY <1>3, <1>4, <1>5, <1>6, <1>7, <1>8, <1>9, <2>4, SMTT(30) DEF Ids, Put
  <2> QED
    BY <2>1, <2>2, <2>5, <2>6, Zenon DEF Keyed
<1>12. Within(e, want[c])
  BY <1>3, <1>4, <1>5, <1>6, <1>8, <1>9 DEF Within
<1>13. Ids(e.inserts) \subseteq Mine(c)
  BY <1>9, Zenon DEF Ids, Mine, mod
<1>14. Indexed(qByID, e)
  BY <1>3, <1>4, <1>5, <1>6, <1>8, <1>9, SMTT(30) DEF Indexed
<1>15. Replayable(disk, e)
  <2>1. \A o \in e.deletes \cup e.depends :
            disk.qByID[o.id] = o.queue /\ Matches(disk.tasks[o.queue][o.id], o.version)
    BY <1>3, <1>6, Zenon
  <2>2. \A x \in e.changes : /\ disk.qByID[x.id] = x.from
                             /\ Matches(disk.tasks[x.from][x.id], x.task.version - 1)
    <3> SUFFICES ASSUME NEW x \in e.changes
                 PROVE  /\ disk.qByID[x.id] = x.from
                        /\ Matches(disk.tasks[x.from][x.id], x.task.version - 1)
      BY Zenon
    <3>1. PICK o \in Changes(mod) : x.id = o.id /\ x.from = o.from /\ x.task = After(o)
      BY <1>8, Zenon
    <3>2. x.task.version - 1 = o.version
      BY <1>4, <3>1
    <3> QED
      BY <1>4, <3>1, <3>2, Zenon
  <2>3. \A x \in e.inserts : disk.tasks[x.task.queue][x.id] = NoTask /\ disk.qByID[x.id] = Nil
    BY <1>5, <1>9
  <2> QED
    BY <2>1, <2>2, <2>3, Zenon DEF Replayable
<1> QED
  BY <1>10, <1>11, <1>12, <1>13, <1>14, <1>15, Zenon DEF Ready, e, mod

(* A modification is made once its call has its locks. *)
LEMMA ApplySteps ==
    ASSUME MemInv, NEW c \in Call, Apply(c)
    PROVE  pc[c] = "work" /\ step[c] = "apply" /\ req[c] \in ValidRequests
<1>1. pc[c] = "work" /\ step[c] = "apply" /\ IsModify(req[c])
  BY Zenon DEF Apply
<1>2. req[c] \in ValidRequests \cup ClaimQuery \cup {NoRequest}
  BY Zenon DEF MemInv, MemTypeOK
<1> QED
  BY <1>1, <1>2, ClaimRequest, NoRequestIsNone, Zenon

-----------------------------------------------------------------------------
(* What a claim does fits them too. *)

(* The change that c makes to the task it claims, and the entry for it. *)
ClaimOf(c, i) ==
    [id |-> i, from |-> req[c].queue,
     task |-> Claimed(Memory(req[c].queue)[i], req[c].claimant, req[c].duration, now)]

ClaimEntry(c, i) == [NoEntry EXCEPT !.claimant = req[c].claimant, !.changes = {ClaimOf(c, i)}]

(* A claim finds nothing, or is the change of one task of its queue. *)
LEMMA ClaimSteps ==
    ASSUME MemInv, NEW c \in Call, ClaimTask(c)
    PROVE  /\ pc[c] = "work" /\ step[c] = "apply" /\ req[c] \in ClaimQuery
           /\ \/ Return(c) /\ UNCHANGED <<qByID, disk, used, now>>
              \/ \E i \in Id :
                    /\ Memory(req[c].queue)[i] # NoTask
                    /\ Available(Memory(req[c].queue)[i], now)
                    /\ Memory(req[c].queue)[i].version < MaxVersion
                    /\ Rewrite(c, ClaimEntry(c, i))
                    /\ entry' = [entry EXCEPT ![c] = ClaimEntry(c, i)]
                    /\ step' = [step EXCEPT ![c] = "journal"]
                    /\ UNCHANGED <<qByID, req, prep, disk, used, now>>
<1> DEFINE q == req[c].queue
           here == Locking(c)[q]
<1>1. pc[c] = "work" /\ step[c] = "apply" /\ IsClaim(req[c])
  BY Zenon DEF ClaimTask
<1>2. req[c] \in ClaimQuery
  <2>1. req[c] \in ValidRequests \cup ClaimQuery \cup {NoRequest}
    BY Zenon DEF MemInv, MemTypeOK
  <2> QED
    BY <1>1, <2>1, ModifyRequest, NoRequestIsNone, Zenon
<1>3. q \in want[c]
  BY <1>2, Zenon DEF MemInv, Serving
<1>4. here = Memory(q)
  BY <1>1, <1>3, WorksOnMemory DEF MemInv
<1> HIDE DEF here
<1>5. \/ Return(c) /\ UNCHANGED <<qByID, disk, used, now>>
      \/ \E i \in {k \in Id : /\ here[k] # NoTask /\ Available(here[k], now)
                              /\ here[k].version < MaxVersion} :
            LET t == Claimed(here[i], req[c].claimant, req[c].duration, now)
                e == [NoEntry EXCEPT !.claimant = req[c].claimant,
                                     !.changes = {[id |-> i, from |-> q, task |-> t]}]
            IN /\ Rewrite(c, e) /\ entry' = [entry EXCEPT ![c] = e]
               /\ step' = [step EXCEPT ![c] = "journal"]
               /\ UNCHANGED <<qByID, req, prep, disk, used, now>>
  BY Zenon DEF ClaimTask, here
<1> QED
  BY <1>1, <1>2, <1>4, <1>5, Zenon DEF ClaimEntry, ClaimOf

(* An entry after which the index is as it was. *)
KeepsIndex(e) == Reindexed(qByID, e) = qByID

(* The entry of a claim fits, and leaves the index as it is. *)
LEMMA ClaimIsReady ==
    ASSUME MemInv, NEW c \in Call, pc[c] = "work", step[c] = "apply", req[c] \in ClaimQuery,
           NEW i \in Id, Memory(req[c].queue)[i] # NoTask
    PROVE  /\ req[c].queue \in want[c] /\ req[c].queue \in Queue
           /\ ClaimOf(c, i).id = i /\ ClaimOf(c, i).from = req[c].queue
           /\ ClaimOf(c, i).task
                = Claimed(Memory(req[c].queue)[i], req[c].claimant, req[c].duration, now)
           /\ ClaimOf(c, i).task \in Task /\ ClaimOf(c, i).task.queue = req[c].queue
           /\ ClaimEntry(c, i).deletes = {} /\ ClaimEntry(c, i).changes = {ClaimOf(c, i)}
           /\ Put(ClaimEntry(c, i)) = {ClaimOf(c, i)}
           /\ Ready(c, ClaimEntry(c, i))
           /\ KeepsIndex(ClaimEntry(c, i))
<1> DEFINE q == req[c].queue
           old == Memory(q)[i]
           t == Claimed(old, req[c].claimant, req[c].duration, now)
           x == ClaimOf(c, i)
           e == ClaimEntry(c, i)
<1>1. /\ q \in want[c] /\ q \in Queue /\ req[c].claimant \in Claimant
      /\ req[c].duration \in Nat /\ now \in Nat
  BY ClaimRequest, Zenon DEF MemInv, Serving, MemTypeOK
<1>2. /\ old \in Task /\ old.queue = q /\ qByID[i] = q /\ disk.qByID[i] = q
      /\ \A v : Matches(old, v) => Matches(disk.tasks[q][i], v)
  BY <1>1, HeldTask, SMTT(30)
<1> HIDE DEF old, q
<1>3. /\ t \in Task /\ t.queue = q /\ t.version = old.version + 1 /\ old.version \in Nat
      /\ old # NoTask
  BY <1>1, <1>2, SMTT(30) DEF Claimed, Task, old, q
<1> HIDE DEF t
<1>4. x = [id |-> i, from |-> q, task |-> t]
  BY Zenon DEF ClaimOf, q, t, old
<1>5. x.id = i /\ x.from = q /\ x.task = t /\ x \in Written
  BY <1>1, <1>3, <1>4, SMTT(30) DEF Written
<1> HIDE DEF x
<1>6. e = [NoEntry EXCEPT !.claimant = req[c].claimant, !.changes = {x}]
  BY Zenon DEF ClaimEntry, x
<1> HIDE DEF e
<1>7. /\ e.deletes = {} /\ e.depends = {} /\ e.inserts = {} /\ e.changes = {x}
  BY <1>6, Zenon DEF NoEntry
<1>8. e \in Entry
  <2>1. \A a \in Claimant, b \in SUBSET Written :
            [NoEntry EXCEPT !.claimant = a, !.changes = b] \in Entry
    BY Zenon DEF NoEntry, Entry
  <2>2. {x} \in SUBSET Written
    BY <1>5, Zenon
  <2> QED
    BY <1>1, <1>6, <2>1, <2>2, Zenon
<1>9. Put(e) = {x} /\ Ids(e.inserts) = {} /\ Ids(e.deletes) = {}
  BY <1>7, Zenon DEF Put, Ids
<1>10. Keyed(e)
  BY <1>7, <1>9, Zenon DEF Keyed
<1>11. Within(e, want[c]) /\ Indexed(qByID, e)
  BY <1>1, <1>2, <1>3, <1>5, <1>7, Zenon DEF Within, Indexed
<1>12. Replayable(disk, e)
  <2>1. Matches(disk.tasks[q][i], t.version - 1)
    BY <1>2, <1>3 DEF Matches
  <2> QED
    BY <1>2, <1>5, <1>7, <2>1, Zenon DEF Replayable
<1>13. Ready(c, e)
  BY <1>8, <1>9, <1>10, <1>11, <1>12, Zenon DEF Ready
<1>14. Reindexed(qByID, e) = qByID
  <2> DEFINE X == Reindexed(qByID, e)
  <2>1. qByID \in [Id -> Queue \cup {Nil}]
    BY Zenon DEF MemInv, MemTypeOK
  <2>2. X \in [Id -> Queue \cup {Nil}]
    BY <1>8, <1>10, <2>1, ReindexedTyped, Zenon
  <2>3. X[i] = qByID[i]
    <3>1. x \in Put(e) /\ x.id \in Id /\ x.id = i
      BY <1>5, <1>9, Zenon
    <3>2. X[x.id] = x.task.queue
      BY <1>10, <3>1, ReindexedPut, Zenon
    <3> QED
      BY <1>2, <1>3, <1>5, <3>1, <3>2, Zenon
  <2>4. ASSUME NEW j \in Id, j # i PROVE X[j] = qByID[j]
    <3>1. \A p \in Put(e) : p.id # j
      BY <1>5, <1>9, <2>4, Zenon
    <3>2. X[j] = IF j \in Ids(e.deletes) THEN Nil ELSE qByID[j]
      BY <3>1, ReindexedElse, Zenon
    <3> QED
      BY <1>9, <3>2, Zenon
  <2> HIDE DEF X
  <2> QED
    BY <2>1, <2>2, <2>3, <2>4 DEF X
<1> QED
  BY <1>1, <1>3, <1>5, <1>7, <1>9, <1>13, <1>14, ZenonT(40) DEF KeepsIndex, e, x, t, old, q

-----------------------------------------------------------------------------
(* Opening the backend. *)

(* A backend that has just loaded its journal. *)
Loaded ==
    /\ disk \in Journals /\ Agrees(disk.tasks, disk.qByID, Queue) /\ InPlace(disk.tasks)
    /\ used \in SUBSET Id /\ now \in Nat
    /\ pc \in [Call -> {"start", "done"}] /\ round \in [Call -> {"queues", "namespaces"}]
    /\ want = [c \in Call |-> {}]
    /\ got = [c \in Call |-> [q \in Queue |-> Nil]]
    /\ holder = [q \in Queue |-> [s \in Struct |-> Nil]]
    /\ dependents = [q \in Queue |-> [s \in Struct |-> {}]]
    /\ \E s \in Struct : registry = [q \in Queue |-> IF disk.tasks[q] = NoTasks THEN Nil ELSE s]
    /\ content = [q \in Queue |-> [s \in Struct |->
            IF s = registry[q] THEN [i \in Id |-> Lapsed(disk.tasks[q][i])] ELSE NoTasks]]
    /\ qByID = disk.qByID
    /\ req = [c \in Call |-> NoRequest]
    /\ prep = [c \in Call |-> NoPrep]
    /\ step = [c \in Call |-> "none"]
    /\ entry = [c \in Call |-> NoEntry]

(* Its queues hold what the journal yields. *)
LEMMA LoadedMemory ==
    ASSUME Loaded, NEW q \in Queue
    PROVE  Mem[q] = Memory(q) /\ Memory(q) = [i \in Id |-> Lapsed(disk.tasks[q][i])]
<1> DEFINE load == [i \in Id |-> Lapsed(disk.tasks[q][i])]
<1>1. PICK s \in Struct : registry = [p \in Queue |-> IF disk.tasks[p] = NoTasks THEN Nil ELSE s]
  BY Zenon DEF Loaded
<1>2. \A r \in Struct : content[q][r] = IF r = registry[q] THEN load ELSE NoTasks
  BY Zenon DEF Loaded
<1>3. Memory(q) = load
  <2>1. CASE disk.tasks[q] = NoTasks
    <3>1. load = NoTasks
      BY <2>1, Zenon DEF NoTasks, Lapsed
    <3>2. registry[q] = Nil
      BY <1>1, <2>1, Zenon
    <3> QED
      BY <3>1, <3>2, Zenon DEF Memory
  <2>2. CASE disk.tasks[q] # NoTasks
    <3>1. registry[q] = s /\ s # Nil
      BY <1>1, <2>2, LocksAssumed, SMTT(30)
    <3> QED
      BY <1>2, <3>1, Zenon DEF Memory
  <2> QED
    BY <2>1, <2>2, Zenon
<1> QED
  BY <1>3, Zenon DEF Mem

(* It satisfies the invariant. *)
LEMMA LoadedKeeps == Loaded => MemInv
<1> SUFFICES ASSUME Loaded PROVE MemInv
  BY Zenon
<1> DEFINE load == [q \in Queue |-> [i \in Id |-> Lapsed(disk.tasks[q][i])]]
<1>1. disk.ok = TRUE /\ disk.tasks \in [Queue -> Contents] /\ disk.qByID \in [Id -> Queue \cup {Nil}]
  BY Zenon DEF Loaded, Journals
<1>2. \A q \in Queue, i \in Id : disk.tasks[q][i] \in Task \cup {NoTask}
  BY <1>1, Zenon DEF Contents
<1>3. \A q \in Queue, i \in Id :
        /\ load[q][i] \in Task \cup {NoTask}
        /\ load[q][i] = NoTask <=> disk.tasks[q][i] = NoTask
        /\ load[q][i] # NoTask => load[q][i].queue = disk.tasks[q][i].queue
        /\ Lapsed(load[q][i]) = Lapsed(disk.tasks[q][i])
  BY <1>2, LapsedKeeps, Zenon
<1>4. \A q \in Queue : load[q] \in Contents /\ (load[q] = NoTasks <=> disk.tasks[q] = NoTasks)
  <2> SUFFICES ASSUME NEW q \in Queue
               PROVE  load[q] \in Contents /\ (load[q] = NoTasks <=> disk.tasks[q] = NoTasks)
    BY Zenon
  <2>1. load[q] = [i \in Id |-> load[q][i]] /\ disk.tasks[q] = [i \in Id |-> disk.tasks[q][i]]
    BY <1>1, Zenon DEF Contents
  <2>2. load[q] \in Contents
    BY <1>3, Zenon DEF Contents
  <2>3. load[q] = NoTasks <=> \A i \in Id : load[q][i] = NoTask
    <3> HIDE DEF load
    <3> QED
      BY <2>1, Zenon DEF NoTasks
  <2>4. disk.tasks[q] = NoTasks <=> \A i \in Id : disk.tasks[q][i] = NoTask
    BY <2>1, Zenon DEF NoTasks
  <2> QED
    BY <1>3, <2>2, <2>3, <2>4, Zenon
<1>5. PICK s \in Struct :
        registry = [q \in Queue |-> IF disk.tasks[q] = NoTasks THEN Nil ELSE s]
  BY Zenon DEF Loaded
<1>6. \A q \in Queue : registry[q] = IF disk.tasks[q] = NoTasks THEN Nil ELSE s
  BY <1>5, Zenon
<1>7. \A q \in Queue, r \in Struct :
        content[q][r] = IF r = registry[q] THEN load[q] ELSE NoTasks
  BY Zenon DEF Loaded
<1>8. content \in [Queue -> [Struct -> Contents]]
  <2>1. content = [q \in Queue |-> [r \in Struct |-> IF r = registry[q] THEN load[q] ELSE NoTasks]]
    BY Zenon DEF Loaded
  <2> HIDE DEF load
  <2> QED
    BY <1>4, <2>1, LocksAssumed, Zenon
<1> HIDE DEF load
<1>9. ASSUME NEW q \in Queue PROVE Memory(q) = load[q] /\ Mem[q] = load[q]
  BY LoadedMemory, Zenon DEF load
<1>10. LocksInv
  <2>1. LocksTypeOK
    <3>1. registry \in [Queue -> Struct \cup {Nil}]
      BY <1>5, Zenon
    <3>2. /\ dependents \in [Queue -> [Struct -> SUBSET Call]]
          /\ holder \in [Queue -> [Struct -> Call \cup {Nil}]]
          /\ want \in [Call -> SUBSET Queue]
          /\ got \in [Call -> [Queue -> Struct \cup {Nil}]]
      BY Zenon DEF Loaded
    <3>3. pc \in [Call -> PCs] /\ round \in [Call -> {"queues", "namespaces"}]
      BY Zenon DEF Loaded, PCs
    <3> QED
      BY <1>8, <3>1, <3>2, <3>3, NameIsQueue, Zenon DEF LocksTypeOK
  <2>2. \A d \in Call : want[d] = {} /\ \A q \in Queue : got[d][q] = Nil
    BY Zenon DEF Loaded
  <2>3. Counted
    <3>1. \A q \in Queue, r \in Struct :
              dependents[q][r] = {} /\ holder[q][r] = Nil /\ r # Nil
      BY LocksAssumed, Zenon DEF Loaded
    <3> QED
      BY <2>2, <3>1, NameIsQueue, SMTT(30) DEF Counted
  <2>4. \A d \in Call : InStep(d)
    BY <2>2, NameIsQueue, Zenon DEF InStep, Names
  <2>5. Registered
    BY <2>2, NameIsQueue, Zenon DEF Registered
  <2>6. NothingLost
    BY <1>7, NameIsQueue, Zenon DEF NothingLost
  <2>7. NoLeak
    <3> SUFFICES ASSUME NEW q \in Queue, registry[q] # Nil PROVE ~IsEmpty(q)
      BY NameIsQueue, Zenon DEF NoLeak
    <3>1. disk.tasks[q] # NoTasks /\ registry[q] = s
      BY <1>6, Zenon
    <3>2. content[q][registry[q]] = load[q]
      BY <1>7, <3>1, Zenon
    <3> QED
      BY <1>4, <3>1, <3>2, Zenon DEF IsEmpty
  <2> QED
    BY <2>1, <2>3, <2>4, <2>5, <2>6, <2>7, Zenon DEF LocksInv
<1>11. MemTypeOK
  <2>1. NoPrep \in [failed : BOOLEAN, misplaced : {{}}] /\ NoEntry \in Entry
    BY Zenon DEF NoPrep, NoEntry, Entry
  <2>2. /\ req \in [Call -> ValidRequests \cup ClaimQuery \cup {NoRequest}]
        /\ prep \in [Call -> [failed : BOOLEAN, misplaced : {{}}]]
        /\ entry \in [Call -> Entry]
        /\ step \in [Call -> {"none", "apply", "index", "journal"}]
    BY <2>1, Zenon DEF Loaded
  <2> QED
    BY <1>1, <2>2, Zenon DEF Loaded, MemTypeOK
<1>12. \A d \in Call : step[d] = "none" /\ req[d] = NoRequest
  BY Zenon DEF Loaded
<1>13. \A d \in Call : Mine(d) = {}
  BY <1>12, NoRequestIsNone, Zenon DEF Mine
<1>14. \A d \in Call : Serving(d) /\ Fresh(d)
  BY <1>12, <1>13, NoRequestIsNone, Zenon DEF Serving, Fresh
<1>15. IndexAgrees
  <2> SUFFICES ASSUME NEW i \in Id, NEW q \in Queue
               PROVE  Memory(q)[i] # NoTask <=> qByID[i] = q
    BY Zenon DEF IndexAgrees
  <2>1. disk.tasks[q][i] # NoTask <=> disk.qByID[i] = q
    BY Zenon DEF Loaded, Agrees
  <2>2. Memory(q)[i] = load[q][i] /\ qByID[i] = disk.qByID[i]
    BY <1>9, Zenon DEF Loaded
  <2>3. load[q][i] = NoTask <=> disk.tasks[q][i] = NoTask
    BY <1>3, Zenon
  <2> QED
    BY <2>1, <2>2, <2>3, Zenon
<1>16. Journaled
  BY <1>3, <1>9 DEF Journaled
<1>17. InPlace(Mem)
  <2>1. InPlace(disk.tasks)
    BY Zenon DEF Loaded
  <2> SUFFICES ASSUME NEW q \in Queue, NEW i \in Id, Mem[q][i] # NoTask
               PROVE  Mem[q][i].queue = q /\ i \in used
    BY Zenon DEF InPlace
  <2>2. Mem[q][i] = load[q][i]
    BY <1>9, Zenon
  <2>3. disk.tasks[q][i] # NoTask /\ Mem[q][i].queue = disk.tasks[q][i].queue
    BY <1>3, <2>2, Zenon
  <2> QED
    BY <2>1, <2>3, Zenon DEF InPlace
<1> QED
  BY <1>10, <1>11, <1>12, <1>14, <1>15, <1>16, <1>17, Zenon DEF MemInv, Loaded

(* The backend opens a journal whose tasks have one ID each. *)
LEMMA InitLoads == Init => Loaded
<1> SUFFICES ASSUME Init PROVE Loaded
  BY Zenon
<1>1. PICK tasks \in Initial, s \in Struct :
        /\ disk = DiskOf(tasks)
        /\ used = {i \in Id : tasks[i] # NoTask}
        /\ registry = [q \in Queue |-> IF disk.tasks[q] = NoTasks THEN Nil ELSE s]
  BY Zenon DEF Init
<1>2. \A i \in Id : tasks[i] \in Task \cup {NoTask}
  BY <1>1, InitialIsStore, Zenon
<1>3. \A i \in Id : tasks[i] # NoTask => tasks[i].queue \in Queue
  BY <1>2, Zenon DEF Task
<1> DEFINE T == [q \in Queue |-> [i \in Id |->
                IF tasks[i] # NoTask /\ tasks[i].queue = q THEN tasks[i] ELSE NoTask]]
           X == [i \in Id |-> IF tasks[i] = NoTask THEN Nil ELSE tasks[i].queue]
<1>4. disk = [ok |-> TRUE, tasks |-> T, qByID |-> X]
  BY <1>1, Zenon DEF DiskOf
<1>4a. disk.tasks = T /\ disk.qByID = X
  <2> HIDE DEF T, X
  <2> QED
    BY <1>4, Zenon
<1>5. /\ \A q \in Queue, i \in Id :
            disk.tasks[q][i] = IF tasks[i] # NoTask /\ tasks[i].queue = q
                               THEN tasks[i] ELSE NoTask
      /\ \A i \in Id : disk.qByID[i] = IF tasks[i] = NoTask THEN Nil ELSE tasks[i].queue
  BY <1>4a
<1>6. disk \in Journals
  <2>1. T \in [Queue -> Contents]
    BY <1>2, Zenon DEF Contents
  <2>2. X \in [Id -> Queue \cup {Nil}]
    BY <1>3, Zenon
  <2> HIDE DEF T, X
  <2> QED
    BY <1>4, <2>1, <2>2, Zenon DEF Journals
<1>7. Agrees(disk.tasks, disk.qByID, Queue)
  <2> SUFFICES ASSUME NEW q \in Queue, NEW i \in Id
               PROVE  disk.tasks[q][i] # NoTask <=> disk.qByID[i] = q
    BY Zenon DEF Agrees
  <2>1. q # Nil
    BY NilIsNothing, Zenon
  <2> QED
    BY <1>5, <2>1
<1>8. InPlace(disk.tasks)
  BY <1>1, <1>5, SMTT(30) DEF InPlace
<1>9. used \in SUBSET Id /\ now \in Nat
  BY <1>1, Zenon DEF Init
<1>10. /\ pc \in [Call -> {"start", "done"}]
       /\ round \in [Call -> {"queues", "namespaces"}]
  BY Zenon DEF Init
<1> QED
  BY <1>1, <1>6, <1>7, <1>8, <1>9, <1>10, Zenon DEF Init, Loaded

(* So does a backend that is restarted, whatever its calls were doing. *)
LEMMA RestartLoads ==
    ASSUME MemInv, Restart
    PROVE  Loaded'
<1>1. disk' = disk /\ used' = used /\ now' = now /\ round' = round
  BY Zenon DEF Restart
<1>2. /\ disk \in Journals /\ Agrees(disk.tasks, disk.qByID, Queue) /\ InPlace(disk.tasks)
      /\ used \in SUBSET Id /\ now \in Nat
      /\ round \in [Call -> {"queues", "namespaces"}]
  BY Zenon DEF MemInv, MemTypeOK, LocksInv, LocksTypeOK
<1>3. InPlace(disk.tasks)'
  BY <1>1, <1>2, Zenon DEF InPlace
<1>4. pc' \in [Call -> {"start", "done"}]
  BY Zenon DEF Restart
<1>5. /\ want' = [c \in Call |-> {}]
      /\ got' = [c \in Call |-> [q \in Queue |-> Nil]]
      /\ holder' = [q \in Queue |-> [s \in Struct |-> Nil]]
      /\ dependents' = [q \in Queue |-> [s \in Struct |-> {}]]
      /\ qByID' = disk.qByID
      /\ req' = [c \in Call |-> NoRequest]
      /\ prep' = [c \in Call |-> NoPrep]
      /\ step' = [c \in Call |-> "none"]
      /\ entry' = [c \in Call |-> NoEntry]
  BY Zenon DEF Restart
<1>6. \E s \in Struct : registry' = [q \in Queue |-> IF disk.tasks[q] = NoTasks THEN Nil ELSE s]
  BY Zenon DEF Restart
<1>7. content' = [q \in Queue |-> [s \in Struct |->
            IF s = registry'[q] THEN [i \in Id |-> Lapsed(disk.tasks[q][i])'] ELSE NoTasks]]
  BY <1>1 DEF Restart, Lapsed, Available
<1>8. Agrees(disk.tasks, disk.qByID, Queue)' /\ disk' \in Journals /\ used' \in SUBSET Id
      /\ now' \in Nat /\ round' \in [Call -> {"queues", "namespaces"}]
  BY <1>1, <1>2, Zenon DEF Agrees
<1>9. qByID' = disk'.qByID
  BY <1>1, <1>5, Zenon
<1> QED
  BY <1>1, <1>3, <1>4, <1>5, <1>6, <1>7, <1>8, <1>9, Zenon DEF Loaded

(* So a restart keeps the invariant. *)
LEMMA RestartKeeps ==
    ASSUME MemInv, Restart
    PROVE  MemInv'
<1>1. Loaded'
  BY RestartLoads, Zenon
<1> QED
  BY <1>1, LoadedKeeps, PTL

(* The invariant holds at first. *)
LEMMA MemInvInit == Init => MemInv
BY InitLoads, LoadedKeeps, Zenon

-----------------------------------------------------------------------------
(* What is stored. *)

(* What is stored under an ID is what some queue has under it. *)
StoredRight ==
    \A i \in Id : /\ Stored(i) = NoTask <=> \A q \in Queue : Mem[q][i] = NoTask
                  /\ \A q \in Queue : Mem[q][i] # NoTask => Stored(i) = Mem[q][i]

(* It is, since the ID is in one queue at most. *)
LEMMA StoredOnce == MemInv => StoredRight
<1> SUFFICES ASSUME MemInv, NEW i \in Id
             PROVE  /\ Stored(i) = NoTask <=> \A q \in Queue : Mem[q][i] = NoTask
                    /\ \A q \in Queue : Mem[q][i] # NoTask => Stored(i) = Mem[q][i]
  BY Zenon DEF StoredRight
<1> DEFINE qs == {q \in Queue : Memory(q)[i] # NoTask}
           p == CHOOSE q \in qs : TRUE
<1>1. Stored(i) = IF qs = {} THEN NoTask ELSE Memory(p)[i]
  BY Zenon DEF Stored
<1>2. \A q \in Queue : Mem[q] = Memory(q)
  BY Zenon DEF Mem
<1>3. UniqueIDs
  BY OneQueue, Zenon
<1>4. CASE qs = {}
  BY <1>1, <1>2, <1>4, Zenon
<1>5. CASE qs # {}
  <2>1. p \in qs
    BY <1>5, Zenon
  <2>2. p \in Queue /\ Memory(p)[i] # NoTask
    BY <2>1, Zenon
  <2>3. Stored(i) = Memory(p)[i]
    BY <1>1, <1>5, Zenon
  <2>4. \A q \in Queue : Memory(q)[i] # NoTask => q = p
    BY <1>3, <2>2, Zenon DEF UniqueIDs
  <2> HIDE DEF p, qs
  <2> QED
    BY <1>2, <2>2, <2>3, <2>4, Zenon
<1> QED
  BY <1>4, <1>5, Zenon

(* After a step as well. *)
LEMMA StoredOnceNext == MemInv' => StoredRight'
  BY StoredOnce, PTL

(* A step that leaves every queue as it is leaves the store as it is. *)
LEMMA SameTask ==
    ASSUME StoredRight, StoredRight', NEW i \in Id, \A q \in Queue : Mem'[q][i] = Mem[q][i]
    PROVE  Stored(i)' = Stored(i)
<1>1. CASE \A q \in Queue : Mem[q][i] = NoTask
  BY <1>1, Zenon DEF StoredRight
<1>2. ASSUME NEW q \in Queue, Mem[q][i] # NoTask PROVE Stored(i)' = Stored(i)
  <2>1. Stored(i) = Mem[q][i]
    BY <1>2, Zenon DEF StoredRight
  <2>2. Stored(i)' = Mem'[q][i]
    BY <1>2, Zenon DEF StoredRight
  <2> QED
    BY <2>1, <2>2, Zenon
<1> QED
  BY <1>1, <1>2, Zenon

(* Then it is the same store. *)
LEMMA SameStored ==
    ASSUME StoredRight, StoredRight', Mem' = Mem
    PROVE  [i \in Id |-> Stored(i)]' = [i \in Id |-> Stored(i)]
<1>1. \A i \in Id : Stored(i)' = Stored(i)
  BY SameTask, Zenon
<1> QED
  BY <1>1, Zenon

(* A modification asks the same of this store as of TaskStore. *)
LEMMA SameChecks ==
    /\ ValidRequests = Store!ValidRequests
    /\ \A mod : Ops(mod) = Store!Ops(mod) /\ Changes(mod) = Store!Changes(mod)
    /\ \A mod, found : DependencyError(mod, found, now) = Store!DependencyError(mod, found, now)
    /\ \A e : HasAny(e) = Store!HasAny(e)
    /\ \A ops : Ids(ops) = Store!Ids(ops)
    /\ \A a, o, t : Changed(a, o, t, now) = Store!Changed(a, o, t, now)
    /\ \A a, o : Inserted(a, o, now) = Store!Inserted(a, o, now)
    /\ \A t, a, d : Claimed(t, a, d, now) = Store!Claimed(t, a, d, now)
    /\ \A t : Available(t, now) = Store!Available(t, now)
    /\ \A o : Named(o) = Store!OpQueue(o)
<1>1. ValidRequests = Store!ValidRequests
  BY Zenon
  DEF ValidRequests, Store!ValidRequests, Valid, Store!Valid, Ops, Store!Ops, Changes,
      Store!Changes, ArrivalChange, Store!ArrivalChange
<1>2. \A mod : Ops(mod) = Store!Ops(mod) /\ Changes(mod) = Store!Changes(mod)
  BY SMTT(30) DEF Ops, Store!Ops, Changes, Store!Changes, ArrivalChange, Store!ArrivalChange
<1>3. \A mod, found : DependencyError(mod, found, now) = Store!DependencyError(mod, found, now)
  BY Zenon
  DEF DependencyError, Store!DependencyError, Changes, Store!Changes, ArrivalChange,
      Store!ArrivalChange, Ids, Store!Ids, Matches, Store!Matches, OtherwiseClaimed,
      Store!OtherwiseClaimed, Held, Store!Held
<1>4. \A e : HasAny(e) = Store!HasAny(e)
  BY Zenon
  DEF HasAny, Store!HasAny, HasMissing, Store!HasMissing, HasClaims, Store!HasClaims, HasCollisions,
      Store!HasCollisions
<1>5. \A ops : Ids(ops) = Store!Ids(ops)
  BY Zenon DEF Ids, Store!Ids
<1>6. /\ \A a, o, t : Changed(a, o, t, now) = Store!Changed(a, o, t, now)
      /\ \A a, o : Inserted(a, o, now) = Store!Inserted(a, o, now)
  BY Zenon
  DEF Changed, Store!Changed, Inserted, Store!Inserted, NormalizeArrival, Store!NormalizeArrival,
      HolderOf, Store!HolderOf
<1>7. \A t, a, d : Claimed(t, a, d, now) = Store!Claimed(t, a, d, now)
  BY Zenon DEF Claimed, Store!Claimed
<1>8. \A t : Available(t, now) = Store!Available(t, now)
  BY Zenon DEF Available, Store!Available
<1>9. \A o : Named(o) = Store!OpQueue(o)
  BY Zenon DEF Named, Store!OpQueue
<1> QED
  BY <1>1, <1>2, <1>3, <1>4, <1>5, <1>6, <1>7, <1>8, <1>9, Zenon

(* What TaskStore finds in a queue is what the queue has. *)
LEMMA FoundInQueue ==
    ASSUME MemInv, NEW i \in Id, NEW q \in Queue
    PROVE  Store!FoundIn(i, q) = Memory(q)[i]
<1> DEFINE s == Stored(i)
<1>1. Store!FoundIn(i, q) = IF s # NoTask /\ s.queue = q THEN s ELSE NoTask
  BY Zenon DEF Store!FoundIn
<1>2. StoredRight /\ InPlace(Mem)
  BY StoredOnce, Zenon DEF MemInv
<1>3. \A p \in Queue : Mem[p] = Memory(p)
  BY Zenon DEF Mem
<1>4. CASE Memory(q)[i] # NoTask
  <2>1. s = Memory(q)[i] /\ Memory(q)[i].queue = q
    BY <1>2, <1>3, <1>4, ZenonT(40) DEF StoredRight, InPlace
  <2> QED
    BY <1>1, <1>4, <2>1, Zenon
<1>5. CASE Memory(q)[i] = NoTask
  <2>1. ASSUME s # NoTask PROVE s.queue # q
    <3>1. PICK p \in Queue : Mem[p][i] # NoTask
      BY <1>2, <2>1, Zenon DEF StoredRight
    <3>2. s = Mem[p][i] /\ Mem[p][i].queue = p
      BY <1>2, <3>1, Zenon DEF StoredRight, InPlace
    <3> QED
      BY <1>3, <1>5, <3>1, <3>2, Zenon
  <2> QED
    BY <1>1, <1>5, <2>1, Zenon
<1> QED
  BY <1>4, <1>5, Zenon

(* A modification finds in TaskStore what it finds under its locks. *)
LEMMA SameFound ==
    ASSUME MemInv, NEW c \in Call, pc[c] = "work", step[c] = "apply",
           req[c] \in ValidRequests, NEW o \in Ops(req[c])
    PROVE  Store!Found(req[c])[o.id] = Found(c)[o.id]
<1> DEFINE mod == req[c]
           i == o.id
           named == Store!Ops(mod) \ mod.inserts
<1>1. /\ i \in Id /\ Named(o) \in want[c] /\ Named(o) \in Queue
      /\ Found(c)[i] = Memory(Named(o))[i]
  BY FoundThere, Zenon
<1>2. \A x, y \in Ops(mod) : x.id = y.id => x = y
  BY Zenon DEF ValidRequests, Valid
<1>3. Store!Found(mod)[i] = IF \E x \in named : x.id = i
                            THEN Store!FoundIn(i, Store!OpQueue(CHOOSE x \in named : x.id = i))
                            ELSE Stored(i)
  BY <1>1, Zenon DEF Store!Found
<1>4. named = Ops(mod) \ mod.inserts
  BY SameChecks, Zenon
<1> HIDE DEF named
<1>5. CASE o \in mod.inserts
  <2>1. ~\E x \in named : x.id = i
    BY <1>2, <1>4, <1>5, Zenon
  <2>2. i \in Mine(c)
    BY <1>5, Zenon DEF Mine, Ids
  <2>3. \A q \in Queue : Memory(q)[i] = NoTask
    BY <2>2, Zenon DEF MemInv, Fresh
  <2>4. \A q \in Queue : Mem[q][i] = NoTask
    BY <2>3, Zenon DEF Mem
  <2>5. Stored(i) = NoTask
    BY <1>1, <2>4, StoredOnce, ZenonT(40) DEF StoredRight
  <2> QED
    BY <1>1, <1>3, <2>1, <2>3, <2>5, Zenon
<1>6. CASE o \notin mod.inserts
  <2>1. o \in named
    BY <1>4, <1>6, Zenon
  <2>2. (CHOOSE x \in named : x.id = i) = o
    BY <1>2, <1>4, <2>1, Zenon
  <2>3. Store!Found(mod)[i] = Store!FoundIn(i, Store!OpQueue(o))
    BY <1>3, <2>1, <2>2, Zenon
  <2>4. Store!OpQueue(o) = Named(o)
    BY SameChecks, Zenon
  <2> QED
    BY <1>1, <2>3, <2>4, FoundInQueue, Zenon
<1> QED
  BY <1>5, <1>6, Zenon

(* So TaskStore does not refuse what is carried out here. *)
LEMMA NotRefused ==
    ASSUME MemInv, NEW c \in Call, pc[c] = "work", step[c] = "apply",
           req[c] \in ValidRequests, ~Refused(c)
    PROVE  ~Store!HasAny(Store!DependencyError(req[c], Store!Found(req[c]), now))
<1> DEFINE mod == req[c]
           f == Found(c)
           g == Store!Found(mod)
<1>1. ~HasAny(DependencyError(mod, f, now))
  BY ZenonT(40) DEF Refused
<1>2. \A o \in Ops(mod) : g[o.id] = f[o.id]
  BY SameFound, Zenon
<1>3. \A o \in Changes(mod) \cup mod.deletes \cup mod.depends \cup mod.inserts : g[o.id] = f[o.id]
  BY <1>2, Zenon DEF Ops
<1> HIDE DEF mod, f, g
<1>4. DependencyError(mod, g, now) = DependencyError(mod, f, now)
  BY <1>3, ZenonT(20) DEF DependencyError, Ids
<1> QED
  BY <1>1, <1>4, SameChecks, Zenon DEF mod, f, g

(* Carrying out an entry puts in the store what the entry says, takes out  *)
(* what it deletes, and leaves all else.                                   *)
LEMMA StoreRewritten ==
    ASSUME MemInv, MemInv', NEW c \in Call, pc[c] = "work", step[c] = "apply",
           NEW e, Ready(c, e), Rewrite(c, e), NEW i \in Id
    PROVE  /\ \A x \in Put(e) : x.id = i => Stored(i)' = x.task
           /\ i \in Ids(e.deletes) => Stored(i)' = NoTask
           /\ i \notin Ids(e.deletes) /\ (\A x \in Put(e) : x.id # i) => Stored(i)' = Stored(i)
<1> DEFINE M == Rewritten(Mem, Gone(e), Put(e))
<1>1. /\ e \in Entry /\ Keyed(e) /\ Within(e, want[c]) /\ Indexed(qByID, e)
      /\ LocksInv /\ IndexAgrees /\ StoredRight /\ StoredRight' /\ UniqueIDs
  BY StoredOnce, StoredOnceNext, OneQueue, Zenon DEF Ready, MemInv
<1>2. \A q \in Queue : Mem'[q][i] = M[q][i]
  <2>1. /\ \A q \in want[c] : Mem'[q] = M[q]
        /\ \A q \in Queue \ want[c] : Mem'[q] = Mem[q]
    BY <1>1, RewriteMemory, ZenonT(40)
  <2>2. ASSUME NEW q \in Queue \ want[c] PROVE M[q][i] = Mem[q][i]
    <3>1. q \in Queue /\ q \notin want[c] /\ Within(e, want[c])
      BY <1>1, Zenon
    <3> QED
      BY <3>1, RewrittenElsewhere
  <2> HIDE DEF M
  <2> QED
    BY <2>1, <2>2, Zenon
<1>3. ASSUME NEW x \in Put(e), x.id = i PROVE Stored(i)' = x.task
  <2>1. x.task.queue \in Queue /\ x.task # NoTask
    BY <1>1, EntryParts, ZenonT(40)
  <2>2. M[x.task.queue][i] = x.task
    BY <1>1, <1>3, <2>1, RewrittenPut, Zenon
  <2>3. Mem'[x.task.queue][i] = x.task
    BY <1>2, <2>1, <2>2, Zenon
  <2> QED
    BY <1>1, <2>1, <2>3, ZenonT(40) DEF StoredRight
<1>4. ASSUME i \in Ids(e.deletes) PROVE Stored(i)' = NoTask
  <2>1. PICK d \in e.deletes : d.id = i
    BY <1>4, Zenon DEF Ids
  <2>2. d.queue \in want[c] /\ d.queue \in Queue /\ qByID[i] = d.queue
    <3>1. d.queue \in Queue
      BY <1>1, EntryParts, Zenon
    <3>2. d.queue \in want[c]
      BY <1>1, Zenon DEF Within
    <3>3. qByID[i] = d.queue
      BY <1>1, <2>1, Zenon DEF Indexed
    <3> QED
      BY <3>1, <3>2, <3>3, Zenon
  <2>3. \A b \in Call : step[b] \in {"index", "journal"} => d.queue \notin want[b]
    BY <2>2, PendingApart, Zenon
  <2>4. Memory(d.queue)[i] # NoTask
    BY <1>1, <2>2, <2>3, ZenonT(40) DEF IndexAgrees
  <2>5. \A x \in Put(e) : x.id # i
    BY <1>1, <1>4, ZenonT(40) DEF Keyed, Ids
  <2>6. ASSUME NEW q \in Queue PROVE Mem'[q][i] = NoTask
    <3>1. M[q][i] = IF <<i, q>> \in Gone(e) THEN NoTask ELSE Mem[q][i]
      BY <2>5, RewrittenElse, ZenonT(40)
    <3>2. CASE q = d.queue
      <4>1. <<i, q>> \in Gone(e)
        BY <2>1, <3>2, GoneFrom, Zenon
      <4> QED
        BY <1>2, <3>1, <4>1, ZenonT(40)
    <3>3. CASE q # d.queue
      <4>1. Mem[q][i] = NoTask
        BY <1>1, <2>2, <2>4, <3>3, Zenon DEF UniqueIDs, Mem
      <4> QED
        BY <1>2, <3>1, <4>1, Zenon
    <3> QED
      BY <3>2, <3>3, ZenonT(40)
  <2> QED
    BY <1>1, <2>6, Zenon DEF StoredRight
<1>5. ASSUME i \notin Ids(e.deletes), \A x \in Put(e) : x.id # i PROVE Stored(i)' = Stored(i)
  <2>1. ASSUME NEW q \in Queue PROVE Mem'[q][i] = Mem[q][i]
    <3>1. M[q][i] = IF <<i, q>> \in Gone(e) THEN NoTask ELSE Mem[q][i]
      BY <1>5, RewrittenElse
    <3>2. \A x \in e.deletes : x.id # i
      BY <1>5, Zenon DEF Ids
    <3>3. \A x \in e.changes : x.id # i
      BY <1>5, Zenon DEF Put
    <3>4. <<i, q>> \notin Gone(e)
      BY <3>2, <3>3, GoneFrom
    <3> QED
      BY <1>2, <3>1, <3>4, Zenon
  <2> QED
    BY <1>1, <2>1, SameTask, Zenon
<1> QED
  BY <1>3, <1>4, <1>5, Zenon

-----------------------------------------------------------------------------
(* Every step is one of the store, or none. *)

(* A modification that is carried out is one of TaskStore. *)
LEMMA ApplyIsModify ==
    ASSUME MemInv, MemInv', NEW c \in Call, pc[c] = "work", step[c] = "apply",
           req[c] \in ValidRequests, ~Refused(c), Rewrite(c, EntryOf(req[c], Found(c))),
           now' = now
    PROVE  Store!Modify(req[c])
<1> DEFINE mod == req[c]
           e == EntryOf(mod, Found(c))
           After(o) == Changed(mod.claimant, o, Found(c)[o.id], now)
           New(o) == Inserted(mod.claimant, o, now)
<1>1. Ready(c, e)
  BY EntryIsReady, Zenon
<1>2. /\ e.deletes = mod.deletes
      /\ e.changes = {[id |-> o.id, from |-> o.from, task |-> After(o)] : o \in Changes(mod)}
      /\ e.inserts = {[id |-> o.id, task |-> New(o)] : o \in mod.inserts}
  BY Zenon DEF EntryOf
<1> HIDE DEF After, New
<1>3. /\ \A o \in Changes(mod) : \E x \in Put(e) : x.id = o.id /\ x.task = After(o)
      /\ \A o \in mod.inserts : \E x \in Put(e) : x.id = o.id /\ x.task = New(o)
      /\ \A x \in Put(e) : x.id \in Ids(Changes(mod)) \cup Ids(mod.inserts)
  <2> HIDE DEF e
  <2>1. ASSUME NEW o \in Changes(mod) PROVE \E x \in Put(e) : x.id = o.id /\ x.task = After(o)
    <3> DEFINE x == [id |-> o.id, from |-> o.from, task |-> After(o)]
    <3>1. x \in Put(e)
      BY <1>2, Zenon DEF Put
    <3>2. x.id = o.id /\ x.task = After(o)
      BY Zenon
    <3> QED
      BY <3>1, <3>2, Zenon
  <2>2. ASSUME NEW o \in mod.inserts PROVE \E x \in Put(e) : x.id = o.id /\ x.task = New(o)
    <3> DEFINE x == [id |-> o.id, task |-> New(o)]
    <3>1. x \in Put(e)
      BY <1>2, Zenon DEF Put
    <3>2. x.id = o.id /\ x.task = New(o)
      BY Zenon
    <3> QED
      BY <3>1, <3>2, Zenon
  <2>3. \A x \in e.changes : x.id \in Ids(Changes(mod))
    <3> SUFFICES ASSUME NEW x \in e.changes PROVE x.id \in Ids(Changes(mod))
      BY Zenon
    <3>1. PICK o \in Changes(mod) : x = [id |-> o.id, from |-> o.from, task |-> After(o)]
      BY <1>2, Zenon
    <3>2. x.id = o.id
      BY <3>1, Zenon
    <3> QED
      BY <3>2, Zenon DEF Ids
  <2>4. \A x \in e.inserts : x.id \in Ids(mod.inserts)
    <3> SUFFICES ASSUME NEW x \in e.inserts PROVE x.id \in Ids(mod.inserts)
      BY Zenon
    <3>1. PICK o \in mod.inserts : x = [id |-> o.id, task |-> New(o)]
      BY <1>2, Zenon
    <3>2. x.id = o.id
      BY <3>1, Zenon
    <3> QED
      BY <3>2, Zenon DEF Ids
  <2> QED
    BY <2>1, <2>2, <2>3, <2>4, Zenon DEF Put
<1>4. \A x, y \in Ops(mod) : x.id = y.id => x = y
  BY Zenon DEF ValidRequests, Valid
<1>5. /\ mod.inserts \subseteq Ops(mod) /\ Changes(mod) \subseteq Ops(mod)
      /\ mod.deletes \subseteq Ops(mod)
  BY Zenon DEF Ops
<1>6. \A i \in Id : /\ \A x \in Put(e) : x.id = i => Stored(i)' = x.task
                    /\ i \in Ids(e.deletes) => Stored(i)' = NoTask
                    /\ i \notin Ids(e.deletes) /\ (\A x \in Put(e) : x.id # i)
                            => Stored(i)' = Stored(i)
  BY <1>1, StoreRewritten, Zenon
<1> HIDE DEF e
<1>7. ASSUME NEW i \in Id
      PROVE  Stored(i)' =
                IF i \in Ids(mod.deletes) THEN NoTask
                ELSE IF i \in Ids(Changes(mod))
                THEN Changed(mod.claimant, CHOOSE o \in Changes(mod) : o.id = i, Stored(i), now)
                ELSE IF i \in Ids(mod.inserts)
                THEN New(CHOOSE o \in mod.inserts : o.id = i)
                ELSE Stored(i)
  <2>1. CASE i \in Ids(mod.deletes)
    BY <1>2, <1>6, <2>1, Zenon
  <2>2. CASE i \notin Ids(mod.deletes) /\ i \in Ids(Changes(mod))
    <3> DEFINE o == CHOOSE o \in Changes(mod) : o.id = i
    <3>1. o \in Changes(mod) /\ o.id = i
      BY <2>2, Zenon DEF Ids
    <3> HIDE DEF o
    <3>2. Stored(i)' = After(o)
      BY <1>3, <1>6, <3>1, Zenon
    <3>3. Found(c)[i] = Stored(i)
      <4>1. /\ Found(c)[i] = Memory(Named(o))[i] /\ Named(o) \in Queue
        BY <1>5, <3>1, FoundThere, Zenon
      <4>2. Found(c)[i] # NoTask
        BY <3>1, FoundAll, Zenon DEF Matches
      <4>3. Mem[Named(o)] = Memory(Named(o))
        BY <4>1, Zenon DEF Mem
      <4> QED
        BY <4>1, <4>2, <4>3, StoredOnce, ZenonT(40) DEF StoredRight
    <3>4. After(o) = Changed(mod.claimant, o, Stored(i), now)
      BY <3>1, <3>3, Zenon DEF After
    <3> QED
      BY <2>2, <3>2, <3>4, Zenon DEF o
  <2>3. CASE i \notin Ids(mod.deletes) /\ i \notin Ids(Changes(mod)) /\ i \in Ids(mod.inserts)
    <3> DEFINE o == CHOOSE o \in mod.inserts : o.id = i
    <3>1. o \in mod.inserts /\ o.id = i
      BY <2>3, Zenon DEF Ids
    <3> HIDE DEF o
    <3>2. Stored(i)' = New(o)
      BY <1>3, <1>6, <3>1, Zenon
    <3> QED
      BY <2>3, <3>2, Zenon DEF o
  <2>4. CASE i \notin Ids(mod.deletes) /\ i \notin Ids(Changes(mod)) /\ i \notin Ids(mod.inserts)
    <3>1. \A x \in Put(e) : x.id # i
      BY <1>3, <2>4, Zenon
    <3> QED
      BY <1>2, <1>6, <2>4, <3>1, Zenon
  <2> QED
    BY <2>1, <2>2, <2>3, <2>4, Zenon
<1>8. ASSUME NEW i \in Id PROVE Stored(i)' = Store!Applied(mod)[i]
  <2>1. Store!Applied(mod)[i] =
                IF i \in Ids(mod.deletes) THEN NoTask
                ELSE IF i \in Ids(Changes(mod))
                THEN Changed(mod.claimant, CHOOSE o \in Changes(mod) : o.id = i, Stored(i), now)
                ELSE IF i \in Ids(mod.inserts)
                THEN New(CHOOSE o \in mod.inserts : o.id = i)
                ELSE Stored(i)
    BY SameChecks, Zenon DEF Store!Applied, New
  <2> QED
    BY <1>7, <2>1, Zenon
<1>9. [i \in Id |-> Stored(i)]' = Store!Applied(mod)
  <2>1. Store!Applied(mod) = [i \in Id |-> Store!Applied(mod)[i]]
    BY SMTT(30) DEF Store!Applied
  <2> QED
    BY <1>8, <2>1, SMTT(30)
<1>10. ~Store!HasAny(Store!DependencyError(mod, Store!Found(mod), now))
  BY NotRefused, Zenon
<1> QED
  BY <1>9, <1>10, Zenon DEF Store!Modify

(* A claim that finds a task is one of TaskStore. *)
LEMMA ClaimIsTryClaim ==
    ASSUME MemInv, MemInv', NEW c \in Call, pc[c] = "work", step[c] = "apply",
           req[c] \in ClaimQuery, NEW i \in Id, Memory(req[c].queue)[i] # NoTask,
           Available(Memory(req[c].queue)[i], now),
           Memory(req[c].queue)[i].version < MaxVersion,
           Rewrite(c, ClaimEntry(c, i)), now' = now
    PROVE  Store!TryClaim(req[c].claimant, req[c].queue, req[c].duration)
<1> DEFINE q == req[c].queue
           old == Memory(q)[i]
           t == Claimed(old, req[c].claimant, req[c].duration, now)
           x == ClaimOf(c, i)
           e == ClaimEntry(c, i)
           T == [j \in Id |-> Stored(j)]
<1>1. /\ q \in want[c] /\ q \in Queue /\ x.id = i /\ x.task = t /\ e.deletes = {}
      /\ Put(e) = {x} /\ Ready(c, e)
  BY ClaimIsReady, ZenonT(40)
<1>2. Mem[q][i] = old /\ old # NoTask
  BY <1>1, Zenon DEF Mem
<1>3. Stored(i) = old /\ old.queue = q
  <2>1. StoredRight /\ InPlace(Mem)
    BY StoredOnce, Zenon DEF MemInv
  <2>2. Mem[q][i] # NoTask
    BY <1>2, Zenon
  <2>3. Stored(i) = Mem[q][i] /\ Mem[q][i].queue = q
    BY <1>1, <2>1, <2>2, Zenon DEF StoredRight, InPlace
  <2> QED
    BY <1>2, <2>3, Zenon
<1>4. \A j \in Id : /\ \A y \in Put(e) : y.id = j => Stored(j)' = y.task
                    /\ j \notin Ids(e.deletes) /\ (\A y \in Put(e) : y.id # j)
                            => Stored(j)' = Stored(j)
  BY <1>1, StoreRewritten, ZenonT(40)
<1> HIDE DEF x, e, t
<1>5. Stored(i)' = t
  BY <1>1, <1>4, Zenon
<1>6. ASSUME NEW j \in Id, j # i PROVE Stored(j)' = Stored(j)
  <2>1. j \notin Ids(e.deletes) /\ \A y \in Put(e) : y.id # j
    BY <1>1, <1>6, ZenonT(40) DEF Ids
  <2> QED
    BY <1>4, <2>1, ZenonT(40)
<1>7. T' = [j \in Id |-> IF j = i THEN t ELSE Stored(j)]
  BY <1>5, <1>6, SMTT(30)
<1>8. T[i] = old
  BY <1>3, Zenon
<1>9. [T EXCEPT ![i] = t] = [j \in Id |-> IF j = i THEN t ELSE Stored(j)]
  BY Zenon
<1>10. t = Store!Claimed(old, req[c].claimant, req[c].duration, now)
  BY SameChecks, Zenon DEF t
<1>11. [T EXCEPT ![i] = Store!Claimed(@, req[c].claimant, req[c].duration, now)]
        = [T EXCEPT ![i] = t]
  BY <1>8, <1>10, ZenonT(20)
<1>12. Store!Available(T[i], now)
  BY <1>8, SameChecks, Zenon
<1> QED
  BY <1>2, <1>3, <1>7, <1>8, <1>9, <1>11, <1>12, ZenonT(40) DEF Store!TryClaim

(* Steps that change neither a queue nor the clock. *)
LEMMA SilentSteps ==
    ASSUME MemInv, NEW c \in Call,
           \/ \E mod \in ValidRequests : ModPrep(c, mod)
           \/ \E cq \in ClaimQuery : StartClaim(c, cq)
           \/ Dance(c) \/ Index(c) \/ Journal(c)
           \/ Return(c) /\ now' = now
    PROVE  Mem' = Mem /\ now' = now
<1>1. LocksInv
  BY Zenon DEF MemInv
<1>2. CASE Dance(c) \/ Journal(c) \/ (Return(c) /\ now' = now)
  <2>1. now' = now
    BY <1>2, Zenon DEF Dance, memVars, Journal
  <2>2. Lookup(c) \/ Lock(c) \/ Locked(c) \/ Unlock(c) \/ Release(c) \/ Finish(c)
    BY <1>2, ZenonT(40) DEF Dance, Journal, Return
  <2> QED
    BY <1>1, <2>1, <2>2, DanceKeepsMemory, Zenon
<1>3. CASE \/ \E mod \in ValidRequests : ModPrep(c, mod)
           \/ \E cq \in ClaimQuery : StartClaim(c, cq)
           \/ Index(c)
  <2>1. registry' = registry /\ content' = content /\ now' = now
    BY <1>3, Zenon DEF ModPrep, StartClaim, Begin, Index, locks
  <2> QED
    BY <2>1, Zenon DEF Mem, Memory
<1> QED
  BY <1>2, <1>3, Zenon

(* A step of the backend is a step of the store. *)
LEMMA StoreStep ==
    ASSUME MemInv, MemInv', [Next]_vars
    PROVE  [Store!StoreNext \/ Restart]_(Store!storeVars)
<1> DEFINE T == [i \in Id |-> Stored(i)]
<1>1. ASSUME Mem' = Mem, now' = now PROVE UNCHANGED Store!storeVars
  <2>1. T' = T
    BY <1>1, StoredOnce, StoredOnceNext, SameStored, Zenon
  <2> QED
    BY <1>1, <2>1, Zenon DEF Store!storeVars
<1>2. CASE Tick
  <2>1. Mem' = Mem /\ now < MaxNow /\ now' = now + 1
    BY <1>2, Zenon DEF Tick, locks, Mem, Memory
  <2>2. T' = T
    BY <2>1, StoredOnce, StoredOnceNext, SameStored, Zenon
  <2> QED
    BY <2>1, <2>2, Zenon DEF Store!StoreNext, Store!Tick
<1>3. CASE UNCHANGED vars
  <2>1. Mem' = Mem /\ now' = now
    BY <1>3, Zenon DEF vars, locks, memVars, Mem, Memory
  <2> QED
    BY <1>1, <2>1, Zenon
<1>4. CASE Restart
  BY <1>4, Zenon
<1>5. ASSUME NEW c \in Call, Serve(c)
      PROVE  Store!StoreNext \/ UNCHANGED Store!storeVars
  <2>1. CASE \/ \E mod \in ValidRequests : ModPrep(c, mod)
             \/ \E cq \in ClaimQuery : StartClaim(c, cq)
             \/ Dance(c) \/ Index(c) \/ Journal(c)
             \/ Return(c) /\ now' = now
    BY <1>1, <2>1, SilentSteps, Zenon
  <2>2. CASE Apply(c) /\ ~(Return(c) /\ now' = now)
    <3>1. /\ pc[c] = "work" /\ step[c] = "apply" /\ req[c] \in ValidRequests
      BY <2>2, ApplySteps, Zenon
    <3>2. /\ ~Refused(c) /\ Rewrite(c, EntryOf(req[c], Found(c))) /\ now' = now
      BY <2>2, Zenon DEF Apply
    <3>3. Store!Modify(req[c])
      BY <3>1, <3>2, ApplyIsModify, Zenon
    <3>4. req[c] \in Store!ValidRequests
      BY <3>1, SameChecks, Zenon
    <3> QED
      BY <3>3, <3>4, Zenon DEF Store!StoreNext
  <2>3. CASE ClaimTask(c) /\ ~(Return(c) /\ now' = now)
    <3>1. /\ pc[c] = "work" /\ step[c] = "apply" /\ req[c] \in ClaimQuery
      BY <2>3, ClaimSteps, ZenonT(40)
    <3>2. PICK i \in Id :
            /\ Memory(req[c].queue)[i] # NoTask
            /\ Available(Memory(req[c].queue)[i], now)
            /\ Memory(req[c].queue)[i].version < MaxVersion
            /\ Rewrite(c, ClaimEntry(c, i)) /\ now' = now
      BY <2>3, ClaimSteps, ZenonT(40)
    <3>3. Store!TryClaim(req[c].claimant, req[c].queue, req[c].duration)
      BY <3>1, <3>2, ClaimIsTryClaim, Zenon
    <3>4. req[c].claimant \in Claimant /\ req[c].queue \in Queue /\ req[c].duration \in Leases
      BY <3>1, Zenon DEF ClaimQuery
    <3> QED
      BY <3>3, <3>4, ZenonT(40) DEF Store!StoreNext
  <2> QED
    BY <1>5, <2>1, <2>2, <2>3, Zenon DEF Serve
<1> QED
  BY <1>2, <1>3, <1>4, <1>5, Zenon DEF Next

(* It opens with a store that TaskStore may open with. *)
LEMMA StoreOpens == Init => Store!StoreInit
<1> SUFFICES ASSUME Init PROVE Store!StoreInit
  BY Zenon
<1>1. PICK tasks \in Initial : disk = DiskOf(tasks)
  BY Zenon DEF Init
<1>2. now = 0 /\ MemInv /\ disk.ok /\ Journaled /\ StoredRight
  BY MemInvInit, StoredOnce, Zenon DEF Init, MemInv, MemTypeOK, Journals
<1>3. tasks \in [Id -> Task \cup {NoTask}]
  BY <1>1, InitialIsStore, Zenon
<1>4. \A q \in Queue, i \in Id :
        disk.tasks[q][i] = IF tasks[i] # NoTask /\ tasks[i].queue = q THEN tasks[i] ELSE NoTask
  BY <1>1, Zenon DEF DiskOf
<1>5. \A q \in Queue, i \in Id : Mem[q][i] = Lapsed(disk.tasks[q][i])
  <2>1. Loaded
    BY InitLoads, Zenon
  <2> QED
    BY <2>1, LoadedMemory
<1>6. ASSUME NEW i \in Id PROVE Lapsed(tasks[i]) = tasks[i]
  <2>1. CASE tasks[i] # NoTask /\ tasks[i].version = 0 /\ tasks[i].at <= 0
    <3>1. tasks[i].claimant = NoOne /\ tasks[i] \in Task
      BY <1>1, <1>3, <2>1, InitialIsStore, Zenon
    <3> QED
      BY <3>1, Zenon DEF Lapsed, Task
  <2>2. CASE ~(tasks[i] # NoTask /\ tasks[i].version = 0 /\ tasks[i].at <= 0)
    BY <1>2, <2>2, Zenon DEF Lapsed, Available
  <2> QED
    BY <2>1, <2>2, Zenon
<1>7. ASSUME NEW i \in Id PROVE Stored(i) = tasks[i]
  <2>1. CASE tasks[i] = NoTask
    <3>1. \A q \in Queue : Mem[q][i] = NoTask
      BY <1>4, <1>5, <1>6, <2>1
    <3> QED
      BY <1>2, <2>1, <3>1, Zenon DEF StoredRight
  <2>2. CASE tasks[i] # NoTask
    <3>1. tasks[i].queue \in Queue
      BY <1>3, <2>2, Zenon DEF Task
    <3>2. Mem[tasks[i].queue][i] = tasks[i]
      BY <1>4, <1>5, <1>6, <2>2, <3>1
    <3> QED
      BY <1>2, <2>2, <3>1, <3>2, Zenon DEF StoredRight
  <2> QED
    BY <2>1, <2>2, Zenon
<1>8. [i \in Id |-> Stored(i)] = tasks
  BY <1>3, <1>7, SMTT(30)
<1> QED
  BY <1>1, <1>2, <1>8, Zenon DEF Store!StoreInit

-----------------------------------------------------------------------------
(* The locks are those of QueueLocks, without namespaces. *)

(* What is proved of the locks, of these locks. *)
LOCAL Dancing == INSTANCE QueueLocksProofs
               WITH Namespace <- {}, Content <- Contents, Empty <- NoTasks

(* Its invariant is stated of the same variables. *)
LEMMA SameLocks == LocksInv <=> Dancing!LocksInv
  BY SMTT(30)
  DEF LocksInv, LocksTypeOK, PCs, Counted, InStep, Names, Holds, Registered, NothingLost, NoLeak,
      IsEmpty, Name, Dancing!LocksInv, Dancing!LocksTypeOK, Dancing!PCs, Dancing!Counted,
      Dancing!InStep, Dancing!Names, Dancing!Holds, Dancing!Registered, Dancing!NothingLost,
      Dancing!NoLeak, Dancing!IsEmpty, Dancing!Name

(* And of the same variables after a step. *)
LEMMA SameLocksNext == LocksInv' <=> Dancing!LocksInv'
  BY Zenon
  DEF LocksInv, LocksTypeOK, PCs, Counted, InStep, Names, Holds, Registered, NothingLost, NoLeak,
      IsEmpty, Name, Dancing!LocksInv, Dancing!LocksTypeOK, Dancing!PCs, Dancing!Counted,
      Dancing!InStep, Dancing!Names, Dancing!Holds, Dancing!Registered, Dancing!NothingLost,
      Dancing!NoLeak, Dancing!IsEmpty, Dancing!Name

(* A step of the locks, of QueueLocks, keeps its invariant here. *)
LEMMA BeginKeepsLocks ==
    ASSUME LocksInv, NEW c \in Call, NEW ns \in SUBSET Queue, Begin(c, ns)
    PROVE  LocksInv'
<1>1. Dancing!LocksInv /\ ns \in SUBSET Dancing!Name /\ Dancing!Begin(c, ns)
  BY SameLocks, Zenon DEF Begin, Dancing!Begin, Dancing!Name
<1>2. Dancing!Name \subseteq Nat
  BY LocksAssumed, Zenon DEF Dancing!Name
<1>3. Dancing!LocksInv'
  BY <1>1, <1>2, LocksAssumed, Dancing!BeginInv, SMTT(30)
<1> QED
  BY <1>3, SameLocksNext, SMTT(30)

(* So do the steps of the dance. *)
LEMMA DanceKeepsLocks ==
    ASSUME LocksInv, NEW c \in Call,
           Lookup(c) \/ Lock(c) \/ Locked(c) \/ Unlock(c) \/ Release(c) \/ Finish(c) \/ Write(c)
    PROVE  LocksInv'
<1>1. Dancing!LocksInv /\ Dancing!Name \subseteq Nat
  BY SameLocks, LocksAssumed, Zenon DEF Dancing!Name
<1>2. CASE Lookup(c)
  <2>1. Dancing!Lookup(c)
    BY <1>2, ZenonT(40)
    DEF Lookup, Dancing!Lookup, Names, Dancing!Names, LockForQueue, Dancing!LockForQueue, Unused,
        Dancing!Unused, Name, Dancing!Name
  <2> QED
    BY <1>1, <2>1, LocksAssumed, Dancing!LookupInv, SameLocksNext, SMTT(30)
<1>3. CASE Lock(c)
  <2>1. Dancing!Lock(c)
    BY <1>3, ZenonT(40)
    DEF Lock, Dancing!Lock, Names, Dancing!Names, NextInOrder, Dancing!NextInOrder, Holds,
        Dancing!Holds
  <2> QED
    BY <1>1, <2>1, LocksAssumed, Dancing!LockInv, SameLocksNext, Zenon
<1>4. CASE Locked(c)
  <2>1. Dancing!Locked(c)
    BY <1>4, ZenonT(40) DEF Locked, Dancing!Locked, Names, Dancing!Names, Holds, Dancing!Holds
  <2> QED
    BY <1>1, <2>1, LocksAssumed, Dancing!LockedInv, SameLocksNext, Zenon
<1>5. CASE Unlock(c)
  <2>1. Dancing!Unlock(c)
    BY <1>5, ZenonT(40) DEF Unlock, Dancing!Unlock, Names, Dancing!Names, Name, Dancing!Name
  <2> QED
    BY <1>1, <2>1, LocksAssumed, Dancing!UnlockInv, SameLocksNext, Zenon
<1>6. CASE Release(c)
  <2>1. Dancing!Release(c)
    BY <1>6, ZenonT(40)
    DEF Release, Dancing!Release, Names, Dancing!Names, Name, Dancing!Name, Collectable,
        Dancing!Collectable, IsEmpty, Dancing!IsEmpty
  <2> QED
    BY <1>1, <2>1, LocksAssumed, Dancing!ReleaseInv, SameLocksNext, Zenon
<1>7. CASE Finish(c)
  <2>1. Dancing!Finish(c)
    BY <1>7, SMTT(30) DEF Finish, Dancing!Finish
  <2> QED
    BY <1>1, <2>1, LocksAssumed, Dancing!FinishInv, SameLocksNext, Zenon
<1>8. CASE Write(c)
  <2>1. Dancing!Write(c)
    BY <1>8, Zenon DEF Write, Dancing!Write, Name, Dancing!Name
  <2> QED
    BY <1>1, <2>1, LocksAssumed, Dancing!WriteInv, SameLocksNext, Zenon
<1> QED
  BY <1>2, <1>3, <1>4, <1>5, <1>6, <1>7, <1>8, SMTT(30)

(* A call that is served does to the locks what QueueLocks says, or nothing. *)
LEMMA ServeLocks ==
    ASSUME MemInv, ~ExplicitIDs, NEW c \in Call, Serve(c)
    PROVE  \/ \E ns \in SUBSET Queue : Begin(c, ns)
           \/ Lookup(c) \/ Lock(c) \/ Locked(c) \/ Unlock(c) \/ Release(c) \/ Finish(c) \/ Write(c)
           \/ UNCHANGED locks
<1>1. CASE \E mod \in ValidRequests : ModPrep(c, mod)
  BY <1>1, ModPrepBegins, Zenon
<1>2. CASE \E cq \in ClaimQuery : StartClaim(c, cq)
  <2>1. PICK cq \in ClaimQuery : Begin(c, {cq.queue})
    BY <1>2, Zenon DEF StartClaim
  <2>2. {cq.queue} \in SUBSET Queue
    BY ClaimRequest, Zenon
  <2> QED
    BY <2>1, <2>2, Zenon
<1>3. CASE Dance(c) \/ Index(c) \/ Journal(c) \/ Return(c)
  BY <1>3, ZenonT(40) DEF Dance, Index, Journal, Return
<1>4. ASSUME pc[c] = "work", NEW e \in Entry, Rewrite(c, e) PROVE Write(c)
  BY <1>4, RewriteMemory, ZenonT(40) DEF MemInv
<1>5. CASE Apply(c) /\ ~Return(c)
  <2>1. pc[c] = "work" /\ step[c] = "apply" /\ req[c] \in ValidRequests
    BY <1>5, ApplySteps, Zenon
  <2>2. ~Refused(c) /\ Rewrite(c, EntryOf(req[c], Found(c)))
    BY <1>5, Zenon DEF Apply
  <2>3. Ready(c, EntryOf(req[c], Found(c)))
    BY <2>1, <2>2, EntryIsReady, Zenon
  <2> QED
    BY <1>4, <2>1, <2>2, <2>3, Zenon DEF Ready
<1>6. CASE ClaimTask(c) /\ ~Return(c)
  <2>1. pc[c] = "work" /\ step[c] = "apply" /\ req[c] \in ClaimQuery
    BY <1>6, ClaimSteps, ZenonT(40)
  <2>2. PICK i \in Id : Memory(req[c].queue)[i] # NoTask /\ Rewrite(c, ClaimEntry(c, i))
    BY <1>6, ClaimSteps, ZenonT(40)
  <2>3. Ready(c, ClaimEntry(c, i))
    BY <2>1, <2>2, ClaimIsReady, ZenonT(40)
  <2> QED
    BY <1>4, <2>1, <2>2, <2>3, ZenonT(40) DEF Ready
<1> QED
  BY <1>1, <1>2, <1>3, <1>5, <1>6, Zenon DEF Serve

(* So the locks stay as they have to be. *)
LEMMA ServeKeepsLocks ==
    ASSUME MemInv, ~ExplicitIDs, NEW c \in Call, Serve(c)
    PROVE  LocksInv'
<1>1. LocksInv
  BY Zenon DEF MemInv
<1>2. CASE \E ns \in SUBSET Queue : Begin(c, ns)
  BY <1>1, <1>2, BeginKeepsLocks, Zenon
<1>3. CASE \/ Lookup(c) \/ Lock(c) \/ Locked(c) \/ Unlock(c) \/ Release(c) \/ Finish(c)
           \/ Write(c)
  BY <1>1, <1>3, DanceKeepsLocks, ZenonT(40)
<1>4. CASE UNCHANGED locks
  <2>1. /\ registry' = registry /\ dependents' = dependents /\ holder' = holder
        /\ content' = content /\ pc' = pc /\ round' = round /\ want' = want /\ got' = got
    BY <1>4, Zenon DEF locks
  <2>2. \A d \in Call : InStep(d)'
    BY <1>1, <2>1, ZenonT(40) DEF LocksInv, InStep, Names, Holds
  <2>3. Counted' /\ Registered'
    <3>1. Counted'
      BY <1>1, <2>1, SMTT(30) DEF LocksInv, Counted, Holds
    <3>2. Registered'
      BY <1>1, <2>1, ZenonT(40) DEF LocksInv, Registered, Holds
    <3> QED
      BY <3>1, <3>2, Zenon
  <2>5. LocksTypeOK'
    BY <1>1, <2>1, SMTT(30) DEF LocksInv, LocksTypeOK
  <2>4. NothingLost' /\ NoLeak'
    BY <1>1, <2>1, ZenonT(40) DEF LocksInv, NothingLost, NoLeak, IsEmpty, Holds
  <2> QED
    BY <2>2, <2>3, <2>4, <2>5, Zenon DEF LocksInv
<1> QED
  BY <1>2, <1>3, <1>4, ServeLocks, Zenon

(* A step of the backend uses the locks as QueueLocks says. *)
LEMMA LocksStep ==
    ASSUME MemInv, ~ExplicitIDs, [Next]_vars
    PROVE  [LocksNext \/ Restart]_locks
<1>1. CASE Tick \/ UNCHANGED vars
  BY <1>1, Zenon DEF Tick, vars
<1>2. CASE Restart
  BY <1>2, Zenon
<1>3. ASSUME NEW c \in Call, Serve(c) PROVE LocksNext \/ UNCHANGED locks
  <2>1. ASSUME NEW ns \in SUBSET Queue, Begin(c, ns) PROVE LocksNext
    BY <2>1, NameIsQueue, Zenon DEF LocksNext
  <2> QED
    BY <1>3, <2>1, ServeLocks, Zenon DEF LocksNext
<1> QED
  BY <1>1, <1>2, <1>3, Zenon DEF Next

(* It opens with every lock free. *)
LEMMA LocksOpen == Init => LocksInit
<1> SUFFICES ASSUME Init PROVE LocksInit
  BY Zenon
<1>1. LocksInv
  BY MemInvInit, Zenon DEF MemInv
<1>2. \A c \in Call, n \in Name : got[c][n] = Nil
  BY NameIsQueue, Zenon DEF Init
<1>3. ASSUME NEW n \in Name, NEW s \in Struct
      PROVE  content[n][s] # NoTasks <=> registry[n] = s
  <2>1. content[n][s] # NoTasks => registry[n] = s
    BY <1>1, Zenon DEF LocksInv, NothingLost
  <2>2. ASSUME registry[n] = s PROVE content[n][s] # NoTasks
    <3>1. registry[n] # Nil
      BY <2>2, LocksAssumed, Zenon
    <3>2. ~IsEmpty(n)
      BY <1>1, <1>2, <3>1, Zenon DEF LocksInv, NoLeak
    <3> QED
      BY <2>2, <3>2, Zenon DEF IsEmpty
  <2> QED
    BY <2>1, <2>2, Zenon
<1>4. /\ registry \in [Name -> Struct \cup {Nil}]
      /\ content \in [Name -> [Struct -> Contents]]
  BY <1>1, Zenon DEF LocksInv, LocksTypeOK
<1> QED
  BY <1>3, <1>4, NameIsQueue, Zenon DEF Init, LocksInit

-----------------------------------------------------------------------------
(* The invariant. *)

(* A modification keeps the invariant. *)
LEMMA ApplyKeeps ==
    ASSUME MemInv, LocksInv', NEW c \in Call, Apply(c)
    PROVE  MemInv'
<1>1. pc[c] = "work" /\ step[c] = "apply" /\ req[c] \in ValidRequests
  BY ApplySteps, Zenon
<1>3. CASE Refused(c) /\ Return(c) /\ UNCHANGED <<qByID, disk, used, now>>
  BY <1>1, <1>3, ReturnKeeps, Zenon
<1>4. CASE ~Refused(c)
  <2> DEFINE e == EntryOf(req[c], Found(c))
  <2>1. /\ Rewrite(c, e) /\ entry' = [entry EXCEPT ![c] = e]
        /\ step' = [step EXCEPT ![c] = "index"]
        /\ qByID' = qByID /\ req' = req /\ prep' = prep /\ disk' = disk /\ used' = used
        /\ now' = now
    BY <1>4, Zenon DEF Apply
  <2>2. Ready(c, e)
    BY <1>1, <1>4, EntryIsReady, Zenon
  <2> HIDE DEF e
  <2> QED
    BY <1>1, <2>1, <2>2, WriteKeeps, Zenon
<1> QED
  BY <1>3, <1>4, Zenon DEF Apply

(* A claim keeps the invariant. *)
LEMMA ClaimTaskKeeps ==
    ASSUME MemInv, LocksInv', NEW c \in Call, ClaimTask(c)
    PROVE  MemInv'
<1>1. pc[c] = "work" /\ step[c] = "apply" /\ req[c] \in ClaimQuery
  BY ClaimSteps, ZenonT(40)
<1>2. CASE Return(c) /\ UNCHANGED <<qByID, disk, used, now>>
  BY <1>1, <1>2, ReturnKeeps, Zenon
<1>3. ASSUME NEW i \in Id, Memory(req[c].queue)[i] # NoTask, Rewrite(c, ClaimEntry(c, i)),
             entry' = [entry EXCEPT ![c] = ClaimEntry(c, i)],
             step' = [step EXCEPT ![c] = "journal"],
             UNCHANGED <<qByID, req, prep, disk, used, now>>
      PROVE  MemInv'
  <2>1. Ready(c, ClaimEntry(c, i)) /\ Reindexed(qByID, ClaimEntry(c, i)) = qByID
    <3>1. Ready(c, ClaimEntry(c, i))
      BY <1>1, <1>3, ClaimIsReady, ZenonT(40)
    <3>2. Reindexed(qByID, ClaimEntry(c, i)) = qByID
      <4>1. KeepsIndex(ClaimEntry(c, i))
        BY <1>1, <1>3, ClaimIsReady, ZenonT(40)
      <4> QED
        BY <4>1, Zenon DEF KeepsIndex
    <3> QED
      BY <3>1, <3>2, Zenon
  <2> QED
    BY <1>1, <1>3, <2>1, WriteKeeps, ZenonT(40)
<1> QED
  BY <1>2, <1>3, ClaimSteps, ZenonT(40)

(* Every step keeps it. *)
LEMMA MemInvNext ==
    ASSUME ~ExplicitIDs, MemInv, [Next]_vars
    PROVE  MemInv'
<1>1. CASE Tick \/ UNCHANGED vars
  BY <1>1, TickKeeps, Zenon
<1>2. CASE Restart
  BY <1>2, RestartKeeps, Zenon
<1>3. ASSUME NEW c \in Call, Serve(c) PROVE MemInv'
  <2>1. LocksInv'
    BY <1>3, ServeKeepsLocks, Zenon
  <2>2. CASE \E mod \in ValidRequests : ModPrep(c, mod)
    BY <2>1, <2>2, ModPrepKeeps, SMTT(30)
  <2>3. CASE \E cq \in ClaimQuery : StartClaim(c, cq)
    BY <2>1, <2>3, StartClaimKeeps, SMTT(30)
  <2>4. CASE Dance(c)
    BY <2>1, <2>4, DanceKeeps, SMTT(30)
  <2>5. CASE Apply(c)
    BY <2>1, <2>5, ApplyKeeps, SMTT(30)
  <2>6. CASE ClaimTask(c)
    BY <2>1, <2>6, ClaimTaskKeeps, Zenon
  <2>7. CASE Index(c)
    BY <2>7, IndexKeeps, SMTT(30)
  <2>8. CASE Journal(c)
    BY <2>1, <2>8, JournalKeeps, Zenon
  <2> QED
    BY <1>3, <2>2, <2>3, <2>4, <2>5, <2>6, <2>7, <2>8, Zenon DEF Serve
<1> QED
  BY <1>1, <1>2, <1>3, Zenon DEF Next

(* While the backend makes up the IDs of the tasks it inserts, the locks,  *)
(* the queues, the index and the journal stay as MemInv says.              *)
LEMMA MemInvHolds ==
    ASSUME ~ExplicitIDs
    PROVE  Spec => []MemInv
<1>1. MemInv /\ [Next]_vars => MemInv'
  BY MemInvNext, Zenon
<1> QED
  BY <1>1, MemInvInit, PTL DEF Spec

-----------------------------------------------------------------------------
(* The theorems. *)

(* However calls, restarts and the clock interleave, no task ID is in two  *)
(* queues of the backend at once (eqmem.go's Modify moves tasks between    *)
(* queues, with only the queues it names locked).                          *)
THEOREM IDsStayUnique ==
    ASSUME ~ExplicitIDs
    PROVE  Spec => []UniqueIDs
<1>1. MemInv => UniqueIDs
  BY OneQueue, SMTT(30)
<1> QED
  BY <1>1, MemInvHolds, PTL

(* The index of IDs is right for every queue that no call is just working  *)
(* on: a task that can be claimed can be changed and deleted too.          *)
THEOREM IndexStaysRight ==
    ASSUME ~ExplicitIDs
    PROVE  Spec => []IndexAgrees
<1>1. MemInv => IndexAgrees
  BY Zenon DEF MemInv
<1> QED
  BY <1>1, MemInvHolds, PTL

(* Whenever the backend is stopped, its journal loads, and gives each      *)
(* queue what it held, up to changes that no call has been answered for.   *)
THEOREM JournalStaysRight ==
    ASSUME ~ExplicitIDs
    PROVE  Spec => []Durable
<1>1. MemInv => Durable
  BY Zenon DEF MemInv, Durable, MemTypeOK, Journals
<1> QED
  BY <1>1, MemInvHolds, PTL

(* Whatever its calls, their locks and its journal are doing, the backend  *)
(* is to its clients the store of TaskStore between restarts: a Modify or  *)
(* a claim takes effect in one step or not at all.                         *)
THEOREM BackendIsStore ==
    ASSUME ~ExplicitIDs
    PROVE  Spec => ImplementsStore
<1>1. MemInv /\ MemInv' /\ [Next]_vars => [Store!StoreNext \/ Restart]_(Store!storeVars)
  BY StoreStep, Zenon
<1> QED
  BY <1>1, StoreOpens, MemInvHolds, PTL DEF Spec, ImplementsStore

(* The backend takes and drops its locks as QueueLocks has calls take and  *)
(* drop them, and writes to a queue only with the queue locked.            *)
THEOREM BackendLocks ==
    ASSUME ~ExplicitIDs
    PROVE  Spec => ImplementsLocks
<1>1. MemInv /\ [Next]_vars => [LocksNext \/ Restart]_locks
  BY LocksStep, Zenon
<1> QED
  BY <1>1, LocksOpen, MemInvHolds, PTL DEF Spec, ImplementsLocks
=============================================================================
