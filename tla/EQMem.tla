------------------------------- MODULE EQMem -------------------------------
(***************************************************************************)
(* The in-memory backend (pkg/backend/eqmem): how TryClaim and Modify are  *)
(* carried out by concurrent calls under the global lock and the queue     *)
(* locks, how they are journaled, and what a restart makes of the journal. *)
(*                                                                         *)
(* A modification runs in the steps that the locks divide it into:         *)
(*   ModPrep      consults the index qByID under the global lock;          *)
(*   Lookup/Lock  the dance of QueueLocks, after which the call has the    *)
(*                queues it found in ModPrep to itself;                    *)
(*   Apply        finds the tasks, refuses or carries out the operations;  *)
(*   Index        brings qByID up to date, under the global lock;          *)
(*   Journal      appends what was done, and the call returns;             *)
(*   Unlock/Release  the rest of the dance.                                *)
(* A claim has no ModPrep and no Index: it never moves a task.             *)
(*                                                                         *)
(* The journal is represented by what replaying it yields.  Replay is a    *)
(* fold over the entries, so appending an entry is one step of that fold.  *)
(***************************************************************************)
EXTENDS Modification

CONSTANTS
    Call, Struct, Nil,  \* as in QueueLocks
    Requests,           \* the modifications clients may send
    Initial,            \* what the journal may hold when the backend opens
    Leases,             \* the durations a claim may ask for
    ExplicitIDs,        \* whether inserts may name an ID that was used before
    MaxVersion,         \* bound: a task that has reached it is not claimed again
    MaxNow              \* bound: the last instant of the clock

ASSUME QueuesAreSorted == Queue \subseteq Nat

ASSUME NilIsNothing == Nil \notin Struct \cup Call \cup Queue

ASSUME LeasesLast == Leases \subseteq Nat \ {0}

(* A task that was never claimed or changed, and has arrived, is no one's. *)
ASSUME InitialIsStore ==
    /\ Initial \subseteq [Id -> Task \cup {NoTask}]
    /\ \A f \in Initial, i \in Id :
        f[i] # NoTask /\ f[i].version = 0 /\ f[i].at <= 0 => f[i].claimant = NoOne

ASSUME RequestsAreRequests == Requests \subseteq Request

(* What is left once validate.Modification has turned requests away. *)
ValidRequests == {mod \in Requests : Valid(mod)}

Contents == [Id -> Task \cup {NoTask}]
NoTasks == [i \in Id |-> NoTask]

VARIABLES
    registry, dependents, holder, content, pc, round, want, got,
    qByID,   \* the queue each task ID is in
    req,     \* the request each call serves
    prep,    \* what ModPrep found out for it
    step,    \* how far it is under its locks
    entry,   \* the journal entry it is about to append
    disk,    \* what replaying the journal yields
    used,    \* the IDs that were generated or named so far
    now      \* the clock

INSTANCE QueueLocks WITH Namespace <- {}, Content <- Contents, Empty <- NoTasks

locks == <<registry, dependents, holder, content, pc, round, want, got>>

memVars == <<qByID, req, prep, step, entry, disk, used, now>>

vars == <<locks, memVars>>

-----------------------------------------------------------------------------
(* The journal. *)

NoEntry == [claimant |-> NoOne, deletes |-> {}, depends |-> {}, changes |-> {},
            inserts |-> {}]

NoIndex == [i \in Id |-> Nil]

(* A journal that yields the tasks given. *)
DiskOf(tasks) ==
    [ok |-> TRUE,
     tasks |-> [q \in Queue |-> [i \in Id |->
                IF tasks[i] # NoTask /\ tasks[i].queue = q THEN tasks[i] ELSE NoTask]],
     qByID |-> [i \in Id |-> IF tasks[i] = NoTask THEN Nil ELSE tasks[i].queue]]

(* The queues' contents once the tasks in put are written and those in     *)
(* gone, pairs of ID and queue, are removed.                               *)
Rewritten(tasks, gone, put) ==
    [q \in Queue |-> [i \in Id |->
        IF \E p \in put : p.id = i /\ p.task.queue = q
        THEN (CHOOSE p \in put : p.id = i /\ p.task.queue = q).task
        ELSE IF <<i, q>> \in gone THEN NoTask ELSE tasks[q][i]]]

GoneIfDeleted(e) == {<<d.id, d.queue>> : d \in e.deletes}

(* The places that are left empty: of deleted tasks, and of moved ones. *)
Gone(e) == {<<d.id, d.queue>> : d \in e.deletes}
           \cup {<<c.id, c.from>> : c \in {c \in e.changes : c.from # c.task.queue}}

Put(e) == e.changes \cup e.inserts

ReindexedIfInserted(index, e) ==
    [i \in Id |->
        CASE \E p \in e.inserts : p.id = i -> (CHOOSE p \in e.inserts : p.id = i).task.queue
          [] i \in Ids(e.deletes) -> Nil
          [] OTHER -> index[i]]

(* finalLockedSteps: what becomes of the index. *)
Reindexed(index, e) ==
    [i \in Id |->
        CASE \E p \in Put(e) : p.id = i -> (CHOOSE p \in Put(e) : p.id = i).task.queue
          [] i \in Ids(e.deletes) -> Nil
          [] OTHER -> index[i]]

(* playJournalEntry: the recorded modification is checked as any other,    *)
(* except that claims do not count.                                        *)
Replayable(d, e) ==
    LET stored(o, q) == d.tasks[q][o.id]
        fits(o, q, version) == d.qByID[o.id] = q /\ Matches(stored(o, q), version)
        free(o) == /\ stored(o, o.task.queue) = NoTask
                   /\ d.qByID[o.id] # Nil => stored(o, d.qByID[o.id]) = NoTask
    IN /\ \A o \in e.deletes \cup e.depends : fits(o, o.queue, o.version)
       /\ \A o \in e.changes : fits(o, o.from, o.task.version - 1)
       /\ \A o \in e.inserts : free(o)

(* It is applied in its final state. *)
Replayed(d, e) ==
    [ok |-> TRUE, tasks |-> Rewritten(d.tasks, Gone(e), Put(e)),
     qByID |-> Reindexed(d.qByID, e)]

(* An entry that does not fit keeps the journal from loading. *)
Replay(d, e) ==
    IF d.ok /\ Replayable(d, e) THEN Replayed(d, e) ELSE [d EXCEPT !.ok = FALSE]

(* An insert is journaled without a claimant, and replayed as its writer's *)
(* while it has not arrived by then.                                       *)
Lapsed(t) == IF t # NoTask /\ t.version = 0 /\ Available(t, now)
             THEN [t EXCEPT !.claimant = NoOne] ELSE t

-----------------------------------------------------------------------------
(* Requests. *)

ClaimQuery == [claimant : Claimant, queue : Queue, duration : Leases]
NoRequest == [none |-> TRUE]
IsModify(r) == "inserts" \in DOMAIN r
IsClaim(r) == "duration" \in DOMAIN r
NoPrep == [failed |-> FALSE, misplaced |-> {}]

OpQueues(o) == {o.queue} \cup (IF "from" \in DOMAIN o THEN {o.from} ELSE {})

(* The queue an operation says its task is in. *)
Named(o) == IF "from" \in DOMAIN o THEN o.from ELSE o.queue

(* ensureModQueues: some operation names a queue its task is not in. *)
WrongQueue(mod) ==
    \E o \in mod.deletes \cup mod.depends \cup mod.changes : qByID[o.id] # Named(o)

(* The IDs to insert that are in another queue than the one asked for. *)
Misplaced(mod) == {<<o.id, qByID[o.id]>> :
                    o \in {o \in mod.inserts : qByID[o.id] \notin {Nil, o.queue}}}

ModPrep(c, mod) ==
    /\ ExplicitIDs \/ Ids(mod.inserts) \cap used = {}
    /\ Begin(c, (UNION {OpQueues(o) : o \in Ops(mod)}) \cup {m[2] : m \in Misplaced(mod)})
    /\ req' = [req EXCEPT ![c] = mod]
    /\ prep' = [prep EXCEPT ![c] = [failed |-> WrongQueue(mod),
                                    misplaced |-> Misplaced(mod)]]
    /\ used' = used \cup Ids(mod.inserts)
    /\ step' = [step EXCEPT ![c] = "apply"]
    /\ UNCHANGED <<qByID, entry, disk, now>>

StartClaimUncounted(c, cq) ==
    /\ ~IsEmpty(cq.queue) /\ pc[c] = "start"
    /\ want' = [want EXCEPT ![c] = {cq.queue}]
    /\ got' = [got EXCEPT ![c][cq.queue] = registry[cq.queue]]
    /\ pc' = [pc EXCEPT ![c] = "lock"]
    /\ req' = [req EXCEPT ![c] = cq]
    /\ step' = [step EXCEPT ![c] = "apply"]
    /\ UNCHANGED <<registry, dependents, holder, content, round, qByID, prep, entry,
                   disk, used, now>>

(* A look at one of the queues of a TryClaim; an empty one is not locked. *)
StartClaim(c, cq) ==
    /\ ~IsEmpty(cq.queue)
    /\ Begin(c, {cq.queue})
    /\ req' = [req EXCEPT ![c] = cq]
    /\ step' = [step EXCEPT ![c] = "apply"]
    /\ UNCHANGED <<qByID, prep, entry, disk, used, now>>

Dance(c) ==
    /\ Lookup(c) \/ Lock(c) \/ Locked(c) \/ Unlock(c) \/ Release(c)
    /\ UNCHANGED memVars

-----------------------------------------------------------------------------
(* The work under the locks. *)

(* The call returns, and forgets its request. *)
Return(c) ==
    /\ Finish(c)
    /\ req' = [req EXCEPT ![c] = NoRequest]
    /\ prep' = [prep EXCEPT ![c] = NoPrep]
    /\ entry' = [entry EXCEPT ![c] = NoEntry]
    /\ step' = [step EXCEPT ![c] = "none"]

(* What c sees in the queues it has locked. *)
Locking(c) == [q \in Queue |-> IF q \in want[c] THEN content[q][got[c][q]] ELSE NoTasks]

(* The queue-level half of the operations in e. *)
Rewrite(c, e) ==
    /\ content' = [q \in Queue |->
            IF q \notin want[c] THEN content[q]
            ELSE [content[q] EXCEPT ![got[c][q]] = Rewritten(Locking(c), Gone(e), Put(e))[q]]]
    /\ UNCHANGED <<registry, dependents, holder, pc, round, want, got>>

(* addFound: an operation finds its task in the queue it names, and an     *)
(* insert also in the queue ModPrep found the ID in.                       *)
Found(c) ==
    [i \in Id |->
        LET at == {q \in want[c] :
                    /\ Locking(c)[q][i] # NoTask
                    /\ \/ \E o \in Ops(req[c]) : o.id = i /\ Named(o) = q
                       \/ <<i, q>> \in prep[c].misplaced}
        IN IF at = {} THEN NoTask ELSE Locking(c)[CHOOSE q \in at : TRUE][i]]

EntryOfRequest(mod, found) ==
    [claimant |-> mod.claimant, deletes |-> mod.deletes, depends |-> mod.depends,
     changes |-> {[id |-> o.id, from |-> o.from,
                   task |-> [Changed(mod.claimant, o, found[o.id], now)
                                EXCEPT !.version = o.version]] : o \in Changes(mod)},
     inserts |-> {[id |-> o.id, task |-> Inserted(mod.claimant, o, now)] :
                        o \in mod.inserts}]

(* The final state of all that a modification does, as it is journaled. *)
EntryOf(mod, found) ==
    [claimant |-> mod.claimant, deletes |-> mod.deletes, depends |-> mod.depends,
     changes |-> {[id |-> o.id, from |-> o.from,
                   task |-> Changed(mod.claimant, o, found[o.id], now)] :
                        o \in Changes(mod)},
     inserts |-> {[id |-> o.id, task |-> Inserted(mod.claimant, o, now)] :
                        o \in mod.inserts}]

RefusedIfMissing(c) ==
    LET e == DependencyError(req[c], Found(c), now)
    IN prep[c].failed \/ HasMissing(e) \/ HasCollisions(e)

(* The merged dependency errors of ModPrep and of what was found. *)
Refused(c) ==
    prep[c].failed \/ HasAny(DependencyError(req[c], Found(c), now))

(* modifyImpl up to the queue-level changes. *)
Apply(c) ==
    /\ pc[c] = "work" /\ step[c] = "apply" /\ IsModify(req[c])
    /\ \/ /\ Refused(c)
          /\ Return(c)
          /\ UNCHANGED <<qByID, disk, used, now>>
       \/ /\ ~Refused(c)
          /\ LET e == EntryOf(req[c], Found(c))
             IN /\ Rewrite(c, e)
                /\ entry' = [entry EXCEPT ![c] = e]
          /\ step' = [step EXCEPT ![c] = "index"]
          /\ UNCHANGED <<qByID, req, prep, disk, used, now>>

(* mustTryClaimOne: any available task of the queue, or none. *)
ClaimTask(c) ==
    /\ pc[c] = "work" /\ step[c] = "apply" /\ IsClaim(req[c])
    /\ LET q == req[c].queue
           here == Locking(c)[q]
           ready == {i \in Id : here[i] # NoTask /\ Available(here[i], now)}
       IN \/ /\ ready = {}
             /\ Return(c)
             /\ UNCHANGED <<qByID, disk, used, now>>
          \/ \E i \in {k \in ready : here[k].version < MaxVersion} :
                LET t == Claimed(here[i], req[c].claimant, req[c].duration, now)
                    e == [NoEntry EXCEPT !.claimant = req[c].claimant,
                                         !.changes = {[id |-> i, from |-> q, task |-> t]}]
                IN /\ Rewrite(c, e)
                   /\ entry' = [entry EXCEPT ![c] = e]
                   /\ step' = [step EXCEPT ![c] = "journal"]
                   /\ UNCHANGED <<qByID, req, prep, disk, used, now>>

(* finalLockedSteps, under the global lock. *)
Index(c) ==
    /\ pc[c] = "work" /\ step[c] = "index"
    /\ qByID' = Reindexed(qByID, entry[c])
    /\ step' = [step EXCEPT ![c] = "journal"]
    /\ UNCHANGED <<locks, req, prep, entry, disk, used, now>>

(* The journal is appended to, and the call returns its answer. *)
Journal(c) ==
    /\ pc[c] = "work" /\ step[c] = "journal"
    /\ disk' = Replay(disk, entry[c])
    /\ Return(c)
    /\ UNCHANGED <<qByID, used, now>>

-----------------------------------------------------------------------------
(* The life of the backend. *)

(* The process dies, with every call in it, and New loads the journal. *)
Restart ==
    /\ disk.ok
    /\ pc' = [c \in Call |-> IF pc[c] = "start" THEN "start" ELSE "done"]
    /\ want' = [c \in Call |-> {}]
    /\ got' = [c \in Call |-> [q \in Queue |-> Nil]]
    /\ holder' = [q \in Queue |-> [s \in Struct |-> Nil]]
    /\ dependents' = [q \in Queue |-> [s \in Struct |-> {}]]
    /\ \E s \in Struct :
        registry' = [q \in Queue |-> IF disk.tasks[q] = NoTasks THEN Nil ELSE s]
    /\ content' = [q \in Queue |-> [s \in Struct |->
            IF s = registry'[q] THEN [i \in Id |-> Lapsed(disk.tasks[q][i])] ELSE NoTasks]]
    /\ qByID' = disk.qByID
    /\ req' = [c \in Call |-> NoRequest]
    /\ prep' = [c \in Call |-> NoPrep]
    /\ step' = [c \in Call |-> "none"]
    /\ entry' = [c \in Call |-> NoEntry]
    /\ UNCHANGED <<round, disk, used, now>>

(* TakeSnapshot, at a time when all entries are in frozen journals: the    *)
(* journals become a snapshot of their tasks, and loadSnapshotValue puts   *)
(* the tasks back without putting them into the index.                     *)
Snapshot ==
    /\ disk.ok
    /\ disk' = [disk EXCEPT !.qByID = NoIndex]
    /\ UNCHANGED <<locks, qByID, req, prep, step, entry, used, now>>

Tick ==
    /\ now < MaxNow
    /\ now' = now + 1
    /\ UNCHANGED <<locks, qByID, req, prep, step, entry, disk, used>>

Init ==
    /\ \E tasks \in Initial, s \in Struct :
        /\ disk = DiskOf(tasks)
        /\ used = {i \in Id : tasks[i] # NoTask}
        /\ registry = [q \in Queue |-> IF disk.tasks[q] = NoTasks THEN Nil ELSE s]
    /\ now = 0
    /\ qByID = disk.qByID
    /\ content = [q \in Queue |-> [s \in Struct |->
            IF s = registry[q] THEN [i \in Id |-> Lapsed(disk.tasks[q][i])] ELSE NoTasks]]
    /\ dependents = [q \in Queue |-> [s \in Struct |-> {}]]
    /\ holder = [q \in Queue |-> [s \in Struct |-> Nil]]
    /\ pc = [c \in Call |-> "start"]
    /\ round = [c \in Call |-> "queues"]
    /\ want = [c \in Call |-> {}]
    /\ got = [c \in Call |-> [q \in Queue |-> Nil]]
    /\ req = [c \in Call |-> NoRequest]
    /\ prep = [c \in Call |-> NoPrep]
    /\ step = [c \in Call |-> "none"]
    /\ entry = [c \in Call |-> NoEntry]

Serve(c) ==
    \/ \E mod \in ValidRequests : ModPrep(c, mod)
    \/ \E cq \in ClaimQuery : StartClaim(c, cq)
    \/ Dance(c)
    \/ Apply(c)
    \/ ClaimTask(c)
    \/ Index(c)
    \/ Journal(c)

Next == Tick \/ Restart \/ \E c \in Call : Serve(c)

SnapNext == Next \/ Snapshot

(* A backend that is restarted from time to time, and one whose journals   *)
(* are also turned into snapshots.                                         *)
Spec == Init /\ [][Next]_vars
SnapSpec == Init /\ [][SnapNext]_vars

-----------------------------------------------------------------------------

(* What is stored in a queue, and under an ID. *)
Memory(q) == IF registry[q] = Nil THEN NoTasks ELSE content[q][registry[q]]

Stored(i) ==
    LET qs == {q \in Queue : Memory(q)[i] # NoTask}
    IN IF qs = {} THEN NoTask ELSE Memory(CHOOSE q \in qs : TRUE)[i]

(* A task ID is in one queue at most, which stats.go says of all IDs.      *)
UniqueIDs ==
    \A i \in Id : \A p, q \in Queue :
        Memory(p)[i] # NoTask /\ Memory(q)[i] # NoTask => p = q

(* Except while a call is between its changes and its finalLockedSteps,    *)
(* qByID says of each ID which queue its task is in: a task that qByID has *)
(* wrong could be claimed but never changed or deleted.                    *)
IndexAgrees ==
    \A i \in Id, q \in Queue :
        (\A c \in Call : step[c] = "index" => q \notin want[c])
            => (Memory(q)[i] # NoTask <=> qByID[i] = q)

(* What the journal yields, if it loads, is for every queue exactly what   *)
(* the queue holds, except while a call with the queue locked has yet to   *)
(* append its entry: no restart brings back anything but the last answer.  *)
Journaled ==
    disk.ok => \A q \in Queue :
        (\A c \in Call : step[c] \in {"index", "journal"} => q \notin want[c])
            => \A i \in Id : Lapsed(Memory(q)[i]) = Lapsed(disk.tasks[q][i])

(* The journal always loads, and yields what was journaled: nothing that a *)
(* call has answered is lost in a restart.                                 *)
Durable == disk.ok /\ Journaled

(* Between restarts, the calls use the locks only as QueueLocks says, so   *)
(* what holds of the locks there holds of them here.                       *)
ImplementsLocks == LocksInit /\ [][LocksNext \/ Restart]_locks

(* Seen as one store, the queues behave between restarts as TaskStore      *)
(* says: each Apply and each claim is one atomic step, however the calls   *)
(* interleave.                                                             *)
Store == INSTANCE TaskStore WITH tasks <- [i \in Id |-> Stored(i)]
ImplementsStore == Store!StoreInit /\ [][Store!StoreNext \/ Restart]_(Store!storeVars)
=============================================================================
