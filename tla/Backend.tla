------------------------------ MODULE Backend ------------------------------
(***************************************************************************)
(* What every backend promises of tasks and docs together (the Backend     *)
(* interface of entroq.go): a modification of both happens in one step or  *)
(* not at all, a claim takes one available task, a doc claim takes all its *)
(* sets or none, and collection removes only locks nobody misses.          *)
(*                                                                         *)
(* A step judges by a clock that was read when the call began, or when its *)
(* transaction did, so by any instant up to now.                           *)
(***************************************************************************)
EXTENDS Integers, FiniteSets, FiniteSetsExt

CONSTANTS
    Id, Queue, Claimant, NoOne, NoTask, ArrivalPastWindow,  \* as in Modification
    DocId, Set, Place, NoDoc,                               \* as in DocSets
    Modifications,  \* what clients may ask: a claimant's task request and doc modification
    Stores,         \* what may be stored when the backend opens
    Leases,         \* the durations a task claim may ask for
    Holds,          \* how far a doc claim may reach, counted from its clock
    MaxNow          \* bound: the last instant of the clock

VARIABLES
    tasks,  \* what is stored under each task ID
    docs,   \* what is stored under each doc ID
    locks,  \* each doc set's lock
    now     \* the clock

dataVars == <<tasks, docs, locks>>
backendVars == <<tasks, docs, locks, now>>

M == INSTANCE Modification
D == INSTANCE DocSets

(* The task store as ts, at the instant at. *)
Store(ts, at) == INSTANCE TaskStore
                     WITH tasks <- ts, now <- at, Initial <- {}, MaxVersion <- 0,
                          Requests <- {m.task : m \in Modifications}

(* The task half of a modification cannot proceed. *)
TasksRefused(m, ts, at) ==
    M!HasAny(M!DependencyError(m.task, Store(ts, at)!Found(m.task), at))

(* Nor can the whole, given the tasks, docs and locks it found. *)
Refused(m, ts, ds, ls, at) ==
    TasksRefused(m, ts, at) \/ D!Refused(m.docs, at, ds, ls)

BackendInit ==
    /\ \E s \in Stores : tasks = s.tasks /\ docs = s.docs /\ locks = s.locks
    /\ now = 0

(* The tasks and docs a modification writes, and those of them it deletes. *)
TasksWritten(m) == M!Ids(M!Ops(m.task) \ m.task.depends)
DocsWritten(m) == M!Ids(D!DocOps(m.docs) \ m.docs.depends)

TasksDeleted(m) == M!Ids(m.task.deletes)
DocsDeleted(m) == M!Ids(m.docs.deletes)

(* The modifications that write and delete just these: a step is compared  *)
(* with those that could have made it.                                     *)
Writing == [T, TD \in SUBSET Id, I, ID \in SUBSET DocId |->
               {m \in Modifications : /\ TasksWritten(m) = T /\ TasksDeleted(m) = TD
                                      /\ DocsWritten(m) = I /\ DocsDeleted(m) = ID}]

Modify(m) ==
    \E at \in 0 .. now :
        /\ ~Refused(m, tasks, docs, locks, at)
        /\ tasks' = Store(tasks, at)!Applied(m.task)
        /\ docs' = D!DocsAfter(m.docs, docs, locks)
        /\ locks' = D!Plan(m.docs, at, docs, locks)
        /\ UNCHANGED now

InQueue(q) == {i \in Id : tasks[i] # NoTask /\ tasks[i].queue = q}

(* The tasks of q that a claim at the instant at may take. *)
Claimable(q, at) == {i \in InQueue(q) : M!Available(tasks[i], at)}

TryClaim(c, q, duration) ==
    /\ UNCHANGED <<docs, locks, now>>
    /\ \E at \in 0 .. now : \E i \in Claimable(q, at) :
           tasks' = [tasks EXCEPT ![i] = M!Claimed(@, c, duration, at)]

ClaimDocs(c, G) ==
    /\ UNCHANGED <<tasks, docs, now>>
    /\ \E at \in 0 .. now, hold \in Holds :
           /\ D!ClaimAll(G, c, at, at + hold, locks)
           /\ locks' = [g \in Set |-> IF g \in G THEN D!Claim(locks[g], c, at + hold) ELSE locks[g]]

(* The sets whose lock may go: stored, empty and not held. *)
Idle(at) == {g \in Set : locks[g].stored /\ ~D!Held(locks[g], at) /\ D!Members(docs, g) = {}}

WithoutLocks(G) == [g \in Set |-> IF g \in G THEN D!Absent ELSE locks[g]]

CollectLocks ==
    /\ UNCHANGED <<tasks, docs, now>>
    /\ \E at \in 0 .. now : \E G \in SUBSET Idle(at) \ {{}} : locks' = WithoutLocks(G)

(* The figures of a queue: a task that has not arrived counts as claimed   *)
(* if it ever was, and as future otherwise.                                *)
QueueStats(q) ==
    LET later(i) == tasks[i].at > now
    IN  [size |-> Cardinality(InQueue(q)),
         available |-> Cardinality({i \in InQueue(q) : ~later(i)}),
         claimed |-> Cardinality({i \in InQueue(q) : later(i) /\ tasks[i].claims > 0}),
         future |-> Cardinality({i \in InQueue(q) : later(i) /\ tasks[i].claims = 0}),
         maxClaims |-> Max({tasks[i].claims : i \in InQueue(q)} \cup {0})]

Tick == now < MaxNow /\ now' = now + 1 /\ UNCHANGED dataVars

Operation ==
    LET written == {i \in Id : tasks'[i] # tasks[i]}
        rewritten == {i \in DocId : docs'[i] # docs[i]}
    IN  \/ \E c \in Claimant, q \in Queue, d \in Leases : TryClaim(c, q, d)
        \/ \E c \in Claimant, G \in SUBSET Set \ {{}} : ClaimDocs(c, G)
        \/ CollectLocks
        \/ \E m \in Writing[written, {i \in written : tasks'[i] = NoTask},
                            rewritten, {i \in rewritten : docs'[i] = NoDoc}] : Modify(m)

(* Time passes, or an operation changes what is stored. *)
BackendNext == Tick \/ (dataVars' # dataVars /\ Operation)

(* A backend's tasks, docs and locks change only as the interface says,    *)
(* one whole operation at a time, however many statements, reads and       *)
(* retries the operation is made of and whatever runs beside it.           *)
BackendSpec == BackendInit /\ [][BackendNext]_backendVars
=============================================================================
