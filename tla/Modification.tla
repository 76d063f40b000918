---------------------------- MODULE Modification ----------------------------
(***************************************************************************)
(* What a modification asks of the task store, when it has to be refused,  *)
(* and what it leaves behind (entroq.go, task.go, arrival.go, and the task *)
(* half of the in-memory backend's modifyImpl).                            *)
(*                                                                         *)
(* A task is known by its ID; what is stored under the ID is its queue,    *)
(* version, arrival time, claimant and claim count.  Value, error text and *)
(* the other fields that decide nothing are left out.  An operation names  *)
(* the task it is about by ID, version and queue, and an arrival by how    *)
(* long from the backend's own now it is.                                  *)
(***************************************************************************)
EXTENDS Integers

CONSTANTS
    Id,                \* task IDs
    Queue,             \* queue names
    Claimant,          \* client IDs
    NoOne,             \* the empty claimant
    NoTask,            \* what is found under an ID that names nothing
    ArrivalPastWindow  \* how far in the past an arrival may lie

ASSUME NoOneIsNoClaimant == NoOne \notin Claimant

ASSUME WindowIsDuration == ArrivalPastWindow \in Nat

Task == [queue : Queue, version : Nat, at : Int,
         claimant : Claimant \cup {NoOne}, claims : Nat]

ASSUME NoTaskIsNoTask == NoTask \notin Task

Insert == [id : Id, queue : Queue, by : Int]
Change == [id : Id, version : Nat, from : Queue, queue : Queue, by : Int,
           reset : BOOLEAN]
TaskID == [id : Id, version : Nat, queue : Queue]
TaskArrival == [id : Id, version : Nat, queue : Queue, by : Int]

Request == [claimant : Claimant, inserts : SUBSET Insert,
            changes : SUBSET Change, deletes : SUBSET TaskID,
            depends : SUBSET TaskID, arrives : SUBSET TaskArrival]

-----------------------------------------------------------------------------

(* A task is held while its claim runs: it has a claimant, and has not arrived. *)
Held(t, now) == t.at > now /\ t.claimant # NoOne

(* Held by someone other than c. *)
OtherwiseClaimed(c, t, now) == Held(t, now) /\ t.claimant # c

Available(t, now) == t.at <= now

(* An arrival reaching back past the window is one at now. *)
NormalizeArrival(at, now) == IF at < now - ArrivalPastWindow THEN now ELSE at

(* The writer holds a task that is not yet available, no one an available one. *)
HolderOf(c, at, now) == IF at > now THEN c ELSE NoOne

(* A task arrival is a change of the arrival time alone, of a task that is *)
(* to stay in the queue it names.                                          *)
ArrivalChange(a) == [id |-> a.id, version |-> a.version, from |-> a.queue,
                     queue |-> a.queue, by |-> a.by, reset |-> FALSE]

Changes(mod) == mod.changes \cup {ArrivalChange(a) : a \in mod.arrives}

Ids(ops) == {o.id : o \in ops}

(* All operations of a modification, arrivals as the changes they are. *)
Ops(mod) == mod.inserts \cup Changes(mod) \cup mod.deletes \cup mod.depends

(* An ID may be named by one operation only, and there is one at least. *)
Valid(mod) ==
    /\ Ops(mod) # {}
    /\ \A o, p \in Ops(mod) : o.id = p.id => o = p
    /\ mod.deletes \cap mod.depends = {}
    /\ mod.changes \cap {ArrivalChange(a) : a \in mod.arrives} = {}

-----------------------------------------------------------------------------

MatchesAnyVersion(t, version) == t # NoTask

(* Whether the task found is the one an operation names. *)
Matches(t, version) == t # NoTask /\ t.version = version

(* The operations that cannot proceed, by class, given the task found for  *)
(* each ID in the queue its operation names.                               *)
DependencyError(mod, found, now) ==
    LET missing(ops) == {o \in ops : ~Matches(found[o.id], o.version)}
        claimed(ops) == {o \in ops \ missing(ops) :
                            OtherwiseClaimed(mod.claimant, found[o.id], now)}
    IN [inserts |-> {i.id : i \in {o \in mod.inserts : found[o.id] # NoTask}},
        changes |-> Ids(missing(Changes(mod))),
        deletes |-> Ids(missing(mod.deletes)),
        depends |-> Ids(missing(mod.depends)),
        claims  |-> Ids(claimed(Changes(mod)) \cup claimed(mod.deletes))]

HasMissing(e) == e.depends \cup e.deletes \cup e.changes # {}
HasClaims(e) == e.claims # {}
HasCollisions(e) == e.inserts # {}
HasAny(e) == HasMissing(e) \/ HasCollisions(e) \/ HasClaims(e)

-----------------------------------------------------------------------------

(* The task a change leaves: one version on, arriving when asked, held by  *)
(* the modifier until then, with the claim count it had unless reset.      *)
Changed(claimant, c, old, now) ==
    LET at == NormalizeArrival(now + c.by, now)
    IN [queue |-> c.queue, version |-> c.version + 1, at |-> at,
        claimant |-> HolderOf(claimant, at, now),
        claims |-> IF c.reset THEN 0 ELSE old.claims]

(* The task an insert leaves: at version 0 and never claimed. *)
Inserted(claimant, i, now) ==
    LET at == NormalizeArrival(now + i.by, now)
    IN [queue |-> i.queue, version |-> 0, at |-> at,
        claimant |-> HolderOf(claimant, at, now), claims |-> 0]

(* The task a claim leaves, held for the duration asked. *)
Claimed(t, claimant, duration, now) ==
    [queue |-> t.queue, version |-> t.version + 1, at |-> now + duration,
     claimant |-> claimant, claims |-> t.claims + 1]
=============================================================================
