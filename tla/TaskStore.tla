----------------------------- MODULE TaskStore -----------------------------
(***************************************************************************)
(* What a backend promises of tasks (the Backend interface of entroq.go):  *)
(* a claim takes one available task, a modification happens in one atomic  *)
(* step or not at all, and nothing else changes the store.                 *)
(***************************************************************************)
EXTENDS Modification

CONSTANTS
    Requests,    \* the modifications clients may send
    Initial,     \* what may be stored when the backend opens
    Leases,      \* the durations a claim may ask for
    MaxVersion,  \* bound: a task that has reached it is not claimed again
    MaxNow       \* bound: the last instant of the clock

ASSUME RequestsAreRequests == Requests \subseteq Request

ASSUME InitialIsStore ==
    /\ Initial \subseteq [Id -> Task \cup {NoTask}]
    /\ \A f \in Initial, i \in Id : f[i] # NoTask => f[i].claims <= f[i].version

ASSUME LeasesLast == Leases \subseteq Nat \ {0}

(* What is left once validate.Modification has turned requests away. *)
ValidRequests == {mod \in Requests : Valid(mod)}

VARIABLES
    tasks,  \* what is stored under each ID
    now     \* the backend's clock

storeVars == <<tasks, now>>

(* Every ID names a task or nothing. *)
StoreTypeOK == tasks \in [Id -> Task \cup {NoTask}] /\ now \in Nat

StoreInit == tasks \in Initial /\ now = 0

(* The task an operation finds: the one of its ID, if it is in its queue. *)
FoundIn(i, q) == IF tasks[i] # NoTask /\ tasks[i].queue = q THEN tasks[i] ELSE NoTask

OpQueue(o) == IF "from" \in DOMAIN o THEN o.from ELSE o.queue

(* What a modification finds under each ID: an insert finds the ID         *)
(* wherever it is, every other operation only where it says it is.         *)
Found(mod) ==
    [i \in Id |-> IF \E o \in Ops(mod) \ mod.inserts : o.id = i
                  THEN FoundIn(i, OpQueue(CHOOSE o \in Ops(mod) \ mod.inserts : o.id = i))
                  ELSE tasks[i]]

(* The store once every operation has been carried out. *)
Applied(mod) ==
    [i \in Id |->
        IF i \in Ids(mod.deletes) THEN NoTask
        ELSE IF i \in Ids(Changes(mod))
        THEN Changed(mod.claimant, CHOOSE c \in Changes(mod) : c.id = i, tasks[i], now)
        ELSE IF i \in Ids(mod.inserts)
        THEN Inserted(mod.claimant, CHOOSE o \in mod.inserts : o.id = i, now)
        ELSE tasks[i]]

Modify(mod) ==
    /\ ~HasAny(DependencyError(mod, Found(mod), now))
    /\ tasks' = Applied(mod)
    /\ UNCHANGED now

TryClaim(claimant, q, duration) ==
    \E i \in Id :
        /\ tasks[i] # NoTask
        /\ tasks[i].queue = q
        /\ Available(tasks[i], now)
        /\ tasks[i].version < MaxVersion
        /\ tasks' = [tasks EXCEPT ![i] = Claimed(@, claimant, duration, now)]
        /\ UNCHANGED now

Tick == now < MaxNow /\ now' = now + 1 /\ UNCHANGED tasks

StoreNext ==
    \/ \E mod \in ValidRequests : Modify(mod)
    \/ \E c \in Claimant, q \in Queue, d \in Leases : TryClaim(c, q, d)
    \/ Tick

StoreSpec == StoreInit /\ [][StoreNext]_storeVars

-----------------------------------------------------------------------------

(* The claim count never runs ahead of the version: a claim moves both on, *)
(* and modifyImpl keeps or resets the count whenever it advances the       *)
(* version, so a version seen before a claim is stale after it.            *)
ClaimsCounted ==
    \A i \in Id : tasks[i] # NoTask => tasks[i].claims <= tasks[i].version

(* While a claim runs, only the claimant's own modifications change or     *)
(* remove the task: badChanges, badDeletes and the claim heap keep         *)
(* everyone else off it, even those who name its version.                  *)
OnlyHolderWrites ==
    [][\A i \in Id :
        tasks[i] # NoTask /\ Held(tasks[i], now) /\ tasks'[i] # tasks[i]
            => \E mod \in ValidRequests : mod.claimant = tasks[i].claimant /\ Modify(mod)]_storeVars

(* Every write of a stored task moves its version on by exactly one, so a  *)
(* version that someone was given is good for one write.                   *)
VersionAdvances ==
    [][\A i \in Id :
        tasks[i] # NoTask /\ tasks'[i] # NoTask /\ tasks'[i] # tasks[i]
            => tasks'[i].version = tasks[i].version + 1]_storeVars

(* A task with a claimant was claimed, or written with an arrival still to *)
(* come; one that was made available on purpose names no claimant, even    *)
(* after the clock moves on (the rule holder() states).                    *)
ReleasedIsNobodys ==
    [][\A i \in Id :
        tasks'[i] # NoTask /\ tasks'[i] # tasks[i] /\ Available(tasks'[i], now)
            => tasks'[i].claimant = NoOne]_storeVars
=============================================================================
