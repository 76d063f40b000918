--------------------------- MODULE HandoffProofs ---------------------------
(***************************************************************************)
(* What the store promises of tasks holds for any tasks, queues, clients,  *)
(* requests and leases; what workers and the handoff worker promise, for   *)
(* any number of tasks, workers, claims, attempts, faults and renewals;    *)
(* and a worker's retries of a failed renewal come in time, for every      *)
(* lease long enough for a retry delay of one tick.                        *)
(***************************************************************************)
EXTENDS Handoff, Renewal, TLAPS, FiniteSetTheorems

-----------------------------------------------------------------------------
(* The store. *)


(* An operation finds the stored task of its ID, or nothing. *)
LEMMA FoundIsStored ==
    ASSUME NEW mod, NEW i \in Id
    PROVE  Found(mod)[i] \in {tasks[i], NoTask}
  BY Zenon DEF Found, FoundIn

(* What is left of a request's types. *)
LEMMA ChangesTyped ==
    ASSUME NEW mod \in ValidRequests
    PROVE  Changes(mod) \subseteq Change
<1>1. mod \in Request
  BY RequestsAreRequests, Zenon DEF ValidRequests
<1>2. mod.changes \subseteq Change /\ mod.arrives \subseteq TaskArrival
  BY <1>1, Zenon DEF Request
<1>3. ASSUME NEW a \in TaskArrival PROVE ArrivalChange(a) \in Change
  <2>1. a.id \in Id /\ a.version \in Nat /\ a.queue \in Queue /\ a.by \in Int
    BY Zenon DEF TaskArrival
  <2> QED
    BY <2>1, Zenon DEF ArrivalChange, Change
<1> QED
  BY <1>2, <1>3, Zenon DEF Changes

(* A modification that goes through has found every task it changes, at    *)
(* the version it names, and unclaimed by others.                          *)
LEMMA ChangesMatch ==
    ASSUME StoreTypeOK, NEW mod \in ValidRequests, Modify(mod),
           NEW c \in Changes(mod)
    PROVE  /\ tasks[c.id] # NoTask
           /\ tasks[c.id].version = c.version
           /\ ~OtherwiseClaimed(mod.claimant, tasks[c.id], now)
<1>1. c.id \in Id
  BY ChangesTyped, Zenon DEF Change
<1> DEFINE found == Found(mod)
           missing == {o \in Changes(mod) : ~Matches(found[o.id], o.version)}
<1>2. missing = {}
  BY Zenon DEF Modify, HasAny, HasMissing, DependencyError, Ids
<1>3. ~OtherwiseClaimed(mod.claimant, found[c.id], now)
  BY <1>2, Zenon DEF Modify, HasAny, HasClaims, DependencyError, Ids
<1>4. found[c.id] = tasks[c.id] /\ tasks[c.id] # NoTask /\ tasks[c.id].version = c.version
  BY <1>1, <1>2, FoundIsStored DEF Matches
<1> QED
  BY <1>3, <1>4, Zenon

(* It has found every task it deletes, unclaimed by others, too. *)
LEMMA DeletesMatch ==
    ASSUME StoreTypeOK, NEW mod \in ValidRequests, Modify(mod),
           NEW d \in mod.deletes
    PROVE  /\ tasks[d.id] # NoTask
           /\ ~OtherwiseClaimed(mod.claimant, tasks[d.id], now)
<1>1. d.id \in Id
  BY RequestsAreRequests, Zenon DEF ValidRequests, Request, TaskID
<1> DEFINE found == Found(mod)
           missing == {o \in mod.deletes : ~Matches(found[o.id], o.version)}
<1>2. missing = {}
  BY Zenon DEF Modify, HasAny, HasMissing, DependencyError, Ids
<1>3. ~OtherwiseClaimed(mod.claimant, found[d.id], now)
  BY <1>2, Zenon DEF Modify, HasAny, HasClaims, DependencyError, Ids
<1>4. found[d.id] = tasks[d.id] /\ tasks[d.id] # NoTask
  BY <1>1, <1>2, FoundIsStored, Zenon DEF Matches
<1> QED
  BY <1>3, <1>4, Zenon

(* It has found nothing under the IDs it inserts. *)
LEMMA InsertsFree ==
    ASSUME StoreTypeOK, NEW mod \in ValidRequests, Modify(mod),
           NEW o \in mod.inserts
    PROVE  tasks[o.id] = NoTask
<1>1. o.id \in Id
  BY RequestsAreRequests, Zenon DEF ValidRequests, Request, Insert
<1>2. Found(mod)[o.id] = NoTask
  BY Zenon DEF Modify, HasAny, HasCollisions, DependencyError
<1>3. ~\E p \in Ops(mod) \ mod.inserts : p.id = o.id
  BY Zenon DEF ValidRequests, Valid, Ops
<1> QED
  BY <1>1, <1>2, <1>3, Zenon DEF Found

(* What a modification that goes through makes of the task of one ID. *)
LEMMA ModifyOne ==
    ASSUME StoreTypeOK, NEW mod \in ValidRequests, Modify(mod), NEW i \in Id
    PROVE  \/ tasks'[i] = tasks[i]
           \/ /\ i \in Ids(mod.deletes)
              /\ tasks'[i] = NoTask
           \/ \E c \in Changes(mod) :
                c.id = i /\ tasks'[i] = Changed(mod.claimant, c, tasks[i], now)
           \/ \E o \in mod.inserts :
                o.id = i /\ tasks'[i] = Inserted(mod.claimant, o, now)
<1>1. tasks' = Applied(mod)
  BY Zenon DEF Modify
<1>2. CASE i \in Ids(mod.deletes)
  BY <1>1, <1>2, Zenon DEF Applied
<1>3. CASE i \notin Ids(mod.deletes) /\ i \in Ids(Changes(mod))
  <2> DEFINE c == CHOOSE c \in Changes(mod) : c.id = i
  <2>1. c \in Changes(mod) /\ c.id = i
    BY <1>3, Zenon DEF Ids
  <2>2. tasks'[i] = Changed(mod.claimant, c, tasks[i], now)
    BY <1>1, <1>3, Zenon DEF Applied
  <2> QED
    BY <2>1, <2>2, Zenon
<1>4. CASE i \notin Ids(mod.deletes) /\ i \notin Ids(Changes(mod)) /\ i \in Ids(mod.inserts)
  <2> DEFINE o == CHOOSE o \in mod.inserts : o.id = i
  <2>1. o \in mod.inserts /\ o.id = i
    BY <1>4, Zenon DEF Ids
  <2>2. tasks'[i] = Inserted(mod.claimant, o, now)
    BY <1>1, <1>4, Zenon DEF Applied
  <2> QED
    BY <2>1, <2>2, Zenon
<1>5. CASE i \notin Ids(mod.deletes) /\ i \notin Ids(Changes(mod)) /\ i \notin Ids(mod.inserts)
  BY <1>1, <1>5, Zenon DEF Applied
<1> QED
  BY <1>2, <1>3, <1>4, <1>5, Zenon

(* What a claim makes of the task of one ID: it takes it if it is          *)
(* available, or leaves it alone.                                          *)
LEMMA ClaimOne ==
    ASSUME StoreTypeOK, NEW claimant \in Claimant, NEW q \in Queue, NEW d \in Leases,
           TryClaim(claimant, q, d), NEW i \in Id
    PROVE  \/ tasks'[i] = tasks[i]
           \/ /\ tasks[i] # NoTask
              /\ Available(tasks[i], now)
              /\ tasks'[i] = Claimed(tasks[i], claimant, d, now)
  BY Zenon DEF TryClaim, StoreTypeOK

(* Arrivals stay instants, and an arrival that is not to come is held by   *)
(* no one.                                                                 *)
LEMMA ArrivalTyped ==
    ASSUME NEW at \in Int, NEW n \in Nat
    PROVE  NormalizeArrival(at, n) \in Int
  BY WindowIsDuration DEF NormalizeArrival

(* What a change makes of a task is a task. *)
LEMMA ChangedTyped ==
    ASSUME NEW claimant \in Claimant, NEW c \in Change, NEW t \in Task, now \in Nat
    PROVE  /\ Changed(claimant, c, t, now) \in Task
           /\ Changed(claimant, c, t, now).version = c.version + 1
           /\ Changed(claimant, c, t, now).claims <= t.claims
           /\ Available(Changed(claimant, c, t, now), now)
                => Changed(claimant, c, t, now).claimant = NoOne
<1> DEFINE at == NormalizeArrival(now + c.by, now)
           claims == IF c.reset THEN 0 ELSE t.claims
<1>1. c.queue \in Queue /\ c.version \in Nat /\ c.by \in Int /\ t.claims \in Nat
  BY Zenon DEF Change, Task
<1>2. at \in Int
  BY <1>1, ArrivalTyped
<1>3. claims \in Nat /\ claims <= t.claims
  BY <1>1
<1>4. HolderOf(claimant, at, now) \in Claimant \cup {NoOne}
      /\ (at <= now => HolderOf(claimant, at, now) = NoOne)
  BY <1>2 DEF HolderOf
<1>5. Changed(claimant, c, t, now) =
        [queue |-> c.queue, version |-> c.version + 1, at |-> at,
         claimant |-> HolderOf(claimant, at, now), claims |-> claims]
  BY Zenon DEF Changed
<1> HIDE DEF at, claims
<1> QED
  BY <1>1, <1>2, <1>3, <1>4, <1>5 DEF Task, Available

(* What an insert makes is a task. *)
LEMMA InsertedTyped ==
    ASSUME NEW claimant \in Claimant, NEW o \in Insert, now \in Nat
    PROVE  /\ Inserted(claimant, o, now) \in Task
           /\ Inserted(claimant, o, now).claims = 0
           /\ Inserted(claimant, o, now).version = 0
           /\ Available(Inserted(claimant, o, now), now)
                => Inserted(claimant, o, now).claimant = NoOne
<1> DEFINE at == NormalizeArrival(now + o.by, now)
<1>1. o.queue \in Queue /\ o.by \in Int
  BY Zenon DEF Insert
<1>2. at \in Int
  BY <1>1, ArrivalTyped
<1>3. HolderOf(claimant, at, now) \in Claimant \cup {NoOne}
      /\ (at <= now => HolderOf(claimant, at, now) = NoOne)
  BY <1>2 DEF HolderOf
<1>4. Inserted(claimant, o, now) =
        [queue |-> o.queue, version |-> 0, at |-> at,
         claimant |-> HolderOf(claimant, at, now), claims |-> 0]
  BY Zenon DEF Inserted
<1> HIDE DEF at
<1> QED
  BY <1>1, <1>2, <1>3, <1>4 DEF Task, Available

(* What a claim makes of a task is a task. *)
LEMMA ClaimedTyped ==
    ASSUME NEW claimant \in Claimant, NEW d \in Leases, NEW t \in Task, now \in Nat
    PROVE  /\ Claimed(t, claimant, d, now) \in Task
           /\ Claimed(t, claimant, d, now).version = t.version + 1
           /\ Claimed(t, claimant, d, now).claims = t.claims + 1
           /\ ~Available(Claimed(t, claimant, d, now), now)
<1>1. d \in Nat /\ d > 0
  BY LeasesLast
<1>2. t.queue \in Queue /\ t.version \in Nat /\ t.claims \in Nat
  BY Zenon DEF Task
<1>3. Claimed(t, claimant, d, now) \in Task
  BY <1>1, <1>2 DEF Claimed, Task
<1>4. /\ Claimed(t, claimant, d, now).version = t.version + 1
      /\ Claimed(t, claimant, d, now).claims = t.claims + 1
      /\ Claimed(t, claimant, d, now).at = now + d
  BY Zenon DEF Claimed, Task
<1> QED
  BY <1>1, <1>3, <1>4 DEF Available

-----------------------------------------------------------------------------

(* What any write of a step may do to the task of one ID.  Every property  *)
(* of TaskStore follows from it.                                           *)
LEMMA WriteOne ==
    ASSUME StoreTypeOK, StoreNext, NEW i \in Id, tasks'[i] # tasks[i]
    PROVE  /\ tasks'[i] # NoTask =>
                /\ tasks'[i] \in Task
                /\ Available(tasks'[i], now) => tasks'[i].claimant = NoOne
                /\ tasks[i] = NoTask => tasks'[i].version = 0 /\ tasks'[i].claims = 0
                /\ tasks[i] # NoTask =>
                     /\ tasks'[i].version = tasks[i].version + 1
                     /\ tasks'[i].claims <= tasks[i].claims + 1
           /\ tasks[i] # NoTask /\ Held(tasks[i], now) =>
                \E mod \in ValidRequests : mod.claimant = tasks[i].claimant /\ Modify(mod)
<1>1. now \in Nat /\ tasks[i] \in Task \cup {NoTask}
  BY Zenon DEF StoreTypeOK
<1>2. CASE \E mod \in ValidRequests : Modify(mod)
  <2>1. PICK mod \in ValidRequests : Modify(mod)
    BY <1>2, Zenon
  <2>2. mod.claimant \in Claimant /\ mod.inserts \subseteq Insert
    BY RequestsAreRequests, Zenon DEF ValidRequests, Request
  <2>3. CASE i \in Ids(mod.deletes) /\ tasks'[i] = NoTask
    <3>1. PICK d \in mod.deletes : d.id = i
      BY <2>3, Zenon DEF Ids
    <3>2. ~OtherwiseClaimed(mod.claimant, tasks[i], now)
      BY <2>1, <3>1, DeletesMatch, Zenon
    <3> QED
      BY <2>1, <2>3, <3>2, Zenon DEF OtherwiseClaimed
  <2>4. CASE \E c \in Changes(mod) :
                c.id = i /\ tasks'[i] = Changed(mod.claimant, c, tasks[i], now)
    <3>1. PICK c \in Changes(mod) :
                c.id = i /\ tasks'[i] = Changed(mod.claimant, c, tasks[i], now)
      BY <2>4, Zenon
    <3>2. /\ tasks[i] # NoTask /\ tasks[i].version = c.version
          /\ ~OtherwiseClaimed(mod.claimant, tasks[i], now)
      BY <2>1, <3>1, ChangesMatch, Zenon
    <3>3. c \in Change /\ tasks[i] \in Task
      BY <1>1, <3>2, ChangesTyped, Zenon
    <3>4. /\ tasks'[i] \in Task /\ tasks'[i].version = tasks[i].version + 1
          /\ tasks'[i].claims <= tasks[i].claims
          /\ Available(tasks'[i], now) => tasks'[i].claimant = NoOne
      BY <1>1, <2>2, <3>1, <3>2, <3>3, ChangedTyped
    <3>5. tasks'[i].claims <= tasks[i].claims + 1
      BY <3>3, <3>4 DEF Task
    <3> QED
      BY <2>1, <3>2, <3>4, <3>5, Zenon DEF OtherwiseClaimed
  <2>5. CASE \E o \in mod.inserts :
                o.id = i /\ tasks'[i] = Inserted(mod.claimant, o, now)
    <3>1. PICK o \in mod.inserts : o.id = i /\ tasks'[i] = Inserted(mod.claimant, o, now)
      BY <2>5, Zenon
    <3>2. tasks[i] = NoTask
      BY <2>1, <3>1, InsertsFree, Zenon
    <3> QED
      BY <1>1, <2>2, <3>1, <3>2, InsertedTyped, Zenon
  <2> QED
    BY <2>1, <2>3, <2>4, <2>5, ModifyOne, Zenon
<1>3. CASE \E c \in Claimant, q \in Queue, d \in Leases : TryClaim(c, q, d)
  <2>1. PICK c \in Claimant, q \in Queue, d \in Leases : TryClaim(c, q, d)
    BY <1>3, Zenon
  <2>2. /\ tasks[i] # NoTask /\ Available(tasks[i], now)
        /\ tasks'[i] = Claimed(tasks[i], c, d, now)
    BY <2>1, ClaimOne, Zenon
  <2>3. ~Held(tasks[i], now)
    BY <1>1, <2>2 DEF Available, Held, Task
  <2>4. /\ tasks'[i] \in Task /\ tasks'[i].version = tasks[i].version + 1
        /\ tasks'[i].claims = tasks[i].claims + 1 /\ ~Available(tasks'[i], now)
    BY <1>1, <2>2, ClaimedTyped
  <2>5. tasks'[i].claims <= tasks[i].claims + 1
    BY <1>1, <2>2, <2>4 DEF Task
  <2> QED
    BY <2>2, <2>3, <2>4, <2>5, Zenon
<1>4. CASE Tick
  BY <1>4, Zenon DEF Tick
<1> QED
  BY <1>2, <1>3, <1>4, Zenon DEF StoreNext

(* Each step leaves the store a function on the IDs and the clock a number. *)
LEMMA StepShape ==
    ASSUME StoreTypeOK, StoreNext
    PROVE  tasks' = [i \in Id |-> tasks'[i]] /\ now' \in Nat
<1>1. ASSUME NEW mod \in ValidRequests, Modify(mod)
      PROVE  tasks' = [i \in Id |-> tasks'[i]] /\ now' \in Nat
  BY <1>1 DEF Modify, Applied, StoreTypeOK
<1>2. ASSUME NEW c \in Claimant, NEW q \in Queue, NEW d \in Leases, TryClaim(c, q, d)
      PROVE  tasks' = [i \in Id |-> tasks'[i]] /\ now' \in Nat
  BY <1>2, Zenon DEF TryClaim, StoreTypeOK
<1>3. ASSUME Tick PROVE tasks' = [i \in Id |-> tasks'[i]] /\ now' \in Nat
  BY <1>3 DEF Tick, StoreTypeOK
<1> QED
  BY <1>1, <1>2, <1>3, Zenon DEF StoreNext

(* Every ID always names a task, of the right type, or nothing. *)
THEOREM StoreTyped == StoreSpec => []StoreTypeOK
<1>1. StoreInit => StoreTypeOK
  BY InitialIsStore DEF StoreInit, StoreTypeOK
<1>2. StoreTypeOK /\ [StoreNext]_storeVars => StoreTypeOK'
  <2> SUFFICES ASSUME StoreTypeOK, [StoreNext]_storeVars PROVE StoreTypeOK'
    BY Zenon
  <2>1. CASE StoreNext
    <3>1. \A i \in Id : tasks'[i] \in Task \cup {NoTask}
      BY <2>1, WriteOne, Zenon DEF StoreTypeOK
    <3> QED
      BY <2>1, <3>1, StepShape, Zenon DEF StoreTypeOK
  <2>2. CASE UNCHANGED storeVars
    BY <2>2, Zenon DEF storeVars, StoreTypeOK
  <2> QED
    BY <2>1, <2>2, Zenon
<1> QED
  BY <1>1, <1>2, PTL DEF StoreSpec

(* The claim count of a task never runs ahead of its version, whatever is  *)
(* claimed, changed, reset, deleted and inserted again.                    *)
THEOREM ClaimsAreCounted == StoreSpec => []ClaimsCounted
<1>1. StoreInit => ClaimsCounted
  BY InitialIsStore, Zenon DEF StoreInit, ClaimsCounted
<1>2. StoreTypeOK /\ StoreTypeOK' /\ ClaimsCounted /\ [StoreNext]_storeVars => ClaimsCounted'
  <2> SUFFICES ASSUME StoreTypeOK, StoreTypeOK', ClaimsCounted, [StoreNext]_storeVars,
                      NEW i \in Id, tasks'[i] # NoTask
               PROVE  tasks'[i].claims <= tasks'[i].version
    BY Zenon DEF ClaimsCounted
  <2>1. CASE tasks'[i] = tasks[i]
    BY <2>1, Zenon DEF ClaimsCounted
  <2>2. CASE tasks'[i] # tasks[i]
    <3>1. StoreNext
      BY <2>2, Zenon DEF storeVars
    <3>2. tasks'[i] \in Task /\ (tasks[i] # NoTask => tasks[i] \in Task)
      BY Zenon DEF StoreTypeOK
    <3>3. CASE tasks[i] = NoTask
      <4>1. tasks'[i].version = 0 /\ tasks'[i].claims = 0
        BY <2>2, <3>1, <3>3, WriteOne, Zenon
      <4> QED
        BY <4>1
    <3>4. CASE tasks[i] # NoTask
      <4>1. /\ tasks'[i].version = tasks[i].version + 1
            /\ tasks'[i].claims <= tasks[i].claims + 1
        BY <2>2, <3>1, <3>4, WriteOne, Zenon
      <4>2. tasks[i].claims <= tasks[i].version
        BY <3>4, Zenon DEF ClaimsCounted
      <4>3. /\ tasks[i].claims \in Nat /\ tasks[i].version \in Nat
            /\ tasks'[i].claims \in Nat
        BY <3>2, <3>4, Zenon DEF Task
      <4> QED
        BY <4>1, <4>2, <4>3
    <3> QED
      BY <3>3, <3>4, Zenon
  <2> QED
    BY <2>1, <2>2, Zenon
<1> QED
  BY <1>1, <1>2, StoreTyped, PTL DEF StoreSpec

(* While a claim runs, nobody but its claimant writes the task. *)
THEOREM HolderAloneWrites == StoreSpec => OnlyHolderWrites
<1>1. StoreTypeOK /\ [StoreNext]_storeVars =>
        [\A i \in Id :
            tasks[i] # NoTask /\ Held(tasks[i], now) /\ tasks'[i] # tasks[i]
                => \E mod \in ValidRequests :
                        mod.claimant = tasks[i].claimant /\ Modify(mod)]_storeVars
  BY WriteOne, Zenon
<1> QED
  BY <1>1, StoreTyped, PTL DEF StoreSpec, OnlyHolderWrites

(* A version is good for one write: whoever writes a task that is stored,  *)
(* by a change or by a claim, moves its version on by one.                 *)
THEOREM VersionsAdvance == StoreSpec => VersionAdvances
<1>1. StoreTypeOK /\ [StoreNext]_storeVars =>
        [\A i \in Id :
            tasks[i] # NoTask /\ tasks'[i] # NoTask /\ tasks'[i] # tasks[i]
                => tasks'[i].version = tasks[i].version + 1]_storeVars
  BY WriteOne, Zenon
<1> QED
  BY <1>1, StoreTyped, PTL DEF StoreSpec, VersionAdvances

(* A write that leaves a task available leaves it with no claimant. *)
THEOREM ReleaseLeavesNoHolder == StoreSpec => ReleasedIsNobodys
<1>1. StoreTypeOK /\ [StoreNext]_storeVars =>
        [\A i \in Id :
            tasks'[i] # NoTask /\ tasks'[i] # tasks[i] /\ Available(tasks'[i], now)
                => tasks'[i].claimant = NoOne]_storeVars
  BY WriteOne, Zenon
<1> QED
  BY <1>1, StoreTyped, PTL DEF StoreSpec, ReleasedIsNobodys

-----------------------------------------------------------------------------
(* Workers and the handoff worker. *)


Busy == {"claimed", "working", "dispose"}
Job == [id : Id, task : Task, attempt : Nat]

(* A worker's version of its task is current only if the worker was the    *)
(* last to claim it.                                                       *)
Known(w) ==
    LET t == tasks[cur[w].id]
    IN  t # NoTask => /\ cur[w].task.version <= t.version
                      /\ cur[w].task.version = t.version => owner[cur[w].id] = w

WorkerInv ==
    /\ StoreTypeOK
    /\ attempt \in [Id -> Nat]
    /\ wpc \in [Worker -> Busy \cup {"idle", "stopped"}]
    /\ cur \in [Worker -> Job \cup {None}]
    /\ result \in [Worker -> Results]
    /\ owner \in [Id -> Worker \cup {NoOne}]
    /\ \A w \in Worker : wpc[w] \in Busy => cur[w] \in Job /\ Known(w)

Arrived == {"delivered", "collision"}

(* A task is gone only after a delivery, and a delivered task whose        *)
(* tombstone is gone is itself gone, unless the tombstone was collected    *)
(* early: that is what makes a second delivery a late one.                 *)
DeliveryInv ==
    /\ copies \in [Id -> Nat]
    /\ tomb \in [Id -> [by : Worker \cup {NoOne}, due : BOOLEAN]]
    /\ \A d \in astray : d.id \in Id /\ d.by \in Worker
    /\ late \in [Id -> BOOLEAN] /\ early \in [Id -> BOOLEAN]
    /\ \A i \in Id :
        /\ tomb[i] # NoTomb \/ tasks[i] = NoTask => copies[i] > 0
        /\ copies[i] > 0 /\ tomb[i] = NoTomb => tasks[i] = NoTask \/ early[i]
        /\ copies[i] > 1 => late[i] \/ early[i]
    /\ after \in [Worker -> SUBSET Id]
    /\ \A w \in Worker : \A i \in after[w] : tasks[i] = NoTask

(* The task a worker is to delete has been delivered. *)
AnswerInv(w) ==
    /\ answer[w] \in Arrived => wpc[w] \in {"working", "dispose"} /\ copies[cur[w].id] > 0
    /\ wpc[w] = "dispose" => (result[w] = "delete" <=> answer[w] \in Arrived)

HandoffInv ==
    /\ DeliveryInv
    /\ answer \in [Worker -> {"none", "error"} \cup Arrived]
    /\ \A w \in Worker : AnswerInv(w)

HandoffIInv == WorkerInv /\ (handler = "handoff" => HandoffInv)

(* A worker that knows the current version of its task knows its queue and *)
(* its attempt.                                                            *)
Current(w) ==
    LET t == tasks[cur[w].id]
    IN  /\ cur[w].task.queue = Inbox
        /\ t # NoTask /\ cur[w].task.version = t.version =>
                t.queue = Inbox /\ attempt[cur[w].id] = cur[w].attempt

(* The workers that may still give a task to their handlers. *)
ToRun(i) == {w \in Worker : wpc[w] = "claimed" /\ cur[w].id = i /\ ~OverLimit(w)}

(* A task was given to handlers, or is about to be, at most MaxClaims      *)
(* times for each attempt, and once at most for each claim of the last.    *)
RunsCounted(i) ==
    LET n == runs[i] + Cardinality(ToRun(i))
    IN  /\ IsFiniteSet(ToRun(i))
        /\ n <= MaxClaims * MaxAttempts
        /\ tasks[i] # NoTask /\ tasks[i].queue = Inbox =>
                /\ attempt[i] < MaxAttempts
                /\ n <= MaxClaims * attempt[i] + tasks[i].claims
                /\ n <= MaxClaims * attempt[i] + MaxClaims

WorkCounted ==
    /\ runs \in [Id -> Nat]
    /\ \A w \in Worker : wpc[w] \in Busy => Current(w)
    /\ \A i \in Id : RunsCounted(i)

WorkInv == WorkerInv /\ WorkCounted

(* A worker's modification of its task has gone through: it found the task *)
(* at the version the worker knows, and no other task changed.             *)
Wrote(w) ==
    LET i == cur[w].id
    IN  /\ now' = now
        /\ tasks' \in [Id -> Task \cup {NoTask}]
        /\ \A j \in Id : j # i => tasks'[j] = tasks[j]
        /\ tasks[i] # NoTask
        /\ tasks[i].version = cur[w].task.version
        /\ tasks'[i] # NoTask => tasks'[i].version = tasks[i].version + 1

-----------------------------------------------------------------------------
(* What a worker's modification does. *)

(* An operation of a modification that goes through has found its task. *)
LEMMA OpMatched ==
    ASSUME NEW mod, Modify(mod), NEW o \in mod.deletes \cup Changes(mod), o.id \in Id
    PROVE  tasks[o.id] # NoTask /\ tasks[o.id].version = o.version
<1> DEFINE found == Found(mod)
           missing(ops) == {p \in ops : ~Matches(found[p.id], p.version)}
<1>1. missing(mod.deletes) = {} /\ missing(Changes(mod)) = {}
  BY Zenon DEF Modify, HasAny, HasMissing, DependencyError, Ids
<1>2. Matches(found[o.id], o.version)
  BY <1>1, Zenon
<1> QED
  BY <1>2, FoundIsStored, Zenon DEF Matches

(* A modification that leaves a task or nothing under each ID leaves a store. *)
LEMMA AppliedIsStore ==
    ASSUME NEW mod, Modify(mod), \A j \in Id : tasks'[j] \in Task \cup {NoTask}
    PROVE  tasks' \in [Id -> Task \cup {NoTask}]
<1>1. DOMAIN tasks' = Id /\ tasks' = [j \in Id |-> tasks'[j]]
  BY DEF Modify, Applied
<1> QED
  BY <1>1, Zenon

(* A deletion leaves nothing under its ID. *)
LEMMA DeletionWrites ==
    ASSUME WorkerInv, NEW w \in Worker, wpc[w] \in Busy, Modify(Deletion(w))
    PROVE  Wrote(w) /\ tasks'[cur[w].id] = NoTask
<1> DEFINE i == cur[w].id
           mod == Deletion(w)
           o == [id |-> i, version |-> cur[w].task.version, queue |-> cur[w].task.queue]
<1>1. i \in Id /\ cur[w].task \in Task
  BY Zenon DEF WorkerInv, Job
<1>2. mod.deletes = {o} /\ mod.inserts = {} /\ Changes(mod) = {}
  BY Zenon DEF Deletion, Nothing, Changes
<1>3. Ids(mod.deletes) = {i} /\ Ids(Changes(mod)) = {} /\ Ids(mod.inserts) = {}
  BY <1>2 DEF Ids
<1>4. tasks' = Applied(mod) /\ now' = now
  BY Zenon DEF Modify
<1>5. tasks'[i] = NoTask /\ \A j \in Id : j # i => tasks'[j] = tasks[j]
  BY <1>1, <1>3, <1>4, Zenon DEF Applied
<1>6. tasks' \in [Id -> Task \cup {NoTask}]
  <2>1. \A j \in Id : tasks'[j] \in Task \cup {NoTask}
    BY <1>5, Zenon DEF WorkerInv, StoreTypeOK
  <2> QED
    BY <2>1, AppliedIsStore, Zenon
<1>7. tasks[i] # NoTask /\ tasks[i].version = cur[w].task.version
  <2>1. o \in mod.deletes \cup Changes(mod) /\ o.id = i /\ o.version = cur[w].task.version
    BY <1>2, Zenon
  <2> HIDE DEF mod, o
  <2> QED
    BY <1>1, <2>1, OpMatched, Zenon DEF mod
<1> QED
  BY <1>4, <1>5, <1>6, <1>7, Zenon DEF Wrote

(* A modification that is one change of the task in hand moves it on. *)
LEMMA ChangeWrites ==
    ASSUME WorkerInv, NEW w \in Worker, wpc[w] \in Busy,
           NEW mod, NEW c \in Change,
           mod.claimant = w, mod.inserts = {}, mod.deletes = {}, Changes(mod) = {c},
           c.id = cur[w].id, c.version = cur[w].task.version, Modify(mod)
    PROVE  /\ Wrote(w) /\ tasks'[cur[w].id] \in Task
           /\ tasks'[cur[w].id].queue = c.queue
           /\ tasks'[cur[w].id].claims = IF c.reset THEN 0 ELSE tasks[cur[w].id].claims
<1> DEFINE i == cur[w].id
<1>1. i \in Id /\ cur[w].task \in Task
  BY Zenon DEF WorkerInv, Job
<1>2. Ids(mod.deletes) = {} /\ Ids(Changes(mod)) = {i} /\ Ids(mod.inserts) = {}
  BY Zenon DEF Ids
<1>3. tasks' = Applied(mod) /\ now' = now
  BY Zenon DEF Modify
<1>4. (CHOOSE d \in Changes(mod) : d.id = i) = c
  BY Zenon
<1>5. tasks'[i] = Changed(w, c, tasks[i], now) /\ \A j \in Id : j # i => tasks'[j] = tasks[j]
  BY <1>1, <1>2, <1>3, <1>4, Zenon DEF Applied
<1>6. tasks[i] # NoTask /\ tasks[i].version = cur[w].task.version
  BY <1>1, OpMatched
<1>7. tasks[i] \in Task /\ now \in Nat
  BY <1>1, <1>6, Zenon DEF WorkerInv, StoreTypeOK
<1>8. tasks'[i] \in Task /\ tasks'[i].version = tasks[i].version + 1
  BY <1>5, <1>6, <1>7, ChangedTyped DEF Worker
<1>9. tasks' \in [Id -> Task \cup {NoTask}]
  <2>1. \A j \in Id : tasks'[j] \in Task \cup {NoTask}
    BY <1>5, <1>8, Zenon DEF WorkerInv, StoreTypeOK
  <2> QED
    BY <2>1, AppliedIsStore, Zenon
<1>10. /\ tasks'[i].queue = c.queue
       /\ tasks'[i].claims = IF c.reset THEN 0 ELSE tasks[i].claims
  BY <1>5 DEF Changed
<1> QED
  BY <1>3, <1>5, <1>6, <1>8, <1>9, <1>10, Zenon DEF Wrote

(* So does a renewal or a release, which is an arrival. *)
LEMMA ArrivalWrites ==
    ASSUME WorkerInv, NEW w \in Worker, wpc[w] \in Busy, NEW by \in Int, Modify(Arrival(w, by))
    PROVE  /\ Wrote(w) /\ tasks'[cur[w].id] \in Task
           /\ tasks'[cur[w].id].queue = cur[w].task.queue
           /\ tasks'[cur[w].id].claims = tasks[cur[w].id].claims
<1> DEFINE i == cur[w].id
           t == cur[w].task
           c == [id |-> i, version |-> t.version, from |-> t.queue, queue |-> t.queue, by |-> by,
                 reset |-> FALSE]
           mod == Arrival(w, by)
<1>1. i \in Id /\ t.version \in Nat /\ t.queue \in Queue
  BY Zenon DEF WorkerInv, Job, Task
<1>2. c \in Change
  BY <1>1, Zenon DEF Change
<1>3. mod.claimant = w /\ mod.inserts = {} /\ mod.deletes = {}
  BY Zenon DEF Arrival, Nothing
<1>4. Changes(mod) = {c}
  BY DEF Arrival, Nothing, Changes, ArrivalChange
<1>5. c.id = i /\ c.version = t.version /\ c.queue = t.queue /\ c.reset = FALSE
  BY Zenon
<1> HIDE DEF c, mod
<1> QED
  BY <1>2, <1>3, <1>4, <1>5, ChangeWrites, Zenon DEF mod

(* And a retry, a move or a hand-over, which is a change. *)
LEMMA MoveWrites ==
    ASSUME WorkerInv, NEW w \in Worker, wpc[w] \in Busy, NEW q \in Queue, NEW by \in Int,
           Modify(ChangeTo(w, q, by))
    PROVE  Wrote(w) /\ tasks'[cur[w].id] \in Task /\ tasks'[cur[w].id].queue = q
<1> DEFINE i == cur[w].id
           t == cur[w].task
           c == [id |-> i, version |-> t.version, from |-> t.queue, queue |-> q, by |-> by,
                 reset |-> TRUE]
           mod == ChangeTo(w, q, by)
<1>1. i \in Id /\ t.version \in Nat /\ t.queue \in Queue
  BY Zenon DEF WorkerInv, Job, Task
<1>2. c \in Change
  BY <1>1, Zenon DEF Change
<1>3. mod.claimant = w /\ mod.inserts = {} /\ mod.deletes = {}
  BY Zenon DEF ChangeTo, Nothing
<1>4. Changes(mod) = {c}
  BY Zenon DEF ChangeTo, Nothing, Changes
<1>5. c.id = i /\ c.version = t.version /\ c.queue = q
  BY Zenon
<1> HIDE DEF c, mod
<1> QED
  BY <1>2, <1>3, <1>4, <1>5, ChangeWrites, Zenon DEF mod

(* What a disposition does: it deletes the task, or changes it. *)
LEMMA DispositionWrites ==
    ASSUME WorkerInv, NEW w \in Worker, wpc[w] \in Busy, Modify(Disposition(w))
    PROVE  /\ Wrote(w)
           /\ IF result[w] = "delete" THEN tasks'[cur[w].id] = NoTask
                                      ELSE tasks'[cur[w].id] \in Task
<1>1. CASE result[w] = "delete"
  <2>1. Disposition(w) = Deletion(w)
    BY <1>1, Zenon DEF Disposition
  <2> QED
    BY <1>1, <2>1, DeletionWrites, Zenon
<1>2. CASE result[w] # "delete"
  <2>1. cur[w].task.queue \in Queue
    BY Zenon DEF WorkerInv, Job, Task
  <2>2. \/ Disposition(w) = Arrival(w, 0)
        \/ \E q \in Queue, by \in Int : Disposition(w) = ChangeTo(w, q, by)
    BY <1>2, <2>1, QueuesAreQueues DEF Disposition, RetryOrQuarantine, Held1
  <2> QED
    BY <1>2, <2>2, ArrivalWrites, MoveWrites
<1> QED
  BY <1>1, <1>2, Zenon

(* A result takes effect only where its worker is the last claimant. *)
LEMMA DisposeIsOwners ==
    ASSUME WorkerInv, NEW w \in Worker, Dispose(w), tasks' # tasks
    PROVE  owner[cur[w].id] = w
<1>1. wpc[w] \in Busy /\ Modify(Disposition(w))
  BY Zenon DEF Dispose, Busy, storeVars
<1>2. Wrote(w)
  BY <1>1, DispositionWrites, Zenon
<1> QED
  BY <1>1, <1>2, Zenon DEF Wrote, WorkerInv, Known, Job, Task

-----------------------------------------------------------------------------
(* The steps of a worker, by what they do to what is known. *)

(* The store is as it was, and no worker has come to hold a task. *)
LEMMA NothingNew ==
    ASSUME WorkerInv, wpc' \in [Worker -> Busy \cup {"idle", "stopped"}],
           \A v \in Worker : wpc'[v] \in Busy => wpc[v] \in Busy,
           result' \in [Worker -> Results], UNCHANGED <<tasks, now, attempt, owner, cur>>
    PROVE  WorkerInv'
  BY Zenon DEF WorkerInv, Known, StoreTypeOK

(* What the others know stays so when a worker writes. *)
LEMMA WrittenKnown ==
    ASSUME WorkerInv, NEW w \in Worker, wpc[w] \in Busy, Wrote(w), owner' = owner,
           NEW v \in Worker, v # w, wpc[v] \in Busy, cur'[v] = cur[v]
    PROVE  Known(v)'
<1>1. cur[v] \in Job /\ Known(v) /\ cur[w] \in Job /\ Known(w)
  BY Zenon DEF WorkerInv
<1>2. cur[v].id \in Id /\ cur[w].id \in Id /\ cur[v].task.version \in Nat
  BY <1>1, Zenon DEF Job, Task
<1>3. CASE cur[v].id # cur[w].id
  BY <1>1, <1>2, <1>3, Zenon DEF Wrote, Known
<1>4. CASE cur[v].id = cur[w].id
  <2>1. tasks[cur[v].id] # NoTask /\ tasks[cur[v].id].version \in Nat
    BY <1>2, <1>4, Zenon DEF Wrote, WorkerInv, StoreTypeOK, Task
  <2>2. cur[v].task.version <= tasks[cur[v].id].version
    BY <1>1, <2>1, Zenon DEF Known
  <2> QED
    BY <1>2, <1>4, <2>1, <2>2 DEF Wrote, Known
<1> QED
  BY <1>3, <1>4, Zenon

(* A worker lets go of its task, having written it or not. *)
LEMMA EndsKeeps ==
    ASSUME WorkerInv, NEW w \in Worker, NEW to \in {"idle", "stopped"}, Ends(w, to),
           UNCHANGED <<tasks, now>> \/ (wpc[w] \in Busy /\ Wrote(w)),
           attempt' \in [Id -> Nat], owner' = owner
    PROVE  WorkerInv'
<1>1. StoreTypeOK'
  BY Zenon DEF WorkerInv, StoreTypeOK, Wrote
<1>2. wpc' \in [Worker -> Busy \cup {"idle", "stopped"}] /\ cur' \in [Worker -> Job \cup {None}]
  BY Zenon DEF WorkerInv, Ends, Goes
<1>3. result' \in [Worker -> Results]
  BY Zenon DEF WorkerInv, Ends, Results, Commits
<1>4. owner' \in [Id -> Worker \cup {NoOne}]
  BY Zenon DEF WorkerInv
<1>5. ASSUME NEW v \in Worker, wpc'[v] \in Busy PROVE cur'[v] \in Job /\ Known(v)'
  <2>1. v # w /\ wpc[v] = wpc'[v] /\ cur'[v] = cur[v]
    BY <1>5, Zenon DEF WorkerInv, Ends, Goes, Busy
  <2>2. cur[v] \in Job /\ Known(v)
    BY <1>5, <2>1, Zenon DEF WorkerInv
  <2>3. CASE UNCHANGED <<tasks, now>>
    BY <2>1, <2>2, <2>3, Zenon DEF Known
  <2>4. CASE wpc[w] \in Busy /\ Wrote(w)
    BY <1>5, <2>1, <2>2, <2>4, WrittenKnown, Zenon
  <2> QED
    BY <2>1, <2>2, <2>3, <2>4, Zenon
<1> QED
  BY <1>1, <1>2, <1>3, <1>4, <1>5, Zenon DEF WorkerInv

(* Through lets go of the task. *)
LEMMA ThroughEnds ==
    ASSUME NEW w \in Worker, NEW mayStop, Through(w, mayStop)
    PROVE  \E to \in {"idle", "stopped"} : Ends(w, to)
  BY Zenon DEF Through

(* A claim: what it does to the store, and that it keeps what is known. *)
LEMMA ClaimTakes ==
    ASSUME WorkerInv, NEW w \in Worker, Claim(w)
    PROVE  \E i \in Id :
              /\ tasks[i] # NoTask
              /\ tasks'[i] \in Task
              /\ tasks'[i].version = tasks[i].version + 1
              /\ tasks[i].queue = Inbox /\ tasks'[i].queue = Inbox
              /\ tasks'[i].claims = tasks[i].claims + 1
              /\ tasks' \in [Id -> Task \cup {NoTask}]
              /\ \A j \in Id : j # i => tasks'[j] = tasks[j]
              /\ now' = now
              /\ owner' = [owner EXCEPT ![i] = w]
              /\ \/ /\ Goes(w, "claimed")
                    /\ cur' = [cur EXCEPT ![w] = [id |-> i, task |-> tasks'[i],
                                                  attempt |-> attempt[i]]]
                    /\ UNCHANGED result
                 \/ Ends(w, "stopped")
<1>1. PICK i \in Id :
        /\ TryClaim(w, Inbox, Held1)
        /\ tasks'[i] # tasks[i]
        /\ owner' = [owner EXCEPT ![i] = w]
        /\ \/ /\ Goes(w, "claimed")
              /\ cur' = [cur EXCEPT ![w] = [id |-> i, task |-> tasks'[i],
                                            attempt |-> attempt[i]]]
              /\ UNCHANGED result
           \/ Ends(w, "stopped")
  BY Zenon DEF Claim
<1>2. PICK k \in Id :
        /\ tasks[k] # NoTask /\ tasks[k].queue = Inbox
        /\ tasks' = [tasks EXCEPT ![k] = Claimed(@, w, Held1, now)]
        /\ now' = now
  BY <1>1, Zenon DEF TryClaim
<1>3. k = i
  BY <1>1, <1>2, Zenon DEF WorkerInv, StoreTypeOK
<1>4. tasks[i] \in Task /\ now \in Nat
  BY <1>2, <1>3, Zenon DEF WorkerInv, StoreTypeOK
<1>5. tasks'[i] = Claimed(tasks[i], w, Held1, now)
  BY <1>2, <1>3, Zenon DEF WorkerInv, StoreTypeOK
<1>6. tasks'[i] \in Task /\ tasks'[i].version = tasks[i].version + 1
  BY <1>4, <1>5 DEF Claimed, Task, Worker, Held1
<1>7. tasks' \in [Id -> Task \cup {NoTask}] /\ \A j \in Id : j # i => tasks'[j] = tasks[j]
  BY <1>2, <1>3, <1>5, <1>6, Zenon DEF WorkerInv, StoreTypeOK
<1>8. tasks[i].queue = Inbox /\ tasks'[i].queue = Inbox /\ tasks'[i].claims = tasks[i].claims + 1
  BY <1>2, <1>3, <1>5 DEF Claimed
<1> QED
  BY <1>1, <1>2, <1>3, <1>6, <1>7, <1>8, Zenon

(* A claim gives its worker the version and makes it the owner. *)
LEMMA ClaimKeeps ==
    ASSUME WorkerInv, NEW w \in Worker, Claim(w)
    PROVE  WorkerInv'
<1>1. PICK i \in Id :
        /\ tasks[i] # NoTask
        /\ tasks'[i] \in Task
        /\ tasks'[i].version = tasks[i].version + 1
        /\ tasks' \in [Id -> Task \cup {NoTask}]
        /\ \A j \in Id : j # i => tasks'[j] = tasks[j]
        /\ now' = now
        /\ owner' = [owner EXCEPT ![i] = w]
        /\ \/ /\ Goes(w, "claimed")
              /\ cur' = [cur EXCEPT ![w] = [id |-> i, task |-> tasks'[i],
                                            attempt |-> attempt[i]]]
              /\ UNCHANGED result
           \/ Ends(w, "stopped")
  BY ClaimTakes, Zenon
<1>2. StoreTypeOK' /\ attempt' \in [Id -> Nat] /\ attempt' = attempt
  BY <1>1, Zenon DEF WorkerInv, StoreTypeOK, Claim
<1>3. owner' \in [Id -> Worker \cup {NoOne}]
  BY <1>1, Zenon DEF WorkerInv
<1>4. result' \in [Worker -> Results]
  BY <1>1, Zenon DEF WorkerInv, Ends, Results, Commits
<1>5. [id |-> i, task |-> tasks'[i], attempt |-> attempt[i]] \in Job
  BY <1>1, Zenon DEF Job, WorkerInv
<1>6. wpc' \in [Worker -> Busy \cup {"idle", "stopped"}] /\ cur' \in [Worker -> Job \cup {None}]
  BY <1>1, <1>5 DEF WorkerInv, Ends, Goes, Busy
<1>7. ASSUME NEW v \in Worker, wpc'[v] \in Busy PROVE cur'[v] \in Job /\ Known(v)'
  <2>1. CASE v = w
    <3>1. cur'[v] = [id |-> i, task |-> tasks'[i], attempt |-> attempt[i]]
      BY <1>1, <1>7, <2>1, Zenon DEF WorkerInv, Ends, Goes, Busy
    <3>2. owner'[i] = w
      BY <1>1, Zenon DEF WorkerInv
    <3> QED
      BY <1>1, <1>5, <2>1, <3>1, <3>2 DEF Known, Task
  <2>2. CASE v # w
    <3>1. wpc[v] = wpc'[v] /\ cur'[v] = cur[v]
      BY <1>1, <2>2, Zenon DEF WorkerInv, Ends, Goes
    <3>2. cur[v] \in Job /\ Known(v)
      BY <1>7, <3>1, Zenon DEF WorkerInv
    <3>3. cur[v].id \in Id /\ cur[v].task.version \in Nat
      BY <3>2, Zenon DEF Job, Task
    <3>4. CASE cur[v].id # i
      <4>1. tasks'[cur[v].id] = tasks[cur[v].id] /\ owner'[cur[v].id] = owner[cur[v].id]
        BY <1>1, <3>3, <3>4, Zenon DEF WorkerInv
      <4> QED
        BY <3>1, <3>2, <4>1, Zenon DEF Known
    <3>5. CASE cur[v].id = i
      <4>1. tasks[i] \in Task
        BY <1>1, Zenon DEF WorkerInv, StoreTypeOK
      <4>2. tasks[i].version \in Nat /\ cur[v].task.version <= tasks[i].version
        BY <1>1, <3>2, <3>5, <4>1, Zenon DEF Known, Task
      <4>3. tasks'[i].version = tasks[i].version + 1 /\ cur'[v] = cur[v]
        BY <1>1, <3>1, Zenon
      <4>4. /\ cur'[v].task.version <= tasks'[i].version
            /\ cur'[v].task.version # tasks'[i].version
        BY <3>3, <4>2, <4>3
      <4> QED
        BY <3>2, <3>3, <3>5, <4>3, <4>4, Zenon DEF Known
    <3> QED
      BY <3>4, <3>5, Zenon
  <2> QED
    BY <2>1, <2>2, Zenon
<1> QED
  BY <1>2, <1>3, <1>4, <1>6, <1>7, SMTT(30) DEF WorkerInv

(* A renewal moves the version on, whether the worker learns of it or not. *)
LEMMA RenewKeeps ==
    ASSUME WorkerInv, NEW w \in Worker, Renew(w)
    PROVE  WorkerInv'
<1> DEFINE mod == Arrival(w, Held1)
<1>1. /\ wpc[w] \in Busy
      /\ wpc' = wpc /\ result' = result /\ attempt' = attempt /\ owner' = owner
  BY Zenon DEF Renew, Busy
<1>2. CASE UNCHANGED <<tasks, now, cur>>
  BY <1>1, <1>2, NothingNew, Zenon DEF WorkerInv
<1>3. CASE /\ Modify(mod)
           /\ cur' = cur \/ cur' = [cur EXCEPT ![w].task = tasks'[cur[w].id]]
  <2>1. Wrote(w) /\ tasks'[cur[w].id] \in Task
    BY <1>1, <1>3, ArrivalWrites DEF Held1
  <2>2. cur[w] \in Job /\ Known(w)
    BY <1>1, Zenon DEF WorkerInv
  <2>3. /\ cur[w].id \in Id /\ cur[w].attempt \in Nat
        /\ tasks[cur[w].id].version \in Nat /\ owner[cur[w].id] = w
    BY <2>1, <2>2, Zenon DEF Wrote, Known, Job, Task
  <2>4. /\ cur'[w] \in Job /\ cur'[w].id = cur[w].id
        /\ cur'[w].task \in {cur[w].task, tasks'[cur[w].id]}
    <3>1. CASE cur' = cur
      BY <2>2, <3>1, Zenon
    <3>2. CASE cur' = [cur EXCEPT ![w].task = tasks'[cur[w].id]]
      <4>1. cur'[w] = [cur[w] EXCEPT !.task = tasks'[cur[w].id]]
        BY <3>2, Zenon DEF WorkerInv
      <4> QED
        BY <2>1, <2>2, <4>1, Zenon DEF Job
    <3> QED
      BY <1>3, <3>1, <3>2, Zenon
  <2>5. StoreTypeOK'
    BY <2>1, Zenon DEF WorkerInv, StoreTypeOK, Wrote
  <2>6. Known(w)'
    <3>1. tasks'[cur[w].id].version = tasks[cur[w].id].version + 1
      BY <2>1, NoTaskIsNoTask, Zenon DEF Wrote
    <3>2. cur'[w].task.version <= tasks'[cur[w].id].version
      BY <2>1, <2>3, <2>4, <3>1 DEF Wrote
    <3> QED
      BY <1>1, <2>3, <2>4, <3>2, Zenon DEF Known
  <2>7. ASSUME NEW v \in Worker, v # w PROVE cur'[v] = cur[v]
    BY <1>3, <2>7, Zenon DEF WorkerInv
  <2>8. cur' \in [Worker -> Job \cup {None}]
    <3>1. \A v \in Worker : cur'[v] \in Job \cup {None}
      BY <2>4, <2>7, Zenon DEF WorkerInv
    <3>2. DOMAIN cur' = Worker /\ cur' = [v \in Worker |-> cur'[v]]
      BY <1>3, Zenon DEF WorkerInv
    <3> QED
      BY <3>1, <3>2, Zenon
  <2>9. ASSUME NEW v \in Worker, wpc'[v] \in Busy PROVE cur'[v] \in Job /\ Known(v)'
    <3>1. CASE v = w
      BY <2>4, <2>6, <3>1, Zenon
    <3>2. CASE v # w
      <4>1. cur'[v] = cur[v] /\ wpc[v] \in Busy
        BY <1>1, <2>7, <2>9, <3>2, Zenon
      <4>2. cur[v] \in Job
        BY <4>1, Zenon DEF WorkerInv
      <4> QED
        BY <1>1, <2>1, <3>2, <4>1, <4>2, WrittenKnown, Zenon
    <3> QED
      BY <3>1, <3>2, Zenon
  <2> QED
    BY <1>1, <2>5, <2>8, <2>9, Zenon DEF WorkerInv
<1> QED
  BY <1>2, <1>3, Zenon DEF Renew, storeVars

(* A lease that runs out changes no version. *)
LEMMA LapseKeeps ==
    ASSUME WorkerInv, NEW i \in Id, Lapse(i)
    PROVE  /\ WorkerInv'
           /\ \A j \in Id : tasks'[j] = NoTask <=> tasks[j] = NoTask
<1>1. /\ tasks[i] \in Task /\ now \in Nat
      /\ tasks' = [tasks EXCEPT ![i] = [tasks[i] EXCEPT !.at = now]]
      /\ UNCHANGED <<now, attempt, wpc, cur, result, owner>>
  BY Zenon DEF Lapse, WorkerInv, StoreTypeOK, workerVars
<1>2. tasks'[i] = [tasks[i] EXCEPT !.at = now] /\ \A j \in Id : j # i => tasks'[j] = tasks[j]
  BY <1>1, Zenon DEF WorkerInv, StoreTypeOK
<1>3. tasks'[i] \in Task /\ tasks'[i].version = tasks[i].version
  BY <1>1, <1>2 DEF Task
<1>4. \A j \in Id : tasks'[j] = NoTask <=> tasks[j] = NoTask
  BY <1>1, <1>2, <1>3, NoTaskIsNoTask, Zenon
<1>5. StoreTypeOK'
  BY <1>1, <1>3, Zenon DEF WorkerInv, StoreTypeOK
<1>6. ASSUME NEW v \in Worker, wpc'[v] \in Busy PROVE cur'[v] \in Job /\ Known(v)'
  <2>1. cur[v] \in Job /\ Known(v)
    BY <1>1, <1>6, Zenon DEF WorkerInv
  <2>2. cur[v].id \in Id
    BY <2>1, Zenon DEF Job
  <2> QED
    BY <1>1, <1>2, <1>3, <1>4, <2>1, <2>2, Zenon DEF Known
<1>7. WorkerInv'
  BY <1>1, <1>5, <1>6, Zenon DEF WorkerInv
<1> QED
  BY <1>4, <1>7, Zenon

(* The handler returns. *)
LEMMA WorkReturnsKeeps ==
    ASSUME WorkerInv, NEW w \in Worker, NEW r \in Results, WorkReturns(w, r)
    PROVE  WorkerInv'
<1>1. UNCHANGED <<tasks, now, attempt, owner>> /\ attempt' \in [Id -> Nat] /\ wpc[w] = "working"
  BY Zenon DEF WorkReturns, storeVars, WorkerInv
<1>2. CASE \E to \in {"idle", "stopped"} : Ends(w, to)
  BY <1>1, <1>2, EndsKeeps, Zenon
<1>3. CASE /\ Goes(w, "dispose")
           /\ result' = [result EXCEPT ![w] = r]
           /\ cur' = cur
  <2>1. /\ wpc' \in [Worker -> Busy \cup {"idle", "stopped"}]
        /\ \A v \in Worker : wpc'[v] \in Busy => wpc[v] \in Busy
        /\ result' \in [Worker -> Results]
    BY <1>1, <1>3, Zenon DEF WorkerInv, Goes, Busy
  <2> QED
    BY <1>1, <1>3, <2>1, NothingNew, Zenon
<1> QED
  BY <1>2, <1>3, Zenon DEF WorkReturns

(* The result is written, or the call fails. *)
LEMMA DisposeKeeps ==
    ASSUME WorkerInv, NEW w \in Worker, Dispose(w)
    PROVE  WorkerInv'
<1>1. wpc[w] \in Busy /\ owner' = owner /\ \E to \in {"idle", "stopped"} : Ends(w, to)
  BY ThroughEnds, Zenon DEF Dispose, Busy
<1>2. CASE Modify(Disposition(w)) /\ attempt' = Attempted(w)
  <2>1. Wrote(w)
    BY <1>1, <1>2, DispositionWrites, Zenon
  <2>2. cur[w].id \in Id /\ cur[w].attempt \in Nat
    BY <1>1, Zenon DEF WorkerInv, Job
  <2>3. attempt' \in [Id -> Nat]
    BY <1>2, <2>2 DEF Attempted, WorkerInv
  <2> QED
    BY <1>1, <2>1, <2>3, EndsKeeps, Zenon
<1>3. CASE UNCHANGED <<storeVars, attempt>>
  <2>1. UNCHANGED <<tasks, now>> /\ attempt' \in [Id -> Nat]
    BY <1>3, Zenon DEF storeVars, WorkerInv
  <2> QED
    BY <1>1, <2>1, EndsKeeps, Zenon
<1> QED
  BY <1>2, <1>3, Zenon DEF Dispose

(* The write is refused. *)
LEMMA RefusedKeeps ==
    ASSUME WorkerInv, NEW w \in Worker, Refused(w)
    PROVE  WorkerInv'
<1>1. UNCHANGED <<tasks, now, attempt, owner>> /\ attempt' \in [Id -> Nat]
  BY Zenon DEF Refused, storeVars, WorkerInv
<1>2. CASE \E to \in {"idle", "stopped"} : Ends(w, to)
  BY <1>1, <1>2, EndsKeeps, Zenon
<1>3. CASE /\ \E r \in Sentinels : result' = [result EXCEPT ![w] = r]
           /\ UNCHANGED <<wpc, cur>>
  <2>1. result' \in [Worker -> Results]
    BY <1>3, Zenon DEF WorkerInv, Results
  <2> QED
    BY <1>1, <1>3, <2>1, NothingNew, Zenon DEF WorkerInv
<1> QED
  BY <1>2, <1>3, ThroughEnds, Zenon DEF Refused

(* The steps that end the work on a task without a write, or never had one. *)
LEMMA EndingKeeps ==
    ASSUME WorkerInv, NEW w \in Worker, LeaveAlone(w) \/ Quit(w) \/ Crash(w)
    PROVE  WorkerInv'
<1>1. UNCHANGED <<tasks, now, attempt, owner>> /\ attempt' \in [Id -> Nat]
  BY Zenon DEF LeaveAlone, Quit, Crash, storeVars, WorkerInv
<1>2. \E to \in {"idle", "stopped"} : Ends(w, to)
  BY ThroughEnds, Zenon DEF LeaveAlone, Quit, Crash
<1> QED
  BY <1>1, <1>2, EndsKeeps, Zenon

(* The steps that only move a worker on. *)
LEMMA MovingKeeps ==
    ASSUME WorkerInv, NEW w \in Worker,
           SetAside(w) \/ StartWork(w) \/ Cancel(w) \/ Restart(w)
             \/ \E r \in Results : FailEarly(w, r)
    PROVE  WorkerInv'
<1>1. UNCHANGED <<tasks, now, attempt, owner, cur>>
  BY Zenon DEF SetAside, StartWork, Cancel, Restart, FailEarly, storeVars
<1>2. result' \in [Worker -> Results]
  BY Zenon DEF SetAside, StartWork, Cancel, Restart, FailEarly, WorkerInv, Results, Sentinels
<1>3. /\ wpc' \in [Worker -> Busy \cup {"idle", "stopped"}]
      /\ \A v \in Worker : wpc'[v] \in Busy => wpc[v] \in Busy
  BY Zenon DEF SetAside, StartWork, Cancel, Restart, FailEarly, WorkerInv, Goes, Busy
<1> QED
  BY <1>1, <1>2, <1>3, NothingNew, Zenon

-----------------------------------------------------------------------------
(* The same steps by what they do to deliveries. *)

(* Nothing about v has changed, and no copy is taken back. *)
LEMMA AnswerKept ==
    ASSUME WorkerInv, NEW v \in Worker, AnswerInv(v),
           wpc'[v] = wpc[v], cur'[v] = cur[v], result'[v] = result[v], answer'[v] = answer[v],
           \A i \in Id : copies[i] > 0 => copies'[i] > 0
    PROVE  AnswerInv(v)'
<1>1. wpc[v] \in {"working", "dispose"} => cur[v].id \in Id
  BY Zenon DEF WorkerInv, Busy, Job
<1> QED
  BY <1>1, Zenon DEF AnswerInv

(* A step of w that leaves the destination alone. *)
LEMMA QuietStep ==
    ASSUME WorkerInv, HandoffInv, NEW w \in Worker,
           UNCHANGED <<copies, tomb, late, early>>,
           \A v \in Worker \ {w} : /\ wpc'[v] = wpc[v] /\ cur'[v] = cur[v]
                                   /\ result'[v] = result[v] /\ answer'[v] = answer[v],
           answer' \in [Worker -> {"none", "error"} \cup Arrived],
           AnswerInv(w)',
           \A i \in Id : /\ tasks[i] = NoTask => tasks'[i] = NoTask
                         /\ tasks'[i] = NoTask => copies[i] > 0,
           after' \in [Worker -> SUBSET Id],
           \A v \in Worker : \A i \in after'[v] : tasks'[i] = NoTask,
           \A d \in astray' : d.id \in Id /\ d.by \in Worker
    PROVE  HandoffInv'
<1>1. DeliveryInv'
  BY Zenon DEF HandoffInv, DeliveryInv
<1>2. ASSUME NEW v \in Worker PROVE AnswerInv(v)'
  <2>1. CASE v = w
    BY <2>1, Zenon
  <2>2. CASE v # w
    BY <2>2, AnswerKept, Zenon DEF HandoffInv
  <2> QED
    BY <2>1, <2>2, Zenon
<1> QED
  BY <1>1, <1>2, Zenon DEF HandoffInv

(* The others are not touched when w moves on or ends its work. *)
LEMMA OthersStay ==
    ASSUME WorkerInv, NEW w \in Worker, NEW v \in Worker, v # w
    PROVE  /\ \A to : Ends(w, to) => wpc'[v] = wpc[v] /\ cur'[v] = cur[v] /\ result'[v] = result[v]
           /\ \A to : Goes(w, to) => wpc'[v] = wpc[v]
           /\ \A what : Told(w, what) /\ HandoffInv => answer'[v] = answer[v]
  BY Zenon DEF Ends, Goes, Told, WorkerInv, HandoffInv

(* Where a worker is that let go of its task. *)
LEMMA EndsHere ==
    ASSUME WorkerInv, NEW w \in Worker, NEW to, Ends(w, to)
    PROVE  wpc'[w] = to /\ cur'[w] = None
  BY Zenon DEF Ends, Goes, WorkerInv

(* An answer is one the destination can give. *)
LEMMA ToldTyped ==
    ASSUME HandoffInv, NEW w \in Worker, NEW what \in {"none", "error"} \cup Arrived, Told(w, what)
    PROVE  /\ answer' \in [Worker -> {"none", "error"} \cup Arrived]
           /\ answer'[w] = what
  BY Zenon DEF Told, HandoffInv

(* What w delivers is one of its own. *)
LEMMA DeliveryTyped ==
    ASSUME WorkerInv, NEW w \in Worker, wpc[w] \in Busy
    PROVE  Delivery(w).id = cur[w].id /\ Delivery(w).id \in Id /\ Delivery(w).by = w
  BY Zenon DEF Delivery, WorkerInv, Job

(* A delivery left behind is one of a worker. *)
LEMMA StrayTyped ==
    ASSUME WorkerInv, HandoffInv, NEW w \in Worker, MayStray(w)
    PROVE  \A d \in astray' : d.id \in Id /\ d.by \in Worker
<1>1. CASE astray' = astray
  BY <1>1, Zenon DEF HandoffInv, DeliveryInv
<1>2. CASE Undelivered(w) /\ astray' = astray \cup {Delivery(w)}
  <2>1. wpc[w] \in Busy
    BY <1>2, Zenon DEF Undelivered, Busy
  <2>2. Delivery(w).id \in Id /\ Delivery(w).by \in Worker
    BY <2>1, DeliveryTyped, Zenon
  <2>3. \A d \in astray : d.id \in Id /\ d.by \in Worker
    BY Zenon DEF HandoffInv, DeliveryInv
  <2> QED
    BY <1>2, <2>2, <2>3, Zenon
<1> QED
  BY <1>1, <1>2, Zenon DEF MayStray

(* A delivery reaches the destination. *)
LEMMA InsertBothKeeps ==
    ASSUME DeliveryInv, NEW d, d.id \in Id, d.by \in Worker, InsertBoth(d),
           UNCHANGED <<tasks, after, early>>, astray' \subseteq astray
    PROVE  /\ DeliveryInv'
           /\ copies'[d.id] > 0
           /\ \A i \in Id : copies[i] > 0 => copies'[i] > 0
<1> DEFINE k == d.id
<1>1. CASE Collides(d)
  <2>1. UNCHANGED <<copies, tomb, late>> /\ tomb[k] # NoTomb
    BY <1>1, Zenon DEF InsertBoth, Collides
  <2> QED
    BY <2>1, Zenon DEF DeliveryInv
<1>2. CASE ~Collides(d)
  <2>1. /\ copies' = [copies EXCEPT ![k] = @ + 1]
        /\ tomb' = [tomb EXCEPT ![k] = [by |-> d.by, due |-> FALSE]]
        /\ late' = [late EXCEPT ![k] = @ \/ Succeeded(d)]
        /\ tomb[k] = NoTomb
    BY <1>2, Zenon DEF InsertBoth, Collides
  <2>2. copies' \in [Id -> Nat] /\ copies'[k] = copies[k] + 1 /\ copies[k] \in Nat
    <3>1. copies \in [Id -> Nat]
      BY Zenon DEF DeliveryInv
    <3>2. copies[k] \in Nat /\ copies[k] + 1 \in Nat
      BY <3>1
    <3> QED
      BY <2>1, <3>1, <3>2, Zenon
  <2>3. tomb' \in [Id -> [by : Worker \cup {NoOne}, due : BOOLEAN]]
    BY <2>1, Zenon DEF DeliveryInv
  <2>4. tomb'[k] # NoTomb
    <3>1. tomb'[k] = [by |-> d.by, due |-> FALSE]
      BY <2>1, Zenon DEF DeliveryInv
    <3>2. d.by # NoOne
      BY NoOneIsNoClaimant, Zenon DEF Worker
    <3>3. [by |-> d.by, due |-> FALSE].by = d.by /\ NoTomb.by = NoOne
      BY Zenon DEF NoTomb
    <3> QED
      BY <3>1, <3>2, <3>3, Zenon
  <2>5. late' \in [Id -> BOOLEAN] /\ (late'[k] <=> late[k] \/ Succeeded(d))
    BY <2>1, Zenon DEF DeliveryInv
  <2>6. ASSUME NEW i \in Id, i # k
        PROVE  copies'[i] = copies[i] /\ tomb'[i] = tomb[i] /\ late'[i] = late[i]
    BY <2>1, <2>6, Zenon DEF DeliveryInv
  <2>7. copies'[k] > 1 => late'[k] \/ early'[k]
    <3>1. SUFFICES ASSUME copies[k] > 0 PROVE late'[k] \/ early'[k]
      BY <2>2
    <3>2. tasks[k] = NoTask \/ early[k]
      BY <2>1, <3>1, Zenon DEF DeliveryInv
    <3>3. tasks[k] = NoTask => Succeeded(d)
      BY Zenon DEF Succeeded
    <3> QED
      BY <2>5, <3>2, <3>3, SMTT(30)
  <2>8. ASSUME NEW i \in Id
        PROVE  /\ tomb'[i] # NoTomb \/ tasks'[i] = NoTask => copies'[i] > 0
               /\ copies'[i] > 0 /\ tomb'[i] = NoTomb => tasks'[i] = NoTask \/ early'[i]
               /\ copies'[i] > 1 => late'[i] \/ early'[i]
    <3>1. CASE i = k
      BY <2>2, <2>4, <2>7, <3>1, SMTT(30)
    <3>2. CASE i # k
      BY <2>6, <3>2, SMTT(30) DEF DeliveryInv
    <3> QED
      BY <3>1, <3>2, Zenon
  <2>9. DeliveryInv'
    BY <2>2, <2>3, <2>5, <2>8, SMTT(30) DEF DeliveryInv
  <2>10. \A i \in Id : copies[i] > 0 => copies'[i] > 0
    BY <2>2, <2>6
  <2>11. copies'[k] > 0
    BY <2>2
  <2> QED
    BY <2>9, <2>10, <2>11, Zenon
<1> QED
  BY <1>1, <1>2, Zenon

(* Steps of the destination only. *)
LEMMA DestinationStep ==
    ASSUME WorkerInv, HandoffInv, DeliveryInv', UNCHANGED <<wpc, cur, result, answer>>,
           \A i \in Id : copies[i] > 0 => copies'[i] > 0
    PROVE  HandoffInv'
<1>1. \A v \in Worker : AnswerInv(v)'
  BY AnswerKept, Zenon DEF HandoffInv
<1> QED
  BY <1>1, Zenon DEF HandoffInv

(* A tombstone's time comes. *)
LEMMA FallDueKeeps ==
    ASSUME WorkerInv, HandoffInv, NEW i \in Id, FallDue(i)
    PROVE  HandoffInv'
<1>1. /\ tomb[i] # NoTomb /\ tomb' = [tomb EXCEPT ![i] = [tomb[i] EXCEPT !.due = TRUE]]
      /\ UNCHANGED <<tasks, wpc, cur, result, answer, copies, after, astray, late, early>>
  BY Zenon DEF FallDue, HandoffInv, DeliveryInv, vars, storeVars, workerVars
<1>2. tomb[i] \in [by : Worker \cup {NoOne}, due : BOOLEAN]
  BY Zenon DEF HandoffInv, DeliveryInv
<1>3. /\ [tomb[i] EXCEPT !.due = TRUE] \in [by : Worker \cup {NoOne}, due : BOOLEAN]
      /\ [tomb[i] EXCEPT !.due = TRUE] # NoTomb
  BY <1>2, Zenon DEF NoTomb
<1>4. DeliveryInv'
  BY <1>1, <1>3, SMTT(30) DEF HandoffInv, DeliveryInv
<1> QED
  BY <1>1, <1>4, DestinationStep, Zenon

(* A tombstone is collected: early, if its task is still there. *)
LEMMA CollectKeeps ==
    ASSUME WorkerInv, HandoffInv, NEW i \in Id, Collect(i)
    PROVE  HandoffInv'
<1>1. /\ tomb' = [tomb EXCEPT ![i] = NoTomb]
      /\ early' = [early EXCEPT ![i] = @ \/ tasks[i] # NoTask]
      /\ UNCHANGED <<tasks, wpc, cur, result, answer, copies, after, astray, late>>
  BY Zenon DEF Collect, vars, storeVars, workerVars
<1>2. NoTomb \in [by : Worker \cup {NoOne}, due : BOOLEAN]
  BY Zenon DEF NoTomb
<1>3. tomb' \in [Id -> [by : Worker \cup {NoOne}, due : BOOLEAN]]
  BY <1>1, <1>2, Zenon DEF HandoffInv, DeliveryInv
<1>4. early' \in [Id -> BOOLEAN] /\ (early'[i] <=> early[i] \/ tasks[i] # NoTask)
  BY <1>1, Zenon DEF HandoffInv, DeliveryInv
<1>5. ASSUME NEW j \in Id, j # i PROVE early'[j] = early[j] /\ tomb'[j] = tomb[j]
  BY <1>1, <1>5, Zenon DEF HandoffInv, DeliveryInv
<1>6. tomb'[i] = NoTomb
  BY <1>1, SMTT(30) DEF HandoffInv, DeliveryInv
<1>7. ASSUME NEW j \in Id
      PROVE  /\ tomb'[j] # NoTomb \/ tasks'[j] = NoTask => copies'[j] > 0
             /\ copies'[j] > 0 /\ tomb'[j] = NoTomb => tasks'[j] = NoTask \/ early'[j]
             /\ copies'[j] > 1 => late'[j] \/ early'[j]
  <2>1. CASE j = i
    BY <1>1, <1>4, <1>6, <2>1, Zenon DEF HandoffInv, DeliveryInv
  <2>2. CASE j # i
    BY <1>1, <1>5, <2>2, Zenon DEF HandoffInv, DeliveryInv
  <2> QED
    BY <2>1, <2>2, Zenon
<1>8. DeliveryInv'
  BY <1>1, <1>3, <1>4, <1>7, Zenon DEF HandoffInv, DeliveryInv
<1> QED
  BY <1>1, <1>8, DestinationStep, SMTT(30)

(* A delivery that no one waits for arrives. *)
LEMMA ArriveKeeps ==
    ASSUME WorkerInv, HandoffInv, NEW d \in astray, Arrive(d)
    PROVE  HandoffInv'
<1>1. /\ d.id \in Id /\ d.by \in Worker /\ InsertBoth(d) /\ astray' \subseteq astray
      /\ UNCHANGED <<tasks, wpc, cur, result, answer, after, early>>
  BY Zenon DEF Arrive, HandoffInv, DeliveryInv, vars, storeVars, workerVars
<1>2. DeliveryInv' /\ \A i \in Id : copies[i] > 0 => copies'[i] > 0
  BY <1>1, InsertBothKeeps, Zenon DEF HandoffInv
<1> QED
  BY <1>1, <1>2, DestinationStep, Zenon

(* An OnSuccess step removes the tombstone of a task that is gone. *)
LEMMA DeleteTombstoneKeeps ==
    ASSUME WorkerInv, HandoffInv, NEW w \in Worker, DeleteTombstone(w)
    PROVE  HandoffInv'
<1>1. PICK i \in after[w] :
        /\ after' = [after EXCEPT ![w] = {}]
        /\ tomb' = tomb \/ tomb' = [tomb EXCEPT ![i] = NoTomb]
        /\ UNCHANGED <<tasks, wpc, cur, result, copies, answer, astray, late, early>>
  BY Zenon DEF DeleteTombstone, storeVars, workerVars
<1>2. i \in Id /\ tasks[i] = NoTask
  BY Zenon DEF HandoffInv, DeliveryInv
<1>3. NoTomb \in [by : Worker \cup {NoOne}, due : BOOLEAN]
  BY Zenon DEF NoTomb
<1>4. /\ tomb' \in [Id -> [by : Worker \cup {NoOne}, due : BOOLEAN]]
      /\ \A j \in Id : tomb'[j] = tomb[j] \/ (j = i /\ tomb'[j] = NoTomb)
  <2>1. tomb \in [Id -> [by : Worker \cup {NoOne}, due : BOOLEAN]]
    BY Zenon DEF HandoffInv, DeliveryInv
  <2> QED
    BY <1>1, <1>3, <2>1, Zenon
<1>5. after' \in [Worker -> SUBSET Id] /\ \A v \in Worker : after'[v] \subseteq after[v]
  BY <1>1, Zenon DEF HandoffInv, DeliveryInv
<1>6. DeliveryInv'
  BY <1>1, <1>2, <1>4, <1>5, Zenon DEF HandoffInv, DeliveryInv
<1> QED
  BY <1>1, <1>6, DestinationStep, Zenon

(* A delivery is answered: a copy is there now, or was before. *)
LEMMA DeliverKeeps ==
    ASSUME WorkerInv, HandoffInv, NEW w \in Worker, Deliver(w)
    PROVE  HandoffInv'
<1> DEFINE d == Delivery(w)
           what == IF Collides(d) THEN "collision" ELSE "delivered"
<1>1. /\ wpc[w] = "working" /\ InsertBoth(d) /\ Told(w, what)
      /\ UNCHANGED <<tasks, wpc, cur, result, after, astray, early>>
  BY Zenon DEF Deliver, Undelivered, vars, storeVars, workerVars
<1>2. d.id = cur[w].id /\ d.id \in Id /\ d.by \in Worker
  BY <1>1, DeliveryTyped, Zenon DEF Busy
<1>3. what \in Arrived
  BY Zenon DEF Arrived
<1> HIDE DEF d, what
<1>4. DeliveryInv' /\ copies'[d.id] > 0 /\ \A i \in Id : copies[i] > 0 => copies'[i] > 0
  BY <1>1, <1>2, InsertBothKeeps, Zenon DEF HandoffInv
<1>5. answer' \in [Worker -> {"none", "error"} \cup Arrived] /\ answer'[w] = what
  BY <1>1, <1>3, ToldTyped, Zenon
<1>6. ASSUME NEW v \in Worker PROVE AnswerInv(v)'
  <2>1. CASE v = w
    BY <1>1, <1>2, <1>4, <2>1, Zenon DEF AnswerInv
  <2>2. CASE v # w
    <3>1. answer'[v] = answer[v]
      BY <1>1, <2>2, OthersStay, Zenon
    <3> QED
      BY <1>1, <1>4, <3>1, AnswerKept, Zenon DEF HandoffInv
  <2> QED
    BY <2>1, <2>2, SMTT(30)
<1> QED
  BY <1>4, <1>5, <1>6, Zenon DEF HandoffInv

(* A delivery fails, and may be left behind. *)
LEMMA DeliverFailsKeeps ==
    ASSUME WorkerInv, HandoffInv, NEW w \in Worker, DeliverFails(w)
    PROVE  HandoffInv'
<1>1. /\ wpc[w] = "working" /\ MayStray(w) /\ Told(w, "error")
      /\ UNCHANGED <<tasks, wpc, cur, result, copies, tomb, after, late, early>>
  BY Zenon DEF DeliverFails, Undelivered, storeVars, workerVars
<1>2. answer' \in [Worker -> {"none", "error"} \cup Arrived] /\ answer'[w] = "error"
  BY <1>1, ToldTyped, Zenon
<1>3. AnswerInv(w)'
  BY <1>1, <1>2, Zenon DEF AnswerInv, Arrived
<1>4. \A v \in Worker \ {w} : answer'[v] = answer[v]
  BY <1>1, OthersStay, Zenon
<1>5. \A e \in astray' : e.id \in Id /\ e.by \in Worker
  BY <1>1, StrayTyped, Zenon
<1> QED
  BY <1>1, <1>2, <1>3, <1>4, <1>5, QuietStep, Zenon DEF HandoffInv, DeliveryInv

(* A step that ends the work of w, and what it has been told, in a store   *)
(* that is as it was.                                                      *)
LEMMA EndedQuietly ==
    ASSUME WorkerInv, HandoffInv, NEW w \in Worker, NEW to \in {"idle", "stopped"}, Ends(w, to),
           Told(w, "none"), UNCHANGED <<tasks, copies, tomb, late, early>>,
           after' = after \/ after' = [after EXCEPT ![w] = {}],
           astray' = astray \/ MayStray(w)
    PROVE  HandoffInv'
<1>1. answer' \in [Worker -> {"none", "error"} \cup Arrived] /\ answer'[w] = "none"
  BY ToldTyped, Zenon
<1>2. AnswerInv(w)'
  BY <1>1, EndsHere, Zenon DEF AnswerInv, Arrived
<1>3. \A v \in Worker \ {w} : /\ wpc'[v] = wpc[v] /\ cur'[v] = cur[v]
                              /\ result'[v] = result[v] /\ answer'[v] = answer[v]
  BY OthersStay, Zenon
<1>4. after' \in [Worker -> SUBSET Id] /\ \A v \in Worker : after'[v] \subseteq after[v]
  BY Zenon DEF HandoffInv, DeliveryInv
<1>5. \A d \in astray' : d.id \in Id /\ d.by \in Worker
  BY StrayTyped, Zenon DEF HandoffInv, DeliveryInv
<1>6. \A v \in Worker : \A i \in after'[v] : tasks'[i] = NoTask
  BY <1>4, Zenon DEF HandoffInv, DeliveryInv
<1>7. \A i \in Id : /\ tasks[i] = NoTask => tasks'[i] = NoTask
                    /\ tasks'[i] = NoTask => copies[i] > 0
  BY Zenon DEF HandoffInv, DeliveryInv
<1> QED
  BY <1>1, <1>2, <1>3, <1>4, <1>5, <1>6, <1>7, QuietStep, Zenon

(* The handler asks for a deletion only of what has arrived. *)
LEMMA HandlerReturnsKeeps ==
    ASSUME WorkerInv, HandoffInv, NEW w \in Worker, HandlerReturns(w)
    PROVE  HandoffInv'
<1>1. /\ answer[w] # "none" /\ wpc[w] = "working" /\ WorkReturns(w, Wants(w))
      /\ answer' = [answer EXCEPT ![w] = IF renewing[w] = "lost" THEN "none" ELSE @]
      /\ UNCHANGED <<tasks, copies, tomb, after, astray, late, early>>
  BY Zenon DEF HandlerReturns, WorkReturns, storeVars
<1>2. CASE renewing[w] = "lost" /\ \E to \in {"idle", "stopped"} : Ends(w, to)
  <2>1. Told(w, "none")
    BY <1>1, <1>2, Zenon DEF Told
  <2> QED
    BY <1>1, <1>2, <2>1, EndedQuietly, Zenon
<1>3. CASE /\ renewing[w] = "on" /\ Goes(w, "dispose")
           /\ result' = [result EXCEPT ![w] = Wants(w)] /\ cur' = cur
  <2>1. answer' = answer
    BY <1>1, <1>3, Zenon DEF HandoffInv
  <2>2. wpc'[w] = "dispose" /\ result'[w] = Wants(w)
    BY <1>3, Zenon DEF Goes, WorkerInv
  <2>3. result'[w] = "delete" <=> answer[w] \in Arrived
    BY <1>1, <2>2, Zenon DEF Wants, Arrived, HandoffInv
  <2>4. AnswerInv(w)'
    BY <1>1, <1>3, <2>1, <2>2, <2>3, Zenon DEF AnswerInv, HandoffInv
  <2>5. \A v \in Worker \ {w} : wpc'[v] = wpc[v] /\ result'[v] = result[v]
    BY <1>3, Zenon DEF Goes, WorkerInv
  <2> QED
    BY <1>1, <1>3, <2>1, <2>4, <2>5, QuietStep, Zenon DEF HandoffInv, DeliveryInv
<1> QED
  BY <1>1, <1>2, <1>3, Zenon DEF WorkReturns

(* A task is deleted only by a worker that was told it has arrived. *)
LEMMA CommitDeliveredKeeps ==
    ASSUME WorkerInv, HandoffInv, NEW w \in Worker, CommitDelivered(w)
    PROVE  HandoffInv'
<1> DEFINE k == cur[w].id
<1>1. /\ wpc[w] = "dispose" /\ Told(w, "none")
      /\ UNCHANGED <<copies, tomb, astray, late, early>>
      /\ \E to \in {"idle", "stopped"} : Ends(w, to)
  BY ThroughEnds, Zenon DEF CommitDelivered, Dispose
<1>2. k \in Id
  BY <1>1, Zenon DEF WorkerInv, Busy, Job
<1>3. answer' \in [Worker -> {"none", "error"} \cup Arrived] /\ answer'[w] = "none"
  BY <1>1, ToldTyped, Zenon
<1>4. AnswerInv(w)'
  BY <1>1, <1>3, EndsHere, Zenon DEF AnswerInv, Arrived
<1>5. \A v \in Worker \ {w} : /\ wpc'[v] = wpc[v] /\ cur'[v] = cur[v]
                              /\ result'[v] = result[v] /\ answer'[v] = answer[v]
  BY <1>1, OthersStay, Zenon
<1>6. /\ \A i \in Id : /\ tasks[i] = NoTask => tasks'[i] = NoTask
                       /\ tasks'[i] = NoTask => copies[i] > 0
      /\ answer[w] = "delivered" /\ wpc'[w] = "idle" => tasks'[k] = NoTask
  <2>1. CASE Modify(Disposition(w))
    <3>1. /\ Wrote(w)
          /\ IF result[w] = "delete" THEN tasks'[k] = NoTask ELSE tasks'[k] \in Task
      BY <1>1, <2>1, DispositionWrites, Zenon DEF Busy
    <3>2. result[w] = "delete" <=> answer[w] \in Arrived
      BY <1>1, Zenon DEF HandoffInv, AnswerInv
    <3>3. answer[w] \in Arrived => copies[k] > 0
      BY Zenon DEF HandoffInv, AnswerInv
    <3>4. \A i \in Id : tasks'[i] = NoTask => copies[i] > 0
      <4>1. tasks'[k] = NoTask => copies[k] > 0
        BY <3>1, <3>2, <3>3, NoTaskIsNoTask, Zenon
      <4>2. \A i \in Id : i # k => tasks'[i] = tasks[i]
        BY <3>1, Zenon DEF Wrote
      <4>3. \A i \in Id : tasks[i] = NoTask => copies[i] > 0
        BY Zenon DEF HandoffInv, DeliveryInv
      <4> QED
        BY <4>1, <4>2, <4>3, Zenon
    <3>5. \A i \in Id : tasks[i] = NoTask => tasks'[i] = NoTask
      BY <3>1, Zenon DEF Wrote
    <3> QED
      BY <3>1, <3>2, <3>4, <3>5, Zenon DEF Arrived
  <2>2. CASE UNCHANGED <<storeVars, attempt>> /\ Ends(w, "stopped")
    <3>1. tasks' = tasks
      BY <2>2, Zenon DEF storeVars
    <3>2. wpc'[w] = "stopped"
      BY <2>2, EndsHere, Zenon
    <3> QED
      BY <3>1, <3>2, Zenon DEF HandoffInv, DeliveryInv
  <2> QED
    BY <2>1, <2>2, Zenon DEF CommitDelivered, Dispose
<1>7. /\ after' \in [Worker -> SUBSET Id]
      /\ \A v \in Worker : \A i \in after'[v] : tasks'[i] = NoTask
  <2> DEFINE mine == IF answer[w] = "delivered" /\ wpc'[w] = "idle" THEN {k} ELSE {}
  <2>1. after' = [after EXCEPT ![w] = mine]
    BY Zenon DEF CommitDelivered
  <2>2. mine \subseteq Id /\ \A i \in mine : tasks'[i] = NoTask
    BY <1>2, <1>6, Zenon
  <2> HIDE DEF mine
  <2>3. after' \in [Worker -> SUBSET Id]
    BY <2>1, <2>2, Zenon DEF HandoffInv, DeliveryInv
  <2>4. ASSUME NEW v \in Worker, NEW i \in after'[v] PROVE tasks'[i] = NoTask
    <3>1. CASE v = w
      BY <2>1, <2>2, <2>4, <3>1, Zenon DEF HandoffInv, DeliveryInv
    <3>2. CASE v # w
      <4>1. i \in after[v] /\ i \in Id /\ tasks[i] = NoTask
        BY <2>1, <2>4, <3>2, Zenon DEF HandoffInv, DeliveryInv
      <4> QED
        BY <1>6, <4>1, Zenon
    <3> QED
      BY <3>1, <3>2, Zenon
  <2> QED
    BY <2>3, <2>4, Zenon
<1>8. \A d \in astray' : d.id \in Id /\ d.by \in Worker
  BY <1>1, Zenon DEF HandoffInv, DeliveryInv
<1> QED
  BY <1>1, <1>3, <1>4, <1>5, <1>6, <1>7, <1>8, QuietStep, Zenon

(* The deletion is refused. *)
LEMMA CommitRefusedKeeps ==
    ASSUME WorkerInv, HandoffInv, NEW w \in Worker, CommitRefused(w)
    PROVE  HandoffInv'
<1>1. /\ wpc[w] = "dispose" /\ wpc'[w] = "idle" /\ Told(w, "none")
      /\ UNCHANGED <<tasks, copies, tomb, after, astray, late, early>>
  BY Zenon DEF CommitRefused, Refused, storeVars
<1>2. \E to \in {"idle", "stopped"} : Ends(w, to)
  BY <1>1, ThroughEnds, Zenon DEF CommitRefused, Refused
<1> QED
  BY <1>1, <1>2, EndedQuietly, Zenon

(* A worker crashes, in a delivery or not. *)
LEMMA CrashDeliveringKeeps ==
    ASSUME WorkerInv, HandoffInv, NEW w \in Worker, CrashDelivering(w)
    PROVE  HandoffInv'
<1>1. /\ Ends(w, "stopped") /\ Told(w, "none") /\ MayStray(w)
      /\ after' = [after EXCEPT ![w] = {}]
      /\ UNCHANGED <<tasks, copies, tomb, late, early>>
  BY Zenon DEF CrashDelivering, Crash, storeVars
<1> QED
  BY <1>1, EndedQuietly, Zenon

(* The other steps of a worker, which know nothing of deliveries. *)
LEMMA ClaimQuietly ==
    ASSUME WorkerInv, HandoffInv, NEW w \in Worker, Claim(w), Told(w, "none"),
           UNCHANGED <<copies, tomb, after, astray, late, early>>
    PROVE  HandoffInv'
<1>1. PICK i \in Id :
        /\ tasks[i] # NoTask
        /\ tasks'[i] \in Task
        /\ \A j \in Id : j # i => tasks'[j] = tasks[j]
        /\ \/ /\ Goes(w, "claimed")
              /\ cur' = [cur EXCEPT ![w] = [id |-> i, task |-> tasks'[i],
                                            attempt |-> attempt[i]]]
              /\ UNCHANGED result
           \/ Ends(w, "stopped")
  BY ClaimTakes, Zenon
<1>2. answer' \in [Worker -> {"none", "error"} \cup Arrived] /\ answer'[w] = "none"
  BY ToldTyped, Zenon
<1>3. wpc'[w] # "dispose"
  BY <1>1, Zenon DEF Ends, Goes, WorkerInv
<1>4. AnswerInv(w)'
  BY <1>2, <1>3, Zenon DEF AnswerInv, Arrived
<1>5. \A v \in Worker \ {w} : /\ wpc'[v] = wpc[v] /\ cur'[v] = cur[v]
                              /\ result'[v] = result[v] /\ answer'[v] = answer[v]
  BY <1>1, OthersStay, Zenon DEF WorkerInv
<1>6. \A j \in Id : tasks'[j] = NoTask <=> tasks[j] = NoTask
  BY <1>1, NoTaskIsNoTask, Zenon
<1> QED
  BY <1>2, <1>4, <1>5, <1>6, QuietStep, Zenon DEF HandoffInv, DeliveryInv

(* A task is set aside, or its handler is started. *)
LEMMA MovesQuietly ==
    ASSUME WorkerInv, HandoffInv, NEW w \in Worker, SetAside(w) \/ StartWork(w), Told(w, "none"),
           UNCHANGED <<copies, tomb, after, astray, late, early>>
    PROVE  HandoffInv'
<1>1. UNCHANGED <<tasks, cur>>
  BY Zenon DEF SetAside, StartWork, storeVars
<1>2. answer' \in [Worker -> {"none", "error"} \cup Arrived] /\ answer'[w] = "none"
  BY ToldTyped, Zenon
<1>3. wpc'[w] = "dispose" => result'[w] # "delete"
  BY Zenon DEF SetAside, StartWork, Goes, WorkerInv
<1>4. AnswerInv(w)'
  BY <1>2, <1>3, Zenon DEF AnswerInv, Arrived
<1>5. \A v \in Worker \ {w} : wpc'[v] = wpc[v] /\ result'[v] = result[v] /\ answer'[v] = answer[v]
  BY OthersStay, Zenon DEF SetAside, StartWork, WorkerInv
<1> QED
  BY <1>1, <1>2, <1>4, <1>5, QuietStep, Zenon DEF HandoffInv, DeliveryInv

(* A worker stops, or leaves a task alone. *)
LEMMA EndsQuietly ==
    ASSUME WorkerInv, HandoffInv, NEW w \in Worker, LeaveAlone(w) \/ Quit(w), Told(w, "none"),
           UNCHANGED <<copies, tomb, after, astray, late, early>>
    PROVE  HandoffInv'
<1>1. tasks' = tasks /\ \E to \in {"idle", "stopped"} : Ends(w, to)
  BY ThroughEnds, Zenon DEF LeaveAlone, Quit, storeVars
<1> QED
  BY <1>1, EndedQuietly, Zenon

(* A claim is renewed. *)
LEMMA RenewsQuietly ==
    ASSUME WorkerInv, HandoffInv, NEW w \in Worker, Renew(w), UNCHANGED handoffVars
    PROVE  HandoffInv'
<1>1. /\ wpc[w] \in Busy
      /\ UNCHANGED <<wpc, result, copies, tomb, answer, after, astray, late, early>>
  BY Zenon DEF Renew, Busy, handoffVars
<1>2. \A i \in Id : tasks'[i] = NoTask <=> tasks[i] = NoTask
  <2>1. CASE Modify(Arrival(w, Held1))
    <3>1. Wrote(w) /\ tasks'[cur[w].id] \in Task
      BY <1>1, <2>1, ArrivalWrites DEF Held1
    <3> QED
      BY <3>1, NoTaskIsNoTask, Zenon DEF Wrote
  <2>2. CASE tasks' = tasks
    BY <2>2, Zenon
  <2> QED
    BY <2>1, <2>2, Zenon DEF Renew, storeVars
<1>3. cur' = cur \/ cur' = [cur EXCEPT ![w].task = tasks'[cur[w].id]]
  BY Zenon DEF Renew
<1>4. cur[w] \in Job
  BY <1>1, Zenon DEF WorkerInv
<1>5. cur'[w].id = cur[w].id /\ \A v \in Worker \ {w} : cur'[v] = cur[v]
  BY <1>3, <1>4 DEF WorkerInv, Job
<1>6. AnswerInv(w)'
  BY <1>1, <1>5, Zenon DEF HandoffInv, AnswerInv
<1> QED
  BY <1>1, <1>2, <1>5, <1>6, QuietStep, Zenon DEF HandoffInv, DeliveryInv

(* A context ends, or a worker is started again. *)
LEMMA StopsQuietly ==
    ASSUME WorkerInv, HandoffInv, NEW w \in Worker, Cancel(w) \/ Restart(w), UNCHANGED handoffVars
    PROVE  HandoffInv'
<1>1. UNCHANGED <<tasks, cur, result, copies, tomb, answer, after, astray, late, early>>
  BY Zenon DEF Cancel, Restart, storeVars, handoffVars
<1>2. \A v \in Worker : wpc'[v] = wpc[v] \/ (v = w /\ wpc[w] = "stopped" /\ wpc'[w] = "idle")
  BY Zenon DEF Cancel, Restart, Goes, WorkerInv
<1>3. AnswerInv(w)'
  BY <1>1, <1>2, Zenon DEF HandoffInv, AnswerInv
<1> QED
  BY <1>1, <1>2, <1>3, QuietStep, Zenon DEF HandoffInv, DeliveryInv

(* A lease runs out. *)
LEMMA LapsesQuietly ==
    ASSUME WorkerInv, HandoffInv, NEW i \in Id, Lapse(i), UNCHANGED handoffVars
    PROVE  HandoffInv'
<1>1. UNCHANGED <<wpc, cur, result, copies, tomb, answer, after, astray, late, early>>
  BY Zenon DEF Lapse, workerVars, handoffVars
<1>2. \A j \in Id : tasks'[j] = NoTask <=> tasks[j] = NoTask
  BY LapseKeeps, Zenon
<1>3. DeliveryInv'
  BY <1>1, <1>2, Zenon DEF HandoffInv, DeliveryInv
<1> QED
  BY <1>1, <1>3, DestinationStep, Zenon

-----------------------------------------------------------------------------
(* What every step keeps. *)

(* Idle workers know nothing. *)
LEMMA WorkerInvInit == HandoffInit => WorkerInv
<1> SUFFICES ASSUME HandoffInit PROVE WorkerInv
  BY Zenon
<1>1. StoreTypeOK
  BY InitialIsStore, Zenon DEF HandoffInit, WorkerInit, StoreInit, StoreTypeOK
<1>2. /\ attempt \in [Id -> Nat] /\ owner \in [Id -> Worker \cup {NoOne}]
      /\ cur \in [Worker -> Job \cup {None}] /\ result \in [Worker -> Results]
  BY Zenon DEF HandoffInit, WorkerInit, Results, Commits
<1>3. /\ wpc \in [Worker -> Busy \cup {"idle", "stopped"}]
      /\ \A w \in Worker : wpc[w] \notin Busy
  BY Zenon DEF HandoffInit, WorkerInit, Busy
<1> QED
  BY <1>1, <1>2, <1>3, Zenon DEF WorkerInv

(* The steps that only the destination, or the handler's answer, sees. *)
LEMMA OutOfStore ==
    ASSUME WorkerInv, UNCHANGED <<tasks, now, attempt, wpc, cur, result, owner>>
    PROVE  WorkerInv'
  BY NothingNew, Zenon DEF WorkerInv

(* Every step keeps what workers know. *)
LEMMA WorkerInvNext == WorkerInv /\ [HandoffNext]_allVars => WorkerInv'
<1> SUFFICES ASSUME WorkerInv, [HandoffNext]_allVars PROVE WorkerInv'
  BY Zenon
<1>1. CASE WorkerNext
  <2>1. ASSUME NEW w \in Worker, Step(w) PROVE WorkerInv'
    BY <2>1, MovingKeeps, EndingKeeps, DisposeKeeps, RefusedKeeps, WorkReturnsKeeps, Zenon DEF Step
  <2>2. ASSUME NEW w \in Worker, Claim(w) \/ Renew(w) \/ Cancel(w) \/ Crash(w) \/ Restart(w)
        PROVE  WorkerInv'
    BY <2>2, ClaimKeeps, RenewKeeps, MovingKeeps, EndingKeeps, Zenon
  <2> QED
    BY <1>1, <2>1, <2>2, LapseKeeps, Zenon DEF WorkerNext
<1>2. ASSUME NEW w \in Worker, HandoffStep(w) PROVE WorkerInv'
  <2>1. CASE Deliver(w) \/ DeliverFails(w) \/ DeleteTombstone(w)
    <3>1. UNCHANGED <<tasks, now, attempt, wpc, cur, result, owner>>
      BY <2>1, Zenon DEF Deliver, DeliverFails, DeleteTombstone, vars, storeVars, workerVars
    <3> QED
      BY <3>1, OutOfStore, Zenon
  <2>2. CASE HandlerReturns(w)
    <3>1. Wants(w) \in Results /\ WorkReturns(w, Wants(w))
      BY <2>2, Zenon DEF HandlerReturns, Wants, Results, Commits, Sentinels
    <3> QED
      BY <3>1, WorkReturnsKeeps, Zenon
  <2>3. CASE CommitDelivered(w)
    BY <2>3, DisposeKeeps, Zenon DEF CommitDelivered
  <2>4. CASE CommitRefused(w)
    BY <2>4, RefusedKeeps, Zenon DEF CommitRefused
  <2>5. CASE CrashDelivering(w)
    BY <2>5, EndingKeeps, Zenon DEF CrashDelivering
  <2>6. CASE Claim(w) \/ SetAside(w) \/ StartWork(w) \/ LeaveAlone(w) \/ Quit(w)
    BY <2>6, ClaimKeeps, MovingKeeps, EndingKeeps, Zenon
  <2>7. CASE Renew(w) \/ Cancel(w) \/ Restart(w)
    BY <2>7, RenewKeeps, MovingKeeps, Zenon
  <2> QED
    BY <1>2, <2>1, <2>2, <2>3, <2>4, <2>5, <2>6, <2>7, Zenon DEF HandoffStep
<1>3. CASE \/ \E i \in Id : FallDue(i) \/ Collect(i)
           \/ \E d \in astray : Arrive(d)
           \/ UNCHANGED allVars
  <2>1. UNCHANGED <<tasks, now, attempt, wpc, cur, result, owner>>
    BY <1>3, Zenon DEF FallDue, Collect, Arrive, allVars, vars, storeVars, workerVars
  <2> QED
    BY <2>1, OutOfStore, Zenon
<1> QED
  BY <1>1, <1>2, <1>3, LapseKeeps, Zenon DEF HandoffNext

(* A worker's result, retry or move takes effect only if no one has        *)
(* claimed the task since (Finish and handleSentinelErrors of worker.go),  *)
(* whatever the handlers are, however many workers and tasks there are,    *)
(* and whatever is renewed, lost, cut off or crashes.                      *)
THEOREM ResultsAreOwners == HandoffSpec => LatestClaimWins
<1>1. HandoffSpec => []WorkerInv
  BY WorkerInvInit, WorkerInvNext, PTL DEF HandoffSpec
<1>2. WorkerInv => [\A w \in Worker : Dispose(w) /\ tasks' # tasks => owner[cur[w].id] = w]_vars
  BY DisposeIsOwners, Zenon
<1> QED
  BY <1>1, <1>2, PTL DEF LatestClaimWins

(* Nothing is delivered and nothing gone. *)
LEMMA HandoffInvInit ==
    ASSUME \A f \in Initial : \A i \in Id : f[i] # NoTask, HandoffInit
    PROVE  HandoffInv
<1>1. \A i \in Id : tasks[i] # NoTask
  BY Zenon DEF HandoffInit, WorkerInit, StoreInit
<1>2. NoTomb \in [by : Worker \cup {NoOne}, due : BOOLEAN]
  BY Zenon DEF NoTomb
<1>3. DeliveryInv
  <2>1. copies = [i \in Id |-> 0]
    BY Zenon DEF HandoffInit
  <2>2. tomb = [i \in Id |-> NoTomb] /\ after = [w \in Worker |-> {}] /\ astray = {}
    BY Zenon DEF HandoffInit
  <2>3. copies \in [Id -> Nat] /\ \A i \in Id : ~(copies[i] > 0) /\ ~(copies[i] > 1)
    BY <2>1
  <2>4. tomb \in [Id -> [by : Worker \cup {NoOne}, due : BOOLEAN]]
    BY <1>2, <2>2, Zenon
  <2>5. late \in [Id -> BOOLEAN] /\ early \in [Id -> BOOLEAN]
    BY Zenon DEF HandoffInit
  <2>6. /\ after \in [Worker -> SUBSET Id]
        /\ \A w \in Worker : \A i \in after[w] : tasks[i] = NoTask
    BY <2>2, Zenon
  <2>7. \A i \in Id : tomb[i] = NoTomb
    BY <2>2, Zenon
  <2> QED
    BY <1>1, <2>2, <2>3, <2>4, <2>5, <2>6, <2>7, Zenon DEF DeliveryInv
<1>4. /\ answer \in [Worker -> {"none", "error"} \cup Arrived]
      /\ \A w \in Worker : answer[w] = "none" /\ wpc[w] = "idle"
  BY Zenon DEF HandoffInit, WorkerInit
<1>5. \A w \in Worker : AnswerInv(w)
  BY <1>4, Zenon DEF AnswerInv, Arrived
<1> QED
  BY <1>3, <1>4, <1>5, Zenon DEF HandoffInv

(* Every step keeps what is known of deliveries. *)
LEMMA HandoffInvNext ==
    HandoffIInv /\ [HandoffNext]_allVars => HandoffIInv'
<1> SUFFICES ASSUME HandoffIInv, [HandoffNext]_allVars PROVE HandoffIInv'
  BY Zenon
<1>1. WorkerInv /\ WorkerInv' /\ (handler' = handler)
  BY WorkerInvNext, Zenon DEF HandoffIInv, HandoffNext, allVars
<1> SUFFICES ASSUME handler = "handoff" PROVE HandoffInv'
  BY <1>1, Zenon DEF HandoffIInv
<1>2. HandoffInv
  BY Zenon DEF HandoffIInv
<1>3. ASSUME NEW w \in Worker, HandoffStep(w) PROVE HandoffInv'
  <2>1. CASE /\ Claim(w) \/ SetAside(w) \/ StartWork(w) \/ LeaveAlone(w) \/ Quit(w)
             /\ Told(w, "none")
             /\ UNCHANGED <<copies, tomb, after, astray, late, early>>
    BY <1>1, <1>2, <2>1, ClaimQuietly, MovesQuietly, EndsQuietly, Zenon
  <2>2. CASE (Renew(w) \/ Cancel(w) \/ Restart(w)) /\ UNCHANGED handoffVars
    BY <1>1, <1>2, <2>2, RenewsQuietly, StopsQuietly, Zenon
  <2>3. CASE Deliver(w) \/ DeliverFails(w) \/ HandlerReturns(w)
    BY <1>1, <1>2, <2>3, DeliverKeeps, DeliverFailsKeeps, HandlerReturnsKeeps, Zenon
  <2>4. CASE CommitDelivered(w) \/ CommitRefused(w) \/ DeleteTombstone(w) \/ CrashDelivering(w)
    BY <1>1, <1>2, <2>4, CommitDeliveredKeeps, CommitRefusedKeeps, DeleteTombstoneKeeps,
       CrashDeliveringKeeps, Zenon
  <2> QED
    BY <1>3, <2>1, <2>2, <2>3, <2>4, Zenon DEF HandoffStep
<1>4. ASSUME NEW i \in Id, FallDue(i) \/ Collect(i) \/ (Lapse(i) /\ UNCHANGED handoffVars)
      PROVE  HandoffInv'
  BY <1>1, <1>2, <1>4, FallDueKeeps, CollectKeeps, LapsesQuietly, Zenon
<1>5. CASE UNCHANGED allVars
  <2>1. UNCHANGED <<tasks, wpc, cur, result, copies, tomb, answer, after, astray, late, early>>
    BY <1>5, Zenon DEF allVars, vars, storeVars, workerVars, handoffVars
  <2>2. DeliveryInv'
    BY <1>2, <2>1, Zenon DEF HandoffInv, DeliveryInv
  <2> QED
    BY <1>1, <1>2, <2>1, <2>2, DestinationStep, Zenon
<1> QED
  BY <1>1, <1>2, <1>3, <1>4, <1>5, ArriveKeeps, Zenon DEF HandoffNext

(* A task the handoff worker deletes was delivered, and once, unless its   *)
(* tombstone was collected early or a delivery came late (the handler of   *)
(* handoffworker.go and the worker under it), for any number of tasks,     *)
(* workers, attempts and faults, when every ID names a waiting task at     *)
(* the start.                                                              *)
THEOREM HandedOffOnce ==
    ASSUME \A f \in Initial : \A i \in Id : f[i] # NoTask
    PROVE  HandoffSpec => []ExactlyOnce
<1>1. HandoffInit => HandoffIInv
  BY WorkerInvInit, HandoffInvInit, Zenon DEF HandoffIInv
<1>2. HandoffIInv => ExactlyOnce
  BY Zenon DEF HandoffIInv, HandoffInv, DeliveryInv, ExactlyOnce
<1> QED
  BY <1>1, <1>2, HandoffInvNext, PTL DEF HandoffSpec
-----------------------------------------------------------------------------
(* How often a task is given to handlers. *)

(* Another attempt makes room for MaxClaims more. *)
LEMMA AnotherAttempt ==
    ASSUME NEW m \in Nat, NEW a \in Nat
    PROVE  m * a \in Nat /\ m * (a + 1) = m * a + m
  OBVIOUS

(* As long as there is another attempt there is that room. *)
LEMMA AttemptsFit ==
    ASSUME NEW m \in Nat, NEW a \in Nat, NEW b \in Nat, a < b
    PROVE  m * a + m <= m * b
<1>1. PICK k \in Nat : b = a + 1 + k
  <2>1. b - a - 1 \in Nat /\ b = a + 1 + (b - a - 1)
    OBVIOUS
  <2> QED
    BY <2>1, Zenon
<1>2. m * b = m * a + m + m * k
  BY <1>1
<1>3. m * k \in Nat /\ m * a \in Nat
  BY SMTT(30)
<1> QED
  BY <1>2, <1>3

(* Nothing is counted anew, and no attempt is added but with its count.    *)
LEMMA QuietlyCounted ==
    ASSUME WorkInv, NEW i \in Id, ToRun(i)' \subseteq ToRun(i), runs'[i] = runs[i],
           tasks'[i] # NoTask /\ tasks'[i].queue = Inbox =>
               /\ tasks[i] # NoTask /\ tasks[i].queue = Inbox
               /\ \/ attempt'[i] = attempt[i] /\ tasks'[i].claims = tasks[i].claims
                  \/ /\ attempt'[i] = attempt[i] + 1 /\ attempt'[i] < MaxAttempts
                     /\ tasks'[i].claims \in Nat
    PROVE  RunsCounted(i)'
<1> DEFINE S == ToRun(i)
           T == ToRun(i)'
           m == MaxClaims
<1>1. RunsCounted(i) /\ runs[i] \in Nat /\ attempt[i] \in Nat /\ m \in Nat /\ MaxAttempts \in Nat
  BY LimitsArePositive, Zenon DEF WorkInv, WorkCounted, WorkerInv
<1>2. IsFiniteSet(S)
  BY <1>1, Zenon DEF RunsCounted
<1>3. IsFiniteSet(T) /\ Cardinality(T) <= Cardinality(S) /\ Cardinality(S) \in Nat
      /\ Cardinality(T) \in Nat
  <2> HIDE DEF S, T
  <2>1. T \subseteq S
    BY Zenon DEF S, T
  <2> QED
    BY <1>2, <2>1, FS_Subset, FS_CardinalityType, SMTT(30)
<1>4. runs[i] + Cardinality(S) <= m * MaxAttempts
  BY <1>1, Zenon DEF RunsCounted
<1>5. ASSUME tasks[i] # NoTask, tasks[i].queue = Inbox
      PROVE  /\ attempt[i] < MaxAttempts
             /\ runs[i] + Cardinality(S) <= m * attempt[i] + tasks[i].claims
             /\ runs[i] + Cardinality(S) <= m * attempt[i] + m
  BY <1>1, <1>5, Zenon DEF RunsCounted
<1>6. m * MaxAttempts \in Nat /\ m * attempt[i] \in Nat
      /\ m * (attempt[i] + 1) = m * attempt[i] + m
  BY <1>1, AnotherAttempt, SMTT(30)
<1> HIDE DEF S, T, m
<1>7. runs'[i] + Cardinality(T) <= m * MaxAttempts
  BY <1>1, <1>3, <1>4, <1>6, SMTT(30)
<1>8. ASSUME tasks'[i] # NoTask, tasks'[i].queue = Inbox
      PROVE  /\ attempt'[i] < MaxAttempts
             /\ runs'[i] + Cardinality(T) <= m * attempt'[i] + tasks'[i].claims
             /\ runs'[i] + Cardinality(T) <= m * attempt'[i] + m
  <2>1. CASE attempt'[i] = attempt[i] /\ tasks'[i].claims = tasks[i].claims
    <3>1. tasks[i].claims \in Nat
      BY <1>8, Zenon DEF WorkInv, WorkerInv, StoreTypeOK, Task
    <3>2. /\ attempt[i] < MaxAttempts
          /\ runs[i] + Cardinality(S) <= m * attempt[i] + tasks[i].claims
          /\ runs[i] + Cardinality(S) <= m * attempt[i] + m
      BY <1>5, <1>8, ZenonT(40)
    <3>3. /\ runs[i] + Cardinality(T) <= m * attempt[i] + tasks[i].claims
          /\ runs[i] + Cardinality(T) <= m * attempt[i] + m
      BY <1>1, <1>3, <1>6, <3>1, <3>2, SMTT(30)
    <3> QED
      BY <2>1, <3>2, <3>3, ZenonT(40)
  <2>2. CASE /\ attempt'[i] = attempt[i] + 1 /\ attempt'[i] < MaxAttempts
             /\ tasks'[i].claims \in Nat
    <3>1. m * attempt'[i] = m * attempt[i] + m
      BY <1>6, <2>2, Zenon
    <3> QED
      BY <1>1, <1>3, <1>5, <1>6, <1>8, <2>2, <3>1, SMTT(30)
  <2> QED
    BY <1>8, <2>1, <2>2, Zenon
<1> QED
  BY <1>3, <1>7, <1>8, SMTT(30) DEF RunsCounted, T, m

(* What a worker knows of its task's queue and attempt stays so, or its    *)
(* version falls behind.                                                   *)
LEMMA CurrentKept ==
    ASSUME WorkInv, NEW v \in Worker, wpc[v] \in Busy, cur'[v] = cur[v],
           LET j == cur[v].id
           IN  \/ /\ attempt'[j] = attempt[j]
                  /\ tasks'[j] # NoTask =>
                         /\ tasks[j] # NoTask
                         /\ tasks'[j].queue = tasks[j].queue /\ tasks'[j].version = tasks[j].version
               \/ tasks[j] # NoTask
                  /\ (tasks'[j] # NoTask => tasks'[j].version = tasks[j].version + 1)
    PROVE  Current(v)'
<1> DEFINE j == cur[v].id
<1>1. cur[v] \in Job /\ Known(v) /\ Current(v)
  BY Zenon DEF WorkInv, WorkerInv, WorkCounted
<1>2. j \in Id /\ cur[v].task.version \in Nat
  BY <1>1, Zenon DEF Job, Task
<1>3. CASE /\ attempt'[j] = attempt[j]
           /\ tasks'[j] # NoTask =>
                  /\ tasks[j] # NoTask
                  /\ tasks'[j].queue = tasks[j].queue /\ tasks'[j].version = tasks[j].version
  BY <1>1, <1>3, Zenon DEF Current
<1>4. CASE tasks[j] # NoTask /\ (tasks'[j] # NoTask => tasks'[j].version = tasks[j].version + 1)
  <2>1. tasks[j].version \in Nat /\ cur[v].task.version <= tasks[j].version
    <3>1. tasks[j] \in Task
      BY <1>2, <1>4, Zenon DEF WorkInv, WorkerInv, StoreTypeOK
    <3>2. tasks[j].version \in Nat
      BY <3>1, ZenonT(40) DEF Task
    <3> QED
      BY <1>1, <1>4, <3>2, Zenon DEF Known
  <2>2. tasks'[j] # NoTask => cur[v].task.version # tasks'[j].version
    BY <1>2, <1>4, <2>1, SMTT(30)
  <2> QED
    BY <1>1, <2>2, Zenon DEF Current
<1> QED
  BY <1>3, <1>4, Zenon

(* A worker moves on, or lets go, and the store is as it was. *)
LEMMA IdlyCounted ==
    ASSUME WorkInv, UNCHANGED <<tasks, attempt, runs>>,
           \A v \in Worker : /\ wpc'[v] \in Busy => wpc[v] \in Busy /\ cur'[v] = cur[v]
                             /\ wpc'[v] = "claimed" => wpc[v] = "claimed"
    PROVE  WorkCounted'
<1>1. ASSUME NEW v \in Worker, wpc'[v] \in Busy PROVE Current(v)'
  <2>1. wpc[v] \in Busy /\ cur'[v] = cur[v]
    BY <1>1, Zenon
  <2> QED
    BY <2>1, CurrentKept, Zenon
<1>2. ASSUME NEW i \in Id PROVE RunsCounted(i)'
  <2>1. ToRun(i)' \subseteq ToRun(i)
    BY Zenon DEF ToRun, OverLimit, Busy
  <2> QED
    BY <2>1, QuietlyCounted, Zenon
<1> QED
  BY <1>1, <1>2, Zenon DEF WorkCounted, WorkInv

(* A run that is started was to be started. *)
LEMMA StartCounted ==
    ASSUME WorkInv, NEW w \in Worker, StartWork(w)
    PROVE  WorkCounted'
<1>0. PICK k \in Id : k = cur[w].id
  BY Zenon DEF StartWork, WorkInv, WorkerInv, Busy, Job
<1>1. /\ UNCHANGED <<tasks, attempt, cur>> /\ wpc[w] = "claimed" /\ ~OverLimit(w)
      /\ wpc' = [wpc EXCEPT ![w] = "working"] /\ runs' = [runs EXCEPT ![k] = @ + 1]
  BY <1>0, Zenon DEF StartWork, Goes, storeVars
<1>2. wpc'[w] = "working" /\ \A v \in Worker \ {w} : wpc'[v] = wpc[v]
  BY <1>1, Zenon DEF WorkInv, WorkerInv
<1>4. runs \in [Id -> Nat] /\ runs' \in [Id -> Nat] /\ runs'[k] = runs[k] + 1
      /\ \A i \in Id \ {k} : runs'[i] = runs[i]
  BY <1>1 DEF WorkInv, WorkCounted
<1>5. ASSUME NEW v \in Worker, wpc'[v] \in Busy PROVE Current(v)'
  <2>1. wpc[v] \in Busy /\ cur'[v] = cur[v]
    BY <1>1, <1>2, <1>5, Zenon DEF Busy
  <2> QED
    BY <1>1, <2>1, CurrentKept, Zenon
<1>6. ASSUME NEW i \in Id PROVE ToRun(i)' = ToRun(i) \ {w}
  BY <1>1, <1>2, Zenon DEF ToRun, OverLimit
<1>7. RunsCounted(k)'
  <2> DEFINE S == ToRun(k)
  <2>1. w \in S /\ RunsCounted(k)
    BY <1>0, <1>1, Zenon DEF ToRun, WorkInv, WorkCounted
  <2>2. IsFiniteSet(S)
    BY <2>1, Zenon DEF RunsCounted
  <2>3. IsFiniteSet(S \ {w}) /\ Cardinality(S \ {w}) = Cardinality(S) - 1 /\ Cardinality(S) \in Nat
    <3> HIDE DEF S
    <3> QED
      BY <2>1, <2>2, FS_RemoveElement, FS_CardinalityType, SMTT(30)
  <2>4. runs'[k] + Cardinality(ToRun(k)') = runs[k] + Cardinality(ToRun(k))
    <3>1. ToRun(k)' = S \ {w}
      BY <1>6, Zenon
    <3>2. runs[k] \in Nat
      BY <1>4, Zenon
    <3> HIDE DEF S
    <3>3. runs'[k] + Cardinality(S \ {w}) = runs[k] + Cardinality(S)
      BY <1>4, <2>3, <3>2
    <3> QED
      BY <3>1, <3>3, Zenon DEF S
  <2>5. IsFiniteSet(ToRun(k)')
    BY <1>6, <2>3, Zenon
  <2> QED
    BY <1>1, <2>1, <2>4, <2>5, Zenon DEF RunsCounted
<1>8. ASSUME NEW i \in Id, i # k PROVE RunsCounted(i)'
  <2>1. ToRun(i)' \subseteq ToRun(i)
    BY <1>6, Zenon
  <2> QED
    BY <1>1, <1>4, <1>8, <2>1, QuietlyCounted, Zenon
<1> QED
  BY <1>4, <1>5, <1>7, <1>8, ZenonT(40) DEF WorkCounted
(* A claim lets one more run start, if the limit allows it, and counts it. *)
LEMMA ClaimCounted ==
    ASSUME WorkInv, NEW w \in Worker, Claim(w)
    PROVE  WorkCounted'
<1>0. WorkerInv
  BY Zenon DEF WorkInv
<1>1. PICK k \in Id :
        /\ tasks[k] # NoTask
        /\ tasks'[k].version = tasks[k].version + 1
        /\ tasks[k].queue = Inbox /\ tasks'[k].queue = Inbox
        /\ tasks'[k].claims = tasks[k].claims + 1
        /\ \A j \in Id : j # k => tasks'[j] = tasks[j]
        /\ \/ /\ Goes(w, "claimed")
              /\ cur' = [cur EXCEPT ![w] = [id |-> k, task |-> tasks'[k],
                                            attempt |-> attempt[k]]]
           \/ Ends(w, "stopped")
  BY <1>0, ClaimTakes, Zenon
<1>2. UNCHANGED <<attempt, runs>> /\ wpc[w] = "idle"
  BY Zenon DEF Claim
<1>3. ASSUME NEW v \in Worker, v # w PROVE wpc'[v] = wpc[v] /\ cur'[v] = cur[v]
  BY <1>0, <1>1, <1>3, Zenon DEF WorkerInv, Ends, Goes
<1>4. wpc'[w] \in Busy =>
        cur'[w].id = k /\ cur'[w].task = tasks'[k] /\ cur'[w].attempt = attempt[k]
  <2> DEFINE job == [id |-> k, task |-> tasks'[k], attempt |-> attempt[k]]
  <2>1. CASE Ends(w, "stopped")
    <3>1. wpc'[w] = "stopped"
      BY <1>0, <2>1, Zenon DEF WorkerInv, Ends, Goes
    <3> QED
      BY <3>1, Zenon DEF Busy
  <2>2. CASE cur' = [cur EXCEPT ![w] = job]
    <3>1. job.id = k /\ job.task = tasks'[k] /\ job.attempt = attempt[k]
      BY Zenon
    <3> HIDE DEF job
    <3>2. cur'[w] = job
      BY <1>0, <2>2, Zenon DEF WorkerInv
    <3> QED
      BY <3>1, <3>2, Zenon
  <2> QED
    BY <1>1, <2>1, <2>2, Zenon
<1>5. ASSUME NEW v \in Worker, wpc'[v] \in Busy PROVE Current(v)'
  <2>1. CASE v = w
    <3>1. cur'[w].id = k /\ cur'[w].task = tasks'[k] /\ cur'[w].attempt = attempt[k]
      BY <1>4, <1>5, <2>1, Zenon
    <3> QED
      BY <1>1, <1>2, <2>1, <3>1, Zenon DEF Current
  <2>2. CASE v # w
    <3>1. wpc[v] \in Busy /\ cur'[v] = cur[v]
      BY <1>3, <1>5, <2>2, Zenon
    <3>2. cur[v].id \in Id
      BY <1>0, <3>1, Zenon DEF WorkerInv, Job
    <3>3. cur[v].id = k \/ tasks'[cur[v].id] = tasks[cur[v].id]
      BY <1>1, <3>2, Zenon
    <3> QED
      BY <1>1, <1>2, <3>1, <3>3, CurrentKept, Zenon
  <2> QED
    BY <2>1, <2>2, Zenon
<1>6. ASSUME NEW i \in Id, NEW v \in Worker, v \in ToRun(i)', v # w PROVE v \in ToRun(i)
  BY <1>3, <1>6, Zenon DEF ToRun, OverLimit
<1>7. ASSUME NEW i \in Id, i # k PROVE RunsCounted(i)'
  <2>1. w \notin ToRun(i)'
    <3>1. w \in ToRun(i)' => cur'[w].id = k
      BY <1>4, Zenon DEF ToRun, Busy
    <3> QED
      BY <1>7, <3>1, Zenon DEF ToRun
  <2>2. ToRun(i)' \subseteq ToRun(i)
    BY <1>6, <2>1, Zenon DEF ToRun
  <2>3. tasks'[i] = tasks[i]
    BY <1>1, <1>7, Zenon
  <2> QED
    BY <1>2, <2>2, <2>3, QuietlyCounted, Zenon
<1>8. RunsCounted(k)'
  <2> DEFINE S == ToRun(k)
             T == ToRun(k)'
             m == MaxClaims
             a == attempt[k]
             r == runs[k]
             c == tasks[k].claims
  <2>1. m \in Nat /\ MaxAttempts \in Nat /\ a \in Nat /\ r \in Nat /\ c \in Nat
    BY <1>1, LimitsArePositive, Zenon DEF WorkInv, WorkerInv, WorkCounted, StoreTypeOK, Task
  <2>2. /\ IsFiniteSet(S) /\ a < MaxAttempts
        /\ r + Cardinality(S) <= m * a + c
        /\ r + Cardinality(S) <= m * a + m
    BY <1>1, Zenon DEF WorkInv, WorkCounted, RunsCounted
  <2>3. m * a \in Nat /\ m * MaxAttempts \in Nat /\ m * a + m <= m * MaxAttempts
    BY <2>1, <2>2, AttemptsFit, SMTT(30)
  <2>4. w \in T => c + 1 <= m
    <3>1. w \in T => ~(tasks'[k].claims > MaxClaims)
      BY <1>4, Zenon DEF ToRun, OverLimit, Busy
    <3> QED
      BY <1>1, <2>1, <3>1
  <2>5. T \subseteq S \cup {w}
    BY <1>6, Zenon DEF ToRun
  <2>6. IsFiniteSet(T) /\ Cardinality(S) \in Nat /\ Cardinality(T) \in Nat
        /\ Cardinality(T) <= Cardinality(S) + 1
        /\ (w \notin T => Cardinality(T) <= Cardinality(S))
    <3> HIDE DEF S, T
    <3>1. Cardinality(S) \in Nat
      BY <2>2, FS_CardinalityType, Zenon
    <3>2. IsFiniteSet(S \cup {w}) /\ Cardinality(S \cup {w}) <= Cardinality(S) + 1
          /\ Cardinality(S \cup {w}) \in Nat
      <4>1. /\ IsFiniteSet(S \cup {w})
            /\ Cardinality(S \cup {w}) \in {Cardinality(S), Cardinality(S) + 1}
        BY <2>2, FS_AddElement, Zenon
      <4> QED
        BY <3>1, <4>1
    <3>3. IsFiniteSet(T) /\ Cardinality(T) <= Cardinality(S \cup {w}) /\ Cardinality(T) \in Nat
      BY <2>5, <3>2, FS_Subset, FS_CardinalityType, SMTT(30)
    <3>4. w \notin T => Cardinality(T) <= Cardinality(S)
      <4>1. w \notin T => T \subseteq S
        BY <2>5, Zenon
      <4> QED
        BY <2>2, <4>1, FS_Subset, Zenon
    <3> QED
      BY <3>1, <3>2, <3>3, <3>4, SMTT(30)
  <2>7. /\ r + Cardinality(T) <= m * MaxAttempts
        /\ r + Cardinality(T) <= m * a + (c + 1)
        /\ r + Cardinality(T) <= m * a + m
    <3> HIDE DEF S, T, m, a, r, c
    <3>1. CASE w \in T
      BY <2>1, <2>2, <2>3, <2>4, <2>6, <3>1, SMTT(30)
    <3>2. CASE w \notin T
      BY <2>1, <2>2, <2>3, <2>6, <3>2, SMTT(30)
    <3> QED
      BY <3>1, <3>2, Zenon
  <2>8. attempt'[k] = a /\ runs'[k] = r /\ tasks'[k].claims = c + 1
    BY <1>1, <1>2, Zenon
  <2> QED
    BY <2>2, <2>6, <2>7, <2>8, ZenonT(40) DEF RunsCounted
<1> QED
  BY <1>2, <1>5, <1>7, <1>8, Zenon DEF WorkCounted, WorkInv
(* A worker's modification: what it leaves in the inbox it found there, as *)
(* often claimed, or with an attempt counted.                              *)
LEMMA WriteCounted ==
    ASSUME WorkInv, NEW w \in Worker, wpc[w] \in Busy, Wrote(w), runs' = runs,
           NEW k \in Id, k = cur[w].id,
           \A i \in Id : i # k => attempt'[i] = attempt[i],
           tasks'[k] # NoTask /\ tasks'[k].queue = Inbox =>
               \/ attempt'[k] = attempt[k] /\ tasks'[k].claims = tasks[k].claims
               \/ /\ attempt'[k] = attempt[k] + 1 /\ attempt'[k] < MaxAttempts
                  /\ tasks'[k].claims \in Nat,
           \A v \in Worker \ {w} : wpc'[v] = wpc[v] /\ cur'[v] = cur[v],
           wpc'[w] # "claimed",
           wpc'[w] \in Busy => Current(w)'
    PROVE  WorkCounted'
<1>1. /\ \A j \in Id : j # k => tasks'[j] = tasks[j]
      /\ tasks[k] # NoTask /\ tasks[k].version = cur[w].task.version
      /\ tasks'[k] # NoTask => tasks'[k].version = tasks[k].version + 1
  BY Zenon DEF Wrote
<1>2. tasks[k].queue = Inbox
  BY <1>1, Zenon DEF WorkInv, WorkCounted, Current
<1>3. ASSUME NEW v \in Worker, wpc'[v] \in Busy PROVE Current(v)'
  <2>1. CASE v = w
    BY <1>3, <2>1, Zenon
  <2>2. CASE v # w
    <3>1. wpc[v] \in Busy /\ cur'[v] = cur[v]
      BY <1>3, <2>2, Zenon
    <3>2. cur[v].id \in Id
      BY <3>1, Zenon DEF WorkInv, WorkerInv, Job
    <3>3. CASE cur[v].id = k
      BY <1>1, <3>1, <3>3, CurrentKept, Zenon
    <3>4. CASE cur[v].id # k
      <4>1. tasks'[cur[v].id] = tasks[cur[v].id] /\ attempt'[cur[v].id] = attempt[cur[v].id]
        BY <1>1, <3>2, <3>4, Zenon
      <4> QED
        BY <3>1, <4>1, CurrentKept, Zenon
    <3> QED
      BY <3>3, <3>4, Zenon
  <2> QED
    BY <2>1, <2>2, Zenon
<1>4. ASSUME NEW i \in Id PROVE RunsCounted(i)'
  <2>1. ToRun(i)' \subseteq ToRun(i)
    BY Zenon DEF ToRun, OverLimit
  <2>2. CASE i = k
    BY <1>1, <1>2, <2>1, <2>2, QuietlyCounted, Zenon
  <2>3. CASE i # k
    <3>1. tasks'[i] = tasks[i] /\ attempt'[i] = attempt[i]
      BY <1>1, <2>3, Zenon
    <3> QED
      BY <2>1, <3>1, QuietlyCounted, Zenon
  <2> QED
    BY <2>2, <2>3, Zenon
<1> QED
  BY <1>3, <1>4, Zenon DEF WorkCounted, WorkInv

(* A renewal keeps the task's queue and its claims. *)
LEMMA RenewCounted ==
    ASSUME WorkInv, NEW w \in Worker, Renew(w)
    PROVE  WorkCounted'
<1>0. WorkerInv
  BY Zenon DEF WorkInv
<1>1. wpc[w] = "working" /\ wpc[w] \in Busy /\ UNCHANGED <<attempt, wpc, runs>>
  BY Zenon DEF Renew, Busy
<1>2. CASE UNCHANGED <<tasks, cur>>
  BY <1>1, <1>2, IdlyCounted, Zenon
<1>3. CASE /\ Modify(Arrival(w, Held1))
           /\ cur' = cur \/ cur' = [cur EXCEPT ![w].task = tasks'[cur[w].id]]
  <2>1. PICK k \in Id : k = cur[w].id
    BY <1>0, <1>1, Zenon DEF WorkerInv, Job
  <2>2. Current(w) /\ cur[w] \in Job
    BY <1>1, Zenon DEF WorkInv, WorkerInv, WorkCounted
  <2>3. /\ Wrote(w) /\ tasks'[k].queue = Inbox /\ tasks'[k].claims = tasks[k].claims
    <3>1. Held1 \in Int
      BY DEF Held1
    <3> QED
      BY <1>0, <1>1, <1>3, <2>1, <2>2, <3>1, ArrivalWrites, Zenon DEF Current
  <2>4. \A v \in Worker \ {w} : cur'[v] = cur[v]
    BY <1>0, <1>3, Zenon DEF WorkerInv
  <2>5. Current(w)'
    <3>1. CASE cur' = cur
      BY <1>1, <2>1, <2>3, <3>1, CurrentKept, Zenon DEF Wrote
    <3>2. CASE cur' = [cur EXCEPT ![w].task = tasks'[cur[w].id]]
      <4>1. cur'[w] = [cur[w] EXCEPT !.task = tasks'[k]]
        BY <1>0, <2>1, <3>2, Zenon DEF WorkerInv
      <4>2. cur'[w].id = k /\ cur'[w].task = tasks'[k] /\ cur'[w].attempt = cur[w].attempt
        BY <2>1, <2>2, <4>1, Zenon DEF Job
      <4>3. attempt[k] = cur[w].attempt
        BY <2>1, <2>2, <2>3, Zenon DEF Current, Wrote
      <4> QED
        BY <1>1, <2>3, <4>2, <4>3, Zenon DEF Current
    <3> QED
      BY <1>3, <3>1, <3>2, Zenon
  <2>6. wpc'[w] # "claimed"
    BY <1>1, Zenon
  <2> QED
    BY <1>1, <2>1, <2>3, <2>4, <2>5, <2>6, WriteCounted, Zenon
<1> QED
  BY <1>2, <1>3, Zenon DEF Renew, storeVars

(* A lease that runs out changes no queue, claims or attempt. *)
LEMMA LapseCounted ==
    ASSUME WorkInv, NEW i \in Id, Lapse(i)
    PROVE  WorkCounted'
<1>1. UNCHANGED <<wpc, cur, attempt, runs>>
  BY Zenon DEF Lapse, workerVars
<1>2. tasks[i] # NoTask /\ tasks' = [tasks EXCEPT ![i].at = now]
  BY Zenon DEF Lapse
<1>3. tasks \in [Id -> Task \cup {NoTask}] /\ tasks[i] \in Task
  BY <1>2, Zenon DEF WorkInv, WorkerInv, StoreTypeOK
<1>4. /\ tasks'[i].queue = tasks[i].queue /\ tasks'[i].version = tasks[i].version
      /\ tasks'[i].claims = tasks[i].claims
  <2>1. tasks'[i] = [tasks[i] EXCEPT !.at = now]
    BY <1>2, <1>3, Zenon
  <2> QED
    BY <1>3, <2>1, Zenon DEF Task
<1>5. \A j \in Id : j # i => tasks'[j] = tasks[j]
  BY <1>2, <1>3, Zenon
<1>6. ASSUME NEW v \in Worker, wpc'[v] \in Busy PROVE Current(v)'
  <2>1. wpc[v] \in Busy /\ cur'[v] = cur[v]
    BY <1>1, <1>6, Zenon
  <2>2. cur[v].id \in Id
    BY <2>1, Zenon DEF WorkInv, WorkerInv, Job
  <2>3. tasks'[cur[v].id] # NoTask =>
          /\ tasks[cur[v].id] # NoTask
          /\ tasks'[cur[v].id].queue = tasks[cur[v].id].queue
          /\ tasks'[cur[v].id].version = tasks[cur[v].id].version
    BY <1>2, <1>4, <1>5, <2>2, Zenon
  <2> QED
    BY <1>1, <2>1, <2>3, CurrentKept, Zenon
<1>7. ASSUME NEW j \in Id PROVE RunsCounted(j)'
  <2>1. ToRun(j)' \subseteq ToRun(j)
    BY <1>1, Zenon DEF ToRun, OverLimit
  <2>2. tasks'[j] # NoTask /\ tasks'[j].queue = Inbox =>
          tasks[j] # NoTask /\ tasks[j].queue = Inbox /\ tasks'[j].claims = tasks[j].claims
    BY <1>2, <1>4, <1>5, Zenon
  <2> QED
    BY <1>1, <2>1, <2>2, QuietlyCounted, Zenon
<1> QED
  BY <1>1, <1>6, <1>7, Zenon DEF WorkCounted, WorkInv
(* What a disposition leaves in the inbox: a task released, or one to be   *)
(* tried again.                                                            *)
LEMMA DispositionCounts ==
    ASSUME WorkInv, Inbox \notin {Outbox, ErrorQueue},
           NEW w \in Worker, wpc[w] \in Busy, Modify(Disposition(w)), attempt' = Attempted(w),
           NEW k \in Id, k = cur[w].id, tasks'[k] # NoTask, tasks'[k].queue = Inbox
    PROVE  \/ attempt'[k] = attempt[k] /\ tasks'[k].claims = tasks[k].claims
           \/ /\ attempt'[k] = attempt[k] + 1 /\ attempt'[k] < MaxAttempts
              /\ tasks'[k].claims \in Nat
<1>0. WorkerInv
  BY Zenon DEF WorkInv
<1>1. Current(w) /\ Wrote(w)
  BY <1>0, DispositionWrites, Zenon DEF WorkInv, WorkCounted
<1>2. attempt[k] = cur[w].attempt /\ cur[w].task.queue = Inbox
  BY <1>1, Zenon DEF Current, Wrote
<1>3. Inbox \in Queue /\ Outbox \in Queue /\ ErrorQueue \in Queue /\ 0 \in Int /\ Held1 \in Int
  BY QueuesAreQueues, SMTT(30) DEF Held1
<1>4. attempt \in [Id -> Nat] /\ attempt[k] \in Nat /\ MaxAttempts \in Nat
  BY <1>0, LimitsArePositive, Zenon DEF WorkerInv
<1>5. Disposition(w) # Deletion(w)
  BY <1>0, DeletionWrites, Zenon
<1>6. ASSUME NEW q \in {Outbox, ErrorQueue} PROVE Disposition(w) # ChangeTo(w, q, 0)
  <2>1. q \in Queue /\ q # Inbox
    BY <1>3, <1>6, Zenon
  <2> QED
    BY <1>0, <1>3, <2>1, MoveWrites, Zenon
<1>7. CASE Disposition(w) = Arrival(w, 0) /\ result[w] = "release"
  <2>1. attempt' = attempt
    BY <1>7, Zenon DEF Attempted
  <2>2. tasks'[k].claims = tasks[k].claims
    BY <1>0, <1>3, <1>7, ArrivalWrites, Zenon
  <2> QED
    BY <2>1, <2>2, Zenon
<1>8. CASE /\ Disposition(w) = ChangeTo(w, Inbox, Held1) /\ result[w] = "retry"
           /\ ~Quarantining(w, MaxAttempts)
  <2>1. attempt'[k] = attempt[k] + 1
    BY <1>2, <1>4, <1>8, SMTT(30) DEF Attempted
  <2>2. attempt[k] + 1 < MaxAttempts
    BY <1>2, <1>4, <1>8, SMTT(30) DEF Quarantining
  <2>3. tasks'[k] \in Task
    BY <1>0, <1>3, <1>8, MoveWrites, Zenon
  <2>4. tasks'[k].claims \in Nat
    BY <2>3, Zenon DEF Task
  <2> QED
    BY <2>1, <2>2, <2>4, ZenonT(40)
<1>9. \/ Disposition(w) = Deletion(w)
      \/ \E q \in {Outbox, ErrorQueue} : Disposition(w) = ChangeTo(w, q, 0)
      \/ Disposition(w) = Arrival(w, 0) /\ result[w] = "release"
      \/ /\ Disposition(w) = ChangeTo(w, Inbox, Held1) /\ result[w] = "retry"
         /\ ~Quarantining(w, MaxAttempts)
  <2>1. CASE result[w] \in Commits
    BY <2>1, Zenon DEF Disposition, Commits
  <2>2. CASE result[w] = "retry"
    BY <1>2, <2>2, Zenon DEF Disposition, RetryOrQuarantine
  <2>3. CASE result[w] \notin Commits \cup {"retry"}
    <3>1. Disposition(w) = RetryOrQuarantine(w, 1)
      BY <2>3, SMTT(30) DEF Disposition, Commits
    <3>2. Quarantining(w, 1)
      BY <1>2, <1>4 DEF Quarantining
    <3> QED
      BY <3>1, <3>2, Zenon DEF RetryOrQuarantine
  <2> QED
    BY <2>1, <2>2, <2>3, Zenon
<1> QED
  BY <1>5, <1>6, <1>7, <1>8, <1>9, Zenon

(* A result is written, or not. *)
LEMMA DisposeCounted ==
    ASSUME WorkInv, Inbox \notin {Outbox, ErrorQueue}, NEW w \in Worker, Dispose(w)
    PROVE  WorkCounted'
<1>0. WorkerInv
  BY Zenon DEF WorkInv
<1>1. wpc[w] \in Busy /\ runs' = runs /\ \E to \in {"idle", "stopped"} : Ends(w, to)
  BY ThroughEnds, Zenon DEF Dispose, Busy
<1>2. wpc'[w] \notin Busy /\ wpc'[w] # "claimed"
  <2>1. wpc'[w] \in {"idle", "stopped"}
    BY <1>0, <1>1, Zenon DEF Ends, Goes, WorkerInv
  <2> QED
    BY <2>1, Zenon DEF Busy
<1>3. \A v \in Worker \ {w} : wpc'[v] = wpc[v] /\ cur'[v] = cur[v]
  BY <1>0, <1>1, Zenon DEF Ends, Goes, WorkerInv
<1>4. CASE UNCHANGED <<storeVars, attempt>>
  <2>1. UNCHANGED <<tasks, attempt, runs>>
    BY <1>1, <1>4, Zenon DEF storeVars
  <2> QED
    BY <1>2, <1>3, <2>1, IdlyCounted, Zenon
<1>5. CASE Modify(Disposition(w)) /\ attempt' = Attempted(w)
  <2>1. PICK k \in Id : k = cur[w].id
    BY <1>0, <1>1, Zenon DEF WorkerInv, Job
  <2>2. Wrote(w)
    BY <1>0, <1>1, <1>5, DispositionWrites, Zenon
  <2>3. \A i \in Id : i # k => attempt'[i] = attempt[i]
    BY <1>0, <1>5, <2>1, Zenon DEF Attempted, WorkerInv
  <2>4. tasks'[k] # NoTask /\ tasks'[k].queue = Inbox =>
            \/ attempt'[k] = attempt[k] /\ tasks'[k].claims = tasks[k].claims
            \/ /\ attempt'[k] = attempt[k] + 1 /\ attempt'[k] < MaxAttempts
               /\ tasks'[k].claims \in Nat
    BY <1>1, <1>5, <2>1, DispositionCounts, Zenon
  <2> QED
    BY <1>1, <1>2, <1>3, <2>1, <2>2, <2>3, <2>4, WriteCounted, Zenon
<1> QED
  BY <1>4, <1>5, Zenon DEF Dispose

(* The steps of a worker that write nothing and start nothing. *)
LEMMA MovesCounted ==
    ASSUME WorkInv, NEW w \in Worker,
           \/ SetAside(w) \/ LeaveAlone(w) \/ Refused(w) \/ Quit(w)
           \/ Cancel(w) \/ Crash(w) \/ Restart(w)
           \/ \E r \in Results : FailEarly(w, r) \/ WorkReturns(w, r)
    PROVE  WorkCounted'
<1>0. WorkerInv
  BY Zenon DEF WorkInv
<1>1. UNCHANGED <<tasks, attempt, runs>>
  BY Zenon
  DEF SetAside, LeaveAlone, Refused, Quit, Cancel, Crash, Restart, FailEarly, WorkReturns, storeVars
<1>2. \/ \E to \in {"idle", "stopped"} : Ends(w, to)
      \/ wpc[w] \in Busy /\ Goes(w, "dispose") /\ cur' = cur
      \/ Goes(w, "idle") /\ cur' = cur
      \/ UNCHANGED <<wpc, cur>>
  BY ThroughEnds, Zenon
  DEF SetAside, LeaveAlone, Refused, Quit, Cancel, Crash, Restart, FailEarly, WorkReturns, Busy
<1>3. \A v \in Worker : /\ wpc'[v] \in Busy => wpc[v] \in Busy /\ cur'[v] = cur[v]
                        /\ wpc'[v] = "claimed" => wpc[v] = "claimed"
  <2>1. CASE \E to \in {"idle", "stopped"} : Ends(w, to)
    <3>1. wpc'[w] \in {"idle", "stopped"} /\ \A v \in Worker \ {w} : wpc'[v] = wpc[v] /\ cur'[v] = cur[v]
      BY <1>0, <2>1, Zenon DEF Ends, Goes, WorkerInv
    <3>2. wpc'[w] \notin Busy /\ wpc'[w] # "claimed"
      BY <3>1, Zenon DEF Busy
    <3> QED
      BY <3>1, <3>2, Zenon
  <2>2. CASE wpc[w] \in Busy /\ Goes(w, "dispose") /\ cur' = cur
    BY <1>0, <2>2, Zenon DEF Goes, WorkerInv
  <2>3. CASE Goes(w, "idle") /\ cur' = cur
    <3>1. wpc'[w] = "idle" /\ \A v \in Worker \ {w} : wpc'[v] = wpc[v]
      BY <1>0, <2>3, ZenonT(40) DEF Goes, WorkerInv
    <3>2. wpc'[w] \notin Busy /\ wpc'[w] # "claimed"
      BY <3>1, Zenon DEF Busy
    <3> QED
      BY <2>3, <3>1, <3>2, Zenon
  <2> QED
    BY <1>2, <2>1, <2>2, <2>3, Zenon
<1> QED
  BY <1>1, <1>3, IdlyCounted, Zenon
(* Nothing was given to a handler. *)
LEMMA WorkInvInit == HandoffInit => WorkInv
<1> SUFFICES ASSUME HandoffInit PROVE WorkInv
  BY Zenon
<1>1. WorkerInv
  BY WorkerInvInit, Zenon
<1>2. attempt = [i \in Id |-> 0] /\ runs = [i \in Id |-> 0] /\ wpc = [w \in Worker |-> "idle"]
  BY Zenon DEF HandoffInit, WorkerInit
<1>3. \A w \in Worker : wpc[w] \notin Busy /\ wpc[w] # "claimed"
  BY <1>2, Zenon DEF Busy
<1>4. runs \in [Id -> Nat]
  BY <1>2, SMTT(30)
<1>5. ASSUME NEW i \in Id PROVE RunsCounted(i)
  <2>1. ToRun(i) = {}
    BY <1>3, Zenon DEF ToRun
  <2>2. IsFiniteSet({}) /\ Cardinality({}) = 0
    BY FS_EmptySet, Zenon
  <2>3. attempt[i] = 0 /\ runs[i] = 0
    BY <1>2, Zenon
  <2>4. tasks[i] # NoTask => tasks[i].claims \in Nat
    BY <1>1, Zenon DEF WorkerInv, StoreTypeOK, Task
  <2>5. MaxClaims \in Nat /\ MaxClaims * 0 = 0 /\ 0 < MaxAttempts /\ 0 <= MaxClaims * MaxAttempts
    BY LimitsArePositive
  <2>6. IsFiniteSet(ToRun(i)) /\ runs[i] + Cardinality(ToRun(i)) = 0
    BY <2>1, <2>2, <2>3
  <2>7. MaxClaims * attempt[i] = 0
    BY <2>3, <2>5, Zenon
  <2> QED
    BY <2>3, <2>4, <2>5, <2>6, <2>7, SMTT(30) DEF RunsCounted
<1> QED
  BY <1>1, <1>3, <1>4, <1>5, Zenon DEF WorkInv, WorkCounted

(* Every step keeps the count. *)
LEMMA WorkInvNext ==
    ASSUME Inbox \notin {Outbox, ErrorQueue}
    PROVE  WorkInv /\ [HandoffNext]_allVars => WorkInv'
<1> SUFFICES ASSUME WorkInv, [HandoffNext]_allVars PROVE WorkCounted'
  BY WorkerInvNext, Zenon DEF WorkInv
<1>1. CASE WorkerNext
  <2>1. ASSUME NEW w \in Worker, Step(w) PROVE WorkCounted'
    BY <2>1, StartCounted, DisposeCounted, MovesCounted, Zenon DEF Step
  <2>2. ASSUME NEW w \in Worker, Claim(w) \/ Renew(w) \/ Cancel(w) \/ Crash(w) \/ Restart(w)
        PROVE  WorkCounted'
    BY <2>2, ClaimCounted, RenewCounted, MovesCounted, Zenon
  <2> QED
    BY <1>1, <2>1, <2>2, LapseCounted, Zenon DEF WorkerNext
<1>2. ASSUME NEW w \in Worker, HandoffStep(w) PROVE WorkCounted'
  <2>1. CASE Deliver(w) \/ DeliverFails(w) \/ DeleteTombstone(w)
    <3>1. UNCHANGED <<tasks, attempt, runs, wpc, cur>>
      BY <2>1, Zenon DEF Deliver, DeliverFails, DeleteTombstone, vars, storeVars, workerVars
    <3> QED
      BY <3>1, IdlyCounted, Zenon
  <2>2. CASE HandlerReturns(w)
    <3>1. Wants(w) \in Results /\ WorkReturns(w, Wants(w))
      BY <2>2, Zenon DEF HandlerReturns, Wants, Results, Commits, Sentinels
    <3> QED
      BY <3>1, MovesCounted, Zenon
  <2>3. CASE CommitDelivered(w)
    BY <2>3, DisposeCounted, Zenon DEF CommitDelivered
  <2>4. CASE CommitRefused(w) \/ CrashDelivering(w)
    BY <2>4, MovesCounted, Zenon DEF CommitRefused, CrashDelivering
  <2>5. CASE Claim(w) \/ SetAside(w) \/ StartWork(w) \/ LeaveAlone(w) \/ Quit(w)
    BY <2>5, ClaimCounted, StartCounted, MovesCounted, Zenon
  <2>6. CASE Renew(w) \/ Cancel(w) \/ Restart(w)
    BY <2>6, RenewCounted, MovesCounted, Zenon
  <2> QED
    BY <1>2, <2>1, <2>2, <2>3, <2>4, <2>5, <2>6, Zenon DEF HandoffStep
<1>3. CASE \/ \E i \in Id : FallDue(i) \/ Collect(i)
           \/ \E d \in astray : Arrive(d)
           \/ UNCHANGED allVars
  <2>1. UNCHANGED <<tasks, attempt, runs, wpc, cur>>
    BY <1>3, Zenon DEF FallDue, Collect, Arrive, allVars, vars, storeVars, workerVars
  <2> QED
    BY <2>1, IdlyCounted, Zenon
<1> QED
  BY <1>1, <1>2, <1>3, LapseCounted, Zenon DEF HandoffNext

(* However its workers fail, crash or lose their claims, a task is given   *)
(* to a handler at most MaxClaims times for each attempt (the limit that   *)
(* runOne checks before a handler is run) and is retried fewer than        *)
(* MaxAttempts times (RetryOrQuarantine), for any number of workers,       *)
(* tasks, faults and renewals, if tasks that are handed on or set aside    *)
(* leave the queue they are taken from.                                    *)
THEOREM WorkIsBounded ==
    ASSUME Inbox \notin {Outbox, ErrorQueue}
    PROVE  HandoffSpec => []WorkBounded
<1>1. WorkInv => WorkBounded
  <2> SUFFICES ASSUME WorkInv, NEW i \in Id
               PROVE  /\ runs[i] <= MaxClaims * MaxAttempts
                      /\ tasks[i] # NoTask /\ tasks[i].queue = Inbox => attempt[i] < MaxAttempts
    BY Zenon DEF WorkBounded
  <2> DEFINE c == Cardinality(ToRun(i))
             m == MaxClaims * MaxAttempts
  <2>1. RunsCounted(i) /\ runs[i] \in Nat /\ m \in Nat
    BY LimitsArePositive DEF WorkInv, WorkCounted
  <2>2. IsFiniteSet(ToRun(i)) /\ runs[i] + c <= m
        /\ (tasks[i] # NoTask /\ tasks[i].queue = Inbox => attempt[i] < MaxAttempts)
    BY <2>1, Zenon DEF RunsCounted
  <2>3. c \in Nat
    BY <2>2, FS_CardinalityType, Zenon
  <2>4. runs[i] <= m
    <3> HIDE DEF c, m
    <3> QED
      BY <2>1, <2>2, <2>3
  <2> QED
    BY <2>2, <2>4, Zenon
<1>2. HandoffInit => WorkInv
  BY WorkInvInit, Zenon
<1>3. WorkInv /\ [HandoffNext]_allVars => WorkInv'
  BY WorkInvNext, Zenon
<1> QED
  BY <1>1, <1>2, <1>3, PTL DEF HandoffSpec

-----------------------------------------------------------------------------
(* When a worker renews what it holds. *)

(* The retry delay and the time of the next attempt, after as many         *)
(* failures in a row: the delays double, and each is jittered by at most a *)
(* quarter of itself.                                                      *)
RenewalInv ==
    /\ wake \in Int /\ expires \in Int /\ retryDelay \in Int /\ failed \in Nat
    /\ LET first == Margin \div 8
           start == expires - Margin
       IN  /\ failed = 0 => retryDelay = 0 /\ wake = start
           /\ failed = 1 => retryDelay = first /\ wake <= start + first + first \div 4
           /\ failed = 2 => /\ retryDelay = 2 * first
                            /\ wake <= start + 3 * first + first \div 4 + (2 * first) \div 4

(* The margin of a lease, and the first delay inside it. *)
LEMMA MarginOfLease ==
    ASSUME Lease \in Nat, Lease >= 24
    PROVE  /\ Interval \in Nat /\ Margin \in Nat /\ Margin \div 8 \in Nat
           /\ Margin >= 8 /\ Margin \div 8 > 0 /\ 8 * (Margin \div 8) <= Margin
           /\ 2 * Margin <= Lease + 2 /\ Interval >= Margin \div 2
  BY DEF Interval, Margin, RenewalDurationFor

(* What a wait after a failure can be. *)
LEMMA RetryDelays ==
    ASSUME Lease \in Nat, Lease >= 24
    PROVE  /\ NextRenewalRetry(0) = Margin \div 8
           /\ NextRenewalRetry(Margin \div 8) = 2 * (Margin \div 8)
  BY MarginOfLease DEF NextRenewalRetry

(* One dropped renewal, or two in a row, never cost a worker its claim,    *)
(* whatever lease of 24 ticks or more it was granted: doWhileRenewing      *)
(* tries again before the hold lapses, however its retries are jittered.   *)
THEOREM RenewedInTime ==
    ASSUME Lease \in Nat, Lease >= 24
    PROVE  RenewalSpec => []RetriesInTime
<1>1. RenewalInit => RenewalInv
  BY MarginOfLease DEF RenewalInit, RenewalInv, Margin
<1>2. RenewalInv /\ [RenewalNext]_renewalVars => RenewalInv'
  <2> SUFFICES ASSUME RenewalInv, [RenewalNext]_renewalVars PROVE RenewalInv'
    BY SMTT(30)
  <2>1. CASE Renews
    BY <2>1, MarginOfLease, SMTT(30) DEF Renews, RenewalInv, Margin, Interval, RenewalDurationFor
  <2>2. CASE FailsToRenew
    <3> DEFINE first == Margin \div 8
    <3>1. PICK d \in JitterLater(NextRenewalRetry(retryDelay)) : wake' = wake + d
      BY <2>2, Zenon DEF FailsToRenew
    <3>2. failed' = failed + 1 /\ retryDelay' = NextRenewalRetry(retryDelay) /\ expires' = expires
      BY <2>2, SMTT(30) DEF FailsToRenew
    <3>3. CASE failed = 0
      <4>1. retryDelay' = first /\ d \in first .. first + first \div 4
        BY <3>1, <3>2, <3>3, RetryDelays, SMTT(30) DEF RenewalInv, JitterLater
      <4> QED
        BY <3>1, <3>2, <3>3, <4>1, MarginOfLease, SMTT(30) DEF RenewalInv
    <3>4. CASE failed = 1
      <4>1. retryDelay' = 2 * first /\ d \in 2 * first .. 2 * first + (2 * first) \div 4
        BY <3>1, <3>2, <3>4, RetryDelays, SMTT(30) DEF RenewalInv, JitterLater
      <4> QED
        BY <3>1, <3>2, <3>4, <4>1, MarginOfLease, SMTT(30) DEF RenewalInv
    <3>5. CASE failed > 1
      <4>1. NextRenewalRetry(retryDelay) \in Int /\ d \in Int
        BY <3>1, MarginOfLease, SMTT(30) DEF RenewalInv, NextRenewalRetry, JitterLater
      <4> QED
        BY <3>1, <3>2, <3>5, <4>1, SMTT(30) DEF RenewalInv
    <3> QED
      BY <3>3, <3>4, <3>5, SMTT(30) DEF RenewalInv
  <2>3. CASE UNCHANGED renewalVars
    BY <2>3, Zenon DEF renewalVars, RenewalInv
  <2> QED
    BY <2>1, <2>2, <2>3, SMTT(30) DEF RenewalNext
<1>3. RenewalInv => RetriesInTime
  BY MarginOfLease DEF RenewalInv, RetriesInTime
<1> QED
  BY <1>1, <1>2, <1>3, PTL DEF RenewalSpec
=============================================================================
