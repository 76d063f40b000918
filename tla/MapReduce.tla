----------------------------- MODULE MapReduce ------------------------------
(***************************************************************************)
(* pkg/eqmr: a MapReduce run over the tasks and docs of an entroq server.  *)
(* The launcher stages one split doc for each part of the input and then   *)
(* starts the run.  Mappers write runs of intermediate records, reducers   *)
(* merge them and stage output, and the controller accepts one attempt at  *)
(* each split and each partition, ends the phases and cleans up.           *)
(*                                                                         *)
(* A server applies each modification at once or not at all, and refuses   *)
(* one whose claims have been lost.  Handlers may be slow enough for that, *)
(* and may fail or crash between any two calls.  Leases and retry delays   *)
(* are not timed: what a failed handler leaves is simply claimed again.    *)
(*                                                                         *)
(* A run of records is [att, part], with the attempt att that wrote it for *)
(* partition part; an attempt is [task, try].  The records themselves, the *)
(* kinds of stores and their encodings are left out; the sink is the       *)
(* document sink.                                                          *)
(***************************************************************************)
EXTENDS Naturals

CONSTANTS
    Split, Partition,   \* of the input and of the output
    Scenarios,          \* what a run has to deal with: the partitions that each split has
                        \* records for, how often something goes wrong, and how many
                        \* stragglers get a backup
    Handler,            \* handler invocations of workers, at one time
    Copy,               \* the task of a unit, and backups of it
    MaxTries,           \* bounds the claims of a task: a reducer of a failed run, whose
                        \* runs are swept, tries again for ever
    None

VARIABLES
    emits,              \* the partitions each split has records for
    launcher, unstaged, \* where setup is, and the splits it has yet to stage
    phase,              \* the state doc: "none" until the run starts
    splits,             \* split docs: the splits not yet accepted
    pointers,           \* pointer docs: runs published and not yet reduced
    markers,            \* result markers: the partitions accepted
    queued,             \* tasks in their queues
    errors,             \* tasks in the error queues
    quarantine,         \* tasks in QuarantineQ
    tries,              \* how often each map or reduce task was claimed
    job,                \* what each handler does
    store,              \* runs in the intermediate store
    staged, parts,      \* the sink: staged attempts, and part docs
    manifest,           \* the sink's manifest: the partitions with no data
    told, got,          \* what Wait reported, and what was read of each partition since
    faults, backups     \* how many are yet to come

runVars == <<phase, splits, pointers, markers>>
taskVars == <<queued, errors, quarantine>>
sinkVars == <<staged, parts, manifest>>
setupVars == <<emits, launcher, unstaged, backups>>
resultVars == <<told, got>>
vars == <<setupVars, runVars, taskVars, tries, job, store, sinkVars, resultVars, faults>>

MapTask == [kind : {"map"}, split : Split, copy : Copy]
ReduceTask == [kind : {"reduce"}, part : Partition, copy : Copy]
WorkTask == MapTask \cup ReduceTask
First == CHOOSE c \in Copy : TRUE

(* Setup refuses a source with no splits, each unit has its task, a        *)
(* scenario says where the records of each split go, and None is neither a *)
(* reducer's attempt nor a manifest nor what Wait reports.                 *)
ASSUME HasInput == Split # {}
ASSUME HasFirst == Copy # {}
ASSUME ScenariosFit == \A c \in Scenarios : c.emits \in [Split -> SUBSET Partition]
ASSUME NoneIsNoDoc == /\ None \notin [task : ReduceTask, try : Nat]
                      /\ None \notin [empty : SUBSET Partition]
                      /\ None \notin {"done", "failed", "collected"}

RunsOf(att) == {[att |-> att, part |-> p] : p \in emits[att.task.split]}

(* The store takes an attempt's runs, deletes those it is given, and can   *)
(* read runs as long as it has them all.                                   *)
Put(att) == store \cup RunsOf(att)
Deleted(runs) == store \ runs
Readable(runs) == runs \subseteq store

(* A mapper that does not commit deletes the runs it has written. *)
Abort(att) == Deleted(RunsOf(att))

PointersOf(p) == {r \in pointers : r.part = p}
Terminal == phase \in {"done", "failed"}

MapDone(att) == [kind |-> "mapDone", att |-> att]
ReduceDone(att, runs) == [kind |-> "reduceDone", att |-> att, runs |-> runs]

(* The check that goes with each acceptance, *)
NoCheck(kind, unit) == {}

Checking(kind, unit) == {[kind |-> kind, after |-> unit]}

(* and the gc task for runs, if there are any. *)
CollectingKin(att, runs) ==
    {[kind |-> "gc", att |-> att, runs |-> {r \in store : \E o \in runs :
        r.part = o.part /\ r.att.task.split = o.att.task.split}]}

Collecting(att, runs) ==
    IF runs = {} THEN {} ELSE {[kind |-> "gc", att |-> att, runs |-> runs]}

(* The sweep of store and sink that every commit that ends the run carries. *)
Ending == {[kind |-> "sweep"]}

Init ==
    /\ \E c \in Scenarios : emits = c.emits /\ faults = c.faults /\ backups = c.backups
    /\ launcher = "check" /\ unstaged = {}
    /\ phase = "none" /\ splits = {} /\ pointers = {} /\ markers = {}
    /\ queued = {} /\ errors = {} /\ quarantine = {}
    /\ tries = [t \in WorkTask |-> 0]
    /\ job = [h \in Handler |-> None]
    /\ store = {}
    /\ staged = {} /\ parts = [p \in Partition |-> None] /\ manifest = None
    /\ told = None /\ got = [p \in Partition |-> None]

Fault == faults > 0 /\ faults' = faults - 1

-----------------------------------------------------------------------------
(* The launcher: a run that exists is resumed, not staged again. *)

AlreadySetUp ==
    /\ launcher = "check"
    /\ IF phase # "none" THEN launcher' = "done" /\ UNCHANGED unstaged
                         ELSE launcher' = "stage" /\ unstaged' = Split
    /\ UNCHANGED <<emits, backups, runVars, taskVars, tries, job, store, sinkVars, faults>>

(* A split doc that is there already collides, which setup takes for a     *)
(* batch that landed before.                                               *)
Stage(s) ==
    /\ launcher = "stage" /\ s \in unstaged
    /\ splits' = splits \cup {s}
    /\ unstaged' = unstaged \ {s}
    /\ UNCHANGED <<emits, backups, launcher, phase, pointers, markers, taskVars, tries, job, store,
                   sinkVars, faults>>

(* The state doc and every map task appear together.  A commit that landed *)
(* without an answer is tried again, and collides.                         *)
StartRun ==
    /\ launcher = "stage" /\ unstaged = {}
    /\ IF phase = "none"
         THEN /\ phase' = "map"
              /\ queued' = {[kind |-> "map", split |-> s, copy |-> First] : s \in Split}
              /\ \/ launcher' = "done" /\ UNCHANGED faults
                 \/ Fault /\ UNCHANGED launcher
         ELSE launcher' = "check" /\ UNCHANGED <<phase, queued, faults>>
    /\ UNCHANGED <<emits, backups, unstaged, splits, pointers, markers, errors, quarantine, tries,
                   job, store, sinkVars>>

(* The launcher crashes and is run again. *)
Relaunch ==
    /\ Fault
    /\ launcher' = "check" /\ unstaged' = {}
    /\ UNCHANGED <<emits, backups, runVars, taskVars, tries, job, store, sinkVars>>

-----------------------------------------------------------------------------
(* Claims.  A handler's job is its task; whether its claim of the task     *)
(* still counts; the doc set it has taken, if it still has it; what it has *)
(* read; and its next step.  A handler claims, takes and first reads in    *)
(* one step, since nothing that it could do in between is seen by others:  *)
(* with its doc set held, the worker puts the task back and tries again.   *)

Attempt(h) == [task |-> job[h].task, try |-> job[h].try]
At(h, kind, step) == job[h] # None /\ job[h].task.kind = kind /\ job[h].step = step
HoldsTask(h, t) == job[h] # None /\ job[h].task = t /\ job[h].mine
HoldsSet(h, d) == d # None /\ job[h] # None /\ job[h].set = d

(* What another handler still has is taken over only once it has lapsed. *)
TakeOver(h, t, d) ==
    LET tasked == {g \in Handler \ {h} : HoldsTask(g, t)}
        held == {g \in Handler \ {h} : HoldsSet(g, d)}
    IN  IF tasked \cup held = {} THEN UNCHANGED faults ELSE Fault

Without(g, t, d) ==
    IF job[g] = None THEN None
    ELSE [job[g] EXCEPT !.mine = @ /\ job[g].task # t, !.set = IF HoldsSet(g, d) THEN None ELSE @]

Assign(h, t, d, step, saw) ==
    LET try == IF t \in WorkTask THEN tries[t] + 1 ELSE 0
    IN  /\ job[h] = None /\ try <= MaxTries
        /\ job' = [g \in Handler |->
             IF g # h THEN Without(g, t, d)
             ELSE [task |-> t, try |-> try, mine |-> TRUE, set |-> d, saw |-> saw, step |-> step]]
        /\ tries' = IF t \in WorkTask THEN [tries EXCEPT ![t] = try] ELSE tries

Begin(h, t, d, step, saw) == TakeOver(h, t, d) /\ Assign(h, t, d, step, saw)

StillTask(h) == job[h].mine

StillHeld(h) == job[h].mine /\ job[h].set # None

Goes(h, step) == job' = [job EXCEPT ![h].step = step]
Done(h) == job' = [job EXCEPT ![h] = None]

(* The handler's task is deleted and others are inserted. *)
Replace(h, inserted) == queued' = (queued \ {job[h].task}) \cup inserted

(* A commit that is refused changes nothing. *)
Retire(h, kept) ==
    /\ IF kept THEN Replace(h, {}) ELSE UNCHANGED queued
    /\ Done(h)
    /\ UNCHANGED <<setupVars, runVars, errors, quarantine, tries, store, sinkVars, faults>>

-----------------------------------------------------------------------------
(* Mappers. *)

(* The split is read without a claim, and its runs are written.  A task    *)
(* whose split was accepted already is retired.                            *)
Map(h, t) ==
    /\ t.kind = "map"
    /\ Begin(h, t, None, IF t.split \in splits THEN "commit" ELSE "retire", {})
    /\ store' = IF t.split \in splits THEN Put([task |-> t, try |-> tries'[t]]) ELSE store
    /\ UNCHANGED <<setupVars, runVars, taskVars, sinkVars>>

(* If the commit is refused, the task is someone else's, and the runs are  *)
(* this mapper's to remove.                                                *)
MapCommit(h) ==
    /\ At(h, "map", "commit")
    /\ IF StillTask(h) THEN /\ Replace(h, {MapDone(Attempt(h))})
                            /\ UNCHANGED store
                       ELSE /\ store' = Abort(Attempt(h))
                            /\ UNCHANGED queued
    /\ Done(h)
    /\ UNCHANGED <<setupVars, runVars, errors, quarantine, tries, sinkVars, faults>>

-----------------------------------------------------------------------------
(* Reducers. *)

(* What a SinkWriter stages when it is closed. *)
Output(att, runs) == [att |-> att, runs |-> runs]

(* The pointers are read without a claim, *)
ReduceRead(h, t) ==
    /\ t.kind = "reduce"
    /\ Begin(h, t, None, IF PointersOf(t.part) = {} THEN "retire" ELSE "merge", PointersOf(t.part))
    /\ UNCHANGED <<setupVars, runVars, taskVars, store, sinkVars>>

(* then the runs, and what they reduce to is staged.  A run that is gone   *)
(* makes the reducer try again.                                            *)
Reduce(h) ==
    /\ At(h, "reduce", "merge")
    /\ IF Readable(job[h].saw)
         THEN /\ staged' = staged \cup {Output(Attempt(h), job[h].saw)}
              /\ Goes(h, "commit")
         ELSE Done(h) /\ UNCHANGED staged
    /\ UNCHANGED <<setupVars, runVars, taskVars, tries, store, parts, manifest, faults>>

ReduceCommit(h) ==
    /\ At(h, "reduce", "commit")
    /\ IF StillTask(h) THEN Replace(h, {ReduceDone(Attempt(h), job[h].saw)})
                       ELSE UNCHANGED queued
    /\ Done(h)
    /\ UNCHANGED <<setupVars, runVars, errors, quarantine, tries, store, sinkVars, faults>>

(* A mapper or reducer that found its unit accepted, or a check that found *)
(* its phase unfinished.                                                   *)
RetireTask(h) == job[h] # None /\ job[h].step = "retire" /\ Retire(h, StillTask(h))

-----------------------------------------------------------------------------
(* The controller accepts finishes. *)

(* mapDoneWorker takes the split's set and reads the state without a claim. *)
MapDoneRead(h, t) ==
    LET s == t.att.task.split
    IN  /\ t.kind = "mapDone"
        /\ Begin(h, t, <<"split", s>>,
                 IF Terminal \/ s \notin splits THEN "discard" ELSE "accept", {})
        /\ UNCHANGED <<setupVars, runVars, taskVars, store, sinkVars>>

(* One commit deletes the split, publishes its runs and queues a check. *)
MapDoneAccept(h) ==
    LET a == job[h].task.att
        s == a.task.split
    IN  /\ At(h, "mapDone", "accept")
        /\ IF StillHeld(h) /\ s \in splits
             THEN /\ splits' = splits \ {s}
                  /\ pointers' = pointers \cup RunsOf(a)
                  /\ Replace(h, Checking("mapCheck", s))
             ELSE UNCHANGED <<splits, pointers, queued>>
        /\ Done(h)
        /\ UNCHANGED <<setupVars, phase, markers, errors, quarantine, tries, store, sinkVars, faults>>

(* reduceDoneWorker takes the set of the partition's marker and reads the  *)
(* state and the pointers.  A reducer that consumed others than those      *)
(* published missed something.                                             *)
ReduceDoneRead(h, t) ==
    LET p == t.att.task.part
        found == PointersOf(p)
    IN  /\ t.kind = "reduceDone"
        /\ Begin(h, t, <<"result", p>>,
                  IF Terminal \/ p \in markers \/ found = {} THEN "discard"
                  ELSE IF found = t.runs THEN "sink"
                  ELSE "move", found)
        /\ UNCHANGED <<setupVars, runVars, taskVars, store, sinkVars>>

(* The sink's Commit inserts the part doc.  The first one wins. *)
SinkCommit(h) ==
    LET a == job[h].task.att
    IN  /\ At(h, "reduceDone", "sink")
        /\ parts' = [parts EXCEPT ![a.task.part] = IF @ = None THEN a ELSE @]
        /\ Goes(h, "accept")
        /\ UNCHANGED <<setupVars, runVars, taskVars, tries, store, staged, manifest, faults>>

(* One commit deletes the pointers, marks the partition, collects the runs *)
(* and queues a check.                                                     *)
ReduceDoneAccept(h) ==
    LET t == job[h].task
        p == t.att.task.part
    IN  /\ At(h, "reduceDone", "accept")
        /\ IF StillHeld(h) /\ job[h].saw \subseteq pointers /\ p \notin markers
             THEN /\ pointers' = pointers \ job[h].saw
                  /\ markers' = markers \cup {p}
                  /\ Replace(h, Checking("reduceCheck", p) \cup Collecting(t.att, t.runs))
             ELSE UNCHANGED <<pointers, markers, queued>>
        /\ Done(h)
        /\ UNCHANGED <<setupVars, phase, splits, errors, quarantine, tries, store, sinkVars, faults>>

(* The run has ended, or the unit was accepted before. *)
Discard(h) ==
    LET t == job[h].task
        runs == IF t.kind = "mapDone" THEN RunsOf(t.att) ELSE t.runs
    IN  /\ At(h, "mapDone", "discard") \/ At(h, "reduceDone", "discard")
        /\ IF StillHeld(h) THEN Replace(h, Collecting(t.att, runs)) ELSE UNCHANGED queued
        /\ Done(h)
        /\ UNCHANGED <<setupVars, runVars, errors, quarantine, tries, store, sinkVars, faults>>

-----------------------------------------------------------------------------
(* The controller ends the phases. *)

PhaseOf(t) == IF t.kind = "mapCheck" THEN "map" ELSE "reduce"

(* The docs that the phase consumes are all gone. *)
PhaseOnly(t, seen) == seen = PhaseOf(t)

Reached(t, seen) == seen = PhaseOf(t) /\ (IF t.kind = "mapCheck" THEN splits ELSE pointers) = {}

IsCheck(h, step) == At(h, "mapCheck", step) \/ At(h, "reduceCheck", step)

(* A check first looks without a claim.  One that cannot tell goes on, *)
CheckLook(h, t) ==
    /\ t.kind \in {"mapCheck", "reduceCheck"}
    /\ \/ Begin(h, t, None, IF Reached(t, phase) THEN "take" ELSE "retire", {})
       \/ Fault /\ Assign(h, t, None, "take", {})
    /\ UNCHANGED <<setupVars, runVars, taskVars, store, sinkVars>>

(* takes and reads the state doc *)
CheckTake(h) ==
    LET holders == {g \in Handler : HoldsSet(g, <<"state">>)}
    IN  /\ IsCheck(h, "take")
        /\ IF holders = {} THEN UNCHANGED faults ELSE Fault
        /\ job' = [g \in Handler |->
             IF g = h THEN [job[h] EXCEPT !.set = <<"state">>, !.saw = {phase}, !.step = "decide"]
             ELSE IF g \in holders THEN [job[g] EXCEPT !.set = None] ELSE job[g]]
        /\ UNCHANGED <<setupVars, runVars, taskVars, tries, store, sinkVars>>

PartitionsOf(docs) == {r.part : r \in docs}

(* and looks for the docs again.  With nothing published, or all of it     *)
(* reduced, the run is finished; otherwise there is a reduce task for each *)
(* partition that has pointers.                                            *)
Decides(h, reached) ==
    IsCheck(h, "decide") /\ reached = \E seen \in job[h].saw : Reached(job[h].task, seen)

Unreached(h) == Decides(h, FALSE) /\ Retire(h, StillHeld(h))

FanOut(h) ==
    /\ Decides(h, TRUE) /\ pointers # {}
    /\ IF StillHeld(h)
         THEN /\ phase' = "reduce"
              /\ Replace(h, {[kind |-> "reduce", part |-> p, copy |-> First] :
                             p \in PartitionsOf(pointers)})
         ELSE UNCHANGED <<phase, queued>>
    /\ Done(h)
    /\ UNCHANGED <<setupVars, splits, pointers, markers, errors, quarantine, tries, store, sinkVars,
                   faults>>

(* The sink's Finish, under the claim of the state doc.  The first manifest *)
(* stays.                                                                   *)
SinkFinish(h) ==
    /\ Decides(h, TRUE) /\ pointers = {}
    /\ LET found == IF job[h].task.kind = "mapCheck" THEN {} ELSE markers
       IN  manifest' = IF manifest = None THEN [empty |-> Partition \ found] ELSE manifest
    /\ Goes(h, "finish")
    /\ UNCHANGED <<setupVars, runVars, taskVars, tries, store, staged, parts, faults>>

Finish(h) ==
    /\ IsCheck(h, "finish")
    /\ IF StillHeld(h) THEN phase' = "done" /\ Replace(h, Ending)
                       ELSE UNCHANGED <<phase, queued>>
    /\ Done(h)
    /\ UNCHANGED <<setupVars, splits, pointers, markers, errors, quarantine, tries, store, sinkVars,
                   faults>>

(* A sink that cannot be resolved, or that refuses for good, fails the run. *)
FinishFails(h) ==
    /\ Decides(h, TRUE) /\ pointers = {} /\ Fault
    /\ IF StillHeld(h) THEN /\ phase' = "failed"
                            /\ Replace(h, Ending)
                            /\ quarantine' = quarantine \cup {job[h].task}
                       ELSE UNCHANGED <<phase, queued, quarantine>>
    /\ Done(h)
    /\ UNCHANGED <<setupVars, splits, pointers, markers, errors, tries, store, sinkVars>>

-----------------------------------------------------------------------------
(* The controller cleans up. *)

(* Deletes are idempotent, and no run is written twice, so that it does    *)
(* not matter when they are done, nor whether by a handler that is late.   *)
Collect(h, t) ==
    /\ t.kind = "gc" /\ job[h] = None
    /\ store' = Deleted(t.runs) /\ queued' = queued \ {t}
    /\ UNCHANGED <<setupVars, runVars, errors, quarantine, tries, job, sinkVars, faults>>

(* The sweep of the store deletes all that it holds, and the sink's reads  *)
(* the part docs first.  A sweep that fails is not tried again,            *)
SweepStore(h, t) ==
    /\ t.kind = "sweep"
    /\ \E kept \in {{}, store} : store' = kept
    /\ Begin(h, t, None, "sink", {parts[p] : p \in Partition})
    /\ UNCHANGED <<setupVars, runVars, taskVars, sinkVars>>

(* and the rest of it deletes what is staged and in none of them. *)
SweepSink(h) ==
    /\ At(h, "sweep", "sink")
    /\ staged' = {o \in staged : o.att \in job[h].saw}
    /\ IF StillTask(h) THEN Replace(h, {}) ELSE UNCHANGED queued
    /\ Done(h)
    /\ UNCHANGED <<setupVars, runVars, errors, quarantine, tries, store, parts, manifest, faults>>

-----------------------------------------------------------------------------
(* The controller judges what went wrong. *)

(* A duplicate of a unit that is complete. *)
IsLoser(t) == \/ t.kind = "map" /\ t.split \notin splits
              \/ t.kind = "reduce" /\ t.part \in markers

Judging(h) == job[h] # None /\ job[h].step = "judge"

JudgeTake(h, t) ==
    /\ Begin(h, t, <<"state">>, "judge", {})
    /\ UNCHANGED <<setupVars, runVars, taskVars, store, sinkVars>>

JudgeLoser(h) ==
    /\ Judging(h) /\ IsLoser(job[h].task)
    /\ errors' = IF StillHeld(h) THEN errors \ {job[h].task} ELSE errors
    /\ Done(h)
    /\ UNCHANGED <<setupVars, runVars, queued, quarantine, tries, store, sinkVars, faults>>

SetAside(h) ==
    /\ Judging(h) /\ ~IsLoser(job[h].task) /\ StillHeld(h)
    /\ errors' = errors \ {job[h].task}
    /\ quarantine' = quarantine \cup {job[h].task}
    /\ Done(h)
    /\ UNCHANGED <<setupVars, runVars, queued, tries, store, sinkVars, faults>>

(* Anything else but a failed collection fails the run. *)
Judge(h) ==
    LET t == job[h].task
        fails == ~Terminal /\ t.kind # "gc"
    IN  /\ Judging(h) /\ ~IsLoser(t)
        /\ IF StillHeld(h)
             THEN /\ errors' = errors \ {t}
                  /\ quarantine' = quarantine \cup {t}
                  /\ phase' = IF fails THEN "failed" ELSE phase
                  /\ queued' = IF fails THEN queued \cup Ending ELSE queued
             ELSE UNCHANGED <<errors, quarantine, phase, queued>>
        /\ Done(h)
        /\ UNCHANGED <<setupVars, splits, pointers, markers, tries, store, sinkVars, faults>>

(* checkGrants: a controller starts that cannot reach the store or the     *)
(* sink.  It waits for the state doc, and commits as its holder.           *)
FailNow ==
    /\ phase \in {"map", "reduce"} /\ Fault
    /\ \A h \in Handler : ~HoldsSet(h, <<"state">>)
    /\ phase' = "failed" /\ queued' = queued \cup Ending
    /\ UNCHANGED <<setupVars, splits, pointers, markers, errors, quarantine, tries, job, store,
                   sinkVars>>

-----------------------------------------------------------------------------
(* What goes wrong. *)

(* The handler returns a retry or another error, or its process crashes.   *)
(* A mapper that fails deletes its runs; one that crashes leaves them.     *)
Abandon(h) ==
    /\ job[h] # None /\ Fault
    /\ \E kept \in IF At(h, "map", "commit") THEN {store, Abort(Attempt(h))} ELSE {store} :
        store' = kept
    /\ Done(h)
    /\ UNCHANGED <<setupVars, runVars, taskVars, tries, sinkVars>>

(* The task is moved to its error queue: by the handler, or because it was *)
(* claimed too often.  Controller tasks have no limit of claims.           *)
Movable(h) == At(h, "map", "commit") \/ At(h, "reduce", "merge") \/ At(h, "reduceDone", "sink")

Move(h) ==
    /\ \/ At(h, "reduceDone", "move") /\ UNCHANGED faults
       \/ Movable(h) /\ Fault
    /\ IF StillTask(h) THEN Replace(h, {}) /\ errors' = errors \cup {job[h].task}
                       ELSE UNCHANGED <<queued, errors>>
    /\ store' = IF job[h].task.kind = "map" THEN Abort(Attempt(h)) ELSE store
    /\ Done(h)
    /\ UNCHANGED <<setupVars, runVars, quarantine, tries, sinkVars>>

MoveCollection(t) ==
    /\ t.kind = "gc" /\ Fault
    /\ queued' = queued \ {t} /\ errors' = errors \cup {t}
    /\ UNCHANGED <<setupVars, runVars, quarantine, tries, job, store, sinkVars>>

(* A straggler gets a backup. *)
Backup(t, c) ==
    /\ t \in queued \cap WorkTask
    /\ backups > 0 /\ backups' = backups - 1
    /\ LET new == [t EXCEPT !.copy = c]
       IN  new \notin queued /\ tries[new] = 0 /\ queued' = queued \cup {new}
    /\ UNCHANGED <<emits, launcher, unstaged, runVars, errors, quarantine, tries, job, store, sinkVars,
                   faults>>

-----------------------------------------------------------------------------
(* Whoever waits for the run and reads its output. *)

Wait ==
    /\ Terminal /\ told = None /\ told' = phase
    /\ UNCHANGED <<setupVars, runVars, taskVars, tries, job, store, sinkVars, faults, got>>

(* awaitCollection: no finish, check or collection is left in its queue. *)
Outstanding == {t \in queued : t \notin WorkTask}

Collected ==
    /\ told = "done" /\ Outstanding = {} /\ told' = "collected"
    /\ UNCHANGED <<setupVars, runVars, taskVars, tries, job, store, sinkVars, faults, got>>

CompletedRun == told \notin {None, "failed"} /\ phase = "done"

(* A partition with no part doc had no data, and one whose chunks are gone *)
(* no longer has any.                                                      *)
Committed(p) == {o.runs : o \in {o \in staged : o.att = parts[p]}}

(* Results, partition by partition. *)
ReadPartition(p) ==
    /\ CompletedRun /\ manifest # None /\ got[p] = None
    /\ got' = [got EXCEPT ![p] = Committed(p)]
    /\ UNCHANGED <<setupVars, runVars, taskVars, tries, job, store, sinkVars, faults, told>>

-----------------------------------------------------------------------------

Setup == AlreadySetUp \/ StartRun \/ \E s \in Split : Stage(s)

Start(h) ==
    \/ \E t \in queued :
        \/ Map(h, t) \/ ReduceRead(h, t) \/ MapDoneRead(h, t) \/ ReduceDoneRead(h, t)
        \/ CheckLook(h, t) \/ Collect(h, t) \/ SweepStore(h, t)
    \/ \E t \in errors : JudgeTake(h, t)

Step(h) ==
    \/ MapCommit(h) \/ Reduce(h) \/ ReduceCommit(h) \/ RetireTask(h)
    \/ MapDoneAccept(h) \/ SinkCommit(h) \/ ReduceDoneAccept(h) \/ Discard(h)
    \/ CheckTake(h) \/ Unreached(h) \/ FanOut(h) \/ SinkFinish(h) \/ Finish(h)
    \/ SweepSink(h) \/ JudgeLoser(h) \/ Judge(h)

Wrong ==
    \/ Relaunch \/ FailNow
    \/ \E h \in Handler : Abandon(h) \/ Move(h) \/ FinishFails(h)
    \/ \E t \in queued : MoveCollection(t) \/ \E c \in Copy : Backup(t, c)

Reader == Wait \/ Collected \/ \E p \in Partition : ReadPartition(p)

Next == \/ /\ Setup \/ (\E h \in Handler : Start(h) \/ Step(h)) \/ Wrong
           /\ UNCHANGED resultVars
        \/ Reader

(* What keeps a handler where it is: an idle one has nothing to claim, and *)
(* a check waits for a state doc that another has taken.                   *)
SetOf(t) ==
    CASE t \in errors -> <<"state">>
      [] t.kind = "mapDone" -> <<"split", t.att.task.split>>
      [] t.kind = "reduceDone" -> <<"result", t.att.task.part>>
      [] OTHER -> None

Claimable(h, t) ==
    /\ t \in WorkTask => tries[t] < MaxTries
    /\ t.kind # "gc" \/ t \in errors =>
        \A g \in Handler \ {h} : ~HoldsTask(g, t) /\ ~HoldsSet(g, SetOf(t))

Waits(h) ==
    \/ job[h] = None /\ ~\E t \in queued \cup errors : Claimable(h, t)
    \/ IsCheck(h, "take") /\ \E g \in Handler : HoldsSet(g, <<"state">>)

(* Workers keep claiming, handlers return, a crashed launcher or worker is *)
(* run again, and a lease that is not renewed runs out.  Every step that a *)
(* handler can always take moves it on, so weak fairness of those steps    *)
(* says that it stays nowhere for ever; TLC decides this form far faster.  *)
Spec ==
    /\ Init /\ [][Next]_vars
    /\ []<>(launcher = "done")
    /\ \A h \in Handler :
        /\ []<>(job[h] # None \/ Waits(h))
        /\ \A step \in {"commit", "retire", "merge", "discard", "accept", "sink", "move", "take",
                         "decide", "finish", "judge"} :
            []<>(job[h] = None \/ Waits(h) \/ job[h].step # step)

-----------------------------------------------------------------------------
(* The units that the present phase has yet to accept, and the tasks that  *)
(* stand for a unit.                                                       *)
Unit(t) ==
    CASE t.kind = "map" -> <<"map", t.split>>
      [] t.kind = "mapDone" -> <<"map", t.att.task.split>>
      [] t.kind = "reduce" -> <<"reduce", t.part>>
      [] t.kind = "reduceDone" -> <<"reduce", t.att.task.part>>
      [] OTHER -> <<t.kind>>

(* A run never stalls: as long as it has not ended, there is a task for    *)
(* every split and every partition that is still to be accepted, and when  *)
(* none is left there is a check to find that out, also if the check that  *)
(* looked first was too early.                                             *)
NeverStalled ==
    LET units == {Unit(t) : t \in queued \cup errors}
    IN  /\ phase = "map" => IF splits = {} THEN <<"mapCheck">> \in units
                            ELSE \A s \in splits : <<"map", s>> \in units
        /\ phase = "reduce" => IF pointers = {} THEN <<"reduceCheck">> \in units
                               ELSE \A r \in pointers : <<"reduce", r.part>> \in units

(* While the run goes on, what mappers have published can be read: neither *)
(* a mapper that lost its claim nor the collection of a losing attempt     *)
(* deletes a run that the controller has accepted.                         *)
PublishedReadable == phase \in {"map", "reduce"} => pointers \subseteq store

Full == {p \in Partition : \E s \in Split : p \in emits[s]}

(* One run of every split that has records for the partition. *)
Whole(p, runs) ==
    \A s \in Split :
        LET ofSplit == {r \in runs : r.att.task.split = s /\ r.part = p} IN
        IF p \in emits[s] THEN \E r \in runs : ofSplit = {r} ELSE ofSplit = {}

(* The output of a run that is done is complete and is there: each         *)
(* partition that some split has records for has one committed attempt,    *)
(* not swept, that has read one run of every such split, and the manifest  *)
(* names all the others as empty.                                          *)
OutputComplete ==
    phase = "done" =>
        /\ \A p \in Full : \E o \in staged : o.att = parts[p] /\ Whole(p, o.runs)
        /\ Partition \ Full \subseteq manifest.empty

(* The manifest names no other partition as empty.  This does not hold: a  *)
(* map check that has lost the state doc, and goes on when the last        *)
(* partition has been accepted, finds no pointers and finishes the sink    *)
(* for a run with no output.                                               *)
ManifestTrue == phase = "done" => manifest.empty \cap Full = {}

(* What Wait reported and what was then read stand: a run reported done or *)
(* failed stays so, though a check or a judge that lost the state doc goes *)
(* on; each partition was read whole, though the sweep of the staged       *)
(* output ran meanwhile; and once awaitCollection has returned, nothing is *)
(* left for the controller to collect, unless a backup was still at work.  *)
ResultsStand ==
    /\ told # None => phase = IF told = "collected" THEN "done" ELSE told
    /\ \A p \in Partition : got[p] # None =>
        IF p \in Full THEN \E runs \in got[p] : Whole(p, runs) ELSE got[p] = {}
    /\ told = "collected" /\ (\A t \in WorkTask : t.copy # First => tries[t] = 0 /\ t \notin queued)
        => Outstanding = {}

(* A run that is set up ends, done or failed. *)
Ends == phase = "map" ~> Terminal
=============================================================================
