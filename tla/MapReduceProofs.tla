-------------------------- MODULE MapReduceProofs ---------------------------
(***************************************************************************)
(* Proofs about a MapReduce run: it never stalls, what is published stays  *)
(* readable, the output of a run that is done is complete, and what was    *)
(* reported and read stands.                                               *)
(***************************************************************************)
EXTENDS MapReduce, TLAPS

Attempts == [task : MapTask, try : Nat]
ReduceAttempts == [task : ReduceTask, try : Nat]
Runs == [att : Attempts, part : Partition]

MapDoneTask == [kind : {"mapDone"}, att : Attempts]
ReduceDoneTask == [kind : {"reduceDone"}, att : ReduceAttempts, runs : SUBSET Runs]
MapCheckTask == [kind : {"mapCheck"}, after : Split]
ReduceCheckTask == [kind : {"reduceCheck"}, after : Partition]
GcTask == [kind : {"gc"}, att : Attempts \cup ReduceAttempts, runs : SUBSET Runs]
SweepTask == [kind : {"sweep"}]

(* What may come to an error queue, and what may be in any queue. *)
FailedTask == MapTask \cup ReduceTask \cup ReduceDoneTask \cup GcTask
Tasks == FailedTask \cup MapDoneTask \cup MapCheckTask \cup ReduceCheckTask \cup SweepTask

PhaseNames == {"none", "map", "reduce", "done", "failed"}
DocSets == {None, <<"state">>} \cup {<<"split", s>> : s \in Split} \cup {<<"result", p>> : p \in Partition}
Steps == {"commit", "retire", "merge", "discard", "accept", "sink", "move", "take", "decide", "finish",
          "judge"}
Seen == Runs \cup PhaseNames \cup ReduceAttempts \cup {None}

Jobs == [task : Tasks, try : Nat, mine : BOOLEAN, set : DocSets, saw : SUBSET Seen, step : Steps]

JobType == job \in [Handler -> Jobs \cup {None}]
TaskType == queued \subseteq Tasks /\ errors \subseteq FailedTask
TriesType == tries \in [WorkTask -> Nat]
EmitsType == emits \in [Split -> SUBSET Partition]
DocsType ==
  /\ phase \in PhaseNames /\ splits \subseteq Split /\ unstaged \subseteq Split
  /\ pointers \subseteq Runs /\ markers \subseteq Partition
SinkType ==
  /\ parts \in [Partition -> ReduceAttempts \cup {None}]
  /\ staged \subseteq [att : ReduceAttempts, runs : SUBSET Runs]
  /\ manifest \in [empty : SUBSET Partition] \cup {None}

-----------------------------------------------------------------------------
(* A task's kind tells what it is. *)
LEMMA KindOfTask ==
  ASSUME NEW t \in Tasks
  PROVE  /\ t.kind = "map" <=> t \in MapTask
         /\ t.kind = "reduce" <=> t \in ReduceTask
         /\ t.kind = "mapDone" <=> t \in MapDoneTask
         /\ t.kind = "reduceDone" <=> t \in ReduceDoneTask
         /\ t.kind = "mapCheck" <=> t \in MapCheckTask
         /\ t.kind = "reduceCheck" <=> t \in ReduceCheckTask
         /\ t.kind = "gc" <=> t \in GcTask
         /\ t.kind = "sweep" <=> t \in SweepTask
         /\ t \in FailedTask <=> t.kind \in {"map", "reduce", "reduceDone", "gc"}
         /\ t \in WorkTask <=> t.kind \in {"map", "reduce"}
BY Zenon
DEF Tasks, FailedTask, WorkTask, MapTask, ReduceTask, MapDoneTask, ReduceDoneTask, MapCheckTask,
       ReduceCheckTask, GcTask, SweepTask

(* The fields of the tasks of each kind. *)
LEMMA TaskFields ==
  /\ \A t \in MapTask : t.split \in Split /\ t.copy \in Copy
  /\ \A t \in ReduceTask : t.part \in Partition /\ t.copy \in Copy
  /\ \A t \in MapDoneTask : t.att \in Attempts /\ t = MapDone(t.att)
  /\ \A t \in ReduceDoneTask : t.att \in ReduceAttempts /\ t.runs \subseteq Runs
                                 /\ t = ReduceDone(t.att, t.runs)
  /\ \A t \in GcTask : t.runs \subseteq Runs
  /\ \A a \in Attempts : a.task \in MapTask /\ a.try \in Nat /\ a.task.split \in Split
  /\ \A a \in ReduceAttempts : a.task \in ReduceTask /\ a.try \in Nat /\ a.task.part \in Partition
  /\ \A r \in Runs : r.att \in Attempts /\ r.part \in Partition
  /\ \A t \in SweepTask : t = [kind |-> "sweep"]
BY DEF MapTask, ReduceTask, MapDoneTask, ReduceDoneTask, GcTask, SweepTask, Attempts,
       ReduceAttempts, Runs, MapDone, ReduceDone

(* The tasks that are made are tasks. *)
LEMMA TasksMade ==
  /\ \A a \in Attempts : MapDone(a) \in MapDoneTask /\ MapDone(a).att = a
  /\ \A a \in ReduceAttempts : \A rs \in SUBSET Runs :
       ReduceDone(a, rs) \in ReduceDoneTask /\ ReduceDone(a, rs).att = a /\ ReduceDone(a, rs).runs = rs
  /\ \A s \in Split : Checking("mapCheck", s) \subseteq MapCheckTask
  /\ \A p \in Partition : Checking("reduceCheck", p) \subseteq ReduceCheckTask
  /\ \A a \in Attempts \cup ReduceAttempts : \A rs \in SUBSET Runs :
       Collecting(a, rs) \subseteq GcTask /\ \A t \in Collecting(a, rs) : t.runs = rs
  /\ Ending \subseteq SweepTask
  /\ First \in Copy
  /\ \A s \in Split : [kind |-> "map", split |-> s, copy |-> First] \in MapTask
  /\ \A p \in Partition : [kind |-> "reduce", part |-> p, copy |-> First] \in ReduceTask
<1>1. First \in Copy
  BY HasFirst, Zenon DEF First
<1>2. \A a \in Attempts : MapDone(a) \in MapDoneTask /\ MapDone(a).att = a
  BY Zenon DEF MapDone, MapDoneTask
<1>3. \A a \in ReduceAttempts : \A rs \in SUBSET Runs :
       ReduceDone(a, rs) \in ReduceDoneTask /\ ReduceDone(a, rs).att = a /\ ReduceDone(a, rs).runs = rs
  BY Zenon DEF ReduceDone, ReduceDoneTask
<1>4. \A a \in Attempts \cup ReduceAttempts : \A rs \in SUBSET Runs :
       Collecting(a, rs) \subseteq GcTask /\ \A t \in Collecting(a, rs) : t.runs = rs
  BY DEF Collecting, GcTask
<1> QED
  BY <1>1, <1>2, <1>3, <1>4
  DEF Checking, Ending, MapCheckTask, ReduceCheckTask, SweepTask, MapTask, ReduceTask

(* An attempt's runs. *)
LEMMA RunsFields ==
  ASSUME EmitsType, NEW a \in Attempts
  PROVE  /\ RunsOf(a) \subseteq Runs
         /\ \A r \in RunsOf(a) : r.att = a /\ r.part \in emits[a.task.split]
         /\ \A p \in emits[a.task.split] : \E r \in RunsOf(a) : r.part = p
         /\ \A r, q \in RunsOf(a) : r.part = q.part => r = q
<1>1. a.task.split \in Split /\ emits[a.task.split] \subseteq Partition
  BY TaskFields, Zenon DEF EmitsType
<1>2. \A p \in emits[a.task.split] : [att |-> a, part |-> p] \in Runs
  BY <1>1, Zenon DEF Runs
<1>3. \A r \in RunsOf(a) : \E p \in emits[a.task.split] : r = [att |-> a, part |-> p]
  BY Zenon DEF RunsOf
<1>4. \A p \in emits[a.task.split] : [att |-> a, part |-> p] \in RunsOf(a)
  BY Zenon DEF RunsOf
<1>5. \A r \in RunsOf(a) : r \in Runs /\ r.att = a /\ r.part \in emits[a.task.split]
                          /\ r = [att |-> a, part |-> r.part]
  BY <1>2, <1>3
<1> QED
  BY <1>4, <1>5, Zenon

-----------------------------------------------------------------------------
(* A handler goes on with the same job, or with less of its claims. *)
Persists(g) ==
  job'[g] # None =>
    /\ job[g] # None
    /\ job'[g].task = job[g].task /\ job'[g].try = job[g].try
    /\ job'[g].saw = job[g].saw /\ job'[g].step = job[g].step
    /\ job'[g].mine => job[g].mine
    /\ job'[g].set \in {job[g].set, None}

(* A claim. *)
LEMMA AssignSteps ==
  ASSUME JobType, TriesType, NEW h \in Handler, NEW t \in Tasks, NEW d \in DocSets,
         NEW step \in Steps, NEW saw \in SUBSET Seen, Assign(h, t, d, step, saw)
  PROVE  /\ job' \in [Handler -> Jobs \cup {None}]
         /\ tries' \in [WorkTask -> Nat]
         /\ \A x \in WorkTask : tries[x] <= tries'[x]
         /\ t \in WorkTask => tries'[t] = tries[t] + 1 /\ job'[h].try = tries'[t]
         /\ job[h] = None
         /\ job'[h].task = t /\ job'[h].mine /\ job'[h].set = d /\ job'[h].saw = saw
         /\ job'[h].step = step
         /\ \A g \in Handler \ {h} :
              /\ Persists(g)
              /\ job'[g] # None => /\ ~(job'[g].mine /\ job'[g].task = t)
                                   /\ d # None => job'[g].set # d
<1> DEFINE try == IF t \in WorkTask THEN tries[t] + 1 ELSE 0
           new == [task |-> t, try |-> try, mine |-> TRUE, set |-> d, saw |-> saw, step |-> step]
<1>1. try \in Nat
  BY DEF TriesType
<1>2. new \in Jobs
  BY <1>1, Zenon DEF Jobs
<1>3. \A g \in Handler \ {h} : job'[g] = Without(g, t, d)
  BY Zenon DEF Assign
<1>4. job'[h] = new /\ job[h] = None
  BY Zenon DEF Assign
<1>5. ASSUME NEW g \in Handler \ {h}, job[g] # None
      PROVE  /\ Without(g, t, d) \in Jobs
             /\ Without(g, t, d).task = job[g].task /\ Without(g, t, d).try = job[g].try
             /\ Without(g, t, d).saw = job[g].saw /\ Without(g, t, d).step = job[g].step
             /\ Without(g, t, d).mine = (job[g].mine /\ job[g].task # t)
             /\ Without(g, t, d).set = IF HoldsSet(g, d) THEN None ELSE job[g].set
  <2>1. job[g] \in Jobs
    BY <1>5, Zenon DEF JobType
  <2>2. (job[g].mine /\ job[g].task # t) \in BOOLEAN /\ (IF HoldsSet(g, d) THEN None ELSE job[g].set) \in DocSets
    BY <2>1, Zenon DEF Jobs, DocSets
  <2> QED
    BY <1>5, <2>1, <2>2, Zenon DEF Without, Jobs
<1>6. \A g \in Handler \ {h} : job[g] = None => Without(g, t, d) = None
  BY Zenon DEF Without
<1>7. job' \in [Handler -> Jobs \cup {None}]
  <2>1. \A g \in Handler : job'[g] \in Jobs \cup {None}
    BY <1>2, <1>3, <1>4, <1>5, <1>6
  <2>2. job' = [g \in Handler |-> job'[g]]
    BY Zenon DEF Assign
  <2> QED
    BY <2>1, <2>2, Zenon
<1>8. ASSUME NEW g \in Handler \ {h}
      PROVE  /\ Persists(g)
             /\ job'[g] # None => /\ ~(job'[g].mine /\ job'[g].task = t)
                                  /\ d # None => job'[g].set # d
  <2>1. job'[g] = Without(g, t, d)
    BY <1>3, Zenon
  <2>2. CASE job[g] = None
    BY <1>6, <2>1, <2>2, Zenon DEF Persists
  <2>3. CASE job[g] # None
    <3>1. /\ job'[g].task = job[g].task /\ job'[g].try = job[g].try
          /\ job'[g].saw = job[g].saw /\ job'[g].step = job[g].step
          /\ job'[g].mine = (job[g].mine /\ job[g].task # t)
          /\ job'[g].set = IF HoldsSet(g, d) THEN None ELSE job[g].set
      BY <1>5, <2>1, <2>3, Zenon
    <3> QED
      BY <2>3, <3>1, Zenon DEF Persists, HoldsSet
  <2> QED
    BY <2>2, <2>3, Zenon
<1>9. /\ tries' \in [WorkTask -> Nat]
      /\ \A x \in WorkTask : tries[x] <= tries'[x]
      /\ t \in WorkTask => tries'[t] = tries[t] + 1 /\ tries'[t] = try
  BY DEF Assign, TriesType
<1> QED
  BY <1>4, <1>7, <1>8, <1>9

(* The next step of a handler. *)
LEMMA GoesSteps ==
  ASSUME JobType, NEW h \in Handler, job[h] # None, NEW step \in Steps, Goes(h, step)
  PROVE  /\ job' \in [Handler -> Jobs \cup {None}]
         /\ job'[h].task = job[h].task /\ job'[h].try = job[h].try /\ job'[h].mine = job[h].mine
         /\ job'[h].set = job[h].set /\ job'[h].saw = job[h].saw /\ job'[h].step = step
         /\ \A g \in Handler \ {h} : Persists(g)
<1>1. job[h] \in Jobs
  BY Zenon DEF JobType
<1>2. job'[h] = [job[h] EXCEPT !.step = step] /\ \A g \in Handler \ {h} : job'[g] = job[g]
  BY Zenon DEF Goes, JobType
<1>3. [job[h] EXCEPT !.step = step] \in Jobs
  BY <1>1, Zenon DEF Jobs
<1>4. job' \in [Handler -> Jobs \cup {None}]
  BY <1>3, Zenon DEF Goes, JobType
<1>5. \A g \in Handler \ {h} : Persists(g)
  BY <1>2, Zenon DEF Persists
<1> QED
  BY <1>1, <1>2, <1>4, <1>5, Zenon DEF Jobs

(* The end of a job. *)
LEMMA DoneSteps ==
  ASSUME JobType, NEW h \in Handler, Done(h)
  PROVE  /\ job' \in [Handler -> Jobs \cup {None}]
         /\ job'[h] = None
         /\ \A g \in Handler : Persists(g)
         /\ \A g \in Handler \ {h} : job'[g] = job[g]
BY Zenon DEF Done, JobType, Persists

(* A check takes the state doc. *)
LEMMA TakeSteps ==
  ASSUME JobType, phase \in PhaseNames, NEW h \in Handler, CheckTake(h)
  PROVE  /\ job' \in [Handler -> Jobs \cup {None}]
         /\ job'[h].task = job[h].task /\ job'[h].try = job[h].try /\ job'[h].mine = job[h].mine
         /\ job'[h].set = <<"state">> /\ job'[h].saw = {phase} /\ job'[h].step = "decide"
         /\ \A g \in Handler \ {h} :
              Persists(g) /\ (job'[g] # None /\ <<"state">> # None => job'[g].set # <<"state">>)
<1> DEFINE holders == {g \in Handler : HoldsSet(g, <<"state">>)}
<1>1. job[h] \in Jobs
  BY Zenon DEF JobType, CheckTake, IsCheck, At
<1>2. job'[h] = [job[h] EXCEPT !.set = <<"state">>, !.saw = {phase}, !.step = "decide"]
  BY Zenon DEF CheckTake
<1>3. job'[h] \in Jobs
  <2>1. <<"state">> \in DocSets /\ {phase} \in SUBSET Seen /\ "decide" \in Steps
    BY Zenon DEF DocSets, Seen, Steps
  <2> QED
    BY <1>1, <1>2, <2>1, Zenon DEF Jobs
<1>4. ASSUME NEW g \in Handler \ {h}
      PROVE  /\ job'[g] \in Jobs \cup {None} /\ Persists(g)
             /\ job'[g] # None /\ <<"state">> # None => job'[g].set # <<"state">>
  <2>1. CASE g \in holders
    <3>1. job[g] \in Jobs /\ job[g] # None
      BY <2>1, Zenon DEF HoldsSet, JobType
    <3>2. job'[g] = [job[g] EXCEPT !.set = None]
      BY <2>1, Zenon DEF CheckTake
    <3> QED
      BY <3>1, <3>2, Zenon DEF Jobs, DocSets, Persists
  <2>2. CASE g \notin holders
    <3>1. job'[g] = job[g]
      BY <2>2, Zenon DEF CheckTake
    <3> QED
      BY <2>2, <3>1, Zenon DEF JobType, Persists, HoldsSet
  <2> QED
    BY <2>1, <2>2, Zenon
<1>5. job' = [g \in Handler |-> job'[g]]
  BY Zenon DEF CheckTake
<1>6. job' \in [Handler -> Jobs \cup {None}]
  BY <1>3, <1>4, <1>5, Zenon
<1>7. /\ job'[h].task = job[h].task /\ job'[h].try = job[h].try /\ job'[h].mine = job[h].mine
      /\ job'[h].set = <<"state">> /\ job'[h].saw = {phase} /\ job'[h].step = "decide"
  BY <1>1, <1>2, Zenon DEF Jobs
<1> QED
  BY <1>4, <1>6, <1>7, Zenon

-----------------------------------------------------------------------------
(* Who writes what. *)

MapAccepts(h) == MapDoneAccept(h) /\ StillHeld(h) /\ job[h].task.att.task.split \in splits

ReduceAccepts(h) ==
  /\ ReduceDoneAccept(h) /\ StillHeld(h)
  /\ job[h].saw \subseteq pointers /\ job[h].task.att.task.part \notin markers

(* The commits that end the run. *)
Completes(h) == Finish(h) /\ StillHeld(h)

Fails(h) == /\ FinishFails(h) \/ (Judge(h) /\ ~Terminal /\ job[h].task.kind # "gc")
            /\ StillHeld(h)

Loses(h) == (JudgeLoser(h) \/ Judge(h)) /\ StillHeld(h)

(* Splits are staged and accepted; runs are published by one acceptance and consumed
   by another, which marks the partition; and the scenario stays. *)
LEMMA DocsWrites ==
  ASSUME [Next]_vars
  PROVE  /\ \/ splits' = splits
            \/ \E s \in Split : Stage(s)
            \/ \E h \in Handler : MapAccepts(h)
         /\ \/ pointers' = pointers
            \/ \E h \in Handler : MapAccepts(h) \/ ReduceAccepts(h)
         /\ \/ markers' = markers
            \/ \E h \in Handler : ReduceAccepts(h)
         /\ emits' = emits
<1>1. CASE UNCHANGED vars
  BY <1>1, Zenon DEF vars, runVars, taskVars, sinkVars, setupVars, resultVars
<1>2. CASE Setup
  BY <1>2, Zenon
  DEF Setup, AlreadySetUp, StartRun, Stage, runVars, taskVars, sinkVars, setupVars, resultVars
<1>3. ASSUME NEW hh \in Handler, Start(hh)
      PROVE  /\ \/ splits' = splits
                \/ \E s \in Split : Stage(s)
                \/ \E h \in Handler : MapAccepts(h)
             /\ \/ pointers' = pointers
                \/ \E h \in Handler : MapAccepts(h) \/ ReduceAccepts(h)
             /\ \/ markers' = markers
                \/ \E h \in Handler : ReduceAccepts(h)
             /\ emits' = emits
  BY <1>3, Zenon
  DEF Start, Map, ReduceRead, MapDoneRead, ReduceDoneRead, CheckLook, Collect, SweepStore,
      JudgeTake, runVars, taskVars, sinkVars, setupVars, resultVars
<1>4. ASSUME NEW hh \in Handler, Step(hh)
      PROVE  /\ \/ splits' = splits
                \/ \E s \in Split : Stage(s)
                \/ \E h \in Handler : MapAccepts(h)
             /\ \/ pointers' = pointers
                \/ \E h \in Handler : MapAccepts(h) \/ ReduceAccepts(h)
             /\ \/ markers' = markers
                \/ \E h \in Handler : ReduceAccepts(h)
             /\ emits' = emits
  BY <1>4, Zenon
  DEF Step, MapCommit, Reduce, ReduceCommit, RetireTask, MapDoneAccept, SinkCommit,
      ReduceDoneAccept, Discard, CheckTake, Unreached, FanOut, SinkFinish, Finish, SweepSink,
      JudgeLoser, Judge, Retire, runVars, taskVars, sinkVars, setupVars, resultVars, MapAccepts,
      ReduceAccepts
<1>5. CASE Wrong
  BY <1>5, Zenon
  DEF Wrong, Relaunch, FailNow, Abandon, Move, FinishFails, MoveCollection, Backup, runVars,
      taskVars, sinkVars, setupVars, resultVars
<1>6. CASE Reader
  BY <1>6, Zenon
  DEF Reader, Wait, Collected, ReadPartition, runVars, taskVars, sinkVars, setupVars, resultVars
<1> QED
  BY <1>1, <1>2, <1>3, <1>4, <1>5, <1>6, Zenon DEF Next

(* The phases. *)
LEMMA PhaseWrites ==
  ASSUME [Next]_vars
  PROVE  \/ phase' = phase
         \/ StartRun /\ phase = "none" /\ phase' = "map"
         \/ FailNow
         \/ \E h \in Handler :
              \/ FanOut(h) /\ StillHeld(h) /\ phase' = "reduce"
              \/ Completes(h) /\ phase' = "done"
              \/ Fails(h) /\ phase' = "failed"
<1>1. CASE UNCHANGED vars
  BY <1>1, Zenon DEF vars, runVars, taskVars, sinkVars, setupVars, resultVars
<1>2. CASE Setup
  BY <1>2, Zenon
  DEF Setup, AlreadySetUp, StartRun, Stage, runVars, taskVars, sinkVars, setupVars, resultVars
<1>3. ASSUME NEW hh \in Handler, Start(hh)
      PROVE  \/ phase' = phase
             \/ StartRun /\ phase = "none" /\ phase' = "map"
             \/ FailNow
             \/ \E h \in Handler :
                  \/ FanOut(h) /\ StillHeld(h) /\ phase' = "reduce"
                  \/ Completes(h) /\ phase' = "done"
                  \/ Fails(h) /\ phase' = "failed"
  BY <1>3, Zenon
  DEF Start, Map, ReduceRead, MapDoneRead, ReduceDoneRead, CheckLook, Collect, SweepStore,
      JudgeTake, runVars, taskVars, sinkVars, setupVars, resultVars
<1>4. ASSUME NEW hh \in Handler, Step(hh)
      PROVE  \/ phase' = phase
             \/ StartRun /\ phase = "none" /\ phase' = "map"
             \/ FailNow
             \/ \E h \in Handler :
                  \/ FanOut(h) /\ StillHeld(h) /\ phase' = "reduce"
                  \/ Completes(h) /\ phase' = "done"
                  \/ Fails(h) /\ phase' = "failed"
  BY <1>4, Zenon
  DEF Step, MapCommit, Reduce, ReduceCommit, RetireTask, MapDoneAccept, SinkCommit,
      ReduceDoneAccept, Discard, CheckTake, Unreached, FanOut, SinkFinish, Finish, SweepSink,
      JudgeLoser, Judge, Retire, runVars, taskVars, sinkVars, setupVars, resultVars, Completes,
      Fails
<1>5. CASE Wrong
  BY <1>5, Zenon
  DEF Wrong, Relaunch, Abandon, Move, FinishFails, MoveCollection, Backup, runVars, taskVars,
      sinkVars, setupVars, resultVars, Fails
<1>6. CASE Reader
  BY <1>6, Zenon
  DEF Reader, Wait, Collected, ReadPartition, runVars, taskVars, sinkVars, setupVars, resultVars
<1> QED
  BY <1>1, <1>2, <1>3, <1>4, <1>5, <1>6, Zenon DEF Next

(* What is queued. *)
LEMMA QueueGrows ==
  ASSUME [Next]_vars, NEW t \in queued', t \notin queued
  PROVE  \/ StartRun /\ phase = "none" /\ \E s \in Split : t = [kind |-> "map", split |-> s, copy |-> First]
         \/ \E x \in queued, c \in Copy : Backup(x, c) /\ t = [x EXCEPT !.copy = c]
         \/ FailNow /\ t \in Ending
         \/ \E h \in Handler :
              \/ MapCommit(h) /\ StillTask(h) /\ t = MapDone(Attempt(h))
              \/ ReduceCommit(h) /\ StillTask(h) /\ t = ReduceDone(Attempt(h), job[h].saw)
              \/ MapAccepts(h) /\ t \in Checking("mapCheck", job[h].task.att.task.split)
              \/ ReduceAccepts(h) /\ t \in Checking("reduceCheck", job[h].task.att.task.part)
              \/ ReduceAccepts(h) /\ t \in Collecting(job[h].task.att, job[h].task.runs)
              \/ Discard(h) /\ StillHeld(h) /\ At(h, "mapDone", "discard")
                   /\ t \in Collecting(job[h].task.att, RunsOf(job[h].task.att))
              \/ Discard(h) /\ StillHeld(h) /\ At(h, "reduceDone", "discard")
                   /\ t \in Collecting(job[h].task.att, job[h].task.runs)
              \/ FanOut(h) /\ StillHeld(h) /\ \E p \in PartitionsOf(pointers) :
                   t = [kind |-> "reduce", part |-> p, copy |-> First]
              \/ (Completes(h) \/ Fails(h)) /\ t \in Ending
<1>1. CASE UNCHANGED vars
  BY <1>1, Zenon DEF vars, runVars, taskVars, sinkVars, setupVars, resultVars
<1>2. CASE Setup
  BY <1>2, Zenon
  DEF Setup, AlreadySetUp, StartRun, Stage, runVars, taskVars, sinkVars, setupVars, resultVars
<1>3. ASSUME NEW hh \in Handler, Start(hh)
      PROVE  \/ StartRun /\ phase = "none" /\ \E s \in Split : t = [kind |-> "map", split |-> s, copy |-> First]
             \/ \E x \in queued, c \in Copy : Backup(x, c) /\ t = [x EXCEPT !.copy = c]
             \/ FailNow /\ t \in Ending
             \/ \E h \in Handler :
                  \/ MapCommit(h) /\ StillTask(h) /\ t = MapDone(Attempt(h))
                  \/ ReduceCommit(h) /\ StillTask(h) /\ t = ReduceDone(Attempt(h), job[h].saw)
                  \/ MapAccepts(h) /\ t \in Checking("mapCheck", job[h].task.att.task.split)
                  \/ ReduceAccepts(h) /\ t \in Checking("reduceCheck", job[h].task.att.task.part)
                  \/ ReduceAccepts(h) /\ t \in Collecting(job[h].task.att, job[h].task.runs)
                  \/ Discard(h) /\ StillHeld(h) /\ At(h, "mapDone", "discard")
                       /\ t \in Collecting(job[h].task.att, RunsOf(job[h].task.att))
                  \/ Discard(h) /\ StillHeld(h) /\ At(h, "reduceDone", "discard")
                       /\ t \in Collecting(job[h].task.att, job[h].task.runs)
                  \/ FanOut(h) /\ StillHeld(h) /\ \E p \in PartitionsOf(pointers) :
                       t = [kind |-> "reduce", part |-> p, copy |-> First]
                  \/ (Completes(h) \/ Fails(h)) /\ t \in Ending
  BY <1>3, Zenon
  DEF Start, Map, ReduceRead, MapDoneRead, ReduceDoneRead, CheckLook, Collect, SweepStore,
      JudgeTake, runVars, taskVars, sinkVars, setupVars, resultVars
<1>4. ASSUME NEW hh \in Handler, Step(hh)
      PROVE  \/ StartRun /\ phase = "none" /\ \E s \in Split : t = [kind |-> "map", split |-> s, copy |-> First]
             \/ \E x \in queued, c \in Copy : Backup(x, c) /\ t = [x EXCEPT !.copy = c]
             \/ FailNow /\ t \in Ending
             \/ \E h \in Handler :
                  \/ MapCommit(h) /\ StillTask(h) /\ t = MapDone(Attempt(h))
                  \/ ReduceCommit(h) /\ StillTask(h) /\ t = ReduceDone(Attempt(h), job[h].saw)
                  \/ MapAccepts(h) /\ t \in Checking("mapCheck", job[h].task.att.task.split)
                  \/ ReduceAccepts(h) /\ t \in Checking("reduceCheck", job[h].task.att.task.part)
                  \/ ReduceAccepts(h) /\ t \in Collecting(job[h].task.att, job[h].task.runs)
                  \/ Discard(h) /\ StillHeld(h) /\ At(h, "mapDone", "discard")
                       /\ t \in Collecting(job[h].task.att, RunsOf(job[h].task.att))
                  \/ Discard(h) /\ StillHeld(h) /\ At(h, "reduceDone", "discard")
                       /\ t \in Collecting(job[h].task.att, job[h].task.runs)
                  \/ FanOut(h) /\ StillHeld(h) /\ \E p \in PartitionsOf(pointers) :
                       t = [kind |-> "reduce", part |-> p, copy |-> First]
                  \/ (Completes(h) \/ Fails(h)) /\ t \in Ending
  BY <1>4
  DEF Step, MapCommit, Reduce, ReduceCommit, RetireTask, MapDoneAccept, SinkCommit,
      ReduceDoneAccept, Discard, CheckTake, Unreached, FanOut, SinkFinish, Finish, SweepSink,
      JudgeLoser, Judge, Retire, runVars, taskVars, sinkVars, setupVars, resultVars, MapAccepts,
      ReduceAccepts, Completes, Fails, Replace, At
<1>5. CASE Wrong
  BY <1>5
  DEF Wrong, Relaunch, FailNow, Abandon, Move, FinishFails, MoveCollection, Backup, runVars,
      taskVars, sinkVars, setupVars, resultVars, Fails, Replace
<1>6. CASE Reader
  BY <1>6, Zenon
  DEF Reader, Wait, Collected, ReadPartition, runVars, taskVars, sinkVars, setupVars, resultVars
<1> QED
  BY <1>1, <1>2, <1>3, <1>4, <1>5, <1>6, Zenon DEF Next

(* What leaves the queues. *)
LEMMA QueueShrinks ==
  ASSUME [Next]_vars, NEW t \in queued, t \notin queued'
  PROVE  \/ StartRun /\ phase = "none"
         \/ t.kind = "gc"
         \/ \E h \in Handler :
              /\ job[h] # None /\ job[h].mine /\ job[h].task = t /\ Done(h)
              /\ \/ MapCommit(h) \/ ReduceCommit(h) \/ RetireTask(h) \/ MapAccepts(h) \/ ReduceAccepts(h)
                 \/ (StillHeld(h) /\ (Discard(h) \/ Unreached(h) \/ FanOut(h))) \/ Completes(h)
                 \/ (StillHeld(h) /\ FinishFails(h)) \/ SweepSink(h) \/ Move(h)
<1>1. CASE UNCHANGED vars
  BY <1>1, Zenon DEF vars, runVars, taskVars, sinkVars, setupVars, resultVars
<1>2. CASE Setup
  BY <1>2, Zenon
  DEF Setup, AlreadySetUp, StartRun, Stage, runVars, taskVars, sinkVars, setupVars, resultVars
<1>3. ASSUME NEW hh \in Handler, Start(hh)
      PROVE  \/ StartRun /\ phase = "none"
             \/ t.kind = "gc"
             \/ \E h \in Handler :
                  /\ job[h] # None /\ job[h].mine /\ job[h].task = t /\ Done(h)
                  /\ \/ MapCommit(h) \/ ReduceCommit(h) \/ RetireTask(h) \/ MapAccepts(h) \/ ReduceAccepts(h)
                     \/ (StillHeld(h) /\ (Discard(h) \/ Unreached(h) \/ FanOut(h))) \/ Completes(h)
                     \/ (StillHeld(h) /\ FinishFails(h)) \/ SweepSink(h) \/ Move(h)
  BY <1>3, Zenon
  DEF Start, Map, ReduceRead, MapDoneRead, ReduceDoneRead, CheckLook, Collect, SweepStore,
      JudgeTake, runVars, taskVars, sinkVars, setupVars, resultVars
<1>4. ASSUME NEW hh \in Handler, Step(hh)
      PROVE  \/ StartRun /\ phase = "none"
             \/ t.kind = "gc"
             \/ \E h \in Handler :
                  /\ job[h] # None /\ job[h].mine /\ job[h].task = t /\ Done(h)
                  /\ \/ MapCommit(h) \/ ReduceCommit(h) \/ RetireTask(h) \/ MapAccepts(h) \/ ReduceAccepts(h)
                     \/ (StillHeld(h) /\ (Discard(h) \/ Unreached(h) \/ FanOut(h))) \/ Completes(h)
                     \/ (StillHeld(h) /\ FinishFails(h)) \/ SweepSink(h) \/ Move(h)
  BY <1>4, Zenon
  DEF Step, MapCommit, Reduce, ReduceCommit, RetireTask, MapDoneAccept, SinkCommit,
      ReduceDoneAccept, Discard, CheckTake, Unreached, FanOut, SinkFinish, Finish, SweepSink,
      JudgeLoser, Judge, Retire, runVars, taskVars, sinkVars, setupVars, resultVars, MapAccepts,
      ReduceAccepts, Completes, Replace, At, IsCheck, Decides, StillTask, StillHeld
<1>5. CASE Wrong
  BY <1>5
  DEF Wrong, Relaunch, FailNow, Abandon, Move, FinishFails, MoveCollection, Backup, runVars,
      taskVars, sinkVars, setupVars, resultVars, Replace, StillTask, StillHeld, Movable, At,
      IsCheck, Decides
<1>6. CASE Reader
  BY <1>6, Zenon
  DEF Reader, Wait, Collected, ReadPartition, runVars, taskVars, sinkVars, setupVars, resultVars
<1> QED
  BY <1>1, <1>2, <1>3, <1>4, <1>5, <1>6, Zenon DEF Next

(* The error queues. *)
LEMMA ErrorsWrites ==
  ASSUME [Next]_vars
  PROVE  /\ \A t \in errors' \ errors :
              \/ \E h \in Handler : Move(h) /\ StillTask(h) /\ t = job[h].task
              \/ t \in queued /\ t.kind = "gc" /\ MoveCollection(t)
         /\ \A t \in errors \ errors' : \E h \in Handler : Loses(h) /\ t = job[h].task
<1>1. CASE UNCHANGED vars
  BY <1>1, Zenon DEF vars, runVars, taskVars, sinkVars, setupVars, resultVars
<1>2. CASE Setup
  BY <1>2, Zenon
  DEF Setup, AlreadySetUp, StartRun, Stage, runVars, taskVars, sinkVars, setupVars, resultVars
<1>3. ASSUME NEW hh \in Handler, Start(hh)
      PROVE  /\ \A t \in errors' \ errors :
                  \/ \E h \in Handler : Move(h) /\ StillTask(h) /\ t = job[h].task
                  \/ t \in queued /\ t.kind = "gc" /\ MoveCollection(t)
             /\ \A t \in errors \ errors' : \E h \in Handler : Loses(h) /\ t = job[h].task
  BY <1>3, Zenon
  DEF Start, Map, ReduceRead, MapDoneRead, ReduceDoneRead, CheckLook, Collect, SweepStore,
      JudgeTake, runVars, taskVars, sinkVars, setupVars, resultVars
<1>4. ASSUME NEW hh \in Handler, Step(hh)
      PROVE  /\ \A t \in errors' \ errors :
                  \/ \E h \in Handler : Move(h) /\ StillTask(h) /\ t = job[h].task
                  \/ t \in queued /\ t.kind = "gc" /\ MoveCollection(t)
             /\ \A t \in errors \ errors' : \E h \in Handler : Loses(h) /\ t = job[h].task
  BY <1>4, Zenon
  DEF Step, MapCommit, Reduce, ReduceCommit, RetireTask, MapDoneAccept, SinkCommit,
      ReduceDoneAccept, Discard, CheckTake, Unreached, FanOut, SinkFinish, Finish, SweepSink,
      JudgeLoser, Judge, Retire, runVars, taskVars, sinkVars, setupVars, resultVars, Loses
<1>5. CASE Wrong
  BY <1>5, Zenon
  DEF Wrong, Relaunch, FailNow, Abandon, Move, FinishFails, MoveCollection, Backup, runVars,
      taskVars, sinkVars, setupVars, resultVars, StillTask
<1>6. CASE Reader
  BY <1>6, Zenon
  DEF Reader, Wait, Collected, ReadPartition, runVars, taskVars, sinkVars, setupVars, resultVars
<1> QED
  BY <1>1, <1>2, <1>3, <1>4, <1>5, <1>6, Zenon DEF Next

(* The sink. *)
LEMMA SinkWrites ==
  ASSUME [Next]_vars
  PROVE  /\ \A o \in staged' \ staged :
              \E h \in Handler : Reduce(h) /\ o = Output(Attempt(h), job[h].saw)
         /\ \A o \in staged \ staged' : \E h \in Handler : SweepSink(h) /\ o.att \notin job[h].saw
         /\ parts' = parts \/ \E h \in Handler : SinkCommit(h)
         /\ manifest' = manifest \/ \E h \in Handler : SinkFinish(h)
<1>1. CASE UNCHANGED vars
  BY <1>1, Zenon DEF vars, runVars, taskVars, sinkVars, setupVars, resultVars
<1>2. CASE Setup
  BY <1>2, Zenon
  DEF Setup, AlreadySetUp, StartRun, Stage, runVars, taskVars, sinkVars, setupVars, resultVars
<1>3. ASSUME NEW hh \in Handler, Start(hh)
      PROVE  /\ \A o \in staged' \ staged :
                  \E h \in Handler : Reduce(h) /\ o = Output(Attempt(h), job[h].saw)
             /\ \A o \in staged \ staged' : \E h \in Handler : SweepSink(h) /\ o.att \notin job[h].saw
             /\ parts' = parts \/ \E h \in Handler : SinkCommit(h)
             /\ manifest' = manifest \/ \E h \in Handler : SinkFinish(h)
  BY <1>3, Zenon
  DEF Start, Map, ReduceRead, MapDoneRead, ReduceDoneRead, CheckLook, Collect, SweepStore,
      JudgeTake, runVars, taskVars, sinkVars, setupVars, resultVars
<1>4. ASSUME NEW hh \in Handler, Step(hh)
      PROVE  /\ \A o \in staged' \ staged :
                  \E h \in Handler : Reduce(h) /\ o = Output(Attempt(h), job[h].saw)
             /\ \A o \in staged \ staged' : \E h \in Handler : SweepSink(h) /\ o.att \notin job[h].saw
             /\ parts' = parts \/ \E h \in Handler : SinkCommit(h)
             /\ manifest' = manifest \/ \E h \in Handler : SinkFinish(h)
  BY <1>4, Zenon
  DEF Step, MapCommit, Reduce, ReduceCommit, RetireTask, MapDoneAccept, SinkCommit,
      ReduceDoneAccept, Discard, CheckTake, Unreached, FanOut, SinkFinish, Finish, SweepSink,
      JudgeLoser, Judge, Retire, runVars, taskVars, sinkVars, setupVars, resultVars, Readable
<1>5. CASE Wrong
  BY <1>5, Zenon
  DEF Wrong, Relaunch, FailNow, Abandon, Move, FinishFails, MoveCollection, Backup, runVars,
      taskVars, sinkVars, setupVars, resultVars
<1>6. CASE Reader
  BY <1>6, Zenon
  DEF Reader, Wait, Collected, ReadPartition, runVars, taskVars, sinkVars, setupVars, resultVars
<1> QED
  BY <1>1, <1>2, <1>3, <1>4, <1>5, <1>6, Zenon DEF Next

(* What is deleted from the store. *)
LEMMA StoreShrinks ==
  ASSUME [Next]_vars, NEW r \in store, r \notin store'
  PROVE  \/ \E h \in Handler : At(h, "map", "commit") /\ r \in RunsOf(Attempt(h)) /\ Done(h)
         \/ \E t \in queued : t.kind = "gc" /\ r \in t.runs
         \/ \E t \in queued : t.kind = "sweep"
<1>1. CASE UNCHANGED vars
  BY <1>1, Zenon DEF vars, runVars, taskVars, sinkVars, setupVars, resultVars
<1>2. CASE Setup
  BY <1>2, Zenon
  DEF Setup, AlreadySetUp, StartRun, Stage, runVars, taskVars, sinkVars, setupVars, resultVars
<1>3. ASSUME NEW hh \in Handler, Start(hh)
      PROVE  \/ \E h \in Handler : At(h, "map", "commit") /\ r \in RunsOf(Attempt(h)) /\ Done(h)
             \/ \E t \in queued : t.kind = "gc" /\ r \in t.runs
             \/ \E t \in queued : t.kind = "sweep"
  BY <1>3, Zenon
  DEF Start, Map, ReduceRead, MapDoneRead, ReduceDoneRead, CheckLook, Collect, SweepStore,
      JudgeTake, runVars, taskVars, sinkVars, setupVars, resultVars, Put, Deleted
<1>4. ASSUME NEW hh \in Handler, Step(hh)
      PROVE  \/ \E h \in Handler : At(h, "map", "commit") /\ r \in RunsOf(Attempt(h)) /\ Done(h)
             \/ \E t \in queued : t.kind = "gc" /\ r \in t.runs
             \/ \E t \in queued : t.kind = "sweep"
  BY <1>4, Zenon
  DEF Step, MapCommit, Reduce, ReduceCommit, RetireTask, MapDoneAccept, SinkCommit,
      ReduceDoneAccept, Discard, CheckTake, Unreached, FanOut, SinkFinish, Finish, SweepSink,
      JudgeLoser, Judge, Retire, runVars, taskVars, sinkVars, setupVars, resultVars, Abort, Deleted
<1>5. CASE Wrong
  BY <1>5
  DEF Wrong, Relaunch, FailNow, Abandon, Move, FinishFails, MoveCollection, Backup, runVars,
      taskVars, sinkVars, setupVars, resultVars, Abort, Deleted, Movable, At
<1>6. CASE Reader
  BY <1>6, Zenon
  DEF Reader, Wait, Collected, ReadPartition, runVars, taskVars, sinkVars, setupVars, resultVars
<1> QED
  BY <1>1, <1>2, <1>3, <1>4, <1>5, <1>6, Zenon DEF Next

(* What was reported and read. *)
LEMMA ResultWrites ==
  ASSUME [Next]_vars
  PROVE  /\ told' = told \/ Wait \/ Collected
         /\ got' = got \/ \E p \in Partition : ReadPartition(p)
BY Zenon DEF Next, Reader, vars, resultVars, Wait, Collected, ReadPartition

(* The launcher. *)
LEMMA LauncherWrites ==
  ASSUME [Next]_vars
  PROVE  \/ launcher' = launcher /\ unstaged' = unstaged
         \/ AlreadySetUp \/ StartRun \/ Relaunch
         \/ \E s \in Split : Stage(s)
<1>1. CASE UNCHANGED vars
  BY <1>1, Zenon DEF vars, runVars, taskVars, sinkVars, setupVars, resultVars
<1>2. CASE Setup
  BY <1>2, Zenon DEF Setup, runVars, taskVars, sinkVars, setupVars, resultVars
<1>3. ASSUME NEW hh \in Handler, Start(hh)
      PROVE  \/ launcher' = launcher /\ unstaged' = unstaged
             \/ AlreadySetUp \/ StartRun \/ Relaunch
             \/ \E s \in Split : Stage(s)
  BY <1>3, Zenon
  DEF Start, Map, ReduceRead, MapDoneRead, ReduceDoneRead, CheckLook, Collect, SweepStore,
      JudgeTake, runVars, taskVars, sinkVars, setupVars, resultVars
<1>4. ASSUME NEW hh \in Handler, Step(hh)
      PROVE  \/ launcher' = launcher /\ unstaged' = unstaged
             \/ AlreadySetUp \/ StartRun \/ Relaunch
             \/ \E s \in Split : Stage(s)
  BY <1>4, Zenon
  DEF Step, MapCommit, Reduce, ReduceCommit, RetireTask, MapDoneAccept, SinkCommit,
      ReduceDoneAccept, Discard, CheckTake, Unreached, FanOut, SinkFinish, Finish, SweepSink,
      JudgeLoser, Judge, Retire, runVars, taskVars, sinkVars, setupVars, resultVars
<1>5. CASE Wrong
  BY <1>5, Zenon
  DEF Wrong, FailNow, Abandon, Move, FinishFails, MoveCollection, Backup, runVars, taskVars,
      sinkVars, setupVars, resultVars
<1>6. CASE Reader
  BY <1>6, Zenon
  DEF Reader, Wait, Collected, ReadPartition, runVars, taskVars, sinkVars, setupVars, resultVars
<1> QED
  BY <1>1, <1>2, <1>3, <1>4, <1>5, <1>6, Zenon DEF Next

(* A claim gives its handler a job, *)
LEMMA StartsAssign ==
  ASSUME TaskType, DocsType, SinkType, NEW h \in Handler
  PROVE  /\ \A t \in queued : Map(h, t) =>
              /\ t \in MapTask /\ t.split \in Split
              /\ Assign(h, t, None, IF t.split \in splits THEN "commit" ELSE "retire", {})
         /\ \A t \in queued : ReduceRead(h, t) =>
              /\ t \in ReduceTask /\ t.part \in Partition
              /\ PointersOf(t.part) \in SUBSET Seen
              /\ Assign(h, t, None, IF PointersOf(t.part) = {} THEN "retire" ELSE "merge",
                        PointersOf(t.part))
         /\ \A t \in queued : MapDoneRead(h, t) =>
              /\ t \in MapDoneTask /\ <<"split", t.att.task.split>> \in DocSets
              /\ Assign(h, t, <<"split", t.att.task.split>>,
                        IF Terminal \/ t.att.task.split \notin splits THEN "discard" ELSE "accept", {})
         /\ \A t \in queued : ReduceDoneRead(h, t) =>
              /\ t \in ReduceDoneTask /\ <<"result", t.att.task.part>> \in DocSets
              /\ PointersOf(t.att.task.part) \in SUBSET Seen
              /\ Assign(h, t, <<"result", t.att.task.part>>,
                        IF \/ Terminal \/ t.att.task.part \in markers
                           \/ PointersOf(t.att.task.part) = {} THEN "discard"
                        ELSE IF PointersOf(t.att.task.part) = t.runs THEN "sink"
                        ELSE "move", PointersOf(t.att.task.part))
         /\ \A t \in queued : CheckLook(h, t) =>
              /\ t \in MapCheckTask \cup ReduceCheckTask
              /\ \/ Assign(h, t, None, IF Reached(t, phase) THEN "take" ELSE "retire", {})
                 \/ Assign(h, t, None, "take", {})
         /\ \A t \in queued : SweepStore(h, t) =>
              /\ t \in SweepTask
              /\ {parts[p] : p \in Partition} \in SUBSET Seen
              /\ Assign(h, t, None, "sink", {parts[p] : p \in Partition})
         /\ \A t \in errors : JudgeTake(h, t) =>
              t \in FailedTask /\ Assign(h, t, <<"state">>, "judge", {})
<1>1. \A t \in queued : t \in Tasks
  BY Zenon DEF TaskType
<1>2. \A p \in Partition : PointersOf(p) \in SUBSET Seen
  BY Zenon DEF PointersOf, DocsType, Seen
<1>3. {parts[p] : p \in Partition} \in SUBSET Seen
  BY Zenon DEF SinkType, Seen
<1>4. /\ \A s \in Split : <<"split", s>> \in DocSets
      /\ \A p \in Partition : <<"result", p>> \in DocSets
  BY Zenon DEF DocSets
<1>5. ASSUME NEW t \in queued, Map(h, t)
      PROVE  /\ t \in MapTask /\ t.split \in Split
             /\ Assign(h, t, None, IF t.split \in splits THEN "commit" ELSE "retire", {})
  BY <1>1, <1>5, KindOfTask, TaskFields, Zenon DEF Map, Begin
<1>6. ASSUME NEW t \in queued, ReduceRead(h, t)
      PROVE  /\ t \in ReduceTask /\ t.part \in Partition
             /\ PointersOf(t.part) \in SUBSET Seen
             /\ Assign(h, t, None, IF PointersOf(t.part) = {} THEN "retire" ELSE "merge",
                       PointersOf(t.part))
  BY <1>1, <1>2, <1>6, KindOfTask, TaskFields, Zenon DEF ReduceRead, Begin
<1>7. ASSUME NEW t \in queued, MapDoneRead(h, t)
      PROVE  /\ t \in MapDoneTask /\ <<"split", t.att.task.split>> \in DocSets
             /\ Assign(h, t, <<"split", t.att.task.split>>,
                       IF Terminal \/ t.att.task.split \notin splits THEN "discard" ELSE "accept", {})
  BY <1>1, <1>4, <1>7, KindOfTask, TaskFields, Zenon DEF MapDoneRead, Begin
<1>8. ASSUME NEW t \in queued, ReduceDoneRead(h, t)
      PROVE  /\ t \in ReduceDoneTask /\ <<"result", t.att.task.part>> \in DocSets
             /\ PointersOf(t.att.task.part) \in SUBSET Seen
             /\ Assign(h, t, <<"result", t.att.task.part>>,
                       IF \/ Terminal \/ t.att.task.part \in markers
                          \/ PointersOf(t.att.task.part) = {} THEN "discard"
                       ELSE IF PointersOf(t.att.task.part) = t.runs THEN "sink"
                       ELSE "move", PointersOf(t.att.task.part))
  BY <1>1, <1>2, <1>4, <1>8, KindOfTask, TaskFields, Zenon DEF ReduceDoneRead, Begin
<1>9. ASSUME NEW t \in queued, CheckLook(h, t)
      PROVE  /\ t \in MapCheckTask \cup ReduceCheckTask
             /\ \/ Assign(h, t, None, IF Reached(t, phase) THEN "take" ELSE "retire", {})
                \/ Assign(h, t, None, "take", {})
  BY <1>1, <1>9, KindOfTask, Zenon DEF CheckLook, Begin
<1>10. ASSUME NEW t \in queued, SweepStore(h, t)
       PROVE  t \in SweepTask /\ Assign(h, t, None, "sink", {parts[p] : p \in Partition})
  BY <1>1, <1>10, KindOfTask, Zenon DEF SweepStore, Begin
<1>11. ASSUME NEW t \in errors, JudgeTake(h, t)
       PROVE  t \in FailedTask /\ Assign(h, t, <<"state">>, "judge", {})
  BY <1>11, Zenon DEF JudgeTake, Begin, TaskType
<1> QED
  BY <1>3, <1>5, <1>6, <1>7, <1>8, <1>9, <1>10, <1>11, Zenon

(* that is a job, *)
LEMMA StartsType ==
  ASSUME TaskType, DocsType, SinkType, NEW h \in Handler, Start(h)
  PROVE  \/ job' = job /\ tries' = tries
         \/ \E t \in Tasks, d \in DocSets, step \in Steps, saw \in SUBSET Seen :
              Assign(h, t, d, step, saw)
<1>1. None \in DocSets /\ <<"state">> \in DocSets /\ {} \in SUBSET Seen
  BY Zenon DEF DocSets
<1>2. {"commit", "retire", "merge", "discard", "accept", "sink", "move", "take", "judge"} \subseteq Steps
  BY Zenon DEF Steps
<1>3. queued \subseteq Tasks /\ errors \subseteq Tasks
  BY Zenon DEF TaskType, Tasks
<1>4. CASE \E t \in queued : Collect(h, t)
  BY <1>4, Zenon DEF Collect
<1>5. CASE \E t \in queued : Map(h, t) \/ CheckLook(h, t) \/ SweepStore(h, t)
  BY <1>1, <1>2, <1>3, <1>5, StartsAssign, Zenon
<1>6. CASE \E t \in queued : ReduceRead(h, t)
  BY <1>1, <1>2, <1>3, <1>6, StartsAssign, Zenon
<1>7. CASE \E t \in queued : MapDoneRead(h, t)
  BY <1>1, <1>2, <1>3, <1>7, StartsAssign
<1>8. CASE \E t \in queued : ReduceDoneRead(h, t)
  BY <1>1, <1>2, <1>3, <1>8, StartsAssign, Zenon
<1>9. CASE \E t \in errors : JudgeTake(h, t)
  BY <1>1, <1>2, <1>3, <1>9, StartsAssign, Zenon
<1> QED
  BY <1>4, <1>5, <1>6, <1>7, <1>8, <1>9, Zenon DEF Start

(* and every other step ends one or is one of four that go on. *)
LEMMA StepJobs ==
  ASSUME NEW h \in Handler, Step(h)
  PROVE  /\ job[h] # None /\ tries' = tries
         /\ \/ Done(h)
            \/ Reduce(h) /\ Goes(h, "commit")
            \/ SinkCommit(h) /\ Goes(h, "accept")
            \/ SinkFinish(h) /\ Goes(h, "finish")
            \/ CheckTake(h)
BY Zenon
DEF Step, MapCommit, Reduce, ReduceCommit, RetireTask, MapDoneAccept, SinkCommit, ReduceDoneAccept,
    Discard, CheckTake, Unreached, FanOut, SinkFinish, Finish, SweepSink, JudgeLoser, Judge, Retire,
    At, IsCheck, Decides, Judging

(* So a handler goes on as it was, or takes a step of its own that is not  *)
(* its last.                                                               *)
LEMMA JobWrites ==
  ASSUME JobType, TriesType, TaskType, DocsType, SinkType, [Next]_vars
  PROVE  /\ job' \in [Handler -> Jobs \cup {None}]
         /\ tries' \in [WorkTask -> Nat]
         /\ \A x \in WorkTask : tries[x] <= tries'[x]
         /\ \A g \in Handler : \/ Persists(g)
                               \/ Start(g)
                               \/ Reduce(g) /\ Goes(g, "commit")
                               \/ SinkCommit(g) /\ Goes(g, "accept")
                               \/ SinkFinish(g) /\ Goes(g, "finish")
                               \/ CheckTake(g)
<1>1. CASE job' = job /\ tries' = tries
  BY <1>1 DEF JobType, TriesType, Persists, Jobs
<1>2. ASSUME NEW h \in Handler, Start(h)
      PROVE  /\ job' \in [Handler -> Jobs \cup {None}]
             /\ tries' \in [WorkTask -> Nat]
             /\ \A x \in WorkTask : tries[x] <= tries'[x]
             /\ \A g \in Handler \ {h} : Persists(g)
  <2>1. CASE job' = job /\ tries' = tries
    BY <2>1, <1>1, Zenon DEF JobType, TriesType, Persists
  <2>2. CASE \E t \in Tasks, d \in DocSets, step \in Steps, saw \in SUBSET Seen :
               Assign(h, t, d, step, saw)
    BY <2>2, AssignSteps, Zenon
  <2> QED
    BY <1>2, <2>1, <2>2, StartsType, Zenon
<1>3. ASSUME NEW h \in Handler, Done(h), tries' = tries
      PROVE  /\ job' \in [Handler -> Jobs \cup {None}]
             /\ tries' \in [WorkTask -> Nat]
             /\ \A x \in WorkTask : tries[x] <= tries'[x]
             /\ \A g \in Handler : Persists(g)
  BY <1>3, DoneSteps DEF TriesType
<1>4. ASSUME NEW h \in Handler, Step(h)
      PROVE  /\ job' \in [Handler -> Jobs \cup {None}]
             /\ tries' \in [WorkTask -> Nat]
             /\ \A x \in WorkTask : tries[x] <= tries'[x]
             /\ \A g \in Handler \ {h} : Persists(g)
             /\ \/ Persists(h)
                \/ Reduce(h) /\ Goes(h, "commit")
                \/ SinkCommit(h) /\ Goes(h, "accept")
                \/ SinkFinish(h) /\ Goes(h, "finish")
                \/ CheckTake(h)
  <2>1. job[h] # None /\ tries' = tries
    BY <1>4, StepJobs, Zenon
  <2>2. tries' \in [WorkTask -> Nat] /\ \A x \in WorkTask : tries[x] <= tries'[x]
    BY <2>1 DEF TriesType
  <2>3. CASE Done(h)
    BY <2>3, <2>1, <1>3, Zenon
  <2>4. "commit" \in Steps /\ "accept" \in Steps /\ "finish" \in Steps
    BY Zenon DEF Steps
  <2>5. CASE Reduce(h) /\ Goes(h, "commit")
    BY <2>5, <2>1, <2>2, <2>4, GoesSteps, Zenon
  <2>6. CASE SinkCommit(h) /\ Goes(h, "accept")
    BY <2>6, <2>1, <2>2, <2>4, GoesSteps, Zenon
  <2>7. CASE SinkFinish(h) /\ Goes(h, "finish")
    BY <2>7, <2>1, <2>2, <2>4, GoesSteps, Zenon
  <2>8. CASE CheckTake(h)
    BY <2>8, <2>2, TakeSteps, Zenon DEF DocsType
  <2> QED
    BY <1>4, <2>3, <2>5, <2>6, <2>7, <2>8, StepJobs, Zenon
<1>5. CASE Setup
  BY <1>5, <1>1, Zenon DEF Setup, AlreadySetUp, StartRun, Stage
<1>6. CASE Wrong
  <2>1. CASE \E h \in Handler : Abandon(h) \/ Move(h) \/ FinishFails(h)
    BY <2>1, <1>3, Zenon DEF Abandon, Move, FinishFails
  <2>2. CASE Relaunch \/ FailNow \/ \E t \in queued : MoveCollection(t) \/ \E c \in Copy : Backup(t, c)
    BY <2>2, <1>1, Zenon DEF Relaunch, FailNow, MoveCollection, Backup
  <2> QED
    BY <1>6, <2>1, <2>2, Zenon DEF Wrong
<1>7. CASE Reader
  BY <1>7, <1>1, Zenon DEF Reader, Wait, Collected, ReadPartition
<1>8. CASE UNCHANGED vars
  BY <1>8, <1>1, Zenon DEF vars
<1> QED
  BY <1>2, <1>4, <1>5, <1>6, <1>7, <1>8, Zenon DEF Next

(* A handler's new job, and what the claim takes from others, *)
Claimed(g, t, d, step, saw) ==
  /\ job[g] = None
  /\ job'[g].task = t /\ job'[g].mine /\ job'[g].set = d /\ job'[g].saw = saw /\ job'[g].step = step
  /\ t \in WorkTask => tries'[t] = tries[t] + 1 /\ job'[g].try = tries'[t]
  /\ \A o \in Handler \ {g} :
       /\ Persists(o)
       /\ job'[o] # None => /\ ~(job'[o].mine /\ job'[o].task = t)
                            /\ d # None => job'[o].set # d

(* and its next step. *)
GoesOn(g, step) ==
  /\ job[g] # None
  /\ job'[g].task = job[g].task /\ job'[g].try = job[g].try /\ job'[g].mine = job[g].mine
  /\ job'[g].set = job[g].set /\ job'[g].saw = job[g].saw /\ job'[g].step = step
  /\ \A o \in Handler \ {g} : Persists(o)

Took(g) ==
  /\ job[g] # None
  /\ job'[g].task = job[g].task /\ job'[g].try = job[g].try /\ job'[g].mine = job[g].mine
  /\ job'[g].set = <<"state">> /\ job'[g].saw = {phase} /\ job'[g].step = "decide"
  /\ \A o \in Handler \ {g} :
       Persists(o) /\ (job'[o] # None /\ <<"state">> # None => job'[o].set # <<"state">>)

(* The claims of each kind. *)
MapStarts(g) == \E t \in queued :
  /\ Map(g, t) /\ t \in MapTask
  /\ Claimed(g, t, None, IF t.split \in splits THEN "commit" ELSE "retire", {})

ReduceStarts(g) == \E t \in queued :
  /\ ReduceRead(g, t) /\ t \in ReduceTask
  /\ Claimed(g, t, None, IF PointersOf(t.part) = {} THEN "retire" ELSE "merge", PointersOf(t.part))

MapDoneStarts(g) == \E t \in queued :
  /\ MapDoneRead(g, t) /\ t \in MapDoneTask
  /\ Claimed(g, t, <<"split", t.att.task.split>>,
             IF Terminal \/ t.att.task.split \notin splits THEN "discard" ELSE "accept", {})

ReduceDoneStarts(g) == \E t \in queued :
  /\ ReduceDoneRead(g, t) /\ t \in ReduceDoneTask
  /\ Claimed(g, t, <<"result", t.att.task.part>>,
             IF \/ Terminal \/ t.att.task.part \in markers
                \/ PointersOf(t.att.task.part) = {} THEN "discard"
             ELSE IF PointersOf(t.att.task.part) = t.runs THEN "sink"
             ELSE "move", PointersOf(t.att.task.part))

CheckStarts(g) == \E t \in queued :
  /\ CheckLook(g, t) /\ t \in MapCheckTask \cup ReduceCheckTask
  /\ \/ Claimed(g, t, None, IF Reached(t, phase) THEN "take" ELSE "retire", {})
     \/ Claimed(g, t, None, "take", {})

SweepStarts(g) == \E t \in queued :
  /\ SweepStore(g, t) /\ t \in SweepTask
  /\ Claimed(g, t, None, "sink", {parts[p] : p \in Partition})

JudgeStarts(g) == \E t \in errors :
  /\ JudgeTake(g, t) /\ t \in FailedTask
  /\ Claimed(g, t, <<"state">>, "judge", {})

(* All that becomes of a handler. *)
JobCase(g) ==
  \/ Persists(g)
  \/ MapStarts(g) \/ ReduceStarts(g) \/ MapDoneStarts(g) \/ ReduceDoneStarts(g)
  \/ CheckStarts(g) \/ SweepStarts(g) \/ JudgeStarts(g)
  \/ Reduce(g) /\ GoesOn(g, "commit")
  \/ SinkCommit(g) /\ GoesOn(g, "accept")
  \/ SinkFinish(g) /\ GoesOn(g, "finish")
  \/ CheckTake(g) /\ Took(g)

(* Every step leaves a handler with its job in one of these ways. *)
LEMMA JobCases ==
  ASSUME JobType, TriesType, TaskType, DocsType, SinkType, [Next]_vars, NEW g \in Handler
  PROVE  JobCase(g)
<1>1. ASSUME NEW t \in Tasks, NEW d \in DocSets, NEW step \in Steps, NEW saw \in SUBSET Seen,
             Assign(g, t, d, step, saw)
      PROVE  Claimed(g, t, d, step, saw)
  BY <1>1, AssignSteps DEF Claimed
<1>2. None \in DocSets /\ <<"state">> \in DocSets /\ {} \in SUBSET Seen
  BY Zenon DEF DocSets
<1>3. {"commit", "retire", "merge", "discard", "accept", "sink", "move", "take", "judge"} \subseteq Steps
  BY Zenon DEF Steps
<1>4. queued \subseteq Tasks /\ errors \subseteq Tasks
  BY Zenon DEF TaskType, Tasks
<1>5. CASE Start(g)
  <2>1. CASE \E t \in queued : Collect(g, t)
    BY <2>1, Zenon DEF Collect, JobCase, Persists, JobType, Jobs
  <2>2. ASSUME NEW t \in queued, Map(g, t)
        PROVE  JobCase(g)
    BY <1>1, <1>2, <1>3, <1>4, <2>2, StartsAssign, Zenon DEF JobCase, MapStarts
  <2>3. ASSUME NEW t \in queued, ReduceRead(g, t)
        PROVE  JobCase(g)
    BY <1>1, <1>2, <1>3, <1>4, <2>3, StartsAssign, Zenon DEF JobCase, ReduceStarts
  <2>4. ASSUME NEW t \in queued, MapDoneRead(g, t)
        PROVE  JobCase(g)
    <3> DEFINE d == <<"split", t.att.task.split>>
               step == IF Terminal \/ t.att.task.split \notin splits THEN "discard" ELSE "accept"
    <3>1. t \in MapDoneTask /\ d \in DocSets /\ Assign(g, t, d, step, {})
      BY <2>4, StartsAssign, Zenon
    <3>2. step \in Steps
      BY <1>3, Zenon
    <3> HIDE DEF d, step
    <3>3. Claimed(g, t, d, step, {})
      BY <1>1, <1>2, <1>4, <3>1, <3>2, Zenon
    <3> QED
      BY <2>4, <3>1, <3>3, Zenon DEF JobCase, MapDoneStarts, d, step
  <2>5. ASSUME NEW t \in queued, ReduceDoneRead(g, t)
        PROVE  JobCase(g)
    <3> DEFINE d == <<"result", t.att.task.part>>
               saw == PointersOf(t.att.task.part)
               step == IF Terminal \/ t.att.task.part \in markers \/ saw = {} THEN "discard"
                       ELSE IF saw = t.runs THEN "sink" ELSE "move"
    <3>1. t \in ReduceDoneTask /\ d \in DocSets /\ saw \in SUBSET Seen /\ Assign(g, t, d, step, saw)
      BY <2>5, StartsAssign, Zenon
    <3>2. step \in Steps
      BY <1>3, Zenon
    <3> HIDE DEF d, step, saw
    <3>3. Claimed(g, t, d, step, saw)
      BY <1>1, <1>4, <3>1, <3>2, Zenon
    <3> QED
      BY <2>5, <3>1, <3>3, Zenon DEF JobCase, ReduceDoneStarts, d, step, saw
  <2>6. ASSUME NEW t \in queued, CheckLook(g, t)
        PROVE  JobCase(g)
    BY <1>1, <1>2, <1>3, <1>4, <2>6, StartsAssign, Zenon DEF JobCase, CheckStarts
  <2>7. ASSUME NEW t \in queued, SweepStore(g, t)
        PROVE  JobCase(g)
    BY <1>1, <1>2, <1>3, <1>4, <2>7, StartsAssign, Zenon DEF JobCase, SweepStarts
  <2>8. ASSUME NEW t \in errors, JudgeTake(g, t)
        PROVE  JobCase(g)
    BY <1>1, <1>2, <1>3, <1>4, <2>8, StartsAssign, Zenon DEF JobCase, JudgeStarts
  <2> QED
    BY <1>5, <2>1, <2>2, <2>3, <2>4, <2>5, <2>6, <2>7, <2>8, Zenon DEF Start
<1>6. "commit" \in Steps /\ "accept" \in Steps /\ "finish" \in Steps
  BY Zenon DEF Steps
<1>7. CASE Reduce(g) /\ Goes(g, "commit")
  <2>1. job[g] # None
    BY <1>7, Zenon DEF Reduce, At
  <2> QED
    BY <1>6, <1>7, <2>1, GoesSteps, Zenon DEF GoesOn, JobCase
<1>8. CASE SinkCommit(g) /\ Goes(g, "accept")
  <2>1. job[g] # None
    BY <1>8, Zenon DEF SinkCommit, At
  <2> QED
    BY <1>6, <1>8, <2>1, GoesSteps, Zenon DEF GoesOn, JobCase
<1>9. CASE SinkFinish(g) /\ Goes(g, "finish")
  <2>1. job[g] # None
    BY <1>9, Zenon DEF SinkFinish, Decides, IsCheck, At
  <2> QED
    BY <1>6, <1>9, <2>1, GoesSteps, Zenon DEF GoesOn, JobCase
<1>10. CASE CheckTake(g)
  <2>1. job[g] # None
    BY <1>10, Zenon DEF CheckTake, IsCheck, At
  <2> QED
    BY <1>10, <2>1, TakeSteps, Zenon DEF DocsType, Took, JobCase
<1> QED
  BY <1>5, <1>7, <1>8, <1>9, <1>10, JobWrites, Zenon DEF JobCase

-----------------------------------------------------------------------------
(* A job's fields. *)
LEMMA JobFields ==
  ASSUME JobType, NEW h \in Handler, job[h] # None
  PROVE  /\ job[h].task \in Tasks /\ job[h].try \in Nat /\ job[h].mine \in BOOLEAN
         /\ job[h].step \in Steps
         /\ job[h].task.kind = "map" => job[h].task \in MapTask /\ Attempt(h) \in Attempts
         /\ job[h].task.kind = "reduce" => job[h].task \in ReduceTask /\ Attempt(h) \in ReduceAttempts
         /\ job[h].task.kind = "mapDone" => job[h].task \in MapDoneTask
         /\ job[h].task.kind = "reduceDone" => job[h].task \in ReduceDoneTask
         /\ Attempt(h).task = job[h].task /\ Attempt(h).try = job[h].try
<1>1. job[h] \in Jobs
  BY Zenon DEF JobType
<1>2. /\ job[h].task \in Tasks /\ job[h].try \in Nat /\ job[h].mine \in BOOLEAN
      /\ job[h].step \in Steps
  BY <1>1, Zenon DEF Jobs
<1>3. Attempt(h).task = job[h].task /\ Attempt(h).try = job[h].try
  BY Zenon DEF Attempt
<1>4. /\ job[h].task \in MapTask => Attempt(h) \in Attempts
      /\ job[h].task \in ReduceTask => Attempt(h) \in ReduceAttempts
  BY <1>2, Zenon DEF Attempt, Attempts, ReduceAttempts
<1> QED
  BY <1>2, <1>3, <1>4, KindOfTask, Zenon

(* A reducer has seen runs. *)
SeenType == \A h \in Handler : At(h, "reduce", "merge") \/ At(h, "reduce", "commit") => job[h].saw \subseteq Runs

RunTypeOK == JobType /\ TaskType /\ TriesType /\ EmitsType /\ DocsType /\ SinkType /\ SeenType

(* Reducers keep seeing runs only. *)
LEMMA SeenTypeKept ==
  ASSUME RunTypeOK, [Next]_vars
  PROVE  SeenType'
<1>1. SUFFICES ASSUME NEW g \in Handler, (At(g, "reduce", "merge") \/ At(g, "reduce", "commit"))'
               PROVE  job'[g].saw \subseteq Runs
  BY Zenon DEF SeenType
<1>2. job'[g] # None /\ job'[g].task.kind = "reduce" /\ job'[g].step \in {"merge", "commit"}
  BY <1>1, Zenon DEF At
<1>3. CASE Persists(g)
  BY <1>2, <1>3, Zenon DEF Persists, RunTypeOK, SeenType, At
<1>4. CASE Reduce(g) /\ GoesOn(g, "commit")
  BY <1>4, Zenon DEF Reduce, GoesOn, RunTypeOK, SeenType, At
<1>5. CASE ReduceStarts(g)
  BY <1>5, Zenon DEF ReduceStarts, Claimed, PointersOf, RunTypeOK, DocsType
<1>6. JobCase(g)
  BY JobCases, Zenon DEF RunTypeOK
<1> QED
  BY <1>2, <1>3, <1>4, <1>5, <1>6, KindOfTask, Zenon
  DEF JobCase, Claimed, GoesOn, Took, MapStarts, MapDoneStarts, ReduceDoneStarts, CheckStarts,
      SweepStarts, JudgeStarts, Map, MapDoneRead, ReduceDoneRead, CheckLook, SweepStore, SinkCommit,
      SinkFinish, CheckTake, Decides, IsCheck, At

(* Queues keep holding tasks. *)
LEMMA TaskTypeKept ==
  ASSUME RunTypeOK, [Next]_vars
  PROVE  TaskType'
<1>1. ASSUME NEW t \in queued', t \notin queued
      PROVE  t \in Tasks
  <2>1. CASE \E x \in queued, c \in Copy : Backup(x, c) /\ t = [x EXCEPT !.copy = c]
    <3>1. PICK x \in queued, c \in Copy : x \in WorkTask /\ t = [x EXCEPT !.copy = c]
      BY <2>1, Zenon DEF Backup
    <3> QED
      BY <3>1, Zenon DEF WorkTask, MapTask, ReduceTask, Tasks, FailedTask
  <2>2. CASE StartRun /\ phase = "none" /\ \E s \in Split : t = [kind |-> "map", split |-> s, copy |-> First]
    BY <2>2, TasksMade DEF Tasks, FailedTask
  <2>3. CASE t \in Ending
    BY <2>3, TasksMade, Zenon DEF Tasks
  <2>4. ASSUME NEW h \in Handler, MapCommit(h), t = MapDone(Attempt(h))
        PROVE  t \in Tasks
    <3>1. job[h] # None /\ job[h].task.kind = "map"
      BY <2>4, Zenon DEF MapCommit, At
    <3> QED
      BY <2>4, <3>1, JobFields, TasksMade, Zenon DEF RunTypeOK, Tasks
  <2>5. ASSUME NEW h \in Handler, ReduceCommit(h), t = ReduceDone(Attempt(h), job[h].saw)
        PROVE  t \in Tasks
    <3>1. job[h] # None /\ job[h].task.kind = "reduce" /\ job[h].saw \subseteq Runs
      BY <2>5, Zenon DEF ReduceCommit, At, RunTypeOK, SeenType
    <3> QED
      BY <2>5, <3>1, JobFields, TasksMade, Zenon DEF RunTypeOK, Tasks, FailedTask
  <2>6. ASSUME NEW h \in Handler, At(h, "mapDone", "accept") \/ At(h, "mapDone", "discard"),
               \/ t \in Checking("mapCheck", job[h].task.att.task.split)
               \/ t \in Collecting(job[h].task.att, RunsOf(job[h].task.att))
        PROVE  t \in Tasks
    <3>1. job[h].task \in MapDoneTask
      BY <2>6, JobFields, Zenon DEF At, RunTypeOK
    <3>2. job[h].task.att \in Attempts /\ job[h].task.att.task.split \in Split
      BY <3>1, TaskFields, Zenon
    <3>3. RunsOf(job[h].task.att) \in SUBSET Runs
      BY <3>2, RunsFields, Zenon DEF RunTypeOK
    <3> QED
      BY <2>6, <3>2, <3>3, TasksMade, Zenon DEF Tasks, FailedTask
  <2>7. ASSUME NEW h \in Handler, At(h, "reduceDone", "accept") \/ At(h, "reduceDone", "discard"),
               \/ t \in Checking("reduceCheck", job[h].task.att.task.part)
               \/ t \in Collecting(job[h].task.att, job[h].task.runs)
        PROVE  t \in Tasks
    <3>1. job[h].task \in ReduceDoneTask
      BY <2>7, JobFields, Zenon DEF At, RunTypeOK
    <3>2. /\ job[h].task.att \in ReduceAttempts /\ job[h].task.att.task.part \in Partition
          /\ job[h].task.runs \in SUBSET Runs
      BY <3>1, TaskFields, Zenon
    <3> QED
      BY <2>7, <3>2, TasksMade, Zenon DEF Tasks, FailedTask
  <2>8. ASSUME NEW p \in PartitionsOf(pointers), t = [kind |-> "reduce", part |-> p, copy |-> First]
        PROVE  t \in Tasks
    <3>1. p \in Partition
      BY TaskFields, Zenon DEF PartitionsOf, RunTypeOK, DocsType
    <3> QED
      BY <2>8, <3>1, TasksMade, Zenon DEF Tasks, FailedTask
  <2> QED
    BY <1>1, <2>1, <2>2, <2>3, <2>4, <2>5, <2>6, <2>7, <2>8, QueueGrows, Zenon
    DEF MapAccepts, MapDoneAccept, ReduceAccepts, ReduceDoneAccept
<1>2. ASSUME NEW t \in errors', t \notin errors
      PROVE  t \in FailedTask
  <2>1. ASSUME NEW h \in Handler, Move(h), t = job[h].task
        PROVE  t \in FailedTask
    <3>1. job[h] # None /\ job[h].task.kind \in {"map", "reduce", "reduceDone"}
      BY <2>1, Zenon DEF Move, Movable, At
    <3> QED
      BY <2>1, <3>1, JobFields, KindOfTask, Zenon DEF RunTypeOK
  <2>2. CASE t \in queued /\ t.kind = "gc"
    BY <2>2, KindOfTask, Zenon DEF RunTypeOK, TaskType
  <2> QED
    BY <1>2, <2>1, <2>2, ErrorsWrites, Zenon
<1> QED
  BY <1>1, <1>2, Zenon DEF RunTypeOK, TaskType

(* The documents keep their types. *)
LEMMA DocsTypeKept ==
  ASSUME RunTypeOK, [Next]_vars
  PROVE  DocsType'
<1>1. phase' \in PhaseNames
  BY PhaseWrites, Zenon DEF RunTypeOK, DocsType, PhaseNames, FailNow
<1>2. ASSUME NEW h \in Handler, MapAccepts(h)
      PROVE  splits' \subseteq Split /\ pointers' \subseteq Runs
  <2>1. /\ At(h, "mapDone", "accept") /\ splits' \subseteq splits
        /\ pointers' = pointers \cup RunsOf(job[h].task.att)
    BY <1>2, Zenon DEF MapAccepts, MapDoneAccept
  <2>2. job[h].task.att \in Attempts
    BY <2>1, JobFields, TaskFields, Zenon DEF At, RunTypeOK
  <2> QED
    BY <2>1, <2>2, RunsFields, Zenon DEF RunTypeOK, DocsType
<1>3. ASSUME NEW h \in Handler, ReduceAccepts(h)
      PROVE  pointers' \subseteq Runs /\ markers' \subseteq Partition
  <2>1. /\ At(h, "reduceDone", "accept") /\ pointers' \subseteq pointers
        /\ markers' = markers \cup {job[h].task.att.task.part}
    BY <1>3, Zenon DEF ReduceAccepts, ReduceDoneAccept
  <2>2. job[h].task.att.task.part \in Partition
    BY <2>1, JobFields, TaskFields, Zenon DEF At, RunTypeOK
  <2> QED
    BY <2>1, <2>2, Zenon DEF RunTypeOK, DocsType
<1>4. \A s \in Split : Stage(s) => splits' \subseteq Split
  BY Zenon DEF Stage, RunTypeOK, DocsType
<1>5. unstaged' \subseteq Split
  BY LauncherWrites, Zenon DEF AlreadySetUp, StartRun, Relaunch, Stage, RunTypeOK, DocsType
<1> QED
  BY <1>1, <1>2, <1>3, <1>4, <1>5, DocsWrites, Zenon DEF RunTypeOK, DocsType

(* What the sink holds keeps its type. *)
LEMMA SinkTypeKept ==
  ASSUME RunTypeOK, [Next]_vars
  PROVE  SinkType'
<1>1. ASSUME NEW o \in staged', o \notin staged
      PROVE  o \in [att : ReduceAttempts, runs : SUBSET Runs]
  <2>1. PICK h \in Handler : Reduce(h) /\ o = Output(Attempt(h), job[h].saw)
    BY <1>1, SinkWrites, Zenon
  <2>2. At(h, "reduce", "merge")
    BY <2>1, Zenon DEF Reduce
  <2>3. Attempt(h) \in ReduceAttempts /\ job[h].saw \subseteq Runs
    BY <2>2, JobFields, Zenon DEF At, RunTypeOK, SeenType
  <2> QED
    BY <2>1, <2>3, Zenon DEF Output
<1>2. ASSUME NEW h \in Handler, SinkCommit(h)
      PROVE  parts' \in [Partition -> ReduceAttempts \cup {None}]
  <2>1. At(h, "reduceDone", "sink")
    BY <1>2, Zenon DEF SinkCommit
  <2>2. job[h].task.att \in ReduceAttempts
    BY <2>1, JobFields, TaskFields, Zenon DEF At, RunTypeOK
  <2> QED
    BY <1>2, <2>2, Zenon DEF SinkCommit, RunTypeOK, SinkType
<1>3. ASSUME NEW h \in Handler, SinkFinish(h)
      PROVE  manifest' \in [empty : SUBSET Partition] \cup {None}
  BY <1>3, Zenon DEF SinkFinish, RunTypeOK, SinkType
<1> QED
  BY <1>1, <1>2, <1>3, SinkWrites, Zenon DEF RunTypeOK, SinkType

(* Types are kept. *)
LEMMA RunTypeKept ==
  ASSUME RunTypeOK, [Next]_vars
  PROVE  RunTypeOK'
<1>1. JobType' /\ TriesType'
  BY JobWrites, Zenon DEF RunTypeOK, JobType, TriesType
<1>2. EmitsType'
  BY DocsWrites, Zenon DEF RunTypeOK, EmitsType
<1> QED
  BY <1>1, <1>2, SeenTypeKept, TaskTypeKept, DocsTypeKept, SinkTypeKept, Zenon DEF RunTypeOK

-----------------------------------------------------------------------------
(* The steps of a job on a task of each kind, other than to judge it. *)
StepsOf(kind) ==
  CASE kind = "map" -> {"commit", "retire"}
    [] kind = "reduce" -> {"merge", "commit", "retire"}
    [] kind = "mapDone" -> {"accept", "discard"}
    [] kind = "reduceDone" -> {"sink", "accept", "discard", "move"}
    [] kind \in {"mapCheck", "reduceCheck"} -> {"take", "decide", "finish", "retire"}
    [] kind = "sweep" -> {"sink"}
    [] OTHER -> {}

StepsFit == \A h \in Handler :
  job[h] # None => IF job[h].step = "judge" THEN job[h].task \in FailedTask
                   ELSE job[h].step \in StepsOf(job[h].task.kind)

(* A handler stays at a step of its kind of task. *)
LEMMA StepsFitKept ==
  ASSUME RunTypeOK, StepsFit, [Next]_vars
  PROVE  StepsFit'
<1>1. SUFFICES ASSUME NEW g \in Handler, job'[g] # None
               PROVE  IF job'[g].step = "judge" THEN job'[g].task \in FailedTask
                      ELSE job'[g].step \in StepsOf(job'[g].task.kind)
  BY Zenon DEF StepsFit
<1>2. CASE Persists(g)
  BY <1>1, <1>2, Zenon DEF Persists, StepsFit
<1>3. CASE MapStarts(g) \/ ReduceStarts(g)
  BY <1>3, Zenon DEF MapStarts, ReduceStarts, Claimed, Map, ReduceRead, StepsOf
<1>4. CASE MapDoneStarts(g) \/ ReduceDoneStarts(g)
  BY <1>4, Zenon DEF MapDoneStarts, ReduceDoneStarts, Claimed, MapDoneRead, ReduceDoneRead, StepsOf
<1>5. CASE CheckStarts(g) \/ SweepStarts(g)
  BY <1>5, Zenon DEF CheckStarts, SweepStarts, Claimed, CheckLook, SweepStore, StepsOf
<1>6. CASE JudgeStarts(g)
  BY <1>6, Zenon DEF JudgeStarts, Claimed
<1>7. CASE \/ Reduce(g) /\ GoesOn(g, "commit")
           \/ SinkCommit(g) /\ GoesOn(g, "accept")
           \/ SinkFinish(g) /\ GoesOn(g, "finish")
           \/ CheckTake(g) /\ Took(g)
  BY <1>7, Zenon
  DEF Reduce, SinkCommit, SinkFinish, CheckTake, GoesOn, Took, Decides, IsCheck, At, StepsOf
<1> QED
  BY <1>2, <1>3, <1>4, <1>5, <1>6, <1>7, JobCases, Zenon DEF JobCase, RunTypeOK

(* A handler that does not just go on writes neither docs nor queues. *)
LEMMA JobShape ==
  ASSUME RunTypeOK, [Next]_vars, NEW g \in Handler, ~Persists(g)
  PROVE  /\ UNCHANGED <<queued, errors, phase, splits, pointers, markers>>
         /\ \/ Claimed(g, job'[g].task, job'[g].set, job'[g].step, job'[g].saw)
            \/ GoesOn(g, job'[g].step)
            \/ Took(g)
<1>1. CASE MapStarts(g) \/ ReduceStarts(g)
  BY <1>1, Zenon DEF MapStarts, ReduceStarts, Claimed, Map, ReduceRead, runVars, taskVars
<1>2. CASE MapDoneStarts(g) \/ ReduceDoneStarts(g)
  BY <1>2
  DEF MapDoneStarts, ReduceDoneStarts, Claimed, MapDoneRead, ReduceDoneRead, runVars, taskVars
<1>3. CASE CheckStarts(g) \/ SweepStarts(g)
  BY <1>3, Zenon DEF CheckStarts, SweepStarts, Claimed, CheckLook, SweepStore, runVars, taskVars
<1>4. CASE JudgeStarts(g)
  BY <1>4, Zenon DEF JudgeStarts, Claimed, JudgeTake, runVars, taskVars
<1>5. CASE \/ Reduce(g) /\ GoesOn(g, "commit")
           \/ SinkCommit(g) /\ GoesOn(g, "accept")
           \/ SinkFinish(g) /\ GoesOn(g, "finish")
           \/ CheckTake(g) /\ Took(g)
  BY <1>5, Zenon DEF Reduce, SinkCommit, SinkFinish, CheckTake, GoesOn, runVars, taskVars
<1> QED
  BY <1>1, <1>2, <1>3, <1>4, <1>5, JobCases, Zenon DEF JobCase, RunTypeOK

(* Before the run starts there is nothing to do, and once it has started   *)
(* the launcher stages nothing more.                                       *)
NotStarted ==
  /\ phase = "none" => /\ queued = {} /\ errors = {} /\ pointers = {} /\ markers = {}
                       /\ \A h \in Handler : job[h] = None
                       /\ launcher = "stage" => splits \cup unstaged = Split
  /\ phase # "none" /\ launcher = "stage" => unstaged = {}

(* Only StartRun starts the run. *)
LEMMA NotStartedKept ==
  ASSUME RunTypeOK, NotStarted, [Next]_vars
  PROVE  NotStarted'
<1>1. ASSUME phase' = "none"
      PROVE  /\ queued' = {} /\ errors' = {} /\ pointers' = {} /\ markers' = {}
             /\ \A h \in Handler : job'[h] = None
             /\ launcher' = "stage" => splits' \cup unstaged' = Split
  <2>1. phase = "none"
    BY <1>1, PhaseWrites, Zenon DEF FailNow
  <2>2. /\ queued = {} /\ errors = {} /\ pointers = {} /\ markers = {}
        /\ \A h \in Handler : job[h] = None
        /\ launcher = "stage" => splits \cup unstaged = Split
    BY <2>1, Zenon DEF NotStarted
  <2>3. ASSUME NEW h \in Handler
        PROVE  ~MapAccepts(h) /\ ~ReduceAccepts(h) /\ ~Discard(h) /\ ~FanOut(h) /\ ~Completes(h)
               /\ ~Fails(h) /\ ~MapCommit(h) /\ ~ReduceCommit(h) /\ ~Move(h)
    BY <2>2, Zenon
    DEF MapAccepts, MapDoneAccept, ReduceAccepts, ReduceDoneAccept, Discard, FanOut, Completes,
        Finish, Fails, FinishFails, Judge, Judging, MapCommit, ReduceCommit, Move, Movable, Decides,
        IsCheck, At
  <2>4. ~StartRun /\ ~FailNow
    BY <1>1, <2>1, Zenon DEF StartRun, FailNow
  <2>5. queued' = {}
    BY <2>2, <2>3, <2>4, QueueGrows, Zenon
  <2>6. errors' = {}
    BY <2>2, <2>3, ErrorsWrites, Zenon
  <2>7. ASSUME NEW g \in Handler
        PROVE  job'[g] = None
    <3>1. CASE Persists(g)
      BY <3>1, <2>2, Zenon DEF Persists
    <3>2. CASE ~Persists(g)
      BY <3>2, <2>2, JobCases, Zenon
      DEF RunTypeOK, JobCase, MapStarts, ReduceStarts, MapDoneStarts, ReduceDoneStarts, CheckStarts,
          SweepStarts, JudgeStarts, GoesOn, Took
    <3> QED
      BY <3>1, <3>2, Zenon
  <2>8. launcher' = "stage" => splits' \cup unstaged' = Split
    BY <2>1, <2>2, <2>3, <2>4, DocsWrites, LauncherWrites, Zenon
    DEF AlreadySetUp, Relaunch, Stage, RunTypeOK, DocsType, runVars
  <2> QED
    BY <2>2, <2>3, <2>5, <2>6, <2>7, <2>8, DocsWrites, Zenon
<1>2. ASSUME phase' # "none", launcher' = "stage"
      PROVE  unstaged' = {}
  <2>1. CASE phase = "none"
    <3>1. \A h \in Handler : ~FanOut(h) /\ ~Completes(h) /\ ~Fails(h)
      BY <2>1, Zenon
      DEF NotStarted, FanOut, Completes, Finish, Fails, FinishFails, Judge, Judging, Decides,
          IsCheck, At
    <3>2. StartRun
      BY <1>2, <2>1, <3>1, PhaseWrites, Zenon DEF FailNow
    <3> QED
      BY <3>2, Zenon DEF StartRun
  <2>2. CASE phase # "none"
    BY <1>2, <2>2, LauncherWrites, Zenon DEF NotStarted, AlreadySetUp, StartRun, Relaunch, Stage
  <2> QED
    BY <2>1, <2>2, Zenon
<1> QED
  BY <1>1, <1>2, Zenon DEF NotStarted

(* A handler that still has its claim finds its task where it was, *)
ClaimedIsThere == \A h \in Handler :
  job[h] # None /\ job[h].mine =>
    IF job[h].step = "judge" THEN job[h].task \in errors ELSE job[h].task \in queued

(* no two handlers have claims of one task or of one doc set, *)
ClaimsExclude == \A g, h \in Handler :
  g # h /\ job[g] # None /\ job[h] # None =>
    /\ ~(job[g].mine /\ job[h].mine /\ job[g].task = job[h].task)
    /\ job[g].set # None => job[g].set # job[h].set

(* and whoever has the state doc knows the phase. *)
StateHeld == \A h \in Handler :
  job[h] # None =>
    /\ job[h].step \in {"decide", "finish", "judge"} => job[h].set \in {None, <<"state">>}
    /\ job[h].step \in {"decide", "finish"} /\ job[h].set # None => job[h].saw = {phase}

ClaimsSound == StepsFit /\ NotStarted /\ ClaimedIsThere /\ ClaimsExclude /\ StateHeld

(* A claim is made only where there is none. *)
LEMMA ClaimsExcludeKept ==
  ASSUME RunTypeOK, ClaimsSound, [Next]_vars
  PROVE  ClaimsExclude'
<1>1. SUFFICES ASSUME NEW g \in Handler, NEW h \in Handler, g # h, job'[g] # None, job'[h] # None
               PROVE  /\ ~(job'[g].mine /\ job'[h].mine /\ job'[g].task = job'[h].task)
                      /\ job'[g].set # None => job'[g].set # job'[h].set
  BY Zenon DEF ClaimsExclude
<1>2. CASE Persists(g) /\ Persists(h)
  BY <1>1, <1>2, Zenon DEF Persists, ClaimsSound, ClaimsExclude
<1>3. CASE ~Persists(g)
  BY <1>1, <1>3, JobShape DEF Claimed, GoesOn, Took, Persists, ClaimsSound, ClaimsExclude
<1>4. CASE ~Persists(h)
  BY <1>1, <1>4, JobShape DEF Claimed, GoesOn, Took, Persists, ClaimsSound, ClaimsExclude
<1> QED
  BY <1>2, <1>3, <1>4, Zenon

(* Only whoever has the claim of a task takes it out of its queue. *)
LEMMA ClaimedIsThereKept ==
  ASSUME RunTypeOK, ClaimsSound, [Next]_vars
  PROVE  ClaimedIsThere'
<1>1. SUFFICES ASSUME NEW g \in Handler, job'[g] # None, job'[g].mine
               PROVE  IF job'[g].step = "judge" THEN job'[g].task \in errors'
                      ELSE job'[g].task \in queued'
  BY Zenon DEF ClaimedIsThere
<1>2. CASE Persists(g)
  <2>1. /\ job[g] # None /\ job[g].mine /\ job'[g].task = job[g].task
        /\ job'[g].step = job[g].step
    BY <1>1, <1>2, Zenon DEF Persists
  <2>2. ASSUME NEW h \in Handler, job[h] # None, job[h].mine, job[h].task = job[g].task, Done(h)
        PROVE  FALSE
    <3>1. h = g
      BY <2>1, <2>2, Zenon DEF ClaimsSound, ClaimsExclude
    <3> QED
      BY <1>1, <2>2, <3>1, DoneSteps, Zenon DEF RunTypeOK
  <2>3. phase # "none"
    BY <2>1, Zenon DEF ClaimsSound, NotStarted
  <2>4. CASE job[g].step # "judge"
    <3>1. job[g].task \in queued /\ job[g].task.kind # "gc"
      BY <2>1, <2>4, Zenon DEF ClaimsSound, ClaimedIsThere, StepsFit, StepsOf
    <3> QED
      BY <2>1, <2>2, <2>3, <2>4, <3>1, QueueShrinks, Zenon
  <2>5. CASE job[g].step = "judge"
    <3>1. job[g].task \in errors
      BY <2>1, <2>5, Zenon DEF ClaimsSound, ClaimedIsThere
    <3>2. \A h \in Handler : Loses(h) => job[h] # None /\ job[h].mine /\ Done(h)
      BY Zenon DEF Loses, JudgeLoser, Judge, Judging, StillHeld
    <3> QED
      BY <2>1, <2>2, <2>5, <3>1, <3>2, ErrorsWrites, Zenon
  <2> QED
    BY <2>4, <2>5, Zenon
<1>3. CASE MapStarts(g) \/ ReduceStarts(g) \/ MapDoneStarts(g) \/ ReduceDoneStarts(g)
           \/ CheckStarts(g) \/ SweepStarts(g)
  BY <1>3, Zenon
  DEF MapStarts, ReduceStarts, MapDoneStarts, ReduceDoneStarts, CheckStarts, SweepStarts, Claimed,
      Map, ReduceRead, MapDoneRead, ReduceDoneRead, CheckLook, SweepStore, taskVars
<1>4. CASE JudgeStarts(g)
  BY <1>4, Zenon DEF JudgeStarts, Claimed, JudgeTake, taskVars
<1>5. CASE \/ Reduce(g) /\ GoesOn(g, "commit")
           \/ SinkCommit(g) /\ GoesOn(g, "accept")
           \/ SinkFinish(g) /\ GoesOn(g, "finish")
           \/ CheckTake(g) /\ Took(g)
  BY <1>1, <1>5, Zenon
  DEF Reduce, SinkCommit, SinkFinish, CheckTake, GoesOn, Took, taskVars, Decides, IsCheck, At,
      ClaimsSound, ClaimedIsThere
<1> QED
  BY <1>2, <1>3, <1>4, <1>5, JobCases, Zenon DEF JobCase, RunTypeOK

(* Only whoever has the state doc moves the phase. *)
LEMMA StateHeldKept ==
  ASSUME RunTypeOK, ClaimsSound, [Next]_vars
  PROVE  StateHeld'
<1>1. SUFFICES ASSUME NEW g \in Handler, job'[g] # None
               PROVE  /\ job'[g].step \in {"decide", "finish", "judge"} => job'[g].set \in {None, <<"state">>}
                      /\ job'[g].step \in {"decide", "finish"} /\ job'[g].set # None => job'[g].saw = {phase'}
  BY Zenon DEF StateHeld
<1>2. CASE Persists(g)
  <2>1. /\ job[g] # None /\ job'[g].saw = job[g].saw /\ job'[g].step = job[g].step
        /\ job'[g].set \in {job[g].set, None}
    BY <1>1, <1>2, Zenon DEF Persists
  <2>2. CASE phase' = phase
    BY <2>1, <2>2, Zenon DEF ClaimsSound, StateHeld
  <2>3. CASE phase' # phase
    <3>1. phase # "none"
      BY <2>1, Zenon DEF ClaimsSound, NotStarted
    <3>2. SUFFICES ASSUME job[g].step \in {"decide", "finish"}, job'[g].set # None
                   PROVE  FALSE
      BY <2>1, Zenon DEF ClaimsSound, StateHeld
    <3>3. job[g].set = <<"state">> /\ <<"state">> # None
      BY <2>1, <3>2, Zenon DEF ClaimsSound, StateHeld
    <3>4. ~FailNow
      BY <2>1, <3>3, Zenon DEF FailNow, HoldsSet
    <3>5. PICK h \in Handler : (FanOut(h) /\ StillHeld(h)) \/ Completes(h) \/ Fails(h)
      BY <2>3, <3>1, <3>4, PhaseWrites, Zenon
    <3>6. /\ job[h] # None /\ job[h].step \in {"decide", "finish", "judge"} /\ job[h].set # None
          /\ Done(h)
      BY <3>5, Zenon
      DEF FanOut, Completes, Finish, Fails, FinishFails, Judge, Judging, Decides, IsCheck, At,
          StillHeld
    <3>7. h = g
      BY <2>1, <3>3, <3>6, Zenon DEF ClaimsSound, StateHeld, ClaimsExclude
    <3> QED
      BY <1>1, <3>6, <3>7, DoneSteps, Zenon DEF RunTypeOK
  <2> QED
    BY <2>2, <2>3, Zenon
<1>3. CASE MapStarts(g) \/ ReduceStarts(g) \/ MapDoneStarts(g) \/ ReduceDoneStarts(g)
           \/ CheckStarts(g) \/ SweepStarts(g) \/ JudgeStarts(g)
  BY <1>3, Zenon
  DEF MapStarts, ReduceStarts, MapDoneStarts, ReduceDoneStarts, CheckStarts, SweepStarts,
      JudgeStarts, Claimed
<1>4. CASE \/ Reduce(g) /\ GoesOn(g, "commit")
           \/ SinkCommit(g) /\ GoesOn(g, "accept")
           \/ SinkFinish(g) /\ GoesOn(g, "finish")
           \/ CheckTake(g) /\ Took(g)
  BY <1>1, <1>4, Zenon
  DEF Reduce, SinkCommit, SinkFinish, CheckTake, GoesOn, Took, runVars, Decides, IsCheck, At,
      ClaimsSound, StateHeld
<1> QED
  BY <1>2, <1>3, <1>4, JobCases, Zenon DEF JobCase, RunTypeOK

(* Claims stay sound. *)
LEMMA ClaimsKept ==
  ASSUME RunTypeOK, ClaimsSound, [Next]_vars
  PROVE  ClaimsSound'
BY StepsFitKept, NotStartedKept, ClaimedIsThereKept, ClaimsExcludeKept, StateHeldKept, Zenon
DEF ClaimsSound

-----------------------------------------------------------------------------
(* What is queued, by its kind. *)
NewTask(t) ==
  /\ t.kind = "map" =>
       \/ /\ StartRun /\ phase = "none"
          /\ \E s \in Split : t = [kind |-> "map", split |-> s, copy |-> First]
       \/ \E x \in queued, c \in Copy : Backup(x, c) /\ t = [x EXCEPT !.copy = c] /\ x.kind = "map"
  /\ t.kind = "reduce" =>
       \/ \E h \in Handler : /\ FanOut(h) /\ StillHeld(h)
                             /\ \E p \in PartitionsOf(pointers) :
                                  t = [kind |-> "reduce", part |-> p, copy |-> First]
       \/ \E x \in queued, c \in Copy : Backup(x, c) /\ t = [x EXCEPT !.copy = c] /\ x.kind = "reduce"
  /\ t.kind = "mapDone" =>
       \E h \in Handler : MapCommit(h) /\ StillTask(h) /\ t.att = Attempt(h)
  /\ t.kind = "reduceDone" =>
       \E h \in Handler : /\ ReduceCommit(h) /\ StillTask(h)
                          /\ t.att = Attempt(h) /\ t.runs = job[h].saw
  /\ t.kind = "mapCheck" =>
       \E h \in Handler : MapAccepts(h) /\ t.after = job[h].task.att.task.split
  /\ t.kind = "reduceCheck" =>
       \E h \in Handler : ReduceAccepts(h) /\ t.after = job[h].task.att.task.part
  /\ t.kind = "gc" =>
       \E h \in Handler :
         \/ ReduceAccepts(h) /\ t.runs = job[h].task.runs
         \/ Discard(h) /\ StillHeld(h) /\ At(h, "mapDone", "discard")
              /\ t.runs = RunsOf(job[h].task.att)
         \/ Discard(h) /\ StillHeld(h) /\ At(h, "reduceDone", "discard")
              /\ t.runs = job[h].task.runs
  /\ t.kind = "sweep" => FailNow \/ \E h \in Handler : Completes(h) \/ Fails(h)

(* Tasks come from these steps only. *)
LEMMA NewTasks ==
  ASSUME [Next]_vars, NEW t \in queued', t \notin queued
  PROVE  NewTask(t)
<1>1. ASSUME NEW x \in queued, NEW c \in Copy, Backup(x, c), t = [x EXCEPT !.copy = c]
      PROVE  t.kind = x.kind /\ x.kind \in {"map", "reduce"}
  BY <1>1, Zenon DEF Backup, WorkTask, MapTask, ReduceTask
<1>2. CASE \E x \in queued, c \in Copy : Backup(x, c) /\ t = [x EXCEPT !.copy = c]
  BY <1>1, <1>2, Zenon DEF NewTask
<1>3. CASE StartRun /\ phase = "none" /\ \E s \in Split : t = [kind |-> "map", split |-> s, copy |-> First]
  BY <1>3 DEF NewTask
<1>4. CASE t \in Ending /\ (FailNow \/ \E h \in Handler : Completes(h) \/ Fails(h))
  BY <1>4 DEF NewTask, Ending
<1>5. ASSUME NEW h \in Handler, MapCommit(h), StillTask(h), t = MapDone(Attempt(h))
      PROVE  NewTask(t)
  BY <1>5, Zenon DEF NewTask, MapDone
<1>6. ASSUME NEW h \in Handler, ReduceCommit(h), StillTask(h), t = ReduceDone(Attempt(h), job[h].saw)
      PROVE  NewTask(t)
  BY <1>6, Zenon DEF NewTask, ReduceDone
<1>7. ASSUME NEW h \in Handler, MapAccepts(h), t \in Checking("mapCheck", job[h].task.att.task.split)
      PROVE  NewTask(t)
  BY <1>7 DEF NewTask, Checking
<1>8. ASSUME NEW h \in Handler, ReduceAccepts(h),
             t \in Checking("reduceCheck", job[h].task.att.task.part)
      PROVE  NewTask(t)
  BY <1>8 DEF NewTask, Checking
<1>9. ASSUME NEW h \in Handler, ReduceAccepts(h), t \in Collecting(job[h].task.att, job[h].task.runs)
      PROVE  NewTask(t)
  BY <1>9 DEF NewTask, Collecting
<1>10. ASSUME NEW h \in Handler, Discard(h), StillHeld(h), At(h, "mapDone", "discard"),
              t \in Collecting(job[h].task.att, RunsOf(job[h].task.att))
       PROVE  NewTask(t)
  BY <1>10 DEF NewTask, Collecting
<1>11. ASSUME NEW h \in Handler, Discard(h), StillHeld(h), At(h, "reduceDone", "discard"),
              t \in Collecting(job[h].task.att, job[h].task.runs)
       PROVE  NewTask(t)
  BY <1>11 DEF NewTask, Collecting
<1>12. ASSUME NEW h \in Handler, FanOut(h), StillHeld(h), NEW p \in PartitionsOf(pointers),
              t = [kind |-> "reduce", part |-> p, copy |-> First]
       PROVE  NewTask(t)
  BY <1>12, Zenon DEF NewTask
<1> QED
  BY <1>2, <1>3, <1>4, <1>5, <1>6, <1>7, <1>8, <1>9, <1>10, <1>11, <1>12, QueueGrows, Zenon

(* How a handler comes to each step, by the kind of its task. *)
NewJob(g) ==
  LET kind == job'[g].task.kind
      step == job'[g].step
  IN  /\ step = "judge" => JudgeStarts(g)
      /\ step # "judge" /\ kind = "map" => MapStarts(g)
      /\ step # "judge" /\ kind = "reduce" =>
           IF step = "commit" THEN Reduce(g) /\ GoesOn(g, "commit") ELSE ReduceStarts(g)
      /\ step # "judge" /\ kind = "mapDone" => MapDoneStarts(g)
      /\ step # "judge" /\ kind = "reduceDone" =>
           IF step = "accept" THEN SinkCommit(g) /\ GoesOn(g, "accept") ELSE ReduceDoneStarts(g)
      /\ step # "judge" /\ kind \in {"mapCheck", "reduceCheck"} =>
           CASE step = "decide" -> CheckTake(g) /\ Took(g)
             [] step = "finish" -> SinkFinish(g) /\ GoesOn(g, "finish")
             [] OTHER -> CheckStarts(g)
      /\ step # "judge" /\ kind = "sweep" => SweepStarts(g)

(* Jobs come to a step by these actions only. *)
LEMMA NewJobs ==
  ASSUME RunTypeOK, [Next]_vars, NEW g \in Handler, ~Persists(g)
  PROVE  NewJob(g)
<1>1. CASE MapStarts(g)
  BY <1>1, Zenon DEF MapStarts, Claimed, Map, NewJob
<1>2. CASE ReduceStarts(g)
  BY <1>2, Zenon DEF ReduceStarts, Claimed, ReduceRead, NewJob
<1>3. CASE MapDoneStarts(g)
  BY <1>3, Zenon DEF MapDoneStarts, Claimed, MapDoneRead, NewJob
<1>4. CASE ReduceDoneStarts(g)
  <2>1. job'[g].task.kind = "reduceDone" /\ job'[g].step \in {"discard", "sink", "move"}
    BY <1>4, Zenon DEF ReduceDoneStarts, Claimed, ReduceDoneRead
  <2> QED
    BY <1>4, <2>1, Zenon DEF NewJob
<1>5. CASE CheckStarts(g)
  <2>1. job'[g].task.kind \in {"mapCheck", "reduceCheck"} /\ job'[g].step \in {"take", "retire"}
    BY <1>5, Zenon DEF CheckStarts, Claimed, CheckLook
  <2> QED
    BY <1>5, <2>1, Zenon DEF NewJob
<1>6. CASE SweepStarts(g)
  BY <1>6, Zenon DEF SweepStarts, Claimed, SweepStore, NewJob
<1>7. CASE JudgeStarts(g)
  BY <1>7, Zenon DEF JudgeStarts, Claimed, NewJob
<1>8. CASE Reduce(g) /\ GoesOn(g, "commit")
  BY <1>8, Zenon DEF Reduce, GoesOn, At, NewJob
<1>9. CASE SinkCommit(g) /\ GoesOn(g, "accept")
  BY <1>9, Zenon DEF SinkCommit, GoesOn, At, NewJob
<1>10. CASE SinkFinish(g) /\ GoesOn(g, "finish")
  BY <1>10, Zenon DEF SinkFinish, GoesOn, Decides, IsCheck, At, NewJob
<1>11. CASE CheckTake(g) /\ Took(g)
  BY <1>11, Zenon DEF CheckTake, Took, IsCheck, At, NewJob
<1> QED
  BY <1>1, <1>2, <1>3, <1>4, <1>5, <1>6, <1>7, <1>8, <1>9, <1>10, <1>11, JobCases, Zenon
  DEF JobCase, RunTypeOK

-----------------------------------------------------------------------------
(* An attempt at a split is spent once its mapper has ended and its finish *)
(* is no longer queued.                                                    *)
Spent(a) ==
  /\ a.try <= tries[a.task]
  /\ \A t \in queued : t.kind = "mapDone" => t.att # a
  /\ \A h \in Handler : At(h, "map", "commit") => Attempt(h) # a

(* No two mappers make the same attempt, and none makes one that is        *)
(* finished.                                                               *)
AttemptsDiffer ==
  /\ \A h \in Handler : At(h, "map", "commit") => job[h].try <= tries[job[h].task]
  /\ \A g, h \in Handler :
       g # h /\ At(g, "map", "commit") /\ At(h, "map", "commit") => Attempt(g) # Attempt(h)
  /\ \A t \in queued : t.kind = "mapDone" =>
       /\ t.att.try <= tries[t.att.task]
       /\ \A h \in Handler : At(h, "map", "commit") => Attempt(h) # t.att

(* A mapper at work was so before, or makes a new attempt. *)
LEMMA MapperSteps ==
  ASSUME RunTypeOK, [Next]_vars, NEW g \in Handler, At(g, "map", "commit")'
  PROVE  /\ \/ Persists(g) /\ At(g, "map", "commit") /\ Attempt(g)' = Attempt(g)
            \/ MapStarts(g) /\ \E t \in queued :
                 /\ t \in MapTask /\ t.split \in splits
                 /\ Map(g, t)
                 /\ Attempt(g)' = [task |-> t, try |-> tries[t] + 1]
                 /\ tries'[t] = tries[t] + 1
                 /\ Claimed(g, t, None, "commit", {})
<1>1. job'[g] # None /\ job'[g].task.kind = "map" /\ job'[g].step = "commit"
  BY Zenon DEF At
<1>2. CASE Persists(g)
  BY <1>1, <1>2, Zenon DEF Persists, At, Attempt
<1>3. CASE ~Persists(g)
  <2>1. MapStarts(g)
    BY <1>1, <1>3, NewJobs, Zenon DEF NewJob
  <2>2. PICK t \in queued :
            /\ Map(g, t) /\ t \in MapTask
            /\ Claimed(g, t, None, IF t.split \in splits THEN "commit" ELSE "retire", {})
    BY <2>1, Zenon DEF MapStarts
  <2>3. t.split \in splits
    BY <1>1, <2>2, Zenon DEF Claimed
  <2>4. Attempt(g)' = [task |-> t, try |-> tries[t] + 1] /\ tries'[t] = tries[t] + 1
    BY <2>2, Zenon DEF Claimed, Attempt, WorkTask
  <2> QED
    BY <2>1, <2>2, <2>3, <2>4, Zenon
<1> QED
  BY <1>2, <1>3, Zenon

(* Once spent, an attempt stays so. *)
LEMMA SpentStays ==
  ASSUME RunTypeOK, ClaimsSound, AttemptsDiffer, [Next]_vars, NEW a \in Attempts, Spent(a)
  PROVE  Spent(a)'
<1>1. a.task \in WorkTask /\ a.task \in MapTask /\ a.try \in Nat
  BY TaskFields, Zenon DEF WorkTask
<1>2. a.try <= tries'[a.task]
  <2>1. tries[a.task] <= tries'[a.task] /\ tries[a.task] \in Nat /\ tries'[a.task] \in Nat
    BY <1>1, JobWrites, Zenon DEF RunTypeOK, TriesType
  <2> QED
    BY <1>1, <2>1 DEF Spent
<1>3. ASSUME NEW t \in queued', t.kind = "mapDone"
      PROVE  t.att # a
  <2>1. CASE t \in queued
    BY <1>3, <2>1, Zenon DEF Spent
  <2>2. CASE t \notin queued
    <3>1. PICK h \in Handler : MapCommit(h) /\ StillTask(h) /\ t.att = Attempt(h)
      BY <1>3, <2>2, NewTasks, Zenon DEF NewTask
    <3> QED
      BY <3>1, Zenon DEF MapCommit, Spent
  <2> QED
    BY <2>1, <2>2, Zenon
<1>4. ASSUME NEW h \in Handler, At(h, "map", "commit")'
      PROVE  Attempt(h)' # a
  <2>1. CASE At(h, "map", "commit") /\ Attempt(h)' = Attempt(h)
    BY <2>1, Zenon DEF Spent
  <2>2. CASE \E t \in queued : t \in MapTask /\ Attempt(h)' = [task |-> t, try |-> tries[t] + 1]
    <3>1. PICK t \in queued : t \in MapTask /\ Attempt(h)' = [task |-> t, try |-> tries[t] + 1]
      BY <2>2, Zenon
    <3>2. tries[t] \in Nat
      BY <3>1, Zenon DEF WorkTask, RunTypeOK, TriesType
    <3>3. a.task = t => a.try <= tries[t]
      BY Zenon DEF Spent
    <3> QED
      BY <1>1, <3>1, <3>2, <3>3
  <2> QED
    BY <1>4, <2>1, <2>2, MapperSteps, Zenon
<1> QED
  BY <1>2, <1>3, <1>4, Zenon DEF Spent

(* Each claim of a work task is another attempt. *)
LEMMA AttemptsDifferKept ==
  ASSUME RunTypeOK, ClaimsSound, AttemptsDiffer, [Next]_vars
  PROVE  AttemptsDiffer'
<1>1. ASSUME NEW h \in Handler, At(h, "map", "commit")'
      PROVE  job'[h].try <= tries'[job'[h].task]
  <2>1. CASE Persists(h) /\ At(h, "map", "commit")
    <3>1. job'[h].try = job[h].try /\ job'[h].task = job[h].task
      BY <1>1, <2>1, Zenon DEF Persists, At
    <3>2. job[h].task \in WorkTask /\ job[h].try \in Nat
      BY <2>1, JobFields, Zenon DEF At, RunTypeOK, WorkTask
    <3>3. /\ tries[job[h].task] <= tries'[job[h].task] /\ tries[job[h].task] \in Nat
          /\ tries'[job[h].task] \in Nat
      BY <3>2, JobWrites, Zenon DEF RunTypeOK, TriesType
    <3>4. job[h].try <= tries[job[h].task]
      BY <2>1, Zenon DEF AttemptsDiffer
    <3> QED
      BY <3>1, <3>2, <3>3, <3>4
  <2>2. CASE \E t \in queued : /\ t \in MapTask /\ tries'[t] = tries[t] + 1
                               /\ Attempt(h)' = [task |-> t, try |-> tries[t] + 1]
    BY <2>2 DEF Attempt, WorkTask, RunTypeOK, TriesType
  <2> QED
    BY <1>1, <2>1, <2>2, MapperSteps, Zenon
<1>2. ASSUME NEW h \in Handler, NEW a \in Attempts, a.try <= tries[a.task],
             At(h, "map", "commit")', At(h, "map", "commit") => Attempt(h) # a
      PROVE  Attempt(h)' # a
  <2>1. CASE At(h, "map", "commit") /\ Attempt(h)' = Attempt(h)
    BY <1>2, <2>1, Zenon
  <2>2. CASE \E t \in queued : t \in MapTask /\ Attempt(h)' = [task |-> t, try |-> tries[t] + 1]
    <3>1. PICK t \in queued : t \in MapTask /\ Attempt(h)' = [task |-> t, try |-> tries[t] + 1]
      BY <2>2, Zenon
    <3>2. tries[t] \in Nat /\ a.try \in Nat
      BY <3>1, TaskFields, Zenon DEF WorkTask, RunTypeOK, TriesType
    <3> QED
      BY <1>2, <3>1, <3>2
  <2> QED
    BY <1>2, <2>1, <2>2, MapperSteps, Zenon
<1>3. ASSUME NEW g \in Handler, NEW h \in Handler, g # h, At(g, "map", "commit")', At(h, "map", "commit")'
      PROVE  Attempt(g)' # Attempt(h)'
  <2>1. ASSUME NEW x \in Handler, NEW y \in Handler, x # y, Persists(x), At(x, "map", "commit"),
               Attempt(x)' = Attempt(x), At(y, "map", "commit")'
        PROVE  Attempt(y)' # Attempt(x)'
    <3>1. Attempt(x) \in Attempts /\ Attempt(x).try <= tries[Attempt(x).task]
      BY <2>1, JobFields, Zenon DEF At, RunTypeOK, AttemptsDiffer
    <3>2. At(y, "map", "commit") => Attempt(y) # Attempt(x)
      BY <2>1, Zenon DEF AttemptsDiffer
    <3> QED
      BY <1>2, <2>1, <3>1, <3>2, Zenon
  <2>2. CASE Persists(g) /\ At(g, "map", "commit") /\ Attempt(g)' = Attempt(g)
    BY <1>3, <2>1, <2>2, Zenon
  <2>3. CASE Persists(h) /\ At(h, "map", "commit") /\ Attempt(h)' = Attempt(h)
    BY <1>3, <2>1, <2>3, Zenon
  <2>4. CASE MapStarts(g) /\ MapStarts(h)
    <3>1. job[h] = None /\ Persists(h)
      BY <1>3, <2>4, Zenon DEF MapStarts, Claimed
    <3> QED
      BY <1>3, <3>1, Zenon DEF Persists, At
  <2> QED
    BY <1>3, <2>2, <2>3, <2>4, MapperSteps, Zenon
<1>4. ASSUME NEW t \in queued', t.kind = "mapDone"
      PROVE  /\ t.att.try <= tries'[t.att.task]
             /\ \A h \in Handler : At(h, "map", "commit")' => Attempt(h)' # t.att
  <2>1. t.att \in Attempts
    BY <1>4, RunTypeKept, KindOfTask, TaskFields, Zenon DEF RunTypeOK, TaskType
  <2>2. ASSUME t.att.try <= tries[t.att.task]
        PROVE  t.att.try <= tries'[t.att.task]
    <3>1. t.att.task \in WorkTask /\ t.att.try \in Nat
      BY <2>1, TaskFields, Zenon DEF WorkTask
    <3>2. /\ tries[t.att.task] <= tries'[t.att.task] /\ tries[t.att.task] \in Nat
          /\ tries'[t.att.task] \in Nat
      BY <3>1, JobWrites, Zenon DEF RunTypeOK, TriesType
    <3> QED
      BY <2>2, <3>1, <3>2
  <2>3. CASE t \in queued
    BY <1>2, <1>4, <2>1, <2>2, <2>3, Zenon DEF AttemptsDiffer
  <2>4. CASE t \notin queued
    <3>1. PICK x \in Handler : MapCommit(x) /\ StillTask(x) /\ t.att = Attempt(x)
      BY <1>4, <2>4, NewTasks, Zenon DEF NewTask
    <3>2. At(x, "map", "commit") /\ Done(x)
      BY <3>1, Zenon DEF MapCommit
    <3>3. t.att.try <= tries[t.att.task]
      BY <3>1, <3>2 DEF AttemptsDiffer, Attempt
    <3>4. job'[x] = None
      BY <3>2, DoneSteps, Zenon DEF RunTypeOK
    <3>5. \A h \in Handler \ {x} : At(h, "map", "commit") => Attempt(h) # t.att
      BY <3>1, <3>2, Zenon DEF AttemptsDiffer
    <3> QED
      BY <1>2, <2>1, <2>2, <3>3, <3>4, <3>5, Zenon DEF At
  <2> QED
    BY <2>3, <2>4, Zenon
<1> QED
  BY <1>1, <1>3, <1>4, Zenon DEF AttemptsDiffer

-----------------------------------------------------------------------------
ReduceKinds == {"reduce", "reduceDone", "reduceCheck"}

(* From the reduce phase on all splits have been accepted, and there are   *)
(* reduce tasks, finishes and checks only then.  A check that has finished *)
(* the sink found nothing left.                                            *)
PhaseSound ==
  /\ phase \in {"reduce", "done"} => splits = {}
  /\ phase = "done" => pointers = {} /\ manifest # None
  /\ \A t \in queued \cup errors : t.kind \in ReduceKinds => splits = {} /\ phase \notin {"none", "map"}
  /\ \A h \in Handler :
       job[h] # None /\ job[h].task.kind \in ReduceKinds => splits = {} /\ phase \notin {"none", "map"}
  /\ \A h \in Handler : IsCheck(h, "finish") =>
       splits = {} /\ pointers = {} /\ manifest # None /\ PhaseOf(job[h].task) \in job[h].saw

Sound == RunTypeOK /\ ClaimsSound /\ AttemptsDiffer /\ PhaseSound

(* A check that still has the state doc and decides knows where the run is. *)
LEMMA DeciderKnows ==
  ASSUME ClaimsSound, NEW h \in Handler, Decides(h, TRUE), StillHeld(h)
  PROVE  phase \in {"map", "reduce"} /\ phase = PhaseOf(job[h].task) /\ Reached(job[h].task, phase)
<1>1. job[h] # None /\ job[h].step = "decide" /\ job[h].set # None
  BY Zenon DEF Decides, IsCheck, At, StillHeld
<1>2. job[h].saw = {phase}
  BY <1>1, Zenon DEF ClaimsSound, StateHeld
<1>3. \E seen \in job[h].saw : Reached(job[h].task, seen)
  BY Zenon DEF Decides
<1> QED
  BY <1>2, <1>3, Zenon DEF Reached, PhaseOf

(* The phases come in order, and a run that has ended has ended. *)
LEMMA PhaseMoves ==
  ASSUME Sound, [Next]_vars
  PROVE  \/ phase' = phase
         \/ phase = "none" /\ phase' = "map" /\ StartRun
         \/ phase = "map" /\ phase' = "reduce" /\ splits = {} /\ pointers # {}
         \/ phase \in {"map", "reduce"} /\ phase' = "failed"
         \/ /\ phase \in {"map", "reduce"} /\ phase' = "done"
            /\ splits = {} /\ pointers = {} /\ manifest # None
<1>1. ASSUME NEW h \in Handler, FanOut(h), StillHeld(h), phase' = "reduce"
      PROVE  phase = "map" /\ splits = {} /\ pointers # {}
  <2>1. Decides(h, TRUE) /\ pointers # {}
    BY <1>1, Zenon DEF FanOut
  <2>2. phase = PhaseOf(job[h].task) /\ Reached(job[h].task, phase)
    BY <1>1, <2>1, DeciderKnows, Zenon DEF Sound
  <2> QED
    BY <2>1, <2>2, Zenon DEF Reached, PhaseOf
<1>2. ASSUME NEW h \in Handler, Completes(h)
      PROVE  /\ phase \in {"map", "reduce"}
             /\ splits = {} /\ pointers = {} /\ manifest # None
  <2>1. IsCheck(h, "finish") /\ job[h].set # None
    BY <1>2, Zenon DEF Completes, Finish, StillHeld
  <2>2. /\ splits = {} /\ pointers = {} /\ manifest # None /\ PhaseOf(job[h].task) \in job[h].saw
    BY <2>1, Zenon DEF Sound, PhaseSound
  <2>3. job[h].saw = {phase}
    BY <2>1, Zenon DEF IsCheck, At, Sound, ClaimsSound, StateHeld
  <2> QED
    BY <2>2, <2>3, Zenon DEF PhaseOf
<1>3. ASSUME NEW h \in Handler, Fails(h)
      PROVE  phase \in {"map", "reduce"}
  <2>1. CASE FinishFails(h)
    BY <1>3, <2>1, DeciderKnows, Zenon DEF Fails, FinishFails, Sound
  <2>2. CASE Judge(h) /\ ~Terminal
    <3>1. phase # "none"
      BY <2>2, Zenon DEF Judge, Judging, Sound, ClaimsSound, NotStarted
    <3> QED
      BY <2>2, <3>1, Zenon DEF Terminal, Sound, RunTypeOK, DocsType, PhaseNames
  <2> QED
    BY <1>3, <2>1, <2>2, Zenon DEF Fails
<1> QED
  BY <1>1, <1>2, <1>3, PhaseWrites, Zenon DEF FailNow

(* Once the run has started, splits are only accepted, and once they all   *)
(* are, nothing more is published.                                         *)
LEMMA DocsShrink ==
  ASSUME Sound, [Next]_vars, phase # "none"
  PROVE  /\ phase' # "none"
         /\ splits' \subseteq splits
         /\ splits = {} => pointers' \subseteq pointers
         /\ manifest # None => manifest' # None
         /\ markers \subseteq markers'
<1>1. \A s \in Split : ~Stage(s)
  BY Zenon DEF Stage, Sound, ClaimsSound, NotStarted
<1>2. \A h \in Handler : MapAccepts(h) => splits' \subseteq splits /\ splits # {}
  BY Zenon DEF MapAccepts, MapDoneAccept
<1>3. \A h \in Handler : ReduceAccepts(h) => pointers' \subseteq pointers /\ markers \subseteq markers'
  BY Zenon DEF ReduceAccepts, ReduceDoneAccept
<1>4. manifest # None => manifest' # None
  BY SinkWrites, Zenon DEF SinkFinish
<1> QED
  BY <1>1, <1>2, <1>3, <1>4, DocsWrites, PhaseMoves, Zenon

(* The phase moves on only when the units of the last have been accepted. *)
LEMMA PhaseSoundKept ==
  ASSUME Sound, [Next]_vars
  PROVE  PhaseSound'
<1>1. phase' \in {"reduce", "done"} => splits' = {}
  BY PhaseMoves, DocsShrink, Zenon DEF Sound, PhaseSound
<1>2. phase' = "done" => pointers' = {} /\ manifest' # None
  BY PhaseMoves, DocsShrink, Zenon DEF Sound, PhaseSound
<1>3. ASSUME splits = {}, phase \notin {"none", "map"}
      PROVE  splits' = {} /\ phase' \notin {"none", "map"}
  BY <1>3, PhaseMoves, DocsShrink, Zenon
<1>4. ASSUME NEW t \in queued', t.kind \in ReduceKinds
      PROVE  splits' = {} /\ phase' \notin {"none", "map"}
  <2>1. CASE t \in queued
    BY <1>3, <1>4, <2>1, Zenon DEF Sound, PhaseSound
  <2>2. CASE t \notin queued
    <3>1. CASE \E x \in queued, c \in Copy : Backup(x, c) /\ x.kind = "reduce"
      BY <1>3, <3>1, Zenon DEF Sound, PhaseSound, ReduceKinds
    <3>2. CASE \E h \in Handler : FanOut(h) /\ StillHeld(h)
      <4>1. phase' = "reduce"
        BY <3>2, Zenon DEF FanOut
      <4> QED
        BY <1>1, <4>1, Zenon
    <3>3. CASE \E h \in Handler : ReduceCommit(h) \/ ReduceAccepts(h)
      BY <1>3, <3>3, Zenon
      DEF ReduceCommit, ReduceAccepts, ReduceDoneAccept, At, Sound, PhaseSound, ReduceKinds
    <3> QED
      BY <1>4, <2>2, <3>1, <3>2, <3>3, NewTasks, Zenon DEF NewTask, ReduceKinds
  <2> QED
    BY <2>1, <2>2, Zenon
<1>5. ASSUME NEW t \in errors', t.kind \in ReduceKinds
      PROVE  splits' = {} /\ phase' \notin {"none", "map"}
  <2>1. CASE t \in errors
    BY <1>3, <1>5, <2>1, Zenon DEF Sound, PhaseSound
  <2>2. ASSUME NEW h \in Handler, Move(h), t = job[h].task
        PROVE  splits' = {} /\ phase' \notin {"none", "map"}
    BY <1>3, <1>5, <2>2, Zenon DEF Move, Movable, At, Sound, PhaseSound
  <2> QED
    BY <1>5, <2>1, <2>2, ErrorsWrites, Zenon DEF ReduceKinds
<1>6. ASSUME NEW g \in Handler, job'[g] # None, job'[g].task.kind \in ReduceKinds
      PROVE  splits' = {} /\ phase' \notin {"none", "map"}
  <2>1. CASE Persists(g)
    BY <1>3, <1>6, <2>1, Zenon DEF Persists, Sound, PhaseSound
  <2>2. CASE ~Persists(g)
    <3>1. CASE GoesOn(g, job'[g].step) \/ Took(g)
      BY <1>3, <1>6, <3>1, Zenon DEF GoesOn, Took, Sound, PhaseSound
    <3>2. CASE job'[g].task \in queued \cup errors
      BY <1>3, <1>6, <3>2, Zenon DEF Sound, PhaseSound
    <3> QED
      BY <2>2, <3>1, <3>2, JobCases, Zenon
      DEF JobCase, Sound, RunTypeOK, MapStarts, ReduceStarts, MapDoneStarts, ReduceDoneStarts,
          CheckStarts, SweepStarts, JudgeStarts, Claimed, GoesOn
  <2> QED
    BY <2>1, <2>2, Zenon
<1>7. ASSUME NEW g \in Handler, IsCheck(g, "finish")'
      PROVE  /\ splits' = {} /\ pointers' = {} /\ manifest' # None
             /\ PhaseOf(job'[g].task) \in job'[g].saw
  <2>1. CASE Persists(g)
    <3>1. /\ IsCheck(g, "finish") /\ job[g] # None /\ job'[g].task = job[g].task
          /\ job'[g].saw = job[g].saw
      BY <1>7, <2>1, Zenon DEF Persists, IsCheck, At
    <3>2. phase # "none"
      BY <3>1, Zenon DEF Sound, ClaimsSound, NotStarted
    <3> QED
      BY <3>1, <3>2, DocsShrink, Zenon DEF Sound, PhaseSound
  <2>2. CASE ~Persists(g)
    <3>1. SinkFinish(g) /\ GoesOn(g, "finish")
      BY <1>7, <2>2, NewJobs, Zenon DEF NewJob, IsCheck, At, Sound
    <3>2. /\ UNCHANGED <<splits, pointers>> /\ pointers = {} /\ Decides(g, TRUE)
          /\ job'[g].task = job[g].task /\ job'[g].saw = job[g].saw
      BY <3>1, Zenon DEF SinkFinish, GoesOn, runVars
    <3>3. PICK seen \in job[g].saw : Reached(job[g].task, seen)
      BY <3>2, Zenon DEF Decides
    <3>4. splits = {}
      BY <3>2, <3>3, Zenon DEF Reached, Decides, IsCheck, At, Sound, PhaseSound, ReduceKinds
    <3>5. manifest' # None
      <4>1. \A found : [empty |-> Partition \ found] \in [empty : SUBSET Partition]
        BY Zenon
      <4> QED
        BY <3>1, <4>1, NoneIsNoDoc, Zenon DEF SinkFinish
    <3> QED
      BY <3>2, <3>3, <3>4, <3>5, Zenon DEF Reached
  <2> QED
    BY <2>1, <2>2, Zenon
<1> QED
  BY <1>1, <1>2, <1>4, <1>5, <1>6, <1>7, Zenon DEF PhaseSound

(* All of the above is kept. *)
LEMMA SoundKept ==
  ASSUME Sound, [Next]_vars
  PROVE  Sound'
BY RunTypeKept, ClaimsKept, AttemptsDifferKept, PhaseSoundKept, Zenon DEF Sound

-----------------------------------------------------------------------------
(* The runs that are published, being reduced, or to be collected are of   *)
(* spent attempts.                                                         *)
RunsSpent ==
  /\ \A r \in pointers : Spent(r.att)
  /\ \A t \in queued : t.kind \in {"gc", "reduceDone"} => \A r \in t.runs : Spent(r.att)
  /\ \A h \in Handler : At(h, "reduce", "merge") \/ At(h, "reduce", "commit") =>
       \A r \in job[h].saw : Spent(r.att)

(* A finish that leaves the queue leaves its attempt spent. *)
LEMMA FinishSpends ==
  ASSUME Sound, [Next]_vars, NEW h \in Handler, MapAccepts(h) \/ (Discard(h) /\ StillHeld(h)),
         job[h].task.kind = "mapDone", NEW a, a = job[h].task.att
  PROVE  Spent(a)' /\ a \in Attempts /\ job[h].task \in queued
<1>1. job[h] # None /\ job[h].mine /\ job[h].step \in {"accept", "discard"} /\ Done(h)
  BY Zenon DEF MapAccepts, MapDoneAccept, Discard, At, StillHeld
<1>2. job[h].task \in queued /\ job[h].task \in MapDoneTask
  BY <1>1, JobFields, Zenon DEF Sound, RunTypeOK, ClaimsSound, ClaimedIsThere
<1>3. a \in Attempts /\ job[h].task = MapDone(a)
  BY <1>2, TaskFields, Zenon
<1>4. a.try <= tries[a.task] /\ \A g \in Handler : At(g, "map", "commit") => Attempt(g) # a
  BY <1>2, Zenon DEF Sound, AttemptsDiffer
<1>5. job' = [job EXCEPT ![h] = None] /\ tries' = tries
  BY <1>1, Zenon DEF MapAccepts, MapDoneAccept, Discard, Done
<1>6. \A g \in Handler : At(g, "map", "commit")' => Attempt(g)' # a
  BY <1>4, <1>5, DoneSteps, <1>1, Zenon DEF At, Attempt, Sound, RunTypeOK, JobType
<1>7. ASSUME NEW t \in queued', t.kind = "mapDone"
      PROVE  t.att # a
  <2>1. t \in queued /\ t # job[h].task
    BY <1>7, SMTT(30) DEF MapAccepts, MapDoneAccept, Discard, Replace, Checking, Collecting
  <2>2. t = MapDone(t.att)
    BY <1>7, <2>1, KindOfTask, TaskFields, Zenon DEF Sound, RunTypeOK, TaskType
  <2> QED
    BY <1>3, <2>1, <2>2, Zenon
<1> QED
  BY <1>2, <1>3, <1>4, <1>5, <1>6, <1>7, Zenon DEF Spent

(* Runs are published by attempts that are then spent. *)
LEMMA RunsSpentKept ==
  ASSUME Sound, RunsSpent, [Next]_vars
  PROVE  RunsSpent'
<1>1. \A r \in Runs : Spent(r.att) => Spent(r.att)'
  BY SpentStays, TaskFields, Zenon DEF Sound
<1>2. ASSUME NEW r \in pointers'
      PROVE  Spent(r.att)'
  <2>1. CASE r \in pointers
    BY <1>1, <2>1, Zenon DEF RunsSpent, Sound, RunTypeOK, DocsType
  <2>2. CASE r \notin pointers
    <3>1. PICK h \in Handler : MapAccepts(h)
      BY <2>2, DocsWrites, Zenon DEF ReduceAccepts, ReduceDoneAccept
    <3>2. job[h].task.kind = "mapDone" /\ r \in RunsOf(job[h].task.att)
      BY <2>2, <3>1, Zenon DEF MapAccepts, MapDoneAccept, At
    <3>3. \A a : a = job[h].task.att => Spent(a)' /\ a \in Attempts
      BY <3>1, <3>2, FinishSpends, Zenon
    <3>4. r.att = job[h].task.att
      BY <3>2, <3>3, RunsFields DEF Sound, RunTypeOK
    <3> QED
      BY <3>3, <3>4, Zenon
  <2> QED
    BY <2>1, <2>2, Zenon
<1>3. ASSUME NEW t \in queued', t.kind \in {"gc", "reduceDone"}, NEW r \in t.runs
      PROVE  Spent(r.att)'
  <2>1. CASE t \in queued
    <3>1. r \in Runs
      BY <1>3, <2>1, KindOfTask, TaskFields, Zenon DEF Sound, RunTypeOK, TaskType
    <3> QED
      BY <1>1, <1>3, <2>1, <3>1, Zenon DEF RunsSpent
  <2>2. CASE t \notin queued
    <3>1. ASSUME NEW h \in Handler, ReduceAccepts(h) \/ (Discard(h) /\ StillHeld(h) /\ At(h, "reduceDone", "discard")),
                 t.runs = job[h].task.runs
          PROVE  Spent(r.att)'
      <4>1. /\ job[h] # None /\ job[h].mine /\ job[h].step \in {"accept", "discard"}
            /\ job[h].task.kind = "reduceDone"
        BY <3>1, Zenon DEF ReduceAccepts, ReduceDoneAccept, At, StillHeld
      <4>2. job[h].task \in queued /\ job[h].task.runs \subseteq Runs
        BY <4>1, JobFields, TaskFields, Zenon DEF Sound, RunTypeOK, ClaimsSound, ClaimedIsThere
      <4> QED
        BY <1>1, <1>3, <3>1, <4>1, <4>2, Zenon DEF RunsSpent
    <3>2. ASSUME NEW h \in Handler, Discard(h), StillHeld(h), At(h, "mapDone", "discard"),
                 t.runs = RunsOf(job[h].task.att)
          PROVE  Spent(r.att)'
      <4>1. \A a : a = job[h].task.att => Spent(a)' /\ a \in Attempts
        BY <3>2, FinishSpends, Zenon DEF At
      <4>2. r.att = job[h].task.att
        BY <1>3, <3>2, <4>1, RunsFields DEF Sound, RunTypeOK
      <4> QED
        BY <4>1, <4>2, Zenon
    <3>3. ASSUME NEW h \in Handler, ReduceCommit(h), t.runs = job[h].saw
          PROVE  Spent(r.att)'
      BY <1>1, <1>3, <3>3, Zenon DEF ReduceCommit, RunsSpent, Sound, RunTypeOK, SeenType
    <3> QED
      BY <1>3, <2>2, <3>1, <3>2, <3>3, NewTasks, Zenon DEF NewTask
  <2> QED
    BY <2>1, <2>2, Zenon
<1>4. ASSUME NEW g \in Handler, (At(g, "reduce", "merge") \/ At(g, "reduce", "commit"))', NEW r \in job'[g].saw
      PROVE  Spent(r.att)'
  <2>1. CASE Persists(g)
    BY <1>1, <1>4, <2>1, Zenon DEF Persists, At, RunsSpent, Sound, RunTypeOK, SeenType
  <2>2. CASE Reduce(g) /\ GoesOn(g, "commit")
    BY <1>1, <1>4, <2>2, Zenon DEF Reduce, GoesOn, At, RunsSpent, Sound, RunTypeOK, SeenType
  <2>3. CASE ReduceStarts(g)
    BY <1>1, <1>4, <2>3, Zenon
    DEF ReduceStarts, Claimed, PointersOf, RunsSpent, Sound, RunTypeOK, DocsType
  <2> QED
    BY <1>4, <2>1, <2>2, <2>3, NewJobs, Zenon DEF NewJob, At, Sound
<1> QED
  BY <1>2, <1>3, <1>4, Zenon DEF RunsSpent

-----------------------------------------------------------------------------
(* What handlers have found stays so: a unit that was accepted, or that    *)
(* had nothing left to reduce, and the pointers that a finish consumes.    *)
Settled ==
  /\ \A h \in Handler : At(h, "map", "retire") => job[h].task.split \notin splits
  /\ \A h \in Handler : At(h, "reduce", "retire") => \A r \in pointers : r.part # job[h].task.part
  /\ \A h \in Handler : At(h, "mapDone", "discard") =>
       Terminal \/ job[h].task.att.task.split \notin splits
  /\ \A h \in Handler : At(h, "reduceDone", "discard") =>
       Terminal \/ \A r \in pointers : r.part # job[h].task.att.task.part
  /\ \A h \in Handler : At(h, "reduceDone", "sink") \/ At(h, "reduceDone", "accept") =>
       /\ job[h].saw = job[h].task.runs
       /\ \A r \in pointers : r.part = job[h].task.att.task.part => r \in job[h].saw
  /\ \A r \in pointers : r.part \notin markers
  /\ markers # {} => splits = {}

(* The runs of a reducer and its finish are of its partition. *)
OwnPartition ==
  /\ \A t \in queued : t.kind = "reduceDone" => \A r \in t.runs : r.part = t.att.task.part
  /\ \A h \in Handler : job[h] # None /\ job[h].task.kind = "reduceDone" /\ job[h].step # "judge" =>
       \A r \in job[h].task.runs : r.part = job[h].task.att.task.part
  /\ \A h \in Handler : At(h, "reduce", "merge") \/ At(h, "reduce", "commit") =>
       \A r \in job[h].saw : r.part = job[h].task.part

(* What was accepted stays accepted. *)
LEMMA SettledKept ==
  ASSUME Sound, Settled, [Next]_vars
  PROVE  Settled'
<1>1. Terminal => Terminal'
  BY PhaseMoves, Zenon DEF Terminal
<1>2. ASSUME NEW g \in Handler, job[g] # None
      PROVE  phase # "none" /\ splits' \subseteq splits
  BY <1>2, DocsShrink, Zenon DEF Sound, ClaimsSound, NotStarted
<1>3. ASSUME NEW g \in Handler, job[g] # None, job[g].task.kind \in ReduceKinds
      PROVE  pointers' \subseteq pointers
  BY <1>2, <1>3, DocsShrink, Zenon DEF Sound, PhaseSound
<1>4. ASSUME NEW g \in Handler, At(g, "map", "retire")'
      PROVE  job'[g].task.split \notin splits'
  <2>1. CASE Persists(g)
    BY <1>2, <1>4, <2>1, Zenon DEF Persists, At, Settled
  <2>2. CASE MapStarts(g)
    BY <1>4, <2>2, Zenon DEF MapStarts, Claimed, Map, At, runVars
  <2> QED
    BY <1>4, <2>1, <2>2, NewJobs, Zenon DEF NewJob, At, Sound
<1>5. ASSUME NEW g \in Handler, At(g, "reduce", "retire")', NEW r \in pointers'
      PROVE  r.part # job'[g].task.part
  <2>1. CASE Persists(g)
    <3>1. At(g, "reduce", "retire") /\ job'[g].task = job[g].task
      BY <1>5, <2>1, Zenon DEF Persists, At
    <3>2. r \in pointers
      BY <1>3, <3>1, Zenon DEF At, ReduceKinds
    <3> QED
      BY <3>1, <3>2, Zenon DEF Settled
  <2>2. CASE ReduceStarts(g)
    BY <1>5, <2>2 DEF ReduceStarts, Claimed, ReduceRead, PointersOf, At, runVars
  <2> QED
    BY <1>5, <2>1, <2>2, NewJobs, Zenon DEF NewJob, At, Sound
<1>6. ASSUME NEW g \in Handler, At(g, "mapDone", "discard")'
      PROVE  Terminal' \/ job'[g].task.att.task.split \notin splits'
  <2>1. CASE Persists(g)
    BY <1>1, <1>2, <1>6, <2>1, Zenon DEF Persists, At, Settled
  <2>2. CASE MapDoneStarts(g)
    <3>1. Terminal \/ job'[g].task.att.task.split \notin splits
      BY <1>6, <2>2, Zenon DEF MapDoneStarts, Claimed, At
    <3>2. splits' = splits
      BY <2>2, Zenon DEF MapDoneStarts, MapDoneRead, runVars
    <3> QED
      BY <1>1, <3>1, <3>2, Zenon
  <2> QED
    BY <1>6, <2>1, <2>2, NewJobs, Zenon DEF NewJob, At, Sound
<1>7. ASSUME NEW g \in Handler, At(g, "reduceDone", "discard")'
      PROVE  Terminal' \/ \A r \in pointers' : r.part # job'[g].task.att.task.part
  <2>1. CASE Persists(g)
    <3>1. At(g, "reduceDone", "discard") /\ job'[g].task = job[g].task
      BY <1>7, <2>1, Zenon DEF Persists, At
    <3>2. pointers' \subseteq pointers
      BY <1>3, <3>1, Zenon DEF At, ReduceKinds
    <3> QED
      BY <1>1, <3>1, <3>2, Zenon DEF Settled
  <2>2. CASE ReduceDoneStarts(g)
    <3>1. PICK t \in queued : job'[g].task = t /\ (Terminal \/ t.att.task.part \in markers \/ PointersOf(t.att.task.part) = {})
      BY <1>7, <2>2, Zenon DEF ReduceDoneStarts, Claimed, At
    <3>2. pointers' = pointers
      BY <2>2, Zenon DEF ReduceDoneStarts, ReduceDoneRead, runVars
    <3> QED
      BY <1>1, <3>1, <3>2, Zenon DEF PointersOf, Settled
  <2> QED
    BY <1>7, <2>1, <2>2, NewJobs, Zenon DEF NewJob, At, Sound
<1>8. ASSUME NEW g \in Handler, (At(g, "reduceDone", "sink") \/ At(g, "reduceDone", "accept"))'
      PROVE  /\ job'[g].saw = job'[g].task.runs
             /\ \A r \in pointers' : r.part = job'[g].task.att.task.part => r \in job'[g].saw
  <2>1. CASE Persists(g) \/ (SinkCommit(g) /\ GoesOn(g, "accept"))
    <3>1. /\ At(g, "reduceDone", "sink") \/ At(g, "reduceDone", "accept")
          /\ job'[g].task = job[g].task /\ job'[g].saw = job[g].saw
      BY <1>8, <2>1, Zenon DEF Persists, At, SinkCommit, GoesOn
    <3>2. pointers' \subseteq pointers
      BY <1>3, <3>1, Zenon DEF At, ReduceKinds
    <3> QED
      BY <3>1, <3>2, Zenon DEF Settled
  <2>2. CASE ReduceDoneStarts(g)
    <3>1. PICK t \in queued : /\ job'[g].task = t /\ job'[g].saw = PointersOf(t.att.task.part)
                              /\ job'[g].step = "sink" => PointersOf(t.att.task.part) = t.runs
                              /\ job'[g].step # "accept"
      BY <2>2, Zenon DEF ReduceDoneStarts, Claimed
    <3>2. pointers' = pointers
      BY <2>2, Zenon DEF ReduceDoneStarts, ReduceDoneRead, runVars
    <3> QED
      BY <1>8, <3>1, <3>2, Zenon DEF PointersOf, At
  <2> QED
    BY <1>8, <2>1, <2>2, NewJobs, Zenon DEF NewJob, At, Sound
<1>9. markers' # {} => splits' = {}
  <2>1. CASE markers # {}
    BY <2>1, DocsShrink, Zenon DEF Settled, Sound, ClaimsSound, NotStarted
  <2>2. CASE \E h \in Handler : ReduceAccepts(h)
    BY <2>2, <1>2, Zenon DEF ReduceAccepts, ReduceDoneAccept, At, Sound, PhaseSound, ReduceKinds
  <2> QED
    BY <2>1, <2>2, DocsWrites, Zenon
<1>10. ASSUME NEW r \in pointers'
       PROVE  r.part \notin markers'
  <2>1. CASE \E h \in Handler : ReduceAccepts(h)
    <3>1. PICK h \in Handler : ReduceAccepts(h)
      BY <2>1, Zenon
    <3>2. /\ At(h, "reduceDone", "accept") /\ pointers' = pointers \ job[h].saw
          /\ markers' = markers \cup {job[h].task.att.task.part}
      BY <3>1, Zenon DEF ReduceAccepts, ReduceDoneAccept
    <3> QED
      BY <3>2, Zenon DEF Settled
  <2>2. CASE ~\E h \in Handler : ReduceAccepts(h)
    <3>1. markers' = markers
      BY <2>2, DocsWrites, Zenon
    <3>2. CASE r \in pointers
      BY <3>1, <3>2, Zenon DEF Settled
    <3>3. CASE r \notin pointers
      <4>1. \E h \in Handler : MapAccepts(h)
        BY <2>2, <3>3, DocsWrites, Zenon
      <4>2. splits # {}
        BY <4>1, Zenon DEF MapAccepts
      <4> QED
        BY <3>1, <4>2, Zenon DEF Settled
    <3> QED
      BY <3>2, <3>3, Zenon
  <2> QED
    BY <2>1, <2>2, Zenon
<1> QED
  BY <1>4, <1>5, <1>6, <1>7, <1>8, <1>9, <1>10, Zenon DEF Settled

(* Reducers keep to their partition. *)
LEMMA OwnPartitionKept ==
  ASSUME Sound, OwnPartition, [Next]_vars
  PROVE  OwnPartition'
<1>1. ASSUME NEW t \in queued', t.kind = "reduceDone", NEW r \in t.runs
      PROVE  r.part = t.att.task.part
  <2>1. CASE t \in queued
    BY <1>1, <2>1, Zenon DEF OwnPartition
  <2>2. CASE t \notin queued
    <3>1. PICK h \in Handler : ReduceCommit(h) /\ t.att = Attempt(h) /\ t.runs = job[h].saw
      BY <1>1, <2>2, NewTasks, Zenon DEF NewTask
    <3> QED
      BY <1>1, <3>1 DEF ReduceCommit, OwnPartition, Attempt
  <2> QED
    BY <2>1, <2>2, Zenon
<1>2. ASSUME NEW g \in Handler, job'[g] # None, job'[g].task.kind = "reduceDone",
             job'[g].step # "judge", NEW r \in job'[g].task.runs
      PROVE  r.part = job'[g].task.att.task.part
  <2>1. CASE Persists(g) \/ (SinkCommit(g) /\ GoesOn(g, "accept"))
    <3>1. job[g] # None /\ job'[g].task = job[g].task /\ job[g].step # "judge"
      BY <1>2, <2>1, Zenon DEF Persists, SinkCommit, GoesOn, At
    <3> QED
      BY <1>2, <3>1, Zenon DEF OwnPartition
  <2>2. CASE ReduceDoneStarts(g)
    BY <1>2, <2>2 DEF ReduceDoneStarts, Claimed, OwnPartition
  <2> QED
    BY <1>2, <2>1, <2>2, NewJobs, Zenon DEF NewJob, Sound
<1>3. ASSUME NEW g \in Handler, (At(g, "reduce", "merge") \/ At(g, "reduce", "commit"))',
             NEW r \in job'[g].saw
      PROVE  r.part = job'[g].task.part
  <2>1. CASE Persists(g) \/ (Reduce(g) /\ GoesOn(g, "commit"))
    BY <1>3, <2>1, SMTT(30) DEF Persists, Reduce, GoesOn, At, OwnPartition
  <2>2. CASE ReduceStarts(g)
    BY <1>3, <2>2 DEF ReduceStarts, Claimed, PointersOf
  <2> QED
    BY <1>3, <2>1, <2>2, NewJobs, Zenon DEF NewJob, At, Sound
<1> QED
  BY <1>1, <1>2, <1>3, Zenon DEF OwnPartition

-----------------------------------------------------------------------------
(* While the run goes on, the store keeps the runs of every attempt that   *)
(* may yet be accepted and every run that is published: what is to be      *)
(* collected is neither, and there is no sweep.                            *)
Stored ==
  ~Terminal =>
    /\ \A h \in Handler : At(h, "map", "commit") => RunsOf(Attempt(h)) \subseteq store
    /\ \A t \in queued : t.kind = "mapDone" => RunsOf(t.att) \subseteq store
    /\ pointers \subseteq store
    /\ \A t \in queued : t.kind = "gc" => \A r \in t.runs : r \notin pointers
    /\ \A t \in queued : t.kind # "sweep"

(* Aborts, collections and retries spare what is needed. *)
LEMMA StoredKept ==
  ASSUME Sound, RunsSpent, Settled, OwnPartition, Stored, [Next]_vars
  PROVE  Stored'
<1>1. SUFFICES ASSUME ~Terminal'
               PROVE  /\ \A h \in Handler : At(h, "map", "commit")' => RunsOf(Attempt(h))' \subseteq store'
                      /\ \A t \in queued' : t.kind = "mapDone" => RunsOf(t.att)' \subseteq store'
                      /\ pointers' \subseteq store'
                      /\ \A t \in queued' : t.kind = "gc" => \A r \in t.runs : r \notin pointers'
                      /\ \A t \in queued' : t.kind # "sweep"
  BY Zenon DEF Stored
<1>2. /\ ~Terminal
      /\ \A h \in Handler : At(h, "map", "commit") => RunsOf(Attempt(h)) \subseteq store
      /\ \A t \in queued : t.kind = "mapDone" => RunsOf(t.att) \subseteq store
      /\ pointers \subseteq store
      /\ \A t \in queued : t.kind = "gc" => \A r \in t.runs : r \notin pointers
      /\ \A t \in queued : t.kind # "sweep"
  BY <1>1, PhaseMoves, Zenon DEF Stored, Terminal
<1>3. \A a : RunsOf(a)' = RunsOf(a)
  BY DocsWrites, Zenon DEF RunsOf
<1>4. ASSUME NEW r \in store, r \notin store'
      PROVE  \/ \E h \in Handler : At(h, "map", "commit") /\ Attempt(h) = r.att /\ Done(h)
             \/ Spent(r.att) /\ r \notin pointers
  <2>1. CASE \E h \in Handler : At(h, "map", "commit") /\ r \in RunsOf(Attempt(h)) /\ Done(h)
    BY <2>1, JobFields, RunsFields, Zenon DEF At, Sound, RunTypeOK
  <2>2. CASE \E t \in queued : t.kind = "gc" /\ r \in t.runs
    BY <1>2, <2>2, Zenon DEF RunsSpent
  <2> QED
    BY <1>2, <1>4, <2>1, <2>2, StoreShrinks, Zenon
<1>5. ASSUME NEW h \in Handler, At(h, "map", "commit")'
      PROVE  RunsOf(Attempt(h))' \subseteq store'
  <2>1. CASE Persists(h) /\ At(h, "map", "commit") /\ Attempt(h)' = Attempt(h)
    <3>1. RunsOf(Attempt(h))' = RunsOf(Attempt(h))
      BY <1>3, <2>1, DocsWrites, Zenon DEF RunsOf
    <3>2. \A r \in RunsOf(Attempt(h)) : r.att = Attempt(h)
      BY <2>1, JobFields, RunsFields, Zenon DEF At, Sound, RunTypeOK
    <3>3. ASSUME NEW g \in Handler, At(g, "map", "commit"), Attempt(g) = Attempt(h), Done(g)
          PROVE  FALSE
      <4>1. g = h
        BY <2>1, <3>3, Zenon DEF Sound, AttemptsDiffer
      <4> QED
        BY <1>5, <3>3, <4>1, DoneSteps, Zenon DEF At, Sound, RunTypeOK
    <3> QED
      BY <1>2, <1>4, <2>1, <3>1, <3>2, <3>3, Zenon DEF Spent
  <2>2. CASE \E t \in queued : /\ t \in MapTask /\ t.split \in splits /\ Map(h, t)
                               /\ Attempt(h)' = [task |-> t, try |-> tries[t] + 1]
                               /\ tries'[t] = tries[t] + 1
    <3>1. PICK t \in queued : /\ t \in MapTask /\ t.split \in splits /\ Map(h, t)
                              /\ Attempt(h)' = [task |-> t, try |-> tries[t] + 1]
                              /\ tries'[t] = tries[t] + 1
      BY <2>2, Zenon
    <3>2. store' = store \cup RunsOf([task |-> t, try |-> tries[t] + 1])
      BY <3>1, Zenon DEF Map, Put
    <3>3. RunsOf(Attempt(h))' = RunsOf([task |-> t, try |-> tries[t] + 1])
      BY <3>1, DocsWrites, Zenon DEF RunsOf
    <3> QED
      BY <3>2, <3>3, Zenon
  <2> QED
    BY <1>5, <2>1, <2>2, MapperSteps, Zenon DEF Sound
<1>6. ASSUME NEW t \in queued', t.kind = "mapDone"
      PROVE  RunsOf(t.att)' \subseteq store'
  <2>1. CASE t \in queued
    <3>1. \A r \in RunsOf(t.att) : r.att = t.att
      BY <1>6, <2>1, KindOfTask, TaskFields, RunsFields, Zenon DEF Sound, RunTypeOK, TaskType
    <3>2. ~Spent(t.att) /\ \A h \in Handler : At(h, "map", "commit") => Attempt(h) # t.att
      BY <1>6, <2>1, Zenon DEF Sound, AttemptsDiffer, Spent
    <3> QED
      BY <1>2, <1>3, <1>4, <1>6, <2>1, <3>1, <3>2, Zenon
  <2>2. CASE t \notin queued
    <3>1. PICK h \in Handler : MapCommit(h) /\ StillTask(h) /\ t.att = Attempt(h)
      BY <1>6, <2>2, NewTasks, Zenon DEF NewTask
    <3> QED
      BY <1>2, <1>3, <3>1, Zenon DEF MapCommit
  <2> QED
    BY <2>1, <2>2, Zenon
<1>7. ASSUME NEW r \in pointers'
      PROVE  r \in store'
  <2>1. CASE r \in pointers
    <3>1. Spent(r.att)
      BY <2>1, Zenon DEF RunsSpent
    <3> QED
      BY <1>2, <1>4, <2>1, <3>1, Zenon DEF Spent
  <2>2. CASE r \notin pointers
    <3>1. PICK h \in Handler : MapAccepts(h)
      BY <2>2, DocsWrites, Zenon DEF ReduceAccepts, ReduceDoneAccept
    <3>2. job[h].task.kind = "mapDone" /\ r \in RunsOf(job[h].task.att) /\ store' = store
      BY <2>2, <3>1, Zenon DEF MapAccepts, MapDoneAccept, At
    <3>3. job[h].task \in queued
      BY <3>1, <3>2, FinishSpends, Zenon
    <3> QED
      BY <1>2, <3>2, <3>3, Zenon
  <2> QED
    BY <2>1, <2>2, Zenon
<1>8. ASSUME NEW h \in Handler, MapAccepts(h) \/ (Discard(h) /\ StillHeld(h)),
             job[h].task.kind = "mapDone", NEW r \in RunsOf(job[h].task.att)
      PROVE  ~Spent(r.att)
  <2>1. job[h].task \in queued /\ job[h].task.att \in Attempts
    BY <1>8, FinishSpends, Zenon
  <2>2. r.att = job[h].task.att
    BY <1>8, <2>1, RunsFields, Zenon DEF Sound, RunTypeOK
  <2> QED
    BY <1>8, <2>1, <2>2, Zenon DEF Spent
<1>9. ASSUME NEW t \in queued', t.kind = "gc", NEW r \in t.runs, r \in pointers'
      PROVE  FALSE
  <2>1. CASE t \in queued
    <3>1. r \notin pointers /\ Spent(r.att)
      BY <1>2, <1>9, <2>1, Zenon DEF RunsSpent
    <3>2. PICK h \in Handler : MapAccepts(h)
      BY <1>9, <3>1, DocsWrites, Zenon DEF ReduceAccepts, ReduceDoneAccept
    <3>3. job[h].task.kind = "mapDone" /\ r \in RunsOf(job[h].task.att)
      BY <1>9, <3>1, <3>2, Zenon DEF MapAccepts, MapDoneAccept, At
    <3> QED
      BY <1>8, <3>1, <3>2, <3>3, Zenon
  <2>2. ASSUME NEW h \in Handler, ReduceAccepts(h), t.runs = job[h].task.runs
        PROVE  FALSE
    <3>1. At(h, "reduceDone", "accept") /\ pointers' = pointers \ job[h].saw
      BY <2>2, Zenon DEF ReduceAccepts, ReduceDoneAccept
    <3> QED
      BY <1>9, <2>2, <3>1, Zenon DEF Settled
  <2>3. ASSUME NEW h \in Handler, Discard(h), StillHeld(h), At(h, "mapDone", "discard"),
               t.runs = RunsOf(job[h].task.att)
        PROVE  FALSE
    <3>1. pointers' = pointers
      BY <2>3, Zenon DEF Discard, runVars
    <3> QED
      BY <1>8, <1>9, <2>3, <3>1, Zenon DEF At, RunsSpent
  <2>4. ASSUME NEW h \in Handler, Discard(h), StillHeld(h), At(h, "reduceDone", "discard"),
               t.runs = job[h].task.runs
        PROVE  FALSE
    <3>1. pointers' = pointers
      BY <2>4, Zenon DEF Discard, runVars
    <3>2. r.part = job[h].task.att.task.part
      BY <1>9, <2>4, Zenon DEF OwnPartition, At
    <3> QED
      BY <1>2, <1>9, <2>4, <3>1, <3>2, Zenon DEF Settled
  <2> QED
    BY <1>9, <2>1, <2>2, <2>3, <2>4, NewTasks, Zenon DEF NewTask
<1>10. ASSUME NEW t \in queued', t.kind = "sweep"
       PROVE  FALSE
  <2>1. CASE FailNow \/ \E h \in Handler : Completes(h) \/ Fails(h)
    BY <1>1, <2>1, Zenon DEF FailNow, Completes, Finish, Fails, FinishFails, Judge, Terminal
  <2> QED
    BY <1>2, <1>10, <2>1, NewTasks, Zenon DEF NewTask
<1> QED
  BY <1>5, <1>6, <1>7, <1>9, <1>10, Zenon

-----------------------------------------------------------------------------
(* The tasks that stand for a split and for a partition. *)
ForSplit(t, s) == \/ t.kind = "map" /\ t.split = s
                  \/ t.kind = "mapDone" /\ t.att.task.split = s

ForPartition(t, p) == \/ t.kind = "reduce" /\ t.part = p
                      \/ t.kind = "reduceDone" /\ t.att.task.part = p

(* No handler has looked at a check too early. *)
Undecided(t) == \A h \in Handler : job[h] # None /\ job[h].task = t => job[h].step # "retire"

(* A check comes after its unit was accepted. *)
ChecksFollow ==
  /\ \A t \in queued : /\ t.kind = "mapCheck" => t.after \notin splits
                       /\ t.kind = "reduceCheck" => t.after \in markers
  /\ \A h \in Handler : job[h] # None =>
       /\ job[h].task.kind = "mapCheck" => job[h].task.after \notin splits
       /\ job[h].task.kind = "reduceCheck" => job[h].task.after \in markers

(* There is a task for all that is left to do, and when nothing is left a  *)
(* check that nobody has looked at too early.                              *)
GoesAhead ==
  /\ phase = "map" => \A s \in splits : \E t \in queued \cup errors : ForSplit(t, s)
  /\ phase = "map" /\ splits = {} => \E t \in queued : t.kind = "mapCheck" /\ Undecided(t)
  /\ phase = "reduce" => \A r \in pointers : \E t \in queued \cup errors : ForPartition(t, r.part)
  /\ phase = "reduce" /\ pointers = {} => \E t \in queued : t.kind = "reduceCheck" /\ Undecided(t)

(* Checks are made by what accepts a unit. *)
LEMMA ChecksFollowKept ==
  ASSUME Sound, ChecksFollow, [Next]_vars
  PROVE  ChecksFollow'
<1>1. phase # "none" => splits' \subseteq splits /\ markers \subseteq markers'
  BY DocsShrink, Zenon
<1>2. ASSUME NEW t \in queued'
      PROVE  /\ t.kind = "mapCheck" => t.after \notin splits'
             /\ t.kind = "reduceCheck" => t.after \in markers'
  <2>1. CASE t \in queued
    <3>1. phase # "none"
      BY <2>1, Zenon DEF Sound, ClaimsSound, NotStarted
    <3> QED
      BY <1>1, <2>1, <3>1, Zenon DEF ChecksFollow
  <2>2. CASE t \notin queued
    <3>1. ASSUME NEW h \in Handler, MapAccepts(h), t.after = job[h].task.att.task.split
          PROVE  t.after \notin splits'
      BY <3>1, Zenon DEF MapAccepts, MapDoneAccept
    <3>2. ASSUME NEW h \in Handler, ReduceAccepts(h), t.after = job[h].task.att.task.part
          PROVE  t.after \in markers'
      BY <3>2, Zenon DEF ReduceAccepts, ReduceDoneAccept
    <3> QED
      BY <2>2, <3>1, <3>2, NewTasks, Zenon DEF NewTask
  <2> QED
    BY <2>1, <2>2, Zenon
<1>3. ASSUME NEW g \in Handler, job'[g] # None
      PROVE  /\ job'[g].task.kind = "mapCheck" => job'[g].task.after \notin splits'
             /\ job'[g].task.kind = "reduceCheck" => job'[g].task.after \in markers'
  <2>1. CASE job[g] # None /\ job'[g].task = job[g].task
    <3>1. phase # "none"
      BY <2>1, Zenon DEF Sound, ClaimsSound, NotStarted
    <3> QED
      BY <1>1, <2>1, <3>1, Zenon DEF ChecksFollow
  <2>2. CASE CheckStarts(g)
    <3>1. job'[g].task \in queued /\ queued' = queued
      BY <2>2, Zenon DEF CheckStarts, Claimed, CheckLook, taskVars
    <3> QED
      BY <1>2, <3>1, Zenon
  <2>3. CASE Persists(g)
    BY <1>3, <2>1, <2>3, Zenon DEF Persists
  <2>4. CASE ~Persists(g) /\ job'[g].task.kind \in {"mapCheck", "reduceCheck"}
    <3>1. job'[g].step # "judge"
      BY <2>4, NewJobs, KindOfTask DEF NewJob, JudgeStarts, Claimed, Sound, Tasks
    <3> QED
      BY <2>1, <2>2, <2>4, <3>1, NewJobs, Zenon DEF NewJob, GoesOn, Took, Sound
  <2> QED
    BY <2>3, <2>4, Zenon
<1> QED
  BY <1>2, <1>3, Zenon DEF ChecksFollow

(* There stays a task for each split that is left, *)
LEMMA SplitsGoAhead ==
  ASSUME Sound, Settled, GoesAhead, [Next]_vars, phase' = "map", NEW s \in splits'
  PROVE  \E t \in queued' \cup errors' : ForSplit(t, s)
<1>1. CASE phase = "none"
  <2>1. StartRun
    BY <1>1, PhaseMoves, Zenon
  <2>2. s \in Split /\ queued' = {[kind |-> "map", split |-> x, copy |-> First] : x \in Split}
    BY <1>1, <2>1, RunTypeKept, Zenon DEF StartRun, Sound, RunTypeOK, DocsType
  <2>3. [kind |-> "map", split |-> s, copy |-> First] \in queued'
    BY <2>2, Zenon
  <2> QED
    BY <2>3 DEF ForSplit
<1>2. CASE phase = "map"
  <2>1. s \in splits
    BY <1>2, DocsShrink, Zenon
  <2>2. PICK t \in queued \cup errors : ForSplit(t, s)
    BY <1>2, <2>1, Zenon DEF GoesAhead
  <2>3. t.kind \in {"map", "mapDone"}
    BY <2>2, Zenon DEF ForSplit
  <2>4. CASE t \in queued /\ t \notin queued'
    <3>1. PICK h \in Handler :
             /\ job[h] # None /\ job[h].mine /\ job[h].task = t
             /\ \/ MapCommit(h) \/ ReduceCommit(h) \/ RetireTask(h) \/ MapAccepts(h) \/ ReduceAccepts(h)
                \/ (StillHeld(h) /\ (Discard(h) \/ Unreached(h) \/ FanOut(h))) \/ Completes(h)
                \/ (StillHeld(h) /\ FinishFails(h)) \/ SweepSink(h) \/ Move(h)
      BY <1>2, <2>3, <2>4, QueueShrinks, Zenon
    <3>2. CASE MapCommit(h)
      <4>1. t.kind = "map" /\ MapDone(Attempt(h)) \in queued'
        BY <3>1, <3>2, Zenon DEF MapCommit, StillTask, Replace, At
      <4> QED
        BY <2>2, <3>1, <4>1 DEF ForSplit, MapDone, Attempt
    <3>3. CASE RetireTask(h)
      <4>1. At(h, "map", "retire")
        BY <2>3, <3>1, <3>3, Zenon DEF RetireTask, At, Sound, ClaimsSound, StepsFit, StepsOf
      <4> QED
        BY <2>1, <2>2, <3>1, <4>1, Zenon DEF Settled, ForSplit, At
    <3>4. CASE MapAccepts(h)
      BY <2>2, <3>1, <3>4, Zenon DEF MapAccepts, MapDoneAccept, At, ForSplit
    <3>5. CASE Discard(h)
      <4>1. At(h, "mapDone", "discard")
        BY <2>3, <3>1, <3>5, Zenon DEF Discard, At
      <4> QED
        BY <1>2, <2>1, <2>2, <3>1, <4>1, Zenon DEF Settled, ForSplit, At, Terminal
    <3>6. CASE Move(h)
      BY <2>2, <3>1, <3>6, Zenon DEF Move, StillTask
    <3> QED
      BY <2>3, <3>1, <3>2, <3>3, <3>4, <3>5, <3>6, Zenon
      DEF ReduceCommit, ReduceAccepts, ReduceDoneAccept, Unreached, FanOut, Completes, Finish,
          FinishFails, SweepSink, Decides, IsCheck, At
  <2>5. CASE t \in errors /\ t \notin errors'
    <3>1. PICK h \in Handler : Loses(h) /\ t = job[h].task
      BY <2>5, ErrorsWrites, Zenon
    <3>2. t.kind = "map"
      BY <2>3, <2>5, KindOfTask, Zenon DEF Sound, RunTypeOK, TaskType, Tasks
    <3>3. t.split = s
      BY <2>2, <3>2, Zenon DEF ForSplit
    <3> QED
      BY <1>2, <2>1, <3>1, <3>2, <3>3, Zenon DEF Loses, JudgeLoser, Judge, IsLoser, Terminal
  <2> QED
    BY <2>2, <2>4, <2>5, Zenon
<1> QED
  BY <1>1, <1>2, PhaseMoves, Zenon

(* and for each partition. *)
LEMMA PartitionsGoAhead ==
  ASSUME Sound, Settled, GoesAhead, [Next]_vars, phase' = "reduce", NEW r \in pointers'
  PROVE  \E t \in queued' \cup errors' : ForPartition(t, r.part)
<1>1. CASE phase = "map"
  <2>1. PICK h \in Handler : FanOut(h) /\ StillHeld(h)
    BY <1>1, PhaseWrites, Zenon DEF FailNow
  <2>2. r \in pointers
    BY <2>1, Zenon DEF FanOut
  <2>3. r.part \in PartitionsOf(pointers)
    BY <2>2, Zenon DEF PartitionsOf
  <2>4. [kind |-> "reduce", part |-> r.part, copy |-> First] \in queued'
    BY <2>1, <2>3, Zenon DEF FanOut, Replace
  <2> QED
    BY <2>4 DEF ForPartition
<1>2. CASE phase = "reduce"
  <2>1. r \in pointers
    BY <1>2, DocsShrink, Zenon DEF Sound, PhaseSound
  <2>2. PICK t \in queued \cup errors : ForPartition(t, r.part)
    BY <1>2, <2>1, Zenon DEF GoesAhead
  <2>3. t.kind \in {"reduce", "reduceDone"}
    BY <2>2, Zenon DEF ForPartition
  <2>4. CASE t \in queued /\ t \notin queued'
    <3>1. PICK h \in Handler :
             /\ job[h] # None /\ job[h].mine /\ job[h].task = t
             /\ \/ MapCommit(h) \/ ReduceCommit(h) \/ RetireTask(h) \/ MapAccepts(h) \/ ReduceAccepts(h)
                \/ (StillHeld(h) /\ (Discard(h) \/ Unreached(h) \/ FanOut(h))) \/ Completes(h)
                \/ (StillHeld(h) /\ FinishFails(h)) \/ SweepSink(h) \/ Move(h)
      BY <1>2, <2>3, <2>4, QueueShrinks, Zenon
    <3>2. CASE ReduceCommit(h)
      <4>1. t.kind = "reduce" /\ ReduceDone(Attempt(h), job[h].saw) \in queued'
        BY <3>1, <3>2, Zenon DEF ReduceCommit, StillTask, Replace, At
      <4> QED
        BY <2>2, <3>1, <4>1 DEF ForPartition, ReduceDone, Attempt
    <3>3. CASE RetireTask(h)
      <4>1. At(h, "reduce", "retire")
        BY <2>3, <3>1, <3>3, Zenon DEF RetireTask, At, Sound, ClaimsSound, StepsFit, StepsOf
      <4> QED
        BY <2>1, <2>2, <3>1, <4>1, Zenon DEF Settled, ForPartition, At
    <3>4. CASE ReduceAccepts(h)
      <4>1. /\ At(h, "reduceDone", "accept") /\ pointers' = pointers \ job[h].saw
        BY <3>4, Zenon DEF ReduceAccepts, ReduceDoneAccept
      <4> QED
        BY <2>1, <2>2, <3>1, <4>1, Zenon DEF Settled, ForPartition, At
    <3>5. CASE Discard(h)
      <4>1. At(h, "reduceDone", "discard")
        BY <2>3, <3>1, <3>5, Zenon DEF Discard, At
      <4> QED
        BY <1>2, <2>1, <2>2, <3>1, <4>1, Zenon DEF Settled, ForPartition, At, Terminal
    <3>6. CASE Move(h)
      BY <2>2, <3>1, <3>6, Zenon DEF Move, StillTask
    <3> QED
      BY <2>3, <3>1, <3>2, <3>3, <3>4, <3>5, <3>6, Zenon
      DEF MapCommit, MapAccepts, MapDoneAccept, Unreached, FanOut, Completes, Finish, FinishFails,
          SweepSink, Decides, IsCheck, At
  <2>5. CASE t \in errors /\ t \notin errors'
    <3>1. PICK h \in Handler : Loses(h) /\ t = job[h].task
      BY <2>5, ErrorsWrites, Zenon
    <3>2. ~IsLoser(t)
      BY <2>1, <2>2, Zenon DEF IsLoser, ForPartition, Settled
    <3> QED
      BY <1>2, <2>3, <3>1, <3>2, Zenon DEF Loses, JudgeLoser, Judge, Terminal
  <2> QED
    BY <2>2, <2>4, <2>5, Zenon
<1> QED
  BY <1>1, <1>2, PhaseMoves, Zenon

(* When the last unit is accepted, nobody has looked at its check. *)
LEMMA NewCheckUndecided ==
  ASSUME Sound, ChecksFollow, [Next]_vars, NEW t,
         \/ t.kind = "mapCheck" /\ t.after \in splits
         \/ t.kind = "reduceCheck" /\ t.after \notin markers,
         ~UNCHANGED <<queued, errors, phase, splits, pointers, markers>>,
         NEW g \in Handler
  PROVE  ~(job'[g] # None /\ job'[g].task = t)
<1>1. Persists(g)
  BY JobShape, Zenon DEF Sound
<1> QED
  BY <1>1, Zenon DEF Persists, ChecksFollow

(* A check that nobody has looked at too early stays, until it ends the    *)
(* phase.                                                                  *)
LEMMA CheckStays ==
  ASSUME Sound, [Next]_vars, NEW t \in queued, t.kind \in {"mapCheck", "reduceCheck"}, Undecided(t),
         phase' = phase, Reached(t, phase)
  PROVE  t \in queued' /\ \A g \in Handler : job'[g] # None /\ job'[g].task = t => job'[g].step # "retire"
<1>1. phase \in {"map", "reduce"} /\ phase = PhaseOf(t)
  BY Zenon DEF Reached, PhaseOf
<1>2. t \in queued'
  <2>1. SUFFICES ASSUME t \notin queued' PROVE FALSE
    BY Zenon
  <2>2. PICK h \in Handler :
           /\ job[h] # None /\ job[h].mine /\ job[h].task = t
           /\ \/ MapCommit(h) \/ ReduceCommit(h) \/ RetireTask(h) \/ MapAccepts(h) \/ ReduceAccepts(h)
              \/ (StillHeld(h) /\ (Discard(h) \/ Unreached(h) \/ FanOut(h))) \/ Completes(h)
              \/ (StillHeld(h) /\ FinishFails(h)) \/ SweepSink(h) \/ Move(h)
    BY <1>1, <2>1, QueueShrinks, Zenon
  <2>3. CASE RetireTask(h)
    BY <2>2, <2>3, Zenon DEF RetireTask, Undecided
  <2>4. CASE StillHeld(h) /\ Unreached(h)
    <3>1. job[h].saw = {phase}
      BY <2>4, Zenon DEF Unreached, Decides, IsCheck, At, StillHeld, Sound, ClaimsSound, StateHeld
    <3> QED
      BY <2>2, <2>4, <3>1, Zenon DEF Unreached, Decides
  <2>5. CASE StillHeld(h) /\ FanOut(h)
    <3>1. phase' = "reduce" /\ pointers # {} /\ Reached(job[h].task, phase)
      BY <2>5, DeciderKnows, Zenon DEF FanOut, Sound
    <3> QED
      BY <1>1, <2>2, <3>1, Zenon DEF Reached, PhaseOf
  <2>6. CASE Completes(h) \/ (StillHeld(h) /\ FinishFails(h))
    BY <1>1, <2>6, Zenon DEF Completes, Finish, FinishFails
  <2> QED
    BY <2>2, <2>3, <2>4, <2>5, <2>6, Zenon
    DEF MapCommit, ReduceCommit, MapAccepts, MapDoneAccept, ReduceAccepts, ReduceDoneAccept,
        Discard, SweepSink, Move, Movable, At
<1>3. ASSUME NEW g \in Handler, job'[g] # None, job'[g].task = t
      PROVE  job'[g].step # "retire"
  <2>1. CASE Persists(g)
    BY <1>3, <2>1, Zenon DEF Persists, Undecided
  <2>2. CASE CheckStarts(g)
    BY <1>3, <2>2, Zenon DEF CheckStarts, Claimed
  <2>3. CASE ~Persists(g) /\ job'[g].step = "retire"
    BY <1>3, <2>2, <2>3, NewJobs, Zenon DEF NewJob, Sound
  <2> QED
    BY <2>1, <2>3, Zenon
<1> QED
  BY <1>2, <1>3, Zenon

(* A task that goes leaves another for what is left to do. *)
LEMMA GoesAheadKept ==
  ASSUME Sound, Settled, ChecksFollow, GoesAhead, [Next]_vars
  PROVE  GoesAhead'
<1>1. ASSUME phase' = "map", splits' = {}
      PROVE  \E t \in queued' : t.kind = "mapCheck" /\ Undecided(t)'
  <2>1. CASE phase = "none"
    <3>1. StartRun
      BY <1>1, <2>1, PhaseMoves, Zenon
    <3>2. splits' = Split
      BY <2>1, <3>1, Zenon DEF StartRun, Sound, ClaimsSound, NotStarted
    <3> QED
      BY <1>1, <3>2, HasInput, Zenon
  <2>2. CASE phase = "map" /\ splits # {}
    <3>1. PICK h \in Handler : MapAccepts(h)
      BY <1>1, <2>2, DocsWrites, Zenon DEF Stage
    <3> DEFINE s == job[h].task.att.task.split
               t == [kind |-> "mapCheck", after |-> s]
    <3>2. s \in splits /\ s \notin splits' /\ t \in queued'
      BY <3>1, Zenon DEF MapAccepts, MapDoneAccept, Replace, Checking
    <3>3. t.kind = "mapCheck" /\ t.after = s
      BY Zenon
    <3> HIDE DEF s, t
    <3>4. \A g \in Handler : ~(job'[g] # None /\ job'[g].task = t)
      BY <3>2, <3>3, NewCheckUndecided, Zenon
    <3> QED
      BY <3>2, <3>3, <3>4, Zenon DEF Undecided
  <2>3. CASE phase = "map" /\ splits = {}
    <3>1. PICK t \in queued : t.kind = "mapCheck" /\ Undecided(t)
      BY <2>3, Zenon DEF GoesAhead
    <3>2. Reached(t, phase)
      BY <2>3, <3>1, Zenon DEF Reached, PhaseOf
    <3>3. t \in queued' /\ \A g \in Handler : job'[g] # None /\ job'[g].task = t => job'[g].step # "retire"
      BY <1>1, <2>3, <3>1, <3>2, CheckStays, Zenon
    <3> QED
      BY <3>1, <3>3, Zenon DEF Undecided
  <2> QED
    BY <1>1, <2>1, <2>2, <2>3, PhaseMoves, Zenon
<1>2. ASSUME phase' = "reduce", pointers' = {}
      PROVE  \E t \in queued' : t.kind = "reduceCheck" /\ Undecided(t)'
  <2>1. CASE phase = "map"
    <3>1. PICK h \in Handler : FanOut(h)
      BY <1>2, <2>1, PhaseWrites, Zenon DEF FailNow
    <3> QED
      BY <1>2, <3>1, Zenon DEF FanOut
  <2>2. CASE phase = "reduce" /\ pointers # {}
    <3>1. PICK h \in Handler : ReduceAccepts(h)
      BY <1>2, <2>2, DocsWrites, Zenon DEF MapAccepts, MapDoneAccept, Sound, PhaseSound
    <3> DEFINE p == job[h].task.att.task.part
               t == [kind |-> "reduceCheck", after |-> p]
    <3>2. p \notin markers /\ p \in markers' /\ t \in queued'
      BY <3>1, Zenon DEF ReduceAccepts, ReduceDoneAccept, Replace, Checking
    <3>3. t.kind = "reduceCheck" /\ t.after = p
      BY Zenon
    <3> HIDE DEF p, t
    <3>4. \A g \in Handler : ~(job'[g] # None /\ job'[g].task = t)
      BY <3>2, <3>3, NewCheckUndecided, Zenon
    <3> QED
      BY <3>2, <3>3, <3>4, Zenon DEF Undecided
  <2>3. CASE phase = "reduce" /\ pointers = {}
    <3>1. PICK t \in queued : t.kind = "reduceCheck" /\ Undecided(t)
      BY <2>3, Zenon DEF GoesAhead
    <3>2. Reached(t, phase)
      BY <2>3, <3>1, Zenon DEF Reached, PhaseOf
    <3>3. t \in queued' /\ \A g \in Handler : job'[g] # None /\ job'[g].task = t => job'[g].step # "retire"
      BY <1>2, <2>3, <3>1, <3>2, CheckStays, Zenon
    <3> QED
      BY <3>1, <3>3, Zenon DEF Undecided
  <2> QED
    BY <1>2, <2>1, <2>2, <2>3, PhaseMoves, Zenon
<1> QED
  BY <1>1, <1>2, SplitsGoAhead, PartitionsGoAhead, Zenon DEF GoesAhead, ForSplit, ForPartition

(* So the run never stalls. *)
LEMMA NotStalled ==
  ASSUME GoesAhead
  PROVE  NeverStalled
<1> DEFINE units == {Unit(t) : t \in queued \cup errors}
<1>1. \A t \in queued \cup errors : Unit(t) \in units
  BY Zenon
<1>2. \A t, s : ForSplit(t, s) => Unit(t) = <<"map", s>>
  BY Zenon DEF ForSplit, Unit
<1>3. \A t, p : ForPartition(t, p) => Unit(t) = <<"reduce", p>>
  BY Zenon DEF ForPartition, Unit
<1>4. \A t : /\ t.kind = "mapCheck" => Unit(t) = <<"mapCheck">>
             /\ t.kind = "reduceCheck" => Unit(t) = <<"reduceCheck">>
  BY Zenon DEF Unit
<1> HIDE DEF units
<1>5. /\ phase = "map" => IF splits = {} THEN <<"mapCheck">> \in units
                          ELSE \A s \in splits : <<"map", s>> \in units
      /\ phase = "reduce" => IF pointers = {} THEN <<"reduceCheck">> \in units
                             ELSE \A r \in pointers : <<"reduce", r.part>> \in units
  BY <1>1, <1>2, <1>3, <1>4, Zenon DEF GoesAhead
<1> QED
  BY <1>5, Zenon DEF NeverStalled, units

-----------------------------------------------------------------------------
(* One run is published for each split that was accepted and each          *)
(* partition that it has records for, until the partition is marked.       *)
Published ==
  /\ \A r \in pointers : r.part \in emits[r.att.task.split] /\ r.att.task.split \notin splits
  /\ \A r, q \in pointers : r.part = q.part /\ r.att.task.split = q.att.task.split => r = q
  /\ phase # "none" => \A s \in Split \ splits : \A p \in emits[s] \ markers :
       \E r \in pointers : r.part = p /\ r.att.task.split = s

(* Runs are published once for each split, and consumed once for each partition. *)
LEMMA PublishedKept ==
  ASSUME Sound, Settled, OwnPartition, Published, [Next]_vars
  PROVE  Published'
<1>1. emits' = emits
  BY DocsWrites, Zenon
<1>2. ASSUME NEW h \in Handler, MapAccepts(h), NEW a, a = job[h].task.att, NEW s, s = a.task.split
      PROVE  /\ phase # "none"
             /\ s \in splits /\ splits' = splits \ {s} /\ pointers' = pointers \cup RunsOf(a)
             /\ markers' = markers
             /\ \A r \in RunsOf(a) : r.att = a /\ r.part \in emits[s]
             /\ \A p \in emits[s] : \E r \in RunsOf(a) : r.part = p
             /\ \A r, q \in RunsOf(a) : r.part = q.part => r = q
  <2>1. /\ s \in splits /\ splits' = splits \ {s} /\ pointers' = pointers \cup RunsOf(a)
        /\ markers' = markers /\ At(h, "mapDone", "accept")
    BY <1>2, Zenon DEF MapAccepts, MapDoneAccept
  <2>2. phase # "none" /\ job[h].task \in MapDoneTask
    BY <2>1, JobFields, Zenon DEF At, Sound, ClaimsSound, NotStarted, RunTypeOK
  <2>3. a \in Attempts
    BY <1>2, <2>2, TaskFields, Zenon
  <2> QED
    BY <1>2, <2>1, <2>2, <2>3, RunsFields DEF Sound, RunTypeOK
<1>3. ASSUME NEW h \in Handler, ReduceAccepts(h)
      PROVE  /\ pointers' = pointers \ job[h].saw
             /\ markers' = markers \cup {job[h].task.att.task.part}
             /\ splits' = splits
             /\ \A r \in job[h].saw : r.part = job[h].task.att.task.part
  <2>1. /\ pointers' = pointers \ job[h].saw /\ splits' = splits
        /\ markers' = markers \cup {job[h].task.att.task.part}
        /\ At(h, "reduceDone", "accept")
    BY <1>3, Zenon DEF ReduceAccepts, ReduceDoneAccept
  <2>2. job[h].saw = job[h].task.runs
    BY <2>1, Zenon DEF Settled
  <2>3. \A r \in job[h].task.runs : r.part = job[h].task.att.task.part
    BY <2>1, Zenon DEF At, OwnPartition
  <2> QED
    BY <2>1, <2>2, <2>3, Zenon
<1>4. CASE \E h \in Handler : MapAccepts(h)
  <2>1. PICK h \in Handler : MapAccepts(h)
    BY <1>4, Zenon
  <2> DEFINE a == job[h].task.att
             s == a.task.split
  <2>2. /\ phase # "none"
        /\ s \in splits /\ splits' = splits \ {s} /\ pointers' = pointers \cup RunsOf(a)
        /\ markers' = markers
        /\ \A r \in RunsOf(a) : r.att = a /\ r.part \in emits[s]
        /\ \A p \in emits[s] : \E r \in RunsOf(a) : r.part = p
        /\ \A r, q \in RunsOf(a) : r.part = q.part => r = q
    BY <1>2, <2>1, SMTT(30)
  <2>3. \A r \in RunsOf(a) : r.att.task.split = s
    BY <2>2, Zenon
  <2> HIDE DEF a, s
  <2>4. \A r \in pointers' : r.part \in emits[r.att.task.split] /\ r.att.task.split \notin splits'
    BY <2>2, <2>3, Zenon DEF Published
  <2>5. ASSUME NEW r \in pointers', NEW q \in pointers', r.part = q.part,
               r.att.task.split = q.att.task.split
        PROVE  r = q
    BY <2>2, <2>3, <2>5 DEF Published
  <2>6. ASSUME NEW x \in Split \ splits', NEW p \in emits[x] \ markers'
        PROVE  \E r \in pointers' : r.part = p /\ r.att.task.split = x
    BY <2>2, <2>3, <2>6 DEF Published
  <2> QED
    BY <1>1, <2>4, <2>5, <2>6, Zenon DEF Published
<1>5. CASE \E h \in Handler : ReduceAccepts(h)
  <2>1. PICK h \in Handler : ReduceAccepts(h)
    BY <1>5, Zenon
  <2>2. phase # "none"
    BY <2>1, Zenon DEF ReduceAccepts, ReduceDoneAccept, At, Sound, ClaimsSound, NotStarted
  <2> QED
    BY <1>1, <1>3, <2>1, <2>2 DEF Published
<1>6. CASE splits' = splits /\ pointers' = pointers /\ markers' = markers
  <2>1. CASE phase # "none"
    BY <1>1, <1>6, <2>1, Zenon DEF Published
  <2>2. CASE phase = "none" /\ phase' # "none"
    <3>1. StartRun
      BY <2>2, PhaseMoves, Zenon
    <3>2. splits = Split
      BY <2>2, <3>1, Zenon DEF StartRun, Sound, ClaimsSound, NotStarted
    <3> QED
      BY <1>1, <1>6, <3>2, Zenon DEF Published
  <2>3. CASE phase = "none" /\ phase' = "none"
    BY <1>1, <1>6, <2>3, Zenon DEF Published
  <2> QED
    BY <2>1, <2>2, <2>3, Zenon
<1>7. CASE \E s \in Split : Stage(s)
  <2>1. phase = "none" /\ phase' = phase /\ pointers' = pointers
    BY <1>7, Zenon DEF Stage, Sound, ClaimsSound, NotStarted
  <2>2. pointers = {}
    BY <2>1, Zenon DEF Sound, ClaimsSound, NotStarted
  <2> QED
    BY <2>1, <2>2, Zenon DEF Published
<1> QED
  BY <1>4, <1>5, <1>6, <1>7, DocsWrites, Zenon

(* Runs that are all a partition with records needs. *)
CompleteFor(p, runs) == p \in Full /\ Whole(p, runs)

(* Where the records of a split go does not change. *)
LEMMA ScenarioStays ==
  ASSUME [Next]_vars
  PROVE  /\ Full' = Full
         /\ \A p, rs : CompleteFor(p, rs)' <=> CompleteFor(p, rs)
         /\ \A p, rs : Whole(p, rs)' <=> Whole(p, rs)
<1>1. emits' = emits
  BY DocsWrites, Zenon
<1>2. Full' = Full
  BY <1>1, Zenon DEF Full
<1>3. \A p, rs : Whole(p, rs)' <=> Whole(p, rs)
  BY <1>1, Zenon DEF Whole
<1> QED
  BY <1>2, <1>3, Zenon DEF CompleteFor

(* Once all splits are accepted, so are the runs published for a           *)
(* partition.                                                              *)
LEMMA PointersComplete ==
  ASSUME Sound, Settled, Published, splits = {}, phase # "none", NEW p, PointersOf(p) # {}
  PROVE  CompleteFor(p, PointersOf(p))
<1>1. PICK r \in pointers : r.part = p
  BY Zenon DEF PointersOf
<1>2. r \in Runs /\ pointers \subseteq Runs
  BY Zenon DEF Sound, RunTypeOK, DocsType
<1>3. r.att.task.split \in Split /\ p \in Partition
  BY <1>1, <1>2, TaskFields, Zenon
<1>4. p \in emits[r.att.task.split] /\ p \notin markers
  BY <1>1, Zenon DEF Published, Settled
<1>5. p \in Full
  BY <1>3, <1>4, Zenon DEF Full
<1>6. ASSUME NEW s \in Split
      PROVE  LET Q == {q \in PointersOf(p) : q.att.task.split = s /\ q.part = p} IN
             IF p \in emits[s] THEN \E q \in PointersOf(p) : Q = {q} ELSE Q = {}
  <2> DEFINE Q == {q \in PointersOf(p) : q.att.task.split = s /\ q.part = p}
  <2>1. \A q \in Q : q \in pointers /\ q.att.task.split = s /\ q.part = p
    BY Zenon DEF PointersOf
  <2>2. CASE p \in emits[s]
    <3>1. PICK q \in pointers : q.part = p /\ q.att.task.split = s
      BY <1>4, <2>2 DEF Published
    <3>2. q \in Q /\ q \in PointersOf(p)
      BY <3>1, Zenon DEF PointersOf
    <3>3. \A x \in Q : x = q
      BY <2>1, <3>1, Zenon DEF Published
    <3>4. Q = {q}
      BY <3>2, <3>3, Zenon
    <3> QED
      BY <2>2, <3>2, <3>4, Zenon
  <2>3. CASE p \notin emits[s]
    <3>1. Q = {}
      BY <2>1, <2>3 DEF Published
    <3> QED
      BY <2>3, <3>1, Zenon
  <2> QED
    BY <2>2, <2>3, Zenon
<1> QED
  BY <1>5, <1>6, Zenon DEF CompleteFor, Whole

(* What reducers merge and stage is complete, and only partitions with     *)
(* records are reduced.                                                    *)
Merged ==
  /\ \A h \in Handler : At(h, "reduce", "merge") \/ At(h, "reduce", "commit") =>
       CompleteFor(job[h].task.part, job[h].saw)
  /\ \A o \in staged : CompleteFor(o.att.task.part, o.runs)
  /\ \A t \in queued : t.kind = "reduceDone" => t.att.task.part \in Full
  /\ \A h \in Handler : job[h] # None /\ job[h].task.kind = "reduceDone" /\ job[h].step # "judge" =>
       job[h].task.att.task.part \in Full

(* A reducer that goes on has read all of its partition. *)
LEMMA MergedKept ==
  ASSUME Sound, Settled, Published, Merged, [Next]_vars
  PROVE  Merged'
<1>1. ASSUME NEW g \in Handler, (At(g, "reduce", "merge") \/ At(g, "reduce", "commit"))',
             NEW p, p = job'[g].task.part, NEW rs, rs = job'[g].saw
      PROVE  CompleteFor(p, rs)
  <2>1. CASE Persists(g) \/ (Reduce(g) /\ GoesOn(g, "commit"))
    BY <1>1, <2>1, Zenon DEF Persists, Reduce, GoesOn, At, Merged
  <2>2. CASE ReduceStarts(g)
    <3>1. PICK t \in queued : /\ ReduceRead(g, t) /\ p = t.part /\ rs = PointersOf(t.part)
                              /\ PointersOf(t.part) # {}
      BY <1>1, <2>2, Zenon DEF ReduceStarts, Claimed, At
    <3>2. splits = {} /\ phase # "none"
      BY <3>1, Zenon DEF ReduceRead, Sound, PhaseSound, ReduceKinds
    <3> QED
      BY <3>1, <3>2, PointersComplete, Zenon
  <2> QED
    BY <1>1, <2>1, <2>2, NewJobs, Zenon DEF NewJob, At, Sound
<1>2. ASSUME NEW o \in staged'
      PROVE  CompleteFor(o.att.task.part, o.runs)
  <2>1. CASE o \in staged
    BY <2>1, Zenon DEF Merged
  <2>2. CASE o \notin staged
    <3>1. PICK h \in Handler : Reduce(h) /\ o = Output(Attempt(h), job[h].saw)
      BY <2>2, SinkWrites, Zenon
    <3>2. o.att.task.part = job[h].task.part /\ o.runs = job[h].saw
      BY <3>1, Zenon DEF Output, Attempt
    <3> QED
      BY <3>1, <3>2, Zenon DEF Reduce, Merged
  <2> QED
    BY <2>1, <2>2, Zenon
<1>3. ASSUME NEW t \in queued', t.kind = "reduceDone"
      PROVE  t.att.task.part \in Full
  <2>1. CASE t \in queued
    BY <1>3, <2>1, Zenon DEF Merged
  <2>2. CASE t \notin queued
    <3>1. PICK h \in Handler : ReduceCommit(h) /\ t.att = Attempt(h)
      BY <1>3, <2>2, NewTasks, Zenon DEF NewTask
    <3> QED
      BY <3>1 DEF ReduceCommit, Merged, Attempt, CompleteFor
  <2> QED
    BY <2>1, <2>2, Zenon
<1>4. ASSUME NEW g \in Handler, job'[g] # None, job'[g].task.kind = "reduceDone", job'[g].step # "judge"
      PROVE  job'[g].task.att.task.part \in Full
  <2>1. CASE Persists(g) \/ (SinkCommit(g) /\ GoesOn(g, "accept"))
    <3>1. job[g] # None /\ job'[g].task = job[g].task /\ job[g].step # "judge"
      BY <1>4, <2>1, Zenon DEF Persists, SinkCommit, GoesOn, At
    <3> QED
      BY <1>4, <3>1, Zenon DEF Merged
  <2>2. CASE ReduceDoneStarts(g)
    BY <1>4, <2>2, Zenon DEF ReduceDoneStarts, Claimed, Merged
  <2> QED
    BY <1>4, <2>1, <2>2, NewJobs, Zenon DEF NewJob, Sound
<1>5. Full' = Full /\ \A p, rs : CompleteFor(p, rs)' <=> CompleteFor(p, rs)
  BY ScenarioStays, Zenon
<1>6. ASSUME NEW g \in Handler, (At(g, "reduce", "merge") \/ At(g, "reduce", "commit"))'
      PROVE  CompleteFor(job[g].task.part, job[g].saw)'
  <2> DEFINE p == job'[g].task.part
             rs == job'[g].saw
  <2>1. p \in Full /\ Whole(p, rs)
    BY <1>1, <1>6, Zenon DEF CompleteFor
  <2>2. emits' = emits
    BY DocsWrites, Zenon
  <2>3. Whole(job[g].task.part, job[g].saw)'
    BY <2>1, <2>2, Zenon DEF Whole
  <2> QED
    BY <1>5, <2>1, <2>3, Zenon DEF CompleteFor
<1> QED
  BY <1>2, <1>3, <1>4, <1>5, <1>6, Zenon DEF Merged

-----------------------------------------------------------------------------
(* While the run goes on, what reducers have staged is there for whoever   *)
(* commits it; nothing sweeps.                                             *)
Staged ==
  /\ ~Terminal =>
       /\ \A h \in Handler : At(h, "reduce", "commit") => \E o \in staged : o.att = Attempt(h)
       /\ \A t \in queued : t.kind = "reduceDone" => \E o \in staged : o.att = t.att
       /\ \A h \in Handler : job[h] # None /\ job[h].task.kind = "reduceDone" /\ job[h].step # "judge" =>
            \E o \in staged : o.att = job[h].task.att
  /\ \A h \in Handler : At(h, "sweep", "sink") => Terminal

(* Staged output goes only with the attempts that lost. *)
LEMMA StagedKept ==
  ASSUME Sound, Stored, Staged, [Next]_vars
  PROVE  Staged'
<1>1. Terminal => Terminal'
  BY PhaseMoves, Zenon DEF Terminal
<1>2. ~Terminal => staged \subseteq staged'
  BY SinkWrites, Zenon DEF SweepSink, Staged
<1>3. ASSUME NEW g \in Handler, At(g, "sweep", "sink")'
      PROVE  Terminal'
  <2>1. CASE Persists(g)
    BY <1>1, <1>3, <2>1, Zenon DEF Persists, At, Staged
  <2>2. CASE SweepStarts(g)
    BY <1>1, <2>2, Zenon DEF SweepStarts, SweepStore, Stored
  <2> QED
    BY <1>3, <2>1, <2>2, NewJobs, Zenon DEF NewJob, At, Sound
<1>4. ASSUME NEW g \in Handler, At(g, "reduce", "commit")', ~Terminal
      PROVE  \E o \in staged' : o.att = Attempt(g)'
  <2>1. CASE Persists(g)
    <3>1. At(g, "reduce", "commit") /\ Attempt(g)' = Attempt(g)
      BY <1>4, <2>1, Zenon DEF Persists, At, Attempt
    <3> QED
      BY <1>2, <1>4, <3>1, Zenon DEF Staged
  <2>2. CASE Reduce(g) /\ GoesOn(g, "commit")
    <3>1. Attempt(g)' = Attempt(g)
      BY <2>2, Zenon DEF GoesOn, Attempt
    <3>2. Output(Attempt(g), job[g].saw) \in staged'
      <4>1. job'[g] # None
        BY <1>4, Zenon DEF At
      <4>2. ~Done(g)
        BY <4>1, DoneSteps, JobWrites, Zenon DEF Done, Sound, RunTypeOK, JobType
      <4> QED
        BY <2>2, <4>2, Zenon DEF Reduce
    <3>3. Output(Attempt(g), job[g].saw).att = Attempt(g)
      BY Zenon DEF Output
    <3> QED
      BY <3>1, <3>2, <3>3, Zenon
  <2> QED
    BY <1>4, <2>1, <2>2, NewJobs, Zenon DEF NewJob, At, Sound
<1>5. ASSUME NEW t \in queued', t.kind = "reduceDone", ~Terminal
      PROVE  \E o \in staged' : o.att = t.att
  <2>1. CASE t \in queued
    BY <1>2, <1>5, <2>1, Zenon DEF Staged
  <2>2. CASE t \notin queued
    <3>1. PICK h \in Handler : ReduceCommit(h) /\ t.att = Attempt(h)
      BY <1>5, <2>2, NewTasks, Zenon DEF NewTask
    <3> QED
      BY <1>2, <1>5, <3>1, Zenon DEF ReduceCommit, Staged
  <2> QED
    BY <2>1, <2>2, Zenon
<1>6. ASSUME NEW g \in Handler, job'[g] # None, job'[g].task.kind = "reduceDone", job'[g].step # "judge",
             ~Terminal
      PROVE  \E o \in staged' : o.att = job'[g].task.att
  <2>1. CASE Persists(g) \/ (SinkCommit(g) /\ GoesOn(g, "accept"))
    <3>1. job[g] # None /\ job'[g].task = job[g].task /\ job[g].step # "judge"
      BY <1>6, <2>1, Zenon DEF Persists, SinkCommit, GoesOn, At
    <3> QED
      BY <1>2, <1>6, <3>1, Zenon DEF Staged
  <2>2. CASE ReduceDoneStarts(g)
    BY <1>2, <1>6, <2>2, Zenon DEF ReduceDoneStarts, Claimed, Staged
  <2> QED
    BY <1>6, <2>1, <2>2, NewJobs, Zenon DEF NewJob, Sound
<1> QED
  BY <1>1, <1>3, <1>4, <1>5, <1>6, Zenon DEF Staged

(* A part doc, once there, stays. *)
LEMMA PartsStay ==
  ASSUME Sound, [Next]_vars, NEW p \in Partition
  PROVE  \/ parts'[p] = parts[p]
         \/ \E h \in Handler : /\ SinkCommit(h) /\ parts[p] = None
                               /\ p = job[h].task.att.task.part /\ parts'[p] = job[h].task.att
BY SinkWrites, Zenon DEF SinkCommit, Sound, RunTypeOK, SinkType

(* A part doc names a staged attempt at a partition with records; each     *)
(* partition that is marked has one, and in the end all with records are   *)
(* marked.  The sweep spares them, and the manifest names all others.      *)
Sunk ==
  /\ phase # "failed" => \A p \in Partition : parts[p] # None => \E o \in staged : o.att = parts[p]
  /\ \A p \in Partition : parts[p] # None => parts[p].task.part = p /\ p \in Full
  /\ \A p \in markers : parts[p] # None
  /\ \A h \in Handler : At(h, "reduceDone", "accept") => parts[job[h].task.att.task.part] # None
  /\ phase = "done" => Full \subseteq markers
  /\ \A h \in Handler : At(h, "sweep", "sink") /\ phase = "done" =>
       \A p \in Full : parts[p] \in job[h].saw
  /\ manifest # None => Partition \ Full \subseteq manifest.empty

(* Parts, markers and the manifest stay in step. *)
LEMMA SunkKept ==
  ASSUME Sound, Settled, Published, Merged, Staged, Stored, Sunk, [Next]_vars
  PROVE  Sunk'
<1>1. Full' = Full /\ Full \subseteq Partition
  BY ScenarioStays, Zenon DEF Full
<1>2. ASSUME NEW h \in Handler, SinkCommit(h)
      PROVE  /\ job[h].task.att.task.part \in Full
             /\ job[h].task.att # None
             /\ ~Terminal => \E o \in staged : o.att = job[h].task.att
  <2>1. At(h, "reduceDone", "sink")
    BY <1>2, Zenon DEF SinkCommit
  <2>2. job[h].task \in ReduceDoneTask
    BY <2>1, JobFields, Zenon DEF At, Sound, RunTypeOK
  <2>3. job[h].task.att # None
    BY <2>2, TaskFields, NoneIsNoDoc, Zenon DEF ReduceAttempts
  <2> QED
    BY <2>1, <2>3, Zenon DEF At, Merged, Staged
<1>3. ASSUME phase = "done", NEW p \in Partition
      PROVE  parts'[p] = parts[p]
  BY <1>2, <1>3, PartsStay, Zenon DEF Sunk
<1>4. ASSUME NEW p \in Partition, parts'[p] # None
      PROVE  parts'[p].task.part = p /\ p \in Full
  BY <1>2, <1>4, PartsStay DEF Sunk
<1>5. ASSUME phase' # "failed", NEW p \in Partition, parts'[p] # None
      PROVE  \E o \in staged' : o.att = parts'[p]
  <2>1. CASE ~Terminal
    <3>1. staged \subseteq staged'
      BY <2>1, SinkWrites, Zenon DEF SweepSink, Staged
    <3>2. phase # "failed"
      BY <2>1, Zenon DEF Terminal
    <3> QED
      BY <1>2, <1>5, <2>1, <3>1, <3>2, PartsStay DEF Sunk
  <2>2. CASE Terminal
    <3>1. phase = "done"
      BY <1>5, <2>2, PhaseMoves, Zenon DEF Terminal
    <3>2. parts'[p] = parts[p] /\ p \in Full
      BY <1>3, <1>4, <1>5, <3>1, Zenon
    <3>3. PICK o \in staged : o.att = parts[p]
      BY <1>5, <3>1, <3>2, Zenon DEF Sunk
    <3>4. o \in staged'
      BY <3>1, <3>2, <3>3, SinkWrites, Zenon DEF SweepSink, Sunk
    <3> QED
      BY <3>2, <3>3, <3>4, Zenon
  <2> QED
    BY <2>1, <2>2, Zenon
<1>6. ASSUME NEW p \in markers'
      PROVE  parts'[p] # None
  <2>1. p \in Partition
    BY RunTypeKept, Zenon DEF Sound, RunTypeOK, DocsType
  <2>2. parts[p] # None
    <3>1. ASSUME NEW h \in Handler, ReduceAccepts(h), p \notin markers
          PROVE  At(h, "reduceDone", "accept") /\ p = job[h].task.att.task.part
      BY <3>1, Zenon DEF ReduceAccepts, ReduceDoneAccept
    <3> QED
      BY <3>1, DocsWrites, Zenon DEF Sunk
  <2> QED
    BY <2>1, <2>2, PartsStay, Zenon
<1>7. ASSUME NEW g \in Handler, At(g, "reduceDone", "accept")'
      PROVE  parts'[job'[g].task.att.task.part] # None
  <2>1. job[g] # None /\ job'[g].task = job[g].task /\ job[g].task.kind = "reduceDone"
    BY <1>7, NewJobs, Zenon DEF Persists, GoesOn, NewJob, At, Sound
  <2>2. job[g].task.att.task.part \in Partition
    BY <2>1, JobFields, TaskFields, Zenon DEF Sound, RunTypeOK
  <2>3. CASE Persists(g)
    <3>1. At(g, "reduceDone", "accept")
      BY <1>7, <2>3, Zenon DEF Persists, At
    <3> QED
      BY <2>1, <2>2, <3>1, PartsStay, SMTT(30) DEF Sunk
  <2>4. CASE SinkCommit(g)
    BY <1>2, <2>1, <2>2, <2>4, Zenon DEF SinkCommit, Sound, RunTypeOK, SinkType
  <2> QED
    BY <1>7, <2>3, <2>4, NewJobs, Zenon DEF NewJob, At, Sound
<1>8. ASSUME phase' = "done", NEW p \in Full
      PROVE  p \in markers'
  <2>1. CASE phase = "done"
    BY <2>1, DocsShrink, Zenon DEF Sunk
  <2>2. CASE phase # "done"
    <3>1. splits = {} /\ pointers = {} /\ phase # "none"
      BY <1>8, <2>2, PhaseMoves, Zenon
    <3>2. p \in markers
      BY <3>1, Zenon DEF Full, Published
    <3> QED
      BY <3>1, <3>2, DocsShrink, Zenon
  <2> QED
    BY <2>1, <2>2, Zenon
<1>9. ASSUME NEW g \in Handler, At(g, "sweep", "sink")', phase' = "done", NEW p \in Full
      PROVE  parts'[p] \in job'[g].saw
  <2>1. CASE Persists(g)
    <3>1. At(g, "sweep", "sink") /\ job'[g].saw = job[g].saw
      BY <1>9, <2>1, Zenon DEF Persists, At
    <3>2. phase = "done"
      BY <1>9, <3>1, PhaseMoves, Zenon DEF Staged, Terminal
    <3> QED
      BY <1>1, <1>3, <3>1, <3>2, Zenon DEF Sunk
  <2>2. CASE SweepStarts(g)
    BY <1>1, <2>2, Zenon DEF SweepStarts, Claimed, SweepStore, sinkVars
  <2> QED
    BY <1>9, <2>1, <2>2, NewJobs, Zenon DEF NewJob, At, Sound
<1>10. ASSUME manifest' # None
       PROVE  Partition \ Full \subseteq manifest'.empty
  <2>1. CASE manifest' = manifest
    BY <1>10, <2>1, Zenon DEF Sunk
  <2>2. CASE \E h \in Handler : SinkFinish(h)
    <3>1. markers \subseteq Full
      BY Zenon DEF Sunk, Sound, RunTypeOK, DocsType
    <3> QED
      BY <2>2, <3>1 DEF SinkFinish, Sunk
  <2> QED
    BY <2>1, <2>2, SinkWrites, Zenon
<1> QED
  BY <1>1, <1>4, <1>5, <1>6, <1>7, <1>8, <1>9, <1>10, Zenon DEF Sunk

(* So the output is complete. *)
LEMMA CompleteOutput ==
  ASSUME RunTypeOK, PhaseSound, Merged, Sunk
  PROVE  OutputComplete
<1>1. SUFFICES ASSUME phase = "done"
               PROVE  /\ \A p \in Full : \E o \in staged : o.att = parts[p] /\ Whole(p, o.runs)
                      /\ Partition \ Full \subseteq manifest.empty
  BY Zenon DEF OutputComplete
<1>2. manifest # None
  BY <1>1, Zenon DEF PhaseSound
<1>3. ASSUME NEW p \in Full
      PROVE  \E o \in staged : o.att = parts[p] /\ Whole(p, o.runs)
  <2>1. p \in Partition /\ parts[p] # None
    BY <1>1, Zenon DEF Full, Sunk
  <2>2. PICK o \in staged : o.att = parts[p]
    BY <1>1, <2>1, Zenon DEF Sunk
  <2>3. o.att.task.part = p
    BY <2>1, <2>2, Zenon DEF Sunk
  <2> QED
    BY <2>2, <2>3, Zenon DEF Merged, CompleteFor
<1> QED
  BY <1>2, <1>3, Zenon DEF Sunk

-----------------------------------------------------------------------------
(* A unit's work goes on in one task at a time: in the map or reduce task  *)
(* itself, queued or failed, or in the finish that replaced it.  Whatever  *)
(* has been worked on has been claimed.                                    *)
FinishKinds == {"mapDone", "reduceDone"}

OneTaskEach ==
  /\ \A t \in queued \cup errors : t \in WorkTask =>
       \A d \in queued : d.kind \in FinishKinds => d.att.task # t
  /\ \A d, e \in queued :
       d.kind \in FinishKinds /\ e.kind \in FinishKinds /\ d.att.task = e.att.task => d = e
  /\ \A t \in queued : t \in WorkTask => t \notin errors
  /\ \A t \in errors : t \in WorkTask => tries[t] # 0
  /\ \A d \in queued : d.kind \in FinishKinds => tries[d.att.task] # 0
  /\ \A h \in Handler : job[h] # None /\ job[h].task \in WorkTask => tries[job[h].task] # 0

(* A finish is of a map or reduce task, and is not one. *)
LEMMA FinishFields ==
  ASSUME NEW d \in Tasks, d.kind \in FinishKinds
  PROVE  d.att.task \in WorkTask /\ d \notin WorkTask
BY KindOfTask, TaskFields, Zenon DEF FinishKinds, WorkTask

(* What was claimed once stays so. *)
LEMMA TriesStay ==
  ASSUME Sound, [Next]_vars, NEW t \in WorkTask, tries[t] # 0
  PROVE  tries'[t] # 0
<1>1. tries[t] <= tries'[t] /\ tries[t] \in Nat /\ tries'[t] \in Nat
  BY JobWrites, Zenon DEF Sound, RunTypeOK, TriesType
<1> QED
  BY <1>1

(* A finish that is new replaces its task. *)
LEMMA NewFinish ==
  ASSUME Sound, OneTaskEach, [Next]_vars, NEW d \in queued', d \notin queued, d.kind \in FinishKinds
  PROVE  /\ d.att.task \in queued /\ d.att.task \notin queued' /\ d.att.task \in WorkTask
         /\ tries[d.att.task] # 0
         /\ queued' = (queued \ {d.att.task}) \cup {d} /\ errors' = errors
<1>1. PICK h \in Handler : /\ MapCommit(h) \/ ReduceCommit(h)
                           /\ StillTask(h) /\ d.att = Attempt(h)
                           /\ d \in {MapDone(Attempt(h)), ReduceDone(Attempt(h), job[h].saw)}
                           /\ queued' = (queued \ {job[h].task}) \cup {d} /\ errors' = errors
  <2>1. CASE d.kind = "mapDone"
    <3>1. PICK h \in Handler : MapCommit(h) /\ StillTask(h) /\ d.att = Attempt(h)
      BY <2>1, NewTasks, Zenon DEF NewTask
    <3>2. queued' = (queued \ {job[h].task}) \cup {MapDone(Attempt(h))} /\ errors' = errors
      BY <3>1, Zenon DEF MapCommit, Replace
    <3> QED
      BY <3>1, <3>2, Zenon
  <2>2. CASE d.kind = "reduceDone"
    <3>1. PICK h \in Handler : ReduceCommit(h) /\ StillTask(h) /\ d.att = Attempt(h)
      BY <2>2, NewTasks, Zenon DEF NewTask
    <3>2. /\ queued' = (queued \ {job[h].task}) \cup {ReduceDone(Attempt(h), job[h].saw)}
          /\ errors' = errors
      BY <3>1, Zenon DEF ReduceCommit, Replace
    <3> QED
      BY <3>1, <3>2, Zenon
  <2> QED
    BY <2>1, <2>2, Zenon DEF FinishKinds
<1>2. /\ job[h] # None /\ job[h].mine /\ job[h].task.kind \in {"map", "reduce"}
      /\ job[h].step # "judge" /\ d.att.task = job[h].task
  BY <1>1 DEF MapCommit, ReduceCommit, At, StillTask, Attempt
<1>3. job[h].task \in queued /\ job[h].task \in WorkTask
  BY <1>2, KindOfTask, JobFields, Zenon DEF Sound, RunTypeOK, ClaimsSound, ClaimedIsThere
<1>4. job[h].task # d
  BY <1>2, <1>1, Zenon DEF FinishKinds
<1> QED
  BY <1>1, <1>2, <1>3, <1>4, Zenon DEF OneTaskEach

(* A map or reduce task that is new was never claimed, and nobody has      *)
(* worked on it.                                                           *)
LEMMA NewWork ==
  ASSUME Sound, OneTaskEach, [Next]_vars, NEW t \in queued', t \notin queued, t \in WorkTask
  PROVE  /\ t \notin errors'
         /\ \A d \in queued' : d.kind \in FinishKinds => d.att.task # t
<1>1. t.kind \in {"map", "reduce"}
  BY Zenon DEF WorkTask, MapTask, ReduceTask
<1>2. CASE \E x \in queued, c \in Copy : Backup(x, c) /\ t = [x EXCEPT !.copy = c]
  <2>1. tries[t] = 0 /\ errors' = errors /\ queued' = queued \cup {t}
    BY <1>2, Zenon DEF Backup
  <2> QED
    BY <1>1, <2>1, Zenon DEF OneTaskEach, FinishKinds
<1>3. CASE StartRun /\ phase = "none"
  <2>1. queued' = {[kind |-> "map", split |-> s, copy |-> First] : s \in Split} /\ errors' = errors
    BY <1>3, Zenon DEF StartRun
  <2>2. errors = {}
    BY <1>3, Zenon DEF Sound, ClaimsSound, NotStarted
  <2> QED
    BY <2>1, <2>2 DEF FinishKinds
<1>4. ASSUME NEW h \in Handler, FanOut(h), StillHeld(h), t.kind = "reduce"
      PROVE  /\ t \notin errors'
             /\ \A d \in queued' : d.kind \in FinishKinds => d.att.task # t
  <2>1. phase = "map"
    <3>1. Decides(h, TRUE) /\ pointers # {}
      BY <1>4, Zenon DEF FanOut
    <3> QED
      BY <1>4, <3>1, DeciderKnows, Zenon DEF Sound, Reached, PhaseOf
  <2>2. /\ errors' = errors
        /\ \A d \in queued' : d \in queued \/ d.kind = "reduce"
    BY <1>4, SMTT(30) DEF FanOut, Replace
  <2>3. t \notin errors
    BY <1>1, <1>4, <2>1, Zenon DEF Sound, PhaseSound, ReduceKinds
  <2>4. ASSUME NEW d \in queued, d.kind \in FinishKinds
        PROVE  d.att.task # t
    <3>1. d.kind = "mapDone"
      BY <2>1, <2>4, Zenon DEF FinishKinds, Sound, PhaseSound, ReduceKinds
    <3>2. d.att.task.kind = "map"
      BY <3>1, KindOfTask, TaskFields, Zenon DEF Sound, RunTypeOK, TaskType, MapTask
    <3> QED
      BY <1>4, <3>2, Zenon
  <2> QED
    BY <2>2, <2>3, <2>4, Zenon DEF FinishKinds
<1> QED
  BY <1>1, <1>2, <1>3, <1>4, NewTasks DEF NewTask

(* A task that fails was claimed, and leaves its queue. *)
LEMMA NewError ==
  ASSUME Sound, OneTaskEach, [Next]_vars, NEW t \in errors', t \notin errors, t \in WorkTask
  PROVE  t \in queued /\ t \notin queued' /\ tries[t] # 0
<1>1. t.kind \in {"map", "reduce"}
  BY Zenon DEF WorkTask, MapTask, ReduceTask
<1>2. PICK h \in Handler : Move(h) /\ StillTask(h) /\ t = job[h].task
  BY <1>1, ErrorsWrites, Zenon
<1>3. job[h] # None /\ job[h].mine /\ job[h].step # "judge" /\ t \notin queued'
  BY <1>2, Zenon DEF Move, Movable, At, StillTask, Replace
<1> QED
  BY <1>2, <1>3, Zenon DEF Sound, ClaimsSound, ClaimedIsThere, OneTaskEach

(* A unit has one task for each of its copies. *)
LEMMA OneTaskEachKept ==
  ASSUME Sound, OneTaskEach, [Next]_vars
  PROVE  OneTaskEach'
<1>1. queued \subseteq Tasks /\ queued' \subseteq Tasks
  BY RunTypeKept, Zenon DEF Sound, RunTypeOK, TaskType
<1>2. ASSUME NEW d \in queued', d.kind \in FinishKinds
      PROVE  tries'[d.att.task] # 0
  <2>1. d.att.task \in WorkTask
    BY <1>1, <1>2, FinishFields, Zenon
  <2>2. tries[d.att.task] # 0
    BY <1>2, NewFinish, Zenon DEF OneTaskEach
  <2> QED
    BY <2>1, <2>2, TriesStay, Zenon
<1>3. ASSUME NEW t \in errors', t \in WorkTask
      PROVE  tries'[t] # 0
  BY <1>3, NewError, TriesStay, Zenon DEF OneTaskEach
<1>4. ASSUME NEW t \in queued', t \in WorkTask
      PROVE  t \notin errors'
  BY <1>4, NewWork, NewError, Zenon DEF OneTaskEach
<1>5. ASSUME NEW t \in queued' \cup errors', t \in WorkTask, NEW d \in queued', d.kind \in FinishKinds,
             d.att.task = t
      PROVE  FALSE
  <2>1. CASE t \in queued' /\ t \notin queued
    BY <1>5, <2>1, NewWork, Zenon
  <2>2. t \in queued \cup errors
    BY <1>5, <2>1, NewError, Zenon
  <2>3. d \notin queued
    BY <1>5, <2>2, Zenon DEF OneTaskEach
  <2>4. t \in queued /\ t \notin queued' /\ errors' = errors
    BY <1>5, <2>3, NewFinish, Zenon
  <2> QED
    BY <1>5, <2>4, Zenon DEF OneTaskEach
<1>6. ASSUME NEW d \in queued', NEW e \in queued', d.kind \in FinishKinds, e.kind \in FinishKinds,
             d.att.task = e.att.task
      PROVE  d = e
  <2>1. CASE d \in queued /\ e \in queued
    BY <1>6, <2>1, Zenon DEF OneTaskEach
  <2>2. CASE d \notin queued
    BY <1>6, <2>2, NewFinish, Zenon DEF OneTaskEach
  <2>3. CASE e \notin queued
    BY <1>6, <2>3, NewFinish, Zenon DEF OneTaskEach
  <2> QED
    BY <2>1, <2>2, <2>3, Zenon
<1>7. ASSUME NEW g \in Handler, job'[g] # None, job'[g].task \in WorkTask
      PROVE  tries'[job'[g].task] # 0
  <2>1. CASE job[g] # None /\ job'[g].task = job[g].task
    BY <1>7, <2>1, TriesStay, Zenon DEF OneTaskEach
  <2>2. CASE Claimed(g, job'[g].task, job'[g].set, job'[g].step, job'[g].saw)
    BY <1>7, <2>2 DEF Claimed, Sound, RunTypeOK, TriesType
  <2> QED
    BY <1>7, <2>1, <2>2, JobShape, Zenon DEF Persists, GoesOn, Took, Sound
<1> QED
  BY <1>2, <1>3, <1>4, <1>5, <1>6, <1>7, Zenon DEF OneTaskEach

-----------------------------------------------------------------------------
(* No backup was ever at work. *)
OnlyFirst == \A t \in WorkTask : t.copy # First => tries[t] = 0 /\ t \notin queued

(* What may yet be accepted or fail. *)
Open == queued \cup (errors \cap WorkTask)

(* Then there is only work for units that are yet to be accepted. *)
UnitsLeft ==
  OnlyFirst /\ phase # "none" =>
    /\ \A t \in Open, s \in Split : ForSplit(t, s) => s \in splits
    /\ \A t \in Open, p \in Partition : ForPartition(t, p) => p \notin markers /\ p \in Full

(* If no backup was at work until now, none was before. *)
LEMMA OnlyFirstBefore ==
  ASSUME Sound, OneTaskEach, [Next]_vars, OnlyFirst'
  PROVE  OnlyFirst
<1>1. SUFFICES ASSUME NEW t \in WorkTask, t.copy # First
               PROVE  tries[t] = 0 /\ t \notin queued
  BY Zenon DEF OnlyFirst
<1>2. tries'[t] = 0 /\ t \notin queued'
  BY <1>1, Zenon DEF OnlyFirst
<1>3. tries[t] = 0
  BY <1>2, TriesStay, Zenon
<1>4. ASSUME t \in queued
      PROVE  FALSE
  <2>1. phase # "none" /\ t.kind # "gc"
    BY <1>4, Zenon DEF WorkTask, MapTask, ReduceTask, Sound, ClaimsSound, NotStarted
  <2>2. \E h \in Handler : job[h] # None /\ job[h].task = t
    BY <1>2, <1>4, <2>1, QueueShrinks, Zenon
  <2> QED
    BY <1>3, <2>2, Zenon DEF OneTaskEach
<1> QED
  BY <1>3, <1>4, Zenon

(* The map or reduce task that goes on in a task. *)
WorkOf(t) == IF t \in WorkTask THEN t ELSE t.att.task

(* The task of a unit, and its finish, go on with work on that unit. *)
LEMMA WorkFields ==
  ASSUME NEW t \in Tasks
  PROVE  /\ \A s : ForSplit(t, s) => /\ WorkOf(t) \in MapTask /\ WorkOf(t).split = s
                                     /\ t \in WorkTask \/ t.kind = "mapDone"
         /\ \A p : ForPartition(t, p) => /\ WorkOf(t) \in ReduceTask /\ WorkOf(t).part = p
                                         /\ t \in WorkTask \/ t.kind = "reduceDone"
BY KindOfTask, TaskFields, Zenon DEF ForSplit, ForPartition, WorkOf

(* Without backups the work of a unit goes on in one task only. *)
LEMMA OneTaskOfUnit ==
  ASSUME Sound, OneTaskEach, OnlyFirst, NEW t \in Open, NEW u \in Open, NEW x,
         \/ ForSplit(t, x) /\ ForSplit(u, x)
         \/ ForPartition(t, x) /\ ForPartition(u, x)
  PROVE  t = u
<1>1. Open \subseteq Tasks
  BY Zenon DEF Open, Sound, RunTypeOK, TaskType, Tasks
<1>2. ASSUME NEW z \in Open, ForSplit(z, x) \/ ForPartition(z, x)
      PROVE  /\ WorkOf(z) \in WorkTask
             /\ z \in WorkTask \/ (z.kind \in FinishKinds /\ z \in queued)
  BY <1>1, <1>2, WorkFields, Zenon DEF WorkTask, FinishKinds, Open
<1>3. ASSUME NEW z \in Open, ForSplit(z, x) \/ ForPartition(z, x)
      PROVE  WorkOf(z).copy = First
  <2>1. CASE z \in WorkTask
    BY <2>1, Zenon DEF WorkOf, OnlyFirst, OneTaskEach, Open
  <2>2. CASE z \notin WorkTask
    BY <1>2, <1>3, <2>2, Zenon DEF WorkOf, OnlyFirst, OneTaskEach
  <2> QED
    BY <2>1, <2>2, Zenon
<1>4. WorkOf(t) = WorkOf(u)
  <2>1. CASE ForSplit(t, x) /\ ForSplit(u, x)
    BY <1>1, <1>3, <2>1, WorkFields DEF MapTask
  <2>2. CASE ForPartition(t, x) /\ ForPartition(u, x)
    BY <1>1, <1>3, <2>2, WorkFields DEF ReduceTask
  <2> QED
    BY <2>1, <2>2, Zenon
<1>5. CASE t \in WorkTask /\ u \in WorkTask
  BY <1>4, <1>5, Zenon DEF WorkOf
<1>6. CASE t \in WorkTask /\ u \notin WorkTask
  BY <1>2, <1>4, <1>6, Zenon DEF WorkOf, OneTaskEach, Open
<1>7. CASE t \notin WorkTask /\ u \in WorkTask
  BY <1>2, <1>4, <1>7, Zenon DEF WorkOf, OneTaskEach, Open
<1>8. CASE t \notin WorkTask /\ u \notin WorkTask
  BY <1>2, <1>4, <1>8, Zenon DEF WorkOf, OneTaskEach
<1> QED
  BY <1>5, <1>6, <1>7, <1>8, Zenon

(* Work for a unit comes from work for that unit, or is there from the     *)
(* start of the phase.                                                     *)
LEMMA WorkGoesOn ==
  ASSUME Sound, OneTaskEach, [Next]_vars, phase # "none", NEW t \in queued' \cup (errors' \cap WorkTask)
  PROVE  /\ \A s : ForSplit(t, s) => \E u \in Open : ForSplit(u, s)
         /\ \A p : ForPartition(t, p) =>
              \/ \E u \in Open : ForPartition(u, p)
              \/ p \in PartitionsOf(pointers)
<1>1. CASE t \in queued \cup (errors \cap WorkTask)
  BY <1>1, Zenon DEF Open
<1>2. CASE t \in errors' /\ t \in WorkTask /\ t \notin errors
  BY <1>2, NewError, Zenon DEF Open
<1>3. CASE t \in queued' /\ t \notin queued
  <2>1. CASE t.kind \in FinishKinds
    <3>1. t.att.task \in queued /\ t \in Tasks
      BY <1>3, <2>1, NewFinish, RunTypeKept, Zenon DEF Sound, RunTypeOK, TaskType
    <3>2. /\ t.kind = "mapDone" => t.att.task.kind = "map"
          /\ t.kind = "reduceDone" => t.att.task.kind = "reduce"
      BY <3>1, KindOfTask, TaskFields, Zenon DEF MapTask, ReduceTask
    <3> QED
      BY <2>1, <3>1, <3>2, Zenon DEF FinishKinds, ForSplit, ForPartition, Open
  <2>2. ASSUME NEW x \in queued, NEW c \in Copy, Backup(x, c), t = [x EXCEPT !.copy = c]
        PROVE  /\ t.kind = x.kind
               /\ x.kind = "map" => t.split = x.split
               /\ x.kind = "reduce" => t.part = x.part
    BY <2>2, Zenon DEF Backup, WorkTask, MapTask, ReduceTask
  <2>3. CASE t.kind = "map"
    BY <1>3, <2>2, <2>3, NewTasks DEF NewTask, ForSplit, ForPartition, Open
  <2>4. CASE t.kind = "reduce"
    BY <1>3, <2>2, <2>4, NewTasks DEF NewTask, ForSplit, ForPartition, Open
  <2> QED
    BY <2>1, <2>3, <2>4, Zenon DEF FinishKinds, ForSplit, ForPartition
<1> QED
  BY <1>1, <1>2, <1>3, Zenon

(* Without backups, whatever accepts a unit uses up its task. *)
LEMMA UnitsLeftKept ==
  ASSUME Sound, Settled, Published, Merged, OneTaskEach, UnitsLeft, [Next]_vars
  PROVE  UnitsLeft'
<1>1. SUFFICES ASSUME OnlyFirst', phase' # "none"
               PROVE  /\ \A t \in Open', s \in Split : ForSplit(t, s) => s \in splits'
                      /\ \A t \in Open', p \in Partition : ForPartition(t, p) => p \notin markers' /\ p \in Full'
  BY Zenon DEF UnitsLeft, ForSplit, ForPartition
<1>2. OnlyFirst /\ Full' = Full
  BY <1>1, OnlyFirstBefore, ScenarioStays, Zenon
<1>3. Open' = queued' \cup (errors' \cap WorkTask)
  BY Zenon DEF Open, WorkTask, MapTask, ReduceTask
<1>4. CASE phase = "none"
  <2>1. StartRun
    BY <1>1, <1>4, PhaseMoves, Zenon
  <2>2. errors = {} /\ splits = Split
    BY <1>4, <2>1, Zenon DEF StartRun, Sound, ClaimsSound, NotStarted
  <2>3. /\ Open' = {[kind |-> "map", split |-> s, copy |-> First] : s \in Split}
        /\ splits' = Split
    BY <1>3, <1>4, <2>1, <2>2, Zenon DEF StartRun
  <2> QED
    BY <2>3 DEF ForSplit, ForPartition
<1>5. CASE phase # "none"
  <2>1. /\ \A t \in Open, s \in Split : ForSplit(t, s) => s \in splits
        /\ \A t \in Open, p \in Partition : ForPartition(t, p) => p \notin markers /\ p \in Full
    BY <1>2, <1>5, Zenon DEF UnitsLeft
  <2>2. ASSUME NEW h \in Handler, MapAccepts(h) \/ ReduceAccepts(h), NEW t \in Open'
        PROVE  /\ t \in Open \/ t.kind \in {"mapCheck", "reduceCheck", "gc"}
               /\ t # job[h].task /\ job[h].task \in Open
    <3>1. /\ job[h] # None /\ job[h].mine /\ job[h].task.kind \in FinishKinds /\ job[h].step # "judge"
          /\ \A x \in queued' : \/ x \in queued /\ x # job[h].task
                                \/ x.kind \in {"mapCheck", "reduceCheck", "gc"}
          /\ errors' = errors
      <4>1. CASE MapAccepts(h)
        BY <4>1 DEF MapAccepts, MapDoneAccept, Replace, Checking, StillHeld, At, FinishKinds
      <4>2. CASE ReduceAccepts(h)
        <5>1. /\ At(h, "reduceDone", "accept") /\ StillHeld(h) /\ errors' = errors
              /\ Replace(h, Checking("reduceCheck", job[h].task.att.task.part)
                              \cup Collecting(job[h].task.att, job[h].task.runs))
          BY <4>2, Zenon DEF ReduceAccepts, ReduceDoneAccept
        <5>2. \A x \in Collecting(job[h].task.att, job[h].task.runs) : x.kind = "gc"
          BY DEF Collecting
        <5>3. \A x \in Checking("reduceCheck", job[h].task.att.task.part) : x.kind = "reduceCheck"
          BY DEF Checking
        <5> QED
          BY <5>1, <5>2, <5>3, Zenon DEF Replace, StillHeld, At, FinishKinds
      <4> QED
        BY <2>2, <4>1, <4>2, Zenon
    <3>2. job[h].task \in queued /\ job[h].task \notin WorkTask
      BY <3>1, FinishFields, JobFields, Zenon DEF Sound, RunTypeOK, ClaimsSound, ClaimedIsThere
    <3> QED
      BY <1>3, <3>1, <3>2, Zenon DEF Open, FinishKinds
  <2>3. ASSUME NEW t \in Open', NEW s \in Split, ForSplit(t, s)
        PROVE  s \in splits'
    <3>1. s \in splits
      BY <1>3, <1>5, <2>1, <2>3, WorkGoesOn, Zenon
    <3>2. ASSUME NEW h \in Handler, MapAccepts(h)
          PROVE  s # job[h].task.att.task.split
      <4>1. t \in Open /\ t # job[h].task /\ job[h].task \in Open
        BY <2>2, <2>3, <3>2, Zenon DEF ForSplit
      <4>2. ForSplit(job[h].task, job[h].task.att.task.split)
        BY <3>2, Zenon DEF MapAccepts, MapDoneAccept, At, ForSplit
      <4> QED
        BY <1>2, <2>3, <4>1, <4>2, OneTaskOfUnit, Zenon
    <3>3. \A x \in Split : ~Stage(x)
      BY <1>5, Zenon DEF Stage, Sound, ClaimsSound, NotStarted
    <3> QED
      BY <3>1, <3>2, <3>3, DocsWrites, Zenon DEF MapAccepts, MapDoneAccept
  <2>4. ASSUME NEW t \in Open', NEW p \in Partition, ForPartition(t, p)
        PROVE  p \notin markers' /\ p \in Full
    <3>1. p \notin markers /\ p \in Full
      <4>1. CASE \E u \in Open : ForPartition(u, p)
        BY <2>1, <4>1, Zenon
      <4>2. CASE p \in PartitionsOf(pointers)
        <5>1. PICK r \in pointers : r.part = p
          BY <4>2, Zenon DEF PartitionsOf
        <5>2. r.att.task.split \in Split
          BY TaskFields, Zenon DEF Sound, RunTypeOK, DocsType
        <5> QED
          BY <5>1, <5>2, Zenon DEF Settled, Published, Full
      <4> QED
        BY <1>3, <1>5, <2>4, <4>1, <4>2, WorkGoesOn, Zenon
    <3>2. ASSUME NEW h \in Handler, ReduceAccepts(h)
          PROVE  p # job[h].task.att.task.part
      <4>1. t \in Open /\ t # job[h].task /\ job[h].task \in Open
        BY <2>2, <2>4, <3>2, Zenon DEF ForPartition
      <4>2. ForPartition(job[h].task, job[h].task.att.task.part)
        BY <3>2, Zenon DEF ReduceAccepts, ReduceDoneAccept, At, ForPartition
      <4> QED
        BY <1>2, <2>4, <4>1, <4>2, OneTaskOfUnit, Zenon
    <3> QED
      BY <3>1, <3>2, DocsWrites, Zenon DEF ReduceAccepts, ReduceDoneAccept
  <2> QED
    BY <1>2, <2>3, <2>4, Zenon
<1> QED
  BY <1>4, <1>5, Zenon

-----------------------------------------------------------------------------
(* What was reported is where the run is, what was read is whole, and      *)
(* after awaitCollection there is nothing left unless a backup was at work. *)
Reported ==
  /\ told # None => Terminal /\ phase = IF told = "collected" THEN "done" ELSE told
  /\ got \in [Partition -> (SUBSET (SUBSET Runs)) \cup {None}]
  /\ \A p \in Partition : got[p] # None =>
       IF p \in Full THEN \E runs \in got[p] : Whole(p, runs) ELSE got[p] = {}
  /\ told = "collected" /\ OnlyFirst => queued = {}

(* Reports and reads are made of a run that has ended. *)
LEMMA ReportedKept ==
  ASSUME Sound, Merged, Sunk, OneTaskEach, UnitsLeft, Reported, [Next]_vars
  PROVE  Reported'
<1>1. Terminal => Terminal' /\ phase' = phase
  BY PhaseMoves, Zenon DEF Terminal
<1>2. told' # None => Terminal' /\ phase' = IF told' = "collected" THEN "done" ELSE told'
  <2>1. CASE told' = told
    BY <1>1, <2>1, Zenon DEF Reported
  <2>2. CASE Wait
    BY <1>1, <2>2, Zenon DEF Wait, Terminal
  <2>3. CASE Collected
    <3>1. told = "done" /\ told # None /\ told' = "collected"
      BY <2>3, NoneIsNoDoc, Zenon DEF Collected
    <3> QED
      BY <1>1, <3>1, Zenon DEF Reported
  <2> QED
    BY <2>1, <2>2, <2>3, ResultWrites, Zenon
<1>3. ASSUME NEW p \in Partition, ReadPartition(p)
      PROVE  /\ Committed(p) \subseteq SUBSET Runs
             /\ IF p \in Full THEN \E runs \in Committed(p) : Whole(p, runs) ELSE Committed(p) = {}
  <2>1. phase = "done"
    BY <1>3, Zenon DEF ReadPartition, CompletedRun
  <2>2. \A o \in staged : o.att \in ReduceAttempts /\ o.runs \subseteq Runs
    BY Zenon DEF Sound, RunTypeOK, SinkType
  <2>3. Committed(p) \subseteq SUBSET Runs
    BY <2>2, Zenon DEF Committed
  <2>4. CASE p \in Full
    <3>1. PICK o \in staged : o.att = parts[p] /\ Whole(p, o.runs)
      BY <2>1, <2>4, CompleteOutput, Zenon DEF OutputComplete, Sound
    <3>2. o.runs \in Committed(p)
      BY <3>1, Zenon DEF Committed
    <3> QED
      BY <2>3, <2>4, <3>1, <3>2, Zenon
  <2>5. CASE p \notin Full
    <3>1. parts[p] = None
      BY <2>5, Zenon DEF Sunk
    <3>2. \A o \in staged : o.att # parts[p]
      BY <2>2, <3>1, NoneIsNoDoc, Zenon DEF ReduceAttempts
    <3>3. Committed(p) = {}
      BY <3>2, Zenon DEF Committed
    <3> QED
      BY <2>3, <2>5, <3>3, Zenon
  <2> QED
    BY <2>4, <2>5, Zenon
<1>4. /\ got' \in [Partition -> (SUBSET (SUBSET Runs)) \cup {None}]
      /\ \A p \in Partition : got'[p] # None =>
           IF p \in Full THEN \E runs \in got'[p] : Whole(p, runs) ELSE got'[p] = {}
  <2>1. CASE got' = got
    BY <2>1, Zenon DEF Reported
  <2>2. ASSUME NEW p \in Partition, ReadPartition(p)
        PROVE  /\ got' \in [Partition -> (SUBSET (SUBSET Runs)) \cup {None}]
               /\ \A x \in Partition : got'[x] # None =>
                    IF x \in Full THEN \E runs \in got'[x] : Whole(x, runs) ELSE got'[x] = {}
    <3>1. got' = [got EXCEPT ![p] = Committed(p)]
      BY <2>2, Zenon DEF ReadPartition
    <3> QED
      BY <1>3, <2>2, <3>1, Zenon DEF Reported
  <2> QED
    BY <2>1, <2>2, ResultWrites, Zenon
<1>5. ASSUME told' = "collected", OnlyFirst'
      PROVE  queued' = {}
  <2>1. OnlyFirst
    BY <1>5, OnlyFirstBefore, Zenon
  <2>2. CASE told = "collected" /\ told # None
    <3>1. queued = {} /\ phase = "done"
      BY <2>1, <2>2, Zenon DEF Reported
    <3>2. \A h \in Handler : ~(job[h] # None /\ job[h].mine /\ job[h].step # "judge")
      BY <3>1, Zenon DEF Sound, ClaimsSound, ClaimedIsThere
    <3>3. ASSUME NEW h \in Handler
          PROVE  /\ ~(MapCommit(h) /\ StillTask(h)) /\ ~(ReduceCommit(h) /\ StillTask(h))
                 /\ ~MapAccepts(h) /\ ~ReduceAccepts(h) /\ ~(Discard(h) /\ StillHeld(h))
                 /\ ~(FanOut(h) /\ StillHeld(h)) /\ ~Completes(h) /\ ~Fails(h)
      BY <3>1, <3>2, Zenon
      DEF MapCommit, ReduceCommit, MapAccepts, MapDoneAccept, ReduceAccepts, ReduceDoneAccept,
          Discard, FanOut, Completes, Finish, Fails, FinishFails, Decides, IsCheck, At, StillTask,
          StillHeld, Terminal
    <3>4. ~(StartRun /\ phase = "none") /\ ~FailNow
      BY <3>1, Zenon DEF FailNow
    <3> QED
      BY <3>1, <3>3, <3>4, QueueGrows, Zenon
  <2>3. CASE Collected
    <3>1. told = "done" /\ told # None /\ Outstanding = {} /\ queued' = queued
      BY <2>3, NoneIsNoDoc, Zenon DEF Collected, taskVars
    <3>2. phase = "done"
      BY <3>1, Zenon DEF Reported
    <3>3. splits = {} /\ Full \subseteq markers
      BY <3>2, Zenon DEF Sound, PhaseSound, Sunk
    <3>4. \A t \in queued : t \in WorkTask
      BY <3>1, Zenon DEF Outstanding
    <3>5. ASSUME NEW t \in queued
          PROVE  FALSE
      <4>1. CASE t \in MapTask
        <5>1. ForSplit(t, t.split) /\ t.split \in Split /\ t \in Open
          BY <4>1, TaskFields, Zenon DEF ForSplit, MapTask, Open
        <5> QED
          BY <2>1, <3>2, <3>3, <5>1, Zenon DEF UnitsLeft
      <4>2. CASE t \in ReduceTask
        <5>1. ForPartition(t, t.part) /\ t.part \in Partition /\ t \in Open
          BY <4>2, TaskFields, Zenon DEF ForPartition, ReduceTask, Open
        <5> QED
          BY <2>1, <3>2, <3>3, <5>1, Zenon DEF UnitsLeft
      <4> QED
        BY <3>4, <4>1, <4>2, Zenon DEF WorkTask
    <3> QED
      BY <3>1, <3>5, Zenon
  <2>4. CASE told = "collected" /\ told = None
    BY <2>4, NoneIsNoDoc, Zenon
  <2> QED
    BY <1>5, <2>2, <2>3, <2>4, ResultWrites, Zenon DEF Wait, Terminal
<1>6. Full' = Full /\ \A p, rs : Whole(p, rs)' <=> Whole(p, rs)
  BY ScenarioStays, Zenon
<1>7. \A p \in Partition : got'[p] # None =>
        IF p \in Full' THEN \E runs \in got'[p] : Whole(p, runs)' ELSE got'[p] = {}
  BY <1>4, <1>6, Zenon
<1> QED
  BY <1>2, <1>4, <1>5, <1>7, Zenon DEF Reported

-----------------------------------------------------------------------------
(* The inductive invariant: where everything is while the run goes on. *)
RunInv ==
  /\ Sound /\ RunsSpent /\ Settled /\ OwnPartition /\ Stored
  /\ ChecksFollow /\ GoesAhead
  /\ Published /\ Merged /\ Staged /\ Sunk
  /\ OneTaskEach /\ UnitsLeft /\ Reported

(* It holds at the start, *)
LEMMA RunInvInit == Init => RunInv
<1>1. SUFFICES ASSUME Init PROVE RunInv
  BY Zenon
<1>2. EmitsType
  BY <1>1, ScenariosFit, Zenon DEF Init, EmitsType
<1>3. JobType /\ TaskType /\ TriesType /\ DocsType /\ SinkType
  BY <1>1, Zenon DEF Init, JobType, TaskType, TriesType, DocsType, SinkType, PhaseNames
<1>4. \A h \in Handler : job[h] = None
  BY <1>1, Zenon DEF Init
<1>5. Sound
  BY <1>1, <1>2, <1>3, <1>4, Zenon
  DEF Init, Sound, RunTypeOK, SeenType, ClaimsSound, StepsFit, NotStarted, ClaimedIsThere,
      ClaimsExclude, StateHeld, AttemptsDiffer, PhaseSound, IsCheck, At
<1>6. RunsSpent /\ Settled /\ OwnPartition /\ Stored
  BY <1>1, <1>4, Zenon DEF Init, RunsSpent, Settled, OwnPartition, Stored, At
<1>7. ChecksFollow /\ GoesAhead
  BY <1>1, <1>4, Zenon DEF Init, ChecksFollow, GoesAhead
<1>8. Published /\ Merged /\ Staged /\ Sunk
  BY <1>1, <1>4, Zenon DEF Init, Published, Merged, Staged, Sunk, At
<1>9. OneTaskEach /\ UnitsLeft
  BY <1>1, <1>4, Zenon DEF Init, OneTaskEach, UnitsLeft
<1>10. Reported
  <2>1. told = None /\ None # "collected" /\ got = [p \in Partition |-> None]
    BY <1>1, NoneIsNoDoc, Zenon DEF Init
  <2>2. got \in [Partition -> (SUBSET (SUBSET Runs)) \cup {None}] /\ \A p \in Partition : got[p] = None
    BY <2>1, Zenon
  <2> QED
    BY <2>1, <2>2, Zenon DEF Reported
<1> QED
  BY <1>5, <1>6, <1>7, <1>8, <1>9, <1>10, Zenon DEF RunInv

(* is kept by every step, *)
LEMMA RunInvKept == RunInv /\ [Next]_vars => RunInv'
BY SoundKept, RunsSpentKept, SettledKept, OwnPartitionKept, StoredKept, ChecksFollowKept,
   GoesAheadKept, PublishedKept, MergedKept, StagedKept, SunkKept, OneTaskEachKept, UnitsLeftKept,
   ReportedKept, Zenon
DEF RunInv

(* and so holds throughout. *)
LEMMA RunInvHolds == Spec => []RunInv
BY RunInvInit, RunInvKept, PTL DEF Spec

(* Whatever mappers, reducers, the controller and the launcher do, and     *)
(* however often they fail or lose their claims, a run that has not ended  *)
(* has a task for all that is left to do.                                  *)
THEOREM RunNeverStalls == Spec => []NeverStalled
<1>1. RunInv => NeverStalled
  BY NotStalled, Zenon DEF RunInv
<1> QED
  BY <1>1, RunInvHolds, PTL

(* The runs that mappers have published stay in the store until the run    *)
(* ends: every abort, collection and retry spares them.                    *)
THEOREM PublishedStaysReadable == Spec => []PublishedReadable
<1>1. RunInv => PublishedReadable
  BY Zenon DEF RunInv, Stored, PublishedReadable, Terminal
<1> QED
  BY <1>1, RunInvHolds, PTL

(* A run that is done has, for each partition with records, a committed    *)
(* output that was merged from one run of every split with records for it. *)
THEOREM OutputIsComplete == Spec => []OutputComplete
<1>1. RunInv => OutputComplete
  BY CompleteOutput, Zenon DEF RunInv, Sound
<1> QED
  BY <1>1, RunInvHolds, PTL

(* What Wait reported stays true, what was read of the output was whole,   *)
(* and after awaitCollection nothing is left to collect unless a backup    *)
(* was at work.                                                            *)
THEOREM ReportsStand == Spec => []ResultsStand
<1>1. RunInv => ResultsStand
  <2>1. SUFFICES ASSUME RunInv PROVE ResultsStand
    BY Zenon
  <2>2. queued = {} => Outstanding = {}
    BY Zenon DEF Outstanding
  <2> QED
    BY <2>1, <2>2, Zenon DEF RunInv, Reported, ResultsStand, OnlyFirst
<1> QED
  BY <1>1, RunInvHolds, PTL
=============================================================================
