------------------------------ MODULE EQRedis ------------------------------
(***************************************************************************)
(* The Redis backend (pkg/backend/eqredis).                                *)
(*                                                                         *)
(* A modification watches the keys it names, reads them one by one while   *)
(* others write, judges what it read, and queues all its writes in one     *)
(* MULTI, which is executed unless a watched key was written since; then   *)
(* it starts over.  Claiming a task and collecting a lock are scripts,     *)
(* which run alone.  Beside a task's hash every write keeps three sorted   *)
(* sets per queue, from which tasks are claimed and statistics are taken.  *)
(* (The lists of queue and namespace names are left out.)                  *)
(***************************************************************************)
EXTENDS Calls

CONSTANT MaxClaimRetries  \* how often a doc claim whose watch fires is run

VARIABLES
    index,  \* per queue: tasks by arrival, the claimed by arrival, and by claims
    fired   \* the clients a watched key of whom has been written

redisVars == <<index, fired>>

(* The sorted sets of the tasks stored at the start. *)
RedisInit ==
    /\ index = [queue |-> [q \in Queue |-> {<<i, tasks[i].at>> : i \in InQueue(q)}],
                claimed |-> [q \in Queue |-> {<<i, tasks[i].at>> :
                                i \in {j \in InQueue(q) : tasks[j].claims > 0 /\ tasks[j].at > now}}],
                claims |-> [q \in Queue |-> {<<i, tasks[i].claims>> :
                                i \in {j \in InQueue(q) : tasks[j].claims > 0}}]]
    /\ fired = {}

ZRem(z, i) == {p \in z : p[1] # i}
ZAdd(z, i, score) == ZRem(z, i) \cup {<<i, score>>}

(* A key is written: the watch of everyone else who watches it fires. *)
Fire(c, keys) == fired' = (fired \ {c}) \cup {d \in Claimant \ {c} : call[d].watch \cap keys # {}}

-----------------------------------------------------------------------------

(* modifyOnce reads its clock and watches the tasks and docs it names and  *)
(* the locks of the sets it inserts into.                                  *)
WatchKeys(c) ==
    LET m == call[c].what
        taskKeys == Rows("task", M!Ids(M!Ops(m.task)))
        docKeys == Rows("doc", M!Ids(D!DocOps(m.docs)))
    IN  /\ call[c].pc = "asked"
        /\ call[c].kind = "modify"
        /\ call' = [call EXCEPT ![c].pc = "reads", ![c].at = now,
                        ![c].watch = taskKeys \cup docKeys \cup Rows("set", {o.set : o \in m.docs.inserts}),
                        ![c].todo = InKeyOrder(taskKeys) \o InKeyOrder(docKeys)]
        /\ fired' = fired \ {c}
        /\ UNCHANGED <<backendVars, faults, index>>

(* A command of a pipeline. *)
ReadKey(c) ==
    /\ call[c].todo # <<>>
    /\ call' = [call EXCEPT ![c].seen = Read(@, Head(call[c].todo)), ![c].todo = Tail(@)]
    /\ UNCHANGED <<backendVars, faults, redisVars>>

(* readLocks reads each lock, and counts the docs of its set. *)
LockReads(G) ==
    LET order == SetToSortSeq(G, LAMBDA g, h : g < h)
    IN  FlattenSeq([k \in DOMAIN order |-> << <<"set", order[k]>>, <<"count", order[k]>> >>])

WatchNoSets(c) ==
    LET sets == Sets(call[c].what.docs, call[c].seen.docs)
    IN  /\ call[c].pc = "reads"
        /\ call[c].todo = <<>>
        /\ call' = [call EXCEPT ![c].pc = "locks", ![c].todo = LockReads(sets)]
        /\ UNCHANGED <<backendVars, faults, redisVars>>

(* The docs say which other sets there are; their locks are watched too. *)
WatchSets(c) ==
    LET sets == Sets(call[c].what.docs, call[c].seen.docs)
    IN  /\ call[c].pc = "reads"
        /\ call[c].todo = <<>>
        /\ call' = [call EXCEPT ![c].pc = "locks", ![c].watch = @ \cup Rows("set", sets),
                                ![c].todo = LockReads(sets)]
        /\ UNCHANGED <<backendVars, faults, redisVars>>

(* Then the docs in the places its inserts want are looked up. *)
FindOccupants(c) ==
    LET docsNamed == M!Ids(D!DocOps(call[c].what.docs))
    IN  /\ call[c].pc = "locks"
        /\ call[c].todo = <<>>
        /\ call' = [call EXCEPT ![c].pc = "occupants",
                                ![c].todo = InKeyOrder(Rows("doc", InPlaces(call[c].what.docs) \ docsNamed))]
        /\ UNCHANGED <<backendVars, faults, redisVars>>

(* What becomes of the sorted sets when the task i is deleted from q,      *)
(* changed from old to new by a writer whose clock says at, or inserted.   *)
Unindexed(ix, i, q) ==
    [queue |-> [ix.queue EXCEPT ![q] = ZRem(@, i)],
     claimed |-> [ix.claimed EXCEPT ![q] = ZRem(@, i)],
     claims |-> [ix.claims EXCEPT ![q] = ZRem(@, i)]]

ReindexedInPlace(ix, i, old, new, at) ==
    LET q == new.queue
    IN  [queue |-> [ix.queue EXCEPT ![q] = ZAdd(@, i, new.at), ![old.queue] = IF q = old.queue THEN @ ELSE ZRem(@, i)],
         claims |-> ix.claims,
         claimed |-> [ix.claimed EXCEPT ![q] = IF new.at > at /\ new.claims > 0 THEN ZAdd(@, i, new.at)
                                               ELSE ZRem(@, i)]]

Reindexed(ix, i, old, new, at) ==
    LET q == new.queue
        moved == q # old.queue
        left == IF moved THEN Unindexed(ix, i, old.queue) ELSE ix
    IN  [queue |-> [left.queue EXCEPT ![q] = ZAdd(@, i, new.at)],
         claims |-> [left.claims EXCEPT ![q] = IF moved /\ new.claims > 0 THEN ZAdd(@, i, new.claims)
                                               ELSE IF new.claims = 0 THEN ZRem(@, i)
                                               ELSE @],
         claimed |-> [left.claimed EXCEPT ![q] = IF new.at > at /\ new.claims > 0 THEN ZAdd(@, i, new.at)
                                                 ELSE ZRem(@, i)]]

IndexAfter(a, ts) ==
    LET one(i, ix) ==
            IF i \in M!Ids(a.what.task.deletes) THEN Unindexed(ix, i, a.seen.tasks[i].queue)
            ELSE IF i \in M!Ids(a.what.task.inserts)
            THEN [ix EXCEPT !.queue[ts[i].queue] = ZAdd(@, i, ts[i].at)]
            ELSE Reindexed(ix, i, a.seen.tasks[i], ts[i], a.at)
    IN  FoldSet(one, index, TasksWritten(a.what))

(* What it has read, it judges. *)
Judges(a) == Refused(a.what, a.seen.tasks, a.seen.docs, a.seen.locks, a.at)

(* Having read all it asked for, it judges that; a refusal is final.  Its  *)
(* writes happen together, or it starts over.                              *)
Exec(c) ==
    LET a == call[c]
        m == a.what
    IN  /\ a.pc = "occupants"
        /\ a.todo = <<>>
        /\ IF Judges(a)
           THEN Answer(c, "dependency") /\ UNCHANGED <<backendVars, faults, redisVars>>
           ELSE IF c \in fired
           THEN call' = [call EXCEPT ![c] = StartOver(@)] /\ UNCHANGED <<backendVars, faults, redisVars>>
           ELSE /\ Write(a)
                /\ index' = IndexAfter(a, tasks')
                /\ Fire(c, Rows("task", TasksWritten(m)) \cup Rows("doc", DocsWritten(m))
                           \cup Rows("set", SetsWritten(a)))
                /\ Done(c, Unread)

-----------------------------------------------------------------------------

(* TryClaim reads its clock and sends the script. *)
SendClaim(c) ==
    /\ call[c].pc = "asked"
    /\ call[c].kind = "claim"
    /\ call' = [call EXCEPT ![c].pc = "script", ![c].at = now]
    /\ UNCHANGED <<backendVars, faults, redisVars>>

(* The script takes a task the queue's sorted set has as arrived, and      *)
(* drops from it those it meets that are no longer there.                  *)
ClaimScript(c) ==
    LET a == call[c]
        q == a.what.queue
        arrived == {p[1] : p \in {r \in index.queue[q] : r[2] <= a.at}}
        stale == {i \in arrived : tasks[i] = NoTask}
        without(met) == {p \in index.queue[q] : p[1] \notin met}
    IN  /\ a.pc = "script"
        /\ \/ /\ arrived = stale
              /\ index' = [index EXCEPT !.queue[q] = without(stale)]
              /\ Answer(c, "nothing")
              /\ UNCHANGED <<tasks, faults, fired>>
           \/ \E i \in arrived \ stale, met \in SUBSET stale :
                  LET t == M!Claimed(tasks[i], c, a.what.duration, a.at)
                  IN  /\ tasks' = [tasks EXCEPT ![i] = t]
                      /\ index' = [queue |-> [index.queue EXCEPT ![q] = ZAdd(without(met), i, t.at)],
                                   claimed |-> [index.claimed EXCEPT ![q] = ZAdd(@, i, t.at)],
                                   claims |-> [index.claims EXCEPT ![q] = ZAdd(@, i, t.claims)]]
                      /\ Fire(c, {<<"task", i>>})
                      /\ Done(c, [Unread EXCEPT !.tasks[i] = t])
        /\ UNCHANGED <<docs, locks, now>>

-----------------------------------------------------------------------------

(* ClaimDocs watches the locks, and reads them and the task it is to       *)
(* match, which it does not watch.                                         *)
WatchClaim(c) ==
    LET q == call[c].what
    IN  /\ call[c].pc = "asked"
        /\ call[c].kind = "claim docs"
        /\ call' = [call EXCEPT ![c].pc = "claim reads", ![c].at = now, ![c].watch = Rows("set", q.sets),
                        ![c].todo = LockReads(q.sets)
                                    \o (IF "match" \in DOMAIN q THEN << <<"task", q.match.id>> >> ELSE <<>>)]
        /\ fired' = fired \ {c}
        /\ UNCHANGED <<backendVars, faults, index>>

ExecClaim(c) ==
    LET a == call[c]
    IN  /\ a.pc = "claim reads"
        /\ a.todo = <<>>
        /\ IF ~Takes(c, a, a.seen) THEN Answer(c, "dependency") /\ UNCHANGED <<locks, fired>>
           ELSE IF c \in fired
           THEN /\ IF a.tries + 1 < MaxClaimRetries THEN call' = [call EXCEPT ![c] = StartOver(@)]
                   ELSE Answer(c, "failed")
                /\ UNCHANGED <<locks, fired>>
           ELSE /\ locks' = Taken(c, a, a.seen)
                /\ Fire(c, Rows("set", a.what.sets))
                /\ call' = [call EXCEPT ![c].pc = "claimed", ![c].watch = {}, ![c].writes = @ + 1,
                                ![c].seen = [Unread EXCEPT !.locks =
                                    [g \in Set |-> IF g \in a.what.sets THEN locks'[g] ELSE D!Absent]]]
        /\ UNCHANGED <<tasks, docs, now, faults, index>>

(* The docs of the sets are listed, and read, once they are claimed. *)
ListMembers(c) ==
    /\ call[c].pc = "claimed"
    /\ call' = [call EXCEPT ![c].pc = "members",
                            ![c].todo = InKeyOrder(Rows("doc", UNION {D!Members(docs, g) : g \in call[c].what.sets}))]
    /\ UNCHANGED <<backendVars, faults, redisVars>>

ReturnSets(c) ==
    /\ call[c].pc = "members"
    /\ call[c].todo = <<>>
    /\ call' = [call EXCEPT ![c] = [Answered(@, "ok") EXCEPT !.seen = call[c].seen]]
    /\ UNCHANGED <<backendVars, faults, redisVars>>

(* The script that collects a lock nobody holds, of a set without docs. *)
CollectLockScript ==
    \E g \in Set :
        /\ locks[g].stored /\ ~D!Held(locks[g], now) /\ D!Members(docs, g) = {}
        /\ locks' = WithoutLocks({g})
        /\ fired' = fired \cup {d \in Claimant : <<"set", g>> \in call[d].watch}
        /\ UNCHANGED <<tasks, docs, now, callVars, index>>

RedisStep(c) ==
    \/ WatchKeys(c) \/ ReadKey(c) \/ WatchSets(c) \/ FindOccupants(c) \/ Exec(c)
    \/ SendClaim(c) \/ ClaimScript(c)
    \/ WatchClaim(c) \/ ExecClaim(c) \/ ListMembers(c) \/ ReturnSets(c)

-----------------------------------------------------------------------------

(* What QueueStats counts, from the sorted sets alone. *)
RedisQueueStats(q) ==
    LET size == Cardinality(index.queue[q])
        available == Cardinality({p \in index.queue[q] : p[2] <= now})
        claimed == Cardinality({p \in index.claimed[q] : p[2] > now})
    IN  [size |-> size, available |-> available, claimed |-> claimed,
         future |-> Max({size - available - claimed, 0}),
         maxClaims |-> Max({p[2] : p \in index.claims[q]} \cup {0})]
=============================================================================
