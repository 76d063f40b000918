------------------------------- MODULE Calls -------------------------------
(***************************************************************************)
(* Calls of a backend under way: what each client asked, how far the       *)
(* backend is with it, and what it answered.  The backends EQPg, EQRedis   *)
(* and EQSQLite say how a call gets from its start to its answer.          *)
(***************************************************************************)
EXTENDS Backend, Sequences, SequencesExt

CONSTANTS
    Claims,     \* the task claims clients may make: a queue and a duration
    DocClaims,  \* the doc claims of each: the sets, and a hold or a task to match
    MaxFaults   \* bound: how many calls are cut short

VARIABLES
    call,   \* the call of each client
    faults  \* how many calls have been cut short

callVars == <<call, faults>>

(* Nothing read yet, of tasks, docs and set locks. *)
Unread == [tasks |-> [i \in Id |-> NoTask], docs |-> [i \in DocId |-> NoDoc],
           locks |-> [g \in Set |-> D!Absent]]

(* A client's call: what it asks, how far it is, the clock it judges by,   *)
(* what it has read, the rows it still has to lock or read, those it has   *)
(* locked, the keys it watches, and the answer.  The count of its writes,  *)
(* and the sets it was given the docs of before, are history.              *)
Call(pc, kind, what) ==
    [pc |-> pc, kind |-> kind, what |-> what, at |-> now, seen |-> Unread, tries |-> 0,
     todo |-> <<>>, update |-> {}, share |-> {}, watch |-> {},
     answer |-> "none", writes |-> 0, given |-> {}]

NoCall == Call("idle", "none", "none")

CallInit == call = [c \in Claimant |-> NoCall] /\ faults = 0

Underway(c) == call[c].pc \notin {"idle", "answered"}

(* The tasks and docs a call returned. *)
GivenTasks(seen) == {i \in Id : seen.tasks[i] # NoTask}
GivenDocs(seen) == {i \in DocId : seen.docs[i] # NoDoc}

(* What removes all that a call returned, as the collectors do with what   *)
(* they claim: tasks by the version claimed, docs by that of their set.    *)
Removal(c, seen) ==
    [task |-> [claimant |-> c, inserts |-> {}, changes |-> {}, depends |-> {}, arrives |-> {},
               deletes |-> {[id |-> i, version |-> seen.tasks[i].version, queue |-> seen.tasks[i].queue] :
                            i \in GivenTasks(seen)}],
     docs |-> [claimant |-> c, inserts |-> {}, changes |-> {}, depends |-> {}, setDepends |-> {},
               arrives |-> {},
               deletes |-> {[id |-> i, version |-> seen.locks[seen.docs[i].set].version] :
                            i \in GivenDocs(seen)}]]

(* The client asks the backend; a modification carries its own claimant.   *)
(* Having claimed something, the client may go on to remove it.            *)
Ask(c, requests) ==
    /\ \/ /\ call[c].pc = "idle"
          /\ \/ \E m \in requests : /\ m.task.claimant = c
                                    /\ call' = [call EXCEPT ![c] = Call("asked", "modify", m)]
             \/ \E q \in Claims : call' = [call EXCEPT ![c] = Call("asked", "claim", q)]
             \/ \E q \in DocClaims[c] : call' = [call EXCEPT ![c] = Call("asked", "claim docs", q)]
       \/ /\ call[c].pc = "answered"
          /\ GivenTasks(call[c].seen) # {} \/ GivenDocs(call[c].seen) # {}
          /\ call' = [call EXCEPT ![c] = [Call("asked", "modify", Removal(c, @.seen)) EXCEPT
                             !.given = {call[c].seen.docs[i].set : i \in GivenDocs(call[c].seen)}]]
    /\ UNCHANGED <<backendVars, faults>>

(* A call starts over: it lets go of all it held and forgets what it read. *)
StartOver(a) ==
    [Call("asked", a.kind, a.what) EXCEPT !.tries = a.tries + 1, !.writes = a.writes, !.given = a.given]

(* A call is answered, and lets go of what it held. *)
Answered(a, answer) ==
    [Call("answered", a.kind, a.what) EXCEPT !.at = 0, !.answer = answer, !.writes = a.writes]

Answer(c, answer) == call' = [call EXCEPT ![c] = Answered(@, answer)]

DoneOrAgain(c, seen) ==
    \/ /\ call' = [call EXCEPT ![c] = [Answered(@, "ok") EXCEPT !.writes = @ + 1, !.seen = seen]]
       /\ UNCHANGED faults
    \/ /\ faults < MaxFaults
       /\ faults' = faults + 1
       /\ call' = [call EXCEPT ![c] = [StartOver(@) EXCEPT !.writes = @ + 1]]

(* A call has its effect, and the answer is success; or the connection is  *)
(* lost, or the caller gives up, before the answer comes.                  *)
Done(c, seen) ==
    LET done == [Answered(call[c], "ok") EXCEPT !.writes = @ + 1, !.seen = seen]
    IN  \/ call' = [call EXCEPT ![c] = done] /\ UNCHANGED faults
        \/ /\ faults < MaxFaults
           /\ faults' = faults + 1
           /\ call' = [call EXCEPT ![c] = [done EXCEPT !.answer = "cut short", !.seen = Unread]]

(* The same at any other point after it began: what it has not committed   *)
(* is undone.                                                              *)
CutShort(c) ==
    /\ Underway(c)
    /\ call[c].pc # "asked"
    /\ faults < MaxFaults
    /\ faults' = faults + 1
    /\ Answer(c, "cut short")
    /\ UNCHANGED backendVars

-----------------------------------------------------------------------------

(* A row or key is known by its table and its key there. *)
Rows(table, keys) == {<<table, k>> : k \in keys}

InKeyOrder(rows) == SetToSortSeq(rows, LAMBDA r, s : r[2] < s[2])

(* What a call has seen once it has read a row. *)
Read(seen, r) ==
    CASE r[1] = "task" -> [seen EXCEPT !.tasks[r[2]] = tasks[r[2]]]
      [] r[1] = "doc"  -> [seen EXCEPT !.docs[r[2]] = docs[r[2]]]
      [] r[1] = "set"  -> [seen EXCEPT !.locks[r[2]] = locks[r[2]]]
      [] r[1] = "count" -> [seen EXCEPT !.locks[r[2]].numDocs = Cardinality(D!Members(docs, r[2]))]

(* The sets a doc modification names, by its docs as read, and those of    *)
(* them it writes.                                                         *)
StoredSets(ops, ds) == {ds[o.id].set : o \in {p \in ops : ds[p.id] # NoDoc}}

Exclusive(m, ds) ==
    {o.set : o \in m.inserts \cup m.arrives} \cup StoredSets(m.changes \cup m.deletes, ds)

Sets(m, ds) == Exclusive(m, ds) \cup {o.set : o \in m.setDepends} \cup StoredSets(m.depends, ds)

(* The docs found in the places the inserts want. *)
InPlaces(m) ==
    {i \in DocId : docs[i] # NoDoc /\ \E o \in m.inserts : docs[i].set = o.set /\ docs[i].place = o.place}

(* The sets a modification writes. *)
SetsWritten(a) == D!Writes(a.what.docs, a.seen.docs)

(* It writes as it has worked out from what it has seen. *)
Write(a) ==
    LET m == a.what
    IN  /\ tasks' = [i \in Id |-> IF i \in TasksWritten(m)
                                  THEN Store(a.seen.tasks, a.at)!Applied(m.task)[i] ELSE tasks[i]]
        /\ docs' = [i \in DocId |-> IF i \in DocsWritten(m)
                                    THEN D!DocsAfter(m.docs, a.seen.docs, a.seen.locks)[i] ELSE docs[i]]
        /\ locks' = [g \in Set |-> IF g \in SetsWritten(a)
                                   THEN D!Planned(m.docs, g, a.at, a.seen.docs, a.seen.locks)
                                   ELSE locks[g]]
        /\ UNCHANGED now

(* A doc claim may name a task to match, which has to be there at the      *)
(* version and in the queue named; the claim then lasts as long as the     *)
(* task's does.                                                            *)
Matchable(q, ts) ==
    "match" \in DOMAIN q =>
        LET t == ts[q.match.id]
        IN  t # NoTask /\ t.version = q.match.version /\ t.queue = q.match.queue

HoldUntil(q, at, ts) == IF "match" \in DOMAIN q THEN ts[q.match.id].at ELSE at + q.hold

(* A doc claim can take its sets, by what it has seen of them. *)
Takes(c, a, seen) ==
    Matchable(a.what, seen.tasks) /\ D!ClaimAll(a.what.sets, c, a.at, HoldUntil(a.what, a.at, seen.tasks), seen.locks)

(* The locks it leaves. *)
Taken(c, a, seen) ==
    [g \in Set |-> IF g \in a.what.sets
                   THEN D!Claim(seen.locks[g], c, HoldUntil(a.what, a.at, seen.tasks)) ELSE locks[g]]

(* What a doc claim returns: the sets at their new locks, with their docs. *)
Returned(G, ls) ==
    [Unread EXCEPT !.docs = [i \in DocId |-> IF docs[i] # NoDoc /\ docs[i].set \in G THEN docs[i] ELSE NoDoc],
                   !.locks = [g \in Set |-> IF g \in G THEN ls[g] ELSE D!Absent]]

-----------------------------------------------------------------------------

(* A call answered with success has had its effect exactly once; one       *)
(* answered with an error, or with nothing to claim, has had none: a       *)
(* deadlock retried, a watch that fired, a transaction rolled back leave   *)
(* nothing behind.  (Of one cut short nothing is known.)                   *)
AnswersAreTrue ==
    \A c \in Claimant : call[c].pc = "answered" =>
        /\ call[c].answer = "ok" => call[c].writes = 1
        /\ call[c].answer \in {"dependency", "nothing", "denied", "unsupported"} => call[c].writes = 0
        /\ call[c].writes <= 1
=============================================================================
