-------------------------------- MODULE EQPg --------------------------------
(***************************************************************************)
(* The PostgreSQL backend (pkg/backend/eqpg: pg.go, doclocks.go, the       *)
(* functions of schema.sql).                                               *)
(*                                                                         *)
(* A modification is one READ COMMITTED transaction of several statements, *)
(* and a statement locks its rows one by one: the tasks it gives arrivals, *)
(* the docs it names, the locks of their sets, the docs in the places its  *)
(* inserts want, and the tasks it depends on.  What it reads of a row it   *)
(* reads with the row locked.  What it writes is seen when it commits,     *)
(* with every lock let go.  Of transactions that wait for each other the   *)
(* server aborts one, which is tried again.                                *)
(***************************************************************************)
EXTENDS Calls

CONSTANT MaxTries  \* how often a transaction the server aborted is run

(* Those whose transaction keeps c's from locking the row as it wants to. *)
Holders(c, r, exclusive) ==
    {d \in Claimant \ {c} : r \in call[d].update \/ (exclusive /\ r \in call[d].share)}

TasksThere(keys) == {i \in keys : tasks[i] # NoTask}
DocsThere(keys) == {i \in keys : docs[i] # NoDoc}

HasDocs(m) == D!DocOps(m) \cup m.setDepends \cup m.arrives # {}

(* The tasks a modification checks: all it names, but for its inserts. *)
Checked(m) == M!Ids(M!Changes(m) \cup m.deletes \cup m.depends)

(* The rows each statement of a modification locks, in the order it does,  *)
(* out of those its snapshot shows; _check_task_deps states no order.  An  *)
(* insert waits for whoever is inserting the same key.                     *)
Statement(stage, m, seen) ==
    CASE stage = "arrives"   -> {InKeyOrder(Rows("task", TasksThere(M!Ids(m.task.arrives))))}
      [] stage = "members"   -> {InKeyOrder(Rows("doc", DocsThere(M!Ids(D!DocOps(m.docs)))))}
      [] stage = "sets"      -> {InKeyOrder(Rows("set", Sets(m.docs, seen.docs)))}
      [] stage = "occupants" -> {InKeyOrder(Rows("doc", InPlaces(m.docs)))}
      [] stage = "doc writes" -> {InKeyOrder(Rows("doc", M!Ids(m.docs.inserts)))}
      [] stage \in {"checks", "report"} -> SetToSeqs(Rows("task", TasksThere(Checked(m.task))))
      [] stage = "inserts"   -> SetToSeqs(Rows("task", M!Ids(m.task.inserts)))

(* The transaction goes on to a statement. *)
Goes(c, stage) ==
    \E rows \in Statement(stage, call[c].what, call[c].seen) :
        call' = [call EXCEPT ![c].pc = stage, ![c].todo = rows]

(* BEGIN: the transaction's now() is fixed for all of it. *)
BeginModify(c) ==
    /\ call[c].pc = "asked"
    /\ call[c].kind = "modify"
    /\ \E rows \in Statement("arrives", call[c].what, Unread) :
           call' = [call EXCEPT ![c].pc = "arrives", ![c].todo = rows, ![c].at = now]
    /\ UNCHANGED <<backendVars, faults>>

There(r) ==
    CASE r[1] = "task" -> tasks[r[2]] # NoTask
      [] r[1] = "doc"  -> docs[r[2]] # NoDoc
      [] r[1] = "set"  -> locks[r[2]].stored

(* A row is locked for update, but for the lock of a set that is depended  *)
(* on and not written.  A row that has gone in the meantime is passed      *)
(* over, and one that is to be inserted is locked all the same.            *)
Creates(c, r) ==
    \/ call[c].pc \in {"doc writes", "inserts"}
    \/ r[1] = "set" /\ (call[c].kind = "claim docs"
                        \/ r[2] \in Exclusive(call[c].what.docs, call[c].seen.docs))

LocksExclusively(c, r) == r[1] # "set" \/ Creates(c, r)

LockRow(c) ==
    LET r == Head(call[c].todo)
        rest == [call[c] EXCEPT !.todo = Tail(@)]
    IN  /\ call[c].todo # <<>>
        /\ IF ~There(r) /\ ~Creates(c, r)
           THEN call' = [call EXCEPT ![c] = rest]
           ELSE /\ Holders(c, r, LocksExclusively(c, r)) = {}
                /\ call' = [call EXCEPT ![c] =
                       IF LocksExclusively(c, r)
                       THEN [rest EXCEPT !.update = @ \cup {r}, !.seen = Read(@, r)]
                       ELSE [rest EXCEPT !.share = @ \cup {r}, !.seen = Read(@, r)]]
        /\ UNCHANGED <<backendVars, faults>>

(* What _check_task_deps judges: the rows it locked, and whatever is under *)
(* an inserted ID, which it does not lock.                                 *)
Judged(c) ==
    [i \in Id |-> IF i \in M!Ids(call[c].what.task.inserts) THEN tasks[i] ELSE call[c].seen.tasks[i]]

(* modifyDocs, once a statement of its has all its rows: members, set      *)
(* locks, occupants, then the verdict on the docs, and the doc inserts.  A *)
(* refusal is reported together with that of the tasks.                    *)
ModifyDocs(c) ==
    LET a == call[c]
        refused == D!Refused(a.what.docs, a.at, a.seen.docs, a.seen.locks)
        collided == \E o \in a.what.docs.inserts : a.seen.docs[o.id] # NoDoc
    IN  /\ \/ a.pc = "members" /\ Goes(c, "sets")
           \/ a.pc = "sets" /\ Goes(c, "occupants")
           \/ a.pc = "occupants" /\ Goes(c, IF refused THEN "report" ELSE "doc writes")
           \/ a.pc = "doc writes" /\ Goes(c, IF collided THEN "report" ELSE "checks")
           \/ a.pc = "report" /\ Answer(c, "dependency")
        /\ UNCHANGED <<backendVars, faults>>

CheckTaskDeps(c) ==
    /\ call[c].pc = "checks"
    /\ IF TasksRefused(call[c].what, Judged(c), call[c].at) THEN Answer(c, "dependency") ELSE Goes(c, "inserts")
    /\ UNCHANGED <<backendVars, faults>>

(* _modify_arrays, and the commit: a key inserted since the checks is an   *)
(* error of the server's.                                                  *)
ModifyArrays(c) ==
    LET a == call[c]
    IN  /\ a.pc = "inserts"
        /\ IF \E o \in a.what.task.inserts : a.seen.tasks[o.id] # NoTask
           THEN Answer(c, "failed") /\ UNCHANGED <<backendVars, faults>>
           ELSE Write(a) /\ Done(c, Unread)

(* A statement has all its rows; modify goes on to the next one. *)
NextStatement(c) ==
    /\ call[c].kind = "modify"
    /\ call[c].todo = <<>>
    /\ \/ /\ call[c].pc = "arrives"
          /\ Goes(c, IF HasDocs(call[c].what.docs) THEN "members" ELSE "checks")
          /\ UNCHANGED <<backendVars, faults>>
       \/ ModifyDocs(c) \/ CheckTaskDeps(c) \/ ModifyArrays(c)

-----------------------------------------------------------------------------

(* Whom c waits for, and whether it is one of a circle of waiters. *)
WaitsFor(c) ==
    IF call[c].todo = <<>> \/ (~There(Head(call[c].todo)) /\ ~Creates(c, Head(call[c].todo))) THEN {}
    ELSE Holders(c, Head(call[c].todo), LocksExclusively(c, Head(call[c].todo)))

InCircle(c) ==
    \E S \in SUBSET Claimant :
        /\ c \in S
        /\ \A d \in S : WaitsFor(d) \cap S # {} /\ \E e \in S : d \in WaitsFor(e)

(* The server aborts one of the circle.  modify is run again, with a new   *)
(* transaction, until the tries are used up, and then answered with a      *)
(* dependency error that names nothing; a doc claim just fails; one that   *)
(* was only collecting what to report reports what it has.                 *)
AbortDeadlocked(c) ==
    /\ InCircle(c)
    /\ IF call[c].pc = "report" THEN Answer(c, "dependency")
       ELSE IF call[c].kind = "claim docs" THEN Answer(c, "failed")
       ELSE IF call[c].tries + 1 < MaxTries THEN call' = [call EXCEPT ![c] = StartOver(@)]
       ELSE Answer(c, "gave up")
    /\ UNCHANGED <<backendVars, faults>>

-----------------------------------------------------------------------------

(* try_claim: one statement, with one now(), that takes an available task  *)
(* no transaction has locked.                                              *)
BeginClaim(c) ==
    /\ call[c].pc = "asked"
    /\ call[c].kind = "claim"
    /\ call' = [call EXCEPT ![c].pc = "claiming", ![c].at = now]
    /\ UNCHANGED <<backendVars, faults>>

Unlocked(q, at) == {i \in Claimable(q, at) : \A d \in Claimant : <<"task", i>> \notin call[d].update}

TakeTask(c) ==
    LET a == call[c]
    IN  /\ a.pc = "claiming"
        /\ \/ /\ Unlocked(a.what.queue, a.at) = {}
              /\ Answer(c, "nothing")
              /\ UNCHANGED <<dataVars, faults>>
           \/ \E i \in Unlocked(a.what.queue, a.at) :
                  /\ tasks' = [tasks EXCEPT ![i] = M!Claimed(@, c, a.what.duration, a.at)]
                  /\ Done(c, [Unread EXCEPT !.tasks[i] = tasks'[i]])
                  /\ UNCHANGED <<docs, locks>>
        /\ UNCHANGED now

(* ClaimDocs: one transaction, which locks the locks of all the sets.  The *)
(* task a claim is to match is read, and not locked.                       *)
BeginDocClaim(c) ==
    /\ call[c].pc = "asked"
    /\ call[c].kind = "claim docs"
    /\ call' = [call EXCEPT ![c].pc = "claim sets", ![c].at = now,
                            ![c].todo = InKeyOrder(Rows("set", call[c].what.sets))]
    /\ UNCHANGED <<backendVars, faults>>

FinishDocClaim(c) ==
    LET a == call[c]
        seen == [a.seen EXCEPT !.tasks = tasks]
    IN  /\ a.pc = "claim sets"
        /\ a.todo = <<>>
        /\ IF Takes(c, a, seen)
           THEN locks' = Taken(c, a, seen) /\ Done(c, Returned(a.what.sets, locks'))
           ELSE Answer(c, "dependency") /\ UNCHANGED <<locks, faults>>
        /\ UNCHANGED <<tasks, docs, now>>

(* collectLocksOnce: the locks of sets that count no docs, are not held,   *)
(* and that no transaction has locked.                                     *)
CollectPg ==
    \E G \in SUBSET {g \in Set : /\ locks[g].stored /\ ~D!Held(locks[g], now) /\ locks[g].numDocs = 0
                                 /\ \A d \in Claimant : <<"set", g>> \notin call[d].update \cup call[d].share} \ {{}} :
        /\ locks' = WithoutLocks(G)
        /\ UNCHANGED <<tasks, docs, now, callVars>>

PgStep(c) ==
    \/ BeginModify(c) \/ LockRow(c) \/ NextStatement(c) \/ AbortDeadlocked(c)
    \/ BeginClaim(c) \/ TakeTask(c) \/ BeginDocClaim(c) \/ FinishDocClaim(c)
=============================================================================
