------------------------------ MODULE EQSQLite ------------------------------
(***************************************************************************)
(* The SQLite backend (pkg/backend/eqsqlite).  There is one connection     *)
(* that writes, and a call is one transaction on it, from the reading of   *)
(* its clock to its commit: calls happen one after the other.  What becomes*)
(* of the answer is the caller's affair.                                   *)
(***************************************************************************)
EXTENDS Calls

(* A call that has read the clock, and all there is to read. *)
InTransaction(a) ==
    [a EXCEPT !.at = now, !.seen = [tasks |-> tasks, docs |-> docs, locks |-> locks]]

ModifyTx(a, answer) ==
    IF Refused(a.what, tasks, docs, locks, now)
    THEN answer = "dependency" /\ UNCHANGED backendVars
    ELSE answer = "ok" /\ Write(a)

ClaimTx(c, q, answer) ==
    /\ \/ answer = "nothing" /\ Claimable(q.queue, now) = {} /\ UNCHANGED tasks
       \/ /\ answer = "ok"
          /\ \E i \in Claimable(q.queue, now) :
                 tasks' = [tasks EXCEPT ![i] = M!Claimed(@, c, q.duration, now)]
    /\ UNCHANGED <<docs, locks, now>>

ClaimDocsTx(c, a, answer) ==
    /\ IF Takes(c, a, a.seen) THEN answer = "ok" /\ locks' = Taken(c, a, a.seen)
                              ELSE answer = "dependency" /\ UNCHANGED locks
    /\ UNCHANGED <<tasks, docs, now>>

(* The transaction of a call of c, and the answer it comes to. *)
Transaction(c, a, answer) ==
    \/ a.kind = "modify" /\ ModifyTx(InTransaction(a), answer)
    \/ a.kind = "claim" /\ ClaimTx(c, a.what, answer)
    \/ a.kind = "claim docs" /\ ClaimDocsTx(c, InTransaction(a), answer)

(* What the answer carries: the task taken, or the sets with their docs. *)
Carried(a, answer) ==
    CASE answer = "ok" /\ a.kind = "claim" ->
             [Unread EXCEPT !.tasks = [i \in Id |-> IF tasks'[i] # tasks[i] THEN tasks'[i] ELSE NoTask]]
      [] answer = "ok" /\ a.kind = "claim docs" -> Returned(a.what.sets, locks')
      [] OTHER -> Unread

(* collectLocksOnce: locks nobody holds, of sets that count no docs. *)
CollectSQLite ==
    \E G \in SUBSET {g \in Set : locks[g].stored /\ ~D!Held(locks[g], now) /\ locks[g].numDocs = 0} \ {{}} :
        /\ locks' = WithoutLocks(G)
        /\ UNCHANGED <<tasks, docs, now, callVars>>

SQLiteStep(c) ==
    /\ call[c].pc = "asked"
    /\ \E answer \in {"ok", "nothing", "dependency"} :
           /\ Transaction(c, call[c], answer)
           /\ IF answer = "ok" THEN Done(c, Carried(call[c], answer))
                               ELSE Answer(c, answer) /\ UNCHANGED faults
=============================================================================
