------------------------------ MODULE Handoff ------------------------------
(***************************************************************************)
(* Workers by what they run: handlers of any kind, as Worker has them, or  *)
(* the handler of the handoff worker (pkg/workers/handoffworker), which    *)
(* moves tasks from this instance of EntroQ to another one.                *)
(*                                                                         *)
(* For each task it inserts, in one modification of the destination, a     *)
(* copy into an inbox and a tombstone whose ID is made from the task's.    *)
(* The worker then deletes the task, and at last the tombstone, which is   *)
(* there to stop a second delivery of a task that was not deleted yet.     *)
(*                                                                         *)
(* A delivery the worker no longer waits for, because the call failed or   *)
(* the worker crashed, may still reach the destination, at any time.       *)
(***************************************************************************)
EXTENDS Worker

VARIABLES
    handler,  \* "any" or "handoff"
    copies,   \* the destination: how many copies of each task its inbox was given
    tomb,     \* the destination: each task's tombstone
    answer,   \* what the destination told each worker's handler
    after,    \* the tombstone an OnSuccess step is still to delete
    astray,   \* deliveries under way that no one waits for
    late,     \* history: a delivery arrived after its claim was succeeded
    early     \* history: a tombstone was collected while its task was there

handoffVars == <<copies, tomb, answer, after, astray, late, early>>
allVars == <<vars, handler, handoffVars>>

NoTomb == [by |-> NoOne, due |-> FALSE]

HandoffInit ==
    /\ WorkerInit
    /\ handler \in {"any", "handoff"}
    /\ copies = [i \in Id |-> 0]
    /\ tomb = [i \in Id |-> NoTomb]
    /\ answer = [w \in Worker |-> "none"]
    /\ after = [w \in Worker |-> {}]
    /\ astray = {}
    /\ late = [i \in Id |-> FALSE]
    /\ early = [i \in Id |-> FALSE]

-----------------------------------------------------------------------------
(* The destination. *)

(* The delivery a worker is busy with, and the run of the handler it is of. *)
Delivery(w) == [id |-> cur[w].id, by |-> w, run |-> runs[cur[w].id]]

CollidesNever(d) == FALSE

(* The tombstone is there, and its insertion collides. *)
Collides(d) == tomb[d.id] # NoTomb

Succeeded(d) == runs[d.id] # d.run \/ tasks[d.id] = NoTask

(* Both insertions, or neither. *)
InsertBoth(d) ==
    IF Collides(d) THEN UNCHANGED <<copies, tomb, late>>
    ELSE /\ copies' = [copies EXCEPT ![d.id] = @ + 1]
         /\ tomb' = [tomb EXCEPT ![d.id] = [by |-> d.by, due |-> FALSE]]
         /\ late' = [late EXCEPT ![d.id] = @ \/ Succeeded(d)]

(* A tombstone's time, TTL after its insertion, comes. *)
FallDue(i) ==
    /\ tomb[i] # NoTomb /\ ~tomb[i].due
    /\ tomb' = [tomb EXCEPT ![i].due = TRUE]
    /\ UNCHANGED <<vars, copies, answer, after, astray, late, early>>

(* The destination's collector finds it in the graveyard. *)
Collect(i) ==
    /\ tomb[i].due
    /\ tomb' = [tomb EXCEPT ![i] = NoTomb]
    /\ early' = [early EXCEPT ![i] = @ \/ tasks[i] # NoTask]
    /\ UNCHANGED <<vars, copies, answer, after, astray, late>>

Arrive(d) ==
    /\ InsertBoth(d)
    /\ astray' = astray \ {d}
    /\ UNCHANGED <<vars, answer, after, early>>

-----------------------------------------------------------------------------
(* The handler. *)

Told(w, what) == answer' = [answer EXCEPT ![w] = what]

Undelivered(w) == wpc[w] = "working" /\ answer[w] = "none"

Deliver(w) ==
    /\ Undelivered(w)
    /\ InsertBoth(Delivery(w))
    /\ Told(w, IF Collides(Delivery(w)) THEN "collision" ELSE "delivered")
    /\ UNCHANGED <<vars, after, astray, early>>

MayStray(w) ==
    \/ UNCHANGED astray
    \/ Undelivered(w) /\ astray' = astray \cup {Delivery(w)}

(* The call fails, by itself or with the handler's context, which ends     *)
(* with the worker's or once the claim is lost.                            *)
DeliverFails(w) ==
    /\ Undelivered(w)
    /\ Fault \/ ((~live[w] \/ renewing[w] = "lost") /\ UNCHANGED faults)
    /\ MayStray(w)
    /\ Told(w, "error")
    /\ UNCHANGED <<storeVars, attempt, workerVars, renewals, owner, runs,
                   copies, tomb, after, late, early>>

(* The task is to be deleted, delivered now or before; or to be retried. *)
Wants(w) == IF answer[w] = "error" THEN "retry" ELSE "delete"

HandlerReturns(w) ==
    /\ answer[w] # "none"
    /\ WorkReturns(w, Wants(w))
    /\ answer' = [answer EXCEPT ![w] = IF renewing[w] = "lost" THEN "none" ELSE @]
    /\ UNCHANGED <<copies, tomb, after, astray, late, early>>

(* Finish deletes the task; only a delivery of the handler's own has an    *)
(* OnSuccess step, and only an answered commit comes to it.                *)
CommitDelivered(w) ==
    /\ Dispose(w)
    /\ faults' = faults /\ tasks' # tasks => wpc'[w] = "idle"
    /\ after' = [after EXCEPT ![w] = IF answer[w] = "delivered" /\ wpc'[w] = "idle"
                                     THEN {cur[w].id} ELSE {}]
    /\ Told(w, "none")
    /\ UNCHANGED <<copies, tomb, astray, late, early>>

CommitRefused(w) ==
    /\ Refused(w) /\ Refuses(Disposition(w)) /\ wpc'[w] = "idle"
    /\ Told(w, "none")
    /\ UNCHANGED <<copies, tomb, after, astray, late, early>>

(* The OnSuccess step.  Its failure is only logged. *)
DeleteTombstone(w) ==
    \E i \in after[w] :
        /\ after' = [after EXCEPT ![w] = {}]
        /\ \/ /\ tomb[i] # NoTomb /\ (tomb[i].by = w \/ tomb[i].due)
              /\ tomb' = [tomb EXCEPT ![i] = NoTomb]
              /\ UNCHANGED faults
           \/ /\ tomb[i] = NoTomb \/ (tomb[i].by # w /\ ~tomb[i].due) \/ ~live[w]
              /\ UNCHANGED <<tomb, faults>>
           \/ /\ Fault
              /\ UNCHANGED tomb
        /\ UNCHANGED <<storeVars, attempt, workerVars, renewals, owner, runs,
                       copies, answer, astray, late, early>>

CrashDelivering(w) ==
    /\ Crash(w)
    /\ MayStray(w)
    /\ Told(w, "none")
    /\ after' = [after EXCEPT ![w] = {}]
    /\ UNCHANGED <<copies, tomb, late, early>>

HandoffStep(w) ==
    \/ Deliver(w) \/ DeliverFails(w) \/ HandlerReturns(w)
    \/ CommitDelivered(w) \/ CommitRefused(w) \/ DeleteTombstone(w) \/ CrashDelivering(w)
    \/ /\ after[w] = {}
       /\ Claim(w) \/ SetAside(w) \/ StartWork(w) \/ LeaveAlone(w) \/ Quit(w)
       /\ Told(w, "none")
       /\ UNCHANGED <<copies, tomb, after, astray, late, early>>
    \/ /\ Renew(w) \/ Cancel(w) \/ Restart(w)
       /\ UNCHANGED handoffVars

HandoffNext ==
    /\ UNCHANGED handler
    /\ \/ /\ handler = "any" /\ WorkerNext /\ UNCHANGED handoffVars
       \/ /\ handler = "handoff"
          /\ \/ \E w \in Worker : HandoffStep(w)
             \/ \E i \in Id : \/ FallDue(i) \/ Collect(i)
                              \/ Lapse(i) /\ UNCHANGED handoffVars
             \/ \E d \in astray : Arrive(d)

(* As for Worker; a worker that owes an OnSuccess step runs it. *)
HandoffSpec ==
    /\ HandoffInit /\ [][HandoffNext]_allVars
    /\ Fairness
    /\ \A w \in Worker : []<>(after[w] = {})

-----------------------------------------------------------------------------

(* A task deleted by the handoff worker was delivered, and it was          *)
(* delivered once, whoever crashed, lost a claim or an answer in between;  *)
(* unless its tombstone fell due while the task was still there, or a      *)
(* delivery arrived so late that the task had been claimed again or was    *)
(* gone.  The package's documentation names the first exception only.      *)
ExactlyOnce ==
    handler = "handoff" =>
        \A i \in Id : /\ tasks[i] = NoTask => copies[i] > 0
                      /\ copies[i] > 1 => late[i] \/ early[i]
=============================================================================
