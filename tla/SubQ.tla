-------------------------------- MODULE SubQ --------------------------------
(***************************************************************************)
(* How a blocked Claim is woken: the notifier of pkg/subq, WaitTryClaim    *)
(* (entroq.go), NotifyModified, and the in-memory backend's readiness loop *)
(* for tasks that become available as time passes.                         *)
(*                                                                         *)
(* A queue is known to the notifier by a subscription, which exists while  *)
(* someone listens on it and until a watchdog finds that no one does.      *)
(* Notify starts a goroutine that offers a wakeup on the subscription it   *)
(* found, as long as someone listens there.  A claim first listens on all  *)
(* its queues, and then alternates between looking for a task and waiting. *)
(*                                                                         *)
(* Of the tasks only the number available in each queue is kept.           *)
(***************************************************************************)
EXTENDS Integers, FiniteSets

CONSTANTS
    Waiter,     \* blocked claims, each made once
    Queue,
    Plans,      \* the queues each claim may name; none if it is not made
    Sub,        \* addresses of subscriptions
    Nil,        \* the nil pointer
    MaxTasks,   \* bound: how many tasks become available
    MaxSenders  \* bound: wakeups owed, or on offer, from which on no sweep begins

ASSUME PlansNameQueues == Plans \subseteq [Waiter -> SUBSET Queue]

ASSUME NilIsNoSub == Nil \notin Sub

VARIABLES
    waitsOn,    \* the queues each claim names
    avail,      \* how many tasks of each queue are available
    made,       \* how many became available so far
    matured,    \* history: whether one did so as time passed
    owed,       \* calls of Notify that are still to be made
    qs,         \* the subscription of each queue
    listeners,  \* who is counted in each subscription
    watch,      \* watchdogs started, and not finished, for each queue
    senders,    \* goroutines offering a wakeup on each subscription
    pc, todo,   \* where each claim is, and the queues that step has left
    subs,       \* the subscriptions it listens on
    counted     \* the listeners a sweep of the readiness loop found

vars == <<waitsOn, avail, made, matured, owed, qs, listeners, watch, senders, pc, todo, subs, counted>>

Init ==
    /\ waitsOn \in Plans
    /\ avail = [q \in Queue |-> 0] /\ made = 0 /\ matured = FALSE
    /\ owed = [q \in Queue |-> 0] /\ counted = [q \in Queue |-> 0]
    /\ qs = [q \in Queue |-> Nil]
    /\ listeners = [s \in Sub |-> {}]
    /\ watch = [q \in Queue |-> 0] /\ senders = [s \in Sub |-> 0]
    /\ pc = [w \in Waiter |-> "idle"]
    /\ todo = [w \in Waiter |-> {}]
    /\ subs = [w \in Waiter |-> [q \in Queue |-> Nil]]

Unused(s) ==
    /\ senders[s] = 0
    /\ \A q \in Queue : qs[q] # s /\ \A w \in Waiter : subs[w][q] # s

Listening(q) == IF qs[q] = Nil THEN {} ELSE listeners[qs[q]]

Asleep(w, q) == pc[w] = "wait" /\ q \in waitsOn[w]

-----------------------------------------------------------------------------
(* Tasks become available. *)

(* A modification makes a task available, and has NotifyModified to call. *)
Modify(q) ==
    /\ made < MaxTasks
    /\ made' = made + 1
    /\ avail' = [avail EXCEPT ![q] = @ + 1]
    /\ owed' = [owed EXCEPT ![q] = @ + 1]
    /\ UNCHANGED <<waitsOn, matured, qs, listeners, watch, senders, pc, todo, subs, counted>>

(* A lease runs out, or an arrival comes: no one is told. *)
Mature(q) ==
    /\ made < MaxTasks
    /\ made' = made + 1 /\ matured' = TRUE
    /\ avail' = [avail EXCEPT ![q] = @ + 1]
    /\ UNCHANGED <<waitsOn, owed, qs, listeners, watch, senders, pc, todo, subs, counted>>

NotifyDropped(q) ==
    /\ owed[q] > 0
    /\ owed' = [owed EXCEPT ![q] = @ - 1]
    /\ UNCHANGED <<waitsOn, avail, made, matured, qs, listeners, watch, senders, pc, todo, subs, counted>>

(* A wakeup is dropped if no one listens, or else offered to who does. *)
Notify(q) ==
    /\ owed[q] > 0
    /\ owed' = [owed EXCEPT ![q] = @ - 1]
    /\ senders' = IF Listening(q) = {} THEN senders
                                       ELSE [senders EXCEPT ![qs[q]] = @ + 1]
    /\ UNCHANGED <<waitsOn, avail, made, matured, qs, listeners, watch, pc, todo, subs, counted>>

SendForever(s) == FALSE /\ UNCHANGED vars

(* An offer no one is left to take, seen when its timer runs out. *)
GiveUp(s) ==
    /\ senders[s] > 0 /\ listeners[s] = {}
    /\ senders' = [senders EXCEPT ![s] = @ - 1]
    /\ UNCHANGED <<waitsOn, avail, made, matured, owed, qs, listeners, watch, pc, todo, subs, counted>>

-----------------------------------------------------------------------------
(* Wait, with TryClaim as its condition. *)

Start(w) ==
    /\ pc[w] = "idle" /\ waitsOn[w] # {}
    /\ pc' = [pc EXCEPT ![w] = "add"]
    /\ todo' = [todo EXCEPT ![w] = waitsOn[w]]
    /\ UNCHANGED <<waitsOn, avail, made, matured, owed, qs, listeners, watch, senders, subs, counted>>

(* The queues of a step are visited one by one; after the last the claim   *)
(* goes on to the next step, with its queues before it again.              *)
Visited(w, q, next) ==
    LET last == todo[w] = {q}
    IN /\ pc' = [pc EXCEPT ![w] = IF last THEN next ELSE @]
       /\ todo' = [todo EXCEPT ![w] = IF last THEN waitsOn[w] ELSE @ \ {q}]

(* addListener: a subscription that is created brings its watchdog. *)
AddListener(w, q) ==
    /\ pc[w] = "add" /\ q \in todo[w]
    /\ Visited(w, q, "look")
    /\ \E s \in Sub :
        /\ IF qs[q] = Nil THEN Unused(s) ELSE s = qs[q]
        /\ qs' = [qs EXCEPT ![q] = s]
        /\ watch' = [watch EXCEPT ![q] = IF qs[q] = Nil THEN @ + 1 ELSE @]
        /\ listeners' = [listeners EXCEPT ![s] = @ \cup {w}]
        /\ subs' = [subs EXCEPT ![w][q] = s]
    /\ UNCHANGED <<waitsOn, avail, made, matured, owed, senders, counted>>

(* TryClaim looks into the queues in any order, until one has a task. *)
Look(w, q) ==
    /\ pc[w] = "look" /\ q \in todo[w]
    /\ \/ /\ avail[q] > 0
          /\ avail' = [avail EXCEPT ![q] = @ - 1]
          /\ pc' = [pc EXCEPT ![w] = "leave"]
          /\ todo' = [todo EXCEPT ![w] = waitsOn[w]]
       \/ /\ avail[q] = 0
          /\ Visited(w, q, "wait")
          /\ UNCHANGED avail
    /\ UNCHANGED <<waitsOn, made, matured, owed, qs, listeners, watch, senders, subs, counted>>

(* A wakeup is taken, and the claim looks again. *)
Receive(w, q) ==
    /\ Asleep(w, q) /\ senders[subs[w][q]] > 0
    /\ senders' = [senders EXCEPT ![subs[w][q]] = @ - 1]
    /\ pc' = [pc EXCEPT ![w] = "look"]
    /\ UNCHANGED <<waitsOn, avail, made, matured, owed, qs, listeners, watch, todo, subs, counted>>

(* The poll time runs out, and the claim looks again. *)
Poll(w) ==
    /\ pc[w] = "wait"
    /\ pc' = [pc EXCEPT ![w] = "look"]
    /\ UNCHANGED <<waitsOn, avail, made, matured, owed, qs, listeners, watch, senders, todo, subs, counted>>

(* The context of a waiting claim is canceled. *)
Cancel(w) ==
    /\ pc[w] = "wait"
    /\ pc' = [pc EXCEPT ![w] = "leave"]
    /\ UNCHANGED <<waitsOn, avail, made, matured, owed, qs, listeners, watch, senders, todo, subs, counted>>

(* The deferred Done of each subscription. *)
Leave(w, q) ==
    /\ pc[w] = "leave" /\ q \in todo[w]
    /\ Visited(w, q, "done")
    /\ listeners' = [listeners EXCEPT ![subs[w][q]] = @ \ {w}]
    /\ subs' = [subs EXCEPT ![w][q] = Nil]
    /\ UNCHANGED <<waitsOn, avail, made, matured, owed, qs, watch, senders, counted>>

(* tryCollect by the watchdog of q. *)
TryCollect(q) ==
    /\ watch[q] > 0 /\ Listening(q) = {}
    /\ qs' = [qs EXCEPT ![q] = Nil]
    /\ watch' = [watch EXCEPT ![q] = @ - 1]
    /\ UNCHANGED <<waitsOn, avail, made, matured, owed, listeners, senders, pc, todo, subs, counted>>

-----------------------------------------------------------------------------
(* The readiness loop. *)

(* notifyReadyQueues takes the listener counts of all queues at one time, *)
SweepCount ==
    /\ counted = [q \in Queue |-> 0]
    /\ \A q \in Queue : owed[q] < MaxSenders
    /\ \A s \in Sub : senders[s] < MaxSenders
    /\ counted' = [q \in Queue |-> Cardinality(Listening(q))]
    /\ counted' # counted
    /\ UNCHANGED <<waitsOn, avail, made, matured, owed, qs, listeners, watch, senders, pc, todo, subs>>

SweepInSilence(q) ==
    /\ counted[q] > 0
    /\ counted' = [counted EXCEPT ![q] = 0]
    /\ UNCHANGED <<waitsOn, avail, made, matured, owed, qs, listeners, watch, senders, pc, todo, subs>>

(* and then goes through the queues, to have a wakeup for each available   *)
(* task up to the number that was counted.                                 *)
SweepQueue(q) ==
    /\ counted[q] > 0
    /\ counted' = [counted EXCEPT ![q] = 0]
    /\ owed' = [owed EXCEPT ![q] = @ + IF avail[q] < counted[q] THEN avail[q]
                                                                ELSE counted[q]]
    /\ UNCHANGED <<waitsOn, avail, made, matured, qs, listeners, watch, senders, pc, todo, subs>>

-----------------------------------------------------------------------------

Claiming(w) ==
    \/ Start(w) \/ Cancel(w)
    \/ \E q \in Queue : AddListener(w, q) \/ Look(w, q) \/ Receive(w, q) \/ Leave(w, q)

Next ==
    \/ \E w \in Waiter : Claiming(w) \/ Poll(w)
    \/ \E q \in Queue : Modify(q) \/ Mature(q) \/ Notify(q) \/ TryCollect(q) \/ SweepQueue(q)
    \/ \E s \in Sub : GiveUp(s)
    \/ SweepCount

Spec == Init /\ [][Next]_vars

(* Goroutines that can run do, and the readiness loop keeps ticking.  No   *)
(* one is bound to claim, to cancel or to make a task available, and what  *)
(* is promised does not rest on the poll time.                             *)
Fairness ==
    /\ \A w \in Waiter, q \in Queue :
        WF_vars(AddListener(w, q)) /\ WF_vars(Look(w, q)) /\ WF_vars(Leave(w, q))
    /\ \A q \in Queue :
        /\ WF_vars(\E w \in Waiter : Receive(w, q))
        /\ WF_vars(Notify(q)) /\ WF_vars(TryCollect(q)) /\ WF_vars(SweepQueue(q))
    /\ \A s \in Sub : WF_vars(GiveUp(s))
    /\ WF_vars(SweepCount)

FairSpec == Spec /\ Fairness

-----------------------------------------------------------------------------

(* Claims of one queue each need neither the poll time nor the readiness   *)
(* loop for tasks that are modified into it: whenever one of them sleeps   *)
(* although its queue has a task, a wakeup is still owed, or on offer on   *)
(* the subscription that the claim listens on, or another claim is about   *)
(* to look.                                                                *)
NoLostWakeup ==
    ~matured /\ (\A w \in Waiter : Cardinality(waitsOn[w]) <= 1) =>
        \A w \in Waiter, q \in Queue :
            Asleep(w, q) /\ avail[q] > 0 =>
                \/ owed[q] > 0
                \/ senders[subs[w][q]] > 0
                \/ \E v \in Waiter : pc[v] = "look" /\ q \in todo[v]

(* A claim does not sleep beside an available task for good, even if the   *)
(* task matured, or the wakeup for it went to a claim of several queues    *)
(* that took another task: the readiness loop sees to it.                  *)
Woken ==
    \A q \in Queue :
        avail[q] > 0 /\ (\E w \in Waiter : Asleep(w, q))
            ~> avail[q] = 0 \/ ~\E w \in Waiter : Asleep(w, q)

(* Once all claims have returned, every sender and every watchdog ends,    *)
(* and the notifier is as empty as when it was created.                    *)
Drained ==
    (\A w \in Waiter : pc[w] = "done" \/ waitsOn[w] = {})
        ~> (\A q \in Queue : qs[q] = Nil /\ watch[q] = 0) /\ (\A s \in Sub : senders[s] = 0)
=============================================================================
