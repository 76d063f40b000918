------------------------------- MODULE Worker -------------------------------
(***************************************************************************)
(* Workers (pkg/worker): claim a task, run the handler while a second      *)
(* goroutine renews the claim, and then commit the handler's result, retry *)
(* the task or move it to the error queue, over a backend that keeps what  *)
(* TaskStore promises.                                                     *)
(*                                                                         *)
(* Time is kept relative: now stays 0, a task that arrives at 1 is held or *)
(* yet to come, and Lapse lets it arrive.  Calls to the backend may fail,  *)
(* and may fail after they took effect.  Faults of this kind, crashes, and *)
(* leases that run out under a live worker are bounded by MaxFaults.       *)
(* Doc sets are not modelled here: a worker's only hold is its task.       *)
(***************************************************************************)
EXTENDS TaskStore

CONSTANTS
    Inbox, Outbox, ErrorQueue,  \* where tasks are taken from, handed on, set aside
    MaxClaims,                  \* WithMaxClaims
    MaxAttempts,                \* WithMaxAttempts
    MaxFaults,                  \* bound: how many faults happen
    MaxRenewals,                \* bound: how many renewals are tried
    None                        \* holding nothing

ASSUME QueuesAreQueues == {Inbox, Outbox, ErrorQueue} \subseteq Queue

ASSUME LimitsArePositive == MaxClaims \in Nat \ {0} /\ MaxAttempts \in Nat \ {0}

VARIABLES
    attempt,   \* the Attempt field of each task
    wpc,       \* where each worker is
    cur,       \* the task it holds, as it last saw it
    renewing,  \* whether renewal runs, or has found the claim lost
    result,    \* what is to be done with the task
    live,      \* whether its context has not ended
    faults, renewals,
    owner,     \* history: who claimed each task last
    runs       \* history: how often a handler was run on it

workerVars == <<wpc, cur, renewing, result, live>>
vars == <<storeVars, attempt, workerVars, faults, renewals, owner, runs>>

Worker == Claimant
Held1 == 1

(* What a handler can ask for: to delete the task, hand it on or release   *)
(* it, or write nothing; to retry or move it; or, with an error of its own *)
(* or a fatal one, to stop the worker.                                     *)
Commits == {"delete", "pass", "release"}
Sentinels == {"retry", "move", "fatal"}
Results == Commits \cup Sentinels \cup {"nothing", "error"}

WorkerInit ==
    /\ StoreInit
    /\ attempt = [i \in Id |-> 0]
    /\ wpc = [w \in Worker |-> "idle"]
    /\ cur = [w \in Worker |-> None]
    /\ renewing = [w \in Worker |-> "off"]
    /\ result = [w \in Worker |-> "delete"]
    /\ live = [w \in Worker |-> TRUE]
    /\ faults = 0 /\ renewals = 0
    /\ owner = [i \in Id |-> NoOne]
    /\ runs = [i \in Id |-> 0]

Fault == faults < MaxFaults /\ faults' = faults + 1

Goes(w, to) == wpc' = [wpc EXCEPT ![w] = to]

EndsRenewing(w, to) ==
    /\ Goes(w, to)
    /\ result' = [result EXCEPT ![w] = "delete"]
    /\ UNCHANGED <<cur, renewing>>

(* runOne ends: the worker goes on to its next claim, or Run returns. *)
Ends(w, to) ==
    /\ Goes(w, to)
    /\ cur' = [cur EXCEPT ![w] = None]
    /\ renewing' = [renewing EXCEPT ![w] = "off"]
    /\ result' = [result EXCEPT ![w] = "delete"]

-----------------------------------------------------------------------------
(* What a worker asks of the backend about the task it holds. *)

Nothing(w) == [claimant |-> w, inserts |-> {}, changes |-> {}, deletes |-> {},
               depends |-> {}, arrives |-> {}]

Deletion(w) ==
    [Nothing(w) EXCEPT !.deletes = {[id |-> cur[w].id, version |-> cur[w].task.version,
                                     queue |-> cur[w].task.queue]}]

Arrival(w, by) ==
    [Nothing(w) EXCEPT !.arrives = {[id |-> cur[w].id, version |-> cur[w].task.version,
                                     queue |-> cur[w].task.queue, by |-> by]}]

ChangeTo(w, q, by) ==
    [Nothing(w) EXCEPT !.changes = {[id |-> cur[w].id, version |-> cur[w].task.version,
                                     from |-> cur[w].task.queue, queue |-> q, by |-> by,
                                     reset |-> TRUE]}]

(* RetryOrQuarantine has had enough of a task. *)
Quarantining(w, limit) == cur[w].attempt + 1 >= limit

RetryOrQuarantine(w, limit) ==
    IF Quarantining(w, limit) THEN ChangeTo(w, ErrorQueue, 0)
                              ELSE ChangeTo(w, cur[w].task.queue, Held1)

(* The modification that the result asks for. *)
Disposition(w) ==
    CASE result[w] = "delete" -> Deletion(w)
      [] result[w] = "pass" -> ChangeTo(w, Outbox, 0)
      [] result[w] = "release" -> Arrival(w, 0)
      [] result[w] = "retry" -> RetryOrQuarantine(w, MaxAttempts)
      [] OTHER -> RetryOrQuarantine(w, 1)

(* Retries and moves count an attempt, on the task as the worker saw it. *)
Attempted(w) == IF result[w] \in {"retry", "move", "error"}
                THEN [attempt EXCEPT ![cur[w].id] = cur[w].attempt + 1] ELSE attempt

Refuses(mod) == HasAny(DependencyError(mod, Found(mod), now))

-----------------------------------------------------------------------------

(* A claim that is answered, and one whose answer is lost: the task then   *)
(* waits out its lease.                                                    *)
Claim(w) ==
    /\ wpc[w] = "idle" /\ live[w]
    /\ \E i \in Id :
        /\ TryClaim(w, Inbox, Held1)
        /\ tasks'[i] # tasks[i]
        /\ owner' = [owner EXCEPT ![i] = w]
        /\ \/ /\ Goes(w, "claimed")
              /\ cur' = [cur EXCEPT ![w] = [id |-> i, task |-> tasks'[i],
                                            attempt |-> attempt[i]]]
              /\ UNCHANGED <<renewing, result, faults>>
           \/ /\ Fault
              /\ Ends(w, "stopped")
    /\ UNCHANGED <<attempt, live, renewals, runs>>

OverLimitNever(w) == FALSE

(* A task claimed too often without a modification is not worked on. *)
OverLimit(w) == cur[w].task.claims > MaxClaims

SetAside(w) ==
    /\ wpc[w] = "claimed" /\ OverLimit(w)
    /\ Goes(w, "dispose")
    /\ result' = [result EXCEPT ![w] = "move"]
    /\ UNCHANGED <<storeVars, attempt, cur, renewing, live, faults, renewals, owner, runs>>

(* The value does not decode, or TakeDocs or CueWork fails. *)
FailEarly(w, r) ==
    /\ wpc[w] = "claimed" /\ ~OverLimit(w)
    /\ r \in Sentinels \cup {"error"}
    /\ Goes(w, "dispose")
    /\ result' = [result EXCEPT ![w] = r]
    /\ UNCHANGED <<storeVars, attempt, cur, renewing, live, faults, renewals, owner, runs>>

StartWork(w) ==
    /\ wpc[w] = "claimed" /\ ~OverLimit(w)
    /\ Goes(w, "working")
    /\ renewing' = [renewing EXCEPT ![w] = "on"]
    /\ runs' = [runs EXCEPT ![cur[w].id] = @ + 1]
    /\ UNCHANGED <<storeVars, attempt, cur, result, live, faults, renewals, owner>>

(* The renewal goroutine: a refused renewal ends it, any other failure is  *)
(* tried again, with the version it knows.                                 *)
Renew(w) ==
    /\ wpc[w] = "working" /\ renewing[w] = "on" /\ live[w]
    /\ renewals < MaxRenewals /\ renewals' = renewals + 1
    /\ LET mod == Arrival(w, Held1)
       IN \/ /\ Modify(mod)
             /\ cur' = [cur EXCEPT ![w].task = tasks'[cur[w].id]]
             /\ UNCHANGED <<renewing, faults>>
          \/ /\ Refuses(mod)
             /\ renewing' = [renewing EXCEPT ![w] = "lost"]
             /\ UNCHANGED <<storeVars, cur, faults>>
          \/ /\ Fault
             /\ Modify(mod) \/ UNCHANGED storeVars
             /\ UNCHANGED <<cur, renewing>>
    /\ UNCHANGED <<attempt, wpc, result, live, owner, runs>>

(* The handler returns and renewal is stopped.  If the claim was lost      *)
(* there is nothing left to be done with the task.                         *)
WorkReturns(w, r) ==
    /\ wpc[w] = "working"
    /\ \/ /\ renewing[w] = "lost"
          /\ Ends(w, IF r = "fatal" THEN "stopped" ELSE "idle")
       \/ /\ renewing[w] = "on"
          /\ Goes(w, "dispose")
          /\ result' = [result EXCEPT ![w] = r]
          /\ renewing' = [renewing EXCEPT ![w] = "off"]
          /\ UNCHANGED cur
    /\ UNCHANGED <<storeVars, attempt, live, faults, renewals, owner, runs>>

(* Whether the result is to be applied: not after a fatal error, after     *)
(* another error only on the last claim the limit allows, and no retry or  *)
(* move once the context has ended.                                        *)
Applies(w) ==
    CASE result[w] \in {"nothing", "fatal"} -> FALSE
      [] result[w] = "error" -> live[w] /\ cur[w].task.claims >= MaxClaims
      [] result[w] \in {"retry", "move"} -> live[w]
      [] OTHER -> TRUE

(* Where a worker goes when it is through with a task: after an error it   *)
(* stops, and it may have been asked to, by ThenStop.                      *)
Through(w, mayStop) ==
    \E to \in {"idle", "stopped"} :
        /\ result[w] = "error" => to = "stopped"
        /\ to = "stopped" => mayStop \/ result[w] = "error"
        /\ Ends(w, to)

(* handleSentinelErrors and quarantineAtLimit decide not to write, or a    *)
(* Finish has nothing to write.                                            *)
LeaveAlone(w) ==
    /\ wpc[w] = "dispose" /\ ~Applies(w)
    /\ IF result[w] = "nothing" THEN Through(w, TRUE) ELSE Ends(w, "stopped")
    /\ UNCHANGED <<storeVars, attempt, live, faults, renewals, owner, runs>>

(* Finish, handleSentinelErrors or quarantineAtLimit writes.  The call may *)
(* fail without an answer, as any call of an ended context may.            *)
Dispose(w) ==
    /\ wpc[w] = "dispose" /\ Applies(w)
    /\ \/ /\ Modify(Disposition(w))
          /\ attempt' = Attempted(w)
          /\ \/ Through(w, TRUE) /\ UNCHANGED faults
             \/ Ends(w, "stopped") /\ Fault
       \/ /\ Fault \/ (~live[w] /\ UNCHANGED faults)
          /\ Ends(w, "stopped")
          /\ UNCHANGED <<storeVars, attempt>>
    /\ UNCHANGED <<live, renewals, owner, runs>>

(* The write is refused: the task is someone else's by now, or a commit    *)
(* named other tasks that changed.  That is no reason to stop, and after a *)
(* commit the OnDependency hook may ask for something else instead.        *)
Refused(w) ==
    /\ wpc[w] = "dispose" /\ Applies(w)
    /\ result[w] \in Commits \/ Refuses(Disposition(w))
    /\ \/ Through(w, result[w] \notin Commits)
       \/ /\ result[w] \in Commits
          /\ \E r \in Sentinels : result' = [result EXCEPT ![w] = r]
          /\ UNCHANGED <<wpc, cur, renewing>>
    /\ UNCHANGED <<storeVars, attempt, live, faults, renewals, owner, runs>>

-----------------------------------------------------------------------------

(* The worker's context ends; an idle worker returns. *)
Cancel(w) ==
    /\ wpc[w] # "stopped" /\ live[w] /\ Fault
    /\ live' = [live EXCEPT ![w] = FALSE]
    /\ UNCHANGED <<storeVars, attempt, wpc, cur, renewing, result, renewals, owner, runs>>

Quit(w) ==
    /\ wpc[w] = "idle" /\ ~live[w]
    /\ Ends(w, "stopped")
    /\ UNCHANGED <<storeVars, attempt, live, faults, renewals, owner, runs>>

Crash(w) ==
    /\ wpc[w] # "stopped" /\ Fault
    /\ Ends(w, "stopped")
    /\ UNCHANGED <<storeVars, attempt, live, renewals, owner, runs>>

(* The orchestrator starts a stopped worker again. *)
Restart(w) ==
    /\ wpc[w] = "stopped"
    /\ Goes(w, "idle")
    /\ live' = [live EXCEPT ![w] = TRUE]
    /\ UNCHANGED <<storeVars, attempt, cur, renewing, result, faults, renewals, owner, runs>>

(* A worker has the task in hand, at the version stored. *)
InHand(i) ==
    \E w \in Worker :
        cur[w] # None /\ cur[w].id = i /\ cur[w].task.version = tasks[i].version

(* Time passes, and a lease or a retry delay runs out: under a live worker *)
(* only if it is too slow.                                                 *)
Lapse(i) ==
    /\ tasks[i] # NoTask /\ ~Available(tasks[i], now)
    /\ IF InHand(i) THEN Fault ELSE UNCHANGED faults
    /\ tasks' = [tasks EXCEPT ![i].at = now]
    /\ UNCHANGED <<now, attempt, workerVars, renewals, owner, runs>>

Step(w) ==
    \/ SetAside(w) \/ StartWork(w) \/ LeaveAlone(w) \/ Dispose(w) \/ Refused(w) \/ Quit(w)
    \/ \E r \in Results : FailEarly(w, r) \/ WorkReturns(w, r)

WorkerNext ==
    \/ \E w \in Worker : Claim(w) \/ Step(w) \/ Renew(w) \/ Cancel(w) \/ Crash(w) \/ Restart(w)
    \/ \E i \in Id : Lapse(i)

(* What keeps a worker where it is: an idle one waits for a task. *)
Waits(w) ==
    /\ wpc[w] = "idle" /\ live[w]
    /\ \A i \in Id : tasks[i] = NoTask \/ tasks[i].queue # Inbox \/ ~Available(tasks[i], now)

(* Workers run, are restarted, and keep claiming; handlers return, since   *)
(* WithWorkTimeout asks them to; and time passes.  Every step a worker can *)
(* always take moves it on, so weak fairness of those steps says that it   *)
(* stays nowhere for ever; TLC decides this form far faster.               *)
Fairness ==
    /\ \A w \in Worker : \A p \in {"idle", "claimed", "working", "dispose", "stopped"} :
           []<>(wpc[w] # p \/ Waits(w))
    /\ \A i \in Id : []<>(tasks[i] = NoTask \/ Available(tasks[i], now) \/ InHand(i))

-----------------------------------------------------------------------------

(* A worker's result, retry or move takes effect only if no one has        *)
(* claimed the task since: a worker that lost its claim without noticing,  *)
(* be it slow, cut off or renewing with a stale version, changes nothing.  *)
LatestClaimWins ==
    [][\A w \in Worker : Dispose(w) /\ tasks' # tasks => owner[cur[w].id] = w]_vars

(* However its workers fail, crash or lose their claims, a task is given   *)
(* to a handler at most MaxClaims times for each attempt, and is retried   *)
(* fewer than MaxAttempts times: a poison pill cannot stop workers forever. *)
WorkBounded ==
    \A i \in Id : /\ runs[i] <= MaxClaims * MaxAttempts
                  /\ tasks[i] # NoTask /\ tasks[i].queue = Inbox => attempt[i] < MaxAttempts

(* Whatever handlers return, and however often, every task leaves its      *)
(* queue in the end: done, handed on, or set aside in the error queue.     *)
Handled == \A i \in Id : <>(tasks[i] = NoTask \/ tasks[i].queue # Inbox)
=============================================================================
