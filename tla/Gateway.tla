------------------------------ MODULE Gateway ------------------------------
(***************************************************************************)
(* pkg/workgateway: one session of the work gateway, between a client that *)
(* speaks in requests and answers and the worker.Run that claims tasks for *)
(* it.  Four things move at once: the session's goroutine (serve, Handle   *)
(* and the worker's phases), the keepalive that answers a request waiting  *)
(* on a claim with a ready, the transport's handler, and the operator who  *)
(* drains or closes the server.  A session runs over HTTP, where an answer *)
(* needs a request to carry it, or over a byte stream, where it does not.  *)
(***************************************************************************)
EXTENDS Naturals, FiniteSets

CONSTANTS Task,          \* the tasks its claims return, numbered in that order
          NoTask, None,  \* no task in hand; no message
          Configs,       \* the sets of hooks a client may ask for
          Outcomes,      \* the outcomes the client reports
          MaxAsides      \* how often the client says it is still working, or reads

VARIABLES transport,  \* "http" or "stream"
          want,       \* what the config asked for: docs, success, dependency
          pc,         \* where the session's goroutine is
          say, then,  \* the response it is sending, and where it goes next
          hand,       \* the task in hand
          tasks,      \* what has become of each task: queued, held, settled by a
                      \* commit, retry or move, refused, lost, left to its lease
          g,          \* Gateway: quitting, closed, armed, ctx, why; the worker's shut
          kept,       \* keptConn: owed, turn, err
          post,       \* the request the transport has and nobody has received
          resp,       \* the response the client has not yet read
          client,     \* the client: its turn, the task it is about, whether it waits
          gone,       \* the transport has seen the client leave
          server,     \* Server: draining, joined, entry; the config's handler, opener
          reported    \* the tasks whose ok answer the session has received

gateVars == <<transport, want, pc, say, then, hand, tasks, g, kept, post, resp,
              client, gone, server, reported>>

RequestTypes == {"config", "ready", "take", "modify", "working", "read", "done"}
Asides == {"working", "read"}

ResponseTypes == {"ready", "take", "work", "ok", "success", "dependency", "quit", "error"}

\* No message is none of the responses.
ASSUME NoneIsNoResponse == None \notin [type : ResponseTypes, task : Task \cup {NoTask}]

Request(type, about, outcome, quit) ==
  [type |-> type, about |-> about, outcome |-> outcome, quit |-> quit]

Response(type, task) == [type |-> type, task |-> task]

GateInit ==
  /\ transport \in {"http", "stream"} /\ want \in Configs
  /\ pc = "config" /\ say = None /\ then = "over"
  /\ hand = NoTask /\ tasks = [t \in Task |-> "queued"]
  /\ g = [quitting |-> FALSE, closed |-> FALSE, armed |-> FALSE, ctx |-> TRUE,
          why |-> "ok", shut |-> "no"]
  /\ kept = [owed |-> FALSE, turn |-> "off", err |-> "none"]
  /\ post = None /\ resp = None /\ gone = FALSE
  /\ client = [turn |-> "config", about |-> NoTask, waits |-> FALSE, asides |-> 0]
  /\ server = [draining |-> FALSE, joined |-> FALSE, entry |-> FALSE, opener |-> "none"]
  /\ reported = {}

-----------------------------------------------------------------------------
(* The conns. *)

\* A Send or Recv reports the ending: the conn closed, its context ended, or
\* its client gone.
Broken == g.closed \/ ~g.ctx \/ gone

\* A channel hands a response to the handler that waits for one; a stream
\* writes it whether or not anybody asked.
CanSend ==
  /\ ~g.closed /\ g.ctx /\ resp = None
  /\ IF transport = "http" THEN ~gone /\ client.waits /\ post = None ELSE TRUE

Delivered(r) == resp' = IF client.turn = "end" THEN None ELSE r

\* keptConn.Recv: a request received is owed an answer from then on.
Owing == kept' = [kept EXCEPT !.owed = kept.turn # "off"]

Received == post # None /\ ~g.closed /\ g.ctx /\ post' = None

-----------------------------------------------------------------------------
(* The session's goroutine. *)

Sends(type, task, next) ==
  pc' = "send" /\ say' = Response(type, task) /\ then' = next

Ends(why) == pc' = "finish" /\ say' = None /\ then' = "over" /\ hand' = NoTask
             /\ g' = [g EXCEPT !.why = why]

GoesOn == pc' = "claim" /\ say' = None /\ then' = "over" /\ hand' = NoTask /\ UNCHANGED g

\* A task let go of with nothing written: its lease lapses, or, if this was the
\* last claim its limit allows, it is quarantined.
Left == tasks' = [t \in Task |-> IF t = hand /\ tasks[t] = "held" THEN "left" ELSE tasks[t]]

Settled(s) == tasks' = [tasks EXCEPT ![hand] = s]

\* Under the lock drain takes: a session is drained or refused, never missed.
Join == ~server.draining /\ server' = [server EXCEPT !.joined = TRUE]

\* serve: the first message opens the session, is refused, or, with a quit or
\* on a draining server, ends it; join and the draining test are one step.
RecvConfig ==
  /\ pc = "config" /\ Received
  /\ \/ post.quit /\ Sends("quit", NoTask, "over") /\ UNCHANGED server
     \/ ~post.quit /\ Sends("error", NoTask, "over") /\ UNCHANGED server
     \/ ~post.quit /\ server.draining /\ Sends("quit", NoTask, "over") /\ UNCHANGED server
     \/ ~post.quit /\ Join /\ Sends("ready", NoTask, "begin")
  /\ UNCHANGED <<transport, want, hand, tasks, g, kept, resp, client, gone, reported>>

\* conn.Send, and keptConn.Send once Handle has installed it: it waits for an
\* idle turn to end, clears what is owed, and fails with what failed the turn.
\* The last word goes out underneath a failed kept conn.
Send ==
  /\ pc = "send" /\ kept.turn \notin {"send", "recv"}
  /\ kept.err = "none" \/ then = "over"
  /\ CanSend /\ Delivered(say)
  /\ kept' = [kept EXCEPT !.owed = FALSE, !.turn = IF then = "begin" THEN "none" ELSE @]
  /\ pc' = then /\ say' = None /\ then' = "over"
  /\ UNCHANGED <<transport, want, hand, tasks, g, post, client, gone, server, reported>>

SendFails ==
  /\ pc = "send" /\ (kept.turn \notin {"send", "recv"} \/ ~g.ctx)
  /\ Broken \/ (kept.err # "none" /\ then # "over")
  /\ kept' = [kept EXCEPT !.owed = FALSE]
  /\ Left
  /\ IF then \in {"begin", "over"}
     THEN pc' = "over" /\ say' = None /\ then' = "over" /\ hand' = NoTask /\ UNCHANGED g
     ELSE Ends("ok")
  /\ UNCHANGED <<transport, want, post, resp, client, gone, server, reported>>

\* finish bounds its Send by the lease: over HTTP no request may come to carry it.
LastWordTimesOut ==
  /\ pc = "send" /\ then = "over" /\ kept.turn # "off"
  /\ pc' = "over" /\ say' = None
  /\ UNCHANGED <<transport, want, then, hand, tasks, g, kept, post, resp, client, gone,
                 server, reported>>

\* Handle: the client's ready starts the worker; a quit, or anything else, ends
\* the session.
RecvReady ==
  /\ pc = "begin" /\ Received /\ Owing
  /\ \/ post.type = "ready" /\ ~post.quit
        /\ pc' = "claim" /\ UNCHANGED <<say, then, hand, g>>
     \/ post.type = "ready" /\ post.quit
        /\ pc' = "finish" /\ g' = [g EXCEPT !.quitting = TRUE] /\ UNCHANGED <<say, then, hand>>
     \/ post.type # "ready" /\ Ends("fault")
  /\ UNCHANGED <<transport, want, tasks, resp, client, gone, server, reported>>

\* startClaim and Claim: a claim starts only on a worker not shut down, and
\* a shutdown or the end of the context ends one that waits.
Claim(t) ==
  /\ pc = "claim" /\ g.shut # "done" /\ g.ctx /\ tasks[t] = "queued"
  /\ \A u \in Task : u < t => tasks[u] # "queued"
  /\ hand' = t /\ tasks' = [tasks EXCEPT ![t] = "held"]
  /\ IF "docs" \in want THEN Sends("take", t, "take") ELSE Sends("work", t, "work")
  /\ UNCHANGED <<transport, want, g, kept, post, resp, client, gone, server, reported>>

ClaimEnds ==
  /\ pc = "claim" /\ (g.shut = "done" \/ ~g.ctx) /\ Ends("ok")
  /\ UNCHANGED <<transport, want, tasks, kept, post, resp, client, gone, server, reported>>

\* The backend cannot be reached.
ClaimFails ==
  /\ pc = "claim" /\ Ends("fault")
  /\ UNCHANGED <<transport, want, tasks, kept, post, resp, client, gone, server, reported>>

Quitting(quit) == g.quitting \/ quit

\* A sentinel's disposition (a move's is as a retry's) lands, unless the context has ended, and the worker
\* goes on, or stops after it if a quit was asked for (drainAfter, ThenStop).
Disposes(s, stop) ==
  /\ IF g.ctx THEN Settled(s) ELSE Left
  /\ pc' = IF stop \/ ~g.ctx THEN "finish" ELSE "claim"
  /\ say' = None /\ then' = "over" /\ hand' = NoTask

\* Asides within a turn, answered at once.  The first word that the client is
\* still working arms the silence timeout for the task in hand; a read, which
\* fails or not, touches nothing.
RecvWorking ==
  /\ pc \in {"take", "work", "hook"} /\ Received /\ Owing /\ post.type = "working"
  /\ g' = [g EXCEPT !.armed = TRUE, !.quitting = Quitting(post.quit)]
  /\ Sends("ok", NoTask, pc)
  /\ UNCHANGED <<transport, want, hand, tasks, resp, client, gone, server, reported>>

RecvRead ==
  /\ pc \in {"take", "work", "hook"} /\ Received /\ Owing /\ post.type = "read"
  /\ g' = [g EXCEPT !.quitting = Quitting(post.quit)]
  /\ Sends("ok", NoTask, pc)
  /\ UNCHANGED <<transport, want, hand, tasks, resp, client, gone, server, reported>>

\* makeTakeDocs: the sets the client names are claimed, or contended for, which
\* retries the task; or the client settles the task instead.
RecvTake ==
  /\ pc = "take" /\ Received /\ Owing /\ post.type = "take"
  /\ LET quit == Quitting(post.quit) IN
     /\ g' = [g EXCEPT !.quitting = quit, !.why = IF post.outcome = "fatal" THEN "fault" ELSE @]
     /\ \/ post.outcome = "ok" /\ Sends("work", hand, "work") /\ UNCHANGED <<hand, tasks>>
        \/ post.outcome = "ok" /\ Disposes("settled", FALSE)
        \/ post.outcome = "retry" /\ Disposes("settled", quit)
        \/ /\ post.outcome = "fatal" /\ Left
           /\ pc' = "finish" /\ say' = None /\ then' = "over" /\ hand' = NoTask
  /\ UNCHANGED <<transport, want, resp, client, gone, server, reported>>

\* makeDoModify: the client's answer for the work it was sent.  An ok answer is
\* committed; any other outcome replaces the commit.
RecvModify ==
  /\ pc = "work" /\ Received /\ Owing /\ post.type = "modify"
  /\ LET quit == Quitting(post.quit) IN
     /\ g' = [g EXCEPT !.quitting = quit, !.armed = FALSE,
                       !.why = IF post.outcome = "fatal" THEN "fault" ELSE @]
     /\ \/ /\ post.outcome = "ok" /\ pc' = "commit"
           /\ reported' = reported \cup {hand}
           /\ UNCHANGED <<say, then, hand, tasks>>
        \/ post.outcome = "retry" /\ Disposes("settled", quit) /\ UNCHANGED reported
        \/ /\ post.outcome = "fatal" /\ Left /\ UNCHANGED reported
           /\ pc' = "finish" /\ say' = None /\ then' = "over" /\ hand' = NoTask
  /\ UNCHANGED <<transport, want, resp, client, gone, server>>

\* A request of a type the phase does not expect is the client's fault.
RecvStray ==
  /\ pc \in {"take", "work", "hook"} /\ Received /\ Owing
  /\ post.type \notin Asides
  /\ post.type # CASE pc = "take" -> "take" [] pc = "work" -> "modify" [] OTHER -> "done"
  /\ Left /\ Ends("fault")
  /\ UNCHANGED <<transport, want, resp, client, gone, server, reported>>

RecvFails ==
  /\ pc \in {"config", "begin", "take", "work", "hook"} /\ Broken
  /\ Left
  /\ IF pc = "config" THEN pc' = "over" /\ UNCHANGED <<say, then, hand, g>> ELSE Ends("ok")
  /\ UNCHANGED <<transport, want, kept, post, resp, client, gone, server, reported>>

\* The client said it was working and fell silent, or ran past the work
\* timeout: the task is retried and the session ends.
GoesQuiet ==
  /\ \/ pc = "work" \/ (pc = "take" /\ g.armed) \/ (pc = "send" /\ then = "work" /\ say.type = "ok")
  /\ g' = [g EXCEPT !.why = "ok"] /\ Disposes("settled", TRUE)
  /\ UNCHANGED <<transport, want, kept, post, resp, client, gone, server, reported>>

\* doWhileRenewing: the renewal cannot reach the server, which ends the worker.
RenewalFails ==
  /\ pc = "work" \/ (pc = "send" /\ then = "work" /\ say.type = "ok")
  /\ Left /\ Ends("fault")
  /\ UNCHANGED <<transport, want, kept, post, resp, client, gone, server, reported>>

\* A renewal finds the claim lost: the worker goes on to its next claim, and
\* the session with it, though the client still has the task.
LoseClaim ==
  /\ pc = "work" \/ (pc = "send" /\ then = "work" /\ say.type = "ok")
  /\ Settled("lost") /\ GoesOn
  /\ UNCHANGED <<transport, want, kept, post, resp, client, gone, server, reported>>

\* A mutant: a client that has gone fails the commit of the answer it gave.
CommitUnlessGone ==
  /\ pc = "commit"
  /\ \E s \in IF g.ctx /\ ~gone THEN {"settled", "refused"} ELSE {"left"} :
       /\ Settled(s)
       /\ IF g.quitting \/ s = "left" THEN Ends("ok") ELSE GoesOn
  /\ UNCHANGED <<transport, want, kept, post, resp, client, gone, server, reported>>

\* Finish: the commit lands, is refused for a dependency, or, with the context
\* ended, fails.  The hook the client asked for is told; otherwise the worker
\* goes on, or stops for a quit.
Commit ==
  /\ pc = "commit"
  /\ \E s \in IF g.ctx THEN {"settled", "refused"} ELSE {"left"} :
       /\ Settled(s)
       /\ IF (s = "settled" /\ "success" \in want) \/ (s = "refused" /\ "dependency" \in want)
          THEN /\ Sends(IF s = "settled" THEN "success" ELSE "dependency", hand, "hook")
               /\ UNCHANGED <<hand, g>>
          ELSE IF g.quitting \/ s = "left" THEN Ends("ok") ELSE GoesOn
  /\ UNCHANGED <<transport, want, kept, post, resp, client, gone, server, reported>>

\* makeOnSuccess, makeOnDependency: the client's done picks the task's fate,
\* which a committed task no longer has, and a quit on it still drains.
RecvDone ==
  /\ pc = "hook" /\ Received /\ Owing /\ post.type = "done"
  /\ LET quit == Quitting(post.quit) IN
     /\ g' = [g EXCEPT !.quitting = quit, !.why = IF post.outcome = "fatal" THEN "fault" ELSE @]
     /\ tasks' = IF tasks[hand] = "refused" /\ post.outcome = "retry" /\ g.ctx
                 THEN [tasks EXCEPT ![hand] = "settled"] ELSE tasks
     /\ pc' = IF quit \/ post.outcome = "fatal" THEN "finish" ELSE "claim"
     /\ say' = None /\ then' = "over" /\ hand' = NoTask
  /\ UNCHANGED <<transport, want, resp, client, gone, server, reported>>

\* finish: the error that stopped the session, or the quit that was asked for,
\* answers the request it ended on.  A client silent on an idle turn is owed
\* nothing.
Finish ==
  /\ pc = "finish"
  /\ LET cause == IF kept.err # "none" THEN kept.err ELSE g.why IN
     IF cause = "fault" /\ ~g.closed THEN Sends("error", NoTask, "over")
     ELSE IF cause # "silent" /\ g.quitting THEN Sends("quit", NoTask, "over")
     ELSE pc' = "over" /\ UNCHANGED <<say, then>>
  /\ UNCHANGED <<transport, want, hand, tasks, g, kept, post, resp, client, gone, server,
                 reported>>

\* serve returns: the conn is closed and the session parts from the server.
Part ==
  /\ pc = "over" /\ pc' = "forget"
  /\ g' = [g EXCEPT !.closed = TRUE]
  /\ server' = [server EXCEPT !.joined = FALSE]
  /\ UNCHANGED <<transport, want, say, then, hand, tasks, kept, post, resp, client, gone,
                 reported>>

\* The transport forgets the session, before done closes and the session leaves.
Leave ==
  /\ pc = "forget" /\ pc' = "done"
  /\ server' = [server EXCEPT !.entry = FALSE]
  /\ g' = [g EXCEPT !.ctx = FALSE]
  /\ UNCHANGED <<transport, want, say, then, hand, tasks, kept, post, resp, client, gone,
                 reported>>

-----------------------------------------------------------------------------
(* The keepalive: a request that waits on a claim is answered with a ready. *)

\* A mutant: the idle turn starts while no request is owed an answer.
IdleBeginsUnowed ==
  /\ kept.turn = "none" /\ kept.err = "none" /\ g.ctx /\ ~g.closed
  /\ kept' = [kept EXCEPT !.turn = "send"]
  /\ UNCHANGED <<transport, want, pc, say, then, hand, tasks, g, post, resp, client, gone,
                 server, reported>>

\* A mutant: nothing ever answers a request that waits.
IdleNeverBegins == FALSE /\ UNCHANGED gateVars

IdleBegins ==
  /\ kept.owed /\ kept.turn = "none" /\ kept.err = "none" /\ g.ctx /\ ~g.closed
  /\ kept' = [kept EXCEPT !.turn = "send"]
  /\ UNCHANGED <<transport, want, pc, say, then, hand, tasks, g, post, resp, client, gone,
                 server, reported>>

IdleSends ==
  /\ kept.turn = "send" /\ CanSend /\ Delivered(Response("ready", NoTask))
  /\ kept' = [kept EXCEPT !.turn = "recv", !.owed = FALSE]
  /\ UNCHANGED <<transport, want, pc, say, then, hand, tasks, g, post, client, gone, server,
                 reported>>

\* drain and stopClaiming call worker.Shutdown in a goroutine of its own.
ShutDue == IF g.shut = "no" THEN "due" ELSE g.shut

IdleRecvs ==
  /\ kept.turn = "recv" /\ Received
  /\ IF post.type = "ready"
     THEN /\ kept' = [kept EXCEPT !.turn = "none", !.owed = TRUE]
          /\ g' = IF post.quit THEN [g EXCEPT !.quitting = TRUE, !.shut = ShutDue] ELSE g
     ELSE /\ kept' = [kept EXCEPT !.turn = "none", !.err = "fault"]
          /\ g' = [g EXCEPT !.shut = ShutDue]
  /\ UNCHANGED <<transport, want, pc, say, then, hand, tasks, resp, client, gone, server,
                 reported>>

\* The conn ended under the turn, or the client did not answer the ready within
\* the silence window.
IdleFails ==
  /\ \/ kept.turn \in {"send", "recv"} /\ Broken /\ kept' = [kept EXCEPT !.turn = "none", !.err = "ok"]
     \/ kept.turn = "recv" /\ kept' = [kept EXCEPT !.turn = "none", !.err = "silent"]
  /\ g' = [g EXCEPT !.shut = ShutDue]
  /\ UNCHANGED <<transport, want, pc, say, then, hand, tasks, post, resp, client, gone, server,
                 reported>>

\* The Shutdown a drain, a failed idle turn or a client gone asks for reaches
\* the worker.
ShutDown ==
  /\ g.shut = "due" \/ (gone /\ g.shut = "no" /\ kept.turn # "off" /\ pc # "begin")
  /\ g' = [g EXCEPT !.shut = "done"]
  /\ UNCHANGED <<transport, want, pc, say, then, hand, tasks, kept, post, resp, client, gone,
                 server, reported>>

-----------------------------------------------------------------------------
(* The client and its transport. *)

\* The client sends the request its turn calls for, or an aside, or
\* something else.  Over HTTP a session the server does not hold is gone, and
\* the client starts over elsewhere.
Post(type, outcome, quit) ==
  /\ client.turn # "end" /\ ~client.waits /\ post = None
  /\ \/ type = client.turn
     \/ type \in Asides /\ client.turn \in {"take", "modify", "done"} /\ client.asides < MaxAsides
     \/ type = "done" /\ client.turn \in {"ready", "modify"}
  /\ outcome = "ok" \/ (type \in {"take", "modify", "done"} /\ type = client.turn)
  /\ IF transport = "http" /\ type # "config" /\ ~server.entry
     THEN client' = [client EXCEPT !.turn = "end"] /\ UNCHANGED <<post, server>>
     ELSE /\ post' = Request(type, client.about, outcome, quit)
          /\ client' = [client EXCEPT !.waits = TRUE,
                          !.asides = IF type \in Asides THEN @ + 1 ELSE @]
          /\ server' = [server EXCEPT !.opener =
                          IF transport = "http" /\ type = "config" THEN "opening" ELSE @]
  /\ UNCHANGED <<transport, want, pc, say, then, hand, tasks, g, kept, resp, gone, reported>>

\* open: the ready's session is registered, and then checked for having ended.
Register ==
  /\ server.opener = "opening" /\ resp # None
  /\ server' = IF resp.type = "ready" THEN [server EXCEPT !.entry = TRUE, !.opener = "check"]
               ELSE [server EXCEPT !.opener = "none"]
  /\ UNCHANGED <<transport, want, pc, say, then, hand, tasks, g, kept, post, resp, client, gone,
                 reported>>

CheckEnded ==
  /\ server.opener = "check"
  /\ server' = [server EXCEPT !.opener = "none", !.entry = @ /\ pc # "done"]
  /\ UNCHANGED <<transport, want, pc, say, then, hand, tasks, g, kept, post, resp, client, gone,
                 reported>>

\* What the client does next is what the response it read expects.
NextTurn(r) ==
  CASE r.type = "ready" -> [client EXCEPT !.turn = "ready", !.about = NoTask]
    [] r.type = "take" -> [client EXCEPT !.turn = "take", !.about = r.task]
    [] r.type = "work" -> [client EXCEPT !.turn = "modify", !.about = r.task]
    [] r.type \in {"success", "dependency"} -> [client EXCEPT !.turn = "done", !.about = r.task]
    [] r.type \in {"quit", "error"} -> [client EXCEPT !.turn = "end"]
    [] OTHER -> client

Read ==
  /\ client.waits /\ resp # None /\ server.opener = "none"
  /\ client' = [NextTurn(resp) EXCEPT !.waits = FALSE]
  /\ resp' = None
  /\ UNCHANGED <<transport, want, pc, say, then, hand, tasks, g, kept, post, gone, server,
                 reported>>

\* The session ended without an answer: an HTTP handler that waits for one is
\* told so, and a stream's client reads the end of it.
ToldGone ==
  /\ client.waits /\ resp = None
  /\ \/ transport = "http" /\ post = None /\ pc = "done"
     \/ transport = "stream" /\ pc \in {"forget", "done"}
  /\ client' = [client EXCEPT !.waits = FALSE, !.turn = "end"]
  /\ post' = None /\ server' = [server EXCEPT !.opener = "none"]
  /\ UNCHANGED <<transport, want, pc, say, then, hand, tasks, g, kept, resp, gone, reported>>

\* The client gives up.  Over HTTP that is a hang-up only once the gateway has
\* the request; a stream's reader sees the end once the last frame is taken.
\* open cancels the session of a config whose answer nobody waits for.
GiveUp ==
  /\ client.turn # "end"
  /\ IF transport = "http" THEN client.waits /\ resp = None ELSE post = None
  /\ gone' = (gone \/ post = None)
  /\ post' = None /\ resp' = None
  /\ client' = [client EXCEPT !.turn = "end", !.waits = FALSE]
  /\ server' = [server EXCEPT !.opener = "none"]
  /\ g' = IF server.opener = "opening" THEN [g EXCEPT !.ctx = FALSE] ELSE g
  /\ UNCHANGED <<transport, want, pc, say, then, hand, tasks, kept, reported>>

-----------------------------------------------------------------------------
(* The operator. *)

\* Server.drain: every session that has joined is asked to quit.
Drain ==
  /\ ~server.draining
  /\ server' = [server EXCEPT !.draining = TRUE]
  /\ g' = IF server.joined THEN [g EXCEPT !.quitting = TRUE, !.shut = ShutDue] ELSE g
  /\ UNCHANGED <<transport, want, pc, say, then, hand, tasks, kept, post, resp, client, gone,
                 reported>>

\* A mutant: Close shuts the conn and never ends the session's context.
CloseConnOnly ==
  /\ ~g.closed /\ (server.joined \/ server.entry)
  /\ g' = [g EXCEPT !.closed = @ \/ server.joined]
  /\ server' = [server EXCEPT !.entry = FALSE, !.draining = TRUE]
  /\ UNCHANGED <<transport, want, pc, say, then, hand, tasks, kept, post, resp, client, gone,
                 reported>>

\* Server.Close, by itself or when Shutdown's context ends before the sessions
\* do: the conn is closed and the session's context, once Handle has installed
\* its cancel or the session is in the map, is ended.
Close ==
  /\ ~g.closed /\ (server.joined \/ server.entry)
  /\ g' = [g EXCEPT !.closed = @ \/ server.joined,
                    !.ctx = @ /\ ~server.entry /\ kept.turn = "off"]
  /\ server' = [server EXCEPT !.entry = FALSE, !.draining = TRUE]
  /\ UNCHANGED <<transport, want, pc, say, then, hand, tasks, kept, post, resp, client, gone,
                 reported>>

-----------------------------------------------------------------------------
SessionStep ==
  \/ RecvConfig \/ Send \/ SendFails \/ RecvReady \/ ClaimEnds
  \/ (\E t \in Task : Claim(t))
  \/ RecvWorking \/ RecvRead \/ RecvTake \/ RecvModify \/ RecvStray \/ RecvFails
  \/ Commit \/ RecvDone \/ Finish \/ Part \/ Leave

\* What the session waits for without being sure to get: nothing makes it come.
Happens == ClaimFails \/ GoesQuiet \/ RenewalFails \/ LastWordTimesOut

Posts == \E type \in RequestTypes, outcome \in Outcomes, quit \in BOOLEAN :
           Post(type, outcome, quit)

HandlerStep == Register \/ CheckEnded \/ Read \/ ToldGone

IdleStep == IdleBegins \/ IdleSends \/ IdleRecvs \/ IdleFails

Stopped == pc = "done" /\ client.turn = "end" /\ UNCHANGED gateVars

\* The gateway while no claim is lost under a client's work.
CalmNext == SessionStep \/ Happens \/ IdleStep \/ ShutDown \/ Posts \/ HandlerStep
            \/ GiveUp \/ Drain \/ Close \/ Stopped

GateNext == CalmNext \/ LoseClaim

GateSpec == GateInit /\ [][GateNext]_gateVars

\* The goroutines run: the session's steps, the keepalive's timer, the shutdown
\* it starts, the transport's handlers, finish's bounded send, and the close
\* that the end of Shutdown's context brings.  Nothing makes a client ask.
CalmSpec == GateInit /\ [][CalmNext]_gateVars
            /\ WF_gateVars(SessionStep) /\ WF_gateVars(IdleStep) /\ WF_gateVars(ShutDown)
            /\ WF_gateVars(HandlerStep) /\ WF_gateVars(LastWordTimesOut) /\ WF_gateVars(server.draining /\ Close)

-----------------------------------------------------------------------------
(* Properties. *)

\* The gateway never speaks unprompted, whichever of the phases and the
\* keepalive it is that speaks: what it sends answers a request the client is
\* waiting on, except the last word of a session that ended while the client
\* was at work.
NeverUnprompted == resp # None => client.waits \/ resp.type \in {"quit", "error"}

\* The answer the worker acts on is the one the client gave for the task in
\* hand: the phases are strictly sequential, and replies never cross tasks.
OwnOutcome == pc = "work" /\ post # None /\ post.type = "modify" => post.about = hand

\* An ok answer that reached the gateway is committed, or refused by what it
\* depends on, though the client leaves, quits or falls silent right after:
\* only the end of the session's context may leave the task to its lease.
AnswerCounts == g.ctx => \A t \in reported : tasks[t] # "left" \/ (hand = t /\ pc = "commit")

\* Every request the gateway has taken gets its answer, or word that the
\* session is gone: a claim that waits for ever is answered with readies.
Answered == (client.waits /\ post = None) ~> ~client.waits

\* A session that was serving when the server began to drain ends, if only
\* when Shutdown's context does; none runs on, blocked in a claim.
Ended == (server.draining /\ server.joined) ~> pc = "done"
=============================================================================
