------------------------------- MODULE EQLink -------------------------------
(***************************************************************************)
(* EQLink (pkg/async): one HTTP exchange carried over task queues.  The    *)
(* sender puts a request into the receiver's inbox, the receiver moves it  *)
(* to queues of its own, and from then on each direction of the exchange   *)
(* is a lane of its own, in which a frame and its acknowledgement take     *)
(* turns.  A side names, in every frame, the queue it awaits the next one  *)
(* in.  Those queues are collected at a time that is part of their name,   *)
(* so both sides keep moving to fresh ones.                                *)
(*                                                                         *)
(* A queue is known by the time it is collected at.  One exchange, one     *)
(* sender and one receiver are modelled; a body is so many segments, the   *)
(* first of a response being its status and headers.  A handler's commit   *)
(* is one step, and the claim before it another.  A crash, a caller that   *)
(* goes away, a failing call and a peer that dawdles are faults.           *)
(***************************************************************************)
EXTENDS Integers, Sequences

CONSTANTS
    Length,                                  \* segments in each direction's body
    Lifetime, PiggybackBefore, ForceBefore,  \* laneTiming
    HeartbeatAfter, PeerTimeout,             \* heartbeatTiming
    MaxNow, MaxFaults,                       \* bounds
    None

Side == {"sender", "receiver"}
Lane == {"request", "response"}

(* laneTiming.validate and heartbeatTiming.validate. *)
ASSUME Timing ==
    /\ 0 < ForceBefore /\ ForceBefore < PiggybackBefore /\ PiggybackBefore < Lifetime
    /\ 0 < HeartbeatAfter /\ HeartbeatAfter < PeerTimeout

(* The time a queue is collected at is a number, and so is its lifetime. *)
ASSUME LifetimeIsTime == Lifetime \in Nat

(* FrameControl: the direction, the queue the frame is put in and the one  *)
(* its answer is awaited in, and what it carries.                          *)
Frames == [lane : Lane, to : Side, at : Int, reply : Int, final : BOOLEAN, err : BOOLEAN,
           body : Nat]

(* No worker mistakes a frame in its hand for none. *)
ASSUME NoneIsNoHold ==
    None \notin [frame : Frames, since : Int, failed : BOOLEAN, reciprocate : BOOLEAN]

(* The side a lane's data comes from, and the one it goes to. *)
Source(l) == IF l = "request" THEN "sender" ELSE "receiver"
Sink(l) == IF l = "request" THEN "receiver" ELSE "sender"

VARIABLES
    now, faults,
    inbox,    \* the task in the receiver's inbox: "none", "waiting" or "claimed"
    frames,   \* the frames waiting in session queues
    lanes,    \* each side's view of each lane
    hold,     \* the frame a lane's worker has in hand
    read,     \* the segments each lane's source has read from its body
    wrote,    \* the segments each lane's sink has written to its stream
    closed,   \* how that stream ended
    doc,      \* whether the receiver's session doc exists
    session,  \* where each side's session is
    heard,    \* when each side last had a frame of the other
    answer    \* what the caller got

vars == <<now, faults, inbox, frames, lanes, hold, read, wrote, closed, doc, session,
          heard, answer>>

Frame(l, to, at, reply) ==
    [lane |-> l, to |-> to, at |-> at, reply |-> reply, final |-> FALSE, err |-> FALSE,
     body |-> 0]

(* A terminal frame names no queue to reply to. *)
Failure(l, to, at) == [Frame(l, to, at, 0) EXCEPT !.final = TRUE, !.err = TRUE]

NewLane(t) == [local |-> t + Lifetime, peer |-> 0, awaiting |-> FALSE, on |-> TRUE]
NewLanes(t) == [l \in Lane |-> NewLane(t)]

Init ==
    /\ now = 0 /\ faults = 0
    /\ inbox = "none" /\ frames = {} /\ doc = FALSE
    /\ lanes = [s \in Side |-> NewLanes(0)]
    /\ hold = [s \in Side |-> [l \in Lane |-> None]]
    /\ read = [l \in Lane |-> <<>>]
    /\ wrote = [l \in Lane |-> <<>>]
    /\ closed = [l \in Lane |-> IF l = "request" THEN "unopened" ELSE "open"]
    /\ session = [s \in Side |-> "new"]
    /\ heard = [s \in Side |-> 0]
    /\ answer = "none"

(* A fault, and time enough left to notice it. *)
Fault ==
    /\ faults < MaxFaults /\ now + 2 * PeerTimeout < MaxNow
    /\ faults' = faults + 1

-----------------------------------------------------------------------------
(* Turns: rotating queues (lane.go). *)

(* receiveLane.rotate: a fresh queue, never one used before. *)
Rotated(old) == IF now + Lifetime > old THEN now + Lifetime ELSE old + 1

ShouldPiggyback(ln) == now >= ln.local - PiggybackBefore

(* sessionLanes.observePeer: the peer's queue changed, and not because we  *)
(* had asked it to.                                                        *)
Changed(ln, queue) == ln.peer # 0 /\ queue # ln.peer
Reciprocates(ln, queue) == Changed(ln, queue) /\ ~ln.awaiting
Observed(ln, queue) ==
    [ln EXCEPT !.peer = queue, !.awaiting = @ /\ ~Changed(ln, queue)]

Initiated(ln) == [ln EXCEPT !.local = Rotated(@), !.awaiting = TRUE]
Reciprocated(ln) == [ln EXCEPT !.local = Rotated(@)]

-----------------------------------------------------------------------------
(* The ends of a session. *)

Running(s) == session[s] = "run"

(* The session's workers stop.  A frame in hand stays in its queue. *)
Stopped(s) ==
    /\ session' = [session EXCEPT ![s] = "over"]
    /\ hold' = [hold EXCEPT ![s] = [l \in Lane |-> None]]

(* senderSession.run returns: the inbox task is withdrawn unless it is     *)
(* claimed by then, and unless the response is done or the peer silent,    *)
(* the peer is told, at the queue it was last heard to await requests in.  *)
SenderEnds(result, telling) ==
    LET peer == lanes["sender"]["request"].peer
    IN  /\ Running("sender")
        /\ Stopped("sender")
        /\ inbox' = IF inbox = "waiting" THEN "none" ELSE inbox
        /\ frames' = IF telling /\ peer # 0
                     THEN frames \cup {Failure("request", "receiver", peer)} ELSE frames
        /\ answer' = result

(* What a caller sees of an exchange that failed: a status, unless the     *)
(* response had started, and then a broken connection.                     *)
Broken == IF wrote["response"] = <<>> THEN "error" ELSE "aborted"

-----------------------------------------------------------------------------
(* The beginning of a session. *)

(* Sender.ServeHTTP enqueues the request and runs a session. *)
ServeHTTP ==
    /\ session["sender"] = "new"
    /\ session' = [session EXCEPT !["sender"] = "run"]
    /\ lanes' = [lanes EXCEPT !["sender"] = NewLanes(now)]
    /\ heard' = [heard EXCEPT !["sender"] = now]
    /\ inbox' = "waiting"
    /\ UNCHANGED <<now, faults, frames, hold, read, wrote, closed, doc, answer>>

ClaimInbox ==
    /\ inbox = "waiting" /\ session["receiver"] = "new"
    /\ inbox' = "claimed"
    /\ UNCHANGED <<now, faults, frames, lanes, hold, read, wrote, closed, doc, session, heard,
                   answer>>

(* bootstrapHandler: the request moves to the receiver's own queue, an     *)
(* acknowledgement to seed the response lane joins it, and runSession      *)
(* starts.                                                                 *)
Bootstrap ==
    /\ inbox = "claimed" /\ session["receiver"] = "new"
    /\ inbox' = "none"
    /\ lanes' = [lanes EXCEPT !["receiver"] = NewLanes(now)]
    /\ frames' = frames \cup
         {Frame(l, "receiver", now + Lifetime, lanes["sender"][l].local) : l \in Lane}
    /\ doc' = TRUE
    /\ session' = [session EXCEPT !["receiver"] = "run"]
    /\ heard' = [heard EXCEPT !["receiver"] = now]
    /\ UNCHANGED <<now, faults, hold, read, wrote, closed, answer>>

-----------------------------------------------------------------------------
(* Turns: a worker claims the frame in its queue (runLane). *)

Holding(s, l) == hold[s][l] # None

(* The frame a lane's worker may claim: until the queue is collected. *)
Ready(s, l) ==
    {f \in frames : /\ Running(s) /\ lanes[s][l].on /\ ~Holding(s, l)
                    /\ f.lane = l /\ f.to = s /\ f.at = lanes[s][l].local /\ now < f.at}

Takes(s, l, f, failed) ==
    /\ f \in Ready(s, l)
    /\ frames' = frames \ {f}
    /\ heard' = [heard EXCEPT ![s] = now]
    /\ lanes' = IF f.final THEN lanes ELSE [lanes EXCEPT ![s][l] = Observed(@, f.reply)]
    /\ hold' = [hold EXCEPT ![s][l] =
                  [frame |-> f, since |-> now, failed |-> failed,
                   reciprocate |-> ~f.final /\ Reciprocates(lanes[s][l], f.reply)]]

(* The source takes an acknowledgement. *)
TakeAck(l) ==
    /\ \E f \in frames : Takes(Source(l), l, f, FALSE)
    /\ UNCHANGED <<now, faults, inbox, read, wrote, closed, doc, session, answer>>

(* The first frame of a request opens the upstream request. *)
Opens(l) == closed[l] = "unopened"

(* What a sink's stream has been given, and whether it has been closed. *)
Written(l, f) == IF f.body = 0 THEN wrote ELSE [wrote EXCEPT ![l] = Append(@, f.body)]
ClosedBy(l, f) ==
    [closed EXCEPT ![l] = CASE Opens(l) -> "open"
                            [] ~Opens(l) /\ f.final -> IF f.err THEN "error" ELSE "end"
                            [] OTHER -> @]

(* The sink takes a frame and writes what it carries.  Opening can fail,   *)
(* and so can writing: the upstream or the caller need not read to the end. *)
TakeFrame(l) ==
    /\ \E f \in frames :
        \/ /\ Takes(Sink(l), l, f, FALSE)
           /\ wrote' = Written(l, f)
           /\ closed' = ClosedBy(l, f)
        \/ /\ Opens(l) \/ f.body # 0
           /\ Takes(Sink(l), l, f, TRUE)
           /\ closed' = [closed EXCEPT ![l] = IF Opens(l) THEN "refused" ELSE "error"]
           /\ UNCHANGED wrote
    /\ UNCHANGED <<now, faults, inbox, read, doc, session, answer>>

-----------------------------------------------------------------------------
(* Turns: a worker commits its answer. *)

(* The rotation is forgotten: the worker goes on claiming on the old queue. *)
AnswersUnmoved(s, l, ln, f) ==
    /\ frames' = frames \cup {f}
    /\ hold' = [hold EXCEPT ![s][l] = None]
    /\ UNCHANGED lanes

(* The lane goes on, on a queue of its own that may be a new one. *)
Answers(s, l, ln, f) ==
    /\ lanes' = [lanes EXCEPT ![s][l] = ln]
    /\ frames' = frames \cup {f}
    /\ hold' = [hold EXCEPT ![s][l] = None]

(* The lane's direction is finished. *)
Finishes(s, l, sent) ==
    /\ lanes' = [lanes EXCEPT ![s][l].on = FALSE]
    /\ frames' = frames \cup sent
    /\ hold' = [hold EXCEPT ![s][l] = None]

(* The next event of a body: a segment, the last one included, or that it  *)
(* cannot be read.                                                         *)
Segment(l) ==
    LET n == Len(read[l]) + 1 IN [body |-> n, final |-> n = Length[l], err |-> FALSE]

RequestEvents == {Segment("request"), [body |-> 0, final |-> TRUE, err |-> TRUE]}

(* An upstream that cannot be reached is a response with a status. *)
ResponseEvents ==
    LET broken == [body |-> IF read["response"] = <<>> THEN 1 ELSE 0, final |-> TRUE,
                   err |-> TRUE]
    IN  CASE closed["request"] = "unopened" -> {}
          [] closed["request"] = "refused" -> {broken}
          [] OTHER -> {Segment("response"), broken}

Events(l) == IF l = "request" THEN RequestEvents ELSE ResponseEvents

(* handleRequestAck and responseHandler, with an event of the body. *)
SendData(l) ==
    LET s == Source(l)
        h == hold[s][l]
        ln == lanes[s][l]
    IN  /\ Holding(s, l) /\ ~h.frame.final /\ ~h.reciprocate
        /\ \E e \in Events(l) :
            LET next == IF ~e.final /\ ShouldPiggyback(ln) THEN Initiated(ln) ELSE ln
                f == [Frame(l, Sink(l), h.frame.reply, IF e.final THEN 0 ELSE next.local)
                        EXCEPT !.final = e.final, !.err = e.err, !.body = e.body]
            IN  /\ read' = IF e.body = 0 THEN read ELSE [read EXCEPT ![l] = Append(@, e.body)]
                /\ IF e.final /\ l = "response"
                   THEN /\ frames' = frames \cup {f}
                        /\ doc' = FALSE
                        /\ Stopped(s)
                        /\ UNCHANGED lanes
                   ELSE /\ IF e.final THEN Finishes(s, l, {f}) ELSE Answers(s, l, next, f)
                        /\ UNCHANGED <<doc, session>>
        /\ UNCHANGED <<now, faults, inbox, wrote, closed, heard, answer>>

ForceAt(ln) == ln.peer - ForceBefore
IdleNever(h, ln) == MaxNow + 1
IdleAt(h, ln) == IF ForceAt(ln) < h.since + HeartbeatAfter THEN ForceAt(ln)
                                                           ELSE h.since + HeartbeatAfter

(* The same, when nothing is to be sent: an empty frame, after a while as  *)
(* a sign of life or to ask for a switch of queues, or at once to follow   *)
(* one.                                                                    *)
SendEmpty(l) ==
    LET s == Source(l)
        h == hold[s][l]
        ln == lanes[s][l]
    IN  /\ Holding(s, l) /\ ~h.frame.final
        /\ h.reciprocate \/ now >= IdleAt(h, ln)
        /\ LET next == CASE h.reciprocate -> Reciprocated(ln)
                         [] ~h.reciprocate /\ h.since + HeartbeatAfter >= ForceAt(ln) ->
                              Initiated(ln)
                         [] OTHER -> ln
           IN  Answers(s, l, next, Frame(l, Sink(l), h.frame.reply, next.local))
        /\ UNCHANGED <<now, faults, inbox, read, wrote, closed, doc, session, heard, answer>>

(* The sink has failed, and said so: the source is done.  A receiver then  *)
(* ends its session, a sender goes on with the response.                   *)
SourceFails(l) ==
    LET s == Source(l)
    IN  /\ Holding(s, l) /\ hold[s][l].frame.final
        /\ IF l = "response"
           THEN doc' = FALSE /\ Stopped(s) /\ UNCHANGED <<frames, lanes>>
           ELSE Finishes(s, l, {}) /\ UNCHANGED <<doc, session>>
        /\ UNCHANGED <<now, faults, inbox, read, wrote, closed, heard, answer>>

(* requestHandler and handleResponse acknowledge what they wrote, and      *)
(* switch queues if asked to or if it is time.                             *)
SendAck(l) ==
    LET s == Sink(l)
        h == hold[s][l]
        ln == lanes[s][l]
        next == CASE h.reciprocate -> Reciprocated(ln)
                  [] ~h.reciprocate /\ ShouldPiggyback(ln) -> Initiated(ln)
                  [] OTHER -> ln
    IN  /\ Holding(s, l) /\ ~h.frame.final /\ ~h.failed
        /\ Answers(s, l, next, Frame(l, Source(l), h.frame.reply, next.local))
        /\ UNCHANGED <<now, faults, inbox, read, wrote, closed, doc, session, heard, answer>>

(* They could not write: the source is told, if it awaits an answer. *)
SendFailure(l) ==
    LET s == Sink(l)
        h == hold[s][l]
        told == IF h.frame.final THEN {} ELSE {Failure(l, Source(l), h.frame.reply)}
    IN  /\ Holding(s, l) /\ h.failed
        /\ IF l = "request"
           THEN Finishes(s, l, told) /\ UNCHANGED <<session, answer>>
           ELSE /\ Stopped(s)
                /\ frames' = frames \cup told
                /\ answer' = "gone"
                /\ UNCHANGED lanes
        /\ UNCHANGED <<now, faults, inbox, read, wrote, closed, doc, heard>>

(* An error in a response that had started is dropped. *)
SinkDoneQuietly(l) ==
    LET s == Sink(l)
        h == hold[s][l]
    IN  /\ Holding(s, l) /\ h.frame.final /\ ~h.failed
        /\ \/ /\ l = "request"
              /\ Finishes(s, l, {})
              /\ UNCHANGED <<inbox, session, answer>>
           \/ l = "response" /\ SenderEnds("clean", FALSE) /\ UNCHANGED lanes
        /\ UNCHANGED <<now, faults, read, wrote, closed, doc, heard>>

(* The terminal frame is written: the request is half closed, or the       *)
(* exchange is over.  An error that comes after the response had started   *)
(* cannot be told to the caller but by breaking the connection.            *)
SinkDone(l) ==
    LET s == Sink(l)
        h == hold[s][l]
    IN  /\ Holding(s, l) /\ h.frame.final /\ ~h.failed
        /\ \/ /\ l = "request"
              /\ Finishes(s, l, {})
              /\ UNCHANGED <<inbox, session, answer>>
           \/ /\ l = "response"
              /\ SenderEnds(IF h.frame.err /\ h.frame.body = 0 THEN "aborted" ELSE "clean", FALSE)
              /\ UNCHANGED lanes
        /\ UNCHANGED <<now, faults, read, wrote, closed, doc, heard>>

-----------------------------------------------------------------------------
(* Time, timers and faults. *)

(* A lane's queue reached the time it is collected at. *)
Expired(s) == Running(s) /\ \E l \in Lane : lanes[s][l].on /\ now >= lanes[s][l].local

SenderExpires ==
    /\ Expired("sender") /\ SenderEnds(Broken, TRUE)
    /\ UNCHANGED <<now, faults, lanes, read, wrote, closed, doc, heard>>

SilentNever(s) == FALSE
Silent(s) == Running(s) /\ now - heard[s] >= PeerTimeout

(* peerLiveness.run *)
SenderGivesUp ==
    /\ Silent("sender") /\ SenderEnds(Broken, FALSE)
    /\ UNCHANGED <<now, faults, lanes, read, wrote, closed, doc, heard>>

ReceiverGivesUp ==
    /\ Expired("receiver") \/ Silent("receiver")
    /\ Stopped("receiver")
    /\ UNCHANGED <<now, faults, inbox, frames, lanes, read, wrote, closed, doc, heard, answer>>

(* The caller goes away, or a call of the sender's fails. *)
SenderFails ==
    /\ Fault
    /\ \E result \in {"gone", Broken} : SenderEnds(result, TRUE)
    /\ UNCHANGED <<now, lanes, read, wrote, closed, doc, heard>>

(* The receiver's process dies: with a task just claimed, with a session   *)
(* just begun, or in the midst of one.                                     *)
ReceiverCrashes ==
    /\ Fault
    /\ inbox = "claimed" \/ Running("receiver")
    /\ inbox' = IF inbox = "claimed" THEN "waiting" ELSE inbox
    /\ IF Running("receiver") THEN Stopped("receiver") ELSE UNCHANGED <<session, hold>>
    /\ UNCHANGED <<now, frames, lanes, read, wrote, closed, doc, heard, answer>>

(* A session queue is collected. *)
Collect ==
    /\ \E f \in frames : f.at <= now /\ frames' = frames \ {f}
    /\ UNCHANGED <<now, faults, inbox, lanes, hold, read, wrote, closed, doc, session, heard,
                   answer>>

(* Someone has something to do that takes no time. *)
Busy ==
    \/ \E s \in Side : Expired(s) \/ Silent(s)
    \/ \E s \in Side, l \in Lane :
        \/ Ready(s, l) # {}
        \/ /\ Holding(s, l)
           /\ \/ s = Sink(l) \/ hold[s][l].frame.final \/ hold[s][l].reciprocate
              \/ now >= IdleAt(hold[s][l], lanes[s][l])

Tick ==
    /\ now < MaxNow /\ session["sender"] # "new"
    /\ IF Busy THEN Fault ELSE UNCHANGED faults
    /\ now' = now + 1
    /\ UNCHANGED <<inbox, frames, lanes, hold, read, wrote, closed, doc, session, heard, answer>>

Turn(l) ==
    \/ TakeAck(l) \/ TakeFrame(l) \/ SendData(l) \/ SendEmpty(l) \/ SourceFails(l)
    \/ SendAck(l) \/ SendFailure(l) \/ SinkDone(l)

Timers == SenderExpires \/ SenderGivesUp \/ ReceiverGivesUp

Next ==
    \/ ServeHTTP \/ ClaimInbox \/ Bootstrap
    \/ \E l \in Lane : Turn(l)
    \/ Timers \/ SenderFails \/ ReceiverCrashes \/ Collect \/ Tick

(* Sessions are served, their workers run, bodies are read, and time       *)
(* passes; it is no one's duty to fail.                                    *)
Spec ==
    /\ Init /\ [][Next]_vars
    /\ WF_vars(ServeHTTP) /\ WF_vars(Timers) /\ WF_vars(Tick)
    /\ \A l \in Lane : WF_vars(Turn(l)) /\ WF_vars(SendData(l))

-----------------------------------------------------------------------------

(* In each direction segments arrive in the order they were read in, none  *)
(* twice and none left out, and a stream is closed without an error only   *)
(* when all of its body came: a caller that is not told of a failure got   *)
(* the whole response, and an upstream the whole request.                  *)
Intact ==
    /\ \A l \in Lane :
        /\ Len(wrote[l]) <= Len(read[l])
        /\ \A n \in 1..Len(wrote[l]) : wrote[l][n] = read[l][n]
        /\ closed[l] = "end" => wrote[l] = [n \in 1..Length[l] |-> n]
    /\ answer = "clean" => /\ wrote["response"] = read["response"]
                           /\ closed["response"] = "end" \/ Len(wrote["response"]) = 1

(* A lane holds one frame, whichever way it goes, and while both sides are *)
(* at it that frame is in the very queue that the side it is for awaits    *)
(* it in, through every switch of queues.                                  *)
OnRoute ==
    \A l \in Lane :
        LET waiting == {f \in frames : f.lane = l /\ ~f.final}
            held == {s \in Side : Holding(s, l)}
        IN  (\A s \in Side : Running(s)) =>
                /\ \A f, g \in waiting : f = g
                /\ \A s, r \in held : s = r
                /\ waiting = {} \/ held = {}
                /\ \A f \in waiting : f.at = lanes[f.to][l].local

(* As long as nothing fails and neither side dawdles, no lane's queue is   *)
(* collected under a session that has got going, and no peer is taken for  *)
(* dead that is not.                                                       *)
KeepsUp ==
    /\ faults = 0 /\ \A s \in Side : Running(s)
    /\ lanes["sender"]["request"].peer # 0
    => \A s \in Side : ~Expired(s) /\ ~Silent(s)

(* Every caller is answered, or breaks off: whatever fails, and whenever.  *)
Returns == <>(answer # "none")
=============================================================================
