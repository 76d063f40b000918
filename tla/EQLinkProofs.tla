---------------------------- MODULE EQLinkProofs ----------------------------
(***************************************************************************)
(* The frames of an EQLink exchange stay on their route, and the bodies    *)
(* they carry arrive whole, whatever the lengths of the bodies, the times  *)
(* and the number of faults.  A step is first reduced to what it does to   *)
(* one lane; the invariants are then kept by each of those few moves.      *)
(***************************************************************************)
EXTENDS EQLink, TLAPS

Peer(s) == IF s = "sender" THEN "receiver" ELSE "sender"

(* The first n segments of a body. *)
Count(n) == [i \in 1..n |-> i]

Holds == [frame : Frames, since : Int, failed : BOOLEAN, reciprocate : BOOLEAN]
Views == [local : Int, peer : Int, awaiting : BOOLEAN, on : BOOLEAN]

(* Every variable the argument is about has the values it should. *)
LinkTypeOK ==
    /\ now \in Int
    /\ frames \subseteq Frames
    /\ lanes \in [Side -> [Lane -> Views]]
    /\ hold \in [Side -> [Lane -> Holds \cup {None}]]
    /\ read \in [Lane -> Seq(Nat)] /\ wrote \in [Lane -> Seq(Nat)]
    /\ closed \in [Lane -> {"unopened", "open", "refused", "error", "end"}]
    /\ session \in [Side -> {"new", "run", "over"}]

(* Only a running session has a frame in hand, and only one of the lane    *)
(* that is for its side.                                                   *)
HeldIsOwn ==
    \A s \in Side, l \in Lane :
        Holding(s, l) => /\ Running(s)
                         /\ hold[s][l].frame.lane = l /\ hold[s][l].frame.to = s

(* A receiver's session begins after the sender's, and before it does      *)
(* nothing is under way.                                                   *)
Begun ==
    /\ session["sender"] = "new" => session["receiver"] = "new" /\ inbox = "none"
    /\ session["receiver"] = "new" =>
        /\ frames = {} /\ answer # "clean"
        /\ \A s \in Side, l \in Lane : ~Holding(s, l)
        /\ \A l \in Lane : lanes["sender"][l].peer = 0 /\ closed[l] # "end"

(* The stream of the response is the caller's, open from the start. *)
CallerOpen == closed["response"] # "unopened"

Base == LinkTypeOK /\ HeldIsOwn /\ Begun /\ CallerOpen

-----------------------------------------------------------------------------
(* What a step does to a lane. *)

Gone == session["sender"] = "over"

(* The frame by which a sender that is gone breaks off the request lane. *)
Notice(f) ==
    /\ f.lane = "request" /\ f.to = "receiver"
    /\ f.final /\ f.err /\ f.body = 0

(* The lane's frames are old ones, one of new, or the notice of a sender   *)
(* that is gone.                                                           *)
Arrive(l, new) ==
    \A f \in frames' :
        f.lane = l => f \in frames \/ f \in new \/ (Notice(f) /\ Gone')

SameViews(l) == \A s \in Side : lanes'[s][l].local = lanes[s][l].local
SameStream(l) == wrote'[l] = wrote[l] /\ closed'[l] = closed[l]

(* Nothing is done in the lane, but that frames are lost and hands emptied. *)
Idle(l) ==
    /\ Arrive(l, {})
    /\ \A s \in Side : hold'[s][l] = hold[s][l] \/ hold'[s][l] = None
    /\ SameViews(l) /\ SameStream(l) /\ read'[l] = read[l]

(* The lane is empty before the receiver has begun ... *)
Fresh(l) ==
    /\ session["receiver"] = "new"
    /\ frames' = {} /\ \A s \in Side : hold'[s][l] = None
    /\ SameStream(l) /\ read'[l] = read[l]

(* ... and then holds the acknowledgement it begins with. *)
Seeded(l) ==
    /\ session["receiver"] = "new"
    /\ \A f \in frames' : f.lane = l =>
         f = Frame(l, "receiver", lanes'["receiver"][l].local, lanes'["sender"][l].local)
    /\ \A s \in Side : hold'[s][l] = None
    /\ SameStream(l) /\ read'[l] = read[l]

(* A side takes a frame; a sink also writes what it carries. *)
Took(s, l, f) ==
    /\ f \in frames /\ frames' = frames \ {f}
    /\ f.lane = l /\ f.to = s
    /\ Running(s) /\ hold[s][l] = None
    /\ hold'[s][l] \in Holds /\ hold'[s][l].frame = f
    /\ hold'[Peer(s)][l] = hold[Peer(s)][l]
    /\ SameViews(l) /\ read'[l] = read[l]
    /\ session' = session
    /\ \/ s = Source(l) /\ SameStream(l)
       \/ /\ s = Sink(l) /\ ~hold'[s][l].failed
          /\ wrote'[l] = IF f.body = 0 THEN wrote[l] ELSE Append(wrote[l], f.body)
          /\ IF closed[l] = "unopened" THEN closed'[l] = "open"
             ELSE IF f.final THEN closed'[l] = (IF f.err THEN "error" ELSE "end")
             ELSE closed'[l] = closed[l]
       \/ /\ s = Sink(l) /\ hold'[s][l].failed
          /\ wrote'[l] = wrote[l] /\ closed'[l] # "end"

(* A side answers the frame in its hand with f. *)
Gave(s, l, f) ==
    /\ hold[s][l] # None /\ ~hold[s][l].frame.final
    /\ hold'[s][l] = None /\ hold'[Peer(s)][l] = hold[Peer(s)][l]
    /\ Arrive(l, {f})
    /\ f \in Frames /\ f.lane = l /\ f.to = Peer(s) /\ f.at = hold[s][l].frame.reply
    /\ lanes'[Peer(s)][l].local = lanes[Peer(s)][l].local
    /\ ~f.final => f.reply = lanes'[s][l].local
    /\ SameStream(l)

Acked(l, f) ==
    /\ Gave(Sink(l), l, f)
    /\ read'[l] = read[l]
    /\ ~f.final => ~hold[Sink(l)][l].failed

(* A frame of data carries the next segment, or says that there is none. *)
Sent(l, f) ==
    /\ Gave(Source(l), l, f)
    /\ read'[l] = IF f.body = 0 THEN read[l] ELSE Append(read[l], f.body)
    /\ f.body # 0 => f.body = Len(read[l]) + 1
    /\ f.final => IF f.err THEN f.body \in {0, 1} ELSE f.body = Length[l] /\ f.body # 0

Move(l) ==
    \/ Idle(l) \/ Fresh(l) \/ Seeded(l)
    \/ \E s \in Side, f \in frames : Took(s, l, f)
    \/ \E f \in Frames : Acked(l, f) \/ Sent(l, f)

-----------------------------------------------------------------------------
(* The base: types, and the beginnings of sessions. *)

(* A lane has two ends, one at each side. *)
LEMMA SidesAndLanes ==
    ASSUME NEW l \in Lane
    PROVE  /\ Source(l) \in Side /\ Sink(l) \in Side
           /\ Peer(Source(l)) = Sink(l) /\ Peer(Sink(l)) = Source(l)
           /\ Source(l) # Sink(l)
           /\ \A s \in Side : s = Source(l) \/ s = Sink(l)
  BY DEF Side, Lane, Source, Sink, Peer

(* An empty frame, and what is in it. *)
LEMMA AckTyped ==
    ASSUME NEW l \in Lane, NEW to \in Side, NEW at \in Int, NEW reply \in Int
    PROVE  LET f == Frame(l, to, at, reply)
           IN  /\ f \in Frames
               /\ f.lane = l /\ f.to = to /\ f.at = at /\ f.reply = reply
               /\ ~f.final /\ ~f.err /\ f.body = 0
  BY DEF Frame, Frames

(* A terminal error frame, and what is in it. *)
LEMMA FailureTyped ==
    ASSUME NEW l \in Lane, NEW to \in Side, NEW at \in Int
    PROVE  LET f == Failure(l, to, at)
           IN  /\ f \in Frames
               /\ f.lane = l /\ f.to = to /\ f.at = at
               /\ f.final /\ f.err /\ f.body = 0
<1> SUFFICES ASSUME NEW f, f = Failure(l, to, at)
             PROVE  /\ f \in Frames
                    /\ f.lane = l /\ f.to = to /\ f.at = at
                    /\ f.final /\ f.err /\ f.body = 0
  BY Zenon
<1>1. f = [lane |-> l, to |-> to, at |-> at, reply |-> 0, final |-> TRUE, err |-> TRUE,
           body |-> 0]
  BY Zenon DEF Failure, Frame
<1> QED
  BY <1>1 DEF Frames

(* A lane's view and the frame in hand have their types. *)
LEMMA HoldTyped ==
    ASSUME LinkTypeOK, NEW s \in Side, NEW l \in Lane
    PROVE  /\ lanes[s][l] \in Views
           /\ Holding(s, l) => /\ hold[s][l] \in Holds
                               /\ hold[s][l].frame \in Frames
                               /\ hold[s][l].frame.reply \in Int
                               /\ hold[s][l].since \in Int
  BY DEF LinkTypeOK, Holding, Holds, Frames

(* So has a view that is begun, observed, moved or turned off. *)
LEMMA ViewTyped ==
    ASSUME LinkTypeOK, NEW ln \in Views, NEW q \in Int
    PROVE  /\ Initiated(ln) \in Views /\ Reciprocated(ln) \in Views
           /\ Observed(ln, q) \in Views /\ Observed(ln, q).local = ln.local
           /\ [ln EXCEPT !.on = FALSE] \in Views
           /\ NewLane(now) \in Views
           /\ NewLane(now).peer = 0 /\ NewLane(now).local = now + Lifetime
<1>1. Lifetime \in Int /\ now \in Int
  BY LifetimeIsTime DEF LinkTypeOK
<1>2. Rotated(ln.local) \in Int
  BY <1>1 DEF Views, Rotated
<1>3. Initiated(ln) \in Views /\ Reciprocated(ln) \in Views
  BY <1>2 DEF Views, Initiated, Reciprocated
<1>4. (ln.awaiting /\ ~Changed(ln, q)) \in BOOLEAN
  BY Zenon
<1>5. Observed(ln, q) \in Views /\ Observed(ln, q).local = ln.local
  BY <1>4 DEF Views, Observed
<1>6. NewLane(now) \in Views /\ NewLane(now).peer = 0 /\ NewLane(now).local = now + Lifetime
  BY <1>1 DEF Views, NewLane
<1>7. [ln EXCEPT !.on = FALSE] \in Views
  BY DEF Views
<1> QED
  BY <1>3, <1>5, <1>6, <1>7, Zenon

(* Taking a frame puts it in one hand, and leaves every queue in place. *)
LEMMA TakesDoes ==
    ASSUME LinkTypeOK, NEW s \in Side, NEW l \in Lane, NEW f, NEW failed \in BOOLEAN,
           Takes(s, l, f, failed)
    PROVE  /\ f \in frames /\ f \in Frames /\ f.lane = l /\ f.to = s /\ Running(s)
           /\ hold[s][l] = None /\ frames' = frames \ {f}
           /\ lanes' \in [Side -> [Lane -> Views]]
           /\ hold' \in [Side -> [Lane -> Holds \cup {None}]]
           /\ hold'[s][l] \in Holds
           /\ hold'[s][l].frame = f /\ hold'[s][l].failed = failed
           /\ \A r \in Side, m \in Lane : r # s \/ m # l => hold'[r][m] = hold[r][m]
           /\ \A m \in Lane : SameViews(m)
<1> DEFINE h == [frame |-> f, since |-> now, failed |-> failed,
                 reciprocate |-> ~f.final /\ Reciprocates(lanes[s][l], f.reply)]
<1>1. /\ f \in frames /\ f \in Frames /\ f.lane = l /\ f.to = s /\ Running(s)
      /\ hold[s][l] = None /\ frames' = frames \ {f} /\ f.reply \in Int
  BY DEF Takes, Ready, LinkTypeOK, Holding, Frames
<1>2. h \in Holds /\ h.frame = f /\ h.failed = failed
  <2>1. (~f.final /\ Reciprocates(lanes[s][l], f.reply)) \in BOOLEAN
    BY Zenon
  <2>2. now \in Int
    BY DEF LinkTypeOK
  <2> QED
    BY <2>1, <2>2, <1>1, Zenon DEF Holds
<1>3. hold' = [hold EXCEPT ![s][l] = h]
  BY Zenon DEF Takes
<1> HIDE DEF h
<1>4. /\ hold' \in [Side -> [Lane -> Holds \cup {None}]]
      /\ hold'[s][l] = h
      /\ \A r \in Side, m \in Lane : r # s \/ m # l => hold'[r][m] = hold[r][m]
  BY <1>2, <1>3 DEF LinkTypeOK
<1>5. lanes \in [Side -> [Lane -> Views]] /\ lanes[s][l] \in Views
  BY DEF LinkTypeOK
<1> DEFINE ob == Observed(lanes[s][l], f.reply)
<1>6. ob \in Views /\ ob.local = lanes[s][l].local
  BY <1>1, <1>5, ViewTyped, Zenon
<1>7. lanes' = lanes \/ lanes' = [lanes EXCEPT ![s][l] = ob]
  BY Zenon DEF Takes
<1> HIDE DEF ob
<1>8. lanes' \in [Side -> [Lane -> Views]] /\ \A m \in Lane : SameViews(m)
  BY <1>5, <1>6, <1>7 DEF SameViews
<1> QED
  BY <1>1, <1>2, <1>4, <1>8, Zenon

(* An answer empties one hand, and may move that side's queue. *)
LEMMA AnswersDoes ==
    ASSUME LinkTypeOK, NEW s \in Side, NEW l \in Lane, NEW ln \in Views, NEW f \in Frames,
           Answers(s, l, ln, f)
    PROVE  /\ frames' = frames \cup {f} /\ frames' \subseteq Frames
           /\ lanes' \in [Side -> [Lane -> Views]] /\ lanes'[s][l] = ln
           /\ hold' \in [Side -> [Lane -> Holds \cup {None}]] /\ hold'[s][l] = None
           /\ \A r \in Side, m \in Lane : r # s \/ m # l => hold'[r][m] = hold[r][m]
           /\ \A r \in Side, m \in Lane : r # s \/ m # l => lanes'[r][m] = lanes[r][m]
  BY DEF LinkTypeOK, Answers

(* So does the end of a direction, which moves no queue. *)
LEMMA FinishesDoes ==
    ASSUME LinkTypeOK, NEW s \in Side, NEW l \in Lane, NEW sent \in SUBSET Frames,
           Finishes(s, l, sent)
    PROVE  /\ frames' = frames \cup sent /\ frames' \subseteq Frames
           /\ lanes' \in [Side -> [Lane -> Views]]
           /\ \A r \in Side, m \in Lane : /\ lanes'[r][m].local = lanes[r][m].local
                                          /\ lanes'[r][m].peer = lanes[r][m].peer
           /\ hold' \in [Side -> [Lane -> Holds \cup {None}]] /\ hold'[s][l] = None
           /\ \A r \in Side, m \in Lane : r # s \/ m # l => hold'[r][m] = hold[r][m]
<1> DEFINE ln == [lanes[s][l] EXCEPT !.on = FALSE]
<1>1. lanes[s][l] \in Views
  BY DEF LinkTypeOK
<1>2. ln \in Views /\ ln.local = lanes[s][l].local /\ ln.peer = lanes[s][l].peer
  BY <1>1 DEF Views
<1>3. lanes' = [lanes EXCEPT ![s][l] = ln]
  BY DEF Finishes, LinkTypeOK
<1> HIDE DEF ln
<1>4. /\ lanes' \in [Side -> [Lane -> Views]]
      /\ \A r \in Side, m \in Lane : /\ lanes'[r][m].local = lanes[r][m].local
                                     /\ lanes'[r][m].peer = lanes[r][m].peer
  BY <1>2, <1>3 DEF LinkTypeOK
<1>5. frames' = frames \cup sent /\ frames' \subseteq Frames
  BY Zenon DEF LinkTypeOK, Finishes
<1>6. /\ hold' \in [Side -> [Lane -> Holds \cup {None}]] /\ hold'[s][l] = None
      /\ \A r \in Side, m \in Lane : r # s \/ m # l => hold'[r][m] = hold[r][m]
  BY DEF LinkTypeOK, Finishes
<1> QED
  BY <1>4, <1>5, <1>6, Zenon

(* The end of a session empties its side's hands. *)
LEMMA StoppedDoes ==
    ASSUME LinkTypeOK, NEW s \in Side, Stopped(s)
    PROVE  /\ session' \in [Side -> {"new", "run", "over"}] /\ session'[s] = "over"
           /\ \A r \in Side : r # s => session'[r] = session[r]
           /\ hold' \in [Side -> [Lane -> Holds \cup {None}]]
           /\ \A l \in Lane : hold'[s][l] = None
           /\ \A r \in Side, l \in Lane : r # s => hold'[r][l] = hold[r][l]
  BY DEF LinkTypeOK, Stopped

(* The sender's end adds a notice at most. *)
LEMMA SenderEndsDoes ==
    ASSUME LinkTypeOK, NEW result, NEW telling, SenderEnds(result, telling)
    PROVE  /\ Running("sender") /\ Stopped("sender") /\ answer' = result
           /\ frames' \subseteq Frames
           /\ \A f \in frames' : f \in frames \/ Notice(f)
           /\ lanes["sender"]["request"].peer = 0 => frames' = frames
<1> DEFINE peer == lanes["sender"]["request"].peer
           f == Failure("request", "receiver", peer)
<1>1. peer \in Int
  BY DEF LinkTypeOK, Side, Lane, Views
<1>2. f \in Frames /\ Notice(f)
  BY <1>1, FailureTyped DEF Notice, Lane, Side
<1>3. frames' = frames \/ (peer # 0 /\ frames' = frames \cup {f})
  BY Zenon DEF SenderEnds
<1>4. Running("sender") /\ Stopped("sender") /\ answer' = result
  BY Zenon DEF SenderEnds
<1> QED
  BY <1>2, <1>3, <1>4, Zenon DEF LinkTypeOK

-----------------------------------------------------------------------------
(* Each turn, in its lane and outside it. *)

Tidy(l) ==
    /\ LinkTypeOK' /\ HeldIsOwn' /\ CallerOpen'
    /\ session["receiver"] # "new"
    /\ \A s \in Side : session'[s] = session[s] \/ session'[s] = "over"
    /\ Move(l)
    /\ \A m \in Lane : m # l => Idle(m)

(* A frame there is, or one in hand, is one of a receiver that has begun. *)
LEMMA UnderWay ==
    ASSUME Base, (\E f \in frames : TRUE) \/ (\E s \in Side, l \in Lane : Holding(s, l))
    PROVE  session["receiver"] # "new"
  BY Zenon DEF Base, Begun

(* A frame that stays in its hand is that side's. *)
LEMMA OwnStays ==
    ASSUME HeldIsOwn, NEW s \in Side, NEW l \in Lane, hold'[s][l] # None,
           hold'[s][l] = hold[s][l]
    PROVE  /\ session[s] = "run"
           /\ hold'[s][l].frame.lane = l /\ hold'[s][l].frame.to = s
  BY DEF HeldIsOwn, Holding, Running

(* The source takes an acknowledgement. *)
LEMMA TakeAckTidy ==
    ASSUME Base, NEW l \in Lane, TakeAck(l)
    PROVE  Tidy(l)
<1> DEFINE s == Source(l)
<1>1. PICK f \in frames : Takes(s, l, f, FALSE)
  BY Zenon DEF TakeAck
<1>2. /\ now' = now /\ read' = read /\ wrote' = wrote /\ closed' = closed
      /\ session' = session
  BY Zenon DEF TakeAck
<1>3. LinkTypeOK /\ HeldIsOwn /\ CallerOpen /\ s \in Side
  BY SidesAndLanes, Zenon DEF Base
<1>4. /\ f \in frames /\ f \in Frames /\ f.lane = l /\ f.to = s /\ Running(s)
      /\ hold[s][l] = None /\ frames' = frames \ {f}
      /\ lanes' \in [Side -> [Lane -> Views]]
      /\ hold' \in [Side -> [Lane -> Holds \cup {None}]]
      /\ hold'[s][l] \in Holds
      /\ hold'[s][l].frame = f /\ hold'[s][l].failed = FALSE
      /\ \A r \in Side, m \in Lane : r # s \/ m # l => hold'[r][m] = hold[r][m]
      /\ \A m \in Lane : SameViews(m)
  BY <1>1, <1>3, TakesDoes, FALSE \in BOOLEAN, Zenon
<1> HIDE DEF s
<1>5. LinkTypeOK'
  BY <1>2, <1>3, <1>4, Zenon DEF LinkTypeOK
<1>6. HeldIsOwn'
  <2> SUFFICES ASSUME NEW r \in Side, NEW m \in Lane, hold'[r][m] # None
               PROVE  /\ session'[r] = "run"
                      /\ hold'[r][m].frame.lane = m /\ hold'[r][m].frame.to = r
    BY Zenon DEF HeldIsOwn, Holding, Running
  <2>1. CASE r = s /\ m = l
    BY <2>1, <1>2, <1>4, Zenon DEF Running
  <2>2. CASE r # s \/ m # l
    <3>1. hold'[r][m] = hold[r][m]
      BY <2>2, <1>4, Zenon
    <3> QED
      BY <3>1, <1>2, <1>3, OwnStays, Zenon
  <2> QED
    BY <2>1, <2>2, Zenon
<1>7. Peer(s) \in Side /\ Peer(s) # s
  BY <1>3 DEF Peer, Side
<1>8. Took(s, l, f)
  BY <1>2, <1>4, <1>7, Zenon DEF Took, SameStream, s
<1>9. \A m \in Lane : m # l => Idle(m)
  BY <1>2, <1>4, Zenon DEF Idle, Arrive, SameStream
<1>10. session["receiver"] # "new"
  BY UnderWay, <1>1, Zenon
<1> QED
  BY <1>2, <1>3, <1>4, <1>5, <1>6, <1>8, <1>9, <1>10, Zenon DEF Tidy, Move, CallerOpen

(* What a sink writes. *)
LEMMA WrittenTyped ==
    ASSUME LinkTypeOK, NEW l \in Lane, NEW f \in Frames,
           wrote' = Written(l, f), closed' = ClosedBy(l, f)
    PROVE  /\ wrote' \in [Lane -> Seq(Nat)]
           /\ closed' \in [Lane -> {"unopened", "open", "refused", "error", "end"}]
           /\ wrote'[l] = IF f.body = 0 THEN wrote[l] ELSE Append(wrote[l], f.body)
           /\ IF closed[l] = "unopened" THEN closed'[l] = "open"
              ELSE IF f.final THEN closed'[l] = (IF f.err THEN "error" ELSE "end")
              ELSE closed'[l] = closed[l]
           /\ \A m \in Lane : m # l => SameStream(m)
<1>1. f.body \in Nat
  BY DEF Frames
<1>2. wrote \in [Lane -> Seq(Nat)] /\ Append(wrote[l], f.body) \in Seq(Nat)
  BY <1>1 DEF LinkTypeOK
<1>3. /\ wrote' \in [Lane -> Seq(Nat)]
      /\ wrote'[l] = IF f.body = 0 THEN wrote[l] ELSE Append(wrote[l], f.body)
      /\ \A m \in Lane : m # l => wrote'[m] = wrote[m]
  BY <1>2, Zenon DEF Written
<1> DEFINE c == CASE Opens(l) -> "open"
                  [] ~Opens(l) /\ f.final -> IF f.err THEN "error" ELSE "end"
                  [] OTHER -> closed[l]
<1>4. closed' = [closed EXCEPT ![l] = c]
  BY DEF ClosedBy
<1>5. /\ c \in {"unopened", "open", "refused", "error", "end"}
      /\ IF closed[l] = "unopened" THEN c = "open"
         ELSE IF f.final THEN c = (IF f.err THEN "error" ELSE "end")
         ELSE c = closed[l]
  BY DEF Opens, LinkTypeOK
<1> HIDE DEF c
<1>6. closed'[l] = c /\ \A m \in Lane : m # l => closed'[m] = closed[m]
  BY <1>4 DEF LinkTypeOK
<1>7. closed' \in [Lane -> {"unopened", "open", "refused", "error", "end"}]
  BY <1>4, <1>5 DEF LinkTypeOK
<1> QED
  BY <1>3, <1>5, <1>6, <1>7, Zenon DEF SameStream

(* The sink takes a frame, and writes it or fails to. *)
LEMMA TakeFrameTidy ==
    ASSUME Base, NEW l \in Lane, TakeFrame(l)
    PROVE  Tidy(l)
<1> DEFINE s == Sink(l)
<1>1. PICK f \in frames :
        \/ /\ Takes(s, l, f, FALSE)
           /\ wrote' = Written(l, f)
           /\ closed' = ClosedBy(l, f)
        \/ /\ Takes(s, l, f, TRUE)
           /\ closed' = [closed EXCEPT ![l] = IF Opens(l) THEN "refused" ELSE "error"]
           /\ UNCHANGED wrote
  BY Zenon DEF TakeFrame
<1>2. now' = now /\ read' = read /\ session' = session
  BY Zenon DEF TakeFrame
<1>3. LinkTypeOK /\ HeldIsOwn /\ CallerOpen /\ s \in Side
  BY SidesAndLanes, Zenon DEF Base
<1>4. PICK failed \in BOOLEAN :
        /\ Takes(s, l, f, failed)
        /\ IF failed
           THEN /\ closed' = [closed EXCEPT ![l] = IF Opens(l) THEN "refused" ELSE "error"]
                /\ wrote' = wrote
           ELSE wrote' = Written(l, f) /\ closed' = ClosedBy(l, f)
  BY <1>1, Zenon
<1>5. /\ f \in frames /\ f \in Frames /\ f.lane = l /\ f.to = s /\ Running(s)
      /\ hold[s][l] = None /\ frames' = frames \ {f}
      /\ lanes' \in [Side -> [Lane -> Views]]
      /\ hold' \in [Side -> [Lane -> Holds \cup {None}]]
      /\ hold'[s][l] \in Holds
      /\ hold'[s][l].frame = f /\ hold'[s][l].failed = failed
      /\ \A r \in Side, m \in Lane : r # s \/ m # l => hold'[r][m] = hold[r][m]
      /\ \A m \in Lane : SameViews(m)
  BY <1>3, <1>4, TakesDoes, Zenon
<1>6. /\ wrote' \in [Lane -> Seq(Nat)]
      /\ closed' \in [Lane -> {"unopened", "open", "refused", "error", "end"}]
      /\ closed'["response"] # "unopened"
      /\ \A m \in Lane : m # l => SameStream(m)
      /\ IF failed
         THEN wrote'[l] = wrote[l] /\ closed'[l] # "end"
         ELSE /\ wrote'[l] = IF f.body = 0 THEN wrote[l] ELSE Append(wrote[l], f.body)
              /\ IF closed[l] = "unopened" THEN closed'[l] = "open"
                 ELSE IF f.final THEN closed'[l] = (IF f.err THEN "error" ELSE "end")
                 ELSE closed'[l] = closed[l]
  <2>1. CASE failed
    <3> DEFINE c == IF Opens(l) THEN "refused" ELSE "error"
    <3>1. c \in {"refused", "error"} /\ closed' = [closed EXCEPT ![l] = c]
      BY <1>4, <2>1, Zenon
    <3> HIDE DEF c
    <3>2. closed \in [Lane -> {"unopened", "open", "refused", "error", "end"}]
      BY <1>3 DEF LinkTypeOK
    <3>3. /\ closed' \in [Lane -> {"unopened", "open", "refused", "error", "end"}]
          /\ closed'[l] # "end" /\ closed'["response"] # "unopened"
          /\ \A m \in Lane : m # l => closed'[m] = closed[m]
      BY <1>3, <3>1, <3>2 DEF CallerOpen, Lane
    <3> QED
      BY <1>3, <1>4, <2>1, <3>3, Zenon DEF SameStream, LinkTypeOK
  <2>2. CASE ~failed
    <3>1. wrote' = Written(l, f) /\ closed' = ClosedBy(l, f)
      BY <1>4, <2>2, Zenon
    <3>2. /\ wrote' \in [Lane -> Seq(Nat)]
          /\ closed' \in [Lane -> {"unopened", "open", "refused", "error", "end"}]
          /\ wrote'[l] = IF f.body = 0 THEN wrote[l] ELSE Append(wrote[l], f.body)
          /\ IF closed[l] = "unopened" THEN closed'[l] = "open"
             ELSE IF f.final THEN closed'[l] = (IF f.err THEN "error" ELSE "end")
             ELSE closed'[l] = closed[l]
          /\ \A m \in Lane : m # l => SameStream(m)
      BY <1>3, <1>5, <3>1, WrittenTyped, Zenon
    <3>3. closed'["response"] # "unopened"
      BY <1>3, <3>2 DEF SameStream, CallerOpen, Lane
    <3> QED
      BY <2>2, <3>2, <3>3, Zenon
  <2> QED
    BY <2>1, <2>2, Zenon
<1> HIDE DEF s
<1>7. LinkTypeOK'
  BY <1>2, <1>3, <1>5, <1>6, Zenon DEF LinkTypeOK
<1>8. HeldIsOwn'
  <2> SUFFICES ASSUME NEW r \in Side, NEW m \in Lane, hold'[r][m] # None
               PROVE  /\ session'[r] = "run"
                      /\ hold'[r][m].frame.lane = m /\ hold'[r][m].frame.to = r
    BY Zenon DEF HeldIsOwn, Holding, Running
  <2>1. CASE r = s /\ m = l
    BY <2>1, <1>2, <1>5, Zenon DEF Running
  <2>2. CASE r # s \/ m # l
    <3>1. hold'[r][m] = hold[r][m]
      BY <2>2, <1>5, Zenon
    <3> QED
      BY <3>1, <1>2, <1>3, OwnStays, Zenon
  <2> QED
    BY <2>1, <2>2, Zenon
<1>9. Peer(s) \in Side /\ Peer(s) # s
  BY <1>3 DEF Peer, Side
<1>10. Took(s, l, f)
  BY <1>2, <1>5, <1>6, <1>9, Zenon DEF Took, s
<1>11. \A m \in Lane : m # l => Idle(m)
  BY <1>2, <1>5, <1>6, Zenon DEF Idle, Arrive
<1>12. session["receiver"] # "new"
  BY UnderWay, <1>1, Zenon
<1> QED
  BY <1>2, <1>3, <1>5, <1>6, <1>7, <1>8, <1>10, <1>11, <1>12, Zenon
     DEF Tidy, Move, CallerOpen

(* A side is rid of the frame in its hand: with its session, or alone. *)
Emptied(s, l) ==
    /\ hold' \in [Side -> [Lane -> Holds \cup {None}]]
    /\ session' \in [Side -> {"new", "run", "over"}]
    /\ hold'[s][l] = None
    /\ \A m \in Lane : hold'[s][m] = hold[s][m] \/ hold'[s][m] = None
    /\ \A r \in Side, m \in Lane : r # s => hold'[r][m] = hold[r][m]
    /\ \A r \in Side : r # s => session'[r] = session[r]
    /\ \/ session'[s] = session[s]
       \/ session'[s] = "over" /\ \A m \in Lane : hold'[s][m] = None

(* A session that stops lets go of what it has. *)
LEMMA StoppedEmpties ==
    ASSUME LinkTypeOK, NEW s \in Side, NEW l \in Lane, Stopped(s)
    PROVE  Emptied(s, l)
  BY StoppedDoes, Zenon DEF Emptied

(* So does a worker that answers, *)
LEMMA AnswersEmpties ==
    ASSUME LinkTypeOK, NEW s \in Side, NEW l \in Lane, NEW ln \in Views, NEW f \in Frames,
           Answers(s, l, ln, f), session' = session
    PROVE  Emptied(s, l)
<1>1. /\ hold' \in [Side -> [Lane -> Holds \cup {None}]] /\ hold'[s][l] = None
      /\ \A r \in Side, m \in Lane : r # s \/ m # l => hold'[r][m] = hold[r][m]
  BY DEF LinkTypeOK, Answers
<1> QED
  BY <1>1, Zenon DEF Emptied, LinkTypeOK

(* and one whose direction is finished. *)
LEMMA FinishesEmpties ==
    ASSUME LinkTypeOK, NEW s \in Side, NEW l \in Lane, NEW sent \in SUBSET Frames,
           Finishes(s, l, sent), session' = session
    PROVE  Emptied(s, l)
<1>1. /\ hold' \in [Side -> [Lane -> Holds \cup {None}]] /\ hold'[s][l] = None
      /\ \A r \in Side, m \in Lane : r # s \/ m # l => hold'[r][m] = hold[r][m]
  BY FinishesDoes, Zenon
<1> QED
  BY <1>1, Zenon DEF Emptied, LinkTypeOK

(* What is left in a hand is still that side's. *)
LEMMA EmptiedOwn ==
    ASSUME HeldIsOwn, NEW s \in Side, NEW l \in Lane, Emptied(s, l)
    PROVE  /\ HeldIsOwn'
           /\ \A r \in Side : session'[r] = session[r] \/ session'[r] = "over"
           /\ \A r \in Side, m \in Lane : hold'[r][m] = hold[r][m] \/ hold'[r][m] = None
<1>1. \A r \in Side, m \in Lane : hold'[r][m] = hold[r][m] \/ hold'[r][m] = None
  BY Zenon DEF Emptied
<1>2. \A r \in Side : session'[r] = session[r] \/ session'[r] = "over"
  BY Zenon DEF Emptied
<1>3. ASSUME NEW r \in Side, NEW m \in Lane, hold'[r][m] # None
      PROVE  /\ session'[r] = "run"
             /\ hold'[r][m].frame.lane = m /\ hold'[r][m].frame.to = r
  <2>1. hold'[r][m] = hold[r][m]
    BY <1>1, <1>3, Zenon
  <2>2. session'[r] = session[r]
    BY <1>3, Zenon DEF Emptied
  <2>3. /\ session[r] = "run"
        /\ hold'[r][m].frame.lane = m /\ hold'[r][m].frame.to = r
    BY <1>3, <2>1, OwnStays, Zenon
  <2> QED
    BY <2>2, <2>3, Zenon
<1> QED
  BY <1>1, <1>2, <1>3, Zenon DEF HeldIsOwn, Holding, Running

(* A frame is answered: the lane goes on with the answer. *)
LEMMA GaveTidy ==
    ASSUME Base, NEW s \in Side, NEW l \in Lane, NEW f \in Frames,
           Holding(s, l), ~hold[s][l].frame.final,
           f.lane = l, f.to = Peer(s), f.at = hold[s][l].frame.reply,
           frames' = frames \cup {f},
           Emptied(s, l),
           lanes' \in [Side -> [Lane -> Views]],
           \A r \in Side, m \in Lane : r # s \/ m # l =>
               lanes'[r][m].local = lanes[r][m].local,
           ~f.final => f.reply = lanes'[s][l].local,
           now' = now, wrote' = wrote, closed' = closed,
           read' \in [Lane -> Seq(Nat)], \A m \in Lane : m # l => read'[m] = read[m],
           Gave(s, l, f) => Move(l)
    PROVE  Tidy(l)
<1>1. LinkTypeOK /\ HeldIsOwn /\ CallerOpen
  BY Zenon DEF Base
<1>2. /\ HeldIsOwn'
      /\ \A r \in Side : session'[r] = session[r] \/ session'[r] = "over"
      /\ \A r \in Side, m \in Lane : hold'[r][m] = hold[r][m] \/ hold'[r][m] = None
  BY <1>1, EmptiedOwn, Zenon
<1>3. LinkTypeOK'
  BY <1>1, Zenon DEF LinkTypeOK, Emptied
<1>4. Peer(s) \in Side /\ Peer(s) # s
  BY DEF Peer, Side
<1>5. Gave(s, l, f)
  BY <1>4, Zenon DEF Gave, Emptied, Arrive, SameStream, Holding
<1>6. ASSUME NEW m \in Lane, m # l PROVE Idle(m)
  <2>1. Arrive(m, {})
    BY <1>6, Zenon DEF Arrive
  <2>2. SameViews(m)
    BY <1>6, Zenon DEF SameViews
  <2> QED
    BY <1>2, <1>6, <2>1, <2>2, Zenon DEF Idle, SameStream
<1>7. session["receiver"] # "new"
  BY UnderWay, Zenon
<1> QED
  BY <1>1, <1>2, <1>3, <1>5, <1>6, <1>7, Zenon DEF Tidy, CallerOpen

(* A frame is dealt with, and nothing answered. *)
LEMMA DoneTidy ==
    ASSUME Base, NEW s \in Side, NEW l \in Lane, Holding(s, l),
           frames' \subseteq Frames,
           \A f \in frames' : f \in frames \/ (Notice(f) /\ Gone'),
           Emptied(s, l),
           lanes' \in [Side -> [Lane -> Views]],
           \A m \in Lane : SameViews(m),
           now' = now, wrote' = wrote, closed' = closed, read' = read
    PROVE  Tidy(l)
<1>1. LinkTypeOK /\ HeldIsOwn /\ CallerOpen
  BY Zenon DEF Base
<1>2. /\ HeldIsOwn'
      /\ \A r \in Side : session'[r] = session[r] \/ session'[r] = "over"
      /\ \A r \in Side, m \in Lane : hold'[r][m] = hold[r][m] \/ hold'[r][m] = None
  BY <1>1, EmptiedOwn, Zenon
<1>3. LinkTypeOK'
  BY <1>1, Zenon DEF LinkTypeOK, Emptied
<1>4. \A m \in Lane : Idle(m)
  BY <1>2, Zenon DEF Idle, Arrive, SameStream
<1>5. session["receiver"] # "new"
  BY UnderWay, Zenon
<1> QED
  BY <1>1, <1>2, <1>3, <1>4, <1>5, Zenon DEF Tidy, CallerOpen, Move

(* The sink acknowledges. *)
LEMMA SendAckTidy ==
    ASSUME Base, NEW l \in Lane, SendAck(l)
    PROVE  Tidy(l)
<1> DEFINE s == Sink(l)
           h == hold[s][l]
           ln == lanes[s][l]
           next == CASE h.reciprocate -> Reciprocated(ln)
                     [] ~h.reciprocate /\ ShouldPiggyback(ln) -> Initiated(ln)
                     [] OTHER -> ln
           f == Frame(l, Source(l), h.frame.reply, next.local)
<1>1. /\ Holding(s, l) /\ ~h.frame.final /\ ~h.failed
      /\ Answers(s, l, next, f)
      /\ now' = now /\ read' = read /\ wrote' = wrote /\ closed' = closed
      /\ session' = session
  BY Zenon DEF SendAck
<1>2. /\ LinkTypeOK /\ s \in Side /\ Source(l) \in Side /\ Source(l) = Peer(s)
      /\ read \in [Lane -> Seq(Nat)]
  BY SidesAndLanes, Zenon DEF Base, LinkTypeOK
<1>3. ln \in Views /\ h.frame.reply \in Int
  BY <1>1, <1>2, HoldTyped, Zenon
<1>4. Reciprocated(ln) \in Views /\ Initiated(ln) \in Views
  BY <1>2, <1>3, ViewTyped, 0 \in Int, Zenon
<1>5. next \in Views
  BY <1>3, <1>4
<1> HIDE DEF next
<1>6. next.local \in Int
  BY <1>5 DEF Views
<1>7a. /\ f \in Frames /\ f.lane = l /\ f.to = Source(l)
      /\ f.at = h.frame.reply /\ f.reply = next.local /\ ~f.final
  BY <1>2, <1>3, <1>6, AckTyped
<1>7. /\ f \in Frames /\ f.lane = l /\ f.to = Peer(s)
      /\ f.at = h.frame.reply /\ f.reply = next.local /\ ~f.final
  BY <1>2, <1>7a, Zenon
<1> HIDE DEF f
<1>8. /\ frames' = frames \cup {f}
      /\ lanes' \in [Side -> [Lane -> Views]] /\ lanes'[s][l] = next
      /\ \A r \in Side, m \in Lane : r # s \/ m # l => lanes'[r][m] = lanes[r][m]
  BY <1>1, <1>2, <1>5, <1>7, AnswersDoes
<1>9. Emptied(s, l)
  BY <1>1, <1>2, <1>5, <1>7, AnswersEmpties, Zenon
<1>10. Gave(s, l, f) => Move(l)
  BY <1>1, <1>7, Zenon DEF Move, Acked
<1>11. \A r \in Side, m \in Lane : r # s \/ m # l => lanes'[r][m].local = lanes[r][m].local
  BY <1>8, Zenon
<1>12. f.reply = lanes'[s][l].local
  BY <1>7, <1>8, Zenon
<1> HIDE DEF s
<1> QED
  BY <1>1, <1>2, <1>7, <1>8, <1>9, <1>10, <1>11, <1>12, GaveTidy, Zenon

(* The source sends an empty frame. *)
LEMMA SendEmptyTidy ==
    ASSUME Base, NEW l \in Lane, SendEmpty(l)
    PROVE  Tidy(l)
<1> DEFINE s == Source(l)
           h == hold[s][l]
           ln == lanes[s][l]
           next == CASE h.reciprocate -> Reciprocated(ln)
                     [] ~h.reciprocate /\ h.since + HeartbeatAfter >= ForceAt(ln) ->
                          Initiated(ln)
                     [] OTHER -> ln
           f == Frame(l, Sink(l), h.frame.reply, next.local)
<1>1. /\ Holding(s, l) /\ ~h.frame.final
      /\ Answers(s, l, next, f)
      /\ now' = now /\ read' = read /\ wrote' = wrote /\ closed' = closed
      /\ session' = session
  BY Zenon DEF SendEmpty
<1>2. /\ LinkTypeOK /\ s \in Side /\ Sink(l) \in Side /\ Sink(l) = Peer(s)
      /\ read \in [Lane -> Seq(Nat)]
  BY SidesAndLanes, Zenon DEF Base, LinkTypeOK
<1>3. ln \in Views /\ h.frame.reply \in Int
  BY <1>1, <1>2, HoldTyped, Zenon
<1>4. Reciprocated(ln) \in Views /\ Initiated(ln) \in Views
  BY <1>2, <1>3, ViewTyped, 0 \in Int, Zenon
<1>5. next \in Views
  BY <1>3, <1>4
<1> HIDE DEF next
<1>6. next.local \in Int
  BY <1>5 DEF Views
<1>7a. /\ f \in Frames /\ f.lane = l /\ f.to = Sink(l)
      /\ f.at = h.frame.reply /\ f.reply = next.local /\ ~f.final /\ f.body = 0
  BY <1>2, <1>3, <1>6, AckTyped
<1>7. /\ f \in Frames /\ f.lane = l /\ f.to = Peer(s)
      /\ f.at = h.frame.reply /\ f.reply = next.local /\ ~f.final /\ f.body = 0
  BY <1>2, <1>7a, Zenon
<1> HIDE DEF f
<1>8. /\ frames' = frames \cup {f}
      /\ lanes' \in [Side -> [Lane -> Views]] /\ lanes'[s][l] = next
      /\ \A r \in Side, m \in Lane : r # s \/ m # l => lanes'[r][m] = lanes[r][m]
  BY <1>1, <1>2, <1>5, <1>7, AnswersDoes
<1>9. Emptied(s, l)
  BY <1>1, <1>2, <1>5, <1>7, AnswersEmpties, Zenon
<1>10. Gave(s, l, f) => Move(l)
  BY <1>1, <1>7, Zenon DEF Move, Sent
<1>11. \A r \in Side, m \in Lane : r # s \/ m # l => lanes'[r][m].local = lanes[r][m].local
  BY <1>8, Zenon
<1>12. f.reply = lanes'[s][l].local
  BY <1>7, <1>8, Zenon
<1> HIDE DEF s
<1> QED
  BY <1>1, <1>2, <1>7, <1>8, <1>9, <1>10, <1>11, <1>12, GaveTidy, Zenon

(* The source learns that the sink has failed. *)
LEMMA SourceFailsTidy ==
    ASSUME Base, NEW l \in Lane, SourceFails(l)
    PROVE  Tidy(l)
<1> DEFINE s == Source(l)
<1>1. /\ Holding(s, l)
      /\ \/ Stopped(s) /\ frames' = frames /\ lanes' = lanes
         \/ Finishes(s, l, {}) /\ session' = session
      /\ now' = now /\ read' = read /\ wrote' = wrote /\ closed' = closed
  BY Zenon DEF SourceFails
<1>2. LinkTypeOK /\ s \in Side /\ {} \in SUBSET Frames
  BY SidesAndLanes, Zenon DEF Base
<1> HIDE DEF s
<1>3. Emptied(s, l)
  BY <1>1, <1>2, StoppedEmpties, FinishesEmpties, Zenon
<1>4. frames' = frames /\ lanes' \in [Side -> [Lane -> Views]] /\ \A m \in Lane : SameViews(m)
  <2>1. CASE Finishes(s, l, {})
    <3>1. /\ frames' = frames \cup {}
          /\ lanes' \in [Side -> [Lane -> Views]]
          /\ \A r \in Side, m \in Lane : lanes'[r][m].local = lanes[r][m].local
      BY <1>2, <2>1, FinishesDoes, Zenon
    <3> QED
      BY <3>1, Zenon DEF SameViews
  <2>2. CASE frames' = frames /\ lanes' = lanes
    BY <1>2, <2>2, Zenon DEF LinkTypeOK, SameViews
  <2> QED
    BY <1>1, <2>1, <2>2, Zenon
<1>5. frames' \subseteq Frames
  BY <1>2, <1>4, Zenon DEF LinkTypeOK
<1> QED
  BY <1>1, <1>2, <1>3, <1>4, <1>5, DoneTidy, Zenon

(* The sink says that it has failed. *)
LEMMA SendFailureTidy ==
    ASSUME Base, NEW l \in Lane, SendFailure(l)
    PROVE  Tidy(l)
<1> DEFINE s == Sink(l)
           h == hold[s][l]
           f == Failure(l, Source(l), h.frame.reply)
           told == IF h.frame.final THEN {} ELSE {f}
<1>1. /\ Holding(s, l) /\ h.failed
      /\ \/ Stopped(s) /\ frames' = frames \cup told /\ lanes' = lanes
         \/ Finishes(s, l, told) /\ session' = session
      /\ now' = now /\ read' = read /\ wrote' = wrote /\ closed' = closed
  BY Zenon DEF SendFailure
<1>2. /\ LinkTypeOK /\ s \in Side /\ Source(l) \in Side /\ Source(l) = Peer(s)
      /\ read \in [Lane -> Seq(Nat)] /\ frames \subseteq Frames
  BY SidesAndLanes, Zenon DEF Base, LinkTypeOK
<1>3. h.frame.reply \in Int
  BY <1>1, <1>2, HoldTyped, Zenon
<1>4a. f \in Frames /\ f.lane = l /\ f.to = Source(l) /\ f.at = h.frame.reply /\ f.final
  BY <1>2, <1>3, FailureTyped
<1>4. f \in Frames /\ f.lane = l /\ f.to = Peer(s) /\ f.at = h.frame.reply /\ f.final
  BY <1>2, <1>4a, Zenon
<1> HIDE DEF f
<1>5. told \in SUBSET Frames
  BY <1>4, Zenon
<1> HIDE DEF told
<1>6. Emptied(s, l)
  BY <1>1, <1>2, <1>5, StoppedEmpties, FinishesEmpties, Zenon
<1>7. /\ frames' = frames \cup told
      /\ lanes' \in [Side -> [Lane -> Views]] /\ \A m \in Lane : SameViews(m)
  <2>1. CASE Finishes(s, l, told)
    <3>1. /\ frames' = frames \cup told
          /\ lanes' \in [Side -> [Lane -> Views]]
          /\ \A r \in Side, m \in Lane : lanes'[r][m].local = lanes[r][m].local
      BY <1>2, <1>5, <2>1, FinishesDoes, Zenon
    <3> QED
      BY <3>1, Zenon DEF SameViews
  <2>2. CASE frames' = frames \cup told /\ lanes' = lanes
    BY <1>2, <2>2, Zenon DEF LinkTypeOK, SameViews
  <2> QED
    BY <1>1, <2>1, <2>2, Zenon
<1>8. CASE h.frame.final
  <2>1. frames' = frames
    BY <1>7, <1>8, Zenon DEF told
  <2> QED
    BY <1>1, <1>2, <1>6, <1>7, <2>1, DoneTidy, Zenon
<1>9. CASE ~h.frame.final
  <2>1. frames' = frames \cup {f}
    BY <1>7, <1>9, Zenon DEF told
  <2>2. Gave(s, l, f) => Move(l)
    BY <1>1, <1>4, Zenon DEF Move, Acked
  <2>3. \A r \in Side, m \in Lane : lanes'[r][m].local = lanes[r][m].local
    BY <1>7, Zenon DEF SameViews
  <2> HIDE DEF s
  <2> QED
    BY <1>1, <1>2, <1>4, <1>6, <1>7, <1>9, <2>1, <2>2, <2>3, GaveTidy, ZenonT(40)
<1> QED
  BY <1>8, <1>9, Zenon

(* The sink is done. *)
LEMMA SinkDoneTidy ==
    ASSUME Base, NEW l \in Lane, SinkDone(l)
    PROVE  Tidy(l)
<1> DEFINE s == Sink(l)
           h == hold[s][l]
           result == IF h.frame.err /\ h.frame.body = 0 THEN "aborted" ELSE "clean"
<1>1. /\ Holding(s, l)
      /\ now' = now /\ read' = read /\ wrote' = wrote /\ closed' = closed
      /\ \/ Finishes(s, l, {}) /\ session' = session
         \/ l = "response" /\ SenderEnds(result, FALSE) /\ lanes' = lanes
  BY Zenon DEF SinkDone
<1>2. LinkTypeOK /\ s \in Side /\ {} \in SUBSET Frames /\ frames \subseteq Frames
  BY SidesAndLanes, Zenon DEF Base, LinkTypeOK
<1>3. CASE Finishes(s, l, {}) /\ session' = session
  <2> HIDE DEF s
  <2>1. Emptied(s, l)
    BY <1>2, <1>3, FinishesEmpties, Zenon
  <2>2. /\ frames' = frames \cup {}
        /\ lanes' \in [Side -> [Lane -> Views]]
        /\ \A r \in Side, m \in Lane : lanes'[r][m].local = lanes[r][m].local
    BY <1>2, <1>3, FinishesDoes
  <2>3. frames' = frames /\ \A m \in Lane : SameViews(m)
    BY <2>2, Zenon DEF SameViews
  <2>4. frames' \subseteq Frames
    BY <1>2, <2>3, Zenon
  <2> QED
    BY <1>1, <1>2, <2>1, <2>2, <2>3, <2>4, DoneTidy, Zenon
<1>4. CASE l = "response" /\ SenderEnds(result, FALSE) /\ lanes' = lanes
  <2>1. s = "sender"
    BY <1>4 DEF Sink
  <2> HIDE DEF s, result
  <2>2. Running("sender") /\ Stopped(s) /\ frames' = frames
    BY <1>4, <2>1, Zenon DEF SenderEnds
  <2>3. Emptied(s, l)
    BY <1>2, <2>2, StoppedEmpties, Zenon
  <2>4. lanes' \in [Side -> [Lane -> Views]] /\ \A m \in Lane : SameViews(m)
    BY <1>2, <1>4, Zenon DEF LinkTypeOK, SameViews
  <2>5. frames' \subseteq Frames
    BY <1>2, <2>2, Zenon
  <2> QED
    BY <1>1, <1>2, <2>2, <2>3, <2>4, <2>5, DoneTidy, Zenon
<1> QED
  BY <1>1, <1>3, <1>4, Zenon

(* The next event of a body: a segment, the last one perhaps, or an error. *)
LEMMA EventTyped ==
    ASSUME LinkTypeOK, NEW l \in Lane, NEW e \in Events(l)
    PROVE  /\ e.final \in BOOLEAN /\ e.err \in BOOLEAN /\ e.body \in Nat
           /\ e.body # 0 => e.body = Len(read[l]) + 1
           /\ e.final => IF e.err THEN e.body \in {0, 1}
                         ELSE e.body = Length[l] /\ e.body # 0
<1>1. read[l] \in Seq(Nat) /\ Len(read[l]) \in Nat
  BY DEF LinkTypeOK
<1>2. CASE e = Segment(l)
  <2> DEFINE n == Len(read[l]) + 1
  <2>1. n \in Nat /\ n # 0
    BY <1>1
  <2>2. (n = Length[l]) \in BOOLEAN
    BY Zenon
  <2>3. e.body = n /\ e.final = (n = Length[l]) /\ e.err = FALSE
    BY <1>2, Zenon DEF Segment
  <2> QED
    BY <2>1, <2>2, <2>3, Zenon
<1>3. CASE e = [body |-> 0, final |-> TRUE, err |-> TRUE]
  BY <1>3
<1>4. CASE e = [body |-> 1, final |-> TRUE, err |-> TRUE] /\ read[l] = <<>>
  BY <1>4
<1>5. e = Segment(l) \/ e = [body |-> 0, final |-> TRUE, err |-> TRUE]
      \/ (e = [body |-> 1, final |-> TRUE, err |-> TRUE] /\ read[l] = <<>>)
  <2>1. CASE l = "request"
    BY <2>1, Zenon DEF Events, RequestEvents
  <2>2. CASE l = "response"
    <3> DEFINE broken == [body |-> IF read["response"] = <<>> THEN 1 ELSE 0, final |-> TRUE,
                          err |-> TRUE]
    <3>1. e \in {Segment("response"), broken}
      BY <2>2 DEF Events, ResponseEvents
    <3>2. \/ broken = [body |-> 0, final |-> TRUE, err |-> TRUE]
          \/ (broken = [body |-> 1, final |-> TRUE, err |-> TRUE] /\ read[l] = <<>>)
      BY <2>2, Zenon
    <3> QED
      BY <2>2, <3>1, <3>2, Zenon
  <2> QED
    BY <2>1, <2>2 DEF Lane
<1> QED
  BY <1>2, <1>3, <1>4, <1>5, Zenon

(* The source sends the next event of its body. *)
LEMMA SendDataTidy ==
    ASSUME Base, NEW l \in Lane, SendData(l)
    PROVE  Tidy(l)
<1> DEFINE s == Source(l)
           h == hold[s][l]
           ln == lanes[s][l]
           next(e) == IF ~e.final /\ ShouldPiggyback(ln) THEN Initiated(ln) ELSE ln
           frame(e) == [Frame(l, Sink(l), h.frame.reply, IF e.final THEN 0 ELSE next(e).local)
                          EXCEPT !.final = e.final, !.err = e.err, !.body = e.body]
<1>1. PICK e \in Events(l) :
        /\ read' = IF e.body = 0 THEN read ELSE [read EXCEPT ![l] = Append(@, e.body)]
        /\ \/ /\ frames' = frames \cup {frame(e)}
              /\ e.final
              /\ Stopped(s)
              /\ UNCHANGED lanes
           \/ /\ e.final /\ Finishes(s, l, {frame(e)})
              /\ UNCHANGED session
           \/ /\ ~e.final /\ Answers(s, l, next(e), frame(e))
              /\ UNCHANGED session
  BY DEF SendData
<1> DEFINE nx == next(e)
           f == frame(e)
           q == IF e.final THEN 0 ELSE nx.local
<1>2. /\ Holding(s, l) /\ ~h.frame.final
      /\ now' = now /\ wrote' = wrote /\ closed' = closed
  BY Zenon DEF SendData
<1>3. /\ LinkTypeOK /\ s \in Side /\ Sink(l) \in Side /\ Sink(l) = Peer(s)
      /\ read \in [Lane -> Seq(Nat)]
  BY SidesAndLanes, Zenon DEF Base, LinkTypeOK
<1>4. ln \in Views /\ h.frame.reply \in Int
  BY <1>2, <1>3, HoldTyped, Zenon
<1>5. Initiated(ln) \in Views
  BY <1>3, <1>4, ViewTyped, 0 \in Int, Zenon
<1>6. nx \in Views /\ q \in Int
  BY <1>4, <1>5 DEF Views
<1>7. /\ e.final \in BOOLEAN /\ e.err \in BOOLEAN /\ e.body \in Nat
      /\ e.body # 0 => e.body = Len(read[l]) + 1
      /\ e.final => IF e.err THEN e.body \in {0, 1} ELSE e.body = Length[l] /\ e.body # 0
  BY <1>3, EventTyped, Zenon
<1>8. f = [Frame(l, Sink(l), h.frame.reply, q) EXCEPT !.final = e.final, !.err = e.err,
                                                      !.body = e.body]
  BY Zenon
<1> HIDE DEF nx, f, q, next, frame
<1>9. /\ f \in Frames
      /\ f.lane = l /\ f.to = Sink(l) /\ f.at = h.frame.reply /\ f.reply = q
      /\ f.final = e.final /\ f.err = e.err /\ f.body = e.body
  <2> DEFINE at == h.frame.reply
             to == Sink(l)
             final == e.final
             err == e.err
             body == e.body
  <2>1. /\ l \in Lane /\ to \in Side /\ at \in Int /\ q \in Int
        /\ final \in BOOLEAN /\ err \in BOOLEAN /\ body \in Nat
    BY <1>3, <1>4, <1>6, <1>7, Zenon
  <2>2. f = [Frame(l, to, at, q) EXCEPT !.final = final, !.err = err, !.body = body]
    BY <1>8, Zenon
  <2> HIDE DEF at, to, final, err, body
  <2>3. f = [lane |-> l, to |-> to, at |-> at, reply |-> q, final |-> final, err |-> err,
             body |-> body]
    BY <2>2, Zenon DEF Frame
  <2>4. /\ f \in Frames
        /\ f.lane = l /\ f.to = to /\ f.at = at /\ f.reply = q
        /\ f.final = final /\ f.err = err /\ f.body = body
    BY <2>1, <2>3, Zenon DEF Frames
  <2> QED
    BY <2>4, Zenon DEF at, to, final, err, body
<1>10. f.to = Peer(s) /\ {f} \in SUBSET Frames
  BY <1>3, <1>9, Zenon
<1>11. /\ \/ /\ frames' = frames \cup {f}
             /\ f.final
             /\ Stopped(s)
             /\ lanes' = lanes
          \/ /\ f.final /\ Finishes(s, l, {f})
             /\ session' = session
          \/ /\ ~f.final /\ Answers(s, l, nx, f)
             /\ session' = session
       /\ read' = IF f.body = 0 THEN read ELSE [read EXCEPT ![l] = Append(@, f.body)]
  BY <1>1, <1>9, Zenon DEF f, nx
<1>12. Emptied(s, l)
  BY <1>3, <1>6, <1>9, <1>10, <1>11, StoppedEmpties, FinishesEmpties, AnswersEmpties, Zenon
<1>13. /\ frames' = frames \cup {f}
       /\ lanes' \in [Side -> [Lane -> Views]]
       /\ \A r \in Side, m \in Lane : r # s \/ m # l =>
              lanes'[r][m].local = lanes[r][m].local
       /\ ~f.final => f.reply = lanes'[s][l].local
  <2> HIDE DEF s, h, ln
  <2>1. CASE frames' = frames \cup {f} /\ f.final /\ lanes' = lanes
    BY <1>3, <2>1, Zenon DEF LinkTypeOK
  <2>2. CASE f.final /\ Finishes(s, l, {f})
    <3>1. /\ frames' = frames \cup {f}
          /\ lanes' \in [Side -> [Lane -> Views]]
          /\ \A r \in Side, m \in Lane : lanes'[r][m].local = lanes[r][m].local
      BY <1>3, <1>10, <2>2, FinishesDoes
    <3> QED
      BY <2>2, <3>1, Zenon
  <2>3. CASE ~f.final /\ Answers(s, l, nx, f)
    <3>1. /\ frames' = frames \cup {f}
          /\ lanes' \in [Side -> [Lane -> Views]] /\ lanes'[s][l] = nx
          /\ \A r \in Side, m \in Lane : r # s \/ m # l => lanes'[r][m] = lanes[r][m]
      BY <1>3, <1>6, <1>9, <2>3, AnswersDoes
    <3>2. f.reply = nx.local
      BY <1>9, <2>3, Zenon DEF q
    <3> QED
      BY <3>1, <3>2, Zenon
  <2> QED
    BY <1>11, <2>1, <2>2, <2>3, Zenon
<1>14. /\ read' \in [Lane -> Seq(Nat)] /\ \A m \in Lane : m # l => read'[m] = read[m]
       /\ read'[l] = IF f.body = 0 THEN read[l] ELSE Append(read[l], f.body)
  <2>1. f.body \in Nat /\ Append(read[l], f.body) \in Seq(Nat)
    BY <1>3, <1>7, <1>9
  <2> QED
    BY <1>3, <1>11, <2>1, Zenon
<1>15. Gave(s, l, f) => Move(l)
  <2>1. /\ f.body # 0 => f.body = Len(read[l]) + 1
        /\ f.final => IF f.err THEN f.body \in {0, 1} ELSE f.body = Length[l] /\ f.body # 0
    BY <1>7, <1>9, Zenon
  <2> QED
    BY <1>9, <1>14, <2>1, Zenon DEF Move, Sent
<1> HIDE DEF s
<1> QED
  BY <1>2, <1>9, <1>10, <1>12, <1>13, <1>14, <1>15, <1>3, GaveTidy, Zenon

-----------------------------------------------------------------------------
(* Every step keeps the base, and moves each lane in one of these ways. *)

Settled ==
    /\ Base'
    /\ \A l \in Lane : Move(l)
    /\ Gone => Gone'
    /\ session'["receiver"] = "new" => session["receiver"] = "new"

(* Turns keep the base: they are of sessions that have begun. *)
LEMMA TurnSettles ==
    ASSUME Base, NEW l \in Lane, Turn(l)
    PROVE  Settled
<1>1. Tidy(l)
  BY TakeAckTidy, TakeFrameTidy, SendDataTidy, SendEmptyTidy, SourceFailsTidy, SendAckTidy,
     SendFailureTidy, SinkDoneTidy, Zenon DEF Turn
<1>2. "sender" \in Side /\ "receiver" \in Side
  BY DEF Side
<1>3. session["sender"] # "new"
  BY <1>1, Zenon DEF Tidy, Base, Begun
<1>4. session'["sender"] # "new" /\ session'["receiver"] # "new"
  BY <1>1, <1>2, <1>3 DEF Tidy
<1>5. Begun'
  BY <1>4, Zenon DEF Begun
<1>6. Gone => Gone'
  BY <1>1, <1>2, Zenon DEF Tidy, Gone
<1> QED
  BY <1>1, <1>4, <1>5, <1>6, Zenon DEF Settled, Base, Tidy, Move

(* Nothing happens to the frames, the hands and the bodies. *)
LEMMA QuietSettles ==
    ASSUME Base, frames' = frames, lanes' = lanes, hold' = hold, read' = read, wrote' = wrote,
           closed' = closed, session' = session, answer' = answer, now' \in Int,
           inbox' = inbox \/ session["sender"] # "new"
    PROVE  Settled
<1>1. LinkTypeOK' /\ HeldIsOwn' /\ CallerOpen'
  <2>1. LinkTypeOK'
    BY Zenon DEF Base, LinkTypeOK
  <2>2. HeldIsOwn'
    BY DEF Base, HeldIsOwn, Holding, Running
  <2>3. CallerOpen'
    BY Zenon DEF Base, CallerOpen
  <2> QED
    BY <2>1, <2>2, <2>3, Zenon
<1>2. Begun'
  BY Zenon DEF Base, Begun, Holding
<1>3. \A l \in Lane : Idle(l)
  BY Zenon DEF Idle, Arrive, SameViews, SameStream
<1> QED
  BY <1>1, <1>2, <1>3, Zenon DEF Settled, Base, Move, Gone

(* The sender's session begins, before the receiver's. *)
LEMMA ServeHTTPSettles ==
    ASSUME Base, ServeHTTP
    PROVE  Settled
<1>1. LinkTypeOK /\ session["sender"] = "new" /\ session["receiver"] = "new"
  BY Zenon DEF ServeHTTP, Base, Begun
<1>2. /\ frames' = frames /\ hold' = hold /\ read' = read /\ wrote' = wrote
      /\ closed' = closed /\ now' = now /\ answer' = answer
      /\ session' = [session EXCEPT !["sender"] = "run"]
      /\ lanes' = [lanes EXCEPT !["sender"] = NewLanes(now)]
  BY Zenon DEF ServeHTTP
<1>3. frames = {} /\ \A s \in Side, l \in Lane : hold[s][l] = None
  BY <1>1, Zenon DEF Base, Begun, Holding
<1>4. /\ session' \in [Side -> {"new", "run", "over"}]
      /\ session'["sender"] = "run" /\ session'["receiver"] = "new"
  BY <1>1, <1>2 DEF LinkTypeOK, Side
<1>5. \A l \in Lane : NewLane(now) \in Views /\ NewLane(now).peer = 0
  <2>1. lanes["sender"]["request"] \in Views /\ 0 \in Int
    BY <1>1 DEF LinkTypeOK, Side, Lane
  <2> QED
    BY <1>1, <2>1, ViewTyped, Zenon
<1>6. NewLanes(now) \in [Lane -> Views] /\ \A l \in Lane : NewLanes(now)[l].peer = 0
  BY <1>5, Zenon DEF NewLanes
<1>7. /\ lanes' \in [Side -> [Lane -> Views]]
      /\ \A l \in Lane : lanes'["sender"][l].peer = 0
  BY <1>1, <1>2, <1>6 DEF LinkTypeOK, Side
<1>8. LinkTypeOK' /\ HeldIsOwn' /\ CallerOpen'
  <2>1. LinkTypeOK'
    BY <1>1, <1>2, <1>4, <1>7, Zenon DEF LinkTypeOK
  <2>2. HeldIsOwn'
    BY <1>2, <1>3, Zenon DEF HeldIsOwn, Holding
  <2>3. CallerOpen'
    BY <1>2, Zenon DEF Base, CallerOpen
  <2> QED
    BY <2>1, <2>2, <2>3, Zenon
<1>9. Begun'
  <2>1. answer # "clean" /\ \A l \in Lane : closed[l] # "end"
    BY <1>1, Zenon DEF Base, Begun
  <2> QED
    BY <1>2, <1>3, <1>4, <1>7, <2>1 DEF Begun, Holding
<1>10. \A l \in Lane : Fresh(l)
  BY <1>1, <1>2, <1>3, Zenon DEF Fresh, SameStream
<1> QED
  BY <1>1, <1>8, <1>9, <1>10 DEF Settled, Base, Move, Gone

(* The receiver's begins, with one frame in each lane. *)
LEMMA BootstrapSettles ==
    ASSUME Base, Bootstrap
    PROVE  Settled
<1>1. /\ LinkTypeOK /\ session["receiver"] = "new"
      /\ session["sender"] # "new"
  BY Zenon DEF Bootstrap, Base, Begun
<1>2. /\ hold' = hold /\ read' = read /\ wrote' = wrote
      /\ closed' = closed /\ now' = now /\ answer' = answer
      /\ session' = [session EXCEPT !["receiver"] = "run"]
      /\ lanes' = [lanes EXCEPT !["receiver"] = NewLanes(now)]
      /\ frames' = frames \cup
           {Frame(l, "receiver", now + Lifetime, lanes["sender"][l].local) : l \in Lane}
  BY Zenon DEF Bootstrap
<1>3. frames = {} /\ \A s \in Side, l \in Lane : hold[s][l] = None
  BY <1>1, Zenon DEF Base, Begun, Holding
<1>4. /\ session' \in [Side -> {"new", "run", "over"}]
      /\ session'["sender"] = session["sender"] /\ session'["receiver"] = "run"
  BY <1>1, <1>2 DEF LinkTypeOK, Side
<1>5. NewLane(now) \in Views /\ NewLane(now).local = now + Lifetime
  <2>1. lanes["sender"]["request"] \in Views /\ 0 \in Int
    BY <1>1 DEF LinkTypeOK, Side, Lane
  <2> QED
    BY <1>1, <2>1, ViewTyped, Zenon
<1>6. /\ NewLanes(now) \in [Lane -> Views]
      /\ \A l \in Lane : NewLanes(now)[l].local = now + Lifetime
  BY <1>5, Zenon DEF NewLanes
<1>7. /\ lanes' \in [Side -> [Lane -> Views]]
      /\ \A l \in Lane : /\ lanes'["receiver"][l].local = now + Lifetime
                         /\ lanes'["sender"][l] = lanes["sender"][l]
  BY <1>1, <1>2, <1>6 DEF LinkTypeOK, Side
<1>8. \A l \in Lane : now + Lifetime \in Int /\ lanes["sender"][l].local \in Int
  BY <1>1, LifetimeIsTime DEF LinkTypeOK, Views, Side
<1> DEFINE seed(l) == Frame(l, "receiver", now + Lifetime, lanes["sender"][l].local)
<1>9. \A l \in Lane : seed(l) \in Frames /\ seed(l).lane = l
  BY <1>8, AckTyped, "receiver" \in Side DEF Side
<1>10. \A f \in frames' : \E l \in Lane : f = seed(l)
  BY <1>2, <1>3, Zenon
<1>11. frames' \subseteq Frames /\ \A f \in frames', l \in Lane : f.lane = l => f = seed(l)
  <2>1. ASSUME NEW f \in frames'
        PROVE  f \in Frames /\ \A l \in Lane : f.lane = l => f = seed(l)
    <3>1. PICK m \in Lane : f = seed(m)
      BY <1>10, Zenon
    <3> HIDE DEF seed
    <3>2. f.lane = m /\ f \in Frames
      BY <1>9, <3>1, Zenon
    <3> QED
      BY <3>1, <3>2, Zenon
  <2> QED
    BY <2>1, Zenon
<1>12. LinkTypeOK' /\ HeldIsOwn' /\ CallerOpen'
  <2>1. LinkTypeOK'
    BY <1>1, <1>2, <1>4, <1>7, <1>11, Zenon DEF LinkTypeOK
  <2>2. HeldIsOwn'
    BY <1>2, <1>3, Zenon DEF HeldIsOwn, Holding
  <2>3. CallerOpen'
    BY <1>2, Zenon DEF Base, CallerOpen
  <2> QED
    BY <2>1, <2>2, <2>3, Zenon
<1>13. Begun'
  BY <1>1, <1>4 DEF Begun
<1>14. ASSUME NEW l \in Lane PROVE Seeded(l)
  <2>1. seed(l) =
          Frame(l, "receiver", lanes'["receiver"][l].local, lanes'["sender"][l].local)
    BY <1>7, Zenon
  <2> QED
    BY <1>1, <1>2, <1>3, <1>11, <2>1, Zenon DEF Seeded, SameStream
<1> QED
  BY <1>4, <1>12, <1>13, <1>14, Zenon DEF Settled, Base, Move, Gone

(* The sender's session ends. *)
LEMMA SenderEndsSettles ==
    ASSUME Base, NEW result, result # "clean", NEW telling, SenderEnds(result, telling),
           now' = now, lanes' = lanes, read' = read, wrote' = wrote, closed' = closed
    PROVE  Settled
<1>1. LinkTypeOK /\ HeldIsOwn /\ "sender" \in Side /\ "receiver" \in Side /\ "request" \in Lane
  BY DEF Base, Side, Lane
<1>2. /\ Stopped("sender") /\ answer' = result
      /\ frames' \subseteq Frames
      /\ \A f \in frames' : f \in frames \/ Notice(f)
      /\ lanes["sender"]["request"].peer = 0 => frames' = frames
  BY <1>1, SenderEndsDoes, Zenon
<1>3. \A l \in Lane : Emptied("sender", l)
  BY <1>1, <1>2, StoppedEmpties, Zenon
<1>4. /\ HeldIsOwn'
      /\ \A r \in Side, m \in Lane : hold'[r][m] = hold[r][m] \/ hold'[r][m] = None
  BY <1>1, <1>3, EmptiedOwn, Zenon
<1>5. session'["sender"] = "over" /\ session'["receiver"] = session["receiver"]
  BY <1>1, <1>2, StoppedDoes
<1>6. LinkTypeOK' /\ CallerOpen'
  BY <1>1, <1>2, <1>3, Zenon DEF Base, LinkTypeOK, CallerOpen, Emptied
<1>7. Begun'
  <2>1. ASSUME session["receiver"] = "new"
        PROVE  /\ frames' = {} /\ answer' # "clean"
               /\ \A s \in Side, l \in Lane : ~Holding(s, l)'
               /\ \A l \in Lane : lanes'["sender"][l].peer = 0 /\ closed'[l] # "end"
    BY <1>1, <1>2, <1>4, <2>1, Zenon DEF Base, Begun, Holding
  <2> QED
    BY <1>5, <2>1 DEF Begun, Holding
<1>8. \A l \in Lane : Idle(l)
  BY <1>2, <1>4, <1>5, Zenon DEF Idle, Arrive, SameStream, SameViews, Gone
<1> QED
  BY <1>4, <1>5, <1>6, <1>7, <1>8, Zenon DEF Settled, Base, Move, Gone

(* The receiver's does. *)
LEMMA ReceiverEndsSettles ==
    ASSUME Base, Running("receiver"), Stopped("receiver"),
           now' = now, frames' = frames, lanes' = lanes, read' = read, wrote' = wrote,
           closed' = closed
    PROVE  Settled
<1>1. LinkTypeOK /\ HeldIsOwn /\ "sender" \in Side /\ "receiver" \in Side /\ "request" \in Lane
  BY DEF Base, Side, Lane
<1>2. \A l \in Lane : Emptied("receiver", l)
  BY <1>1, StoppedEmpties, Zenon
<1>3. /\ HeldIsOwn'
      /\ \A r \in Side, m \in Lane : hold'[r][m] = hold[r][m] \/ hold'[r][m] = None
  BY <1>1, <1>2, EmptiedOwn, Zenon
<1>4. session'["receiver"] = "over" /\ session'["sender"] = session["sender"]
  BY <1>1, StoppedDoes
<1>5. LinkTypeOK' /\ CallerOpen'
  BY <1>1, <1>2, Zenon DEF Base, LinkTypeOK, CallerOpen, Emptied
<1>6. session["sender"] # "new"
  BY DEF Running, Base, Begun
<1>7. Begun'
  BY <1>4, <1>6 DEF Begun
<1>8. \A l \in Lane : Idle(l)
  BY <1>3, Zenon DEF Idle, Arrive, SameStream, SameViews
<1> QED
  BY <1>3, <1>4, <1>5, <1>7, <1>8, Zenon DEF Settled, Base, Move, Gone

(* Frames are collected. *)
LEMMA CollectSettles ==
    ASSUME Base, Collect
    PROVE  Settled
<1>1. /\ now' = now /\ lanes' = lanes /\ hold' = hold /\ read' = read /\ wrote' = wrote
      /\ closed' = closed /\ session' = session
  BY Zenon DEF Collect
<1>2. frames' \subseteq frames /\ session["receiver"] # "new"
  BY UnderWay, Zenon DEF Collect
<1>3. LinkTypeOK'
  BY <1>1, <1>2, Zenon DEF Base, LinkTypeOK
<1>4. HeldIsOwn'
  BY <1>1 DEF Base, HeldIsOwn, Holding, Running
<1>5. Begun' /\ CallerOpen'
  BY <1>1, <1>2, Zenon DEF Base, Begun, CallerOpen
<1>6. \A l \in Lane : Idle(l)
  BY <1>1, <1>2, Zenon DEF Idle, Arrive, SameViews, SameStream
<1> QED
  BY <1>1, <1>3, <1>4, <1>5, <1>6, Zenon DEF Settled, Base, Move, Gone

(* A step keeps the base, and moves each lane in one of the ways above. *)
LEMMA StepSettles ==
    ASSUME Base, [Next]_vars
    PROVE  Settled
<1>1. now \in Int /\ now + 1 \in Int
  BY DEF Base, LinkTypeOK
<1>2. CASE ServeHTTP
  BY <1>2, ServeHTTPSettles, Zenon
<1>3. CASE ClaimInbox
  <2>1. session["sender"] # "new"
    BY <1>3 DEF ClaimInbox, Base, Begun
  <2> QED
    BY <1>1, <1>3, <2>1, QuietSettles, Zenon DEF ClaimInbox
<1>4. CASE Bootstrap
  BY <1>4, BootstrapSettles, Zenon
<1>5. CASE \E l \in Lane : Turn(l)
  BY <1>5, TurnSettles, Zenon
<1>6. Broken # "clean" /\ "gone" # "clean"
  BY DEF Broken
<1>7. CASE SenderExpires \/ SenderGivesUp
  BY <1>6, <1>7, SenderEndsSettles, Zenon DEF SenderExpires, SenderGivesUp
<1>8. CASE ReceiverGivesUp
  <2>1. Running("receiver")
    BY <1>8, Zenon DEF ReceiverGivesUp, Expired, Silent
  <2> QED
    BY <1>8, <2>1, ReceiverEndsSettles, Zenon DEF ReceiverGivesUp
<1>9. CASE SenderFails
  <2>1. PICK result \in {"gone", Broken} : SenderEnds(result, TRUE)
    BY <1>9, Zenon DEF SenderFails
  <2>2. result # "clean"
    BY <1>6, Zenon
  <2> QED
    BY <1>9, <2>1, <2>2, SenderEndsSettles, Zenon DEF SenderFails
<1>10. CASE ReceiverCrashes
  <2>1. CASE Running("receiver")
    BY <1>10, <2>1, ReceiverEndsSettles, Zenon DEF ReceiverCrashes
  <2>2. CASE ~Running("receiver")
    <3>1. session["sender"] # "new"
      BY <1>10, <2>2 DEF ReceiverCrashes, Base, Begun
    <3> QED
      BY <1>1, <1>10, <2>2, <3>1, QuietSettles, Zenon DEF ReceiverCrashes
  <2> QED
    BY <2>1, <2>2, Zenon
<1>11. CASE Collect
  BY <1>11, CollectSettles, Zenon
<1>12. CASE Tick
  BY <1>1, <1>12, QuietSettles, Zenon DEF Tick
<1>13. CASE UNCHANGED vars
  BY <1>1, <1>13, QuietSettles, Zenon DEF vars
<1> QED
  BY <1>2, <1>3, <1>4, <1>5, <1>7, <1>8, <1>9, <1>10, <1>11, <1>12, <1>13, Zenon
     DEF Next, Timers

-----------------------------------------------------------------------------
(* A lane holds one frame, in the queue it is awaited in. *)

(* A notice of a sender that is gone is no part of the lane's turns. *)
Counts(f, gone) == ~(Notice(f) /\ gone)

(* What a lane holds, in its queues and hands, is one frame. *)
Single(l) ==
    /\ \A f, g \in frames :
        f.lane = l /\ g.lane = l /\ Counts(f, Gone) /\ Counts(g, Gone) => f = g
    /\ \A s \in Side : Holding(s, l) /\ Counts(hold[s][l].frame, Gone) =>
        /\ ~(Holding(Peer(s), l) /\ Counts(hold[Peer(s)][l].frame, Gone))
        /\ \A f \in frames : f.lane = l => ~Counts(f, Gone)

(* A frame that wants an answer is where it is awaited, and says where its *)
(* answer is.                                                              *)
Route(l) ==
    /\ \A f \in frames : f.lane = l /\ ~f.final =>
        f.at = lanes[f.to][l].local /\ f.reply = lanes[Peer(f.to)][l].local
    /\ \A s \in Side : Holding(s, l) /\ ~hold[s][l].frame.final =>
        hold[s][l].frame.reply = lanes[Peer(s)][l].local

(* There are two sides. *)
LEMMA PeerIsOther ==
    ASSUME NEW s \in Side
    PROVE  /\ Peer(s) \in Side /\ Peer(s) # s /\ Peer(Peer(s)) = s
           /\ \A r \in Side : r = s \/ r = Peer(s)
  BY DEF Peer, Side

(* A lane that is left alone has what it had, or less. *)
LEMMA IdleSingle ==
    ASSUME LinkTypeOK, Gone => Gone', NEW l \in Lane, Single(l), Route(l), Idle(l)
    PROVE  Single(l)' /\ Route(l)'
<1>1. \A f \in frames' : f.lane = l /\ Counts(f, Gone') => f \in frames /\ Counts(f, Gone)
  BY Zenon DEF Idle, Arrive, Counts
<1>2. \A s \in Side : hold'[s][l] # None => hold'[s][l] = hold[s][l]
  BY Zenon DEF Idle
<1>3. \A f : Counts(f, Gone') => Counts(f, Gone)
  BY Zenon DEF Counts
<1>4. \A f \in frames' : f.lane = l /\ ~f.final => f \in frames
  BY Zenon DEF Idle, Arrive, Notice
<1>5. \A f \in frames : f.to \in Side
  BY DEF LinkTypeOK, Frames
<1>6. \A s \in Side : Peer(s) \in Side
  BY PeerIsOther, Zenon
<1>7. \A s \in Side : lanes'[s][l].local = lanes[s][l].local
  BY Zenon DEF Idle, SameViews
<1>8. ASSUME NEW f \in frames', NEW g \in frames', f.lane = l, g.lane = l,
             Counts(f, Gone'), Counts(g, Gone')
      PROVE  f = g
  BY <1>1, <1>8, Zenon DEF Single
<1>9. ASSUME NEW s \in Side, hold'[s][l] # None, Counts(hold'[s][l].frame, Gone')
      PROVE  /\ ~(hold'[Peer(s)][l] # None /\ Counts(hold'[Peer(s)][l].frame, Gone'))
             /\ \A f \in frames' : f.lane = l => ~Counts(f, Gone')
  <2>1. hold[s][l] # None /\ Counts(hold[s][l].frame, Gone)
    <3>1. hold'[s][l] = hold[s][l]
      BY <1>2, <1>9, Zenon
    <3> QED
      BY <1>3, <1>9, <3>1, Zenon
  <2>2. /\ ~(Holding(Peer(s), l) /\ Counts(hold[Peer(s)][l].frame, Gone))
        /\ \A f \in frames : f.lane = l => ~Counts(f, Gone)
    BY <2>1, Zenon DEF Single, Holding
  <2>3. hold'[Peer(s)][l] # None /\ Counts(hold'[Peer(s)][l].frame, Gone') =>
          Holding(Peer(s), l) /\ Counts(hold[Peer(s)][l].frame, Gone)
    <3> SUFFICES ASSUME hold'[Peer(s)][l] # None, Counts(hold'[Peer(s)][l].frame, Gone')
                 PROVE  hold[Peer(s)][l] # None /\ Counts(hold[Peer(s)][l].frame, Gone)
      BY Zenon DEF Holding
    <3>1. hold'[Peer(s)][l] = hold[Peer(s)][l]
      BY <1>2, <1>6, Zenon
    <3> QED
      BY <1>3, <3>1, Zenon
  <2> QED
    BY <1>1, <2>2, <2>3, Zenon
<1>10. Single(l)'
  BY <1>8, <1>9, Zenon DEF Single, Holding
<1>11. ASSUME NEW f \in frames', f.lane = l, ~f.final
       PROVE  f.at = lanes'[f.to][l].local /\ f.reply = lanes'[Peer(f.to)][l].local
  <2>1. f \in frames /\ f.to \in Side /\ Peer(f.to) \in Side
    BY <1>4, <1>5, <1>6, <1>11, Zenon
  <2>2. f.at = lanes[f.to][l].local /\ f.reply = lanes[Peer(f.to)][l].local
    BY <1>11, <2>1, Zenon DEF Route
  <2> QED
    BY <1>7, <2>1, <2>2, Zenon
<1>12. ASSUME NEW s \in Side, hold'[s][l] # None, ~hold'[s][l].frame.final
       PROVE  hold'[s][l].frame.reply = lanes'[Peer(s)][l].local
  <2>1. hold'[s][l] = hold[s][l]
    BY <1>2, <1>12, Zenon
  <2>2. hold[s][l].frame.reply = lanes[Peer(s)][l].local
    BY <1>12, <2>1 DEF Route, Holding
  <2> QED
    BY <1>6, <1>7, <2>1, <2>2, Zenon
<1>13. Route(l)'
  BY <1>11, <1>12, Zenon DEF Route, Holding
<1> QED
  BY <1>10, <1>13, Zenon

(* A session begins with one frame in a lane, where the receiver looks. *)
LEMMA SeededSingle ==
    ASSUME LinkTypeOK', NEW l \in Lane, Fresh(l) \/ Seeded(l)
    PROVE  Single(l)' /\ Route(l)'
<1> DEFINE f == Frame(l, "receiver", lanes'["receiver"][l].local, lanes'["sender"][l].local)
<1>1. "receiver" \in Side /\ "sender" \in Side /\ Peer("receiver") = "sender"
  BY DEF Side, Peer
<1>2. lanes'["receiver"][l].local \in Int /\ lanes'["sender"][l].local \in Int
  BY <1>1 DEF LinkTypeOK, Views
<1>3. /\ f.to = "receiver"
      /\ f.at = lanes'["receiver"][l].local /\ f.reply = lanes'["sender"][l].local
  BY <1>1, <1>2, AckTyped
<1>4. \A g \in frames' : g.lane = l => g = f
  BY Zenon DEF Fresh, Seeded
<1>5. \A s \in Side : hold'[s][l] = None
  BY Zenon DEF Fresh, Seeded
<1> HIDE DEF f
<1>6. Single(l)'
  BY <1>4, <1>5, Zenon DEF Single, Holding
<1>7. ASSUME NEW g \in frames', g.lane = l
      PROVE  g.at = lanes'[g.to][l].local /\ g.reply = lanes'[Peer(g.to)][l].local
  <2>1. g = f
    BY <1>4, <1>7, Zenon
  <2> QED
    BY <1>1, <1>3, <2>1
<1>8. Route(l)'
  BY <1>5, <1>7, Zenon DEF Route, Holding
<1> QED
  BY <1>6, <1>8, Zenon

(* A frame that is taken goes from its queue to a hand. *)
LEMMA TookSingle ==
    ASSUME LinkTypeOK, NEW l \in Lane, Single(l), Route(l),
           NEW s \in Side, NEW f \in frames, Took(s, l, f)
    PROVE  Single(l)' /\ Route(l)'
<1>1. /\ frames' = frames \ {f} /\ f.lane = l /\ f.to = s /\ hold[s][l] = None
      /\ hold'[s][l].frame = f /\ hold'[Peer(s)][l] = hold[Peer(s)][l]
      /\ \A r \in Side : lanes'[r][l].local = lanes[r][l].local
      /\ Gone' = Gone
  BY Zenon DEF Took, SameViews, Gone
<1>2. Peer(s) \in Side /\ Peer(s) # s /\ Peer(Peer(s)) = s /\ \A r \in Side : r = s \/ r = Peer(s)
  BY PeerIsOther, Zenon
<1>3. ASSUME NEW g \in frames', NEW k \in frames', g.lane = l, k.lane = l,
             Counts(g, Gone'), Counts(k, Gone')
      PROVE  g = k
  BY <1>1, <1>3, Zenon DEF Single
<1> DEFINE p == Peer(s)
           hp == hold[p][l]
<1>4. ASSUME hp # None, Counts(hp.frame, Gone)
      PROVE  \A g \in frames : g.lane = l => ~Counts(g, Gone)
  BY <1>2, <1>4, Zenon DEF Single, Holding
<1>5. ASSUME Counts(f, Gone)
      PROVE  /\ ~(hp # None /\ Counts(hp.frame, Gone))
             /\ \A g \in frames' : g.lane = l => ~Counts(g, Gone)
  <2>1. ~(hp # None /\ Counts(hp.frame, Gone))
    BY <1>1, <1>4, <1>5, Zenon
  <2>2. ASSUME NEW g \in frames', g.lane = l, Counts(g, Gone) PROVE FALSE
    <3>1. g \in frames /\ g # f
      BY <1>1, Zenon
    <3> QED
      BY <1>1, <1>5, <2>2, <3>1, Zenon DEF Single
  <2> QED
    BY <2>1, <2>2, Zenon
<1>6. ASSUME NEW r \in Side, hold'[r][l] # None, Counts(hold'[r][l].frame, Gone')
      PROVE  /\ ~(hold'[Peer(r)][l] # None /\ Counts(hold'[Peer(r)][l].frame, Gone'))
             /\ \A g \in frames' : g.lane = l => ~Counts(g, Gone')
  <2>1. CASE r = s
    <3>1. Counts(f, Gone)
      BY <1>1, <1>6, <2>1, Zenon
    <3> QED
      BY <1>1, <1>5, <2>1, <3>1, Zenon
  <2>2. CASE r = p
    <3>1. hp # None /\ Counts(hp.frame, Gone)
      BY <1>1, <1>6, <2>2, Zenon
    <3>2. \A g \in frames : g.lane = l => ~Counts(g, Gone)
      BY <1>4, <3>1, Zenon
    <3>3. ~Counts(f, Gone)
      BY <1>1, <3>2, Zenon
    <3>4. Peer(r) = s /\ ~Counts(hold'[s][l].frame, Gone')
      BY <1>1, <1>2, <2>2, <3>3, Zenon
    <3> QED
      BY <1>1, <3>2, <3>4, Zenon
  <2> QED
    BY <1>2, <2>1, <2>2, Zenon
<1>7. Single(l)'
  BY <1>3, <1>6, Zenon DEF Single, Holding
<1>8. \A g \in frames : g.to \in Side /\ Peer(g.to) \in Side
  BY PeerIsOther DEF LinkTypeOK, Frames
<1>9. ASSUME NEW g \in frames', g.lane = l, ~g.final
      PROVE  g.at = lanes'[g.to][l].local /\ g.reply = lanes'[Peer(g.to)][l].local
  <2>1. g \in frames
    BY <1>1, Zenon
  <2>2. g.at = lanes[g.to][l].local /\ g.reply = lanes[Peer(g.to)][l].local
    BY <1>9, <2>1, Zenon DEF Route
  <2> QED
    BY <1>1, <1>8, <2>1, <2>2, Zenon
<1>10. ASSUME NEW r \in Side, hold'[r][l] # None, ~hold'[r][l].frame.final
       PROVE  hold'[r][l].frame.reply = lanes'[Peer(r)][l].local
  <2>1. CASE r = s
    <3>1. f.reply = lanes[p][l].local
      BY <1>1, <1>10, <2>1, Zenon DEF Route
    <3> QED
      BY <1>1, <1>2, <2>1, <3>1, Zenon
  <2>2. CASE r = p
    <3>1. hp # None /\ ~hp.frame.final /\ Peer(p) = s
      BY <1>1, <1>2, <1>10, <2>2, Zenon
    <3>2. hp.frame.reply = lanes[s][l].local
      BY <1>2, <3>1, Zenon DEF Route, Holding
    <3> QED
      BY <1>1, <2>2, <3>1, <3>2, Zenon
  <2> QED
    BY <1>2, <2>1, <2>2, Zenon
<1>11. Route(l)'
  BY <1>9, <1>10, Zenon DEF Route, Holding
<1> QED
  BY <1>7, <1>11, Zenon

(* While a frame that wants an answer is in hand, there is no other. *)
LEMMA GaveAlone ==
    ASSUME Gone => Gone', NEW l \in Lane, Single(l),
           NEW s \in Side, NEW f \in Frames, Gave(s, l, f)
    PROVE  /\ \A g \in frames : g.lane = l => ~Counts(g, Gone)
           /\ \A g \in frames' : g.lane = l /\ Counts(g, Gone') => g = f
           /\ \A r \in Side : ~(hold'[r][l] # None /\ Counts(hold'[r][l].frame, Gone'))
<1>1. /\ hold[s][l] # None /\ ~hold[s][l].frame.final
      /\ hold'[s][l] = None /\ hold'[Peer(s)][l] = hold[Peer(s)][l]
      /\ Arrive(l, {f})
  BY Zenon DEF Gave
<1>2. \A g : Counts(g, Gone') => Counts(g, Gone)
  BY Zenon DEF Counts
<1>3. Counts(hold[s][l].frame, Gone)
  BY <1>1, Zenon DEF Counts, Notice
<1>4. /\ ~(hold[Peer(s)][l] # None /\ Counts(hold[Peer(s)][l].frame, Gone))
      /\ \A g \in frames : g.lane = l => ~Counts(g, Gone)
  BY <1>1, <1>3, Zenon DEF Single, Holding
<1>5. ASSUME NEW g \in frames', g.lane = l, Counts(g, Gone') PROVE g = f
  <2>1. g \in frames \/ g = f
    BY <1>1, <1>5, Zenon DEF Arrive, Counts
  <2> QED
    BY <1>2, <1>4, <1>5, <2>1, Zenon
<1>6. ASSUME NEW r \in Side, hold'[r][l] # None, Counts(hold'[r][l].frame, Gone') PROVE FALSE
  <2>1. r = Peer(s)
    BY <1>1, <1>6, PeerIsOther, Zenon
  <2>2. hold[Peer(s)][l] # None /\ Counts(hold[Peer(s)][l].frame, Gone')
    BY <1>1, <1>6, <2>1, Zenon
  <2> QED
    BY <1>2, <1>4, <2>2, Zenon
<1> QED
  BY <1>4, <1>5, <1>6, Zenon

(* An answer is put where the other side has said it awaits it. *)
LEMMA GaveSingle ==
    ASSUME Gone => Gone', NEW l \in Lane, Single(l), Route(l),
           NEW s \in Side, NEW f \in Frames, Gave(s, l, f)
    PROVE  Single(l)' /\ Route(l)'
<1>1. /\ \A g \in frames' : g.lane = l /\ Counts(g, Gone') => g = f
      /\ \A r \in Side : ~(hold'[r][l] # None /\ Counts(hold'[r][l].frame, Gone'))
  BY GaveAlone, Zenon
<1>2. Single(l)'
  BY <1>1, Zenon DEF Single, Holding
<1>3. /\ hold[s][l] # None /\ ~hold[s][l].frame.final
      /\ f.to = Peer(s) /\ f.at = hold[s][l].frame.reply
      /\ lanes'[Peer(s)][l].local = lanes[Peer(s)][l].local
      /\ ~f.final => f.reply = lanes'[s][l].local
  BY Zenon DEF Gave
<1>4. hold[s][l].frame.reply = lanes[Peer(s)][l].local
  BY <1>3, Zenon DEF Route, Holding
<1>5. Peer(Peer(s)) = s
  BY PeerIsOther, Zenon
<1>6. ASSUME NEW g \in frames', g.lane = l, ~g.final
      PROVE  g.at = lanes'[g.to][l].local /\ g.reply = lanes'[Peer(g.to)][l].local
  <2>1. Counts(g, Gone')
    BY <1>6, Zenon DEF Counts, Notice
  <2>2. g = f
    BY <1>1, <1>6, <2>1, Zenon
  <2> QED
    BY <1>3, <1>4, <1>5, <1>6, <2>2
<1>7. ASSUME NEW r \in Side, hold'[r][l] # None PROVE hold'[r][l].frame.final
  BY <1>1, <1>7, Zenon DEF Counts, Notice
<1>8. Route(l)'
  BY <1>6, <1>7, Zenon DEF Route, Holding
<1> QED
  BY <1>2, <1>8, Zenon

(* However a lane moves, it has one frame, on its route. *)
LEMMA MoveSingle ==
    ASSUME LinkTypeOK, LinkTypeOK', Gone => Gone', NEW l \in Lane, Single(l), Route(l), Move(l)
    PROVE  Single(l)' /\ Route(l)'
<1>1. Source(l) \in Side /\ Sink(l) \in Side
  BY SidesAndLanes, Zenon
<1>2. CASE Idle(l)
  BY <1>2, IdleSingle, Zenon
<1>3. CASE Fresh(l) \/ Seeded(l)
  BY <1>3, SeededSingle, Zenon
<1>4. CASE \E s \in Side, f \in frames : Took(s, l, f)
  BY <1>4, TookSingle, Zenon
<1>5. CASE \E f \in Frames : Acked(l, f) \/ Sent(l, f)
  BY <1>1, <1>5, GaveSingle, Zenon DEF Acked, Sent
<1> QED
  BY <1>2, <1>3, <1>4, <1>5, Zenon DEF Move

-----------------------------------------------------------------------------
(* Bodies arrive in order, and whole. *)

(* What a frame of a lane carries, when r segments have been read and w    *)
(* written: the one segment under way, or nothing.                         *)
Carried(l, f, r, w) ==
    /\ f.to = Sink(l) /\ f.body # 0 => f.body = r /\ w + 1 = r
    /\ ~f.final /\ (f.to = Source(l) \/ f.body = 0) => w = r
    /\ f.to = Sink(l) /\ f.final =>
        IF f.err THEN f.body \in {0, 1} ELSE f.body = Length[l] /\ f.body # 0

(* What a frame in hand says: all that was read is written, unless a sink  *)
(* has failed to; and at a response's end, how its stream was closed.      *)
InHand(l, s, h, r, w, c) ==
    /\ ~h.frame.final /\ ~(s = Sink(l) /\ h.failed) => w = r
    /\ s = Sink(l) /\ l = "response" /\ h.frame.final /\ ~h.failed =>
        \/ h.frame.err /\ h.frame.body = 0
        \/ w = r /\ (c = "end" \/ w = 1)

(* No frame of the lane wants an answer. *)
Quiet(l) ==
    /\ \A f \in frames : f.lane = l => f.final
    /\ \A s \in Side : Holding(s, l) => hold[s][l].frame.final

Flow(l) ==
    LET r == Len(read[l])
        w == Len(wrote[l])
    IN  /\ read[l] = Count(r) /\ wrote[l] = Count(w) /\ w <= r
        /\ session["receiver"] = "new" => w = r
        /\ \A f \in frames : f.lane = l => Carried(l, f, r, w)
        /\ \A s \in Side : Holding(s, l) => InHand(l, s, hold[s][l], r, w, closed[l])
        /\ closed[l] = "end" => w = r /\ w = Length[l] /\ Quiet(l)

(* A caller who was told of no failure has all there was. *)
Clean ==
    answer = "clean" =>
        LET w == Len(wrote["response"])
        IN  /\ Gone /\ Quiet("response")
            /\ w = Len(read["response"])
            /\ closed["response"] = "end" \/ w = 1

(* The segment after the first n makes it the first n + 1. *)
LEMMA CountGrows ==
    ASSUME NEW n \in Nat
    PROVE  /\ Count(n) \in Seq(Nat) /\ Len(Count(n)) = n
           /\ Append(Count(n), n + 1) = Count(n + 1)
           /\ Len(Append(Count(n), n + 1)) = n + 1
  BY DEF Count

(* Bodies have lengths. *)
LEMMA Lengths ==
    ASSUME LinkTypeOK, NEW l \in Lane
    PROVE  Len(read[l]) \in Nat /\ Len(wrote[l]) \in Nat
  BY DEF LinkTypeOK

(* A notice carries nothing, whatever has been read and written. *)
LEMMA NoticeCarried ==
    ASSUME NEW l \in Lane, NEW f, Notice(f), f.lane = l, NEW r, NEW w
    PROVE  Carried(l, f, r, w) /\ f.final
  BY DEF Carried, Notice, Source, Sink

(* A lane that is left alone carries what it carried. *)
LEMMA IdleFlows ==
    ASSUME LinkTypeOK, NEW l \in Lane, Flow(l), Idle(l),
           session'["receiver"] = "new" => session["receiver"] = "new"
    PROVE  Flow(l)'
<1> DEFINE r == Len(read[l])
           w == Len(wrote[l])
<1>1. Len(read'[l]) = r /\ Len(wrote'[l]) = w /\ closed'[l] = closed[l]
  BY Zenon DEF Idle, SameStream
<1>2. read'[l] = Count(r) /\ wrote'[l] = Count(w) /\ w <= r
  BY Zenon DEF Flow, Idle, SameStream
<1> HIDE DEF r, w
<1>3. ASSUME NEW f \in frames', f.lane = l
      PROVE  /\ Carried(l, f, r, w)
             /\ f \in frames \/ f.final
  <2>1. CASE f \in frames
    BY <1>3, <2>1, Zenon DEF Flow, r, w
  <2>2. CASE Notice(f)
    BY <1>3, <2>2, NoticeCarried, Zenon
  <2> QED
    BY <1>3, <2>1, <2>2, Zenon DEF Idle, Arrive
<1>4. ASSUME NEW s \in Side, hold'[s][l] # None
      PROVE  InHand(l, s, hold'[s][l], r, w, closed[l])
  <2>1. hold'[s][l] = hold[s][l]
    BY <1>4, Zenon DEF Idle
  <2>2. InHand(l, s, hold[s][l], r, w, closed[l])
    BY <1>4, <2>1, Zenon DEF Flow, Holding, r, w
  <2> QED
    BY <2>1, <2>2, Zenon
<1>5. ASSUME closed[l] = "end"
      PROVE  /\ w = r /\ w = Length[l]
             /\ \A f \in frames' : f.lane = l => f.final
             /\ \A s \in Side : hold'[s][l] # None => hold'[s][l].frame.final
  <2>1. w = r /\ w = Length[l] /\ Quiet(l)
    BY <1>5, Zenon DEF Flow, r, w
  <2>2. ASSUME NEW s \in Side, hold'[s][l] # None PROVE hold'[s][l].frame.final
    <3>1. hold'[s][l] = hold[s][l]
      BY <2>2, Zenon DEF Idle
    <3>2. hold[s][l].frame.final
      BY <2>1, <2>2, <3>1, Zenon DEF Quiet, Holding
    <3> QED
      BY <3>1, <3>2, Zenon
  <2> QED
    BY <1>3, <2>1, <2>2, Zenon DEF Quiet
<1>6. session["receiver"] = "new" => w = r
  BY Zenon DEF Flow, r, w
<1> QED
  BY <1>1, <1>2, <1>3, <1>4, <1>5, <1>6, Zenon DEF Flow, Quiet, Holding

(* A session begins with nothing read and nothing written. *)
LEMMA SeededFlows ==
    ASSUME Base, LinkTypeOK', NEW l \in Lane, Flow(l), Fresh(l) \/ Seeded(l)
    PROVE  Flow(l)'
<1> DEFINE r == Len(read[l])
           w == Len(wrote[l])
           f == Frame(l, "receiver", lanes'["receiver"][l].local, lanes'["sender"][l].local)
<1>1. Len(read'[l]) = r /\ Len(wrote'[l]) = w /\ closed'[l] = closed[l]
  BY Zenon DEF Fresh, Seeded, SameStream
<1>2. read'[l] = Count(r) /\ wrote'[l] = Count(w) /\ w <= r
  BY Zenon DEF Flow, Fresh, Seeded, SameStream
<1>3. w = r /\ closed[l] # "end"
  BY Zenon DEF Flow, Fresh, Seeded, Base, Begun
<1>4. /\ \A g \in frames' : g.lane = l => g = f
      /\ \A s \in Side : hold'[s][l] = None
  BY Zenon DEF Fresh, Seeded
<1>5. lanes'["receiver"][l].local \in Int /\ lanes'["sender"][l].local \in Int
  BY DEF LinkTypeOK, Views, Side
<1>6. f.body = 0 /\ ~f.final
  BY <1>5, AckTyped DEF Side
<1> HIDE DEF r, w, f
<1>7. Carried(l, f, r, w)
  BY <1>3, <1>6, Zenon DEF Carried
<1> QED
  BY <1>1, <1>2, <1>3, <1>4, <1>7, Zenon DEF Flow, Holding

(* A source takes an acknowledgement: all is written. *)
LEMMA SourceTookFlows ==
    ASSUME Base, NEW l \in Lane, Flow(l), NEW f \in frames, Took(Source(l), l, f)
    PROVE  Flow(l)'
<1> DEFINE r == Len(read[l])
           w == Len(wrote[l])
           s == Source(l)
<1>1. s # Sink(l) /\ Peer(s) = Sink(l) /\ \A k \in Side : k = s \/ k = Sink(l)
  BY SidesAndLanes, Zenon
<1>2. /\ Len(read'[l]) = r /\ Len(wrote'[l]) = w /\ closed'[l] = closed[l]
      /\ read'[l] = read[l] /\ wrote'[l] = wrote[l]
      /\ frames' = frames \ {f} /\ f.lane = l /\ f.to = s /\ session' = session
      /\ hold'[s][l].frame = f /\ hold'[Sink(l)][l] = hold[Sink(l)][l]
  BY <1>1, Zenon DEF Took, SameStream
<1>3. read'[l] = Count(r) /\ wrote'[l] = Count(w) /\ w <= r
  BY <1>2, Zenon DEF Flow
<1>4. /\ session["receiver"] = "new" => w = r
      /\ \A g \in frames : g.lane = l => Carried(l, g, r, w)
      /\ closed[l] = "end" => w = r /\ w = Length[l] /\ Quiet(l)
  BY Zenon DEF Flow
<1> HIDE DEF r, w, s
<1>5. ASSUME NEW k \in Side, hold'[k][l] # None
      PROVE  InHand(l, k, hold'[k][l], r, w, closed[l])
  <2>1. CASE k = s
    <3>1. ~f.final => w = r
      BY <1>2, <1>4, Zenon DEF Carried, s
    <3> QED
      BY <1>1, <1>2, <2>1, <3>1, Zenon DEF InHand
  <2>2. CASE k = Sink(l)
    <3>1. InHand(l, k, hold[k][l], r, w, closed[l])
      BY <1>2, <1>5, <2>2, Zenon DEF Flow, Holding, r, w
    <3> QED
      BY <1>2, <2>2, <3>1, Zenon
  <2> QED
    BY <1>1, <2>1, <2>2, Zenon
<1>6. ASSUME closed[l] = "end"
      PROVE  /\ \A g \in frames' : g.lane = l => g.final
             /\ \A k \in Side : hold'[k][l] # None => hold'[k][l].frame.final
  <2>1. Quiet(l)
    BY <1>4, <1>6, Zenon
  <2>2. ASSUME NEW k \in Side, hold'[k][l] # None PROVE hold'[k][l].frame.final
    <3>1. CASE k = s
      BY <1>2, <2>1, <3>1, Zenon DEF Quiet
    <3>2. CASE k = Sink(l)
      <4>1. hold'[k][l] = hold[k][l]
        BY <1>2, <3>2, Zenon
      <4>2. hold[k][l].frame.final
        BY <2>1, <2>2, <4>1, Zenon DEF Quiet, Holding
      <4> QED
        BY <4>1, <4>2, Zenon
    <3> QED
      BY <1>1, <3>1, <3>2, Zenon
  <2> QED
    BY <1>2, <2>1, <2>2, Zenon DEF Quiet
<1>7. \A g \in frames' : g.lane = l => Carried(l, g, r, w)
  BY <1>2, <1>4, Zenon
<1> QED
  BY <1>2, <1>3, <1>4, <1>5, <1>6, <1>7, Zenon DEF Flow, Quiet, Holding

(* A sink that fails to write closes its stream with an error. *)
LEMMA SinkFailedFlows ==
    ASSUME Base, NEW l \in Lane, Flow(l), NEW f \in frames, Took(Sink(l), l, f),
           hold'[Sink(l)][l].failed
    PROVE  Flow(l)'
<1> DEFINE r == Len(read[l])
           w == Len(wrote[l])
           s == Sink(l)
<1>1. s # Source(l) /\ Peer(s) = Source(l) /\ \A k \in Side : k = s \/ k = Source(l)
  BY SidesAndLanes, Zenon
<1>2. /\ Len(read'[l]) = r /\ Len(wrote'[l]) = w /\ closed'[l] # "end"
      /\ read'[l] = read[l] /\ wrote'[l] = wrote[l]
      /\ frames' = frames \ {f} /\ f.lane = l /\ f.to = s /\ session' = session
      /\ hold'[s][l].frame = f /\ hold'[Source(l)][l] = hold[Source(l)][l]
  BY <1>1, Zenon DEF Took
<1>3. read'[l] = Count(r) /\ wrote'[l] = Count(w) /\ w <= r
  BY <1>2, Zenon DEF Flow
<1>4. /\ session["receiver"] = "new" => w = r
      /\ \A g \in frames : g.lane = l => Carried(l, g, r, w)
  BY Zenon DEF Flow
<1> HIDE DEF r, w
<1>5. ASSUME NEW k \in Side, hold'[k][l] # None
      PROVE  InHand(l, k, hold'[k][l], r, w, closed'[l])
  <2>1. CASE k = s
    BY <2>1, Zenon DEF InHand
  <2>2. CASE k = Source(l)
    <3>1. InHand(l, k, hold[k][l], r, w, closed[l])
      BY <1>2, <1>5, <2>2, Zenon DEF Flow, Holding, r, w
    <3>2. hold'[k][l] = hold[k][l]
      BY <1>2, <2>2, Zenon
    <3> QED
      BY <1>1, <2>2, <3>1, <3>2, Zenon DEF InHand
  <2> QED
    BY <1>1, <2>1, <2>2, Zenon
<1>6. \A g \in frames' : g.lane = l => Carried(l, g, r, w)
  BY <1>2, <1>4, Zenon
<1> QED
  BY <1>2, <1>3, <1>4, <1>5, <1>6, Zenon DEF Flow, Holding

(* A sink takes an empty frame. *)
LEMMA SinkIdledFlows ==
    ASSUME Base, NEW l \in Lane, Flow(l), NEW f \in frames, Took(Sink(l), l, f),
           ~hold'[Sink(l)][l].failed, f.body = 0
    PROVE  Flow(l)'
<1> DEFINE r == Len(read[l])
           w == Len(wrote[l])
           s == Sink(l)
<1>1. s # Source(l) /\ Peer(s) = Source(l) /\ \A k \in Side : k = s \/ k = Source(l)
  BY SidesAndLanes, Zenon
<1>2. /\ Len(read'[l]) = r /\ Len(wrote'[l]) = w
      /\ read'[l] = read[l] /\ wrote'[l] = wrote[l]
      /\ frames' = frames \ {f} /\ f.lane = l /\ f.to = s /\ session' = session
      /\ hold'[s][l].frame = f /\ hold'[Source(l)][l] = hold[Source(l)][l]
  BY <1>1, Zenon DEF Took
<1>3. read'[l] = Count(r) /\ wrote'[l] = Count(w) /\ w <= r
  BY <1>2, Zenon DEF Flow
<1>4. /\ session["receiver"] = "new" => w = r
      /\ \A g \in frames : g.lane = l => Carried(l, g, r, w)
      /\ closed[l] = "end" => Quiet(l)
  BY Zenon DEF Flow
<1>5. Carried(l, f, r, w) /\ (f.final => f.err)
  BY <1>2, <1>4, Zenon DEF Carried
<1>6. closed'[l] # "end"
  <2>1. CASE closed[l] = "unopened"
    BY <1>1, <2>1 DEF Took
  <2>2. CASE closed[l] # "unopened" /\ f.final
    BY <1>1, <1>5, <2>2 DEF Took
  <2>3. CASE closed[l] # "unopened" /\ ~f.final
    <3>1. closed[l] # "end"
      BY <1>2, <1>4, <2>3, Zenon DEF Quiet
    <3> QED
      BY <1>1, <2>3, <3>1, Zenon DEF Took
  <2> QED
    BY <2>1, <2>2, <2>3, Zenon
<1> HIDE DEF r, w
<1>7. ASSUME NEW k \in Side, hold'[k][l] # None
      PROVE  InHand(l, k, hold'[k][l], r, w, closed'[l])
  <2>1. CASE k = s
    BY <1>2, <1>5, <2>1, Zenon DEF InHand, Carried
  <2>2. CASE k = Source(l)
    <3>1. InHand(l, k, hold[k][l], r, w, closed[l])
      BY <1>2, <1>7, <2>2, Zenon DEF Flow, Holding, r, w
    <3>2. hold'[k][l] = hold[k][l]
      BY <1>2, <2>2, Zenon
    <3> QED
      BY <1>1, <2>2, <3>1, <3>2, Zenon DEF InHand
  <2> QED
    BY <1>1, <2>1, <2>2, Zenon
<1>8. \A g \in frames' : g.lane = l => Carried(l, g, r, w)
  BY <1>2, <1>4, Zenon
<1> QED
  BY <1>2, <1>3, <1>4, <1>6, <1>7, <1>8, Zenon DEF Flow, Holding

(* A sink writes the one segment under way. *)
LEMMA SinkWroteFlows ==
    ASSUME Base, NEW l \in Lane, Single(l), Flow(l), NEW f \in frames, Took(Sink(l), l, f),
           ~hold'[Sink(l)][l].failed, f.body # 0
    PROVE  Flow(l)'
<1> DEFINE r == Len(read[l])
           w == Len(wrote[l])
           s == Sink(l)
<1>1. s # Source(l) /\ Peer(s) = Source(l) /\ \A k \in Side : k = s \/ k = Source(l)
  BY SidesAndLanes, Zenon
<1>2. /\ Len(read'[l]) = r /\ read'[l] = read[l]
      /\ wrote'[l] = Append(wrote[l], f.body)
      /\ frames' = frames \ {f} /\ f.lane = l /\ f.to = s /\ session' = session
      /\ hold'[s][l].frame = f /\ hold'[Source(l)][l] = hold[Source(l)][l]
  BY <1>1, Zenon DEF Took
<1>3. /\ read[l] = Count(r) /\ wrote[l] = Count(w)
      /\ Carried(l, f, r, w)
      /\ closed[l] = "end" => Quiet(l)
  BY <1>2, Zenon DEF Flow
<1>4. r \in Nat /\ w \in Nat
  BY Lengths, Zenon DEF Base
<1>5. f.body = r /\ w + 1 = r
  BY <1>2, <1>3, Zenon DEF Carried
<1> HIDE DEF r, w
<1>6. wrote'[l] = Count(r) /\ Len(wrote'[l]) = r
  <2>1. wrote'[l] = Append(Count(w), w + 1)
    BY <1>2, <1>3, <1>5, Zenon
  <2>2. Append(Count(w), w + 1) = Count(w + 1) /\ Len(Append(Count(w), w + 1)) = w + 1
    BY <1>4, CountGrows, Zenon
  <2> QED
    BY <1>5, <2>1, <2>2, Zenon
<1>7. r <= r
  BY <1>4
<1>8. Counts(f, Gone)
  BY Zenon DEF Counts, Notice
<1>9. ASSUME NEW g \in frames', g.lane = l PROVE Carried(l, g, r, r) /\ g.final
  <2>1. g \in frames /\ g # f
    BY <1>2, Zenon
  <2>2. ~Counts(g, Gone)
    BY <1>2, <1>8, <1>9, <2>1, Zenon DEF Single
  <2> QED
    BY <1>9, <2>2, NoticeCarried, Zenon DEF Counts
<1>10. ASSUME hold[Source(l)][l] # None PROVE hold[Source(l)][l].frame.final
  <2>1. Source(l) \in Side
    BY SidesAndLanes, Zenon
  <2>2. ~Counts(hold[Source(l)][l].frame, Gone)
    BY <1>2, <1>8, <1>10, <2>1, Zenon DEF Single, Holding
  <2> QED
    BY <2>2, Zenon DEF Counts, Notice
<1>11. /\ f.final /\ l = "response" => closed'[l] = "end" \/ r = 1
       /\ closed'[l] = "end" => f.final /\ r = Length[l]
  <2>1. CASE closed[l] = "unopened"
    <3>1. closed'[l] = "open" /\ l # "response"
      BY <1>1, <2>1, Zenon DEF Took, Base, CallerOpen
    <3> QED
      BY <3>1
  <2>2. CASE closed[l] # "unopened" /\ f.final
    <3>1. closed'[l] = IF f.err THEN "error" ELSE "end"
      BY <1>1, <2>2, Zenon DEF Took
    <3>2. IF f.err THEN f.body \in {0, 1} ELSE f.body = Length[l]
      BY <1>2, <1>3, <2>2, Zenon DEF Carried
    <3> QED
      BY <1>5, <2>2, <3>1, <3>2
  <2>3. CASE closed[l] # "unopened" /\ ~f.final
    <3>1. closed[l] # "end"
      BY <1>2, <1>3, <2>3, Zenon DEF Quiet
    <3> QED
      BY <1>1, <2>3, <3>1, Zenon DEF Took
  <2> QED
    BY <2>1, <2>2, <2>3, Zenon
<1>12. ASSUME NEW k \in Side, hold'[k][l] # None
       PROVE  /\ InHand(l, k, hold'[k][l], r, r, closed'[l])
              /\ closed'[l] = "end" => hold'[k][l].frame.final
  <2>1. CASE k = s
    BY <1>2, <1>11, <2>1, Zenon DEF InHand
  <2>2. CASE k = Source(l)
    <3>1. hold'[k][l].frame.final
      BY <1>2, <1>10, <1>12, <2>2, Zenon
    <3> QED
      BY <1>1, <2>2, <3>1, Zenon DEF InHand
  <2> QED
    BY <1>1, <2>1, <2>2, Zenon
<1> QED
  BY <1>2, <1>3, <1>6, <1>7, <1>9, <1>11, <1>12, Zenon DEF Flow, Quiet, Holding

(* A frame is answered: the lane's only others are notices. *)
LEMMA GaveOthers ==
    ASSUME Gone => Gone', NEW l \in Lane, Single(l), Flow(l),
           NEW s \in Side, NEW f \in Frames, Gave(s, l, f)
    PROVE  /\ \A r, w : \A g \in frames' : g.lane = l /\ g # f => Carried(l, g, r, w)
           /\ \A r, w, c : \A k \in Side : hold'[k][l] # None => InHand(l, k, hold'[k][l], r, w, c)
           /\ closed'[l] = closed[l] /\ closed'[l] # "end" /\ wrote'[l] = wrote[l]
<1>1. /\ \A g \in frames' : g.lane = l /\ Counts(g, Gone') => g = f
      /\ \A r \in Side : ~(hold'[r][l] # None /\ Counts(hold'[r][l].frame, Gone'))
  BY GaveAlone, Zenon
<1>2. \A r, w : \A g \in frames' : g.lane = l /\ g # f => Carried(l, g, r, w)
  BY <1>1, NoticeCarried, Zenon DEF Counts
<1>3. \A r, w, c : \A k \in Side : hold'[k][l] # None => InHand(l, k, hold'[k][l], r, w, c)
  BY <1>1, Zenon DEF Counts, Notice, InHand
<1>4. hold[s][l] # None /\ ~hold[s][l].frame.final /\ SameStream(l)
  BY Zenon DEF Gave
<1>5. ~Quiet(l)
  BY <1>4, Zenon DEF Quiet, Holding
<1> QED
  BY <1>2, <1>3, <1>4, <1>5, Zenon DEF SameStream, Flow

(* A sink acknowledges when all that was read is written. *)
LEMMA AckedFlows ==
    ASSUME Base, Gone => Gone', NEW l \in Lane, Single(l), Flow(l), NEW f \in Frames,
           Acked(l, f), session'["receiver"] # "new"
    PROVE  Flow(l)'
<1> DEFINE r == Len(read[l])
           w == Len(wrote[l])
           s == Sink(l)
           h == hold[s][l]
<1>1. s \in Side /\ s # Source(l) /\ Peer(s) = Source(l)
  BY SidesAndLanes, Zenon
<1>2. /\ Gave(s, l, f) /\ read'[l] = read[l] /\ (~f.final => ~h.failed)
      /\ h # None /\ ~h.frame.final /\ f.to = Source(l)
  BY <1>1, Zenon DEF Acked, Gave
<1>3. /\ \A p, q : \A g \in frames' : g.lane = l /\ g # f => Carried(l, g, p, q)
      /\ \A p, q, c : \A k \in Side : hold'[k][l] # None => InHand(l, k, hold'[k][l], p, q, c)
      /\ closed'[l] # "end" /\ wrote'[l] = wrote[l]
  BY <1>1, <1>2, GaveOthers, Zenon
<1>4. /\ read[l] = Count(r) /\ wrote[l] = Count(w) /\ w <= r
      /\ InHand(l, s, h, r, w, closed[l])
  BY <1>1, <1>2, Zenon DEF Flow, Holding
<1> HIDE DEF h
<1>5. ~f.final => w = r
  BY <1>2, <1>4, Zenon DEF InHand
<1>6. Carried(l, f, r, w)
  BY <1>1, <1>2, <1>5, Zenon DEF Carried
<1>7. Len(read'[l]) = r /\ Len(wrote'[l]) = w
  BY <1>2, <1>3, Zenon
<1> HIDE DEF r, w, s
<1>8. \A g \in frames' : g.lane = l => Carried(l, g, r, w)
  BY <1>3, <1>6, Zenon
<1> QED
  BY <1>2, <1>3, <1>4, <1>7, <1>8, Zenon DEF Flow, Holding

(* A source sends the next segment, when those before are written. *)
LEMMA SentFlows ==
    ASSUME Base, Gone => Gone', NEW l \in Lane, Single(l), Flow(l), NEW f \in Frames,
           Sent(l, f), session'["receiver"] # "new"
    PROVE  Flow(l)'
<1> DEFINE r == Len(read[l])
           w == Len(wrote[l])
           n == IF f.body = 0 THEN r ELSE r + 1
           s == Source(l)
           h == hold[s][l]
<1>1. s \in Side /\ s # Sink(l) /\ Peer(s) = Sink(l)
  BY SidesAndLanes, Zenon
<1>2. /\ Gave(s, l, f) /\ h # None /\ ~h.frame.final /\ f.to = Sink(l)
      /\ read'[l] = IF f.body = 0 THEN read[l] ELSE Append(read[l], f.body)
      /\ f.body # 0 => f.body = r + 1
      /\ f.final => IF f.err THEN f.body \in {0, 1} ELSE f.body = Length[l] /\ f.body # 0
  BY <1>1, Zenon DEF Sent, Gave
<1>3. /\ \A p, q : \A g \in frames' : g.lane = l /\ g # f => Carried(l, g, p, q)
      /\ \A p, q, c : \A k \in Side : hold'[k][l] # None => InHand(l, k, hold'[k][l], p, q, c)
      /\ closed'[l] # "end" /\ wrote'[l] = wrote[l]
  BY <1>1, <1>2, GaveOthers, Zenon
<1>4. /\ read[l] = Count(r) /\ wrote[l] = Count(w)
      /\ InHand(l, s, h, r, w, closed[l])
  BY <1>1, <1>2, Zenon DEF Flow, Holding
<1>5. w = r
  BY <1>1, <1>2, <1>4, Zenon DEF InHand
<1>6. r \in Nat /\ w \in Nat
  BY Lengths, Zenon DEF Base
<1>7. Len(wrote'[l]) = w
  BY <1>3, Zenon
<1> HIDE DEF h, r, w
<1>8. read'[l] = Count(n) /\ Len(read'[l]) = n
  <2>1. CASE f.body = 0
    BY <1>2, <1>4, <2>1, Zenon DEF r
  <2>2. CASE f.body # 0
    <3>1. read'[l] = Append(Count(r), r + 1)
      BY <1>2, <1>4, <2>2, Zenon
    <3>2. Append(Count(r), r + 1) = Count(r + 1) /\ Len(Append(Count(r), r + 1)) = r + 1
      BY <1>6, CountGrows, Zenon
    <3> QED
      BY <2>2, <3>1, <3>2, Zenon
  <2> QED
    BY <2>1, <2>2, Zenon
<1>9. w <= n
  BY <1>5, <1>6
<1>10. Carried(l, f, n, w)
  BY <1>1, <1>2, <1>5, Zenon DEF Carried
<1> HIDE DEF n, s
<1>11. \A g \in frames' : g.lane = l => Carried(l, g, n, w)
  BY <1>3, <1>10, Zenon
<1> QED
  BY <1>3, <1>4, <1>7, <1>8, <1>9, <1>11, Zenon DEF Flow, Holding

(* However a lane moves, its body is in order. *)
LEMMA MoveFlows ==
    ASSUME Base, Base', Gone => Gone', NEW l \in Lane, Single(l), Flow(l), Move(l),
           session'["receiver"] = "new" => session["receiver"] = "new"
    PROVE  Flow(l)'
<1>1. /\ Source(l) \in Side /\ Sink(l) \in Side
      /\ \A s \in Side : s = Source(l) \/ s = Sink(l)
  BY SidesAndLanes, Zenon
<1>2. CASE Idle(l)
  BY <1>2, IdleFlows, Zenon DEF Base
<1>3. CASE Fresh(l) \/ Seeded(l)
  BY <1>3, SeededFlows, Zenon DEF Base
<1>4. CASE \E s \in Side, f \in frames : Took(s, l, f)
  <2>1. PICK s \in Side, f \in frames : Took(s, l, f)
    BY <1>4, Zenon
  <2> QED
    BY <1>1, <2>1, SourceTookFlows, SinkFailedFlows, SinkIdledFlows, SinkWroteFlows, Zenon
<1>5. CASE \E f \in Frames : Acked(l, f) \/ Sent(l, f)
  <2>1. PICK f \in Frames : Acked(l, f) \/ Sent(l, f)
    BY <1>5, Zenon
  <2>2. session["receiver"] # "new"
    <3>1. PICK s \in Side : hold[s][l] # None
      BY <1>1, <2>1, Zenon DEF Acked, Sent, Gave
    <3> QED
      BY <3>1, UnderWay, Zenon DEF Holding
  <2> QED
    BY <2>1, <2>2, AckedFlows, SentFlows, Zenon
<1> QED
  BY <1>2, <1>3, <1>4, <1>5, Zenon DEF Move

(* A caller is answered without an error only by the end of a response. *)
LEMMA CleanComes ==
    ASSUME Base, [Next]_vars, answer' = "clean", answer # "clean"
    PROVE  SinkDone("response")
<1>1. ~Bootstrap /\ ~ServeHTTP /\ ~ClaimInbox /\ ~Collect /\ ~Tick /\ ~ReceiverCrashes
  BY Zenon DEF Bootstrap, ServeHTTP, ClaimInbox, Collect, Tick, ReceiverCrashes
<1>2. Broken # "clean" /\ "gone" # "clean"
  BY DEF Broken
<1>3. ~SenderFails
  <2> SUFFICES ASSUME SenderFails PROVE FALSE
    OBVIOUS
  <2>1. PICK result \in {"gone", Broken} : SenderEnds(result, TRUE)
    BY Zenon DEF SenderFails
  <2> QED
    BY <1>2, <2>1, Zenon DEF SenderEnds
<1>4. ~Timers
  BY <1>2, Zenon DEF Timers, SenderExpires, SenderGivesUp, ReceiverGivesUp, SenderEnds
<1>5. ~(UNCHANGED vars)
  BY Zenon DEF vars
<1>6. PICK l \in Lane : Turn(l)
  BY <1>1, <1>3, <1>4, <1>5, Zenon DEF Next
<1>7. ~TakeAck(l) /\ ~TakeFrame(l) /\ ~SendData(l) /\ ~SendEmpty(l) /\ ~SourceFails(l)
      /\ ~SendAck(l)
  BY Zenon DEF TakeAck, TakeFrame, SendData, SendEmpty, SourceFails, SendAck
<1>8. ~SendFailure(l)
  BY DEF SendFailure
<1>9. SinkDone(l) /\ l # "request"
  BY <1>6, <1>7, <1>8 DEF Turn, SinkDone
<1> QED
  BY <1>9 DEF Lane

(* A caller told of no failure has the response, and nothing follows. *)
LEMMA CleanKept ==
    ASSUME Base, Settled, [Next]_vars, Single("response"), Flow("response"), Clean
    PROVE  Clean'
<1> DEFINE l == "response"
<1>1. /\ l \in Lane /\ Source(l) = "receiver" /\ Sink(l) = "sender"
      /\ "sender" \in Side /\ "receiver" \in Side
      /\ \A s \in Side : s = "sender" \/ s = "receiver"
  BY DEF Lane, Source, Sink, Side
<1>2. \A f, gone : f.lane = l => Counts(f, gone)
  BY DEF Counts, Notice
<1> SUFFICES ASSUME answer' = "clean"
             PROVE  /\ Gone' /\ Quiet(l)'
                    /\ Len(wrote'[l]) = Len(read'[l])
                    /\ closed'[l] = "end" \/ Len(wrote'[l]) = 1
  BY Zenon DEF Clean
<1>3. CASE answer = "clean"
  <2>1. /\ Gone /\ Quiet(l) /\ Len(wrote[l]) = Len(read[l])
        /\ closed[l] = "end" \/ Len(wrote[l]) = 1
        /\ session["receiver"] # "new"
    BY <1>3, Zenon DEF Clean, Base, Begun
  <2>2. hold["sender"][l] = None
    BY <1>1, <2>1 DEF Base, HeldIsOwn, Holding, Running, Gone
  <2>3. Gone' /\ Move(l)
    BY <1>1, <2>1, Zenon DEF Settled
  <2>4. CASE Idle(l)
    <3>1. \A f \in frames' : f.lane = l => f.final
      BY <2>1, <2>4, Zenon DEF Idle, Arrive, Notice, Quiet
    <3>2. ASSUME NEW s \in Side, hold'[s][l] # None PROVE hold'[s][l].frame.final
      <4>1. hold'[s][l] = hold[s][l]
        BY <2>4, <3>2, Zenon DEF Idle
      <4>2. hold[s][l].frame.final
        BY <2>1, <3>2, <4>1, Zenon DEF Quiet, Holding
      <4> QED
        BY <4>1, <4>2, Zenon
    <3>3. Quiet(l)'
      BY <3>1, <3>2, Zenon DEF Quiet, Holding
    <3> QED
      BY <2>1, <2>3, <2>4, <3>3, Zenon DEF Idle, SameStream
  <2>5. CASE Fresh(l) \/ Seeded(l)
    BY <2>1, <2>5, Zenon DEF Fresh, Seeded
  <2>6. CASE \E s \in Side, f \in frames : Took(s, l, f)
    <3>1. PICK s \in Side, f \in frames : Took(s, l, f)
      BY <2>6, Zenon
    <3>2. s = "receiver"
      BY <1>1, <2>1, <3>1 DEF Took, Running, Gone
    <3>3. /\ frames' = frames \ {f} /\ f.lane = l /\ hold'["receiver"][l].frame = f
          /\ hold'["sender"][l] = hold["sender"][l]
          /\ SameStream(l) /\ read'[l] = read[l]
      BY <1>1, <3>1, <3>2 DEF Took, Peer
    <3>4. Quiet(l)'
      BY <1>1, <2>1, <2>2, <3>3, Zenon DEF Quiet, Holding
    <3> QED
      BY <2>1, <2>3, <3>3, <3>4, Zenon DEF SameStream
  <2>7. CASE \E f \in Frames : Acked(l, f) \/ Sent(l, f)
    BY <1>1, <2>1, <2>2, <2>7, Zenon DEF Acked, Sent, Gave, Quiet, Holding
  <2> QED
    BY <2>3, <2>4, <2>5, <2>6, <2>7, Zenon DEF Move
<1>4. CASE answer # "clean"
  <2> DEFINE h == hold["sender"][l]
             result == IF h.frame.err /\ h.frame.body = 0 THEN "aborted" ELSE "clean"
  <2>1. SinkDone(l)
    BY <1>4, CleanComes, Zenon
  <2>2. /\ h # None /\ h.frame.final /\ ~h.failed
        /\ SenderEnds(result, FALSE)
        /\ read' = read /\ wrote' = wrote /\ closed' = closed
    BY <1>1, <2>1 DEF SinkDone, Holding
  <2>3. result = "clean" /\ Stopped("sender") /\ frames' = frames
    BY <2>2, Zenon DEF SenderEnds
  <2>4. ~(h.frame.err /\ h.frame.body = 0)
    BY <2>3
  <2>5. InHand(l, "sender", h, Len(read[l]), Len(wrote[l]), closed[l])
    BY <1>1, <2>2, Zenon DEF Flow, Holding
  <2>6. Len(wrote[l]) = Len(read[l]) /\ (closed[l] = "end" \/ Len(wrote[l]) = 1)
    BY <1>1, <2>2, <2>4, <2>5, Zenon DEF InHand
  <2>7. h.frame.lane = l
    BY <1>1, <2>2, ZenonT(40) DEF Base, HeldIsOwn, Holding
  <2>8. /\ ~(hold["receiver"][l] # None /\ Counts(hold["receiver"][l].frame, Gone))
        /\ \A f \in frames : f.lane = l => ~Counts(f, Gone)
    <3>1. Peer("sender") = "receiver" /\ Counts(h.frame, Gone)
      BY <1>2, <2>7 DEF Peer
    <3> QED
      BY <1>1, <2>2, <3>1 DEF Single, Holding
  <2>9. hold["receiver"][l] = None
    <3>1. ASSUME hold["receiver"][l] # None PROVE FALSE
      <4>1. hold["receiver"][l].frame.lane = l
        BY <1>1, <3>1, Zenon DEF Base, HeldIsOwn, Holding
      <4>2. Counts(hold["receiver"][l].frame, Gone)
        BY <1>2, <4>1, Zenon
      <4> QED
        BY <2>8, <3>1, <4>2, Zenon
    <3> QED
      BY <3>1, Zenon
  <2>10. /\ session'["sender"] = "over" /\ hold'["sender"][l] = None
         /\ hold'["receiver"][l] = hold["receiver"][l]
    BY <1>1, <2>3, StoppedDoes DEF Base
  <2>11. Quiet(l)'
    BY <1>1, <1>2, <2>3, <2>8, <2>9, <2>10, Zenon DEF Quiet, Holding
  <2> QED
    BY <2>2, <2>6, <2>10, <2>11, Zenon DEF Gone
<1> QED
  BY <1>3, <1>4, Zenon

-----------------------------------------------------------------------------
(* The inductive invariant, and what follows from it. *)

LinkInv ==
    /\ Base
    /\ \A l \in Lane : Single(l) /\ Route(l) /\ Flow(l)
    /\ Clean

(* The invariant holds at first, *)
LEMMA InitLink ==
    ASSUME Init
    PROVE  LinkInv
<1>1. \A s \in Side, l \in Lane : hold[s][l] = None /\ lanes[s][l] = NewLane(0)
  BY Zenon DEF Init, NewLanes
<1>2. NewLane(0) \in Views /\ NewLane(0).peer = 0
  BY LifetimeIsTime DEF NewLane, Views
<1>3. /\ hold \in [Side -> [Lane -> Holds \cup {None}]]
      /\ lanes \in [Side -> [Lane -> Views]]
  BY <1>2, Zenon DEF Init, NewLanes
<1>4. /\ read \in [Lane -> Seq(Nat)] /\ wrote \in [Lane -> Seq(Nat)]
      /\ \A l \in Lane : read[l] = <<>> /\ wrote[l] = <<>>
  BY DEF Init
<1>5. /\ closed \in [Lane -> {"unopened", "open", "refused", "error", "end"}]
      /\ closed["response"] = "open" /\ \A l \in Lane : closed[l] # "end"
  BY DEF Init, Lane
<1>6. /\ session \in [Side -> {"new", "run", "over"}]
      /\ session["sender"] = "new" /\ session["receiver"] = "new"
  BY DEF Init, Side
<1>7. now \in Int /\ frames = {} /\ inbox = "none" /\ answer # "clean"
  BY DEF Init
<1>8. LinkTypeOK
  BY <1>3, <1>4, <1>5, <1>6, <1>7, Zenon DEF LinkTypeOK
<1>9. HeldIsOwn /\ CallerOpen
  BY <1>1, <1>5 DEF HeldIsOwn, Holding, CallerOpen
<1>10. Begun
  BY <1>1, <1>2, <1>5, <1>6, <1>7 DEF Begun, Holding, Side
<1>11. \A l \in Lane : Single(l) /\ Route(l)
  BY <1>1, <1>7, Zenon DEF Single, Route, Holding
<1>12. ASSUME NEW l \in Lane PROVE Flow(l)
  <2>1. Count(0) = <<>> /\ Len(<<>>) = 0 /\ 0 <= 0
    BY DEF Count
  <2>2. /\ Len(read[l]) = 0 /\ Len(wrote[l]) = 0
        /\ read[l] = Count(0) /\ wrote[l] = Count(0)
    BY <1>4, <2>1, Zenon
  <2> QED
    BY <1>1, <1>5, <1>7, <2>1, <2>2, Zenon DEF Flow, Holding
<1> QED
  BY <1>7, <1>8, <1>9, <1>10, <1>11, <1>12, Zenon DEF LinkInv, Base, Clean

(* is kept by every step, *)
LEMMA StepLink ==
    ASSUME LinkInv, [Next]_vars
    PROVE  LinkInv'
<1>1. Settled
  BY StepSettles, Zenon DEF LinkInv
<1>2. /\ Base /\ Base' /\ LinkTypeOK /\ LinkTypeOK'
      /\ Gone => Gone'
      /\ session'["receiver"] = "new" => session["receiver"] = "new"
  BY <1>1, Zenon DEF Settled, LinkInv, Base
<1>3. ASSUME NEW l \in Lane PROVE (Single(l) /\ Route(l) /\ Flow(l))'
  <2>1. Single(l) /\ Route(l) /\ Flow(l) /\ Move(l)
    BY <1>1, Zenon DEF LinkInv, Settled
  <2>2. Single(l)' /\ Route(l)'
    BY <1>2, <2>1, MoveSingle, Zenon
  <2>3. Flow(l)'
    BY <1>2, <2>1, MoveFlows, Zenon
  <2> QED
    BY <2>2, <2>3, Zenon
<1>4. "response" \in Lane
  BY DEF Lane
<1>5. Clean'
  BY <1>1, <1>4, CleanKept, Zenon DEF LinkInv
<1> QED
  BY <1>2, <1>3, <1>5, Zenon DEF LinkInv

(* keeps frames on their route, *)
LEMMA LinkOnRoute ==
    ASSUME LinkInv
    PROVE  OnRoute
<1> SUFFICES ASSUME NEW l \in Lane, \A s \in Side : Running(s)
             PROVE  LET waiting == {f \in frames : f.lane = l /\ ~f.final}
                        held == {s \in Side : Holding(s, l)}
                    IN  /\ \A f, g \in waiting : f = g
                        /\ \A s, r \in held : s = r
                        /\ waiting = {} \/ held = {}
                        /\ \A f \in waiting : f.at = lanes[f.to][l].local
  BY Zenon DEF OnRoute
<1>1. Single(l) /\ Route(l)
  BY Zenon DEF LinkInv
<1>2. ~Gone
  BY DEF Side, Running, Gone
<1>3. \A f : Counts(f, Gone)
  BY <1>2, Zenon DEF Counts
<1>4. \A f, g \in frames : f.lane = l /\ g.lane = l => f = g
  BY <1>1, <1>3, Zenon DEF Single
<1>5. \A s \in Side : Holding(s, l) =>
        ~Holding(Peer(s), l) /\ \A f \in frames : f.lane # l
  BY <1>1, <1>3, Zenon DEF Single
<1>6. \A s, r \in Side : Holding(s, l) /\ Holding(r, l) => s = r
  BY <1>5, PeerIsOther, Zenon
<1>7. \A f \in frames : f.lane = l /\ ~f.final => f.at = lanes[f.to][l].local
  BY <1>1, Zenon DEF Route
<1> QED
  BY <1>4, <1>5, <1>6, <1>7, Zenon

(* and bodies intact. *)
LEMMA LinkIntact ==
    ASSUME LinkInv
    PROVE  Intact
<1>1. ASSUME NEW l \in Lane
      PROVE  /\ Len(wrote[l]) <= Len(read[l])
             /\ \A n \in 1..Len(wrote[l]) : wrote[l][n] = read[l][n]
             /\ closed[l] = "end" => wrote[l] = [n \in 1..Length[l] |-> n]
  <2> DEFINE r == Len(read[l])
             w == Len(wrote[l])
  <2>1. r \in Nat /\ w \in Nat
    BY Lengths, Zenon DEF LinkInv, Base
  <2>2. /\ read[l] = Count(r) /\ wrote[l] = Count(w) /\ w <= r
        /\ closed[l] = "end" => w = Length[l]
    BY Zenon DEF LinkInv, Flow
  <2>3. closed[l] = "end" => wrote[l] = [n \in 1..Length[l] |-> n]
    BY <2>2, Zenon DEF Count
  <2> HIDE DEF r, w
  <2>4. \A n \in 1..w : wrote[l][n] = read[l][n]
    BY <2>1, <2>2 DEF Count
  <2> QED
    BY <2>2, <2>3, <2>4, Zenon DEF r, w
<1>2. ASSUME answer = "clean"
      PROVE  /\ wrote["response"] = read["response"]
             /\ closed["response"] = "end" \/ Len(wrote["response"]) = 1
  <2>1. "response" \in Lane
    BY DEF Lane
  <2>2. /\ Len(wrote["response"]) = Len(read["response"])
        /\ closed["response"] = "end" \/ Len(wrote["response"]) = 1
    BY <1>2, Zenon DEF LinkInv, Clean
  <2>3. /\ read["response"] = Count(Len(read["response"]))
        /\ wrote["response"] = Count(Len(wrote["response"]))
    BY <2>1, Zenon DEF LinkInv, Flow
  <2> QED
    BY <2>2, <2>3, Zenon
<1> QED
  BY <1>1, <1>2, Zenon DEF Intact

(* The invariant holds throughout an exchange: of every lane there is one  *)
(* frame, where it is awaited, and it carries the one segment under way.   *)
THEOREM LinkHolds == Spec => []LinkInv
<1>1. Init => LinkInv
  BY InitLink
<1>2. LinkInv /\ [Next]_vars => LinkInv'
  BY StepLink
<1> QED
  BY <1>1, <1>2, PTL DEF Spec

(* Whatever the lengths of the bodies, the lifetimes of queues and the     *)
(* number of faults, a lane holds one frame at most, and while both        *)
(* sessions run it is in the queue its reader awaits it in (rotate,        *)
(* observePeer and the answers that name a queue: lane.go, receiver.go,    *)
(* sender_session.go).                                                     *)
THEOREM FramesOnRoute == Spec => []OnRoute
<1>1. LinkInv => OnRoute
  BY LinkOnRoute
<1> QED
  BY <1>1, LinkHolds, PTL

(* Segments arrive in order, once each and none left out, a stream that is *)
(* closed without an error got its whole body, and a caller who was told   *)
(* of no failure has all there was of the response (handleResponse,        *)
(* responseSocket: sender_session.go, socket.go).                          *)
THEOREM BodiesIntact == Spec => []Intact
<1>1. LinkInv => Intact
  BY LinkIntact
<1> QED
  BY <1>1, LinkHolds, PTL
=============================================================================
