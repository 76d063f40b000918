--------------------------- MODULE GatewayProofs ----------------------------
(***************************************************************************)
(* Proofs about one session of the work gateway: an answer that reached it *)
(* is committed, it never speaks unprompted, and the answers it acts on    *)
(* are about the task in hand.                                             *)
(***************************************************************************)
EXTENDS Gateway, TLAPS

Phases == {"config", "begin", "claim", "take", "work", "commit", "hook", "finish", "send",
           "over", "forget", "done"}

Responses == [type : ResponseTypes, task : Task \cup {NoTask}]

SessionType ==
  /\ pc \in Phases
  /\ say = None \/ say \in Responses
  /\ then \in {"over", "begin", "take", "work", "hook"}
  /\ hand \in Task \cup {NoTask}

TasksType ==
  /\ tasks \in [Task -> {"queued", "held", "settled", "refused", "lost", "left"}]
  /\ reported \subseteq Task

GateFields == [quitting : BOOLEAN, closed : BOOLEAN, armed : BOOLEAN, ctx : BOOLEAN,
               why : {"ok", "fault"}, shut : {"no", "due", "done"}]

KeptFields == [owed : BOOLEAN, turn : {"off", "none", "send", "recv"},
               err : {"none", "ok", "fault", "silent"}]

ClientFields == [turn : {"config", "ready", "take", "modify", "done", "end"},
                 about : Task \cup {NoTask}, waits : BOOLEAN, asides : Nat]

ServerFields == [draining : BOOLEAN, joined : BOOLEAN, entry : BOOLEAN,
                 opener : {"none", "opening", "check"}]

Requests == [type : RequestTypes, about : Task \cup {NoTask}, outcome : Outcomes, quit : BOOLEAN]

ClientType ==
  /\ post = None \/ post \in Requests
  /\ resp = None \/ resp \in Responses
  /\ gone \in BOOLEAN
  /\ client \in ClientFields

GateTypeOK ==
  /\ SessionType /\ ClientType
  /\ g \in GateFields /\ kept \in KeptFields /\ server \in ServerFields

(* The worker has the task in hand from its claim to the commit, *)
HandIsHeld ==
  /\ pc \in {"take", "work", "commit"} \/ (pc = "send" /\ then \in {"take", "work"})
       => hand \in Task /\ tasks[hand] = "held"
  /\ pc = "hook" \/ (pc = "send" /\ then = "hook") => hand \in Task

(* and the ok answers have been committed, refused, left at the end of the *)
(* context, or are about to be committed.                                  *)
AnswersLand ==
  \A t \in reported : \/ tasks[t] \in {"settled", "refused"}
                      \/ hand = t /\ pc = "commit"
                      \/ tasks[t] = "left" /\ ~g.ctx

AnswerInv == GateTypeOK /\ TasksType /\ HandIsHeld /\ AnswersLand

(* g, under each of the steps that write it. *)
LEMMA GateFieldsKept ==
  ASSUME g \in GateFields, post = None \/ post \in Requests, [GateNext]_gateVars
  PROVE  g' \in GateFields
<1>1. CASE SendFails
  BY <1>1 DEF SendFails, Ends, GateFields
<1>2. CASE RecvReady
  BY <1>2, Zenon DEF RecvReady, Ends, GateFields
<1>3. CASE ClaimEnds \/ ClaimFails \/ RecvStray \/ RenewalFails
  BY <1>3 DEF ClaimEnds, ClaimFails, RecvStray, RenewalFails, Ends, GateFields
<1>4. CASE RecvWorking \/ RecvRead
  BY <1>4, Zenon DEF RecvWorking, RecvRead, Received, Quitting, Requests, GateFields
<1>5. CASE RecvTake
  BY <1>5, Zenon DEF RecvTake, Received, Quitting, Requests, GateFields
<1>6. CASE RecvModify
  BY <1>6, Zenon DEF RecvModify, Received, Quitting, Requests, GateFields
<1>7. CASE RecvDone
  BY <1>7, Zenon DEF RecvDone, Received, Quitting, Requests, GateFields
<1>8. CASE RecvFails
  BY <1>8 DEF RecvFails, Ends, GateFields
<1>9. CASE Commit
  BY <1>9 DEF Commit, Ends, GoesOn, GateFields
<1>10. CASE Part \/ Leave \/ GoesQuiet \/ ShutDown
  BY <1>10, Zenon DEF Part, Leave, GoesQuiet, ShutDown, GateFields
<1>11. CASE IdleRecvs
  BY <1>11, Zenon DEF IdleRecvs, ShutDue, GateFields
<1>12. CASE IdleFails
  BY <1>12 DEF IdleFails, ShutDue, GateFields
<1>13. CASE GiveUp \/ Close
  BY <1>13, Zenon DEF GiveUp, Close, GateFields
<1>14. CASE Drain
  BY <1>14, Zenon DEF Drain, ShutDue, GateFields
<1>15. CASE UNCHANGED g
  BY <1>15
<1>16. SUFFICES ASSUME GateNext PROVE g' \in GateFields
  BY <1>15 DEF gateVars
<1>17. ASSUME NEW t \in Task, Claim(t) PROVE UNCHANGED g
  BY <1>17 DEF Claim
<1>18. Posts => UNCHANGED g
  BY DEF Posts, Post
<1>19. HandlerStep => UNCHANGED g
  BY DEF HandlerStep, Register, CheckEnded, Read, ToldGone
<1>20. RecvConfig \/ Send \/ Finish \/ LastWordTimesOut \/ IdleBegins \/ IdleSends \/ LoseClaim \/ Stopped => UNCHANGED g
  BY DEF RecvConfig, Send, Finish, LastWordTimesOut, IdleBegins, IdleSends, LoseClaim, GoesOn, Stopped, gateVars
<1> QED
  BY <1>1, <1>2, <1>3, <1>4, <1>5, <1>6, <1>7, <1>8, <1>9, <1>10, <1>11, <1>12, <1>13, <1>14, <1>15,
     <1>16, <1>17, <1>18, <1>19, <1>20 DEF GateNext, CalmNext, SessionStep, Happens, IdleStep

(* kept, under each of the steps that write it. *)
LEMMA KeptFieldsKept ==
  ASSUME kept \in KeptFields, [GateNext]_gateVars
  PROVE  kept' \in KeptFields
<1>1. CASE Send \/ SendFails
  BY <1>1, Zenon DEF Send, SendFails, KeptFields
<1>2. ASSUME Owing PROVE kept' \in KeptFields
  BY <1>2, Zenon DEF Owing, KeptFields
<1>3. CASE RecvReady \/ RecvWorking \/ RecvRead \/ RecvTake \/ RecvModify \/ RecvStray \/ RecvDone
  BY <1>2, <1>3, Zenon DEF RecvReady, RecvWorking, RecvRead, RecvTake, RecvModify, RecvStray, RecvDone
<1>4. CASE IdleBegins \/ IdleSends
  BY <1>4, Zenon DEF IdleBegins, IdleSends, KeptFields
<1>5. CASE IdleRecvs
  BY <1>5, Zenon DEF IdleRecvs, KeptFields
<1>6. CASE IdleFails
  BY <1>6, Zenon DEF IdleFails, KeptFields
<1>7. CASE UNCHANGED kept
  BY <1>7
<1>8. SUFFICES ASSUME GateNext PROVE kept' \in KeptFields
  BY <1>7 DEF gateVars
<1>9. ASSUME NEW t \in Task, Claim(t) PROVE UNCHANGED kept
  BY <1>9 DEF Claim
<1>10. Posts => UNCHANGED kept
  BY DEF Posts, Post
<1>11. HandlerStep \/ Happens \/ ShutDown \/ GiveUp \/ Drain \/ Close => UNCHANGED kept
  BY Zenon DEF HandlerStep, Register, CheckEnded, Read, ToldGone, Happens, ClaimFails, GoesQuiet,
         RenewalFails, LastWordTimesOut, ShutDown, GiveUp, Drain, Close
<1>12. RecvConfig \/ ClaimEnds \/ RecvFails \/ Commit \/ Finish \/ Part \/ Leave \/ LoseClaim \/ Stopped
         => UNCHANGED kept
  BY DEF RecvConfig, ClaimEnds, RecvFails, Commit, Finish, Part, Leave, LoseClaim, Stopped, gateVars
<1> QED
  BY <1>1, <1>3, <1>4, <1>5, <1>6, <1>7, <1>8, <1>9, <1>10, <1>11, <1>12
     DEF GateNext, CalmNext, SessionStep, IdleStep

(* What the client does next: it ends on the last word, and on nothing else. *)
LEMMA NextTurnType ==
  ASSUME client \in ClientFields, NEW r \in Responses
  PROVE  /\ NextTurn(r) \in ClientFields
         /\ client.turn # "end" => (NextTurn(r).turn = "end" <=> r.type \in {"quit", "error"})
<1>1. CASE r.type = "ready"
  BY <1>1, Zenon DEF NextTurn, ClientFields
<1>2. CASE r.type \in {"take", "work", "success", "dependency"}
  BY <1>2, Zenon DEF NextTurn, ClientFields, Responses
<1>3. CASE r.type \in {"quit", "error"}
  BY <1>3 DEF NextTurn, ClientFields
<1>4. CASE r.type = "ok"
  BY <1>4 DEF NextTurn, ClientFields
<1> QED
  BY <1>1, <1>2, <1>3, <1>4 DEF Responses, ResponseTypes

(* The client and what it exchanges with the session. *)
LEMMA ClientTypeKept ==
  ASSUME ClientType, SessionType, [GateNext]_gateVars
  PROVE  ClientType'
<1>1. CASE UNCHANGED <<post, resp, gone, client>>
  BY <1>1 DEF ClientType
<1>2. CASE Received /\ UNCHANGED <<resp, gone, client>>
  BY <1>2 DEF Received, ClientType
<1>3. CASE RecvConfig \/ RecvReady \/ RecvWorking \/ RecvRead \/ RecvTake \/ RecvModify \/ RecvStray
           \/ RecvDone \/ IdleRecvs
  BY <1>2, <1>3, Zenon DEF RecvConfig, RecvReady, RecvWorking, RecvRead, RecvTake, RecvModify, RecvStray,
                    RecvDone, IdleRecvs
<1>4. CASE Send
  BY <1>4 DEF Send, Delivered, ClientType, SessionType
<1>5. CASE IdleSends
  <2>1. Response("ready", NoTask) \in Responses
    BY DEF Response, Responses, ResponseTypes
  <2> QED
    BY <1>5, <2>1 DEF IdleSends, Delivered, ClientType
<1>6. CASE Posts
  <2>1. PICK type \in RequestTypes, outcome \in Outcomes, quit \in BOOLEAN :
               Post(type, outcome, quit)
    BY <1>6 DEF Posts
  <2>2. client' \in ClientFields
    <3>1. CASE client' = [client EXCEPT !.turn = "end"]
      BY <3>1 DEF ClientType, ClientFields
    <3>2. ASSUME NEW n \in Nat, client' = [client EXCEPT !.waits = TRUE, !.asides = n]
          PROVE  client' \in ClientFields
      BY <3>2, Zenon DEF ClientType, ClientFields
    <3>3. client.asides \in Nat /\ client.asides + 1 \in Nat
      BY DEF ClientType, ClientFields
    <3>4. \/ client' = [client EXCEPT !.turn = "end"]
          \/ client' = [client EXCEPT !.waits = TRUE,
                          !.asides = IF type \in Asides THEN @ + 1 ELSE @]
      BY <2>1 DEF Post
    <3> QED
      BY <3>1, <3>2, <3>3, <3>4, Zenon
  <2>3. Request(type, client.about, outcome, quit) \in Requests
    BY DEF Request, Requests, ClientType, ClientFields
  <2> QED
    BY <2>1, <2>2, <2>3 DEF Post, ClientType
<1>7. CASE Register \/ CheckEnded
  BY <1>1, <1>7 DEF Register, CheckEnded
<1>8. CASE Read
  <2>1. NextTurn(resp) \in ClientFields
    BY <1>8, NextTurnType DEF Read, ClientType
  <2>2. client' \in ClientFields
    BY <1>8, <2>1, Zenon DEF Read, ClientFields
  <2> QED
    BY <1>8, <2>2 DEF Read, ClientType
<1>9. CASE ToldGone
  BY <1>9, Zenon DEF ToldGone, ClientType, ClientFields
<1>10. CASE GiveUp
  BY <1>10, Zenon DEF GiveUp, ClientType, ClientFields
<1>11. SUFFICES ASSUME GateNext PROVE ClientType'
  BY <1>1 DEF gateVars
<1>12. ASSUME NEW t \in Task, Claim(t) PROVE UNCHANGED <<post, resp, gone, client>>
  BY <1>12 DEF Claim
<1>13. SendFails \/ ClaimEnds \/ RecvFails \/ Commit \/ Finish \/ Part \/ Leave \/ LoseClaim \/ Stopped
         => UNCHANGED <<post, resp, gone, client>>
  BY DEF SendFails, ClaimEnds, RecvFails, Commit, Finish, Part, Leave, LoseClaim, Stopped, gateVars
<1>14. Happens \/ IdleBegins \/ IdleFails \/ ShutDown \/ Drain \/ Close
         => UNCHANGED <<post, resp, gone, client>>
  BY Zenon DEF Happens, ClaimFails, GoesQuiet, RenewalFails, LastWordTimesOut, IdleBegins, IdleFails,
         ShutDown, Drain, Close
<1> QED
  BY <1>1, <1>3, <1>4, <1>5, <1>6, <1>7, <1>8, <1>9, <1>10, <1>11, <1>12, <1>13, <1>14
     DEF GateNext, CalmNext, SessionStep, HandlerStep, IdleStep

(* server, under each of the steps that write it. *)
LEMMA ServerFieldsKept ==
  ASSUME server \in ServerFields, [GateNext]_gateVars
  PROVE  server' \in ServerFields
<1>1. CASE RecvConfig
  BY <1>1, Zenon DEF RecvConfig, Join, ServerFields
<1>2. CASE Part \/ Leave
  BY <1>2, Zenon DEF Part, Leave, ServerFields
<1>3. CASE Register
  BY <1>3, Zenon DEF Register, ServerFields
<1>4. CASE CheckEnded
  BY <1>4, Zenon DEF CheckEnded, ServerFields
<1>5. CASE ToldGone \/ GiveUp \/ Drain \/ Close
  BY <1>5, Zenon DEF ToldGone, GiveUp, Drain, Close, ServerFields
<1>6. CASE Posts
  BY <1>6 DEF Posts, Post, ServerFields
<1>7. CASE UNCHANGED server
  BY <1>7
<1>8. SUFFICES ASSUME GateNext PROVE server' \in ServerFields
  BY <1>7 DEF gateVars
<1>9. ASSUME NEW t \in Task, Claim(t) PROVE UNCHANGED server
  BY <1>9 DEF Claim
<1>10. Send \/ SendFails \/ RecvReady \/ ClaimEnds \/ RecvWorking \/ RecvRead \/ RecvTake \/ RecvModify
         => UNCHANGED server
  BY Zenon DEF Send, SendFails, RecvReady, ClaimEnds, RecvWorking, RecvRead, RecvTake, RecvModify
<1>11. RecvStray \/ RecvFails \/ Commit \/ RecvDone \/ Finish \/ LoseClaim \/ Stopped => UNCHANGED server
  BY DEF RecvStray, RecvFails, Commit, RecvDone, Finish, LoseClaim, Stopped, gateVars
<1>12. Happens \/ IdleStep \/ ShutDown \/ Read => UNCHANGED server
  BY Zenon DEF Happens, ClaimFails, GoesQuiet, RenewalFails, LastWordTimesOut, IdleStep, IdleBegins,
         IdleSends, IdleRecvs, IdleFails, ShutDown, Read
<1> QED
  BY <1>1, <1>2, <1>3, <1>4, <1>5, <1>6, <1>7, <1>8, <1>9, <1>10, <1>11, <1>12
     DEF GateNext, CalmNext, SessionStep, HandlerStep

(* Where the session's goroutine is. *)
LEMMA SessionTypeKept ==
  ASSUME SessionType, [GateNext]_gateVars
  PROVE  SessionType'
<1> USE DEF SessionType
<1>1. CASE UNCHANGED <<pc, say, then, hand>>
  BY <1>1
<1>2. ASSUME NEW type \in ResponseTypes, NEW t \in Task \cup {NoTask},
             NEW next \in {"over", "begin", "take", "work", "hook"}, Sends(type, t, next),
             hand' \in Task \cup {NoTask}
      PROVE  SessionType'
  BY <1>2 DEF Sends, Response, Responses, Phases
<1>3. ASSUME pc' \in Phases, say' = None, then' = "over", hand' \in Task \cup {NoTask}
      PROVE  SessionType'
  BY <1>3
<1>4. ASSUME NEW why, Ends(why) PROVE SessionType'
  BY <1>3, <1>4 DEF Ends, Phases
<1>5. CASE GoesOn
  BY <1>3, <1>5 DEF GoesOn, Phases
<1>6. ASSUME NEW s, NEW stop, Disposes(s, stop) PROVE SessionType'
  BY <1>3, <1>6 DEF Disposes, Phases
<1>7. CASE RecvConfig
  BY <1>2, <1>7 DEF RecvConfig, ResponseTypes
<1>8. CASE Send \/ SendFails
  BY <1>3, <1>4, <1>8 DEF Send, SendFails, Phases
<1>9. CASE RecvReady
  BY <1>4, <1>9 DEF RecvReady, Phases
<1>10. CASE ClaimEnds \/ ClaimFails \/ RecvStray \/ RenewalFails \/ LoseClaim
  BY <1>4, <1>5, <1>10 DEF ClaimEnds, ClaimFails, RecvStray, RenewalFails, LoseClaim
<1>11. ASSUME NEW t \in Task, Claim(t) PROVE SessionType'
  BY <1>2, <1>11 DEF Claim, ResponseTypes
<1>12. CASE RecvWorking \/ RecvRead
  BY <1>2, <1>12 DEF RecvWorking, RecvRead, ResponseTypes
<1>13. CASE RecvTake
  BY <1>2, <1>3, <1>6, <1>13, Zenon DEF RecvTake, ResponseTypes, Phases
<1>14. CASE RecvModify
  BY <1>3, <1>6, <1>14 DEF RecvModify, Phases
<1>15. CASE RecvFails
  BY <1>4, <1>15 DEF RecvFails, Phases
<1>16. CASE Commit
  BY <1>2, <1>4, <1>5, <1>16 DEF Commit, ResponseTypes
<1>17. CASE RecvDone \/ GoesQuiet
  BY <1>3, <1>6, <1>17, Zenon DEF RecvDone, GoesQuiet, Phases
<1>18. CASE Finish
  BY <1>2, <1>18 DEF Finish, ResponseTypes, Phases
<1>19. CASE Part \/ Leave \/ LastWordTimesOut
  BY <1>19 DEF Part, Leave, LastWordTimesOut, Phases
<1>20. SUFFICES ASSUME GateNext PROVE SessionType'
  BY <1>1 DEF gateVars
<1>21. IdleStep \/ ShutDown \/ HandlerStep \/ GiveUp \/ Drain \/ Close \/ Stopped
         => UNCHANGED <<pc, say, then, hand>>
  BY DEF IdleStep, IdleBegins, IdleSends, IdleRecvs, IdleFails, ShutDown, HandlerStep, Register,
         CheckEnded, Read, ToldGone, GiveUp, Drain, Close, Stopped, gateVars
<1>22. Posts => UNCHANGED <<pc, say, then, hand>>
  BY DEF Posts, Post
<1> HIDE DEF SessionType
<1> QED
  BY <1>1, <1>7, <1>8, <1>9, <1>10, <1>11, <1>12, <1>13, <1>14, <1>15, <1>16, <1>17, <1>18, <1>19,
     <1>20, <1>21, <1>22 DEF GateNext, CalmNext, SessionStep, Happens

(* The types of everything but the tasks. *)
LEMMA GateTypesKept ==
  GateTypeOK /\ [GateNext]_gateVars => GateTypeOK'
BY GateFieldsKept, KeptFieldsKept, ClientTypeKept, ServerFieldsKept, SessionTypeKept
   DEF GateTypeOK, ClientType

(* The tasks, and what has become of the ok answers, under each of the     *)
(* session's steps.                                                        *)
LEMMA AnswersKept ==
  ASSUME AnswerInv, [GateNext]_gateVars
  PROVE  TasksType' /\ HandIsHeld' /\ AnswersLand'
<1> DEFINE Goal == TasksType' /\ HandIsHeld' /\ AnswersLand'
<1>0. SUFFICES Goal
  OBVIOUS
<1>a. /\ g \in GateFields /\ g' \in GateFields
      /\ SessionType /\ TasksType /\ HandIsHeld /\ AnswersLand
  BY GateTypesKept DEF AnswerInv, GateTypeOK
<1>1. CASE UNCHANGED <<pc, then, hand, tasks, reported>> /\ (g'.ctx => g.ctx)
  BY <1>a, <1>1 DEF TasksType, HandIsHeld, AnswersLand
(* The task in hand, if there is one, is let go of. *)
<1>2. ASSUME Left, pc # "commit", UNCHANGED reported, g'.ctx => g.ctx,
             pc' \in {"finish", "over", "claim"}
      PROVE  Goal
  <2>1. TasksType'
    BY <1>a, <1>2 DEF TasksType, Left
  <2>2. HandIsHeld'
    BY <1>2 DEF HandIsHeld
  <2>3. AnswersLand'
    BY <1>a, <1>2 DEF TasksType, AnswersLand, Left
  <2> QED
    BY <2>1, <2>2, <2>3
<1>3. ASSUME NEW s \in {"settled", "refused"}, Settled(s), UNCHANGED reported, g'.ctx => g.ctx,
             pc' \in {"finish", "claim"} \/ (pc' = "send" /\ then' = "hook" /\ UNCHANGED hand),
             hand \in Task
      PROVE  Goal
  BY <1>a, <1>3 DEF TasksType, HandIsHeld, AnswersLand, Settled
<1>4. ASSUME UNCHANGED <<tasks, reported>>, g'.ctx => g.ctx, pc # "commit",
             pc' \in {"finish", "over", "claim", "begin", "forget", "done"} \/ (pc' = "send" /\ then' \in {"over", "begin"})
      PROVE  Goal
  BY <1>a, <1>4 DEF TasksType, HandIsHeld, AnswersLand
<1>5. ASSUME NEW stop, Disposes("settled", stop), UNCHANGED reported, g'.ctx = g.ctx,
             pc # "commit", hand \in Task
      PROVE  Goal
  BY <1>2, <1>3, <1>5 DEF Disposes
<1>6. CASE RecvConfig
  BY <1>4, <1>6 DEF RecvConfig, Sends
<1>7. CASE Send
  <2>1. pc = "send" /\ pc' = then /\ UNCHANGED <<hand, tasks, reported, g>>
    BY <1>7 DEF Send
  <2>2. CASE then \in {"over", "begin"}
    BY <1>4, <2>1, <2>2
  <2>3. CASE then \in {"take", "work", "hook"}
    BY <1>a, <2>1, <2>3 DEF TasksType, HandIsHeld, AnswersLand
  <2> QED
    BY <1>a, <2>2, <2>3 DEF SessionType
<1>8. CASE SendFails
  BY <1>a, <1>2, <1>8 DEF SendFails, Ends, GateFields
<1>9. CASE RecvReady
  BY <1>a, <1>4, <1>9 DEF RecvReady, Ends, GateFields
<1>10. CASE ClaimEnds \/ ClaimFails
  BY <1>a, <1>4, <1>10 DEF ClaimEnds, ClaimFails, Ends, GateFields
<1>11. ASSUME NEW t \in Task, Claim(t) PROVE Goal
  <2>1. /\ pc = "claim" /\ tasks[t] = "queued" /\ tasks' = [tasks EXCEPT ![t] = "held"]
        /\ hand' = t /\ pc' = "send" /\ then' \in {"take", "work"} /\ UNCHANGED <<reported, g>>
    BY <1>11 DEF Claim, Sends
  <2> QED
    BY <1>a, <2>1 DEF TasksType, HandIsHeld, AnswersLand
<1>12. CASE RecvWorking \/ RecvRead
  <2>1. /\ pc \in {"take", "work", "hook"} /\ pc' = "send" /\ then' = pc
        /\ UNCHANGED <<hand, tasks, reported>> /\ g'.ctx = g.ctx
    BY <1>a, <1>12, Zenon DEF RecvWorking, RecvRead, Sends, GateFields
  <2> QED
    BY <1>a, <2>1 DEF TasksType, HandIsHeld, AnswersLand
<1>13. CASE RecvTake
  <2>1. pc = "take" /\ hand \in Task /\ UNCHANGED reported /\ g'.ctx = g.ctx
    BY <1>a, <1>13 DEF RecvTake, HandIsHeld, GateFields
  <2>2. CASE Sends("work", hand, "work") /\ UNCHANGED <<hand, tasks>>
    BY <1>a, <2>1, <2>2 DEF Sends, TasksType, HandIsHeld, AnswersLand
  <2>3. CASE Left /\ pc' = "finish"
    BY <1>2, <2>1, <2>3
  <2> QED
    BY <1>5, <1>13, <2>1, <2>2, <2>3, Zenon DEF RecvTake
<1>14. CASE RecvModify
  <2>1. pc = "work" /\ hand \in Task /\ g'.ctx = g.ctx
    BY <1>a, <1>14 DEF RecvModify, HandIsHeld, GateFields
  <2>2. CASE pc' = "commit" /\ reported' = reported \cup {hand} /\ UNCHANGED <<hand, tasks>>
    BY <1>a, <2>1, <2>2 DEF TasksType, HandIsHeld, AnswersLand
  <2>3. CASE Left /\ pc' = "finish" /\ UNCHANGED reported
    BY <1>2, <2>1, <2>3
  <2> QED
    BY <1>5, <1>14, <2>1, <2>2, <2>3 DEF RecvModify
<1>15. CASE RecvStray \/ RenewalFails
  BY <1>a, <1>2, <1>15 DEF RecvStray, RenewalFails, Ends, GateFields
<1>16. CASE RecvFails
  BY <1>a, <1>2, <1>16 DEF RecvFails, Ends, GateFields
<1>17. CASE Commit
  <2>1. pc = "commit" /\ hand \in Task /\ UNCHANGED reported
    BY <1>a, <1>17 DEF Commit, HandIsHeld
  <2>2. PICK s \in IF g.ctx THEN {"settled", "refused"} ELSE {"left"} :
          /\ Settled(s)
          /\ \/ pc' = "send" /\ then' = "hook" /\ UNCHANGED <<hand, g>>
             \/ Ends("ok")
             \/ GoesOn
    BY <1>17 DEF Commit, Sends
  <2>3. g'.ctx = g.ctx /\ (pc' \in {"finish", "claim"} \/ (pc' = "send" /\ then' = "hook" /\ UNCHANGED hand))
    BY <1>a, <2>2 DEF Ends, GoesOn, GateFields
  <2>4. CASE g.ctx
    BY <1>3, <2>1, <2>2, <2>3, <2>4
  <2>5. CASE ~g.ctx
    BY <1>a, <2>1, <2>2, <2>3, <2>5 DEF Settled, TasksType, HandIsHeld, AnswersLand
  <2> QED
    BY <2>4, <2>5
<1>18. CASE RecvDone
  <2>1. /\ pc = "hook" /\ hand \in Task /\ pc' \in {"finish", "claim"} /\ UNCHANGED reported
        /\ tasks' \in {tasks, [tasks EXCEPT ![hand] = "settled"]} /\ g'.ctx = g.ctx
    BY <1>a, <1>18 DEF RecvDone, HandIsHeld, GateFields
  <2> QED
    BY <1>3, <1>4, <2>1 DEF Settled
<1>19. CASE Finish
  BY <1>4, <1>19 DEF Finish, Sends
<1>20. CASE Part \/ Leave \/ LastWordTimesOut
  BY <1>a, <1>4, <1>20 DEF Part, Leave, LastWordTimesOut, GateFields
<1>21. CASE GoesQuiet
  <2>1. /\ pc \in {"take", "work"} \/ (pc = "send" /\ then = "work")
        /\ UNCHANGED reported
        /\ g'.ctx = g.ctx
    BY <1>a, <1>21 DEF GoesQuiet, GateFields
  <2>2. hand \in Task /\ UNCHANGED reported
    BY <1>a, <1>21, <2>1 DEF GoesQuiet, HandIsHeld
  <2> QED
    BY <1>5, <1>21, <2>1, <2>2, Zenon DEF GoesQuiet
<1>22. CASE LoseClaim
  <2>1. /\ pc = "work" \/ (pc = "send" /\ then = "work")
        /\ tasks' = [tasks EXCEPT ![hand] = "lost"] /\ pc' = "claim" /\ UNCHANGED <<reported, g>>
    BY <1>22 DEF LoseClaim, Settled, GoesOn
  <2>2. hand \in Task /\ tasks[hand] = "held"
    BY <1>a, <2>1 DEF HandIsHeld
  <2> QED
    BY <1>a, <2>1, <2>2 DEF TasksType, HandIsHeld, AnswersLand
<1>23. SUFFICES ASSUME GateNext PROVE Goal
  BY <1>1 DEF gateVars
<1>24. CASE IdleStep \/ ShutDown \/ HandlerStep \/ Drain \/ Stopped
  <2>1. UNCHANGED <<pc, then, hand, tasks, reported>>
    BY <1>24 DEF IdleStep, IdleBegins, IdleSends, IdleRecvs, IdleFails, ShutDown, HandlerStep, Register,
         CheckEnded, Read, ToldGone, Drain, Stopped, gateVars
  <2>2. g'.ctx = g.ctx
    BY <1>a, <1>24, Zenon DEF IdleStep, IdleBegins, IdleSends, IdleRecvs, IdleFails, ShutDown, HandlerStep, Register,
         CheckEnded, Read, ToldGone, Drain, Stopped, gateVars, GateFields
  <2> QED
    BY <1>1, <2>1, <2>2
<1>25. CASE GiveUp \/ Close
  BY <1>1, <1>a, <1>25, Zenon DEF GiveUp, Close, GateFields
<1>26. CASE Posts
  BY <1>1, <1>26 DEF Posts, Post
<1> HIDE DEF Goal
<1> QED
  BY <1>6, <1>7, <1>8, <1>9, <1>10, <1>11, <1>12, <1>13, <1>14, <1>15, <1>16, <1>17, <1>18, <1>19,
     <1>20, <1>21, <1>22, <1>23, <1>24, <1>25, <1>26 DEF GateNext, CalmNext, SessionStep, Happens

(* The invariant holds at the start. *)
LEMMA AnswerInvInit == GateInit => AnswerInv
<1> SUFFICES ASSUME GateInit PROVE AnswerInv
  OBVIOUS
<1>1. SessionType /\ ClientType
  BY Zenon DEF GateInit, SessionType, ClientType, ClientFields, Phases
<1>2. g \in GateFields /\ kept \in KeptFields /\ server \in ServerFields
  BY DEF GateInit, GateFields, KeptFields, ServerFields
<1>3. TasksType /\ HandIsHeld /\ AnswersLand
  BY DEF GateInit, TasksType, HandIsHeld, AnswersLand
<1> QED
  BY <1>1, <1>2, <1>3 DEF AnswerInv, GateTypeOK

(* An ok answer that reached the gateway is committed or refused by what   *)
(* it depends on, unless the session's context ended first, whatever the   *)
(* client, the keepalive and the operator do meanwhile: for any number of  *)
(* tasks, and also when claims are lost under a client's work.             *)
THEOREM AnswersCount ==
  /\ GateSpec => []AnswerCounts
  /\ CalmSpec => []AnswerCounts
<1>1. AnswerInv /\ [GateNext]_gateVars => AnswerInv'
  BY AnswersKept, GateTypesKept DEF AnswerInv
<1>2. AnswerInv => AnswerCounts
  BY DEF AnswerInv, AnswersLand, AnswerCounts
<1>3. [CalmNext]_gateVars => [GateNext]_gateVars
  BY DEF GateNext
<1>4. GateSpec => []AnswerCounts
  BY AnswerInvInit, <1>1, <1>2, PTL DEF GateSpec
<1>5. CalmSpec => []AnswerCounts
  BY AnswerInvInit, <1>1, <1>2, <1>3, PTL DEF CalmSpec
<1> QED
  BY <1>4, <1>5

-----------------------------------------------------------------------------
(* Who may speak.  A request is open until its answer is sent, or its      *)
(* client has gone.                                                        *)
Asked == client.turn = "end" \/ (client.waits /\ post = None /\ resp = None)

Over == {"over", "forget", "done"}

LastWord(r) == r.type \in {"quit", "error"}

(* What is owed has been asked for, as has what an idle turn is about to   *)
(* send, and the answer to the config.                                     *)
OwedIsAsked ==
  kept.owed \/ kept.turn = "send" \/ (kept.turn = "off" /\ pc = "send") => Asked

(* The last word is said at the end, and a request that waits while there  *)
(* is another response waits with the last word.                           *)
LastWordIsLast ==
  /\ pc = "send" => (then = "over" <=> LastWord(say))
  /\ resp # None /\ LastWord(resp)
       => pc \in Over /\ ~kept.owed /\ kept.turn \notin {"send", "recv"}
  /\ post # None => client.turn = "end" \/ (client.waits /\ (resp = None \/ LastWord(resp)))
  /\ client.turn = "end" => ~client.waits /\ (post = None \/ pc \in Over)

(* The worker's phases go on only with a request owed, or with an idle     *)
(* turn that is to bring one.                                              *)
PhaseOwes ==
  /\ kept.turn = "none" /\ kept.err = "none"
       /\ (pc \in {"claim", "commit"} \/ (pc = "send" /\ then # "over")) => kept.owed
  /\ pc \in {"begin", "claim", "take", "work", "commit", "hook", "finish"}
       \/ (pc = "send" /\ then \in {"take", "work", "hook"}) => kept.turn # "off"
  /\ pc = "config" \/ (pc = "send" /\ then = "begin") => kept.turn = "off"

(* While the worker waits for the answer about the task in hand, nothing   *)
(* the client has, says or is being told is about another one.             *)
AboutHand ==
  /\ pc = "send" /\ then = "work" /\ say.type # "ok" => say = Response("work", hand)
  /\ pc = "work" \/ (pc = "send" /\ then = "work" /\ say.type = "ok") =>
       /\ post # None /\ post.type = "modify" => post.about = hand
       /\ client.turn = "modify" /\ (resp = None \/ resp.type = "ok") => client.about = hand
       /\ resp # None => resp.type \in {"ok", "ready"} \/ resp = Response("work", hand)

PromptInv ==
  GateTypeOK /\ OwedIsAsked /\ LastWordIsLast /\ PhaseOwes /\ NeverUnprompted /\ AboutHand

(* Receiving a request, a session that is not over is asked for an answer. *)
LEMMA ReceivedAsks ==
  ASSUME PromptInv, Received, UNCHANGED <<resp, client>>, pc \notin Over \/ kept.turn = "recv"
  PROVE  Asked' /\ (resp = None \/ ~LastWord(resp))
BY DEF PromptInv, Received, LastWordIsLast, Asked

(* Anything but the last word is sent when asked for. *)
LEMMA SendsWhenAsked ==
  ASSUME PromptInv, Send, then # "over"
  PROVE  Asked
BY DEF PromptInv, Send, PhaseOwes, OwedIsAsked, GateTypeOK, KeptFields

(* A worker's phase receives a request and goes on, or ends. *)
LEMMA RecvKeepsPrompt ==
  ASSUME PromptInv, Received, Owing, UNCHANGED <<resp, client>>, GateTypeOK',
         pc \in {"begin", "take", "work", "hook"},
         \/ pc' \in {"claim", "commit", "finish"}
         \/ pc' = "send" /\ then' \in {"take", "work", "hook"} /\ ~LastWord(say')
  PROVE  OwedIsAsked' /\ LastWordIsLast' /\ PhaseOwes' /\ NeverUnprompted'
<1>1. Asked' /\ (resp = None \/ ~LastWord(resp))
  BY ReceivedAsks DEF Over
<1>2. kept.turn # "off" /\ kept'.owed /\ kept'.turn = kept.turn /\ kept'.err = kept.err
  BY DEF PromptInv, PhaseOwes, Owing, GateTypeOK, KeptFields
<1>3. OwedIsAsked'
  BY <1>1 DEF OwedIsAsked
<1>4. LastWordIsLast'
  BY <1>1 DEF PromptInv, LastWordIsLast, Received, LastWord
<1>5. PhaseOwes'
  BY <1>2 DEF PhaseOwes
<1>6. NeverUnprompted'
  BY DEF PromptInv, NeverUnprompted
<1> QED
  BY <1>3, <1>4, <1>5, <1>6

(* The goroutine moves on without a word. *)
LEMMA MoveKeepsPrompt ==
  ASSUME PromptInv, UNCHANGED <<kept, post, resp, client>>,
         \/ pc \in {"claim", "commit"} /\ pc' = "claim"
         \/ pc \in {"claim", "commit"} /\ pc' = "send" /\ then' \in {"take", "work", "hook"}
              /\ ~LastWord(say')
         \/ pc' = "send" /\ then' = "over" /\ LastWord(say') /\ pc = "finish"
         \/ pc' = "finish" /\ pc \notin Over \cup {"config"} /\ kept.turn # "off"
         \/ pc' \in Over
  PROVE  OwedIsAsked' /\ LastWordIsLast' /\ PhaseOwes' /\ NeverUnprompted'
<1>1. OwedIsAsked'
  BY DEF PromptInv, OwedIsAsked, PhaseOwes, Asked, Over
<1>2. LastWordIsLast'
  BY DEF PromptInv, LastWordIsLast, LastWord, Over
<1>3. PhaseOwes'
  BY DEF PromptInv, PhaseOwes, Over
<1>4. NeverUnprompted'
  BY DEF PromptInv, NeverUnprompted
<1> QED
  BY <1>1, <1>2, <1>3, <1>4

(* Who may speak, under each of the session's own steps. *)
LEMMA SessionKeepsPrompt ==
  ASSUME PromptInv, GateTypeOK', SessionStep \/ Happens
  PROVE  OwedIsAsked' /\ LastWordIsLast' /\ PhaseOwes' /\ NeverUnprompted'
<1> DEFINE Goal == OwedIsAsked' /\ LastWordIsLast' /\ PhaseOwes' /\ NeverUnprompted'
<1>0. SUFFICES Goal
  OBVIOUS
<1>a. /\ kept \in KeptFields /\ kept' \in KeptFields /\ SessionType
      /\ OwedIsAsked /\ LastWordIsLast /\ PhaseOwes /\ NeverUnprompted
  BY DEF PromptInv, GateTypeOK
<1>1. CASE RecvConfig
  <2>1. /\ Received /\ pc = "config" /\ pc' = "send" /\ UNCHANGED <<kept, resp, client>>
        /\ (then' = "begin" /\ ~LastWord(say')) \/ (then' = "over" /\ LastWord(say'))
    BY <1>1 DEF RecvConfig, Sends, Response, LastWord
  <2>2. Asked' /\ (resp = None \/ ~LastWord(resp))
    BY <2>1, ReceivedAsks DEF Over
  <2>3. PhaseOwes'
    BY <1>a, <2>1 DEF PhaseOwes
  <2> QED
    BY <1>a, <2>1, <2>2, <2>3 DEF OwedIsAsked, LastWordIsLast, LastWord, NeverUnprompted, Received, Over
<1>2. CASE Send
  <2>1. /\ pc = "send" /\ pc' = then /\ UNCHANGED <<post, client>> /\ ~kept'.owed
        /\ kept.turn \notin {"send", "recv"} /\ kept'.turn \notin {"send", "recv"}
        /\ kept'.turn = IF then = "begin" THEN "none" ELSE kept.turn
        /\ resp' = IF client.turn = "end" THEN None ELSE say
    BY <1>a, <1>2 DEF Send, Delivered, KeptFields
  <2>2. PhaseOwes'
    BY <1>a, <2>1 DEF PhaseOwes, SessionType
  <2>3. OwedIsAsked'
    BY <1>a, <2>1 DEF OwedIsAsked, SessionType
  <2>4. CASE then = "over"
    BY <1>a, <2>1, <2>2, <2>3, <2>4 DEF LastWordIsLast, NeverUnprompted, LastWord, Over
  <2>5. CASE then # "over"
    <3>1. Asked
      BY <1>2, <2>5, SendsWhenAsked
    <3> QED
      BY <1>a, <2>1, <2>2, <2>3, <2>5, <3>1 DEF LastWordIsLast, NeverUnprompted, LastWord, Over, Asked, SessionType
  <2> QED
    BY <2>4, <2>5
<1>3. CASE SendFails
  <2>1. /\ pc = "send" /\ UNCHANGED <<post, resp, client>> /\ ~kept'.owed
        /\ kept'.turn = kept.turn
        /\ pc' = IF then \in {"begin", "over"} THEN "over" ELSE "finish"
    BY <1>a, <1>3 DEF SendFails, Ends, KeptFields
  <2> QED
    BY <1>a, <2>1 DEF OwedIsAsked, LastWordIsLast, LastWord, PhaseOwes, NeverUnprompted, Asked, Over, SessionType
<1>4. CASE RecvReady
  BY <1>4, RecvKeepsPrompt DEF RecvReady, Ends
<1>5. CASE RecvWorking \/ RecvRead
  BY <1>5, RecvKeepsPrompt DEF RecvWorking, RecvRead, Sends, Response, LastWord
<1>6. CASE RecvTake
  BY <1>6, RecvKeepsPrompt DEF RecvTake, Sends, Response, LastWord, Disposes
<1>7. CASE RecvModify
  BY <1>7, RecvKeepsPrompt DEF RecvModify, Disposes
<1>8. CASE RecvStray \/ RecvDone
  BY <1>8, RecvKeepsPrompt DEF RecvStray, RecvDone, Ends
<1>9. ASSUME NEW t \in Task, Claim(t) PROVE Goal
  BY <1>9, MoveKeepsPrompt DEF Claim, Sends, Response, LastWord
<1>10. CASE ClaimEnds \/ ClaimFails
  BY <1>a, <1>10, MoveKeepsPrompt DEF ClaimEnds, ClaimFails, Ends, PhaseOwes, Over
<1>11. CASE RecvFails
  BY <1>a, <1>11, MoveKeepsPrompt DEF RecvFails, Ends, PhaseOwes, Over
<1>12. CASE Commit
  <2>1. /\ pc = "commit" /\ UNCHANGED <<kept, post, resp, client>>
        /\ pc' \in {"claim", "finish"} \/ (pc' = "send" /\ then' = "hook" /\ ~LastWord(say'))
    BY <1>12 DEF Commit, Sends, Response, LastWord, Ends, GoesOn
  <2> QED
    BY <1>a, <2>1, MoveKeepsPrompt DEF PhaseOwes, Over
<1>13. CASE Finish
  <2>1. /\ pc = "finish" /\ UNCHANGED <<kept, post, resp, client>>
        /\ pc' = "over" \/ (pc' = "send" /\ then' = "over" /\ LastWord(say'))
    BY <1>13 DEF Finish, Sends, Response, LastWord
  <2> QED
    BY <2>1, MoveKeepsPrompt DEF Over
<1>14. CASE Part \/ Leave \/ LastWordTimesOut
  BY <1>14, MoveKeepsPrompt DEF Part, Leave, LastWordTimesOut, Over
<1>15. CASE GoesQuiet \/ RenewalFails
  BY <1>a, <1>15, MoveKeepsPrompt DEF GoesQuiet, RenewalFails, Disposes, Ends, PhaseOwes, Over
<1> HIDE DEF Goal
<1> QED
  BY <1>1, <1>2, <1>3, <1>4, <1>5, <1>6, <1>7, <1>8, <1>9, <1>10, <1>11, <1>12, <1>13, <1>14, <1>15
     DEF SessionStep, Happens

(* Who may speak, when the keepalive, the client or the operator act. *)
LEMMA OthersKeepPrompt ==
  ASSUME PromptInv, GateTypeOK',
         IdleStep \/ ShutDown \/ Posts \/ HandlerStep \/ GiveUp \/ Drain \/ Close \/ UNCHANGED gateVars
  PROVE  OwedIsAsked' /\ LastWordIsLast' /\ PhaseOwes' /\ NeverUnprompted'
<1> DEFINE Goal == OwedIsAsked' /\ LastWordIsLast' /\ PhaseOwes' /\ NeverUnprompted'
<1>0. SUFFICES Goal
  OBVIOUS
<1>a. /\ kept \in KeptFields /\ kept' \in KeptFields /\ client \in ClientFields
      /\ OwedIsAsked /\ LastWordIsLast /\ PhaseOwes /\ NeverUnprompted
  BY DEF PromptInv, GateTypeOK, ClientType
<1>1. CASE UNCHANGED <<pc, say, then, kept, post, resp, client>>
  BY <1>a, <1>1 DEF OwedIsAsked, Asked, LastWordIsLast, LastWord, PhaseOwes, NeverUnprompted
<1>2. CASE IdleBegins
  <2>1. /\ UNCHANGED <<pc, say, then, post, resp, client>> /\ kept.owed /\ kept.turn = "none"
        /\ kept'.turn = "send" /\ kept'.owed
    BY <1>a, <1>2 DEF IdleBegins, KeptFields
  <2> QED
    BY <1>a, <2>1 DEF OwedIsAsked, Asked, LastWordIsLast, LastWord, PhaseOwes, NeverUnprompted
<1>3. CASE IdleSends
  <2>1. /\ UNCHANGED <<pc, say, then, post, client>> /\ kept.turn = "send"
        /\ kept'.turn = "recv" /\ ~kept'.owed
        /\ resp' = IF client.turn = "end" THEN None ELSE Response("ready", NoTask)
    BY <1>a, <1>3 DEF IdleSends, Delivered, KeptFields
  <2> QED
    BY <1>a, <2>1 DEF OwedIsAsked, Asked, LastWordIsLast, LastWord, PhaseOwes, NeverUnprompted,
                      Response
<1>4. CASE IdleRecvs
  <2>1. /\ UNCHANGED <<pc, say, then, resp, client>> /\ kept.turn = "recv" /\ Received
        /\ kept'.turn = "none" /\ (kept'.owed \/ kept'.err # "none")
    BY <1>a, <1>4, Zenon DEF IdleRecvs, KeptFields
  <2>2. Asked' /\ (resp = None \/ ~LastWord(resp))
    BY <2>1, ReceivedAsks
  <2> QED
    BY <1>a, <2>1, <2>2 DEF OwedIsAsked, LastWordIsLast, LastWord, PhaseOwes, NeverUnprompted, Received
<1>5. CASE IdleFails
  <2>1. /\ UNCHANGED <<pc, say, then, post, resp, client>> /\ kept.turn \in {"send", "recv"}
        /\ kept'.turn = "none" /\ kept'.err # "none" /\ kept'.owed = kept.owed
    BY <1>a, <1>5, Zenon DEF IdleFails, KeptFields
  <2> QED
    BY <1>a, <2>1 DEF OwedIsAsked, Asked, LastWordIsLast, LastWord, PhaseOwes, NeverUnprompted
<1>6. CASE Posts
  <2>1. /\ UNCHANGED <<pc, say, then, kept, resp>> /\ client.turn # "end" /\ ~client.waits /\ post = None
        /\ \/ client'.turn = "end" /\ post' = None /\ client'.waits = client.waits
           \/ client'.waits /\ client'.turn = client.turn
    BY <1>a, <1>6, ZenonT(40) DEF Posts, Post, ClientFields
  <2>2. ~Asked
    BY <2>1 DEF Asked
  <2>3. resp = None \/ LastWord(resp)
    BY <1>a, <2>1 DEF NeverUnprompted, LastWord
  <2> QED
    BY <1>a, <2>1, <2>2, <2>3, SMTT(30) DEF OwedIsAsked, LastWordIsLast, LastWord, PhaseOwes, NeverUnprompted
<1>7. CASE Read
  <2>1. /\ UNCHANGED <<pc, say, then, kept, post>> /\ client.waits /\ resp # None /\ resp' = None
        /\ client' = [NextTurn(resp) EXCEPT !.waits = FALSE]
    BY <1>7 DEF Read
  <2>2. resp \in Responses /\ client.turn # "end"
    BY <1>a, <2>1 DEF PromptInv, GateTypeOK, ClientType, LastWordIsLast
  <2>3. NextTurn(resp) \in ClientFields /\ (NextTurn(resp).turn = "end" <=> LastWord(resp))
    BY <1>a, <2>2, NextTurnType DEF LastWord
  <2>4. /\ client'.turn = "end" <=> LastWord(resp)
        /\ ~client'.waits
    BY <2>1, <2>3 DEF ClientFields
  <2>5. ~Asked
    BY <1>a, <2>1 DEF Asked, LastWordIsLast
  <2> QED
    BY <1>a, <2>1, <2>4, <2>5 DEF OwedIsAsked, LastWordIsLast, PhaseOwes, NeverUnprompted
<1>8. CASE ToldGone
  <2>1. /\ UNCHANGED <<pc, say, then, kept, resp>> /\ client'.turn = "end" /\ ~client'.waits
        /\ post' = None /\ resp = None
    BY <1>a, <1>8 DEF ToldGone, ClientFields
  <2> QED
    BY <1>a, <2>1 DEF OwedIsAsked, Asked, LastWordIsLast, LastWord, PhaseOwes, NeverUnprompted
<1>9. CASE GiveUp
  <2>1. /\ UNCHANGED <<pc, say, then, kept>> /\ client'.turn = "end" /\ ~client'.waits
        /\ post' = None /\ resp' = None
    BY <1>a, <1>9 DEF GiveUp, ClientFields
  <2> QED
    BY <1>a, <2>1 DEF OwedIsAsked, Asked, LastWordIsLast, LastWord, PhaseOwes, NeverUnprompted
<1>10. CASE ShutDown \/ Register \/ CheckEnded \/ Drain \/ Close \/ UNCHANGED gateVars
  BY <1>1, <1>10 DEF ShutDown, Register, CheckEnded, Drain, Close, gateVars
<1> HIDE DEF Goal
<1> QED
  BY <1>2, <1>3, <1>4, <1>5, <1>6, <1>7, <1>8, <1>9, <1>10 DEF IdleStep, HandlerStep

(* What the client has is about the task in hand. *)
LEMMA AboutHandKept ==
  ASSUME PromptInv, GateTypeOK', [CalmNext]_gateVars
  PROVE  AboutHand'
<1>a. /\ AboutHand /\ LastWordIsLast /\ NeverUnprompted /\ SessionType /\ client \in ClientFields
      /\ resp = None \/ resp \in Responses
  BY DEF PromptInv, GateTypeOK, ClientType
<1>1. CASE UNCHANGED <<pc, say, then, hand, post, resp, client>>
  BY <1>1, <1>a DEF AboutHand
<1>2. ASSUME pc' # "work", pc' = "send" => then' # "work" PROVE AboutHand'
  BY <1>2 DEF AboutHand
<1>3. ASSUME pc' = "send", then' = "work", say' = Response("work", hand') PROVE AboutHand'
  BY <1>3 DEF AboutHand, Response
<1>4. CASE Send
  <2>1. CASE then # "work"
    BY <1>2, <1>4, <2>1, <1>a DEF Send, SessionType
  <2>2. CASE then = "work"
    <3>1. Asked
      BY <1>4, <2>2, SendsWhenAsked
    <3>2. /\ pc = "send" /\ pc' = "work" /\ UNCHANGED <<hand, post, client>>
          /\ resp' = IF client.turn = "end" THEN None ELSE say
      BY <1>4, <2>2 DEF Send, Delivered
    <3>3. post = None
      BY <1>a, <3>1, <3>2 DEF Asked, LastWordIsLast, Over
    <3>4. CASE say.type = "ok"
      BY <1>a, <3>1, <3>2, <3>3, <3>4, <2>2 DEF AboutHand, Asked
    <3>5. CASE say = Response("work", hand)
      <4>1. say # None
        BY <1>a, <3>5, NoneIsNoResponse DEF Response, ResponseTypes, SessionType
      <4> QED
        BY <1>a, <3>2, <3>3, <3>5, <4>1 DEF AboutHand, Response
    <3> QED
      BY <1>a, <2>2, <3>2, <3>4, <3>5 DEF AboutHand
  <2> QED
    BY <2>1, <2>2
<1>5. CASE RecvWorking \/ RecvRead
  <2>1. CASE pc # "work"
    BY <1>2, <1>5, <2>1 DEF RecvWorking, RecvRead, Sends
  <2>2. CASE pc = "work"
    <3>1. /\ pc' = "send" /\ then' = "work" /\ say'.type = "ok" /\ post' = None
          /\ UNCHANGED <<hand, resp, client>>
      BY <1>5, <2>2 DEF RecvWorking, RecvRead, Received, Sends, Response
    <3> QED
      BY <1>a, <2>2, <3>1 DEF AboutHand
  <2> QED
    BY <2>1, <2>2
<1>6. ASSUME NEW t \in Task, Claim(t) PROVE AboutHand'
  BY <1>2, <1>3, <1>6 DEF Claim, Sends
<1>7. CASE RecvTake
  BY <1>2, <1>3, <1>7 DEF RecvTake, Sends, Disposes
<1>8. CASE RecvModify \/ RecvStray \/ RecvDone \/ RecvFails \/ SendFails
  BY <1>2, <1>8 DEF RecvModify, RecvStray, RecvDone, RecvFails, SendFails, Disposes, Ends
<1>9. CASE Commit
  BY <1>2, <1>9 DEF Commit, Sends, Ends, GoesOn
<1>10. CASE RecvConfig \/ RecvReady \/ ClaimEnds \/ Finish \/ Part \/ Leave
  BY <1>2, <1>10 DEF RecvConfig, RecvReady, ClaimEnds, Finish, Part, Leave, Sends, Ends
<1>11. CASE Happens
  BY <1>2, <1>11 DEF Happens, ClaimFails, GoesQuiet, RenewalFails, LastWordTimesOut, Disposes, Ends
<1>12. CASE IdleSends
  <2>1. /\ UNCHANGED <<pc, say, then, hand, post, client>>
        /\ resp' = IF client.turn = "end" THEN None ELSE Response("ready", NoTask)
    BY <1>12 DEF IdleSends, Delivered
  <2>2. Response("ready", NoTask) # None
    BY NoneIsNoResponse DEF Response, ResponseTypes
  <2> QED
    BY <1>a, <2>1, <2>2 DEF AboutHand, Response
<1>13. CASE IdleRecvs
  BY <1>a, <1>13, SMTT(30) DEF IdleRecvs, Received, AboutHand
<1>14. CASE Posts
  <2>1. PICK type \in RequestTypes, outcome \in Outcomes, quit \in BOOLEAN :
               Post(type, outcome, quit)
    BY <1>14 DEF Posts
  <2>2. /\ UNCHANGED <<pc, say, then, hand, resp>> /\ ~client.waits /\ client.turn # "end"
        /\ \/ UNCHANGED post /\ client'.turn = "end"
           \/ /\ post' = Request(type, client.about, outcome, quit)
              /\ client'.turn = client.turn /\ client'.about = client.about
        /\ type = "modify" => client.turn = "modify"
    BY <1>a, <2>1, ZenonT(40) DEF Post, Asides, ClientFields
  <2>3. pc \notin Over => resp = None
    BY <1>a, <2>2 DEF NeverUnprompted, LastWordIsLast, LastWord
  <2> QED
    BY <1>a, <2>2, <2>3, SMTT(30) DEF AboutHand, Request, Over
<1>15. CASE Read
  <2>1. /\ UNCHANGED <<pc, say, then, hand, post>> /\ resp # None /\ resp' = None
        /\ client' = [NextTurn(resp) EXCEPT !.waits = FALSE]
    BY <1>15 DEF Read
  <2>2. /\ client'.turn = NextTurn(resp).turn /\ client'.about = NextTurn(resp).about
    BY <1>a, <2>1, NextTurnType DEF ClientFields
  <2>3. CASE resp.type = "ok"
    BY <1>a, <2>1, <2>2, <2>3 DEF AboutHand, NextTurn
  <2>4. CASE resp.type = "ready"
    BY <1>a, <2>1, <2>2, <2>4, Zenon DEF AboutHand, NextTurn, ClientFields
  <2>5. CASE resp = Response("work", hand)
    BY <1>a, <2>1, <2>2, <2>5, Zenon DEF AboutHand, NextTurn, ClientFields, Response
  <2> QED
    BY <1>a, <2>1, <2>3, <2>4, <2>5 DEF AboutHand
<1>16. CASE ToldGone \/ GiveUp
  <2>1. UNCHANGED <<pc, say, then, hand>> /\ client'.turn = "end" /\ post' = None /\ resp' = None
    BY <1>a, <1>16, Zenon DEF ToldGone, GiveUp, ClientFields
  <2> QED
    BY <1>a, <2>1 DEF AboutHand
<1>17. CASE IdleBegins \/ IdleFails \/ ShutDown \/ Register \/ CheckEnded \/ Drain \/ Close
            \/ UNCHANGED gateVars
  BY <1>1, <1>17 DEF IdleBegins, IdleFails, ShutDown, Register, CheckEnded, Drain, Close, gateVars
<1> QED
  BY <1>4, <1>5, <1>6, <1>7, <1>8, <1>9, <1>10, <1>11, <1>12, <1>13, <1>14, <1>15, <1>16, <1>17
     DEF CalmNext, SessionStep, IdleStep, HandlerStep, Stopped

(* While no claim is lost, the gateway never speaks unprompted: all it     *)
(* says but the last word answers a request the client is waiting on,      *)
(* though two goroutines, the worker's phases and the keepalive, both send *)
(* to it; and the answer it acts on is about the task in hand.             *)
THEOREM GatewaySpeaksInTurn == CalmSpec => [](NeverUnprompted /\ OwnOutcome)
<1>1. GateInit => PromptInv
  BY AnswerInvInit DEF GateInit, AnswerInv, PromptInv, OwedIsAsked, LastWordIsLast, LastWord, PhaseOwes,
                       NeverUnprompted, AboutHand
<1>2. PromptInv /\ [CalmNext]_gateVars => PromptInv'
  <2> SUFFICES ASSUME PromptInv, [CalmNext]_gateVars PROVE PromptInv'
    OBVIOUS
  <2>1. GateTypeOK'
    BY GateTypesKept DEF GateNext, PromptInv
  <2>2. AboutHand'
    BY <2>1, AboutHandKept
  <2>3. OwedIsAsked' /\ LastWordIsLast' /\ PhaseOwes' /\ NeverUnprompted'
    BY <2>1, SessionKeepsPrompt, OthersKeepPrompt DEF CalmNext, Stopped
  <2> QED
    BY <2>1, <2>2, <2>3 DEF PromptInv
<1>3. PromptInv => NeverUnprompted /\ OwnOutcome
  BY DEF PromptInv, AboutHand, OwnOutcome
<1> QED
  BY <1>1, <1>2, <1>3, PTL DEF CalmSpec
=============================================================================
