------------------------------ MODULE Backends ------------------------------
(***************************************************************************)
(* The backends that keep tasks and docs outside the process, side by      *)
(* side, and SQLite behind the service: a behaviour is one of clients with *)
(* a store of one of the kinds.                                            *)
(***************************************************************************)
EXTENDS EQPg, EQRedis, Service

CONSTANTS
    Requests,   \* the modifications clients may ask a store for outright
    ViaService  \* those they may ask the service for

VARIABLES
    backend,  \* which kind of store this is
    due       \* history: the calls that could not proceed at some instant of them, and why

vars == <<backendVars, callVars, redisVars, serviceVars, backend, due>>

Init ==
    /\ BackendInit /\ CallInit /\ RedisInit /\ ServiceInit
    /\ backend \in {"pg", "redis", "sqlite", "service"}
    /\ backend # "service" => Protocol \in served
    /\ due = {}

(* A call's own steps. *)
Step(c) ==
    \/ backend = "pg" /\ PgStep(c) /\ UNCHANGED <<redisVars, serviceVars>>
    \/ backend = "redis" /\ RedisStep(c) /\ UNCHANGED serviceVars
    \/ backend = "sqlite" /\ SQLiteStep(c) /\ UNCHANGED <<redisVars, serviceVars>>
    \/ backend = "service" /\ ServiceStep(c) /\ UNCHANGED redisVars

(* What clients do, and what may befall them. *)
ClientStep(c) ==
    \/ /\ Ask(c, IF backend = "service" THEN ViaService ELSE Requests)
       /\ UNCHANGED <<redisVars, serviceVars>>
    \/ backend # "service" /\ CutShort(c) /\ UNCHANGED <<redisVars, serviceVars>>
    \/ backend = "service" /\ GiveUp(c) /\ UNCHANGED redisVars

(* What goes on besides. *)
Background ==
    \/ backend = "pg" /\ CollectPg /\ UNCHANGED <<redisVars, serviceVars>>
    \/ backend = "redis" /\ CollectLockScript /\ UNCHANGED serviceVars
    \/ backend \in {"sqlite", "service"} /\ CollectSQLite /\ UNCHANGED <<redisVars, serviceVars>>
    \/ backend = "service" /\ (ServeStray \/ Replace) /\ UNCHANGED redisVars
    \/ Tick /\ UNCHANGED <<callVars, redisVars, serviceVars>>

(* Why a call cannot be met, by the clock of an instant since it began. *)
Refusable(c) ==
    LET current == [tasks |-> tasks, docs |-> docs, locks |-> locks]
        cannot == \E at \in call[c].at .. now :
                      \/ call[c].kind = "modify" /\ Refused(call[c].what, tasks, docs, locks, at)
                      \/ call[c].kind = "claim docs" /\ ~Takes(c, [call[c] EXCEPT !.at = at], current)
    IN  {r \in {"dependency", "unsupported"} :
            \/ r = "dependency" /\ cannot
            \/ r = "unsupported" /\ Protocol \notin served}

Remember ==
    due' = {d \in due : Underway(d[1]) \/ call'[d[1]] = call[d[1]]}
           \cup UNION {{<<c, r>> : r \in Refusable(c)} : c \in {d \in Claimant : Underway(d)}}

Next ==
    /\ (\E c \in Claimant : Step(c) \/ ClientStep(c)) \/ Background
    /\ Remember
    /\ UNCHANGED backend

Spec == Init /\ [][Next]_vars

-----------------------------------------------------------------------------

(* A call is refused only if what it asks could not be done at some        *)
(* instant of the call, though a PostgreSQL transaction locks what it      *)
(* reads row by row, and a Redis one reads key by key, judges the pieces   *)
(* and answers without having its watches tested; and a client says that   *)
(* the server does not serve its protocol only if at some instant of the   *)
(* call it did not, though it goes by what earlier responses listed.       *)
RefusalsAreDue ==
    \A c \in Claimant : call[c].pc = "answered" /\ call[c].answer \in {"dependency", "unsupported"}
                           => <<c, call[c].answer>> \in due

(* A client that claims a doc set and then deletes the docs it was given,  *)
(* as the collector does, deletes all of the set or nothing, though the    *)
(* two are separate calls, its claim may run out between them, and Redis   *)
(* lists the docs after the claim.                                         *)
CollectedWhole ==
    [][\A c \in Claimant :
           Underway(c) /\ call'[c].answer = "ok" => \A g \in call[c].given : D!Members(docs', g) = {}]_vars

(* The figures Redis takes from its sorted sets, claim and move and reset  *)
(* as one may, are those the other backends count from the tasks.          *)
StatsAgree ==
    backend = "redis" => \A q \in Queue : RedisQueueStats(q) = QueueStats(q)

(* Whoever makes a step of the service's, if anyone does. *)
Writer(c) ==
    call'[c].writes # call[c].writes \/ \E s \in stray : s.by = c /\ stray' = {}

(* What a client changes through the service, the policy lets it change:   *)
(* judged by where the tasks really were and really went, though the       *)
(* service judges by where the request says they are, before the backend   *)
(* has looked, and the request may arrive after the client gave up.        *)
WithinGrants ==
    [][\A c \in Claimant : backend = "service" /\ Writer(c) =>
           /\ \A i \in Id : tasks'[i] # tasks[i] =>
                  CASE tasks[i] = NoTask -> <<tasks'[i].queue, "insert">> \in QueueGrants[c]
                    [] tasks'[i] = NoTask -> <<tasks[i].queue, "delete">> \in QueueGrants[c]
                    [] OTHER ->
                           IF tasks'[i].queue = tasks[i].queue
                           THEN \E a \in {"change", "claim"} : <<tasks[i].queue, a>> \in QueueGrants[c]
                           ELSE {<<tasks[i].queue, "delete">>, <<tasks'[i].queue, "insert">>} \subseteq QueueGrants[c]
           /\ \A i \in DocId : docs'[i] # docs[i] =>
                  (IF docs[i] = NoDoc THEN "insert" ELSE IF docs'[i] = NoDoc THEN "delete" ELSE "change")
                      \in DocGrants[c]]_vars
=============================================================================
