------------------------------ MODULE Service ------------------------------
(***************************************************************************)
(* A backend behind the service: the client's half (pkg/backend/eqgrpc),   *)
(* the service (pkg/eqsvcgrpc), and the form a request has between them    *)
(* (pkg/pbconv).  The service stores with SQLite here.                     *)
(*                                                                         *)
(* A client speaks one protocol.  It asks a server what it serves before   *)
(* its first call, remembers the answer, and asks again once a response    *)
(* says otherwise; the server may be replaced by another release between   *)
(* any two steps.  A request the client has given up on may still arrive.  *)
(***************************************************************************)
EXTENDS EQSQLite

CONSTANTS
    Protocol,     \* the protocol the client speaks
    Releases,     \* what the releases that may answer serve: sets of protocols
    Floor,        \* the service's bounds of a lease
    Ceiling,
    QueueGrants,  \* what the policy lets each client do to each queue
    DocGrants,    \* and to the docs
    MaxReplaced   \* bound: how often the server is replaced

VARIABLES
    served,    \* the protocols the server now answering serves
    chosen,    \* whether the client takes the server to serve its protocol
    heard,     \* the protocols the last response to each call listed
    stray,     \* the request still under way that its client gave up on, if any
    replaced   \* how often the server was replaced

serviceVars == <<served, chosen, heard, stray, replaced>>

ServiceInit ==
    /\ served \in Releases
    /\ chosen = FALSE
    /\ heard = [c \in Claimant |-> {}]
    /\ stray = {}
    /\ replaced = 0

-----------------------------------------------------------------------------
(* The form of a request between client and service: an arrival travels as *)
(* a change that only sets the lease and names no queue to move to, and a  *)
(* doc set is named by its key where a doc is named by its ID.             *)

WireChange(o, from, to, mode) ==
    [id |-> o.id, version |-> o.version, from |-> from, to |-> to, by |-> o.by, mode |-> mode]

ById(o) == [ref |-> <<"id", o.id>>, version |-> o.version]
ByKey(o) == [ref |-> <<"key", o.set>>, version |-> o.version]

Wire(m) ==
    [claimant |-> m.task.claimant,
     inserts |-> m.task.inserts, deletes |-> m.task.deletes, depends |-> m.task.depends,
     changes |-> {WireChange(o, o.from, {o.queue}, IF o.reset THEN "reset" ELSE "default") : o \in m.task.changes}
            \cup {WireChange(o, o.queue, {}, "lease") : o \in m.task.arrives},
     docInserts |-> m.docs.inserts, docDeletes |-> m.docs.deletes,
     docChanges |-> {[of |-> ById(o), by |-> o.by, mode |-> "default"] : o \in m.docs.changes}
               \cup {[of |-> ByKey(o), by |-> o.by, mode |-> "lease"] : o \in m.docs.arrives},
     docDepends |-> {ById(o) : o \in m.docs.depends} \cup {ByKey(o) : o \in m.docs.setDepends}]

(* A change as received; one that names no queue to move to stays. *)
ChangeFrom(o) ==
    [id |-> o.id, version |-> o.version, from |-> o.from, by |-> o.by, reset |-> o.mode = "reset",
     queue |-> IF o.to = {} THEN o.from ELSE CHOOSE q \in o.to : TRUE]

(* A lease as received: of a task, or of a set, which it names by its key. *)
TaskLeaseFrom(o) == [id |-> o.id, version |-> o.version, queue |-> o.from, by |-> o.by]

DocLeaseFrom(o) == [set |-> o.of.ref[2], version |-> o.of.version, by |-> o.by]

(* The sets a request depends on, where it names no doc. *)
SetDependsFrom(w) ==
    {[set |-> r.ref[2], version |-> r.version] : r \in {q \in w.docDepends : q.ref[1] = "key"}}

(* The modification a request stands for. *)
ModifyArgsFromProto(w) ==
    LET lease(ops) == {o \in ops : o.mode = "lease"}
        byId == {r \in w.docDepends : r.ref[1] = "id"}
    IN  [task |-> [claimant |-> w.claimant,
                   inserts |-> w.inserts, deletes |-> w.deletes, depends |-> w.depends,
                   changes |-> {ChangeFrom(o) : o \in w.changes \ lease(w.changes)},
                   arrives |-> {TaskLeaseFrom(o) : o \in lease(w.changes)}],
         docs |-> [claimant |-> w.claimant,
                   inserts |-> w.docInserts, deletes |-> w.docDeletes,
                   changes |-> {[id |-> o.of.ref[2], version |-> o.of.version, by |-> o.by] :
                                   o \in w.docChanges \ lease(w.docChanges)},
                   arrives |-> {DocLeaseFrom(o) : o \in lease(w.docChanges)},
                   depends |-> {[id |-> r.ref[2], version |-> r.version] : r \in byId},
                   setDepends |-> SetDependsFrom(w)]]

Outcomes == {"ok", "nothing", "dependency", "denied", "unsupported"}

(* The status an outcome travels as, and what the client makes of it. *)
StatusOf(answer) ==
    CASE answer \in {"ok", "nothing"} -> "OK"
      [] answer = "dependency" -> "Aborted"
      [] answer = "denied" -> "PermissionDenied"
      [] answer = "unsupported" -> "Unimplemented"

UnpackLumped(status) == IF status = "PermissionDenied" THEN "denied" ELSE "unsupported"

UnpackGRPCError(status) ==
    CASE status \in {"NotFound", "Aborted"} -> "dependency"
      [] status = "PermissionDenied" -> "denied"
      [] status = "Unimplemented" -> "unsupported"

-----------------------------------------------------------------------------
(* What a request needs the policy to grant. *)

ChangeNeedsSource(o) == {<<o.from, "change">>}

ChangeNeeds(o) ==
    IF o.to \in {{}, {o.from}} THEN {<<o.from, "change">>}
    ELSE {<<o.from, "delete">>} \cup {<<q, "insert">> : q \in o.to}

ModifyAuthz(w) ==
    [queues |-> {<<o.queue, "insert">> : o \in w.inserts} \cup (UNION {ChangeNeeds(o) : o \in w.changes})
                \cup {<<o.queue, "delete">> : o \in w.deletes} \cup {<<o.queue, "read">> : o \in w.depends},
     docs |-> {a \in {"insert", "change", "delete", "read"} :
                  \/ a = "insert" /\ w.docInserts # {}
                  \/ a = "change" /\ w.docChanges # {}
                  \/ a = "delete" /\ w.docDeletes # {}
                  \/ a = "read" /\ w.docDepends # {}}]

ClaimAuthz(q) == [queues |-> {<<q.queue, "claim">>}, docs |-> {}]

ClaimDocsAuthz(q) ==
    [queues |-> IF "match" \in DOMAIN q THEN {<<q.match.queue, "read">>} ELSE {},
     docs |-> {"claim", "read"}]

Authorize(c, needs) == needs.queues \subseteq QueueGrants[c] /\ needs.docs \subseteq DocGrants[c]

ClampLease(d) == IF d < Floor THEN Floor ELSE IF d > Ceiling THEN Ceiling ELSE d

(* A claim that names a task to match has no length of its own to clamp. *)
ResolveSetLease(q) == IF "hold" \in DOMAIN q THEN [q EXCEPT !.hold = ClampLease(@)] ELSE q

(* The handlers: what is asked is converted and bounded, the policy        *)
(* decides, and the backend does it.                                       *)
IfAuthorized(c, needs, a, answer) ==
    \/ answer = "denied" /\ ~Authorize(c, needs) /\ UNCHANGED backendVars
    \/ Authorize(c, needs) /\ Transaction(c, a, answer)

ModifyHandler(c, a, answer) ==
    /\ a.kind = "modify"
    /\ IfAuthorized(c, ModifyAuthz(Wire(a.what)), [a EXCEPT !.what = ModifyArgsFromProto(Wire(@))], answer)

ClaimHandler(c, a, answer) ==
    /\ a.kind = "claim"
    /\ IfAuthorized(c, ClaimAuthz(a.what), [a EXCEPT !.what.duration = ClampLease(@)], answer)

ClaimDocsHandler(c, a, answer) ==
    /\ a.kind = "claim docs"
    /\ IfAuthorized(c, ClaimDocsAuthz(a.what), [a EXCEPT !.what = ResolveSetLease(@)], answer)

(* Every handler first looks at the protocol the request declares. *)
Negotiate(c, a, answer) ==
    \/ answer = "unsupported" /\ Protocol \notin served /\ UNCHANGED backendVars
    \/ /\ Protocol \in served
       /\ ModifyHandler(c, a, answer) \/ ClaimHandler(c, a, answer) \/ ClaimDocsHandler(c, a, answer)

-----------------------------------------------------------------------------
(* The client's steps. *)

(* checkServer: a server not known to serve the protocol is asked first. *)
Probe(c) ==
    /\ call[c].pc = "asked"
    /\ IF chosen
       THEN call' = [call EXCEPT ![c].pc = "sent"] /\ UNCHANGED heard
       ELSE call' = [call EXCEPT ![c].pc = "probed"] /\ heard' = [heard EXCEPT ![c] = served]
    /\ UNCHANGED <<backendVars, faults, served, chosen, stray, replaced>>

CheckServer(c) ==
    /\ call[c].pc = "probed"
    /\ IF Protocol \in heard[c]
       THEN chosen' = TRUE /\ call' = [call EXCEPT ![c].pc = "sent"]
       ELSE UNCHANGED chosen /\ Answer(c, "unsupported")
    /\ heard' = [heard EXCEPT ![c] = {}]
    /\ UNCHANGED <<backendVars, faults, served, stray, replaced>>

(* The request arrives and is answered; the response lists what is served. *)
Serve(c) ==
    /\ call[c].pc = "sent"
    /\ \E answer \in Outcomes :
           /\ Negotiate(c, call[c], answer)
           /\ call' = [call EXCEPT ![c] =
                  [Answered(@, answer) EXCEPT !.pc = "replied", !.seen = Carried(call[c], answer),
                                              !.writes = IF dataVars' # dataVars THEN @ + 1 ELSE @]]
    /\ heard' = [heard EXCEPT ![c] = served]
    /\ UNCHANGED <<faults, served, chosen, stray, replaced>>

(* Invoke's end: a response that no longer lists the protocol is noted. *)
Receive(c) ==
    LET status == StatusOf(call[c].answer)
    IN  /\ call[c].pc = "replied"
        /\ call' = [call EXCEPT ![c].pc = "answered",
                                ![c].answer = IF status = "OK" THEN @ ELSE UnpackGRPCError(status)]
        /\ chosen' = (chosen /\ Protocol \in heard[c])
        /\ heard' = [heard EXCEPT ![c] = {}]
        /\ UNCHANGED <<backendVars, faults, served, stray, replaced>>

(* The client gives up, or the connection goes: the request may be lost,   *)
(* still be under way, or have been served.                                *)
GiveUp(c) ==
    /\ CutShort(c)
    /\ \/ UNCHANGED stray
       \/ call[c].pc = "sent" /\ stray = {} /\ stray' = {[by |-> c, call |-> call[c]]}
    /\ heard' = [heard EXCEPT ![c] = {}]
    /\ UNCHANGED <<served, chosen, replaced>>

ServeStray ==
    /\ \E r \in stray, answer \in Outcomes : Negotiate(r.by, r.call, answer)
    /\ stray' = {}
    /\ UNCHANGED <<callVars, served, chosen, heard, replaced>>

(* Another release takes over from the server. *)
Replace ==
    /\ replaced < MaxReplaced
    /\ replaced' = replaced + 1
    /\ served' \in Releases \ {served}
    /\ UNCHANGED <<backendVars, callVars, chosen, heard, stray>>

ServiceStep(c) == Probe(c) \/ CheckServer(c) \/ Serve(c) \/ Receive(c)
=============================================================================
