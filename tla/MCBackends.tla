----------------------------- MODULE MCBackends -----------------------------
(* A small instance of the backends for TLC: two tasks, two docs, and the  *)
(* modifications of them that meet in the same rows.                       *)
EXTENDS Backends

CONSTANT First  \* one of the clients

NoTasks(c) == [claimant |-> c, inserts |-> {}, changes |-> {}, deletes |-> {}, depends |-> {},
               arrives |-> {}]
NoDocs(c) == [claimant |-> c, inserts |-> {}, changes |-> {}, deletes |-> {}, depends |-> {},
              setDepends |-> {}, arrives |-> {}]

TaskIn(i, v) == [id |-> i, version |-> v, queue |-> 1]
Inserting(i) == [id |-> i, queue |-> 1, by |-> 0]
To(q, i, v) == [id |-> i, version |-> v, from |-> 1, queue |-> q, by |-> 1, reset |-> FALSE]

TaskRequests(c) ==
    {[NoTasks(c) EXCEPT !.deletes = {TaskIn(1, 0)}, !.changes = {To(2, 2, 2)}],
     [NoTasks(c) EXCEPT !.inserts = {Inserting(1), Inserting(2)}]}

MoreTaskRequests(c) ==
    {[NoTasks(c) EXCEPT !.deletes = {TaskIn(1, 0)}, !.inserts = {Inserting(2)}],
     [NoTasks(c) EXCEPT !.changes = {To(1, 1, 0), [To(1, 2, 2) EXCEPT !.reset = TRUE]}],
     [NoTasks(c) EXCEPT !.arrives = {TaskIn(2, 2) @@ [by |-> 1]}, !.depends = {TaskIn(1, 0)}]}

Doc(i, g, p) == [id |-> i, set |-> g, place |-> p, by |-> 0]

DocRequests(c) ==
    {[NoDocs(c) EXCEPT !.inserts = {Doc(2, 1, 1)}],
     [NoDocs(c) EXCEPT !.deletes = {[id |-> 1, version |-> 0]}, !.inserts = {Doc(2, 2, 1)}]}

MoreDocRequests(c) ==
    {[NoDocs(c) EXCEPT !.inserts = {Doc(1, 1, 1)}],
     [NoDocs(c) EXCEPT !.inserts = {Doc(2, 1, 2)}],
     [NoDocs(c) EXCEPT !.changes = {[id |-> 1, version |-> 0, by |-> 1]}],
     [NoDocs(c) EXCEPT !.setDepends = {[set |-> 1, version |-> 0]}, !.inserts = {Doc(2, 2, 1)}],
     [NoDocs(c) EXCEPT !.depends = {[id |-> 1, version |-> 0]},
                       !.arrives = {[set |-> 2, version |-> 0, by |-> 1]}]}

OfTasks(c, requests) == {[task |-> t, docs |-> NoDocs(c)] : t \in requests}
OfDocs(c, requests) == {[task |-> NoTasks(c), docs |-> d] : d \in requests}

(* Either client may ask some; the first may ask for more. *)
SmallRequests ==
    UNION {OfTasks(c, TaskRequests(c)) \cup OfDocs(c, DocRequests(c)) : c \in Claimant}
    \cup LET c == First
         IN  OfTasks(c, MoreTaskRequests(c)) \cup OfDocs(c, MoreDocRequests(c))
             \cup {[task |-> [NoTasks(c) EXCEPT !.deletes = {TaskIn(1, 0)}],
                    docs |-> [NoDocs(c) EXCEPT !.changes = {[id |-> 1, version |-> 0, by |-> 0]}]]}

(* Through the service: a modification of each form a request may take. *)
SmallViaService ==
    UNION {OfTasks(c, {[NoTasks(c) EXCEPT !.deletes = {TaskIn(1, 0)}, !.changes = {To(2, 2, 2)}]}) : c \in Claimant}
    \cup LET c == First
         IN  OfTasks(c, MoreTaskRequests(c) \ {[NoTasks(c) EXCEPT !.deletes = {TaskIn(1, 0)}, !.inserts = {Inserting(2)}]})
             \cup OfDocs(c, {[NoDocs(c) EXCEPT !.changes = {[id |-> 1, version |-> 0, by |-> 1]}],
                            [NoDocs(c) EXCEPT !.setDepends = {[set |-> 1, version |-> 0]}, !.inserts = {Doc(2, 2, 1)},
                                              !.arrives = {[set |-> 2, version |-> 0, by |-> 1]}]})

(* All those, and the removal of whatever a claim may have returned. *)
SmallModifications ==
    SmallRequests \cup SmallViaService
    \cup {[task |-> [NoTasks(c) EXCEPT !.deletes = {TaskIn(i, v)}], docs |-> NoDocs(c)] :
             c \in Claimant, i \in Id, v \in 1 .. 4}
    \cup {[task |-> NoTasks(c), docs |-> [NoDocs(c) EXCEPT !.deletes = {[id |-> i, version |-> v[i]] : i \in I}]] :
             c \in Claimant, I \in SUBSET DocId \ {{}}, v \in [DocId -> 1 .. 3]}

SmallClaims == {[queue |-> 1, duration |-> 1]}
SmallDocClaims ==
    [c \in Claimant |-> {[sets |-> {1, 2}, hold |-> 1]}
                       \cup (IF c = First THEN {[sets |-> {1}, match |-> TaskIn(1, 1)]} ELSE {})]

Fresh == [queue |-> 1, version |-> 0, at |-> 0, claimant |-> NoOne, claims |-> 0]
Used == [Fresh EXCEPT !.version = 2, !.claims = 1]

SmallStores ==
    LET empty == [tasks |-> [i \in Id |-> NoTask], docs |-> [i \in DocId |-> NoDoc],
                  locks |-> [g \in Set |-> D!Absent]]
    IN  {empty,
         [tasks |-> [i \in Id |-> IF i = 1 THEN Fresh ELSE Used],
          docs |-> [i \in DocId |-> IF i = 1 THEN [set |-> 1, place |-> 1, version |-> 0] ELSE NoDoc],
          locks |-> [g \in Set |-> [stored |-> TRUE, version |-> 0, claimant |-> NoOne, at |-> 0,
                                    numDocs |-> IF g = 1 THEN 1 ELSE 0]]]}

(* The first client may put nothing into the second queue; the others may  *)
(* delete no docs.                                                         *)
SmallQueueGrants ==
    [c \in Claimant |-> (Queue \X {"insert", "change", "delete", "read", "claim"})
                            \ (IF c = First THEN {<<2, "insert">>} ELSE {})]
SmallDocGrants ==
    [c \in Claimant |-> {"insert", "change", "delete", "read", "claim"}
                            \ (IF c = First THEN {} ELSE {"delete"})]

SmallReleases == {{1, 2}, {3}}
=============================================================================
