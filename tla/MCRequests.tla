---------------------------- MODULE MCRequests ----------------------------
(* Small sets of modifications, and of stores, for TLC.                    *)
EXTENDS Modification

CONSTANTS i1, i2, alice, bob

None == [claimant |-> alice, inserts |-> {}, changes |-> {}, deletes |-> {},
         depends |-> {}, arrives |-> {}]

Versions == 0 .. 1

(* Single operations on a task, as modifications. *)
Inserting(i) == {[None EXCEPT !.claimant = c, !.inserts = {[id |-> i, queue |-> q, by |-> b]}] :
                    c \in Claimant, q \in Queue, b \in {0, 1}}
Deleting(i) == {[None EXCEPT !.claimant = c, !.deletes = {[id |-> i, version |-> v, queue |-> q]}] :
                    c \in Claimant, v \in Versions, q \in Queue}
Changing(i) == {[None EXCEPT !.claimant = c,
                             !.changes = {[id |-> i, version |-> v, from |-> q, queue |-> r,
                                           by |-> b, reset |-> FALSE]}] :
                    c \in Claimant, v \in Versions, q \in Queue, r \in Queue, b \in {0, 1}}
Arriving(i) == {[None EXCEPT !.claimant = c,
                             !.arrives = {[id |-> i, version |-> v, queue |-> q, by |-> b]}] :
                    c \in Claimant, v \in Versions, q \in Queue, b \in {0, 2}}

OneTask == Inserting(i1) \cup Deleting(i1) \cup Changing(i1) \cup Arriving(i1)

Absent == [i \in Id |-> NoTask]
Ready(i, q) == [Absent EXCEPT ![i] = [queue |-> q, version |-> 0, at |-> 0,
                                      claimant |-> NoOne, claims |-> 0]]
ClaimedBy(i, q, c) == [Absent EXCEPT ![i] = [queue |-> q, version |-> 1, at |-> 1,
                                             claimant |-> c, claims |-> 1]]
OneTaskInitial == {Absent, Ready(i1, 1)} \cup {ClaimedBy(i1, 1, c) : c \in Claimant}

(* Modifications of two tasks in two queues at once: a task handed on as   *)
(* another, two tasks that change places, a move that depends on a task,   *)
(* two tasks inserted, a renewal of both.                                  *)
TwoTasks ==
    LET id(i, v, q) == [id |-> i, version |-> v, queue |-> q]
        move(i, v, q, r, b) == [id |-> i, version |-> v, from |-> q, queue |-> r,
                                by |-> b, reset |-> b > 0]
    IN UNION {{[None EXCEPT !.claimant = c, !.deletes = {id(i1, v, 1)},
                            !.inserts = {[id |-> i2, queue |-> 2, by |-> 0]}],
               [None EXCEPT !.claimant = c, !.changes = {move(i1, v, 1, 2, 1),
                                                         move(i2, 0, 2, 1, 0)}],
               [None EXCEPT !.claimant = c, !.changes = {move(i1, v, 1, 2, 0)},
                            !.depends = {id(i2, 0, 2)}],
               [None EXCEPT !.claimant = c, !.deletes = {id(i2, 0, 2)}],
               [None EXCEPT !.claimant = c, !.inserts = {[id |-> i1, queue |-> 1, by |-> 1],
                                                         [id |-> i2, queue |-> 2, by |-> 0]}],
               [None EXCEPT !.claimant = c,
                            !.arrives = {[id |-> i1, version |-> v, queue |-> 1, by |-> 2],
                                         [id |-> i2, version |-> 0, queue |-> 2, by |-> 1]}]} :
                 c \in Claimant, v \in Versions}

Both(f, g) == [i \in Id |-> IF f[i] # NoTask THEN f[i] ELSE g[i]]

TwoTasksInitial == {Absent, Ready(i1, 1), Both(Ready(i1, 1), Ready(i2, 2))}
                   \cup {Both(ClaimedBy(i1, 1, c), Ready(i2, 2)) : c \in Claimant}
=============================================================================
