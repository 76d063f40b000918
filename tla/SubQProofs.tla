----------------------------- MODULE SubQProofs -----------------------------
(***************************************************************************)
(* No wakeup of a claim is lost, for any number of claims, queues, tasks   *)
(* and subscriptions.                                                      *)
(***************************************************************************)
EXTENDS SubQ, FiniteSetTheorems, TLAPS

Steps == {"idle", "add", "look", "wait", "leave", "done"}

SubTypeOK ==
    /\ waitsOn \in Plans /\ waitsOn \in [Waiter -> SUBSET Queue]
    /\ avail \in [Queue -> Nat] /\ owed \in [Queue -> Nat] /\ counted \in [Queue -> Nat]
    /\ qs \in [Queue -> Sub \cup {Nil}]
    /\ listeners \in [Sub -> SUBSET Waiter]
    /\ \A s \in Sub : IsFiniteSet(listeners[s])
    /\ senders \in [Sub -> Nat]
    /\ pc \in [Waiter -> Steps]
    /\ todo \in [Waiter -> SUBSET Queue]
    /\ subs \in [Waiter -> [Queue -> Sub \cup {Nil}]]

(* Who listens to a queue is counted in the subscription it is known by:   *)
(* tryCollect takes no subscription away from a claim that was added to it. *)
NoneOrphaned ==
    \A w \in Waiter, q \in Queue :
        subs[w][q] # Nil => qs[q] = subs[w][q] /\ w \in listeners[qs[q]]

(* Each queue has a subscription of its own. *)
Apart == \A p, q \in Queue : qs[p] = qs[q] /\ qs[p] # Nil => p = q

(* The queues that a claim listens to, at each of its steps. *)
Listens(w) == {q \in Queue : subs[w][q] # Nil}

InStep(w) ==
    /\ todo[w] \subseteq waitsOn[w]
    /\ pc[w] = "add" => waitsOn[w] \ todo[w] \subseteq Listens(w)
    /\ pc[w] \in {"look", "wait"} => waitsOn[w] \subseteq Listens(w)
    /\ pc[w] = "wait" => todo[w] = waitsOn[w]
    /\ pc[w] = "leave" => todo[w] \subseteq Listens(w)

Single == \A w \in Waiter : \A p, q \in waitsOn[w] : p = q

(* The claims that are about to look into a queue. *)
Lookers(q) == {w \in Waiter : pc[w] = "look" /\ q \in todo[w]}

(* While a claim sleeps there is for every task a wakeup or a look. *)
Covered(q) ==
    /\ IsFiniteSet(Lookers(q))
    /\ ~matured /\ Single /\ (\E w \in Waiter : Asleep(w, q)) =>
           avail[q] <= owed[q] + senders[qs[q]] + Cardinality(Lookers(q))

SubInv ==
    /\ SubTypeOK /\ NoneOrphaned /\ Apart
    /\ \A w \in Waiter : InStep(w)

WakeInv == SubInv /\ \A q \in Queue : Covered(q)
-----------------------------------------------------------------------------
(* What a claim listens to. *)

(* Other goroutines' steps, which only count. *)
LEMMA CountsKept ==
    ASSUME SubInv, UNCHANGED <<waitsOn, qs, listeners, pc, todo, subs>>,
           avail' \in [Queue -> Nat], owed' \in [Queue -> Nat], counted' \in [Queue -> Nat],
           senders' \in [Sub -> Nat]
    PROVE  SubInv'
<1>1. SubTypeOK'
  BY Zenon DEF SubInv, SubTypeOK
<1>2. NoneOrphaned' /\ Apart'
  BY Zenon DEF SubInv, NoneOrphaned, Apart
<1>3. \A w \in Waiter : InStep(w)'
  BY Zenon DEF SubInv, InStep, Listens
<1> QED
  BY <1>1, <1>2, <1>3, Zenon DEF SubInv

(* A claim goes on without a change of what it listens to. *)
LEMMA GoesOn ==
    ASSUME SubInv, UNCHANGED <<waitsOn, owed, counted, qs, listeners, subs>>,
           avail' \in [Queue -> Nat], senders' \in [Sub -> Nat],
           NEW w \in Waiter, NEW p \in Steps, NEW T \in SUBSET Queue,
           pc' = [pc EXCEPT ![w] = p], todo' = [todo EXCEPT ![w] = T],
           T \subseteq waitsOn[w],
           p = "add" => T = waitsOn[w],
           p \in {"look", "wait"} => waitsOn[w] \subseteq Listens(w),
           p = "wait" => T = waitsOn[w],
           p = "leave" => T \subseteq Listens(w)
    PROVE  SubInv'
<1>1. /\ pc' \in [Waiter -> Steps] /\ pc'[w] = p /\ \A v \in Waiter \ {w} : pc'[v] = pc[v]
      /\ todo' \in [Waiter -> SUBSET Queue] /\ todo'[w] = T
      /\ \A v \in Waiter \ {w} : todo'[v] = todo[v]
  BY DEF SubInv, SubTypeOK
<1>2. SubTypeOK'
  BY <1>1, Zenon DEF SubInv, SubTypeOK
<1>3. NoneOrphaned' /\ Apart'
  BY Zenon DEF SubInv, NoneOrphaned, Apart
<1>4. InStep(w)'
  BY <1>1 DEF InStep, Listens
<1>5. ASSUME NEW v \in Waiter, v # w PROVE InStep(v)'
  <2>1. pc'[v] = pc[v] /\ todo'[v] = todo[v] /\ InStep(v)
    BY <1>1, <1>5, Zenon DEF SubInv
  <2> QED
    BY <2>1, Zenon DEF InStep, Listens
<1> QED
  BY <1>2, <1>3, <1>4, <1>5, Zenon DEF SubInv

(* Where a visit of a queue takes a claim. *)
LEMMA VisitGoes ==
    ASSUME SubTypeOK, NEW w \in Waiter, NEW q \in Queue, NEW next \in Steps,
           Visited(w, q, next)
    PROVE  \E p \in Steps, T \in SUBSET Queue :
              /\ pc' = [pc EXCEPT ![w] = p] /\ todo' = [todo EXCEPT ![w] = T]
              /\ pc'[w] = p /\ todo'[w] = T
              /\ \A v \in Waiter \ {w} : pc'[v] = pc[v] /\ todo'[v] = todo[v]
              /\ \/ todo[w] = {q} /\ p = next /\ T = waitsOn[w]
                 \/ todo[w] # {q} /\ p = pc[w] /\ T = todo[w] \ {q}
<1> DEFINE p == IF todo[w] = {q} THEN next ELSE pc[w]
           T == IF todo[w] = {q} THEN waitsOn[w] ELSE todo[w] \ {q}
<1>1. pc \in [Waiter -> Steps] /\ todo \in [Waiter -> SUBSET Queue] /\ waitsOn[w] \in SUBSET Queue
  BY DEF SubTypeOK
<1>2. p \in Steps /\ T \in SUBSET Queue
  BY <1>1
<1>3. pc' = [pc EXCEPT ![w] = p] /\ todo' = [todo EXCEPT ![w] = T]
  BY Zenon DEF Visited
<1>4. \/ todo[w] = {q} /\ p = next /\ T = waitsOn[w]
      \/ todo[w] # {q} /\ p = pc[w] /\ T = todo[w] \ {q}
  BY Zenon
<1> HIDE DEF p, T
<1>5. /\ pc'[w] = p /\ todo'[w] = T
      /\ \A v \in Waiter \ {w} : pc'[v] = pc[v] /\ todo'[v] = todo[v]
  BY <1>1, <1>3, Zenon
<1> QED
  BY <1>2, <1>3, <1>4, <1>5, Zenon

(* A claim begins, is woken, or gives up. *)
LEMMA ClaimGoesOn ==
    ASSUME SubInv, NEW w \in Waiter,
           Start(w) \/ Poll(w) \/ Cancel(w) \/ \E q \in Queue : Receive(w, q)
    PROVE  SubInv'
<1>1. InStep(w) /\ SubTypeOK
  BY Zenon DEF SubInv
<1>2. waitsOn[w] \in SUBSET Queue /\ todo[w] \in SUBSET Queue /\ todo = [todo EXCEPT ![w] = todo[w]]
      /\ avail \in [Queue -> Nat] /\ senders \in [Sub -> Nat]
  BY <1>1 DEF SubTypeOK
<1>3. "add" \in Steps /\ "look" \in Steps /\ "leave" \in Steps
  BY DEF Steps
<1>4. CASE Start(w)
  BY <1>2, <1>3, <1>4, GoesOn, Zenon DEF Start
<1>5. CASE Poll(w)
  BY <1>1, <1>2, <1>3, <1>5, GoesOn, Zenon DEF Poll, InStep
<1>6. CASE Cancel(w)
  BY <1>1, <1>2, <1>3, <1>6, GoesOn, Zenon DEF Cancel, InStep
<1>7. ASSUME NEW q \in Queue, Receive(w, q) PROVE SubInv'
  <2>1. q \in waitsOn[w] /\ pc[w] = "wait" /\ senders[subs[w][q]] > 0
    BY <1>7, Zenon DEF Receive, Asleep
  <2>2. subs[w][q] \in Sub
    BY <1>1, <2>1 DEF InStep, Listens, SubTypeOK
  <2>3. senders' \in [Sub -> Nat]
    BY <1>2, <1>7, <2>1, <2>2 DEF Receive
  <2> QED
    BY <1>1, <1>2, <1>3, <1>7, <2>1, <2>3, GoesOn, Zenon DEF Receive, InStep
<1> QED
  BY <1>4, <1>5, <1>6, <1>7, Zenon

(* TryClaim looks into a queue. *)
LEMMA LookKeeps ==
    ASSUME SubInv, NEW w \in Waiter, NEW q \in Queue, Look(w, q)
    PROVE  SubInv'
<1>1. InStep(w) /\ SubTypeOK /\ pc[w] = "look" /\ q \in todo[w]
  BY Zenon DEF SubInv, Look
<1>2. waitsOn[w] \in SUBSET Queue /\ waitsOn[w] \subseteq Listens(w) /\ todo[w] \subseteq waitsOn[w]
      /\ avail \in [Queue -> Nat] /\ senders \in [Sub -> Nat]
  BY <1>1 DEF SubTypeOK, InStep
<1>3. "look" \in Steps /\ "leave" \in Steps /\ "wait" \in Steps
  BY DEF Steps
<1>4. UNCHANGED <<waitsOn, owed, counted, qs, listeners, subs, senders>>
  BY Zenon DEF Look
<1>5. CASE /\ avail[q] > 0 /\ avail' = [avail EXCEPT ![q] = @ - 1]
           /\ pc' = [pc EXCEPT ![w] = "leave"] /\ todo' = [todo EXCEPT ![w] = waitsOn[w]]
  <2>1. avail' \in [Queue -> Nat]
    BY <1>2, <1>5
  <2> QED
    BY <1>2, <1>3, <1>4, <1>5, <2>1, GoesOn, Zenon
<1>6. CASE Visited(w, q, "wait") /\ UNCHANGED avail
  <2>1. PICK p \in Steps, T \in SUBSET Queue :
              /\ pc' = [pc EXCEPT ![w] = p] /\ todo' = [todo EXCEPT ![w] = T]
              /\ \/ p = "wait" /\ T = waitsOn[w]
                 \/ p = "look" /\ T = todo[w] \ {q}
    BY <1>1, <1>3, <1>6, VisitGoes
  <2> QED
    BY <1>2, <1>4, <1>6, <2>1, GoesOn, Zenon
<1> QED
  BY <1>5, <1>6, Zenon DEF Look
(* A claim is added to a subscription, found or made. *)
LEMMA AddListenerKeeps ==
    ASSUME SubInv, NEW w \in Waiter, NEW q \in Queue, AddListener(w, q)
    PROVE  /\ SubInv'
           /\ \A p \in Queue : qs[p] # Nil => qs'[p] = qs[p]
           /\ UNCHANGED <<waitsOn, avail, matured, owed, senders>>
<1>1. SubTypeOK /\ NoneOrphaned /\ Apart /\ InStep(w) /\ pc[w] = "add" /\ q \in todo[w]
  BY Zenon DEF SubInv, AddListener
<1>2. PICK s \in Sub :
        /\ IF qs[q] = Nil THEN Unused(s) ELSE s = qs[q]
        /\ qs' = [qs EXCEPT ![q] = s]
        /\ listeners' = [listeners EXCEPT ![s] = @ \cup {w}]
        /\ subs' = [subs EXCEPT ![w][q] = s]
  BY Zenon DEF AddListener
<1>3. UNCHANGED <<waitsOn, avail, matured, owed, senders, counted>>
  BY Zenon DEF AddListener
<1>4. s # Nil
  BY NilIsNoSub, Zenon
<1>5. /\ qs' \in [Queue -> Sub \cup {Nil}] /\ qs'[q] = s
      /\ \A p \in Queue \ {q} : qs'[p] = qs[p]
  BY <1>1, <1>2, Zenon DEF SubTypeOK
<1>6. /\ listeners' \in [Sub -> SUBSET Waiter] /\ listeners'[s] = listeners[s] \cup {w}
      /\ \A r \in Sub : r # s => listeners'[r] = listeners[r]
  BY <1>1, <1>2 DEF SubTypeOK
<1>7. /\ subs' \in [Waiter -> [Queue -> Sub \cup {Nil}]] /\ subs'[w][q] = s
      /\ \A p \in Queue \ {q} : subs'[w][p] = subs[w][p]
      /\ \A v \in Waiter \ {w} : subs'[v] = subs[v]
  BY <1>1, <1>2 DEF SubTypeOK
<1>8. "look" \in Steps
  BY DEF Steps
<1>9. /\ pc' \in [Waiter -> Steps] /\ todo' \in [Waiter -> SUBSET Queue]
      /\ \A v \in Waiter \ {w} : pc'[v] = pc[v] /\ todo'[v] = todo[v]
      /\ \/ todo[w] = {q} /\ pc'[w] = "look" /\ todo'[w] = waitsOn[w]
         \/ pc'[w] = "add" /\ todo'[w] = todo[w] \ {q}
  <2>1. PICK p \in Steps, T \in SUBSET Queue :
              /\ pc' = [pc EXCEPT ![w] = p] /\ todo' = [todo EXCEPT ![w] = T]
              /\ pc'[w] = p /\ todo'[w] = T
              /\ \A v \in Waiter \ {w} : pc'[v] = pc[v] /\ todo'[v] = todo[v]
              /\ \/ todo[w] = {q} /\ p = "look" /\ T = waitsOn[w]
                 \/ todo[w] # {q} /\ p = pc[w] /\ T = todo[w] \ {q}
    BY <1>1, <1>8, VisitGoes DEF AddListener
  <2>2. pc' \in [Waiter -> Steps] /\ todo' \in [Waiter -> SUBSET Queue]
    BY <1>1, <2>1 DEF SubTypeOK
  <2> QED
    BY <1>1, <2>1, <2>2, Zenon
<1>10. \A r \in Sub : IsFiniteSet(listeners'[r])
  <2>1. IsFiniteSet(listeners[s]) /\ \A r \in Sub : IsFiniteSet(listeners[r])
    BY <1>1, Zenon DEF SubTypeOK
  <2>2. IsFiniteSet(listeners[s] \cup {w})
    BY <2>1, FS_AddElement, Zenon
  <2> QED
    BY <1>6, <2>1, <2>2, Zenon
<1>11. SubTypeOK'
  BY <1>1, <1>3, <1>5, <1>6, <1>7, <1>9, <1>10, Zenon DEF SubTypeOK
<1>12. qs[q] = Nil => (\A p \in Queue : qs[p] # s) /\ \A v \in Waiter : \A p \in Queue : subs[v][p] # s
  BY <1>2, Zenon DEF Unused
<1>13. qs[q] # Nil => s = qs[q]
  BY <1>2, Zenon
<1>14. Apart'
  <2> SUFFICES ASSUME NEW p \in Queue, NEW r \in Queue, qs'[p] = qs'[r], qs'[p] # Nil PROVE p = r
    BY Zenon DEF Apart
  <2> QED
    BY <1>1, <1>5, <1>12, <1>13, ZenonT(40) DEF Apart
<1>15. NoneOrphaned'
  <2> SUFFICES ASSUME NEW v \in Waiter, NEW p \in Queue, subs'[v][p] # Nil
               PROVE  qs'[p] = subs'[v][p] /\ v \in listeners'[qs'[p]]
    BY Zenon DEF NoneOrphaned
  <2>1. CASE v = w /\ p = q
    BY <1>5, <1>6, <1>7, <2>1, Zenon
  <2>2. CASE ~(v = w /\ p = q)
    <3>1. subs'[v][p] = subs[v][p]
      BY <1>7, <2>2, Zenon
    <3>2. qs[p] = subs[v][p] /\ v \in listeners[qs[p]] /\ qs[p] # Nil
      BY <1>1, <3>1, Zenon DEF NoneOrphaned
    <3>3. qs'[p] = qs[p]
      BY <1>5, <1>13, <3>2, Zenon
    <3>4. qs[p] \in Sub
      BY <1>1, <3>2 DEF SubTypeOK
    <3>5. v \in listeners'[qs[p]]
      BY <1>6, <3>2, <3>4, Zenon
    <3> QED
      BY <3>1, <3>2, <3>3, <3>5, Zenon
  <2> QED
    BY <2>1, <2>2, Zenon
<1>16. InStep(w)'
  <2>1. Listens(w)' = Listens(w) \cup {q}
    BY <1>4, <1>7 DEF Listens
  <2>2. todo[w] \subseteq waitsOn[w] /\ waitsOn[w] \ todo[w] \subseteq Listens(w)
    BY <1>1, Zenon DEF InStep
  <2>3. CASE todo[w] = {q} /\ pc'[w] = "look" /\ todo'[w] = waitsOn[w]
    BY <1>3, <2>1, <2>2, <2>3 DEF InStep
  <2>4. CASE pc'[w] = "add" /\ todo'[w] = todo[w] \ {q}
    BY <1>3, <2>1, <2>2, <2>4 DEF InStep
  <2> QED
    BY <1>9, <2>3, <2>4, Zenon
<1>17. ASSUME NEW v \in Waiter, v # w PROVE InStep(v)'
  <2>1. pc'[v] = pc[v] /\ todo'[v] = todo[v] /\ InStep(v) /\ subs'[v] = subs[v]
    BY <1>7, <1>9, <1>17, Zenon DEF SubInv
  <2> QED
    BY <1>3, <2>1, Zenon DEF InStep, Listens
<1>18. \A p \in Queue : qs[p] # Nil => qs'[p] = qs[p]
  BY <1>5, <1>13, Zenon
<1> QED
  BY <1>3, <1>11, <1>14, <1>15, <1>16, <1>17, <1>18, Zenon DEF SubInv

(* A claim is done with a subscription. *)
LEMMA LeaveKeeps ==
    ASSUME SubInv, NEW w \in Waiter, NEW q \in Queue, Leave(w, q)
    PROVE  SubInv'
<1> DEFINE s == subs[w][q]
<1>1. SubTypeOK /\ NoneOrphaned /\ Apart /\ InStep(w) /\ pc[w] = "leave" /\ q \in todo[w]
  BY Zenon DEF SubInv, Leave
<1>2. UNCHANGED <<waitsOn, avail, owed, qs, senders, counted>>
  BY Zenon DEF Leave
<1>3. s \in Sub /\ qs[q] = s /\ s # Nil
  BY <1>1 DEF InStep, Listens, SubTypeOK, NoneOrphaned
<1>4. listeners' = [listeners EXCEPT ![s] = @ \ {w}] /\ subs' = [subs EXCEPT ![w][q] = Nil]
  BY Zenon DEF Leave
<1>5. /\ listeners' \in [Sub -> SUBSET Waiter] /\ listeners'[s] = listeners[s] \ {w}
      /\ \A r \in Sub : r # s => listeners'[r] = listeners[r]
  BY <1>1, <1>3, <1>4 DEF SubTypeOK
<1>6. /\ subs' \in [Waiter -> [Queue -> Sub \cup {Nil}]] /\ subs'[w][q] = Nil
      /\ \A p \in Queue \ {q} : subs'[w][p] = subs[w][p]
      /\ \A v \in Waiter \ {w} : subs'[v] = subs[v]
  BY <1>1, <1>4 DEF SubTypeOK
<1>7. "done" \in Steps
  BY DEF Steps
<1>8. /\ pc' \in [Waiter -> Steps] /\ todo' \in [Waiter -> SUBSET Queue]
      /\ \A v \in Waiter \ {w} : pc'[v] = pc[v] /\ todo'[v] = todo[v]
      /\ \/ pc'[w] = "done" /\ todo'[w] = waitsOn[w]
         \/ pc'[w] = "leave" /\ todo'[w] = todo[w] \ {q}
  <2>1. PICK p \in Steps, T \in SUBSET Queue :
              /\ pc' = [pc EXCEPT ![w] = p] /\ todo' = [todo EXCEPT ![w] = T]
              /\ pc'[w] = p /\ todo'[w] = T
              /\ \A v \in Waiter \ {w} : pc'[v] = pc[v] /\ todo'[v] = todo[v]
              /\ \/ todo[w] = {q} /\ p = "done" /\ T = waitsOn[w]
                 \/ todo[w] # {q} /\ p = pc[w] /\ T = todo[w] \ {q}
    BY <1>1, <1>7, VisitGoes DEF Leave
  <2>2. pc' \in [Waiter -> Steps] /\ todo' \in [Waiter -> SUBSET Queue]
    BY <1>1, <2>1 DEF SubTypeOK
  <2> QED
    BY <1>1, <2>1, <2>2, Zenon
<1>9. \A r \in Sub : IsFiniteSet(listeners'[r])
  <2>1. IsFiniteSet(listeners[s]) /\ \A r \in Sub : IsFiniteSet(listeners[r])
    BY <1>1, <1>3, Zenon DEF SubTypeOK
  <2>2. IsFiniteSet(listeners[s] \ {w})
    BY <2>1, FS_RemoveElement, Zenon
  <2> QED
    BY <1>5, <2>1, <2>2, Zenon
<1>10. SubTypeOK'
  BY <1>1, <1>2, <1>5, <1>6, <1>8, <1>9, Zenon DEF SubTypeOK
<1>11. NoneOrphaned'
  <2> SUFFICES ASSUME NEW v \in Waiter, NEW p \in Queue, subs'[v][p] # Nil
               PROVE  qs'[p] = subs'[v][p] /\ v \in listeners'[qs'[p]]
    BY Zenon DEF NoneOrphaned
  <2>1. ~(v = w /\ p = q) /\ subs'[v][p] = subs[v][p]
    BY <1>6, Zenon
  <2>2. qs[p] = subs[v][p] /\ v \in listeners[qs[p]] /\ qs[p] # Nil
    BY <1>1, <2>1, Zenon DEF NoneOrphaned
  <2>3. qs[p] \in Sub
    BY <1>1, <2>2 DEF SubTypeOK
  <2>4. p # q => qs[p] # s
    BY <1>1, <1>3, Zenon DEF Apart
  <2>5. v \in listeners'[qs[p]]
    BY <1>5, <2>1, <2>2, <2>3, <2>4, Zenon
  <2> QED
    BY <1>2, <2>1, <2>2, <2>5, Zenon
<1>12. InStep(w)'
  <2>1. Listens(w)' = Listens(w) \ {q}
    BY <1>6 DEF Listens
  <2>2. todo[w] \subseteq waitsOn[w] /\ todo[w] \subseteq Listens(w)
    BY <1>1, Zenon DEF InStep
  <2> QED
    BY <1>2, <1>8, <2>1, <2>2 DEF InStep
<1>13. ASSUME NEW v \in Waiter, v # w PROVE InStep(v)'
  <2>1. pc'[v] = pc[v] /\ todo'[v] = todo[v] /\ InStep(v) /\ subs'[v] = subs[v]
    BY <1>6, <1>8, <1>13, Zenon DEF SubInv
  <2> QED
    BY <1>2, <2>1, Zenon DEF InStep, Listens
<1>14. Apart'
  BY <1>1, <1>2, Zenon DEF Apart
<1> QED
  BY <1>10, <1>11, <1>12, <1>13, <1>14, Zenon DEF SubInv

(* A subscription is collected that no one listens on. *)
LEMMA TryCollectKeeps ==
    ASSUME SubInv, NEW q \in Queue, TryCollect(q)
    PROVE  /\ SubInv'
           /\ \A p \in Queue : qs'[p] = qs[p] \/ \A w \in Waiter : subs[w][p] = Nil
<1>1. SubTypeOK /\ NoneOrphaned /\ Apart
  BY Zenon DEF SubInv
<1>2. /\ UNCHANGED <<waitsOn, avail, owed, listeners, senders, pc, todo, subs, counted>>
      /\ Listening(q) = {} /\ qs' = [qs EXCEPT ![q] = Nil]
  BY Zenon DEF TryCollect
<1>3. /\ qs' \in [Queue -> Sub \cup {Nil}] /\ qs'[q] = Nil
      /\ \A p \in Queue \ {q} : qs'[p] = qs[p]
  BY <1>1, <1>2, Zenon DEF SubTypeOK
<1>4. \A w \in Waiter : subs[w][q] = Nil
  <2> SUFFICES ASSUME NEW w \in Waiter, subs[w][q] # Nil PROVE FALSE
    BY Zenon
  <2>1. qs[q] # Nil /\ w \in listeners[qs[q]]
    BY <1>1, Zenon DEF NoneOrphaned
  <2> QED
    BY <1>2, <2>1 DEF Listening
<1>5. SubTypeOK'
  BY <1>1, <1>2, <1>3, Zenon DEF SubTypeOK
<1>6. NoneOrphaned' /\ Apart'
  BY <1>1, <1>2, <1>3, <1>4, Zenon DEF NoneOrphaned, Apart
<1>7. \A w \in Waiter : InStep(w)'
  BY <1>2, Zenon DEF SubInv, InStep, Listens
<1> QED
  BY <1>3, <1>4, <1>5, <1>6, <1>7, Zenon DEF SubInv
(* The steps that only count keep their counts numbers. *)
LEMMA CountingKeeps ==
    ASSUME SubInv,
           \/ \E q \in Queue : Modify(q) \/ Mature(q) \/ Notify(q) \/ SweepQueue(q)
           \/ \E s \in Sub : GiveUp(s)
           \/ SweepCount
    PROVE  SubInv' /\ UNCHANGED <<waitsOn, qs, listeners, pc, todo, subs>>
<1>1. UNCHANGED <<waitsOn, qs, listeners, pc, todo, subs>>
  BY Zenon DEF Modify, Mature, Notify, SweepQueue, GiveUp, SweepCount
<1>2. SubTypeOK
  BY Zenon DEF SubInv
<1>3. /\ avail \in [Queue -> Nat] /\ owed \in [Queue -> Nat] /\ counted \in [Queue -> Nat]
      /\ senders \in [Sub -> Nat]
  BY <1>2, Zenon DEF SubTypeOK
<1>4. ASSUME NEW q \in Queue, Modify(q) \/ Mature(q) PROVE SubInv'
  <2>1. avail' \in [Queue -> Nat] /\ owed' \in [Queue -> Nat]
    BY <1>3, <1>4 DEF Modify, Mature
  <2>2. UNCHANGED <<counted, senders>>
    BY <1>4, Zenon DEF Modify, Mature
  <2> QED
    BY <1>1, <1>3, <2>1, <2>2, CountsKept, Zenon
<1>5. ASSUME NEW q \in Queue, Notify(q) PROVE SubInv'
  <2>1. owed' \in [Queue -> Nat] /\ UNCHANGED <<avail, counted>>
    BY <1>3, <1>5 DEF Notify
  <2>2. Listening(q) # {} => qs[q] \in Sub
    BY <1>2 DEF SubTypeOK, Listening
  <2>3. senders' \in [Sub -> Nat]
    BY <1>3, <1>5, <2>2 DEF Notify
  <2> QED
    BY <1>1, <1>3, <2>1, <2>3, CountsKept, Zenon
<1>6. ASSUME NEW q \in Queue, SweepQueue(q) PROVE SubInv'
  <2>1. owed' \in [Queue -> Nat] /\ counted' \in [Queue -> Nat]
    BY <1>3, <1>6 DEF SweepQueue
  <2>2. UNCHANGED <<avail, senders>>
    BY <1>6, Zenon DEF SweepQueue
  <2> QED
    BY <1>1, <1>3, <2>1, <2>2, CountsKept, Zenon
<1>7. ASSUME NEW s \in Sub, GiveUp(s) PROVE SubInv'
  <2>1. senders' \in [Sub -> Nat]
    BY <1>3, <1>7 DEF GiveUp
  <2>2. UNCHANGED <<avail, owed, counted>>
    BY <1>7, Zenon DEF GiveUp
  <2> QED
    BY <1>1, <1>3, <2>1, <2>2, CountsKept, Zenon
<1>8. ASSUME SweepCount PROVE SubInv'
  <2>1. UNCHANGED <<avail, owed, senders>> /\ counted' = [q \in Queue |-> Cardinality(Listening(q))]
    BY <1>8, Zenon DEF SweepCount
  <2>2. ASSUME NEW q \in Queue PROVE Cardinality(Listening(q)) \in Nat
    <3>1. IsFiniteSet(Listening(q))
      BY <1>2, FS_EmptySet DEF SubTypeOK, Listening
    <3> QED
      BY <3>1, FS_CardinalityType, Zenon
  <2>3. counted' \in [Queue -> Nat]
    BY <2>1, <2>2, Zenon
  <2> QED
    BY <1>1, <1>3, <2>1, <2>3, CountsKept, Zenon
<1> QED
  BY <1>1, <1>4, <1>5, <1>6, <1>7, <1>8, Zenon

-----------------------------------------------------------------------------
(* What there is for every task while a claim sleeps. *)

(* Where a claim sleeps its queue has a subscription, on which it listens. *)
LEMMA SleeperListens ==
    ASSUME SubInv, NEW w \in Waiter, NEW q \in Queue, Asleep(w, q)
    PROVE  /\ qs[q] \in Sub /\ qs[q] # Nil /\ subs[w][q] = qs[q]
           /\ w \in listeners[qs[q]] /\ Listening(q) # {}
<1>1. subs[w][q] # Nil
  BY DEF SubInv, InStep, Listens, Asleep
<1>2. qs[q] = subs[w][q] /\ w \in listeners[qs[q]]
  BY <1>1, Zenon DEF SubInv, NoneOrphaned
<1>3. qs[q] \in Sub
  BY <1>1, <1>2 DEF SubInv, SubTypeOK
<1> QED
  BY <1>1, <1>2, <1>3 DEF Listening

(* A step that takes away no more than it adds. *)
LEMMA StillCovered ==
    ASSUME SubInv, SubInv', NEW q \in Queue, Covered(q), waitsOn' = waitsOn,
           matured => matured', IsFiniteSet(Lookers(q)'),
           ~matured' /\ Single /\ (\E w \in Waiter : Asleep(w, q)') =>
               /\ \E w \in Waiter : Asleep(w, q)
               /\ avail'[q] + (owed[q] + senders[qs[q]] + Cardinality(Lookers(q)))
                    <= avail[q] + (owed'[q] + senders'[qs'[q]] + Cardinality(Lookers(q)'))
    PROVE  Covered(q)'
<1> DEFINE c == Cardinality(Lookers(q))
           d == Cardinality(Lookers(q)')
<1>1. ASSUME ~matured', Single', \E w \in Waiter : Asleep(w, q)'
      PROVE  avail'[q] <= owed'[q] + senders'[qs'[q]] + d
  <2>1. Single
    BY <1>1, Zenon DEF Single
  <2>2. /\ \E w \in Waiter : Asleep(w, q)
        /\ avail'[q] + (owed[q] + senders[qs[q]] + c) <= avail[q] + (owed'[q] + senders'[qs'[q]] + d)
    BY <1>1, <2>1, Zenon
  <2>3. avail[q] <= owed[q] + senders[qs[q]] + c /\ IsFiniteSet(Lookers(q))
    BY <1>1, <2>1, <2>2, Zenon DEF Covered
  <2>4. c \in Nat /\ d \in Nat
    BY <2>3, FS_CardinalityType, Zenon
  <2>5. qs[q] \in Sub
    BY <2>2, SleeperListens, Zenon
  <2>6. qs'[q] \in Sub
    <3>1. PICK w \in Waiter : Asleep(w, q)'
      BY <1>1, Zenon
    <3>2. subs'[w][q] # Nil
      BY <3>1 DEF SubInv, InStep, Listens, Asleep
    <3>3. qs'[q] = subs'[w][q]
      BY <3>2, Zenon DEF SubInv, NoneOrphaned
    <3> QED
      BY <3>2, <3>3 DEF SubInv, SubTypeOK
  <2>7. /\ avail[q] \in Nat /\ owed[q] \in Nat /\ senders[qs[q]] \in Nat
        /\ avail'[q] \in Nat /\ owed'[q] \in Nat /\ senders'[qs'[q]] \in Nat
    BY <2>5, <2>6 DEF SubInv, SubTypeOK
  <2> HIDE DEF c, d
  <2> QED
    BY <2>2, <2>3, <2>4, <2>7
<1> QED
  BY <1>1, Zenon DEF Covered
(* The steps of those who notify: a wakeup owed becomes one on offer, on   *)
(* the subscription where the sleeper listens, and such an offer stands.   *)
LEMMA CountingCovered ==
    ASSUME SubInv, NEW q \in Queue, Covered(q),
           \/ \E p \in Queue : Modify(p) \/ Mature(p) \/ Notify(p) \/ SweepQueue(p)
           \/ \E s \in Sub : GiveUp(s)
           \/ SweepCount
    PROVE  Covered(q)'
<1>1. SubInv' /\ UNCHANGED <<waitsOn, qs, listeners, pc, todo, subs>>
  BY CountingKeeps, Zenon
<1>2. Lookers(q)' = Lookers(q) /\ \A w \in Waiter : Asleep(w, q)' => Asleep(w, q)
  BY <1>1, Zenon DEF Lookers, Asleep
<1>3. matured => matured'
  BY Zenon DEF Modify, Mature, Notify, SweepQueue, GiveUp, SweepCount
<1>4. IsFiniteSet(Lookers(q))
  BY Zenon DEF Covered
<1>5. ASSUME ~matured', NEW w \in Waiter, Asleep(w, q)
      PROVE  avail'[q] + (owed[q] + senders[qs[q]]) <= avail[q] + (owed'[q] + senders'[qs[q]])
  <2> DEFINE s == qs[q]
  <2>1. s \in Sub /\ w \in listeners[s] /\ Listening(q) # {}
    BY <1>5, SleeperListens, Zenon
  <2>2. avail \in [Queue -> Nat] /\ owed \in [Queue -> Nat] /\ senders \in [Sub -> Nat]
        /\ counted \in [Queue -> Nat] /\ qs \in [Queue -> Sub \cup {Nil}]
    BY Zenon DEF SubInv, SubTypeOK
  <2>3. avail[q] \in Nat /\ owed[q] \in Nat /\ senders[s] \in Nat
    BY <2>1, <2>2
  <2>4. ASSUME NEW p \in Queue, Modify(p)
        PROVE  avail'[q] - avail[q] = owed'[q] - owed[q] /\ senders' = senders /\ owed'[q] \in Nat
    BY <2>2, <2>4 DEF Modify
  <2>5. ASSUME NEW p \in Queue, Notify(p)
        PROVE  avail' = avail /\ owed'[q] + senders'[s] >= owed[q] + senders[s]
    <3>1. CASE p = q
      <4>1. owed'[q] = owed[q] - 1 /\ senders'[s] = senders[s] + 1 /\ avail' = avail
        BY <2>1, <2>2, <2>5, <3>1 DEF Notify
      <4> QED
        BY <2>3, <4>1
    <3>2. CASE p # q
      <4>1. owed'[q] = owed[q] /\ avail' = avail
        BY <2>2, <2>5, <3>2, Zenon DEF Notify
      <4>2. senders'[s] = senders[s] \/ senders'[s] = senders[s] + 1
        BY <2>1, <2>2, <2>5 DEF Notify
      <4> QED
        BY <2>3, <4>1, <4>2
    <3> QED
      BY <3>1, <3>2, Zenon
  <2>6. ASSUME NEW p \in Queue, SweepQueue(p)
        PROVE  UNCHANGED <<avail, senders>> /\ owed'[q] \in Nat /\ owed'[q] >= owed[q]
    BY <2>2, <2>6 DEF SweepQueue
  <2>7. ASSUME NEW r \in Sub, GiveUp(r)
        PROVE  UNCHANGED <<avail, owed>> /\ senders'[s] = senders[s]
    <3>1. r # s
      BY <2>1, <2>7, Zenon DEF GiveUp
    <3> QED
      BY <2>1, <2>2, <2>7, <3>1, Zenon DEF GiveUp
  <2>8. ASSUME SweepCount PROVE UNCHANGED <<avail, owed, senders>>
    BY <2>8, Zenon DEF SweepCount
  <2>9. \A p \in Queue : ~Mature(p)
    BY <1>5, Zenon DEF Mature
  <2>10. CASE \E p \in Queue : Modify(p)
    <3>1. avail'[q] - avail[q] = owed'[q] - owed[q] /\ senders' = senders /\ owed'[q] \in Nat
      BY <2>4, <2>10, Zenon
    <3>2. avail'[q] \in Nat
      BY <1>1 DEF SubInv, SubTypeOK
    <3> QED
      BY <2>3, <3>1, <3>2
  <2>11. CASE \E p \in Queue : Notify(p)
    <3>1. avail' = avail /\ owed'[q] + senders'[s] >= owed[q] + senders[s]
      BY <2>5, <2>11, Zenon
    <3>2. owed'[q] \in Nat /\ senders'[s] \in Nat
      BY <1>1, <2>1 DEF SubInv, SubTypeOK
    <3> QED
      BY <2>3, <3>1, <3>2
  <2>12. CASE \E p \in Queue : SweepQueue(p)
    BY <2>3, <2>6, <2>12
  <2>13. CASE (\E r \in Sub : GiveUp(r)) \/ SweepCount
    BY <2>3, <2>7, <2>8, <2>13
  <2> QED
    BY <2>9, <2>10, <2>11, <2>12, <2>13, Zenon
<1>6. ASSUME ~matured', Single, \E w \in Waiter : Asleep(w, q)'
      PROVE  /\ \E w \in Waiter : Asleep(w, q)
             /\ avail'[q] + (owed[q] + senders[qs[q]] + Cardinality(Lookers(q)))
                  <= avail[q] + (owed'[q] + senders'[qs'[q]] + Cardinality(Lookers(q)'))
  <2>1. PICK w \in Waiter : Asleep(w, q)
    BY <1>2, <1>6, Zenon
  <2>2. avail'[q] + (owed[q] + senders[qs[q]]) <= avail[q] + (owed'[q] + senders'[qs[q]])
    BY <1>5, <1>6, <2>1, Zenon
  <2> DEFINE c == Cardinality(Lookers(q))
  <2>3. c \in Nat
    BY <1>4, FS_CardinalityType, Zenon
  <2>4. /\ avail[q] \in Nat /\ owed[q] \in Nat /\ senders[qs[q]] \in Nat
        /\ avail'[q] \in Nat /\ owed'[q] \in Nat /\ senders'[qs[q]] \in Nat
    <3>1. qs[q] \in Sub
      BY <2>1, SleeperListens, Zenon
    <3> QED
      BY <1>1, <3>1, Zenon DEF SubInv, SubTypeOK
  <2>5. avail'[q] + (owed[q] + senders[qs[q]] + c) <= avail[q] + (owed'[q] + senders'[qs[q]] + c)
    <3> HIDE DEF c
    <3> QED
      BY <2>2, <2>3, <2>4
  <2> QED
    BY <1>1, <1>2, <2>1, <2>5, Zenon
<1> QED
  BY <1>1, <1>2, <1>3, <1>4, <1>6, StillCovered, Zenon
(* Where no claim that was looking stops, nothing changes for the sleepers *)
(* but that more may look.                                                 *)
LEMMA MoreLook ==
    ASSUME SubInv, SubInv', NEW q \in Queue, Covered(q), NEW w \in Waiter,
           UNCHANGED <<waitsOn, avail, matured, owed, senders>>,
           pc[w] # "look" \/ (pc'[w] = pc[w] /\ todo'[w] = todo[w]),
           pc'[w] = "wait" => pc[w] = "wait",
           \A v \in Waiter \ {w} : pc'[v] = pc[v] /\ todo'[v] = todo[v],
           \A v \in Waiter : Asleep(v, q) => qs'[q] = qs[q]
    PROVE  Covered(q)'
<1> DEFINE S == Lookers(q)
           T == Lookers(q)'
<1>1. S \subseteq T /\ T \subseteq S \cup {w}
  BY Zenon DEF Lookers
<1>2. IsFiniteSet(S)
  BY Zenon DEF Covered
<1>3. IsFiniteSet(T) /\ Cardinality(S) <= Cardinality(T) /\ Cardinality(S) \in Nat
      /\ Cardinality(T) \in Nat
  <2> HIDE DEF S, T
  <2>1. IsFiniteSet(S \cup {w})
    BY <1>2, FS_AddElement, Zenon
  <2>2. IsFiniteSet(T)
    BY <1>1, <2>1, FS_Subset, Zenon
  <2>3. Cardinality(S) <= Cardinality(T)
    BY <1>1, <2>2, FS_Subset, Zenon
  <2> QED
    BY <1>2, <2>2, <2>3, FS_CardinalityType, Zenon
<1>4. \A v \in Waiter : Asleep(v, q)' => Asleep(v, q)
  BY Zenon DEF Asleep
<1>5. ASSUME \E v \in Waiter : Asleep(v, q)'
      PROVE  /\ \E v \in Waiter : Asleep(v, q)
             /\ avail'[q] + (owed[q] + senders[qs[q]] + Cardinality(S))
                  <= avail[q] + (owed'[q] + senders'[qs'[q]] + Cardinality(T))
  <2>1. PICK v \in Waiter : Asleep(v, q)
    BY <1>4, <1>5, Zenon
  <2>2. qs'[q] = qs[q] /\ qs[q] \in Sub
    BY <2>1, SleeperListens, Zenon
  <2>3. avail[q] \in Nat /\ owed[q] \in Nat /\ senders[qs[q]] \in Nat
    BY <2>2, Zenon DEF SubInv, SubTypeOK
  <2> HIDE DEF S, T
  <2>4. avail[q] + (owed[q] + senders[qs[q]] + Cardinality(S))
          <= avail[q] + (owed[q] + senders[qs[q]] + Cardinality(T))
    BY <1>3, <2>3
  <2>5. avail'[q] = avail[q] /\ owed'[q] = owed[q] /\ senders'[qs'[q]] = senders[qs[q]]
    BY <2>2, Zenon
  <2> QED
    BY <2>1, <2>4, <2>5, Zenon
<1>6. matured => matured'
  BY Zenon
<1> QED
  BY <1>3, <1>5, <1>6, StillCovered, Zenon

(* A claim begins, stops waiting, or leaves; a subscription is collected. *)
LEMMA MovingCovered ==
    ASSUME SubInv, NEW q \in Queue, Covered(q), NEW w \in Waiter,
           \/ Start(w) \/ Poll(w) \/ Cancel(w)
           \/ \E p \in Queue : AddListener(w, p) \/ Leave(w, p) \/ TryCollect(p)
    PROVE  Covered(q)'
<1>1. SubTypeOK
  BY Zenon DEF SubInv
<1>2. pc \in [Waiter -> Steps] /\ todo \in [Waiter -> SUBSET Queue]
  BY <1>1, Zenon DEF SubTypeOK
<1>3. CASE Start(w) \/ Poll(w) \/ Cancel(w)
  <2>1. SubInv'
    BY <1>3, ClaimGoesOn, Zenon
  <2>2. /\ UNCHANGED <<waitsOn, avail, matured, owed, senders, qs>>
        /\ pc[w] # "look" /\ pc'[w] # "wait"
        /\ \A v \in Waiter \ {w} : pc'[v] = pc[v] /\ todo'[v] = todo[v]
    BY <1>2, <1>3 DEF Start, Poll, Cancel
  <2> QED
    BY <2>1, <2>2, MoreLook, Zenon
<1>4. ASSUME NEW p \in Queue, AddListener(w, p) PROVE Covered(q)'
  <2>1. /\ SubInv' /\ UNCHANGED <<waitsOn, avail, matured, owed, senders>>
        /\ \A r \in Queue : qs[r] # Nil => qs'[r] = qs[r]
    BY <1>4, AddListenerKeeps, Zenon
  <2>2. pc[w] = "add" /\ Visited(w, p, "look")
    BY <1>4, Zenon DEF AddListener
  <2>3. pc'[w] # "wait" /\ \A v \in Waiter \ {w} : pc'[v] = pc[v] /\ todo'[v] = todo[v]
    BY <1>2, <2>2 DEF Visited
  <2>4. \A v \in Waiter : Asleep(v, q) => qs'[q] = qs[q]
    BY <2>1, SleeperListens, Zenon
  <2>5. pc[w] # "look"
    BY <2>2
  <2> QED
    BY <2>1, <2>3, <2>4, <2>5, MoreLook, Zenon
<1>5. ASSUME NEW p \in Queue, Leave(w, p) PROVE Covered(q)'
  <2>1. SubInv' /\ UNCHANGED <<waitsOn, avail, matured, owed, senders, qs>>
    BY <1>5, LeaveKeeps, Zenon DEF Leave
  <2>2. pc[w] = "leave" /\ Visited(w, p, "done")
    BY <1>5, Zenon DEF Leave
  <2>3. pc'[w] # "wait" /\ \A v \in Waiter \ {w} : pc'[v] = pc[v] /\ todo'[v] = todo[v]
    BY <1>2, <2>2 DEF Visited
  <2>4. pc[w] # "look"
    BY <2>2
  <2> QED
    BY <2>1, <2>3, <2>4, MoreLook, Zenon
<1>6. ASSUME NEW p \in Queue, TryCollect(p) PROVE Covered(q)'
  <2>1. SubInv' /\ (qs'[q] = qs[q] \/ \A v \in Waiter : subs[v][q] = Nil)
    BY <1>6, TryCollectKeeps, Zenon
  <2>2. UNCHANGED <<waitsOn, avail, matured, owed, senders, pc, todo>>
    BY <1>6, Zenon DEF TryCollect
  <2>3. \A v \in Waiter : Asleep(v, q) => qs'[q] = qs[q]
    <3> SUFFICES ASSUME NEW v \in Waiter, Asleep(v, q) PROVE qs'[q] = qs[q]
      BY Zenon
    <3>1. subs[v][q] # Nil
      BY SleeperListens, Zenon
    <3> QED
      BY <2>1, <3>1, Zenon
  <2> QED
    BY <2>1, <2>2, <2>3, MoreLook, Zenon
<1> QED
  BY <1>3, <1>4, <1>5, <1>6, Zenon

(* A wakeup that is taken becomes a look. *)
LEMMA ReceiveCovered ==
    ASSUME SubInv, NEW q \in Queue, Covered(q), NEW w \in Waiter, NEW p \in Queue, Receive(w, p)
    PROVE  Covered(q)'
<1> DEFINE S == Lookers(q)
           T == Lookers(q)'
<1>1. SubTypeOK /\ InStep(w) /\ SubInv'
  BY ClaimGoesOn, Zenon DEF SubInv
<1>2. Asleep(w, p) /\ pc[w] = "wait" /\ p \in waitsOn[w]
      /\ UNCHANGED <<waitsOn, avail, matured, owed, qs, todo>>
  BY Zenon DEF Receive, Asleep
<1>3. qs[p] \in Sub /\ qs[p] # Nil /\ subs[w][p] = qs[p]
  BY <1>2, SleeperListens, Zenon
<1>4. senders' = [senders EXCEPT ![qs[p]] = @ - 1] /\ senders[qs[p]] > 0
      /\ pc' = [pc EXCEPT ![w] = "look"]
  BY <1>3, Zenon DEF Receive
<1>5. pc'[w] = "look" /\ \A v \in Waiter \ {w} : pc'[v] = pc[v]
  BY <1>1, <1>4, Zenon DEF SubTypeOK
<1>6. S \subseteq T /\ T \subseteq S \cup {w} /\ w \notin S
  BY <1>2, <1>5 DEF Lookers
<1>7. p = q => w \in T
  BY <1>1, <1>2, <1>5, Zenon DEF Lookers, InStep
<1>8. IsFiniteSet(S)
  BY Zenon DEF Covered
<1>9. /\ IsFiniteSet(T) /\ Cardinality(S) <= Cardinality(T)
      /\ Cardinality(S) \in Nat /\ Cardinality(T) \in Nat
      /\ (p = q => Cardinality(T) = Cardinality(S) + 1)
  <2> HIDE DEF S, T
  <2>1. IsFiniteSet(S \cup {w}) /\ Cardinality(S \cup {w}) = Cardinality(S) + 1
    BY <1>6, <1>8, FS_AddElement
  <2>2. IsFiniteSet(T)
    BY <1>6, <2>1, FS_Subset, Zenon
  <2>3. Cardinality(S) <= Cardinality(T)
    BY <1>6, <2>2, FS_Subset, Zenon
  <2>4. p = q => T = S \cup {w}
    BY <1>6, <1>7, Zenon
  <2> QED
    BY <1>8, <2>1, <2>2, <2>3, <2>4, FS_CardinalityType, Zenon
<1>10. \A v \in Waiter : Asleep(v, q)' => Asleep(v, q)
  BY <1>2, <1>5 DEF Asleep
<1>11. ASSUME \E v \in Waiter : Asleep(v, q)'
       PROVE  /\ \E v \in Waiter : Asleep(v, q)
              /\ avail'[q] + (owed[q] + senders[qs[q]] + Cardinality(S))
                   <= avail[q] + (owed'[q] + senders'[qs'[q]] + Cardinality(T))
  <2>1. PICK v \in Waiter : Asleep(v, q)
    BY <1>10, <1>11, Zenon
  <2>2. qs[q] \in Sub /\ qs[q] # Nil
    BY <2>1, SleeperListens, Zenon
  <2>3. avail[q] \in Nat /\ owed[q] \in Nat /\ senders[qs[q]] \in Nat /\ senders \in [Sub -> Nat]
    BY <1>1, <2>2, Zenon DEF SubTypeOK
  <2>4. CASE p = q
    <3>1. senders'[qs[q]] = senders[qs[q]] - 1
      BY <1>3, <1>4, <2>3, <2>4
    <3> HIDE DEF S, T
    <3>2. avail[q] + (owed[q] + senders[qs[q]] + Cardinality(S))
            <= avail[q] + (owed[q] + senders'[qs[q]] + Cardinality(T))
      BY <1>9, <2>3, <2>4, <3>1
    <3> QED
      BY <1>2, <2>1, <3>2, Zenon
  <2>5. CASE p # q
    <3>1. qs[p] # qs[q]
      BY <1>3, <2>5, Zenon DEF SubInv, Apart
    <3>2. senders'[qs[q]] = senders[qs[q]]
      BY <1>3, <1>4, <2>2, <2>3, <3>1, Zenon
    <3> HIDE DEF S, T
    <3>3. avail[q] + (owed[q] + senders[qs[q]] + Cardinality(S))
            <= avail[q] + (owed[q] + senders'[qs[q]] + Cardinality(T))
      BY <1>9, <2>3, <3>2
    <3> QED
      BY <1>2, <2>1, <3>3, Zenon
  <2> QED
    BY <2>4, <2>5, Zenon
<1> QED
  BY <1>1, <1>2, <1>9, <1>11, StillCovered, Zenon
(* A look takes a task, or finds that there is none. *)
LEMMA LookCovered ==
    ASSUME SubInv, NEW q \in Queue, Covered(q), NEW w \in Waiter, NEW p \in Queue, Look(w, p)
    PROVE  Covered(q)'
<1> DEFINE S == Lookers(q)
           T == Lookers(q)'
<1>1. SubTypeOK /\ InStep(w) /\ SubInv' /\ pc[w] = "look" /\ p \in todo[w]
  BY LookKeeps, Zenon DEF SubInv, Look
<1>2. UNCHANGED <<waitsOn, matured, owed, qs, senders>>
  BY Zenon DEF Look
<1>3. pc \in [Waiter -> Steps] /\ todo \in [Waiter -> SUBSET Queue] /\ avail \in [Queue -> Nat]
  BY <1>1, Zenon DEF SubTypeOK
<1>4. \A v \in Waiter \ {w} : pc'[v] = pc[v] /\ todo'[v] = todo[v]
  BY <1>3, Zenon DEF Look, Visited
<1>5. \/ /\ avail[p] > 0 /\ avail' = [avail EXCEPT ![p] = @ - 1] /\ pc'[w] = "leave"
      \/ /\ avail[p] = 0 /\ avail' = avail
         /\ IF todo[w] = {p} THEN pc'[w] = "wait" ELSE pc'[w] = "look" /\ todo'[w] = todo[w] \ {p}
  BY <1>1, <1>3, Zenon DEF Look, Visited
<1>6. T \subseteq S
  BY <1>1, <1>4, <1>5 DEF Lookers
<1>7. IsFiniteSet(S) /\ IsFiniteSet(T) /\ Cardinality(S) \in Nat /\ Cardinality(T) \in Nat
  <2>1. IsFiniteSet(S)
    BY Zenon DEF Covered
  <2> HIDE DEF S, T
  <2> QED
    BY <1>6, <2>1, FS_Subset, FS_CardinalityType, Zenon
<1>8. ASSUME ~matured', Single', NEW u \in Waiter, Asleep(u, q)'
      PROVE  avail'[q] <= owed'[q] + senders'[qs'[q]] + Cardinality(T)
  <2>1. Single
    BY <1>2, <1>8, Zenon DEF Single
  <2>2. p \in waitsOn[w] /\ todo[w] = {p}
    <3>1. todo[w] \subseteq waitsOn[w]
      BY <1>1, Zenon DEF InStep
    <3>2. \A r \in todo[w] : r = p
      BY <1>1, <2>1, <3>1, Zenon DEF Single
    <3> QED
      BY <1>1, <3>1, <3>2
  <2>3. qs[q] \in Sub
    <3>1. subs'[u][q] # Nil
      BY <1>1, <1>8 DEF SubInv, InStep, Listens, Asleep
    <3>2. qs'[q] = subs'[u][q]
      BY <1>1, <3>1, Zenon DEF SubInv, NoneOrphaned
    <3> QED
      BY <1>1, <1>2, <3>1, <3>2 DEF SubInv, SubTypeOK
  <2>4. avail[q] \in Nat /\ owed[q] \in Nat /\ senders[qs[q]] \in Nat
    BY <1>1, <2>3, Zenon DEF SubTypeOK
  <2>5. ASSUME \E v \in Waiter : Asleep(v, q)
        PROVE  avail[q] <= owed[q] + senders[qs[q]] + Cardinality(S)
    BY <1>2, <1>8, <2>1, <2>5, Zenon DEF Covered
  <2>6. CASE p # q
    <3>1. q \notin waitsOn[w]
      BY <2>1, <2>2, <2>6, Zenon DEF Single
    <3>2. Asleep(u, q)
      BY <1>2, <1>4, <1>8, <3>1, Zenon DEF Asleep
    <3>3. w \notin S
      BY <2>2, <2>6 DEF Lookers
    <3>4. S = T
      BY <1>4, <1>6, <3>3, Zenon DEF Lookers
    <3>5. avail'[q] = avail[q]
      BY <1>3, <1>5, <2>6, Zenon
    <3> QED
      BY <1>2, <2>5, <3>2, <3>4, <3>5, Zenon
  <2>7. CASE p = q /\ avail[q] = 0
    <3>1. avail'[q] = 0
      BY <1>5, <2>7
    <3> HIDE DEF S, T
    <3> QED
      BY <1>2, <1>7, <2>4, <3>1
  <2>8. CASE p = q /\ avail[q] > 0
    <3>1. avail'[q] = avail[q] - 1 /\ pc'[w] = "leave"
      BY <1>3, <1>5, <2>4, <2>8
    <3>2. u # w
      BY <1>8, <3>1 DEF Asleep
    <3>3. Asleep(u, q)
      BY <1>2, <1>4, <1>8, <3>2, Zenon DEF Asleep
    <3>4. w \in S /\ T = S \ {w}
      BY <1>1, <1>4, <2>8, <3>1 DEF Lookers
    <3>5. Cardinality(T) = Cardinality(S) - 1
      <4> HIDE DEF S, T
      <4> QED
        BY <1>7, <3>4, FS_RemoveElement
    <3>6. avail[q] <= owed[q] + senders[qs[q]] + Cardinality(S)
      BY <2>5, <3>3, Zenon
    <3> HIDE DEF S, T
    <3> QED
      BY <1>2, <1>7, <2>4, <3>1, <3>5, <3>6
  <2> QED
    BY <2>4, <2>6, <2>7, <2>8
<1> QED
  BY <1>7, <1>8, Zenon DEF Covered

-----------------------------------------------------------------------------
(* What every step keeps. *)

(* No one listens yet. *)
LEMMA WakeInvInit == Init => WakeInv
<1> SUFFICES ASSUME Init PROVE WakeInv
  BY Zenon
<1>1. waitsOn \in Plans /\ waitsOn \in [Waiter -> SUBSET Queue]
  BY PlansNameQueues DEF Init
<1>2. /\ avail = [q \in Queue |-> 0] /\ owed = [q \in Queue |-> 0] /\ counted = [q \in Queue |-> 0]
      /\ qs = [q \in Queue |-> Nil] /\ listeners = [s \in Sub |-> {}] /\ senders = [s \in Sub |-> 0]
      /\ pc = [w \in Waiter |-> "idle"] /\ todo = [w \in Waiter |-> {}]
      /\ subs = [w \in Waiter |-> [q \in Queue |-> Nil]]
  BY Zenon DEF Init
<1>3. IsFiniteSet({})
  BY FS_EmptySet, Zenon
<1>4. avail \in [Queue -> Nat] /\ owed \in [Queue -> Nat] /\ counted \in [Queue -> Nat]
      /\ senders \in [Sub -> Nat]
  BY <1>2
<1>5. /\ qs \in [Queue -> Sub \cup {Nil}] /\ listeners \in [Sub -> SUBSET Waiter]
      /\ pc \in [Waiter -> Steps] /\ todo \in [Waiter -> SUBSET Queue]
      /\ subs \in [Waiter -> [Queue -> Sub \cup {Nil}]]
  BY <1>2 DEF Steps
<1>6. SubTypeOK
  BY <1>1, <1>2, <1>3, <1>4, <1>5, Zenon DEF SubTypeOK
<1>7. NoneOrphaned /\ Apart
  BY <1>2, Zenon DEF NoneOrphaned, Apart
<1>8. ASSUME NEW w \in Waiter PROVE InStep(w)
  BY <1>2 DEF InStep
<1>9. ASSUME NEW q \in Queue PROVE Covered(q)
  <2>1. \A w \in Waiter : pc[w] = "idle"
    BY <1>2, Zenon
  <2>2. Lookers(q) = {} /\ \A w \in Waiter : ~Asleep(w, q)
    BY <2>1 DEF Lookers, Asleep
  <2> QED
    BY <1>3, <2>2, Zenon DEF Covered
<1> QED
  BY <1>6, <1>7, <1>8, <1>9, Zenon DEF WakeInv, SubInv

(* Every step keeps a wakeup or a look for every task. *)
LEMMA WakeInvNext == WakeInv /\ [Next]_vars => WakeInv'
<1> SUFFICES ASSUME WakeInv, [Next]_vars PROVE WakeInv'
  BY Zenon
<1>1. SubInv /\ \A q \in Queue : Covered(q)
  BY Zenon DEF WakeInv
<1>2. CASE \/ \E q \in Queue : Modify(q) \/ Mature(q) \/ Notify(q) \/ SweepQueue(q)
           \/ \E s \in Sub : GiveUp(s)
           \/ SweepCount
  BY <1>1, <1>2, CountingKeeps, CountingCovered, Zenon DEF WakeInv
<1>3. ASSUME NEW w \in Waiter, Start(w) \/ Cancel(w) \/ Poll(w) PROVE WakeInv'
  BY <1>1, <1>3, ClaimGoesOn, MovingCovered, Zenon DEF WakeInv
<1>4. ASSUME NEW w \in Waiter, NEW q \in Queue, AddListener(w, q) \/ Leave(w, q) PROVE WakeInv'
  BY <1>1, <1>4, AddListenerKeeps, LeaveKeeps, MovingCovered, Zenon DEF WakeInv
<1>5. ASSUME NEW w \in Waiter, NEW q \in Queue, Look(w, q) PROVE WakeInv'
  BY <1>1, <1>5, LookKeeps, LookCovered, Zenon DEF WakeInv
<1>6. ASSUME NEW w \in Waiter, NEW q \in Queue, Receive(w, q) PROVE WakeInv'
  BY <1>1, <1>6, ClaimGoesOn, ReceiveCovered, Zenon DEF WakeInv
<1>7. ASSUME NEW q \in Queue, TryCollect(q) PROVE WakeInv'
  <2>1. SubInv'
    BY <1>1, <1>7, TryCollectKeeps, Zenon
  <2>2. CASE Waiter # {}
    BY <1>1, <1>7, <2>1, <2>2, MovingCovered, Zenon DEF WakeInv
  <2>3. CASE Waiter = {}
    <3>1. \A p \in Queue : Lookers(p)' = {}
      BY <2>3, Zenon DEF Lookers
    <3>2. \A p \in Queue : Covered(p)'
      BY <2>3, <3>1, FS_EmptySet, Zenon DEF Covered
    <3> QED
      BY <2>1, <3>2, Zenon DEF WakeInv
  <2> QED
    BY <2>2, <2>3, Zenon
<1>8. CASE UNCHANGED vars
  <2>1. UNCHANGED <<waitsOn, avail, matured, owed, qs, listeners, senders, pc, todo, subs, counted>>
    BY <1>8, Zenon DEF vars
  <2>2. SubInv'
    BY <1>1, <2>1, CountsKept, Zenon DEF SubInv, SubTypeOK
  <2>3. \A q \in Queue : Covered(q)'
    BY <1>1, <2>1, Zenon DEF Covered, Single, Lookers, Asleep
  <2> QED
    BY <2>2, <2>3, Zenon DEF WakeInv
<1> QED
  BY <1>2, <1>3, <1>4, <1>5, <1>6, <1>7, <1>8, Zenon DEF Next, Claiming

(* A claim that was added to a subscription stays on the one its queue is  *)
(* known by until it leaves, whatever tryCollect of a watchdog and         *)
(* addListener of other claims do: what Notify finds is where it listens.  *)
THEOREM ListenersAreFound == Spec => []NoneOrphaned
  BY WakeInvInit, WakeInvNext, PTL DEF Spec, WakeInv, SubInv

(* Whatever claims, cancellations, notifications, offers given up and      *)
(* subscriptions collected come in between, no wakeup is lost: while a     *)
(* claim of one queue sleeps in Wait although the queue has a task that    *)
(* was modified into it, a wakeup is owed, or on offer where the claim     *)
(* listens, or another claim is about to look; for any number of claims,   *)
(* queues, tasks and subscriptions, as long as each claim names finitely   *)
(* many queues.                                                            *)
THEOREM WakeupsAreNotLost ==
    ASSUME \A plan \in Plans : \A w \in Waiter : IsFiniteSet(plan[w])
    PROVE  Spec => []NoLostWakeup
<1>1. WakeInv => NoLostWakeup
  <2> SUFFICES ASSUME WakeInv, ~matured, \A w \in Waiter : Cardinality(waitsOn[w]) <= 1,
                      NEW w \in Waiter, NEW q \in Queue, Asleep(w, q), avail[q] > 0
               PROVE  \/ owed[q] > 0
                      \/ senders[subs[w][q]] > 0
                      \/ \E v \in Waiter : pc[v] = "look" /\ q \in todo[v]
    BY Zenon DEF NoLostWakeup
  <2>1. SubInv /\ SubTypeOK /\ Covered(q)
    BY Zenon DEF WakeInv, SubInv
  <2>2. Single
    <3> SUFFICES ASSUME NEW v \in Waiter, NEW p \in waitsOn[v], NEW r \in waitsOn[v], p # r
                 PROVE  FALSE
      BY Zenon DEF Single
    <3>1. IsFiniteSet(waitsOn[v])
      BY <2>1, Zenon DEF SubTypeOK
    <3>2. IsFiniteSet({p}) /\ Cardinality({p}) = 1
      BY FS_Singleton, Zenon
    <3>3. IsFiniteSet({p} \cup {r}) /\ Cardinality({p} \cup {r}) = 2
      <4>1. IsFiniteSet({p} \cup {r}) /\ Cardinality({p} \cup {r}) = Cardinality({p}) + 1
        BY <3>2, FS_AddElement, Zenon
      <4> QED
        BY <3>2, <4>1
    <3>4. Cardinality({p} \cup {r}) <= Cardinality(waitsOn[v])
      <4>1. {p} \cup {r} \subseteq waitsOn[v]
        BY Zenon
      <4> QED
        BY <3>1, <4>1, FS_Subset, Zenon
    <3>5. Cardinality(waitsOn[v]) \in Nat /\ Cardinality(waitsOn[v]) <= 1
      BY <3>1, FS_CardinalityType, Zenon
    <3> QED
      BY <3>3, <3>4, <3>5
  <2>3. avail[q] <= owed[q] + senders[qs[q]] + Cardinality(Lookers(q))
    BY <2>1, <2>2, Zenon DEF Covered
  <2>4. qs[q] \in Sub /\ subs[w][q] = qs[q]
    BY <2>1, SleeperListens, Zenon
  <2>5. avail[q] \in Nat /\ owed[q] \in Nat /\ senders[qs[q]] \in Nat
    BY <2>1, <2>4, Zenon DEF SubTypeOK
  <2>6. Lookers(q) = {} => Cardinality(Lookers(q)) = 0
    BY FS_EmptySet, Zenon
  <2>7. owed[q] > 0 \/ senders[qs[q]] > 0 \/ Lookers(q) # {}
    BY <2>3, <2>5, <2>6
  <2> QED
    BY <2>4, <2>7 DEF Lookers
<1> QED
  BY <1>1, WakeInvInit, WakeInvNext, PTL DEF Spec
=============================================================================
