-------------------------- MODULE QueueLocksProofs --------------------------
(***************************************************************************)
(* The lock registry of the in-memory backend keeps its promises for any   *)
(* number of calls, queues, namespaces and structures.  LocksInv is        *)
(* inductive; one lemma for each action shows that the action preserves it. *)
(***************************************************************************)
EXTENDS QueueLocks, TLAPS

USE DEF Name

(* Opening the backend on a loaded journal establishes the invariant. *)
LEMMA InitInv == LocksInit => LocksInv
<1> SUFFICES ASSUME LocksInit PROVE LocksInv
  OBVIOUS
<1>1. LocksTypeOK
  BY DEF LocksInit, LocksTypeOK, PCs
<1>2. Counted
  BY NilIsNoObject DEF LocksInit, Counted
<1>3. \A c \in Call : InStep(c)
  BY Zenon DEF LocksInit, InStep, Names
<1>4. Registered /\ NothingLost
  BY DEF LocksInit, Registered, NothingLost
<1>5. NoLeak
  BY DEF LocksInit, NoLeak, IsEmpty
<1> QED
  BY <1>1, <1>2, <1>3, <1>4, <1>5 DEF LocksInv

(* A request that arrives has found nothing yet, so it disturbs nothing. *)
LEMMA BeginInv ==
    ASSUME LocksInv, NEW c \in Call, NEW ns \in SUBSET Name, Begin(c, ns)
    PROVE  LocksInv'
<1> USE DEF LocksInv
<1>1. LocksTypeOK'
  BY DEF Begin, LocksTypeOK, PCs
<1>2. Counted' /\ Registered' /\ NothingLost' /\ NoLeak'
  BY DEF Begin, Counted, Registered, NothingLost, NoLeak, IsEmpty
<1>3. ASSUME NEW d \in Call PROVE InStep(d)'
  <2>1. CASE d = c
    <3>1. want'[c] = ns /\ pc'[c] = "lookup" /\ got' = got
      BY DEF Begin, LocksTypeOK
    <3>2. \A n \in Name : got[c][n] = Nil
      BY DEF Begin, InStep
    <3>3. round'[c] = "namespaces" => ns \cap Queue = {}
      BY DEF Begin, LocksTypeOK
    <3>4. round'[c] = "namespaces" \/ round'[c] = "queues"
      BY DEF Begin, LocksTypeOK
    <3> QED
      BY <2>1, <3>1, <3>2, <3>3, <3>4 DEF InStep, Names
  <2>2. CASE d # c
    <3>1. /\ want'[d] = want[d] /\ pc'[d] = pc[d] /\ round'[d] = round[d]
          /\ got' = got /\ holder' = holder
      BY <2>2 DEF Begin, LocksTypeOK
    <3> QED
      BY <3>1 DEF InStep, Names, Holds, LocksInv
  <2> QED
    BY <2>1, <2>2
<1> QED
  BY <1>1, <1>2, <1>3

(* What a call leaves alone for another call: where that one is, what it   *)
(* wants, what it has found and what it has locked.                        *)
LEMMA InStepOfOther ==
    ASSUME NEW d \in Call, InStep(d), LocksTypeOK,
           want'[d] = want[d], pc'[d] = pc[d], round'[d] = round[d], got'[d] = got[d],
           \A n \in Name : got[d][n] # Nil =>
                (holder'[n][got[d][n]] = d <=> holder[n][got[d][n]] = d)
    PROVE  InStep(d)'
<1>1. want[d] \subseteq Name
  BY DEF LocksTypeOK
<1>2. \A n \in Name : Holds(d, n)' <=> Holds(d, n)
  BY DEF Holds
<1> QED
  BY <1>1, <1>2, Zenon DEF InStep, Names

(* Finding structures: a registered one is found by everyone, and a new    *)
(* one is at an address that no one else can have found.                   *)
LEMMA LookupInv ==
    ASSUME LocksInv, NEW c \in Call, Lookup(c)
    PROVE  LocksInv'
<1> USE DEF LocksInv
<1>1. PICK found \in [Names(c) -> Struct] :
        /\ \A n \in Names(c) : IF registry[n] = Nil THEN Unused(n, found[n])
                                                    ELSE found[n] = registry[n]
        /\ registry' = [n \in Name |-> IF n \in Names(c) THEN found[n]
                                                         ELSE registry[n]]
        /\ got' = [got EXCEPT ![c] = [n \in Name |->
                        IF n \in Names(c) THEN found[n] ELSE got[c][n]]]
        /\ dependents' = [n \in Name |-> [s \in Struct |->
                IF n \in Names(c) /\ s = found[n] THEN dependents[n][s] \cup {c}
                                                  ELSE dependents[n][s]]]
  BY Zenon DEF Lookup, LockForQueue
<1>2. /\ pc[c] = "lookup" /\ pc' = [pc EXCEPT ![c] = "lock"]
      /\ UNCHANGED <<holder, content, round, want>>
  BY DEF Lookup
<1>3. /\ Names(c) \subseteq Name
      /\ \A n \in Names(c) : found[n] \in Struct /\ found[n] # Nil /\ got[c][n] = Nil
  BY <1>2, NilIsNoObject DEF LocksTypeOK, Names, InStep
<1>4. /\ \A n \in Names(c) : got'[c][n] = found[n] /\ registry'[n] = found[n]
      /\ \A n \in Name \ Names(c) : got'[c][n] = got[c][n] /\ registry'[n] = registry[n]
      /\ \A d \in Call \ {c} : got'[d] = got[d]
  BY <1>1, <1>3 DEF LocksTypeOK
<1>5. LocksTypeOK'
  BY <1>1, <1>2, <1>3 DEF LocksTypeOK, PCs
<1>6. Counted'
  <2>1. ASSUME NEW n \in Name, NEW s \in Struct
        PROVE  dependents'[n][s] = {d \in Call : got'[d][n] = s}
    <3>1. CASE n \in Names(c) /\ s = found[n]
      <4>1. dependents'[n][s] = dependents[n][s] \cup {c}
        BY <1>1, <3>1
      <4>2. dependents[n][s] = {d \in Call : got[d][n] = s}
        BY DEF Counted
      <4>3. \A d \in Call : got'[d][n] = s <=> d = c \/ got[d][n] = s
        BY <1>4, <3>1
      <4> QED
        BY <4>1, <4>2, <4>3
    <3>2. CASE ~(n \in Names(c) /\ s = found[n])
      BY <1>1, <1>3, <1>4, <3>2, NilIsNoObject DEF Counted
    <3> QED
      BY <3>1, <3>2
  <2>2. ASSUME NEW n \in Name, NEW s \in Struct, holder[n][s] # Nil
        PROVE  got'[holder[n][s]][n] = s
    <3>1. got[holder[n][s]][n] = s /\ holder[n][s] \in Call
      BY <2>2 DEF Counted, LocksTypeOK
    <3> QED
      BY <1>3, <1>4, <3>1, NilIsNoObject
  <2> QED
    BY <1>2, <2>1, <2>2 DEF Counted
<1>7. ASSUME NEW d \in Call PROVE InStep(d)'
  <2>1. CASE d = c
    <3>1. \A n \in Name \ Names(c) : Holds(c, n)' <=> Holds(c, n)
      BY <1>2, <1>4 DEF Holds
    <3>2. Names(c)' = Names(c) /\ want'[c] = want[c] /\ pc'[c] = "lock" /\ round' = round
      BY <1>2 DEF Names, LocksTypeOK
    <3>3. want[c] \subseteq Name
      BY DEF LocksTypeOK
    <3> QED
      BY <1>2, <1>3, <1>4, <2>1, <3>1, <3>2, <3>3 DEF InStep, Names
  <2>2. CASE d # c
    BY <1>2, <1>4, <2>2, InStepOfOther, Zenon DEF LocksTypeOK
  <2> QED
    BY <2>1, <2>2
<1>8. Registered'
  BY <1>1, <1>3, <1>4 DEF Registered, Unused
<1>9. NothingLost'
  BY <1>1, <1>2, <1>3, <1>4, NilIsNoObject DEF NothingLost
<1>10. NoLeak'
  BY <1>2, <1>3, <1>4 DEF NoLeak, IsEmpty
<1> QED
  BY <1>5, <1>6, <1>7, <1>8, <1>9, <1>10

(* Taking a free mutex: only the call that takes it is told anything new. *)
LEMMA LockInv ==
    ASSUME LocksInv, NEW c \in Call, Lock(c)
    PROVE  LocksInv'
<1> USE DEF LocksInv
<1>1. PICK n \in Names(c) : /\ ~Holds(c, n) /\ holder[n][got[c][n]] = Nil
                            /\ holder' = [holder EXCEPT ![n][got[c][n]] = c]
  BY Zenon DEF Lock, NextInOrder
<1>2. pc[c] = "lock" /\ UNCHANGED <<registry, dependents, content, pc, round, want, got>>
  BY DEF Lock
<1>3. n \in Name /\ got[c][n] \in Struct
  BY <1>2 DEF LocksTypeOK, Names, InStep
<1>4. \A m \in Name, s \in Struct :
        holder'[m][s] = IF m = n /\ s = got[c][n] THEN c ELSE holder[m][s]
  BY <1>1, <1>3 DEF LocksTypeOK
<1>5. LocksTypeOK'
  BY <1>1, <1>2, <1>3 DEF LocksTypeOK
<1>6. Counted'
  BY <1>2, <1>4 DEF Counted
<1>7. ASSUME NEW d \in Call PROVE InStep(d)'
  <2>1. CASE d = c
    <3>1. \A m \in Name : Holds(c, m) => Holds(c, m)'
      BY <1>2, <1>4, NilIsNoObject DEF Holds, LocksTypeOK
    <3>2. want[c] \subseteq Name /\ Names(c)' = Names(c)
      BY <1>2 DEF LocksTypeOK, Names
    <3> QED
      BY <1>2, <2>1, <3>1, <3>2 DEF InStep, Names
  <2>2. CASE d # c
    <3>1. \A m \in Name : got[d][m] # Nil =>
                (holder'[m][got[d][m]] = d <=> holder[m][got[d][m]] = d)
      BY <1>1, <1>3, <1>4, <2>2, NilIsNoObject DEF LocksTypeOK
    <3> QED
      BY <1>2, <3>1, InStepOfOther
  <2> QED
    BY <2>1, <2>2
<1>8. Registered' /\ NothingLost' /\ NoLeak'
  BY <1>2 DEF Registered, NothingLost, NoLeak, IsEmpty
<1> QED
  BY <1>5, <1>6, <1>7, <1>8

(* With the round's locks held, the next round begins, or the work. *)
LEMMA LockedInv ==
    ASSUME LocksInv, NEW c \in Call, Locked(c)
    PROVE  LocksInv'
<1> USE DEF LocksInv
<1>1. /\ pc[c] = "lock" /\ \A n \in Names(c) : Holds(c, n)
      /\ UNCHANGED <<registry, dependents, holder, content, want, got>>
  BY DEF Locked
<1>2. LocksTypeOK'
  BY Zenon DEF Locked, LocksTypeOK, PCs
<1>3. Counted' /\ Registered' /\ NothingLost' /\ NoLeak'
  BY <1>1 DEF Counted, Registered, NothingLost, NoLeak, IsEmpty
<1>4. ASSUME NEW d \in Call PROVE InStep(d)'
  <2>1. CASE d = c /\ round[c] = "queues" /\ want[c] \cap Namespace # {}
    <3>1. pc'[c] = "lookup" /\ round'[c] = "namespaces"
      BY <2>1 DEF Locked, LocksTypeOK
    <3>2. Names(c) = want[c] \cap Queue /\ Names(c)' = want[c] \cap Namespace
      BY <1>1, <2>1, <3>1 DEF Names
    <3>3. want[c] \ Names(c) = want[c] \cap Namespace
          /\ want[c] \ Names(c)' = want[c] \cap Queue
      BY <3>2, NamesAreSorted DEF LocksTypeOK
    <3>4. \A n \in Name : Holds(c, n)' <=> Holds(c, n)
      BY <1>1 DEF Holds
    <3>5. /\ \A n \in want[c] \cap Queue : Holds(c, n)'
          /\ \A n \in want[c] \cap Namespace : got[c][n] = Nil
      BY <1>1, <2>1, <3>2, <3>3, <3>4 DEF InStep
    <3> QED
      BY <1>1, <2>1, <3>1, <3>2, <3>3, <3>5 DEF InStep
  <2>2. CASE d = c /\ (round[c] = "namespaces" \/ want[c] \cap Namespace = {})
    <3>1. pc'[c] = "work" /\ round' = round
      BY <2>2 DEF Locked, LocksTypeOK
    <3>2. Names(c)' = Names(c) /\ want'[c] = want[c]
      BY <1>1, <3>1 DEF Names
    <3>3. \A n \in Name : Holds(c, n)' <=> Holds(c, n)
      BY <1>1 DEF Holds
    <3>4. round[c] = "queues" => want[c] \ Names(c) = {}
      BY <2>2, NamesAreSorted DEF LocksTypeOK, Names
    <3>5. want[c] \subseteq Name
      BY DEF LocksTypeOK
    <3> QED
      BY <1>1, <2>2, <3>1, <3>2, <3>3, <3>4, <3>5 DEF InStep, LocksTypeOK, Names
  <2>3. CASE d # c
    <3>1. pc'[d] = pc[d] /\ round'[d] = round[d]
      BY <2>3 DEF Locked, LocksTypeOK
    <3> QED
      BY <1>1, <3>1, InStepOfOther
  <2> QED
    BY <2>1, <2>2, <2>3 DEF LocksTypeOK
<1> QED
  BY <1>2, <1>3, <1>4

(* The work changes what locked structures hold, and those are registered. *)
LEMMA WriteInv ==
    ASSUME LocksInv, NEW c \in Call, Write(c)
    PROVE  LocksInv'
<1> USE DEF LocksInv
<1>1. /\ pc[c] = "work"
      /\ UNCHANGED <<registry, dependents, holder, pc, round, want, got>>
      /\ \A n \in Name, s \in Struct :
            content'[n][s] # content[n][s] => n \in want[c] /\ s = got[c][n]
  BY DEF Write
<1>2. \A n \in Name, s \in Struct : content'[n][s] # content[n][s] => registry[n] = s
  BY <1>1, NilIsNoObject DEF Registered
<1>3. LocksTypeOK'
  BY <1>1 DEF Write, LocksTypeOK
<1>4. Counted' /\ Registered'
  BY <1>1 DEF Counted, Registered
<1>5. ASSUME NEW d \in Call PROVE InStep(d)'
  BY <1>1, InStepOfOther
<1>6. NothingLost'
  BY <1>1, <1>2 DEF NothingLost
<1>7. NoLeak'
  BY <1>1, NilIsNoObject DEF NoLeak, IsEmpty, LocksTypeOK
<1> QED
  BY <1>3, <1>4, <1>5, <1>6, <1>7

(* The work ends with everything wanted still locked. *)
LEMMA FinishInv ==
    ASSUME LocksInv, NEW c \in Call, Finish(c)
    PROVE  LocksInv'
<1> USE DEF LocksInv
<1>1. /\ pc[c] = "work" /\ pc' = [pc EXCEPT ![c] = "unlock"]
      /\ UNCHANGED <<registry, dependents, holder, content, round, want, got>>
  BY DEF Finish
<1>2. LocksTypeOK'
  BY <1>1 DEF LocksTypeOK, PCs
<1>3. Counted' /\ Registered' /\ NothingLost' /\ NoLeak'
  BY <1>1 DEF Counted, Registered, NothingLost, NoLeak, IsEmpty
<1>4. ASSUME NEW d \in Call PROVE InStep(d)'
  <2>1. CASE d = c
    <3>1. pc'[c] = "unlock"
      BY <1>1 DEF LocksTypeOK
    <3>2. Names(c)' = Names(c) /\ \A n \in Name : Holds(c, n)' <=> Holds(c, n)
      BY <1>1 DEF Names, Holds
    <3>3. want[c] \subseteq Name /\ Names(c) \subseteq Name
      BY DEF LocksTypeOK, Names
    <3> QED
      BY <1>1, <2>1, <3>1, <3>2, <3>3 DEF InStep
  <2>2. CASE d # c
    BY <1>1, <2>2, InStepOfOther, Zenon DEF LocksTypeOK
  <2> QED
    BY <2>1, <2>2
<1> QED
  BY <1>2, <1>3, <1>4

(* Unlocking the mutexes of the round: no one else had them. *)
LEMMA UnlockInv ==
    ASSUME LocksInv, NEW c \in Call, Unlock(c)
    PROVE  LocksInv'
<1> USE DEF LocksInv
<1>1. /\ pc[c] = "unlock" /\ pc' = [pc EXCEPT ![c] = "release"]
      /\ UNCHANGED <<registry, dependents, content, round, want, got>>
      /\ holder' = [n \in Name |-> IF n \notin Names(c) THEN holder[n]
                                   ELSE [holder[n] EXCEPT ![got[c][n]] = Nil]]
  BY DEF Unlock
<1>2. Names(c) \subseteq want[c] /\ want[c] \subseteq Name
  BY DEF LocksTypeOK, Names
<1>3. \A n \in Names(c) : got[c][n] \in Struct /\ holder[n][got[c][n]] = c
  BY <1>1, <1>2 DEF InStep, Holds, LocksTypeOK
<1>4. \A n \in Name, s \in Struct :
        holder'[n][s] = IF n \in Names(c) /\ s = got[c][n] THEN Nil ELSE holder[n][s]
  BY <1>1, <1>3 DEF LocksTypeOK
<1>5. LocksTypeOK'
  BY <1>1, <1>3 DEF LocksTypeOK, PCs
<1>6. Counted'
  BY <1>1, <1>4 DEF Counted
<1>7. ASSUME NEW d \in Call PROVE InStep(d)'
  <2>1. CASE d = c
    <3>1. pc'[c] = "release" /\ Names(c)' = Names(c)
      BY <1>1 DEF LocksTypeOK, Names
    <3>2. /\ \A n \in Names(c) : ~Holds(c, n)'
          /\ \A n \in Name \ Names(c) : Holds(c, n)' <=> Holds(c, n)
      <4>1. got' = got /\ \A n \in Name : got[c][n] \in Struct \cup {Nil}
        BY <1>1 DEF LocksTypeOK
      <4>2. ASSUME NEW n \in Names(c) PROVE ~Holds(c, n)'
        <5>1. holder'[n][got[c][n]] = Nil
          BY <1>2, <1>3, <1>4, Zenon
        <5> QED
          BY <4>1, <5>1, NilIsNoObject, Zenon DEF Holds
      <4>3. ASSUME NEW n \in Name \ Names(c) PROVE Holds(c, n)' <=> Holds(c, n)
        <5>1. got[c][n] # Nil => holder'[n][got[c][n]] = holder[n][got[c][n]]
          BY <1>4, <4>1, Zenon
        <5> QED
          BY <4>1, <5>1, Zenon DEF Holds
      <4> QED
        BY <4>2, <4>3, Zenon
    <3> QED
      BY <1>1, <1>2, <2>1, <3>1, <3>2 DEF InStep
  <2>2. CASE d # c
    <3>1. \A n \in Name : got[d][n] # Nil =>
                (holder'[n][got[d][n]] = d <=> holder[n][got[d][n]] = d)
      BY <1>3, <1>4, <2>2, NilIsNoObject DEF LocksTypeOK
    <3> QED
      BY <1>1, <2>2, <3>1, InStepOfOther, Zenon DEF LocksTypeOK
  <2> QED
    BY <2>1, <2>2
<1>8. Registered' /\ NothingLost' /\ NoLeak'
  BY <1>1 DEF Registered, NothingLost, NoLeak, IsEmpty
<1> QED
  BY <1>5, <1>6, <1>7, <1>8

(* Releasing: a structure is dropped only when its last dependent goes and *)
(* it holds nothing, and then it is always dropped.                        *)
LEMMA ReleaseInv ==
    ASSUME LocksInv, NEW c \in Call, Release(c)
    PROVE  LocksInv'
<1> USE DEF LocksInv
<1>1. /\ pc[c] = "release" /\ UNCHANGED <<holder, content>>
      /\ registry' = [n \in Name |-> IF n \in Names(c) /\ Collectable(c, n)
                                     THEN Nil ELSE registry[n]]
      /\ dependents' = [n \in Name |-> [s \in Struct |->
            IF n \in Names(c) /\ s = got[c][n] THEN dependents[n][s] \ {c}
                                               ELSE dependents[n][s]]]
      /\ got' = [got EXCEPT ![c] = [n \in Name |-> IF n \in Names(c) THEN Nil
                                                                     ELSE got[c][n]]]
  BY DEF Release
<1>2. Names(c) \subseteq want[c] /\ want[c] \subseteq Name
  BY DEF LocksTypeOK, Names
<1>3. \A n \in Names(c) : /\ got[c][n] \in Struct /\ registry[n] = got[c][n]
                          /\ holder[n][got[c][n]] # c
  BY <1>1, <1>2, SMTT(30) DEF InStep, Holds, LocksTypeOK, Registered
<1>4. /\ \A n \in Names(c) : got'[c][n] = Nil
      /\ \A n \in Name \ Names(c) : got'[c][n] = got[c][n]
      /\ \A d \in Call \ {c} : got'[d] = got[d]
  BY <1>1, <1>2 DEF LocksTypeOK
<1>5. LocksTypeOK'
  <2>1. registry' \in [Name -> Struct \cup {Nil}] /\ got' \in [Call -> [Name -> Struct \cup {Nil}]]
    BY <1>1 DEF LocksTypeOK
  <2>2. dependents' \in [Name -> [Struct -> SUBSET Call]]
    BY <1>1 DEF LocksTypeOK
  <2>3. /\ pc' \in [Call -> PCs] /\ round' \in [Call -> {"queues", "namespaces"}]
        /\ want' \in [Call -> SUBSET Name]
    BY Zenon DEF Release, LocksTypeOK, PCs
  <2> QED
    BY <1>1, <2>1, <2>2, <2>3 DEF LocksTypeOK
<1>6. Counted'
  <2>1. ASSUME NEW n \in Name, NEW s \in Struct
        PROVE  dependents'[n][s] = {d \in Call : got'[d][n] = s}
    <3>1. dependents[n][s] = {d \in Call : got[d][n] = s}
      BY DEF Counted
    <3>2. CASE n \in Names(c) /\ s = got[c][n]
      <4>1. dependents'[n][s] = dependents[n][s] \ {c}
        BY <1>1, <3>2
      <4>2. \A d \in Call : got'[d][n] = s <=> d # c /\ got[d][n] = s
        BY <1>4, <3>2, NilIsNoObject
      <4> QED
        BY <3>1, <4>1, <4>2
    <3>3. CASE ~(n \in Names(c) /\ s = got[c][n])
      BY <1>1, <1>4, <3>1, <3>3, NilIsNoObject
    <3> QED
      BY <3>2, <3>3
  <2>2. ASSUME NEW n \in Name, NEW s \in Struct, holder[n][s] # Nil
        PROVE  got'[holder[n][s]][n] = s
    <3>1. got[holder[n][s]][n] = s /\ holder[n][s] \in Call
      BY <2>2 DEF Counted, LocksTypeOK
    <3> QED
      BY <1>3, <1>4, <3>1
  <2>3. holder' = holder
    BY <1>1
  <2> QED
    BY <2>1, <2>2, <2>3 DEF Counted
<1>7. ASSUME NEW n \in Names(c), Collectable(c, n), NEW d \in Call \ {c}
      PROVE  got[d][n] = Nil
  BY <1>2, <1>3, <1>7, NilIsNoObject DEF Collectable, Counted, Registered, LocksTypeOK
<1>8. Registered'
  <2> SUFFICES ASSUME NEW d \in Call, NEW n \in Name, got'[d][n] # Nil
               PROVE  registry'[n] = got'[d][n]
    BY DEF Registered
  <2>1. got'[d][n] = got[d][n] /\ (d = c => n \notin Names(c))
    BY <1>4
  <2>2. ~(n \in Names(c) /\ Collectable(c, n))
    BY <1>7, <2>1
  <2>3. registry'[n] = registry[n]
    BY <1>1, <2>2
  <2> QED
    BY <2>1, <2>3 DEF Registered
<1>9. NothingLost'
  BY <1>1, <1>2, <1>3, NilIsNoObject DEF NothingLost, Collectable, IsEmpty
<1>10. NoLeak'
  <2> SUFFICES ASSUME NEW n \in Name, registry'[n] # Nil, \A d \in Call : got'[d][n] = Nil
               PROVE  ~IsEmpty(n)'
    BY DEF NoLeak
  <2>1. registry'[n] = registry[n] /\ ~(n \in Names(c) /\ Collectable(c, n))
    BY <1>1
  <2>2. CASE n \in Names(c)
    <3>1. dependents[n][got[c][n]] \subseteq {c}
      BY <1>3, <1>4, <2>2, NilIsNoObject DEF Counted
    <3> QED
      BY <1>1, <2>1, <2>2, <3>1 DEF Collectable, IsEmpty
  <2>3. CASE n \notin Names(c)
    BY <1>1, <1>4, <2>1, <2>3, SMTT(30) DEF NoLeak, IsEmpty
  <2> QED
    BY <2>2, <2>3
<1>11. ASSUME NEW d \in Call PROVE InStep(d)'
  <2>1. CASE d = c /\ round[c] = "namespaces" /\ want[c] \cap Queue # {}
    <3>1. pc'[c] = "unlock" /\ round'[c] = "queues" /\ want' = want
      BY <2>1 DEF Release, LocksTypeOK
    <3>2. Names(c) = want[c] \cap Namespace /\ Names(c)' = want[c] \cap Queue
      BY <2>1, <3>1 DEF Names
    <3>3. want[c] \ Names(c) = want[c] \cap Queue
          /\ want[c] \ Names(c)' = want[c] \cap Namespace
      BY <1>2, <3>2, NamesAreSorted
    <3>4. \A n \in want[c] \cap Queue : got[c][n] # Nil /\ Holds(c, n)'
      BY <1>1, <1>2, <1>4, <2>1, <3>2, <3>3, SMTT(30) DEF InStep, Holds
    <3>5. \A n \in want[c] \cap Queue : got'[c][n] # Nil
      BY <1>2, <1>4, <3>3, <3>4
    <3> QED
      BY <1>1, <1>2, <1>4, <2>1, <3>1, <3>2, <3>3, <3>4, <3>5, SMTT(30) DEF InStep
  <2>2. CASE d = c /\ (round[c] = "queues" \/ want[c] \cap Queue = {})
    <3>1. pc'[c] = "done" /\ want'[c] = {}
      BY <2>2 DEF Release, LocksTypeOK
    <3>2. \A n \in Name : got'[c][n] = Nil
      BY <1>1, <1>2, <1>4, <2>2 DEF InStep, Names, LocksTypeOK
    <3> QED
      BY <2>2, <3>1, <3>2 DEF InStep, Names
  <2>3. CASE d # c
    <3>1. want'[d] = want[d] /\ pc'[d] = pc[d] /\ round'[d] = round[d]
      BY <2>3 DEF Release, LocksTypeOK
    <3> QED
      BY <1>1, <1>4, <2>3, <3>1, InStepOfOther, Zenon
  <2> QED
    BY <2>1, <2>2, <2>3 DEF LocksTypeOK
<1> QED
  BY <1>5, <1>6, <1>8, <1>9, <1>10, <1>11

-----------------------------------------------------------------------------

(* Whatever requests arrive and however their steps interleave, the dance  *)
(* of locks keeps LocksInv.                                                *)
THEOREM LocksInvariant == LocksSpec => []LocksInv
<1>1. LocksInit => LocksInv
  BY InitInv
<1>2. LocksInv /\ [LocksNext]_lockVars => LocksInv'
  <2> SUFFICES ASSUME LocksInv, [LocksNext]_lockVars PROVE LocksInv'
    OBVIOUS
  <2>1. CASE LocksNext
    <3>1. PICK c \in Call : \/ \E ns \in SUBSET Name : Begin(c, ns)
                            \/ Write(c) \/ Lookup(c) \/ Lock(c) \/ Locked(c)
                            \/ Finish(c) \/ Unlock(c) \/ Release(c)
      BY <2>1 DEF LocksNext
    <3> QED
      BY <3>1, BeginInv, WriteInv, LookupInv, LockInv, LockedInv, FinishInv,
         UnlockInv, ReleaseInv
  <2>2. CASE UNCHANGED lockVars
    <3>1. LocksTypeOK' /\ Counted' /\ Registered' /\ NothingLost' /\ NoLeak'
      BY <2>2 DEF lockVars, LocksInv, LocksTypeOK, Counted, Registered, NothingLost,
                  NoLeak, IsEmpty
    <3>2. \A c \in Call : InStep(c)'
      BY <2>2, InStepOfOther DEF lockVars, LocksInv
    <3> QED
      BY <3>1, <3>2 DEF LocksInv
  <2> QED
    BY <2>1, <2>2
<1> QED
  BY <1>1, <1>2, PTL DEF LocksSpec

(* Every variable of the registry keeps its type. *)
THEOREM LocksTyped == LocksSpec => []LocksTypeOK
<1>1. LocksInv => LocksTypeOK
  BY DEF LocksInv
<1> QED
  BY <1>1, LocksInvariant, PTL

(* No call waits on, or works under, a lock structure that another call    *)
(* has already dropped from the registry.                                  *)
THEOREM LocksRegistered == LocksSpec => []Registered
<1>1. LocksInv => Registered
  BY DEF LocksInv
<1> QED
  BY <1>1, LocksInvariant, PTL

(* Two calls never have the same queue or namespace locked: both would     *)
(* have found the registered structure, whose mutex has one holder.        *)
THEOREM LocksExclude == LocksSpec => []Exclusive
<1>1. LocksInv => Exclusive
  BY DEF LocksInv, Registered, Exclusive, Holds
<1> QED
  BY <1>1, LocksInvariant, PTL

(* Collecting lock structures loses no content, and leaves none behind     *)
(* that holds nothing and that no call depends on.                         *)
THEOREM CollectionIsExact == LocksSpec => [](NothingLost /\ NoLeak)
<1>1. LocksInv => NothingLost /\ NoLeak
  BY DEF LocksInv
<1> QED
  BY <1>1, LocksInvariant, PTL
=============================================================================
