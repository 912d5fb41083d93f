---------------------------- MODULE ArenaProofs ----------------------------
(***************************************************************************)
(* Handles are never reissued: the arena's free list is exact, generations *)
(* stay ahead of every handle given out, and so the arena implements       *)
(* HandleStore, for every number of slots and of generations.              *)
(***************************************************************************)
EXTENDS Arena, SequenceTheorems, TLAPS

USE DEF Index, Generation, Handle, Slot, Emptied, Freed

LEMMA SmallMod ==
  ASSUME NEW m \in Nat, NEW x \in Nat, x < m
  PROVE  x % m = x
OBVIOUS

LEMMA InitInv == Init => IInv
BY AssumeBounds, EmptySeq DEF Init, IInv, TypeOK, FreeListExact, IssuedUpToNow

LEMMA Sequences ==
  ASSUME TypeOK
  PROVE  /\ slots \in Seq(Slot) /\ free \in Seq(Index)
         /\ Len(slots) \in Nat /\ DOMAIN slots = 1..Len(slots)
         /\ Len(free) \in Nat /\ DOMAIN free = 1..Len(free)
         /\ \A i \in 1..Len(slots) : slots[i] \in Slot
         /\ \A j \in 1..Len(free) : free[j] \in Index
<1>1. slots \in Seq(Slot) /\ free \in Seq(Index)
  BY DEF TypeOK
<1> QED BY <1>1, LenProperties, ElementOfSeq

LEMMA ReusedInv ==
  ASSUME IInv, NEW v \in Value, InsertReused(v)
  PROVE  IInv'
<1> DEFINE top == Len(free)
           last == free[top]
           full == [gen |-> slots[last].gen, val |-> v]
<1> USE AssumeBounds, AssumeNoValue
<1>0. TypeOK /\ FreeListExact /\ IssuedUpToNow
  BY DEF IInv
<1>1. /\ slots \in Seq(Slot) /\ free \in Seq(Index)
      /\ Len(slots) \in Nat /\ DOMAIN slots = 1..Len(slots)
      /\ DOMAIN free = 1..top
      /\ \A i \in 1..Len(slots) : slots[i] \in Slot
      /\ \A j \in 1..top : free[j] \in Index
  BY <1>0, Sequences
<1>2. /\ top \in Nat \ {0} /\ top \in 1..top
      /\ last \in 1..Len(slots)
      /\ slots[last].val = NoValue
      /\ slots[last] \in Slot
  <2>1. top \in Nat \ {0}
    BY <1>1, EmptySeq DEF InsertReused
  <2>2. top \in 1..top
    BY <2>1
  <2> QED BY <1>0, <1>1, <2>1, <2>2 DEF FreeListExact
<1>3. full \in Slot /\ full.val # NoValue /\ full.gen = slots[last].gen
  BY <1>2
<1>4. slots' = [slots EXCEPT ![last] = full]
  <2>1. [slots[last] EXCEPT !.val = v] = full
    BY <1>2
  <2> QED BY <2>1 DEF InsertReused
<1>5. free' = SubSeq(free, 1, top - 1)
  BY DEF InsertReused
<1>6. issued' = issued \cup {[index |-> last, gen |-> slots[last].gen]}
  BY DEF InsertReused, NextHandle
<1> HIDE DEF top, full
<1>7. /\ slots' \in Seq(Slot) /\ Len(slots') = Len(slots)
      /\ DOMAIN slots' = 1..Len(slots)
      /\ slots'[last] = full
      /\ \A i \in 1..Len(slots) \ {last} : slots'[i] = slots[i]
  <2> HIDE DEF last, Slot
  <2>1. /\ slots' \in Seq(Slot) /\ Len(slots') = Len(slots)
        /\ \A i \in 1..Len(slots) : slots'[i] = IF i = last THEN full ELSE slots[i]
    BY <1>1, <1>2, <1>3, <1>4, ExceptSeq
  <2> QED BY <2>1, <1>2, LenProperties
<1>8. /\ free' \in Seq(Index) /\ DOMAIN free' = 1..(top - 1)
      /\ \A j \in 1..(top - 1) : free'[j] = free[j]
  <2> HIDE DEF last, Index
  <2>1. \A j \in 1..(top - 1) : free[j] \in Index
    BY <1>1, <1>2
  <2>2. /\ free' \in Seq(Index)
        /\ Len(free') = IF 1 <= top - 1 THEN (top - 1) - 1 + 1 ELSE 0
        /\ \A j \in 1..((top - 1) - 1 + 1) : free'[j] = free[1 + j - 1]
    BY <1>2, <1>5, <2>1, SubSeqProperties
  <2>3. Len(free') = top - 1
    BY <1>2, <2>2
  <2> QED BY <1>2, <2>2, <2>3, LenProperties
<1>9. last = free[top]
  OBVIOUS
<1> HIDE DEF last
<1>10. TypeOK'
  BY <1>0, <1>2, <1>6, <1>7, <1>8 DEF TypeOK
<1>11. FreeListExact'
  <2>0. /\ \A i, j \in 1..top : free[i] = free[j] => i = j
        /\ \A i \in 1..Len(slots) :
             slots[i].val = NoValue <=> \E j \in 1..top : free[j] = i
        /\ \A j \in 1..top : free[j] \in 1..Len(slots)
    BY <1>0, <1>1 DEF FreeListExact
  <2>1. \A j \in 1..(top - 1) : j \in 1..top /\ j # top /\ free[j] # last
    BY <1>2, <1>9, <2>0
  <2>2. \A i, j \in DOMAIN free' : free'[i] = free'[j] => i = j
    BY <1>8, <2>0, <2>1
  <2>3. \A j \in DOMAIN free' : free'[j] \in DOMAIN slots'
    BY <1>7, <1>8, <2>0, <2>1
  <2>4. ASSUME NEW i \in DOMAIN slots'
        PROVE  slots'[i].val = NoValue <=> \E j \in DOMAIN free' : free'[j] = i
    <3>1. CASE i = last
      <4>1. slots'[i].val # NoValue
        BY <1>3, <1>7, <3>1
      <4> QED BY <1>8, <2>1, <3>1, <4>1
    <3>2. CASE i # last
      <4>1. slots'[i] = slots[i] /\ i \in 1..Len(slots)
        BY <1>7, <3>2
      <4>2. (\E j \in 1..top : free[j] = i) <=> \E j \in 1..(top - 1) : free[j] = i
        <5>1. \A j \in 1..top : j = top \/ j \in 1..(top - 1)
          BY <1>2
        <5> QED BY <1>9, <2>1, <3>2, <5>1
      <4>3. slots[i].val = NoValue <=> \E j \in 1..top : free[j] = i
        BY <2>0, <4>1
      <4> QED BY <1>8, <4>1, <4>2, <4>3
    <3> QED BY <3>1, <3>2
  <2> QED BY <2>2, <2>3, <2>4 DEF FreeListExact
<1>12. IssuedUpToNow'
  <2> USE <1>0 DEF IssuedUpToNow
  <2>1. \A i \in DOMAIN slots' : slots'[i].gen = slots[i].gen
    BY <1>3, <1>7
  <2>2. \A i \in DOMAIN slots' : slots'[i].gen <= MaxRecycles
    BY <1>1, <1>7, <2>1
  <2>3. ASSUME NEW i \in DOMAIN slots', slots'[i].val # NoValue
        PROVE  [index |-> i, gen |-> slots'[i].gen] \in issued'
    <3>1. CASE i = last
      BY <3>1, <2>1, <1>6
    <3>2. CASE i # last
      BY <3>2, <2>3, <1>1, <1>6, <1>7
    <3> QED BY <3>1, <3>2
  <2>4. ASSUME NEW k \in issued'
        PROVE  /\ k.index \in DOMAIN slots'
               /\ k.gen <= slots'[k.index].gen
               /\ slots'[k.index].val = NoValue => k.gen < slots'[k.index].gen
    <3>1. CASE k \in issued
      BY <3>1, <2>1, <1>1, <1>3, <1>7
    <3>2. CASE k = [index |-> last, gen |-> slots[last].gen]
      BY <3>2, <2>1, <1>1, <1>2, <1>3, <1>7
    <3> QED BY <3>1, <3>2, <1>6
  <2> QED BY <2>2, <2>3, <2>4
<1> QED BY <1>10, <1>11, <1>12 DEF IInv

LEMMA FreshInv ==
  ASSUME IInv, NEW v \in Value, InsertFresh(v)
  PROVE  IInv'
<1> DEFINE last == Len(slots) + 1
           full == [gen |-> 0, val |-> v]
<1> USE AssumeBounds, AssumeNoValue
<1>0. TypeOK /\ FreeListExact /\ IssuedUpToNow
  BY DEF IInv
<1>1. /\ slots \in Seq(Slot) /\ Len(slots) \in Nat
      /\ DOMAIN slots = 1..Len(slots)
      /\ \A i \in 1..Len(slots) : slots[i] \in Slot
  BY <1>0, Sequences
<1>2. full \in Slot
  OBVIOUS
<1>3. slots' = Append(slots, full) /\ last \in Index
  BY <1>1 DEF InsertFresh
<1>4. free = <<>> /\ free' = free
  BY DEF InsertFresh
<1>5. issued' = issued \cup {[index |-> last, gen |-> 0]}
  BY DEF InsertFresh, NextHandle
<1>6. /\ slots' \in Seq(Slot) /\ Len(slots') = last
      /\ DOMAIN slots' = 1..last
      /\ slots'[last] = full
      /\ \A i \in 1..Len(slots) : slots'[i] = slots[i]
  <2> HIDE DEF full, Slot
  <2> QED BY <1>1, <1>2, <1>3, AppendProperties, LenProperties
<1>7. last \in Nat /\ 1..last = 1..Len(slots) \cup {last} /\ last \notin 1..Len(slots)
  BY <1>1
<1> HIDE DEF last
<1>8. TypeOK'
  BY <1>0, <1>3, <1>4, <1>5, <1>6, <1>7 DEF TypeOK
<1>9. FreeListExact'
  <2>1. \A i \in DOMAIN slots' : slots'[i].val # NoValue
    BY <1>0, <1>1, <1>4, <1>6, <1>7 DEF FreeListExact
  <2> QED BY <2>1, <1>4 DEF FreeListExact
<1>10. IssuedUpToNow'
  <2> USE <1>0 DEF IssuedUpToNow
  <2>1. \A i \in DOMAIN slots' : slots'[i].gen <= MaxRecycles
    BY <1>1, <1>6, <1>7
  <2>2. \A i \in DOMAIN slots' : slots'[i].val # NoValue
          => [index |-> i, gen |-> slots'[i].gen] \in issued'
    BY <1>1, <1>5, <1>6, <1>7
  <2>3. ASSUME NEW h \in issued'
        PROVE  /\ h.index \in DOMAIN slots'
               /\ h.gen <= slots'[h.index].gen
               /\ slots'[h.index].val = NoValue => h.gen < slots'[h.index].gen
    BY <1>1, <1>5, <1>6, <1>7
  <2> QED BY <2>1, <2>2, <2>3
<1> QED BY <1>8, <1>9, <1>10 DEF IInv

LEMMA RemoveInv ==
  ASSUME IInv, NEW h \in issued, Remove(h)
  PROVE  IInv'
<1> DEFINE s == h.index
           hollow == [gen |-> slots[s].gen + 1, val |-> NoValue]
<1> USE AssumeBounds, AssumeNoValue, AssumeNoWrap
<1>0. TypeOK /\ FreeListExact /\ IssuedUpToNow
  BY DEF IInv
<1>1. /\ slots \in Seq(Slot) /\ free \in Seq(Index)
      /\ Len(slots) \in Nat /\ DOMAIN slots = 1..Len(slots)
      /\ Len(free) \in Nat /\ DOMAIN free = 1..Len(free)
      /\ \A i \in 1..Len(slots) : slots[i] \in Slot
  BY <1>0, Sequences
<1>2. /\ s \in 1..Len(slots) /\ s \in Index
      /\ slots[s].gen = h.gen /\ slots[s].val # NoValue
      /\ slots[s].gen \in Nat /\ slots[s].gen < MaxRecycles
  BY <1>0, <1>1 DEF Remove, Contains, Get, TypeOK
<1>3. (slots[s].gen + 1) % GenCount = slots[s].gen + 1
  <2>1. slots[s].gen + 1 < GenCount /\ slots[s].gen + 1 \in Nat
    BY <1>2
  <2> QED BY <2>1, SmallMod
<1>4. /\ hollow \in Slot /\ hollow.val = NoValue
      /\ hollow.gen = slots[s].gen + 1
  BY <1>2
<1>5. /\ slots' = [slots EXCEPT ![s] = hollow]
      /\ free' = Append(free, s)
      /\ issued' = issued
  BY <1>3 DEF Remove
<1> HIDE DEF s, hollow
<1>6. /\ slots' \in Seq(Slot) /\ Len(slots') = Len(slots)
      /\ DOMAIN slots' = 1..Len(slots)
      /\ slots'[s] = hollow
      /\ \A i \in 1..Len(slots) \ {s} : slots'[i] = slots[i]
  <2> HIDE DEF Slot
  <2>1. /\ slots' \in Seq(Slot) /\ Len(slots') = Len(slots)
        /\ \A i \in 1..Len(slots) : slots'[i] = IF i = s THEN hollow ELSE slots[i]
    BY <1>1, <1>2, <1>4, <1>5, ExceptSeq
  <2> QED BY <2>1, <1>2, LenProperties
<1>7. /\ free' \in Seq(Index) /\ DOMAIN free' = 1..Len(free) \cup {Len(free) + 1}
      /\ free'[Len(free) + 1] = s
      /\ \A j \in 1..Len(free) : free'[j] = free[j] /\ j # Len(free) + 1
  <2> HIDE DEF Index
  <2>1. DOMAIN free' = 1..(Len(free) + 1)
    BY <1>1, <1>2, <1>5, AppendProperties, LenProperties
  <2>2. DOMAIN free' = 1..Len(free) \cup {Len(free) + 1}
    BY <1>1, <2>1
  <2> QED BY <1>1, <1>2, <1>5, <2>2, AppendProperties
<1>8. TypeOK'
  BY <1>0, <1>5, <1>6, <1>7 DEF TypeOK
<1>9. FreeListExact'
  <2> USE <1>0 DEF FreeListExact
  <2>0. \A j \in 1..Len(free) : free[j] # s
    BY <1>1, <1>2
  <2>1. \A i, j \in DOMAIN free' : free'[i] = free'[j] => i = j
    BY <1>1, <1>7, <2>0
  <2>2. \A j \in DOMAIN free' : free'[j] \in DOMAIN slots'
    BY <1>1, <1>2, <1>6, <1>7
  <2>3. ASSUME NEW i \in DOMAIN slots'
        PROVE  slots'[i].val = NoValue <=> \E j \in DOMAIN free' : free'[j] = i
    <3>1. CASE i = s
      BY <3>1, <1>4, <1>1, <1>6, <1>7
    <3>2. CASE i # s
      <4>1. slots'[i] = slots[i] /\ i \in DOMAIN slots
        BY <3>2, <1>1, <1>6
      <4>2. (\E j \in DOMAIN free' : free'[j] = i)
              <=> \E j \in DOMAIN free : free[j] = i
        BY <3>2, <1>1, <1>7
      <4> QED BY <4>1, <4>2
    <3> QED BY <3>1, <3>2
  <2> QED BY <2>1, <2>2, <2>3
<1>10. IssuedUpToNow'
  <2> USE <1>0 DEF IssuedUpToNow
  <2>1. \A i \in DOMAIN slots' : slots'[i].gen <= MaxRecycles
    <3>1. slots[s].gen + 1 <= MaxRecycles
      BY <1>2
    <3> QED BY <3>1, <1>1, <1>4, <1>6
  <2>2. \A i \in DOMAIN slots' : slots'[i].val # NoValue
          => [index |-> i, gen |-> slots'[i].gen] \in issued'
    BY <1>1, <1>5, <1>6 DEF hollow
  <2>3. ASSUME NEW k \in issued'
        PROVE  /\ k.index \in DOMAIN slots'
               /\ k.gen <= slots'[k.index].gen
               /\ slots'[k.index].val = NoValue => k.gen < slots'[k.index].gen
    <3>1. k \in issued /\ k.gen \in Nat /\ k.index \in 1..Len(slots)
      BY <1>0, <1>1, <1>5 DEF TypeOK
    <3>2. CASE k.index = s
      <4>1. k.gen <= slots[s].gen /\ slots[s].gen \in Nat
        BY <1>1, <1>2, <3>1, <3>2 DEF Slot
      <4>2. slots'[k.index].gen = slots[s].gen + 1
        BY <1>4, <1>6, <3>2
      <4> QED BY <1>6, <3>1, <4>1, <4>2
    <3>3. CASE k.index # s
      BY <3>1, <3>3, <1>1, <1>5, <1>6
    <3> QED BY <3>2, <3>3
  <2> QED BY <2>1, <2>2, <2>3
<1> QED BY <1>8, <1>9, <1>10 DEF IInv

(* The free list names every empty slot once, and the generation of a slot *)
(* is past every handle whose value is gone.                               *)
THEOREM ArenaInvariant == Spec => []IInv
<1>1. Init => IInv
  BY InitInv
<1>2. IInv /\ [Next]_vars => IInv'
  <2> SUFFICES ASSUME IInv, [Next]_vars PROVE IInv'
    OBVIOUS
  <2>1. CASE UNCHANGED vars
    BY <2>1 DEF IInv, vars, TypeOK, FreeListExact, IssuedUpToNow
  <2> QED BY <2>1, ReusedInv, FreshInv, RemoveInv DEF Next
<1> QED
  BY <1>1, <1>2, PTL DEF Spec

(* Every empty slot is on the free list exactly once: no slot is handed to *)
(* two values and none is lost.                                            *)
THEOREM FreeListIsExact == Spec => []FreeListExact
<1>1. IInv => FreeListExact
  BY DEF IInv
<1> QED BY <1>1, ArenaInvariant, PTL
----------------------------------------------------------------------------
Store == [h \in LiveHandles |-> Get(h)]

(* The handle an insertion returns was never issued before.                *)
LEMMA NewHandle ==
  ASSUME IInv, free # <<>> \/ Len(slots) < MaxSlots
  PROVE  NextHandle \in Handle \ issued
<1>1. TypeOK /\ FreeListExact /\ IssuedUpToNow
  BY DEF IInv
<1>2. CASE free # <<>>
  <2> DEFINE last == free[Len(free)]
  <2>1. Len(free) \in DOMAIN free
    BY <1>1, <1>2, Sequences, EmptySeq
  <2>2. last \in 1..Len(slots) /\ slots[last].val = NoValue
        /\ slots[last] \in Slot /\ last \in Index
    BY <1>1, <2>1, Sequences DEF FreeListExact
  <2>3. [index |-> last, gen |-> slots[last].gen] \notin issued
    BY <1>1, <2>2 DEF IssuedUpToNow
  <2> QED BY <1>2, <2>2, <2>3 DEF NextHandle
<1>3. CASE free = <<>> /\ Len(slots) < MaxSlots
  <2>1. [index |-> Len(slots) + 1, gen |-> 0] \notin issued
    BY <1>1, Sequences DEF IssuedUpToNow
  <2> QED BY <1>1, <1>3, <2>1, Sequences, AssumeBounds DEF NextHandle
<1> QED BY <1>2, <1>3

(* An insertion stores the value under the new handle and touches no other.*)
LEMMA InsertStores ==
  ASSUME IInv, IInv', NEW v \in Value, InsertReused(v) \/ InsertFresh(v)
  PROVE  Handles!Insert(NextHandle, v)
<1> USE AssumeNoValue
<1>1. TypeOK /\ FreeListExact /\ IssuedUpToNow
  BY DEF IInv
<1>0. NextHandle \in Handle \ issued /\ issued' = issued \cup {NextHandle}
  BY NewHandle, EmptySeq DEF InsertReused, InsertFresh
<1>01. PICK new \in Handle : new = NextHandle
  BY <1>0
<1>2. new \in Handle \ issued /\ issued' = issued \cup {new}
  BY <1>0, <1>01
<1>3. Get(new)' = v
  <2>1. CASE InsertReused(v)
    <3> DEFINE last == free[Len(free)]
    <3>1. new = [index |-> last, gen |-> slots[last].gen]
      BY <1>01, <2>1 DEF InsertReused, NextHandle
    <3>2. Len(free) \in DOMAIN free
      BY <1>1, <2>1, Sequences, EmptySeq DEF InsertReused
    <3>3. last \in 1..Len(slots) /\ slots[last] \in Slot
      BY <1>1, <3>2, Sequences DEF FreeListExact
    <3>4. slots' = [slots EXCEPT ![last] = [slots[last] EXCEPT !.val = v]]
      BY <2>1 DEF InsertReused
    <3>5. [slots[last] EXCEPT !.val = v] = [gen |-> slots[last].gen, val |-> v]
      BY <3>3
    <3>6. [gen |-> slots[last].gen, val |-> v] \in Slot
      BY <3>3
    <3> HIDE DEF last, Slot
    <3>7. /\ Len(slots') = Len(slots)
          /\ slots'[last] = [gen |-> slots[last].gen, val |-> v]
      BY <1>1, <3>3, <3>4, <3>5, <3>6, ExceptSeq, Sequences
    <3>8. last <= Len(slots')
      BY <3>3, <3>7, <1>1, Sequences
    <3> QED BY <3>1, <3>7, <3>8 DEF Get
  <2>2. CASE InsertFresh(v)
    <3> DEFINE last == Len(slots) + 1
    <3>1. new = [index |-> last, gen |-> 0]
      BY <1>01, <2>2 DEF InsertFresh, NextHandle
    <3>2. [gen |-> 0, val |-> v] \in Slot
      BY AssumeBounds
    <3>3. Len(slots') = last /\ slots'[last] = [gen |-> 0, val |-> v]
      <4> HIDE DEF Slot
      <4> QED BY <1>1, <2>2, <3>2, Sequences, AppendProperties DEF InsertFresh
    <3>4. last <= Len(slots')
      BY <1>1, <3>3, Sequences
    <3> QED BY <3>1, <3>3, <3>4 DEF Get
  <2> QED BY <2>1, <2>2
<1>4. \A h \in issued : Get(h)' = Get(h)
  <2> TAKE h \in issued
  <2>0. /\ h.index \in 1..Len(slots) /\ slots[h.index] \in Slot
        /\ Len(slots) \in Nat
    BY <1>1, Sequences DEF IssuedUpToNow
  <2>1. CASE InsertReused(v)
    <3> DEFINE last == free[Len(free)]
    <3>1. Len(free) \in DOMAIN free
      BY <1>1, <2>1, Sequences, EmptySeq DEF InsertReused
    <3>2. last \in 1..Len(slots) /\ slots[last].val = NoValue /\ slots[last] \in Slot
      BY <1>1, <3>1, Sequences DEF FreeListExact
    <3>3. slots' = [slots EXCEPT ![last] = [slots[last] EXCEPT !.val = v]]
      BY <2>1 DEF InsertReused
    <3>4. [slots[last] EXCEPT !.val = v] = [gen |-> slots[last].gen, val |-> v]
      BY <3>2
    <3>5. [gen |-> slots[last].gen, val |-> v] \in Slot
      BY <3>2
    <3>6. h.index = last => h.gen < slots[last].gen
      BY <1>1, <3>2 DEF IssuedUpToNow
    <3>6a. h.gen \in Int /\ slots[last].gen \in Int
      BY <1>1, <3>2 DEF TypeOK
    <3> HIDE DEF last, Slot
    <3>7. /\ Len(slots') = Len(slots)
          /\ \A i \in 1..Len(slots) : slots'[i] =
               IF i = last THEN [gen |-> slots[last].gen, val |-> v] ELSE slots[i]
      BY <1>1, <3>2, <3>3, <3>4, <3>5, ExceptSeq, Sequences
    <3> QED BY <2>0, <3>6, <3>6a, <3>7 DEF Get
  <2>2. CASE InsertFresh(v)
    <3>1. [gen |-> 0, val |-> v] \in Slot
      BY AssumeBounds
    <3>2. /\ Len(slots') = Len(slots) + 1
          /\ \A i \in 1..Len(slots) : slots'[i] = slots[i]
      <4> HIDE DEF Slot
      <4> QED BY <1>1, <2>2, <3>1, Sequences, AppendProperties DEF InsertFresh
    <3> QED BY <2>0, <3>2 DEF Get
  <2> QED BY <2>1, <2>2
<1>5. LiveHandles' = LiveHandles \cup {new}
  BY <1>2, <1>3, <1>4 DEF LiveHandles, Contains
<1>6. Store' = [k \in LiveHandles \cup {new} |-> IF k = new THEN v ELSE Store[k]]
  BY <1>2, <1>3, <1>4, <1>5 DEF Store, LiveHandles
<1>7. DOMAIN Store = LiveHandles
  BY DEF Store
<1> QED BY <1>01, <1>2, <1>6, <1>7 DEF Handles!Insert, Store

(* A removal takes exactly the removed handle's value out.                 *)
LEMMA RemoveForgets ==
  ASSUME IInv, NEW h \in issued, Remove(h)
  PROVE  Handles!Remove(h)
<1> DEFINE s == h.index
           hollow == [gen |-> slots[s].gen + 1, val |-> NoValue]
<1> USE AssumeNoValue
<1>1. TypeOK /\ IssuedUpToNow
  BY DEF IInv
<1>2. /\ s \in 1..Len(slots) /\ slots[s].gen = h.gen
      /\ slots[s].gen \in Nat /\ slots[s].gen < MaxRecycles
      /\ Len(slots) \in Nat
  BY <1>1, Sequences DEF Remove, Contains, Get, IssuedUpToNow
<1>3. (slots[s].gen + 1) % GenCount = slots[s].gen + 1 /\ hollow \in Slot
  <2>1. slots[s].gen + 1 < GenCount /\ slots[s].gen + 1 \in Nat
    BY <1>2, AssumeBounds, AssumeNoWrap
  <2> QED BY <2>1, SmallMod, AssumeBounds
<1>4. slots' = [slots EXCEPT ![s] = hollow]
  BY <1>3 DEF Remove
<1>5. /\ Len(slots') = Len(slots)
      /\ \A i \in 1..Len(slots) : slots'[i] = IF i = s THEN hollow ELSE slots[i]
  <2> HIDE DEF s, hollow, Slot
  <2> QED BY <1>1, <1>2, <1>3, <1>4, ExceptSeq, Sequences
<1>6. hollow.val = NoValue /\ hollow.gen = slots[s].gen + 1
  OBVIOUS
<1>7. issued' = issued
  BY DEF Remove
<1>8. ASSUME NEW k \in issued
      PROVE  Get(k)' = IF k = h THEN NoValue ELSE Get(k)
  <2>1. /\ k.index \in 1..Len(slots) /\ k.gen \in Nat /\ k.gen <= slots[k.index].gen
        /\ k = [index |-> k.index, gen |-> k.gen]
        /\ h = [index |-> h.index, gen |-> h.gen]
    BY <1>1, Sequences DEF IssuedUpToNow, TypeOK
  <2>2. CASE k.index = s
    BY <2>1, <2>2, <1>2, <1>5, <1>6 DEF Get
  <2>3. CASE k.index # s
    BY <2>1, <2>3, <1>2, <1>5 DEF Get
  <2> QED BY <2>2, <2>3
<1>9. h \in LiveHandles /\ LiveHandles' = LiveHandles \ {h}
  BY <1>7, <1>8 DEF LiveHandles, Contains, Remove
<1>10. Store' = [k \in LiveHandles \ {h} |-> Store[k]]
  BY <1>7, <1>8, <1>9 DEF Store, LiveHandles
<1>11. DOMAIN Store = LiveHandles
  BY DEF Store
<1> QED BY <1>7, <1>9, <1>10, <1>11 DEF Handles!Remove, Store

(* Whatever order of insertions and removals reuses its slots, the arena   *)
(* issues no handle twice and answers a removed handle with nothing.       *)
THEOREM HandlesAreUnique == Spec => RefinesHandleStore
<1>1. Init => Handles!Init
  <2> SUFFICES ASSUME Init PROVE Handles!Init
    OBVIOUS
  <2>1. LiveHandles = {} /\ issued = {}
    BY DEF Init, LiveHandles
  <2> QED BY <2>1 DEF Handles!Init
<1>2. ASSUME IInv, IInv', [Next]_vars PROVE [Handles!Next]_Handles!vars
  <2>1. ASSUME NEW v \in Value, InsertReused(v) \/ InsertFresh(v)
        PROVE  Handles!Next
    <3>1. NextHandle \in Handle
      BY <1>2, <2>1, NewHandle DEF InsertReused, InsertFresh
    <3>2. Handles!Insert(NextHandle, v)
      BY <1>2, <2>1, InsertStores
    <3> QED BY <3>1, <3>2 DEF Handles!Next
  <2>2. ASSUME NEW h \in issued, Remove(h)
        PROVE  Handles!Next
    <3>1. h \in Handle
      BY <1>2 DEF IInv, TypeOK
    <3> QED BY <1>2, <2>2, <3>1, RemoveForgets DEF Handles!Next
  <2>3. CASE UNCHANGED vars
    BY <2>3 DEF vars, Handles!vars, LiveHandles, Contains, Get
  <2> QED BY <1>2, <2>1, <2>2, <2>3 DEF Next
<1> QED
  BY <1>1, <1>2, ArenaInvariant, PTL DEF Spec, RefinesHandleStore, Handles!Spec
=============================================================================
