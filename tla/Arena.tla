------------------------------- MODULE Arena -------------------------------
(***************************************************************************)
(* The generational arena (src/src/arena.rs) behind every ItemId, NodeId   *)
(* and JointId: slots that are reused last freed first, each with a        *)
(* generation that grows on every removal.                                 *)
(*                                                                         *)
(* Indices are 1-based here.  Generations are machine words of GenCount    *)
(* values (2^32 in the code) and wrap; the bound MaxRecycles limits how    *)
(* often one slot is freed, and AssumeNoWrap is what makes stale handles   *)
(* detectable at all.  "issued" is a history variable: what callers may    *)
(* still be holding.                                                       *)
(***************************************************************************)
EXTENDS Integers, Sequences

CONSTANTS Value,        \* what is stored
          NoValue,      \* an empty slot (None)
          GenCount,     \* number of generations a slot counter can hold
          MaxSlots,     \* bound: slots the arena may grow to
          MaxRecycles   \* bound: how often a single slot is freed

ASSUME AssumeNoValue == NoValue \notin Value
ASSUME AssumeBounds == /\ GenCount \in Nat \ {0}
                       /\ MaxSlots \in Nat \ {0}
                       /\ MaxRecycles \in Nat
ASSUME AssumeNoWrap == MaxRecycles < GenCount

VARIABLES slots,   \* Seq([gen, val])
          free,    \* indices of the empty slots, most recently freed last
          issued   \* history: every handle returned by insert

vars == <<slots, free, issued>>

Index == 1..MaxSlots
Generation == 0..(GenCount - 1)
Handle == [index : Index, gen : Generation]

Slot == [gen : Generation, val : Value \cup {NoValue}]

TypeOK == /\ slots \in Seq(Slot)
          /\ Len(slots) <= MaxSlots
          /\ free \in Seq(Index)
          /\ issued \subseteq Handle

Init == slots = <<>> /\ free = <<>> /\ issued = {}

(* Arena::get: the slot exists, is at the handle's generation and full.    *)
Get(h) == IF h.index <= Len(slots) /\ slots[h.index].gen = h.gen
          THEN slots[h.index].val
          ELSE NoValue

Contains(h) == Get(h) # NoValue

(* The handle the next insertion returns.                                  *)
NextHandle ==
    IF free # <<>>
    THEN [index |-> free[Len(free)], gen |-> slots[free[Len(free)]].gen]
    ELSE [index |-> Len(slots) + 1, gen |-> 0]

(* Arena::insert, reusing the most recently freed slot.                    *)
InsertReused(v) ==
    /\ free # <<>>
    /\ slots' = [slots EXCEPT ![free[Len(free)]].val = v]
    /\ free' = SubSeq(free, 1, Len(free) - 1)
    /\ issued' = issued \cup {NextHandle}

(* Arena::insert, growing the arena by one slot at generation zero.        *)
InsertFresh(v) ==
    /\ free = <<>>
    /\ Len(slots) < MaxSlots
    /\ slots' = Append(slots, [gen |-> 0, val |-> v])
    /\ issued' = issued \cup {NextHandle}
    /\ UNCHANGED free

(* Mutant of Emptied: the generation stays.                                *)
EmptiedInPlace(slot) == [gen |-> slot.gen, val |-> NoValue]

(* The generation moves on with wrapping_add, and the slot is pushed on    *)
(* the free list.                                                          *)
Emptied(slot) == [gen |-> (slot.gen + 1) % GenCount, val |-> NoValue]
Freed(h) == Append(free, h.index)

(* Arena::remove: only a handle of the slot's generation takes the value;  *)
(* a stale one answers None and changes nothing.                           *)
Remove(h) ==
    /\ Contains(h)
    /\ slots[h.index].gen < MaxRecycles
    /\ slots' = [slots EXCEPT ![h.index] = Emptied(@)]
    /\ free' = Freed(h)
    /\ UNCHANGED issued

Next == \/ \E v \in Value : InsertReused(v) \/ InsertFresh(v)
        \/ \E h \in issued : Remove(h)

Spec == Init /\ [][Next]_vars
----------------------------------------------------------------------------
LiveHandles == {h \in issued : Contains(h)}

(* The free list names every empty slot exactly once: an index listed      *)
(* twice would hand one slot to two values, one not listed would leak it.  *)
FreeListExact ==
    /\ \A i, j \in DOMAIN free : free[i] = free[j] => i = j
    /\ \A i \in DOMAIN slots :
         slots[i].val = NoValue <=> \E j \in DOMAIN free : free[j] = i
    /\ \A j \in DOMAIN free : free[j] \in DOMAIN slots

(* A slot is empty or its current handle has been issued, and no handle of *)
(* a later generation has been.                                            *)
IssuedUpToNow ==
    /\ \A i \in DOMAIN slots : slots[i].gen <= MaxRecycles
    /\ \A i \in DOMAIN slots :
         slots[i].val # NoValue => [index |-> i, gen |-> slots[i].gen] \in issued
    /\ \A h \in issued :
         /\ h.index \in DOMAIN slots
         /\ h.gen <= slots[h.index].gen
         /\ slots[h.index].val = NoValue => h.gen < slots[h.index].gen

(* The inductive invariant of the arena.                                   *)
IInv == TypeOK /\ FreeListExact /\ IssuedUpToNow

(* The arena implements the promise of HandleStore: whatever order of      *)
(* insertions and removals reuses its slots, no handle is issued twice and *)
(* a removed value's handle resolves to nothing for ever.                  *)
Handles == INSTANCE HandleStore
             WITH store <- [h \in LiveHandles |-> Get(h)]
RefinesHandleStore == Handles!Spec
=============================================================================
