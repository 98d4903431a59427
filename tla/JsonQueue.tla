----------------------------- MODULE JsonQueue ------------------------------
(***************************************************************************)
(* The JsonQueue connector: a std::queue that the thread of IrpManager     *)
(* fills and the threads of the TCP clients empty.                         *)
(*                                                                         *)
(* `std::scoped_lock(m_Lock);` declares a lock of that name over no mutex, *)
(* so that IrpCallback and Pop are not ordered.  Their race is what the    *)
(* deque under the queue makes of it: a ring of slots, the offset of the   *)
(* first and a size, both of which each side reads, changes and writes     *)
(* back, so that a write may undo what the other side did in between.      *)
(***************************************************************************)
EXTENDS Integers, Sequences

CONSTANTS MaxIrps,  \* bound: how many IRPs are captured
          MaxSlots, \* bound: how many slots the deque has
          None      \* an empty std::unique_ptr

ASSUME JsonQueueAssumption ==
    /\ MaxIrps \in Nat
    /\ MaxSlots \in Nat \ {0}
    /\ None \notin Nat

Slots == 0 .. MaxSlots - 1
Irps == 1 .. MaxIrps  \* numbered in the order of their capture

(* What a Pop moved out, and the size and the offset it has read.           *)
Reads == [irp : Irps \cup {None}, size : Nat, first : Nat]

VARIABLES
    slot,      \* the elements of the deque
    first,     \* the offset of its first element
    size,      \* how many it has
    captured,  \* how many IRPs IrpCallback was given
    inserting  \* the size and the offset a push under way has read, or None

queueVars == <<slot, first, size, captured, inserting>>

QueueInit ==
    /\ slot = [n \in Slots |-> None]
    /\ first = 0
    /\ size = 0
    /\ captured = 0
    /\ inserting = None
-----------------------------------------------------------------------------
(* IrpCallback: push() reads where the queue ends and puts the IRP there... *)
Push ==
    /\ inserting = None
    /\ captured < MaxIrps
    /\ first + size \in Slots
    /\ captured' = captured + 1
    /\ slot' = [slot EXCEPT ![first + size] = captured + 1]
    /\ inserting' = [size |-> size, first |-> first]
    /\ UNCHANGED <<first, size>>

(* ... and then counts it.                                                  *)
PushCount ==
    /\ inserting # None
    /\ size' \in {size + 1, inserting.size + 1}
    /\ first' \in {first, inserting.first}
    /\ inserting' = None
    /\ UNCHANGED <<slot, captured>>

(* Pop: what empty() and front() see; a slot that was never filled holds    *)
(* nothing.  Mutation: nobody asks whether there is an IRP.                 *)
EmptyNotAsked == FALSE
Empty == size = 0
Front == IF first \in Slots THEN slot[first] ELSE None

(* pop(), after the IRP was moved out; an emptied deque starts again at its *)
(* first slot.  `seen` is what was read of the deque.                       *)
PopFront(seen) ==
    /\ slot' = [slot EXCEPT ![seen.first] = None, ![first] = None]
    /\ size' \in {size - 1, seen.size - 1}
    /\ IF size' = 0 THEN first' = 0 ELSE first' \in {first + 1, seen.first + 1}
    /\ UNCHANGED <<captured, inserting>>

(* The deque never counts more than was captured, nor less than nothing,    *)
(* whatever the races do to it.                                             *)
QueueTypeOK ==
    /\ slot \in [Slots -> Irps \cup {None}]
    /\ first \in Nat
    /\ size \in 0 .. captured
    /\ captured \in 0 .. MaxIrps
    /\ inserting \in {None} \cup [size : 0 .. captured, first : Nat]
=============================================================================
