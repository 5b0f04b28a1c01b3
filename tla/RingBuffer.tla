----------------------------- MODULE RingBuffer -----------------------------
(***************************************************************************)
(* aggregator.RingBuffer, which keeps the recent packets, the throughput   *)
(* history and the anomalies of every snapshot.                            *)
(***************************************************************************)
EXTENDS Integers, Sequences

CONSTANTS
    Capacity,    \* NewRingBuffer(capacity); 0 makes a ring that keeps nothing
    Item,        \* what is pushed
    Unset        \* the zero value a slot holds before its first item

ASSUME RingAssumption == Capacity \in Nat

VARIABLES
    data,        \* slots 0 .. Capacity - 1
    head,        \* the slot the next item goes to
    size         \* slots in use

slots == <<data, head, size>>

Slot == 0..(Capacity - 1)

RInit ==
    /\ data = [i \in Slot |-> Unset]
    /\ head = 0
    /\ size = 0

\* Mutant of Push: the size is not capped.
PushUncapped(item) ==
    /\ Capacity # 0
    /\ data' = [data EXCEPT ![head] = item]
    /\ head' = (head + 1) % Capacity
    /\ size' = IF size <= Capacity THEN size + 1 ELSE size

Push(item) ==
    /\ Capacity # 0
    /\ data' = [data EXCEPT ![head] = item]
    /\ head' = (head + 1) % Capacity
    /\ size' = IF size < Capacity THEN size + 1 ELSE size

\* Mutant of Slice: a full ring is copied from slot 0.
SliceFromZero == [i \in 1..size |-> data[i - 1]]

\* A full ring is two copies: from head to the end, then from 0 to head.
Slice ==
    IF size < Capacity
    THEN [i \in 1..size |-> data[i - 1]]
    ELSE [i \in 1..size |-> IF i <= Capacity - head
                            THEN data[head + i - 1]
                            ELSE data[i - 1 - (Capacity - head)]]

RNext == \E item \in Item : Push(item)

RSpec == RInit /\ [][RNext]_slots
-----------------------------------------------------------------------------
\* The type invariant: until the ring is full, the head is behind the last
\* item, so the slots beyond it are the unset ones.
RingOK ==
    /\ data \in [Slot -> Item \union {Unset}]
    /\ head \in Nat /\ (Capacity # 0 => head \in Slot)
    /\ size \in 0..Capacity
    /\ size < Capacity => head = size
    /\ \A i \in Slot : i < size => data[i] \in Item

W == INSTANCE Window WITH window <- Slice

(***************************************************************************)
(* Slice is always the window of the last items pushed, oldest first: no   *)
(* push loses, repeats or reorders an item, on the way up, at the moment   *)
(* the ring fills, or after the head has wrapped any number of times.      *)
(***************************************************************************)
ImplementsWindow == W!WSpec
=============================================================================
