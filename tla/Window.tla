------------------------------- MODULE Window -------------------------------
(***************************************************************************)
(* What a ring buffer promises its readers: the last items pushed, at most *)
(* Capacity of them, oldest first.                                         *)
(***************************************************************************)
EXTENDS Naturals, Sequences

CONSTANTS Capacity, Item

VARIABLE window

WInit == window = <<>>

WPush(item) ==
    IF Len(window) < Capacity
    THEN window' = Append(window, item)
    ELSE window' = IF Capacity = 0 THEN <<>> ELSE Append(Tail(window), item)

WSpec == WInit /\ [][\E item \in Item : WPush(item)]_window
=============================================================================
