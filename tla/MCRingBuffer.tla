---------------------------- MODULE MCRingBuffer ----------------------------
(***************************************************************************)
(* A ring of four slots and three different items.                        *)
(***************************************************************************)
EXTENDS RingBuffer

CONSTANTS a, b, c

ThreeItems == {a, b, c}
=============================================================================
