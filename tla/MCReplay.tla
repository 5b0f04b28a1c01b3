------------------------------ MODULE MCReplay ------------------------------
(***************************************************************************)
(* Recordings of a few packets, one of them after a long idle period.     *)
(***************************************************************************)
EXTENDS Replay

FourPackets == <<0, 3, 3, 10>>
TwoPackets == <<0, 7>>
=============================================================================
