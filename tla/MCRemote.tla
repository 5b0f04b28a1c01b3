------------------------------ MODULE MCRemote ------------------------------
(***************************************************************************)
(* One browser that reconnects, or two that share the connections.         *)
(***************************************************************************)
EXTENDS Remote

CONSTANTS v1, v2

OneViewer == {v1}
TwoViewers == {v1, v2}
=============================================================================
