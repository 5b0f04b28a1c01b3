----------------------------- MODULE MCTracker -----------------------------
(***************************************************************************)
(* Two ports, two processes, two sockets; on each of the three systems.    *)
(***************************************************************************)
EXTENDS Tracker, TLC

CONSTANTS p1, p2, firefox, sshd

TwoPorts == {p1, p2}
TwoPids == {firefox, sshd}
ThreePlatforms == {"linux", "windows", "darwin"}
ThreeProtos == {"tcp", "udp", "tcp6"}
OnePid == {sshd}
Nobody == {}
PortSymmetry == Permutations(TwoPorts)
=============================================================================
