------------------------------ MODULE Detector ------------------------------
(***************************************************************************)
(* anomaly.Detector: the port scan window of every source, the flows that  *)
(* were already flagged, and the events one packet raises.                 *)
(*                                                                         *)
(* A packet is a record of src, dst, proto, sport, port (the one it goes   *)
(* to), len, flags, query and time.  query is "" or "plain", or "odd" for  *)
(* a name that is too long, has too many labels or too high an entropy.    *)
(***************************************************************************)
EXTENDS Integers, Sequences, FiniteSets

CONSTANTS
    NoHost,      \* an address the packet does not have
    ScanThreshold, ScanWindow, TransferThreshold

VARIABLES
    portScanTrack,   \* per source: (port, time) of its recent packets, as a set
    flaggedFlows     \* flows whose large transfer has been reported

FlowKey(p) == <<p.src, p.dst, p.sport, p.port, p.proto>>
HasFlow(p) == p.src # NoHost /\ p.dst # NoHost

Watched(p) == p.src # NoHost /\ p.proto \in {"TCP", "UDP"}

\* Mutant of Entries: an entry exactly as old as the window stays.
EntriesInclusive(p) ==
    {e \in portScanTrack[p.src] : e.time >= p.time - ScanWindow}
    \union {[port |-> p.port, time |-> p.time]}

\* Expired entries are dropped when the next packet of the source comes.  Only
\* the ports among the entries are ever asked for, never their order.
Entries(p) ==
    {e \in portScanTrack[p.src] : e.time > p.time - ScanWindow}
    \union {[port |-> p.port, time |-> p.time]}

IsPortScan(p) ==
    /\ Watched(p)
    /\ Cardinality({e.port : e \in Entries(p)}) >= ScanThreshold

\* Mutant of IsLargeTransfer: every further packet of the flow is reported too.
IsLargeTransferAgain(p, bytes) ==
    HasFlow(p) /\ bytes >= TransferThreshold

\* bytes: what the packet's flow has sent, this packet included.
IsLargeTransfer(p, bytes) ==
    HasFlow(p) /\ bytes >= TransferThreshold /\ FlowKey(p) \notin flaggedFlows

IsSuspiciousDNS(p) == p.src # NoHost /\ p.proto = "DNS" /\ p.query = "odd"

Events(p, bytes) ==
    LET Event(kind) == [kind |-> kind, host |-> p.src, time |-> p.time,
                        inText |-> IF kind = "LARGE_TRANSFER" THEN {p.src, p.dst} ELSE {}]
    IN  (IF IsPortScan(p) THEN <<Event("PORT_SCAN")>> ELSE <<>>)
        \o (IF IsLargeTransfer(p, bytes) THEN <<Event("LARGE_TRANSFER")>> ELSE <<>>)
        \o (IF IsSuspiciousDNS(p) THEN <<Event("SUSPICIOUS_DNS")>> ELSE <<>>)

\* An alert starts the window of its source afresh.
CheckPacket(p, bytes) ==
    /\ portScanTrack' =
         IF Watched(p)
         THEN [portScanTrack EXCEPT ![p.src] = IF IsPortScan(p) THEN {} ELSE Entries(p)]
         ELSE portScanTrack
    /\ flaggedFlows' = IF IsLargeTransfer(p, bytes)
                       THEN flaggedFlows \union {FlowKey(p)} ELSE flaggedFlows
=============================================================================
