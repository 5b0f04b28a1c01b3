------------------------------ MODULE MCStats ------------------------------
(***************************************************************************)
(* Traffic shapes for the statistics, the detector and the story.          *)
(***************************************************************************)
EXTENDS Stats

CONSTANTS a, b

TwoHosts == {a, b}
JustA == {a}
Nobody == {}

\* The source port tells flows apart, and nothing else.
Flow(src, dst, proto, sport, port, len, flags, query) ==
    [src |-> src, dst |-> dst, proto |-> proto, sport |-> sport, port |-> port,
     len |-> len, flags |-> flags, query |-> query]
Shape(src, dst, proto, port, len, flags, query) ==
    Flow(src, dst, proto, 9, port, len, flags, query)

\* TCP both ways, a name that looks odd, and a frame without addresses.
MixedTraffic ==
    {Shape(a, b, "TCP", 1, 1, {"SYN"}, ""),
     Shape(b, a, "TCP", 1, 2, {"ACK", "FIN"}, ""),
     Shape(a, b, "DNS", 2, 1, {}, "odd"),
     Shape(NoHost, NoHost, "ARP", 0, 1, {}, "")}

\* Two sources and three ports, for the port scan window.
ScanTraffic ==
    {Shape(a, b, "TCP", port, 1, {}, "") : port \in 1..3}
    \union {Shape(b, a, "UDP", 1, 1, {}, "")}

\* All of the kinds at once: a source with two ports and both transports, a
\* connection reset, flows that reach the threshold, two of them between the
\* same hosts and to the same port.
AllTraffic ==
    {Shape(a, b, "TCP", 1, 1, {"SYN"}, ""),
     Flow(a, b, "UDP", 8, 2, 2, {}, ""),
     Shape(a, b, "UDP", 2, 2, {}, ""),
     Shape(b, a, "TCP", 1, 1, {"RST"}, ""),
     Shape(a, b, "DNS", 2, 1, {}, "odd"),
     Shape(NoHost, NoHost, "ARP", 0, 1, {}, "")}

\* Ordinary names, and one that looks odd.
NameTraffic ==
    {Shape(a, b, "DNS", 2, 1, {}, query) : query \in {"plain", "odd"}}
=============================================================================
