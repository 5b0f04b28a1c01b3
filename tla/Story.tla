-------------------------------- MODULE Story --------------------------------
(***************************************************************************)
(* narrative.StoryTracker: one bounded timeline per host, written by the   *)
(* aggregator and read by the story panel and the report.                  *)
(***************************************************************************)
EXTENDS Naturals, Sequences, Functions, SequencesExt

CONSTANTS NoHost, StoryCap   \* StoryCap: 50 in the code

(***************************************************************************)
(* Per host its events, oldest first: their kind and time, the other end   *)
(* of the connection, and the addresses in the text of their detail.       *)
(***************************************************************************)
VARIABLES timelines

\* Mutant of AddEvent: one event too many is kept.
AddEventOffByOne(tl, e) ==
    Append(IF Len(tl) > StoryCap THEN Tail(tl) ELSE tl, e)

AddEvent(tl, e) ==
    Append(IF Len(tl) >= StoryCap THEN Tail(tl) ELSE tl, e)

\* The timeline after a sequence of events.
AddEvents(tl, es) ==
    LET after[n \in 0..Len(es)] == IF n = 0 THEN tl ELSE AddEvent(after[n - 1], es[n])
    IN  after[Len(es)]

PacketEvents(p) ==
    LET Event(kind) == [kind |-> kind, time |-> p.time, inText |-> {},
                        peer |-> IF kind = "DNS_QUERY" THEN NoHost ELSE p.dst]
        If(cond, kind) == IF cond THEN <<Event(kind)>> ELSE <<>>
    IN  If(p.proto = "DNS" /\ p.query # "", "DNS_QUERY")
        \o If(p.proto = "TCP" /\ "SYN" \in p.flags /\ "ACK" \notin p.flags, "TCP_HANDSHAKE")
        \o If(p.proto = "TCP" /\ "FIN" \in p.flags, "TCP_CLOSE")
        \o If(p.proto = "TCP" /\ "RST" \in p.flags, "TCP_RESET")

\* The milestones of host h among alerts, in their order.
AlertEvents(alerts, h) ==
    LET Event(a) == [kind |-> "SECURITY_ALERT", time |-> a.time, inText |-> a.inText,
                     peer |-> NoHost]
    IN  FlattenSeq([i \in DOMAIN alerts |->
                      IF alerts[i].host = h THEN <<Event(alerts[i])>> ELSE <<>>])

\* RecordPacket for p, then RecordAnomaly for each alert it raised.
Record(p, alerts) ==
    timelines' = [h \in DOMAIN timelines |->
                    AddEvents(timelines[h], (IF p.src = h THEN PacketEvents(p) ELSE <<>>)
                                            \o AlertEvents(alerts, h))]

\* RecordAnomaly for each alert of a tick.
RecordAlerts(alerts) ==
    timelines' = [h \in DOMAIN timelines |->
                    AddEvents(timelines[h], AlertEvents(alerts, h))]

\* The last line of GenerateNarrative, for a host that has a timeline.
SaysNoAnomaly(h) ==
    timelines[h] # <<>> /\ \A e \in Range(timelines[h]) : e.kind # "SECURITY_ALERT"

\* The addresses that GenerateNarrative writes out.  formatIP hides the host
\* and its peers behind aliases; the detail of an alert is printed as it is.
Disclosed(h, redact) ==
    LET events == Range(timelines[h])
        shown == IF redact THEN {} ELSE {h} \union {e.peer : e \in events}
    IN  (shown \union UNION {e.inText : e \in events}) \ {NoHost}
=============================================================================
