-------------------------------- MODULE Stats --------------------------------
(***************************************************************************)
(* aggregator.StatsManager: what AddPacket, TickSecond and PublishSnapshot *)
(* do to the statistics, the detector and the story, all three owned by    *)
(* the aggregator goroutine, and what a reader of the snapshot sees.       *)
(*                                                                         *)
(* The rings are windows of the last items pushed (module RingBuffer).     *)
(* Which deviations ObserveHost finds depends on floating-point means and  *)
(* is left open: a tick may raise an alert for the packets of any host in  *)
(* Deviating, and one for its bytes.  Packets carry the time of their      *)
(* capture; workers overtake each other and a replay can be wound back, so *)
(* it may be any.  The alerts of a tick carry the time of the wall clock.  *)
(***************************************************************************)
EXTENDS Integers, Sequences, FiniteSets, Functions, SequencesExt

CONSTANTS
    Hosts, NoHost,
    Shapes,      \* the packets that may come, without their time
    MaxPackets, MaxTicks, MaxTime,  \* bounds
    Deviating,   \* hosts in which ticks may find behavioural deviations
    ScanThreshold, ScanWindow, TransferThreshold,
    StoryCap, RecentCap, ThroughputCap, AnomaliesCap

\* The window is 10 s and the cap 50; the rest can be set on the command line.
ASSUME StatsAssumption ==
    /\ NoHost \notin Hosts /\ IsFiniteSet(Hosts) /\ Deviating \subseteq Hosts
    /\ Shapes \subseteq [src : Hosts \union {NoHost}, dst : Hosts \union {NoHost},
                        proto : STRING, sport : Nat, port : Nat, len : Nat,
                        flags : SUBSET STRING, query : STRING]
    /\ MaxPackets \in Nat /\ MaxTicks \in Nat /\ MaxTime \in Nat
    /\ ScanThreshold \in Int /\ ScanWindow \in Nat \ {0}
    /\ TransferThreshold \in Nat
    /\ StoryCap \in Nat \ {0}
    /\ RecentCap \in Nat /\ ThroughputCap \in Nat /\ AnomaliesCap \in Nat

VARIABLES
    total, totalBytes, protoCounts, talkers, flows,
    currentSecBytes, throughput, recent, anomalies,
    portScanTrack, flaggedFlows, timelines,
    published,   \* the snapshot behind publishedPtr, but for its story
    log,         \* history: every packet counted
    alerts,      \* history: every alert, with the packets counted by then
    ticks,       \* history: how many packets were counted by each tick
    observed,    \* history: packets/s given to ObserveHost by the last tick
    storyThen    \* history: the timelines when the snapshot was published

INSTANCE Detector
INSTANCE Story

vars == <<total, totalBytes, protoCounts, talkers, flows, currentSecBytes,
          throughput, recent, anomalies, portScanTrack, flaggedFlows, timelines,
          published, log, alerts, ticks, observed, storyThen>>

Protocols == {p.proto : p \in Shapes}
FlowKeys == {FlowKey(p) : p \in {q \in Shapes : HasFlow(q)}}

\* RingBuffer.Push of each item in turn, then Slice.
KeepLast(s, n) == IF Len(s) <= n THEN s ELSE SubSeq(s, Len(s) - n + 1, Len(s))

\* What PublishSnapshot copies.
Current ==
    [total |-> total, bytes |-> totalBytes, proto |-> protoCounts,
     talkers |-> talkers, flows |-> flows, throughput |-> throughput,
     recent |-> recent, anomalies |-> anomalies]

NoTraffic == [sent |-> 0, recv |-> 0, bytesSent |-> 0, bytesRecv |-> 0]

Init ==
    /\ total = 0 /\ totalBytes = 0 /\ currentSecBytes = 0
    /\ protoCounts = [x \in Protocols |-> 0]
    /\ talkers = [h \in Hosts |-> NoTraffic]
    /\ flows = [k \in FlowKeys |-> [packets |-> 0, bytes |-> 0]]
    /\ throughput = <<>> /\ recent = <<>> /\ anomalies = <<>>
    /\ portScanTrack = [h \in Hosts |-> {}]
    /\ flaggedFlows = {}
    /\ timelines = [h \in Hosts |-> <<>>]
    /\ published = Current   \* NewStatsManager publishes an empty snapshot
    /\ log = <<>> /\ alerts = <<>> /\ ticks = <<>>
    /\ observed = [h \in Hosts |-> 0]
    /\ storyThen = timelines

\* Alerts as history keeps them: with the packets counted when they came.
Dated(events, n) ==
    [i \in DOMAIN events |-> [kind |-> events[i].kind, host |-> events[i].host,
                              time |-> events[i].time, at |-> n]]

AddPacket(p) ==
    LET bytes == IF HasFlow(p) THEN flows[FlowKey(p)].bytes + p.len ELSE 0
        events == Events(p, bytes)
        Sent(h) == IF p.src = h THEN 1 ELSE 0
        Recv(h) == IF p.dst = h THEN 1 ELSE 0
    IN  /\ total' = total + 1
        /\ totalBytes' = totalBytes + p.len
        /\ currentSecBytes' = currentSecBytes + p.len
        /\ protoCounts' = [protoCounts EXCEPT ![p.proto] = @ + 1]
        /\ talkers' = [h \in Hosts |->
                         [sent |-> talkers[h].sent + Sent(h),
                          recv |-> talkers[h].recv + Recv(h),
                          bytesSent |-> talkers[h].bytesSent + Sent(h) * p.len,
                          bytesRecv |-> talkers[h].bytesRecv + Recv(h) * p.len]]
        /\ flows' = IF HasFlow(p)
                    THEN [flows EXCEPT ![FlowKey(p)] =
                            [packets |-> @.packets + 1, bytes |-> bytes]]
                    ELSE flows
        /\ recent' = KeepLast(Append(recent, p), RecentCap)
        /\ CheckPacket(p, bytes)
        /\ anomalies' = KeepLast(anomalies \o events, AnomaliesCap)
        /\ Record(p, events)
        /\ log' = Append(log, p)
        /\ alerts' = alerts \o Dated(events, total + 1)
        /\ UNCHANGED <<throughput, published, ticks, observed, storyThen>>

\* A packet of some shape that comes at time t.
Stamped(shape, t) ==
    [src |-> shape.src, dst |-> shape.dst, proto |-> shape.proto,
     sport |-> shape.sport, port |-> shape.port, len |-> shape.len,
     flags |-> shape.flags, query |-> shape.query, time |-> t]

Packet ==
    \E shape \in Shapes, t \in 0..MaxTime :
        /\ total < MaxPackets
        /\ AddPacket(Stamped(shape, t))

\* Mutant of Publish: the talkers of the snapshot before are shown again.
PublishOldTalkers ==
    /\ published' = [Current EXCEPT !.talkers = published.talkers]
    /\ storyThen' = timelines
    /\ UNCHANGED <<total, totalBytes, protoCounts, talkers, flows, currentSecBytes,
                   throughput, recent, anomalies, portScanTrack, flaggedFlows,
                   timelines, log, alerts, ticks, observed>>

\* Mutant of Publish: the alerts of the snapshot before are shown again.
PublishOldAlerts ==
    /\ published' = [Current EXCEPT !.anomalies = published.anomalies]
    /\ storyThen' = timelines
    /\ UNCHANGED <<total, totalBytes, protoCounts, talkers, flows, currentSecBytes,
                   throughput, recent, anomalies, portScanTrack, flaggedFlows,
                   timelines, log, alerts, ticks, observed>>

Publish ==
    /\ published' = Current
    /\ storyThen' = timelines
    /\ UNCHANGED <<total, totalBytes, protoCounts, talkers, flows, currentSecBytes,
                   throughput, recent, anomalies, portScanTrack, flaggedFlows,
                   timelines, log, alerts, ticks, observed>>

(***************************************************************************)
(* The second's tick: TickSecond, which hands every talker to ObserveHost, *)
(* and the PublishSnapshot that follows it in the same turn of the loop.   *)
(***************************************************************************)
Talker(h) == talkers[h].sent + talkers[h].recv > 0

\* The talkers are a map, so their turns come in any order; in its turn a host
\* gets no alert, one, or one for its packets and one for its bytes.
AlertOrders(hosts) ==
    {order \in BoundedSeq(hosts, 2 * Cardinality(hosts)) :
        \A i, j \in DOMAIN order : i < j /\ order[i] = order[j] => j = i + 1}

\* Mutant of RollSecond: the bucket is not emptied.
RollSecondNoReset ==
    /\ throughput' = KeepLast(Append(throughput, currentSecBytes), ThroughputCap)
    /\ UNCHANGED currentSecBytes

RollSecond ==
    /\ throughput' = KeepLast(Append(throughput, currentSecBytes), ThroughputCap)
    /\ currentSecBytes' = 0

Tick ==
    /\ Len(ticks) < MaxTicks
    /\ RollSecond
    /\ observed' = [h \in Hosts |-> talkers[h].sent + talkers[h].recv]
    /\ \E order \in AlertOrders({h \in Deviating : Talker(h)}), now \in 0..MaxTime :
           LET events == [i \in DOMAIN order |->
                            [kind |-> "BEHAVIORAL_DEVIATION", host |-> order[i],
                             time |-> now, inText |-> {}]]
           IN  /\ anomalies' = KeepLast(anomalies \o events, AnomaliesCap)
               /\ alerts' = alerts \o Dated(events, total)
               /\ RecordAlerts(events)
    /\ published' = [Current EXCEPT !.throughput = throughput', !.anomalies = anomalies']
    /\ storyThen' = timelines'
    /\ ticks' = Append(ticks, total)
    /\ UNCHANGED <<total, totalBytes, protoCounts, talkers, flows, recent,
                   portScanTrack, flaggedFlows, log>>

Next == Packet \/ Publish \/ Tick

Spec == Init /\ [][Next]_vars
-----------------------------------------------------------------------------
Indices(Test(_), s) == {i \in DOMAIN s : Test(s[i])}

\* The bytes of the packets at the positions is.
Bytes(s, is) ==
    LET upto[n \in 0..Len(s)] ==
          IF n = 0 THEN 0 ELSE upto[n - 1] + (IF n \in is THEN s[n].len ELSE 0)
    IN  upto[Len(s)]

\* The statistics a list of packets has, each computed from the list alone.
TalkersOf(s) ==
    [h \in Hosts |->
        LET out == Indices(LAMBDA p : p.src = h, s)
            in  == Indices(LAMBDA p : p.dst = h, s)
        IN  [sent |-> Cardinality(out), recv |-> Cardinality(in),
             bytesSent |-> Bytes(s, out), bytesRecv |-> Bytes(s, in)]]
FlowsOf(s) ==
    [k \in FlowKeys |->
        LET of == Indices(LAMBDA p : HasFlow(p) /\ FlowKey(p) = k, s)
        IN  [packets |-> Cardinality(of), bytes |-> Bytes(s, of)]]

(***************************************************************************)
(* A snapshot is the statistics of a prefix of the traffic: all its parts, *)
(* kept in separate maps and rings and published at once, were computed    *)
(* from the same packets, the first published.total of them.               *)
(***************************************************************************)
SnapshotIsPrefix ==
    LET prefix == SubSeq(log, 1, published.total)
    IN  /\ published.bytes = Bytes(prefix, DOMAIN prefix)
        /\ \A x \in Protocols :
             published.proto[x] = Cardinality(Indices(LAMBDA p : p.proto = x, prefix))
        /\ published.talkers = TalkersOf(prefix)
        /\ published.flows = FlowsOf(prefix)
        /\ published.recent = KeepLast(prefix, RecentCap)

(***************************************************************************)
(* The alerts of a snapshot are the newest of those raised by the packets  *)
(* it counts, the first k of all: none is missing, none belongs to a later *)
(* packet.                                                                 *)
(***************************************************************************)
SnapshotAlerts ==
    LET Shown(s) == [i \in DOMAIN s |-> <<s[i].kind, s[i].host>>]
    IN  \E k \in 0..Len(alerts) :
          /\ \A i \in DOMAIN alerts : i <= k <=> alerts[i].at <= published.total
          /\ Shown(published.anomalies) = KeepLast(SubSeq(Shown(alerts), 1, k), AnomaliesCap)

(***************************************************************************)
(* Every entry of the throughput history is the bytes of the packets of    *)
(* one second, the last seconds are kept, and what is not in it yet is in  *)
(* the current bucket: no byte falls between two seconds or counts twice.  *)
(***************************************************************************)
ThroughputExact ==
    LET Start(k) == IF k = 1 THEN 0 ELSE ticks[k - 1]
        perSecond == [k \in DOMAIN ticks |-> Bytes(log, (Start(k) + 1)..ticks[k])]
        last == IF ticks = <<>> THEN 0 ELSE ticks[Len(ticks)]
    IN  /\ throughput = KeepLast(perSecond, ThroughputCap)
        /\ currentSecBytes = Bytes(log, (last + 1)..total)

AlertsAt(kind, n) == {i \in DOMAIN alerts : alerts[i].kind = kind /\ alerts[i].at = n}

\* The packets that count against the source of packet n: those of the same
\* source since its last port scan alert that were inside the window of every
\* later one, so of the window that ends at the latest time among them.
Since(n) ==
    LET same(m) == {i \in 1..m : Watched(log[i]) /\ log[i].src = log[n].src}
    IN  {i \in same(n) :
           /\ \A j \in same(n) : j > i => log[i].time > log[j].time - ScanWindow
           /\ \A j \in same(n - 1) : AlertsAt("PORT_SCAN", j) # {} => j < i}

(***************************************************************************)
(* The detector's list of recent ports, pruned only when a packet of the   *)
(* source comes, decides exactly as the definition over the whole traffic: *)
(* a packet raises a port scan alert iff its source has reached the        *)
(* threshold of different ports, since its last alert, with packets none   *)
(* of which had left the window by then, in whatever order of their times  *)
(* the packets come.                                                       *)
(***************************************************************************)
ScanExact ==
    \A n \in DOMAIN log :
        Watched(log[n]) =>
            (AlertsAt("PORT_SCAN", n) # {}
               <=> Cardinality({log[i].port : i \in Since(n)}) >= ScanThreshold)

\* A large transfer is reported once per flow, by the packet that takes the
\* flow to the threshold.
TransferOnce ==
    \A n \in DOMAIN log :
        LET same(m) == {i \in 1..m : HasFlow(log[i]) /\ FlowKey(log[i]) = FlowKey(log[n])}
            Reached(m) == Bytes(log, same(m)) >= TransferThreshold
        IN  HasFlow(log[n]) =>
              (AlertsAt("LARGE_TRANSFER", n) # {}
                 <=> Reached(n) /\ \A m \in same(n - 1) : ~Reached(m))

(***************************************************************************)
(* checkPortScan "checks if a single source IP contacts > N distinct ports *)
(* within the sliding window" (detect.go:85): an alert means that many     *)
(* ports in the seconds before the packet.                                 *)
(***************************************************************************)
ScanWithinWindow ==
    \A n \in DOMAIN log :
        AlertsAt("PORT_SCAN", n) # {} =>
            Cardinality({log[i].port : i \in
                {j \in 1..n : /\ log[j].src = log[n].src
                              /\ log[j].time > log[n].time - ScanWindow
                              /\ log[j].time <= log[n].time}}) >= ScanThreshold

\* What host h did that its story tells, in order: of each of its packets the
\* milestones, then the alerts against it until the next packet came.
Milestones(h) ==
    LET Told(es) == [i \in DOMAIN es |-> <<es[i].kind, es[i].time>>]
        Did(n) == IF log[n].src = h THEN Told(PacketEvents(log[n])) ELSE <<>>
        Against(n) ==
          FlattenSeq([i \in DOMAIN alerts |->
                        IF alerts[i].host = h /\ alerts[i].at = n
                        THEN <<<<"SECURITY_ALERT", alerts[i].time>>>> ELSE <<>>])
    IN  FlattenSeq([n \in DOMAIN log |-> Did(n) \o Against(n)])

(***************************************************************************)
(* The timeline of a host, filled from packets by one call and from alerts *)
(* by another and cut at its cap, is the newest StoryCap of the host's     *)
(* milestones, in the order in which they happened.                        *)
(***************************************************************************)
StoryIsWindow ==
    \A h \in Hosts :
        [i \in DOMAIN timelines[h] |-> <<timelines[h][i].kind, timelines[h][i].time>>]
            = KeepLast(Milestones(h), StoryCap)

\* A Snapshot is an "immutable copy of aggregator state" (stats.go:30): the
\* story it shows stays what it was when the snapshot was published.
SnapshotStoryFixed == timelines = storyThen

(***************************************************************************)
(* The rate ObserveHost is given and reports as "Packets/s rate"           *)
(* (baseline.go:103) is the packets of the host in the second that ends.   *)
(***************************************************************************)
RateIsPerSecond ==
    LET k == Len(ticks)
        start == IF k <= 1 THEN 0 ELSE ticks[k - 1]
    IN  k > 0 => \A h \in Hosts :
          observed[h] = Cardinality({i \in (start + 1)..ticks[k] : log[i].src = h})
                        + Cardinality({i \in (start + 1)..ticks[k] : log[i].dst = h})

\* "No security anomalies flagged for this host" (story.go): the narrative
\* says so only of a host that none was flagged for.
NarrativeTruthful ==
    \A h \in Hosts : SaysNoAnomaly(h) => \A i \in DOMAIN alerts : alerts[i].host # h

\* -redact-ips "Anonymize/redact IP addresses in narrative summaries for
\* privacy" (main.go:98): with it a narrative writes out no address.
RedactionComplete == \A h \in Hosts : Disclosed(h, TRUE) = {}
=============================================================================
