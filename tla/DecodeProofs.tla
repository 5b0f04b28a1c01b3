---------------------------- MODULE DecodeProofs ----------------------------
(***************************************************************************)
(* The decoder hides no probe and no indicator, for any traffic and feeds, *)
(* and the fingerprints of any hello are those of what the client said.    *)
(***************************************************************************)
EXTENDS Decode, SequenceLemmas, TLAPS, SequenceTheorems, FiniteSetTheorems

-----------------------------------------------------------------------------
(* The engine is what the feeds hold, and does not change once the workers *)
(* run, so what a worker holds is what the decoder still makes of it.      *)

Feeds == {DefaultFeed} \union ({feed} \ {None, Broken})

Loaded ==
    /\ exactIPs = UNION {{Trimmed(t) : t \in f.ips} : f \in Feeds}
    /\ cidrs = UNION {f.blocks \ {NoBlock} : f \in Feeds}
    /\ c2Domains = UNION {{Lower(d) : d \in f.domains} : f \in Feeds}

Decoded ==
    /\ packet # None => started /\ packet \in Packets
    /\ packet # None => panicked = Panics(packet)
    /\ packet # None /\ ~panicked => info = DecodePacket(packet)
    /\ feed \in CustomFeeds \union {None, Broken}
    /\ Loaded

LEMMA LoadingAddsFeed ==
  ASSUME Decoded, LoadCustomFeed
  PROVE  Decoded'
<1>1. PICK f \in CustomFeeds : LoadFeed(f) /\ feed' = f
  BY DEF LoadCustomFeed
<1>2. ~started /\ feed = None /\ UNCHANGED <<panicked, started, packet, info>>
  BY DEF LoadCustomFeed
<1>3. packet' = None
  BY <1>2 DEF Decoded
<1>4. f # None /\ f # Broken
  BY DecodeAssumption DEF DecodeAssumption
<1>5. Feeds = {DefaultFeed} /\ Feeds' = {DefaultFeed, f}
  BY <1>1, <1>2, <1>4 DEF Feeds
<1>6. Loaded'
  <2>1. exactIPs' = UNION {{Trimmed(t) : t \in g.ips} : g \in {DefaultFeed, f}}
    BY <1>1, <1>5 DEF Decoded, Loaded, LoadFeed
  <2>2. cidrs' = UNION {g.blocks \ {NoBlock} : g \in {DefaultFeed, f}}
    BY <1>1, <1>5 DEF Decoded, Loaded, LoadFeed
  <2>3. c2Domains' = UNION {{Lower(d) : d \in g.domains} : g \in {DefaultFeed, f}}
    BY <1>1, <1>5 DEF Decoded, Loaded, LoadFeed
  <2> QED
    BY <1>5, <2>1, <2>2, <2>3 DEF Loaded
<1> QED
  BY <1>1, <1>3, <1>6 DEF Decoded

LEMMA BrokenAddsNothing ==
  ASSUME Decoded, LoadBrokenFeed
  PROVE  Decoded'
<1>1. /\ ~started /\ feed = None /\ feed' = Broken
      /\ UNCHANGED <<engine, panicked, started, packet, info>>
  BY DEF LoadBrokenFeed
<1>2. packet' = None
  BY <1>1 DEF Decoded
<1>3. Feeds' = Feeds
  BY <1>1 DEF Feeds
<1>4. Loaded'
  BY <1>1, <1>3 DEF Decoded, Loaded, engine
<1> QED
  BY <1>1, <1>2, <1>4 DEF Decoded

LEMMA DecodedStep == Decoded /\ [Next]_vars => Decoded'
<1> SUFFICES ASSUME Decoded, [Next]_vars PROVE Decoded'
  OBVIOUS
<1>1. CASE LoadCustomFeed \/ LoadBrokenFeed
  BY <1>1, LoadingAddsFeed, BrokenAddsNothing
<1>2. ASSUME UNCHANGED <<engine, feed>>
      PROVE  Loaded' /\ \A p : DecodePacket(p)' = DecodePacket(p) /\ Panics(p)' = Panics(p)
  BY <1>2 DEF Decoded, Loaded, Feeds, engine, DecodePacket, ThreatAlert, MatchIP, MatchDomain,
              Panics
<1>3. CASE Start
  BY <1>2, <1>3 DEF Start, Decoded
<1>4. CASE Take
  BY <1>2, <1>4 DEF Take, Decoded
<1>5. CASE HandOn
  BY <1>2, <1>5 DEF HandOn, Decoded
<1>6. CASE UNCHANGED vars
  BY <1>2, <1>6 DEF vars, Decoded
<1> QED
  BY <1>1, <1>3, <1>4, <1>5, <1>6 DEF Next

(***************************************************************************)
(* What a worker hands on is what the decoder makes of its packet with the *)
(* built-in feed and the one of the user, if there is one.                 *)
(***************************************************************************)
THEOREM AlwaysDecoded == Spec => []Decoded
<1>1. Init => Decoded
  BY DEF Init, Decoded, Loaded, Feeds
<1> QED
  BY <1>1, DecodedStep, PTL DEF Spec

-----------------------------------------------------------------------------
(* Probes. *)

\* The handshake in the story of a packet that has the opening flags.
LEMMA OpeningIsTold ==
  ASSUME NEW p, p.proto = "TCP", "SYN" \in p.flags, "ACK" \notin p.flags
  PROVE  \E e \in S!Range(S!PacketEvents(p)) : e.kind = "TCP_HANDSHAKE" /\ e.peer = p.dst
<1> DEFINE E(kind) == [kind |-> kind, time |-> p.time, inText |-> {},
                       peer |-> IF kind = "DNS_QUERY" THEN NoHost ELSE p.dst]
           One(yes, kind) == IF yes THEN <<E(kind)>> ELSE <<>>
           a == One(p.proto = "DNS" /\ p.query # "", "DNS_QUERY")
           b == One(p.proto = "TCP" /\ "SYN" \in p.flags /\ "ACK" \notin p.flags, "TCP_HANDSHAKE")
           c == One(p.proto = "TCP" /\ "FIN" \in p.flags, "TCP_CLOSE")
           d == One(p.proto = "TCP" /\ "RST" \in p.flags, "TCP_RESET")
           Kinds == {"DNS_QUERY", "TCP_HANDSHAKE", "TCP_CLOSE", "TCP_RESET"}
           Told == {E(kind) : kind \in Kinds}
<1>1. S!PacketEvents(p) = ((a \o b) \o c) \o d
  BY DEF S!PacketEvents
<1>2. \A kind \in Kinds : \A yes \in BOOLEAN : One(yes, kind) \in Seq(Told)
  <2> HIDE DEF E
  <2>1. \A e \in Told : <<e>> \in Seq(Told) /\ <<>> \in Seq(Told)
    OBVIOUS
  <2> QED
    BY <2>1
<1>3. /\ E("TCP_HANDSHAKE").kind = "TCP_HANDSHAKE" /\ E("TCP_HANDSHAKE").peer = p.dst
      /\ E("TCP_HANDSHAKE") \in Told
  OBVIOUS
<1>4. a = <<>> /\ b = <<E("TCP_HANDSHAKE")>>
  OBVIOUS
<1> HIDE DEF E
<1>5. c \in Seq(Told) /\ d \in Seq(Told)
  <2> HIDE DEF One, Told
  <2>1. /\ (p.proto = "TCP" /\ "FIN" \in p.flags) \in BOOLEAN
        /\ (p.proto = "TCP" /\ "RST" \in p.flags) \in BOOLEAN
    OBVIOUS
  <2> QED
    BY <1>2, <2>1
<1>6. PICK t : t = <<E("TCP_HANDSHAKE")>>
  OBVIOUS
<1>7. t \in Seq(Told) /\ Len(t) = 1 /\ t[1] = E("TCP_HANDSHAKE") /\ a \o b = t
  BY <1>3, <1>4, <1>6
<1> HIDE DEF a, b, c, d, One, Told
<1>8. t \o c \in Seq(Told) /\ Len(t \o c) >= 1 /\ (t \o c)[1] = t[1]
  BY <1>5, <1>7, ConcatProperties, LenProperties
<1>9. PICK u : u = t \o c
  OBVIOUS
<1>10. u \o d \in Seq(Told) /\ Len(u \o d) >= 1 /\ (u \o d)[1] = u[1]
  BY <1>5, <1>8, <1>9, ConcatProperties, LenProperties
<1>11. 1 \in DOMAIN (u \o d)
  BY <1>10, LenProperties
<1>12. S!PacketEvents(p) = u \o d /\ (u \o d)[1] = E("TCP_HANDSHAKE")
  BY <1>1, <1>7, <1>8, <1>9, <1>10
<1>13. E("TCP_HANDSHAKE") \in S!Range(S!PacketEvents(p))
  BY <1>11, <1>12 DEF S!Range
<1> QED
  BY <1>3, <1>13

\* Nothing but DNS and a payload renames the protocol.
LEMMA NameOfProbe ==
  ASSUME NEW p \in Packets,
         \/ p.transport = "TCP" /\ p.app = None
         \/ p.transport = "UDP" /\ p.dns = None
  PROVE  DecodePacket(p).proto = p.transport
<1>1. p.dns = None
  BY DecodeAssumption DEF DecodeAssumption
<1>2. TransportProtocol(p) = p.transport
  BY <1>1 DEF TransportProtocol
<1>3. ~IsHTTP(p) /\ ~MayBeHello(p)
  BY <1>2 DEF IsHTTP, MayBeHello, ParsesAsHTTP
<1> QED
  BY <1>2, <1>3 DEF DecodePacket

(***************************************************************************)
(* No probe is hidden: TCP openings and UDP packets that are not DNS count *)
(* in the port scan rule under their port, and openings are in the story.  *)
(***************************************************************************)
THEOREM ProbesAlwaysCounted == Spec => []ProbesAreCounted
<1>1. Decoded => ProbesAreCounted
  <2> SUFFICES ASSUME Decoded, packet # None, ~panicked, packet.net \in {"IPv4", "IPv6"}
               PROVE  LET opens == /\ packet.transport = "TCP" /\ packet.app = None
                                   /\ "SYN" \in packet.flags /\ "ACK" \notin packet.flags
                      IN  /\ opens \/ (packet.transport = "UDP" /\ packet.dns = None) =>
                               D!Watched(info) /\ info.port = packet.dport
                          /\ opens => \E e \in S!Range(S!PacketEvents(info)) :
                                        e.kind = "TCP_HANDSHAKE" /\ e.peer = packet.dst
    BY DEF ProbesAreCounted
  <2> DEFINE opens == /\ packet.transport = "TCP" /\ packet.app = None
                      /\ "SYN" \in packet.flags /\ "ACK" \notin packet.flags
  <2>1. packet \in Packets /\ info = DecodePacket(packet)
    BY DEF Decoded
  <2>2. /\ info.src = packet.src /\ info.dst = packet.dst
        /\ info.port = packet.dport /\ info.flags = packet.flags
    BY <2>1 DEF DecodePacket
  <2>3. opens \/ (packet.transport = "UDP" /\ packet.dns = None) =>
          info.proto = packet.transport
    BY <2>1, NameOfProbe
  <2>4. opens \/ (packet.transport = "UDP" /\ packet.dns = None) => D!Watched(info)
    BY <2>1, <2>2, <2>3, DecodeAssumption DEF DecodeAssumption, D!Watched
  <2>5. opens => \E e \in S!Range(S!PacketEvents(info)) :
                   e.kind = "TCP_HANDSHAKE" /\ e.peer = packet.dst
    BY <2>2, <2>3, OpeningIsTold
  <2> QED
    BY <2>2, <2>4, <2>5
<1> QED
  BY <1>1, AlwaysDecoded, PTL

-----------------------------------------------------------------------------
(* Indicators. *)

(***************************************************************************)
(* A packet is marked exactly when its tool, an address or its name is in  *)
(* the built-in lists or in the feed of the user, for any lists and feeds. *)
(***************************************************************************)
THEOREM IndicatorsAlwaysRaiseAlert == Spec => []IndicatorsRaiseAlert
<1>1. Decoded => IndicatorsRaiseAlert
  <2> DEFINE Listed(ip) == \E f \in Feeds : \/ \E t \in f.ips : Trimmed(t) = Text(ip)
                                            \/ \E block \in f.blocks \ {NoBlock} : ip \in block
             ListedName(d) == \E f \in Feeds : \E e \in f.domains : Lower(e) = Lower(d)
  <2> SUFFICES ASSUME Decoded, packet # None, ~panicked
               PROVE  info.threat # <<>>
                        <=> \/ info.ja4 \in NamedMalware
                            \/ Listed(packet.src) \/ Listed(packet.dst)
                            \/ DNSQuery(packet) # "" /\ ListedName(DNSQuery(packet))
    BY DEF IndicatorsRaiseAlert, Feeds
  <2>1. ASSUME NEW ip \in {packet.src, packet.dst} PROVE MatchIP(ip) <=> Listed(ip)
    <3>1. Trimmed(Text(ip)) = Text(ip) /\ Feeds \subseteq {DefaultFeed} \union CustomFeeds
      BY DecodeAssumption DEF Decoded, Feeds, DecodeAssumption
    <3>2. \A f \in Feeds : \A block \in f.blocks \ {NoBlock} :
            Parsed(Text(ip)) \in block <=> ip \in block
      BY <3>1, DecodeAssumption DEF Decoded, DecodeAssumption
    <3>3. MatchIP(ip) <=> Text(ip) \in exactIPs \/ \E block \in cidrs : Parsed(Text(ip)) \in block
      BY <3>1 DEF MatchIP
    <3>4. Text(ip) \in exactIPs <=> \E f \in Feeds : \E t \in f.ips : Trimmed(t) = Text(ip)
      BY DEF Decoded, Loaded
    <3>5. (\E block \in cidrs : Parsed(Text(ip)) \in block)
            <=> \E f \in Feeds : \E block \in f.blocks \ {NoBlock} : ip \in block
      BY <3>2 DEF Decoded, Loaded
    <3> QED
      BY <3>3, <3>4, <3>5
  <2>2. \A d : MatchDomain(d) <=> ListedName(d)
    BY DEF Decoded, Loaded, MatchDomain
  <2>3. info.threat = ThreatAlert(packet, info.ja4)
    BY DEF Decoded, DecodePacket
  <2> HIDE DEF Listed, ListedName
  <2>4. \A x, y : <<x, y>> # <<>>
    OBVIOUS
  <2>5. info.threat # <<>>
          <=> \/ info.ja4 \in NamedMalware
              \/ MatchIP(packet.src) \/ MatchIP(packet.dst)
              \/ DNSQuery(packet) # "" /\ MatchDomain(DNSQuery(packet))
    BY <2>3, <2>4 DEF ThreatAlert
  <2> QED
    BY <2>1, <2>2, <2>5
<1> QED
  BY <1>1, AlwaysDecoded, PTL
-----------------------------------------------------------------------------
(* The hello in its bytes. *)

LEMMA SameFlatten == \A ss : T!FlattenSeq(ss) = FlattenSeq(ss)
BY DEF T!FlattenSeq, FlattenSeq

LEMMA TwoLies ==
  ASSUME NEW v \in Nat, NEW h, NEW p, Lies(T!Two(v), h, p)
  PROVE  U16(h, p + 1) = v
<1>1. h[p + 1] = v \div 256 /\ h[p + 2] = v % 256 /\ p \in Nat
  BY DEF Lies, T!Two
<1>2. U16(h, p + 1) = 256 * (v \div 256) + (v % 256)
  <2>1. (p + 1) + 1 = p + 2
    BY <1>1
  <2> QED
    BY <1>1, <2>1 DEF U16
<1> QED
  BY <1>2

LEMMA TwoType ==
  ASSUME NEW v \in Nat
  PROVE  T!Two(v) \in Seq(Nat) /\ Len(T!Two(v)) = 2
<1>1. v \div 256 \in Nat /\ v % 256 \in Nat
  OBVIOUS
<1> QED
  BY <1>1 DEF T!Two

\* The pairs of bytes of a list of numbers.
Pairs(vs) == [i \in DOMAIN vs |-> T!Two(vs[i])]

LEMMA PairsType ==
  ASSUME NEW vs \in Seq(Nat)
  PROVE  /\ Pairs(vs) \in Seq(Seq(Nat)) /\ Len(Pairs(vs)) = Len(vs)
         /\ \A i \in 1..Len(vs) : Pairs(vs)[i] = T!Two(vs[i]) /\ vs[i] \in Nat
         /\ T!Twos(vs) = FlattenSeq(Pairs(vs)) /\ T!Twos(vs) \in Seq(Nat)
<1>1. DOMAIN vs = 1..Len(vs) /\ Len(vs) \in Nat /\ \A i \in 1..Len(vs) : vs[i] \in Nat
  BY LenProperties, ElementOfSeq
<1>2. Pairs(vs) \in [1..Len(vs) -> Seq(Nat)] /\ \A i \in 1..Len(vs) : Pairs(vs)[i] = T!Two(vs[i])
  BY <1>1, TwoType DEF Pairs
<1>3. Pairs(vs) \in Seq(Seq(Nat)) /\ Len(Pairs(vs)) = Len(vs)
  BY <1>1, <1>2, SeqOfFunction
<1>4. T!Twos(vs) = FlattenSeq(Pairs(vs))
  BY SameFlatten DEF T!Twos, Pairs
<1> QED
  BY <1>1, <1>2, <1>3, <1>4, FlattenType

LEMMA TwosLie ==
  ASSUME NEW vs \in Seq(Nat), NEW h \in Seq(Nat), NEW p, Lies(T!Twos(vs), h, p)
  PROVE  Len(T!Twos(vs)) = 2 * Len(vs) /\ U16s(h, p + 1, 2 * Len(vs)) = vs
<1>1. PICK n \in Nat : n = Len(vs)
  BY LenProperties
<1>2. PICK at : PartsLie(Pairs(vs), h, p, at)
  BY PairsType, LiesFlatten, LenProperties
<1>3. at \in [0..n -> Nat] /\ at[0] = p /\ at[n] = p + Len(T!Twos(vs)) /\ p \in Nat
  BY <1>1, <1>2, PairsType DEF PartsLie, Lies
<1>4. ASSUME NEW k \in 1..n
      PROVE  at[k] = at[k - 1] + 2 /\ Lies(T!Two(vs[k]), h, at[k - 1]) /\ vs[k] \in Nat
  <2>1. k \in 1..Len(Pairs(vs)) /\ Pairs(vs)[k] = T!Two(vs[k]) /\ vs[k] \in Nat
    BY <1>1, PairsType
  <2>2. at[k] = at[k - 1] + Len(T!Two(vs[k])) /\ Lies(T!Two(vs[k]), h, at[k - 1])
    BY <1>2, <2>1 DEF PartsLie
  <2> QED
    BY <2>1, <2>2, TwoType
<1>5. PICK even : even = [k \in 0..n |-> p + 2 * k]
  OBVIOUS
<1>6. \A k \in 0..n : at[k] = p + 2 * k
  <2>1. ASSUME NEW k \in 1..n, at[k - 1] = even[k - 1] PROVE at[k] = even[k]
    <3>1. even[k - 1] = p + 2 * (k - 1) /\ even[k] = p + 2 * k
      BY <1>5
    <3> QED
      BY <1>3, <1>4, <2>1, <3>1
  <2>2. at[0] = even[0]
    BY <1>3, <1>5
  <2>3. Agree(at, even, n)
    BY <2>1, <2>2, RunsAgree
  <2> QED
    BY <1>5, <2>3 DEF Agree
<1>7. Len(T!Twos(vs)) = 2 * n
  <2>1. at[n] = p + 2 * n /\ Len(T!Twos(vs)) \in Nat
    BY <1>6, PairsType, LenProperties
  <2> QED
    BY <1>3, <2>1
<1>8. ASSUME NEW k \in 1..n PROVE U16(h, (p + 1) + 2 * (k - 1)) = vs[k]
  <2>1. at[k - 1] = p + 2 * (k - 1)
    BY <1>6
  <2>2. U16(h, at[k - 1] + 1) = vs[k]
    BY <1>4, TwoLies
  <2>3. at[k - 1] + 1 = (p + 1) + 2 * (k - 1)
    BY <1>3, <2>1
  <2> QED
    BY <2>2, <2>3
<1>9. U16s(h, p + 1, 2 * n) = [k \in 1..n |-> U16(h, (p + 1) + 2 * (k - 1))]
  <2>1. (2 * n + 1) \div 2 = n
    OBVIOUS
  <2> QED
    BY <2>1 DEF U16s
<1>10. vs = [k \in 1..n |-> vs[k]]
  BY <1>1, LenProperties
<1>11. U16s(h, p + 1, 2 * n) = vs
  BY <1>8, <1>9, <1>10
<1> QED
  BY <1>1, <1>7, <1>11

LEMMA LongLies ==
  ASSUME NEW s \in Seq(Nat), NEW h \in Seq(Nat), NEW p, Lies(T!WithLen2(s), h, p)
  PROVE  U16(h, p + 1) = Len(s) /\ Lies(s, h, p + 2)
<1>1. Len(s) \in Nat /\ Len(h) \in Nat
  BY LenProperties
<1>2. T!Two(Len(s)) \in Seq(Nat) /\ Len(T!Two(Len(s))) = 2
  BY <1>1, TwoType
<1>3. Lies(T!Two(Len(s)) \o s, h, p)
  BY DEF T!WithLen2
<1>4. Lies(T!Two(Len(s)), h, p) /\ Lies(s, h, p + 2)
  BY <1>1, <1>2, <1>3, LiesConcat
<1> QED
  BY <1>1, <1>4, TwoLies

LEMMA ShortLies ==
  ASSUME NEW s \in Seq(Nat), NEW h \in Seq(Nat), NEW p, Lies(T!WithLen1(s), h, p)
  PROVE  h[p + 1] = Len(s) /\ Lies(s, h, p + 1)
<1>1. Len(s) \in Nat /\ Len(h) \in Nat
  BY LenProperties
<1>2. PICK t : t = <<Len(s)>>
  OBVIOUS
<1>3. t \in Seq(Nat) /\ Len(t) = 1 /\ t[1] = Len(s)
  BY <1>1, <1>2
<1>4. Lies(t \o s, h, p)
  BY <1>2 DEF T!WithLen1
<1>5. Lies(t, h, p) /\ Lies(s, h, p + 1)
  BY <1>1, <1>3, <1>4, LiesConcat
<1>6. h[p + 1] = t[1]
  BY <1>3, <1>5 DEF Lies
<1> QED
  BY <1>3, <1>5, <1>6

LEMMA WithLenType ==
  ASSUME NEW s \in Seq(Nat)
  PROVE  /\ T!WithLen1(s) \in Seq(Nat) /\ Len(T!WithLen1(s)) = Len(s) + 1
         /\ T!WithLen2(s) \in Seq(Nat) /\ Len(T!WithLen2(s)) = Len(s) + 2
<1>1. Len(s) \in Nat
  BY LenProperties
<1>2. PICK t : t = <<Len(s)>>
  OBVIOUS
<1>3. t \in Seq(Nat) /\ Len(t) = 1
  BY <1>1, <1>2
<1>4. t \o s \in Seq(Nat) /\ Len(t \o s) = 1 + Len(s)
  BY <1>3, ConcatProperties, ZenonT(60)
<1>5. PICK u \in Seq(Nat) : u = T!Two(Len(s)) /\ Len(u) = 2
  BY <1>1, TwoType
<1>6. u \o s \in Seq(Nat) /\ Len(u \o s) = 2 + Len(s)
  <2>1. Len(u) = 2
    BY <1>5
  <2>2. u \o s \in Seq(Nat) /\ Len(u \o s) = Len(u) + Len(s)
    BY ConcatProperties
  <2> QED
    BY <2>1, <2>2
<1> QED
  BY <1>1, <1>2, <1>4, <1>5, <1>6 DEF T!WithLen1, T!WithLen2

LEMMA HelloParts ==
  ASSUME NEW hello, T!IsHello(hello)
  PROVE  /\ hello.session \in Seq(Nat) /\ hello.ciphers \in Seq(Nat)
         /\ hello.version \in 769..772 /\ (hello.bare => hello.exts = <<>>)
         /\ Len(hello.exts) \in Nat /\ DOMAIN hello.exts = 1..Len(hello.exts)
         /\ \A i \in 1..Len(hello.exts) : T!IsExtension(hello.exts[i])
<1>1. Len(hello.exts) \in Nat /\ DOMAIN hello.exts = 1..Len(hello.exts)
  BY LenProperties DEF T!IsHello
<1>2. \A i \in 1..Len(hello.exts) : hello.exts[i] \in T!ToSet(hello.exts)
  BY <1>1 DEF T!ToSet
<1> QED
  BY <1>1, <1>2 DEF T!IsHello

\* The names of an ALPN extension, each behind its length.
Names(list) == [i \in DOMAIN list |-> T!WithLen1(list[i])]

LEMMA NamesType ==
  ASSUME NEW list \in Seq(Seq(Nat))
  PROVE  /\ Names(list) \in Seq(Seq(Nat)) /\ Len(Names(list)) = Len(list)
         /\ \A i \in 1..Len(list) : Names(list)[i] = T!WithLen1(list[i])
         /\ FlattenSeq(Names(list)) \in Seq(Nat)
<1>1. DOMAIN list = 1..Len(list) /\ Len(list) \in Nat /\ \A i \in 1..Len(list) : list[i] \in Seq(Nat)
  BY LenProperties, ElementOfSeq
<1>2. /\ Names(list) \in [1..Len(list) -> Seq(Nat)]
      /\ \A i \in 1..Len(list) : Names(list)[i] = T!WithLen1(list[i])
  BY <1>1, WithLenType DEF Names
<1>3. Names(list) \in Seq(Seq(Nat)) /\ Len(Names(list)) = Len(list)
  BY <1>1, <1>2, SeqOfFunction
<1> QED
  BY <1>2, <1>3, FlattenType

Kind(e) == IF e.type = 16 THEN Seq(Seq(Nat) \ {<<>>}) ELSE Seq(Nat)

LEMMA ExtensionType ==
  ASSUME NEW e, T!IsExtension(e)
  PROVE  /\ e.type \in Nat /\ e.list \in Kind(e)
         /\ e.type = 16 => e.list \in Seq(Seq(Nat))
<1>1. e.type \in Nat /\ e.list \in Seq(IF e.type = 16 THEN Seq(Nat) \ {<<>>} ELSE Nat)
  BY DEF T!IsExtension, T!H!ALPN
<1>2. CASE e.type = 16
  <2>1. e.list \in Seq(Seq(Nat) \ {<<>>})
    BY <1>1, <1>2
  <2>2. e.list \in Seq(Seq(Nat))
    BY <2>1, SeqMonotonic
  <2> QED
    BY <1>1, <1>2, <2>1, <2>2 DEF Kind
<1>3. CASE e.type # 16
  BY <1>1, <1>3 DEF Kind
<1> QED
  BY <1>2, <1>3

LEMMA DataCases ==
  ASSUME NEW e
  PROVE  /\ e.type \in {10, 13} => T!Data(e) = T!WithLen2(T!Twos(e.list))
         /\ e.type = 11 => T!Data(e) = T!WithLen1(e.list)
         /\ e.type = 43 => T!Data(e) = T!WithLen1(T!Twos(e.list))
         /\ e.type = 16 => T!Data(e) = T!WithLen2(FlattenSeq(Names(e.list)))
         /\ e.type \notin {10, 11, 13, 16, 43} => T!Data(e) = e.list
BY SameFlatten DEF T!Data, T!H!Groups, T!H!SigAlgs, T!H!PointFormats, T!H!SupportedVersions,
                   T!H!ALPN, Names

LEMMA DataType ==
  ASSUME NEW e, T!IsExtension(e)
  PROVE  T!Data(e) \in Seq(Nat)
<1>1. e.type \in Nat /\ (e.type # 16 => e.list \in Seq(Nat))
  BY ExtensionType DEF Kind
<1>2. CASE e.type = 16
  BY <1>2, DataCases, ExtensionType, NamesType, WithLenType
<1>3. CASE e.type \in {10, 13, 43}
  <2>1. T!Twos(e.list) \in Seq(Nat)
    BY <1>1, <1>3, PairsType
  <2>2. T!Data(e) \in {T!WithLen2(T!Twos(e.list)), T!WithLen1(T!Twos(e.list))}
    BY <1>3, DataCases
  <2> QED
    BY <2>1, <2>2, WithLenType
<1>4. CASE e.type \notin {10, 13, 16, 43}
  BY <1>1, <1>4, DataCases, WithLenType
<1> QED
  BY <1>2, <1>3, <1>4

-----------------------------------------------------------------------------
(* The walk finds every field of a hello in its bytes. *)

\* The bytes of the extensions.
ExtensionBytes(e) == T!Two(e.type) \o T!WithLen2(T!Data(e))
Listed(hello) == [i \in DOMAIN hello.exts |-> ExtensionBytes(hello.exts[i])]

LEMMA ListedType ==
  ASSUME NEW hello, T!IsHello(hello)
  PROVE  /\ Listed(hello) \in Seq(Seq(Nat)) /\ Len(Listed(hello)) = Len(hello.exts)
         /\ \A i \in 1..Len(hello.exts) :
              /\ Listed(hello)[i] = ExtensionBytes(hello.exts[i])
              /\ Len(Listed(hello)[i]) = 4 + Len(T!Data(hello.exts[i]))
         /\ FlattenSeq(Listed(hello)) \in Seq(Nat)
<1>1. /\ Len(hello.exts) \in Nat /\ DOMAIN hello.exts = 1..Len(hello.exts)
      /\ \A i \in 1..Len(hello.exts) : T!IsExtension(hello.exts[i])
  BY HelloParts
<1>2. ASSUME NEW i \in 1..Len(hello.exts)
      PROVE  /\ ExtensionBytes(hello.exts[i]) \in Seq(Nat)
             /\ Len(ExtensionBytes(hello.exts[i])) = 4 + Len(T!Data(hello.exts[i]))
  <2>1. PICK e : e = hello.exts[i]
    OBVIOUS
  <2>2. T!IsExtension(e)
    BY <1>1, <2>1
  <2>3. PICK d \in Seq(Nat) : d = T!Data(e)
    BY <2>2, DataType
  <2>4. PICK u \in Seq(Nat) : u = T!Two(e.type) /\ Len(u) = 2
    BY <2>2, TwoType, ExtensionType
  <2>5. PICK w \in Seq(Nat) : w = T!WithLen2(d) /\ Len(w) = Len(d) + 2
    BY WithLenType
  <2>6. u \o w \in Seq(Nat) /\ Len(u \o w) = Len(u) + Len(w)
    BY ConcatProperties
  <2>7. Len(d) \in Nat /\ Len(w) = Len(d) + 2 /\ Len(u) = 2
    BY <2>4, <2>5, LenProperties
  <2>8. Len(u \o w) = 4 + Len(d)
    BY <2>6, <2>7
  <2> QED
    BY <2>1, <2>3, <2>4, <2>5, <2>6, <2>8 DEF ExtensionBytes
<1>3. /\ Listed(hello) \in [1..Len(hello.exts) -> Seq(Nat)]
      /\ \A i \in 1..Len(hello.exts) : Listed(hello)[i] = ExtensionBytes(hello.exts[i])
  BY <1>1, <1>2 DEF Listed
<1>4. Listed(hello) \in Seq(Seq(Nat)) /\ Len(Listed(hello)) = Len(hello.exts)
  BY <1>1, <1>3, SeqOfFunction
<1> QED
  BY <1>2, <1>3, <1>4, FlattenType

\* The fields, and where they are.
Shape(hello, h) ==
  LET s == Len(hello.session) + 1
      c == s + 2 + 2 * Len(hello.ciphers)
  IN  /\ h \in Seq(Nat) /\ s \in Nat /\ c \in Nat
      /\ Lies(T!WithLen1(hello.session), h, 0)
      /\ Lies(T!WithLen2(T!Twos(hello.ciphers)), h, s)
      /\ h[c + 1] = 1
      /\ hello.bare => Len(h) = c + 2
      /\ ~hello.bare => /\ Lies(T!WithLen2(FlattenSeq(Listed(hello))), h, c + 2)
                        /\ Len(h) = c + 4 + Len(FlattenSeq(Listed(hello)))

LEMMA BytesShape ==
  ASSUME NEW hello, T!IsHello(hello)
  PROVE  Shape(hello, T!Bytes(hello))
<1>1. hello.session \in Seq(Nat) /\ hello.ciphers \in Seq(Nat)
  BY HelloParts
<1>2. PICK A \in Seq(Nat) : A = T!WithLen1(hello.session) /\ Len(A) = Len(hello.session) + 1
  BY <1>1, WithLenType
<1>3. PICK t \in Seq(Nat) : t = T!Twos(hello.ciphers) /\ Len(t) = 2 * Len(hello.ciphers)
  <2>1. T!Twos(hello.ciphers) \in Seq(Nat)
    BY <1>1, PairsType
  <2>2. Lies(T!Twos(hello.ciphers), T!Twos(hello.ciphers), 0)
    BY <2>1, LiesWhole
  <2> QED
    BY <1>1, <2>1, <2>2, TwosLie
<1>4. PICK B \in Seq(Nat) : B = T!WithLen2(t) /\ Len(B) = Len(t) + 2
  BY WithLenType
<1>5. PICK C \in Seq(Nat) : C = T!WithLen1(<<0>>) /\ Len(C) = 2 /\ C[1] = 1
  <2>0. <<0>> \in Seq(Nat) /\ <<1>> \in Seq(Nat)
    OBVIOUS
  <2>1. PICK z \in Seq(Nat), o \in Seq(Nat) : z = <<0>> /\ o = <<1>>
    BY <2>0
  <2>2. Len(z) = 1 /\ Len(o) = 1 /\ o[1] = 1
    BY <2>1
  <2>3. o \o z \in Seq(Nat) /\ Len(o \o z) = 2 /\ (o \o z)[1] = 1
    <3>1. o \o z \in Seq(Nat) /\ Len(o \o z) = Len(o) + Len(z)
      BY ConcatProperties
    <3>2. 1 \in 1..(Len(o) + Len(z)) /\ 1 <= Len(o)
      BY <2>2
    <3>3. (o \o z)[1] = o[1]
      BY <3>2, ConcatProperties
    <3> QED
      BY <2>2, <3>1, <3>3
  <2>4. T!WithLen1(z) = o \o z
    BY <2>1, <2>2 DEF T!WithLen1
  <2> QED
    BY <2>1, <2>3, <2>4
<1>6. PICK x \in Seq(Nat) : x = FlattenSeq(Listed(hello))
  BY ListedType
<1>7. PICK w \in Seq(Nat) : w = T!WithLen2(x) /\ Len(w) = Len(x) + 2
  BY WithLenType
<1>8. PICK E \in Seq(Nat) : E = IF hello.bare THEN <<>> ELSE w
  BY EmptySeq
<1>9. T!Bytes(hello) = ((A \o B) \o C) \o E
  <2>1. T!FlattenSeq(Listed(hello)) = x
    BY <1>6, SameFlatten
  <2> QED
    BY <1>2, <1>3, <1>4, <1>5, <1>7, <1>8, <2>1 DEF T!Bytes, Listed, ExtensionBytes
<1>10. PICK AB \in Seq(Nat) : AB = A \o B
  BY ConcatProperties
<1>11. PICK ABC \in Seq(Nat) : ABC = AB \o C
  BY ConcatProperties
<1>12. PICK h \in Seq(Nat) : h = ABC \o E /\ h = T!Bytes(hello)
  BY <1>9, <1>10, <1>11, ConcatProperties
<1>13. Len(h) \in Nat /\ Lies(h, h, 0)
  BY LiesWhole, LenProperties
<1>14. Lies(ABC, h, 0) /\ Lies(E, h, 0 + Len(ABC)) /\ Len(h) = Len(ABC) + Len(E)
  <2>1. Lies(ABC \o E, h, 0) /\ Len(ABC \o E) = Len(h)
    BY <1>12, <1>13
  <2> QED
    BY <1>13, <2>1, LiesConcat
<1>15. Lies(AB, h, 0) /\ Lies(C, h, 0 + Len(AB)) /\ Len(ABC) = Len(AB) + Len(C)
  BY <1>11, <1>13, <1>14, LiesConcat
<1>16. Lies(A, h, 0) /\ Lies(B, h, 0 + Len(A)) /\ Len(AB) = Len(A) + Len(B)
  BY <1>10, <1>13, <1>15, LiesConcat
<1>17. PICK s \in Nat, n \in Nat : s = Len(hello.session) + 1 /\ n = Len(hello.ciphers)
  BY <1>1, LenProperties
<1>18. PICK c \in Nat : c = s + 2 + 2 * n
  OBVIOUS
<1>19. Len(A) = s /\ Len(AB) = c /\ Len(ABC) = c + 2
  <2>1. Len(A) = s
    BY <1>2, <1>17
  <2>2. Len(t) = 2 * n
    BY <1>3, <1>17
  <2>3. Len(B) = 2 * n + 2
    BY <1>4, <2>2
  <2>4. Len(AB) = s + (2 * n + 2)
    BY <1>16, <2>1, <2>3
  <2>5. Len(AB) = c
    BY <1>18, <2>4
  <2>6. Len(C) = 2
    BY <1>5
  <2>7. Len(ABC) = c + 2
    BY <1>15, <2>5, <2>6
  <2> QED
    BY <2>1, <2>5, <2>7
<1>20. Lies(C, h, c) /\ Lies(B, h, s) /\ Lies(E, h, c + 2)
  <2>1. 0 + Len(AB) = c /\ 0 + Len(A) = s /\ 0 + Len(ABC) = c + 2
    BY <1>19
  <2>2. Lies(C, h, c)
    BY <1>15, <2>1
  <2>3. Lies(B, h, s)
    BY <1>16, <2>1
  <2>4. Lies(E, h, c + 2)
    BY <1>14, <2>1
  <2> QED
    BY <2>2, <2>3, <2>4
<1>21. h[c + 1] = 1
  <2>1. 1 \in 1..Len(C) /\ C[1] = 1
    BY <1>5
  <2> QED
    BY <1>20, <2>1 DEF Lies
<1>22. hello.bare => Len(h) = c + 2
  <2>1. hello.bare => Len(E) = 0
    BY <1>8, EmptySeq
  <2> QED
    BY <1>14, <1>19, <2>1
<1>23. ~hello.bare => Lies(w, h, c + 2) /\ Len(h) = c + 4 + Len(x)
  <2> SUFFICES ASSUME ~hello.bare PROVE Lies(w, h, c + 2) /\ Len(h) = c + 4 + Len(x)
    OBVIOUS
  <2>1. E = w
    BY <1>8
  <2>2. Len(x) \in Nat /\ Len(w) = Len(x) + 2
    BY <1>7, LenProperties
  <2>3. Len(h) = (c + 2) + (Len(x) + 2)
    BY <1>14, <1>19, <2>1, <2>2
  <2> QED
    BY <1>20, <2>1, <2>2, <2>3
<1>24. Shape(hello, h)
  BY <1>2, <1>3, <1>4, <1>6, <1>7, <1>16, <1>17, <1>18, <1>20, <1>21, <1>22, <1>23 DEF Shape
<1> QED
  BY <1>12, <1>24

LEMMA EvenIsNotOdd == \A n \in Nat : ~IsOdd(2 * n)
BY DEF IsOdd

LEMMA FieldsFound ==
  ASSUME NEW hello, T!IsHello(hello), NEW h, Shape(hello, h)
  PROVE  LET c == Len(hello.session) + 3 + 2 * Len(hello.ciphers)
         IN  /\ IsComplete(h) /\ c \in Nat /\ ~IsOdd(U16(h, CipherAt(h)))
             /\ U16s(h, CipherAt(h) + 2, U16(h, CipherAt(h))) = hello.ciphers
             /\ CompressionAt(h) = c + 1 /\ ExtensionsAt(h) = c + 3
<1>1. hello.session \in Seq(Nat) /\ hello.ciphers \in Seq(Nat)
  BY HelloParts
<1>2. PICK s \in Nat, n \in Nat : s = Len(hello.session) + 1 /\ n = Len(hello.ciphers)
  BY <1>1, LenProperties
<1>3. PICK c \in Nat : c = s + 2 + 2 * n
  OBVIOUS
<1>4. /\ h \in Seq(Nat) /\ Len(h) \in Nat /\ h[c + 1] = 1
      /\ Lies(T!WithLen1(hello.session), h, 0)
      /\ Lies(T!WithLen2(T!Twos(hello.ciphers)), h, s)
      /\ Len(h) >= c + 2
  <2>1. h \in Seq(Nat) /\ Len(h) \in Nat
    BY LenProperties DEF Shape
  <2>2. PICK x \in Nat : x = Len(FlattenSeq(Listed(hello)))
    BY ListedType, LenProperties
  <2>3. c = (Len(hello.session) + 1) + 2 + 2 * Len(hello.ciphers)
    BY <1>2, <1>3
  <2>4. /\ h[c + 1] = 1
        /\ Lies(T!WithLen1(hello.session), h, 0)
        /\ Lies(T!WithLen2(T!Twos(hello.ciphers)), h, s)
        /\ Len(h) = c + 2 \/ Len(h) = c + 4 + x
    BY <1>2, <2>2, <2>3 DEF Shape
  <2> QED
    BY <2>1, <2>2, <2>4
<1>5. h[1] = s - 1
  <2>1. h[0 + 1] = Len(hello.session)
    BY <1>1, <1>4, ShortLies
  <2>2. Len(hello.session) = s - 1
    BY <1>1, <1>2, LenProperties
  <2> QED
    BY <2>1, <2>2
<1>6. CipherAt(h) = s + 1
  BY <1>5 DEF CipherAt
<1>7. T!Twos(hello.ciphers) \in Seq(Nat)
  BY <1>1, PairsType
<1>8. U16(h, s + 1) = Len(T!Twos(hello.ciphers)) /\ Lies(T!Twos(hello.ciphers), h, s + 2)
  BY <1>4, <1>7, LongLies
<1>9. /\ Len(T!Twos(hello.ciphers)) = 2 * n
      /\ U16s(h, (s + 2) + 1, 2 * n) = hello.ciphers
  BY <1>1, <1>2, <1>4, <1>8, TwosLie
<1>10. U16(h, CipherAt(h)) = 2 * n
  BY <1>6, <1>8, <1>9
<1>11. U16s(h, CipherAt(h) + 2, U16(h, CipherAt(h))) = hello.ciphers
  <2>1. CipherAt(h) + 2 = (s + 2) + 1
    BY <1>6
  <2> QED
    BY <1>9, <1>10, <2>1
<1>12. CompressionAt(h) = c + 1
  BY <1>3, <1>6, <1>10 DEF CompressionAt
<1>13. ExtensionsAt(h) = c + 3
  BY <1>4, <1>12 DEF ExtensionsAt
<1>14. IsComplete(h)
  <2>1. h # <<>>
    BY <1>4, EmptySeq
  <2> QED
    BY <1>3, <1>4, <1>6, <1>12, <2>1 DEF IsComplete
<1>15. c = Len(hello.session) + 3 + 2 * Len(hello.ciphers)
  <2>1. Len(hello.session) \in Nat
    BY <1>1, LenProperties
  <2> QED
    BY <1>2, <1>3, <2>1
<1>16. ~IsOdd(U16(h, CipherAt(h)))
  BY <1>10, EvenIsNotOdd
<1> QED
  BY <1>11, <1>12, <1>13, <1>14, <1>15, <1>16

\* before[k] bytes come before and with the extension k.
Laid(hello, h, before) ==
  /\ before \in [0..Len(hello.exts) -> Nat]
  /\ before[0] = ExtensionsAt(h) + 1 /\ before[Len(hello.exts)] = Len(h)
  /\ \A k \in 1..Len(hello.exts) :
       LET b == before[k - 1]
           e == hello.exts[k]
       IN  /\ before[k] = b + 4 + Len(T!Data(e)) /\ before[k] <= Len(h)
           /\ U16(h, b + 1) = e.type /\ U16(h, b + 3) = Len(T!Data(e))
           /\ SubSeq(h, b + 5, before[k]) = T!Data(e)

LEMMA ExtensionsLie ==
  ASSUME NEW hello, T!IsHello(hello), ~hello.bare, NEW h, Shape(hello, h)
  PROVE  /\ ExtensionsAt(h) + 1 + U16(h, ExtensionsAt(h)) = Len(h)
         /\ ExtensionsAt(h) \in Nat /\ ExtensionsAt(h) + 1 <= Len(h)
         /\ \E before : Laid(hello, h, before)
<1>1. hello.session \in Seq(Nat) /\ hello.ciphers \in Seq(Nat)
  BY HelloParts
<1>2. PICK c \in Nat : c = Len(hello.session) + 1 + 2 + 2 * Len(hello.ciphers)
  <2>1. PICK m \in Nat, n \in Nat : m = Len(hello.session) /\ n = Len(hello.ciphers)
    BY <1>1, LenProperties
  <2>2. m + 1 + 2 + 2 * n \in Nat
    OBVIOUS
  <2> QED
    BY <2>1, <2>2
<1>3. PICK x \in Seq(Nat) : x = FlattenSeq(Listed(hello))
  BY ListedType
<1>4. ExtensionsAt(h) = c + 3
  <2>1. c = Len(hello.session) + 3 + 2 * Len(hello.ciphers)
    <3>1. Len(hello.session) \in Nat /\ Len(hello.ciphers) \in Nat
      BY <1>1, LenProperties
    <3> QED
      BY <1>2, <3>1
  <2> QED
    BY <2>1, FieldsFound
<1>5. /\ h \in Seq(Nat) /\ Len(h) \in Nat /\ Len(x) \in Nat
      /\ Lies(T!WithLen2(x), h, c + 2) /\ Len(h) = c + 4 + Len(x)
  <2>1. h \in Seq(Nat) /\ Len(h) \in Nat /\ Len(x) \in Nat
    BY LenProperties DEF Shape
  <2>2. Lies(T!WithLen2(x), h, c + 2) /\ Len(h) = c + 4 + Len(x)
    BY <1>2, <1>3 DEF Shape
  <2> QED
    BY <2>1, <2>2
<1>6. U16(h, c + 3) = Len(x) /\ Lies(x, h, c + 4)
  <2>1. (c + 2) + 1 = c + 3 /\ (c + 2) + 2 = c + 4
    OBVIOUS
  <2>2. U16(h, (c + 2) + 1) = Len(x) /\ Lies(x, h, (c + 2) + 2)
    BY <1>5, LongLies
  <2> QED
    BY <2>1, <2>2
<1>7. PICK before : PartsLie(Listed(hello), h, c + 4, before)
  <2>1. Listed(hello) \in Seq(Seq(Nat))
    BY ListedType
  <2> QED
    BY <1>3, <1>5, <1>6, <2>1, LiesFlatten
<1>8. PICK n \in Nat : n = Len(hello.exts)
  BY HelloParts
<1>9. /\ before \in [0..n -> Nat] /\ before[0] = c + 4 /\ before[n] = c + 4 + Len(x)
  BY <1>3, <1>7, <1>8, ListedType DEF PartsLie
<1>10. ASSUME NEW k \in 1..n
       PROVE  LET b == before[k - 1]
                  e == hello.exts[k]
              IN  /\ before[k] = b + 4 + Len(T!Data(e)) /\ before[k] <= Len(h)
                  /\ U16(h, b + 1) = e.type /\ U16(h, b + 3) = Len(T!Data(e))
                  /\ SubSeq(h, b + 5, before[k]) = T!Data(e)
  <2>1. PICK b \in Nat, e \in {hello.exts[k]} : b = before[k - 1] /\ e = hello.exts[k]
    BY <1>9
  <2>2. T!IsExtension(e)
    BY <1>8, <2>1, HelloParts
  <2>3. PICK d \in Seq(Nat) : d = T!Data(e)
    BY <2>2, DataType
  <2>4. PICK u \in Seq(Nat) : u = T!Two(e.type) /\ Len(u) = 2
    BY <2>2, TwoType, ExtensionType
  <2>5. PICK w \in Seq(Nat) : w = T!WithLen2(d) /\ Len(w) = Len(d) + 2
    BY WithLenType
  <2>6. Listed(hello)[k] = u \o w /\ Len(Listed(hello)[k]) = 4 + Len(d)
    BY <1>8, <2>1, <2>3, <2>4, <2>5, ListedType DEF ExtensionBytes
  <2>7. before[k] = b + (4 + Len(d)) /\ Lies(u \o w, h, b)
    BY <1>7, <1>8, <2>1, <2>6, ListedType DEF PartsLie
  <2>8. Lies(u, h, b) /\ Lies(w, h, b + 2)
    <3>1. Lies(u, h, b) /\ Lies(w, h, b + Len(u))
      BY <1>5, <2>7, LiesConcat
    <3> QED
      BY <2>4, <3>1
  <2>9. U16(h, b + 1) = e.type
    BY <2>2, <2>4, <2>8, TwoLies, ExtensionType
  <2>10. U16(h, (b + 2) + 1) = Len(d) /\ Lies(d, h, (b + 2) + 2)
    BY <1>5, <2>5, <2>8, LongLies
  <2>11. (b + 2) + 1 = b + 3 /\ (b + 2) + 2 = b + 4 /\ Len(d) \in Nat
    BY LenProperties
  <2>12. SubSeq(h, (b + 4) + 1, (b + 4) + Len(d)) = d
    BY <1>5, <2>10, <2>11, LiesAt
  <2>13. (b + 4) + 1 = b + 5 /\ (b + 4) + Len(d) = before[k]
    BY <2>7, <2>11
  <2>14. before[k] <= Len(h)
    BY <2>10, <2>11, <2>13 DEF Lies
  <2>15. before[k] = b + 4 + Len(d)
    BY <2>7, <2>11
  <2> QED
    BY <2>1, <2>3, <2>9, <2>10, <2>11, <2>12, <2>13, <2>14, <2>15
<1>11. before[0] = ExtensionsAt(h) + 1 /\ before[n] = Len(h)
  BY <1>4, <1>5, <1>9
<1>12. Laid(hello, h, before)
  BY <1>8, <1>9, <1>10, <1>11 DEF Laid
<1>13. ExtensionsAt(h) + 1 + U16(h, ExtensionsAt(h)) = Len(h)
  <2>1. U16(h, ExtensionsAt(h)) = Len(x)
    BY <1>4, <1>6
  <2>2. (c + 3) + 1 + Len(x) = Len(h)
    BY <1>5
  <2> QED
    BY <1>4, <2>1, <2>2
<1> QED
  BY <1>4, <1>5, <1>12, <1>13

\* Where the rounds of the walk begin.
WalkEnd(h, p) == p + 3 + U16(h, p + 2)
Walk(h, last) ==
  CHOOSE at : at =
    [k \in 0..Len(h) |->
       IF k = 0 THEN ExtensionsAt(h) + 2
       ELSE IF at[k - 1] + 3 > last THEN at[k - 1] ELSE WalkEnd(h, at[k - 1]) + 1]

LEMMA WalkExact ==
  ASSUME NEW hello, T!IsHello(hello), ~hello.bare, NEW h, Shape(hello, h),
         NEW before, Laid(hello, h, before)
  PROVE  \A k \in 0..Len(h) :
           Walk(h, Len(h))[k] = IF k <= Len(hello.exts) THEN before[k] + 1 ELSE Len(h) + 1
<1>1. PICK n \in Nat, m \in Nat : n = Len(hello.exts) /\ m = Len(h)
  BY HelloParts, LenProperties, ZenonT(60) DEF Shape
<1>2. /\ before \in [0..n -> Nat]
      /\ before[0] = ExtensionsAt(h) + 1 /\ before[n] = m
      /\ \A k \in 1..n : LET b == before[k - 1]
                             d == Len(T!Data(hello.exts[k]))
                         IN  /\ before[k] = b + 4 + d /\ d \in Nat
                             /\ before[k] <= m /\ U16(h, b + 3) = d
  <2>1. \A k \in 1..n : Len(T!Data(hello.exts[k])) \in Nat
    BY <1>1, HelloParts, DataType, LenProperties
  <2> QED
    BY <1>1, <2>1 DEF Laid
<1>3. PICK q : q = [k \in 0..m |-> IF k <= n THEN before[k] + 1 ELSE m + 1]
  OBVIOUS
<1>4. q[0] = ExtensionsAt(h) + 2
  <2>1. before[0] \in Nat /\ q[0] = before[0] + 1
    BY <1>2, <1>3
  <2>2. ExtensionsAt(h) \in Nat
    BY ExtensionsLie
  <2> QED
    BY <1>2, <2>1, <2>2
<1>5. ASSUME NEW k \in 1..m
      PROVE  q[k] = IF q[k - 1] + 3 > m THEN q[k - 1] ELSE WalkEnd(h, q[k - 1]) + 1
  <2>1. k \in 0..m /\ k - 1 \in 0..m
    OBVIOUS
  <2>2. CASE k <= n
    <3>1. PICK b \in Nat, d \in Nat : b = before[k - 1] /\ d = Len(T!Data(hello.exts[k]))
      <4>1. k \in 1..n /\ k - 1 \in 0..n
        BY <2>2
      <4>2. before[k - 1] \in Nat /\ Len(T!Data(hello.exts[k])) \in Nat
        BY <1>2, <4>1
      <4> QED
        BY <4>2
    <3>2. before[k] = b + 4 + d /\ before[k] <= m /\ U16(h, b + 3) = d
      BY <1>2, <2>2, <3>1
    <3>3. q[k - 1] = b + 1 /\ q[k] = before[k] + 1
      BY <1>3, <2>1, <2>2, <3>1
    <3>4. (b + 1) + 2 = b + 3
      OBVIOUS
    <3>5. WalkEnd(h, b + 1) = (b + 1) + 3 + d
      BY <3>2, <3>4 DEF WalkEnd
    <3>6. ~((b + 1) + 3 > m) /\ q[k] = ((b + 1) + 3 + d) + 1
      BY <3>2, <3>3
    <3> QED
      BY <3>3, <3>5, <3>6
  <2>3. CASE ~(k <= n)
    <3>1. q[k] = m + 1 /\ q[k - 1] = m + 1
      <4>1. q[k] = m + 1
        BY <1>3, <2>1, <2>3
      <4>2. CASE k - 1 = n
        BY <1>2, <1>3, <2>1, <4>1, <4>2
      <4>3. CASE k - 1 # n
        <5>1. ~(k - 1 <= n)
          BY <2>3, <4>3
        <5> QED
          BY <1>3, <2>1, <4>1, <5>1
      <4> QED
        BY <4>2, <4>3
    <3>2. (m + 1) + 3 > m
      OBVIOUS
    <3> QED
      BY <3>1, <3>2
  <2> QED
    BY <2>2, <2>3
<1>6. q = [k \in 0..m |->
             IF k = 0 THEN ExtensionsAt(h) + 2
             ELSE IF q[k - 1] + 3 > m THEN q[k - 1] ELSE WalkEnd(h, q[k - 1]) + 1]
  <2>1. \A k \in 0..m : q[k] = IF k = 0 THEN ExtensionsAt(h) + 2
                               ELSE IF q[k - 1] + 3 > m THEN q[k - 1]
                                    ELSE WalkEnd(h, q[k - 1]) + 1
    BY <1>4, <1>5
  <2>2. q = [k \in 0..m |-> q[k]]
    BY <1>3
  <2> QED
    BY <2>1, <2>2
<1>7. PICK f : f = Walk(h, m)
  OBVIOUS
<1>8. f = [k \in 0..m |->
             IF k = 0 THEN ExtensionsAt(h) + 2
             ELSE IF f[k - 1] + 3 > m THEN f[k - 1] ELSE WalkEnd(h, f[k - 1]) + 1]
  BY <1>1, <1>6, <1>7 DEF Walk
<1>9. ASSUME NEW k \in 1..m, f[k - 1] = q[k - 1] PROVE f[k] = q[k]
  <2>1. k \in 0..m /\ k # 0
    OBVIOUS
  <2>2. f[k] = IF f[k - 1] + 3 > m THEN f[k - 1] ELSE WalkEnd(h, f[k - 1]) + 1
    BY <1>8, <2>1
  <2> QED
    BY <1>5, <1>9, <2>2
<1>10. f[0] = q[0]
  <2>1. 0 \in 0..m
    OBVIOUS
  <2>2. f[0] = ExtensionsAt(h) + 2
    BY <1>8, <2>1
  <2> QED
    BY <1>4, <2>2
<1>11. Agree(f, q, m)
  BY <1>9, <1>10, RunsAgree
<1> QED
  BY <1>1, <1>3, <1>7, <1>11 DEF Agree

\* What the walk should find, whatever is behind it.
IsOf(x, e) ==
  x.type = e.type /\ x.read = TRUE /\ x.data = T!Data(e) /\ x.behind \in Seq(Nat)
Finds(exts, hello) ==
  /\ DOMAIN exts = DOMAIN hello.exts
  /\ \A i \in DOMAIN hello.exts : IsOf(exts[i], hello.exts[i])

LEMMA ExtensionsUnfold ==
  ASSUME NEW h, NEW buffer
  PROVE  LET list == ExtensionsAt(h)
             stated == list + 1 + U16(h, list)
             last == IF stated > Len(h) THEN Len(h) ELSE stated
             at == Walk(h, last)
             rounds == {k \in 1..Len(h) : at[k - 1] + 3 <= last}
             Ext(p) == [type |-> U16(h, p), read |-> WalkEnd(h, p) <= last,
                        data |-> IF WalkEnd(h, p) <= last
                                 THEN SubSeq(h, p + 4, WalkEnd(h, p)) ELSE <<>>,
                        behind |-> IF WalkEnd(h, p) < Len(buffer)
                                   THEN <<buffer[WalkEnd(h, p) + 1]>> ELSE <<>>]
         IN  Extensions(h, buffer) = IF list + 1 <= Len(h) THEN [k \in rounds |-> Ext(at[k - 1])]
                             ELSE <<>>
BY DEF Extensions, Walk, WalkEnd

LEMMA ExtensionsExact ==
  ASSUME NEW hello, T!IsHello(hello), NEW h, Shape(hello, h), NEW buffer \in Seq(Nat)
  PROVE  Finds(Extensions(h, buffer), hello)
<1>1. PICK n \in Nat, m \in Nat : n = Len(hello.exts) /\ m = Len(h)
  BY HelloParts, LenProperties DEF Shape
<1>2. CASE hello.bare
  <2>1. hello.exts = <<>>
    BY <1>2, HelloParts
  <2>2. PICK c \in Nat : c = Len(hello.session) + 3 + 2 * Len(hello.ciphers) /\ ExtensionsAt(h) = c + 3
    BY FieldsFound
  <2>3. Len(h) = c + 2
    <3>1. PICK a \in Nat, b \in Nat : a = Len(hello.session) /\ b = Len(hello.ciphers)
      BY HelloParts, LenProperties
    <3>2. Len(h) = (a + 1 + 2 + 2 * b) + 2
      BY <1>2, <3>1 DEF Shape
    <3> QED
      BY <2>2, <3>1, <3>2
  <2>4. ~(ExtensionsAt(h) + 1 <= Len(h))
    BY <2>2, <2>3
  <2>5. Extensions(h, buffer) = <<>>
    BY <2>4, ExtensionsUnfold
  <2> QED
    BY <2>1, <2>5 DEF Finds
<1>3. CASE ~hello.bare
  <2>1. /\ ExtensionsAt(h) + 1 + U16(h, ExtensionsAt(h)) = m
        /\ ExtensionsAt(h) + 1 <= m
    BY <1>1, <1>3, ExtensionsLie
  <2>2. PICK before : Laid(hello, h, before)
    BY <1>3, ExtensionsLie
  <2>3. PICK at : at = Walk(h, m)
    OBVIOUS
  <2>4. PICK rounds : rounds = {k \in 1..m : at[k - 1] + 3 <= m}
    OBVIOUS
  <2> DEFINE Ext(p) == [type |-> U16(h, p), read |-> WalkEnd(h, p) <= m,
                        data |-> IF WalkEnd(h, p) <= m
                                 THEN SubSeq(h, p + 4, WalkEnd(h, p)) ELSE <<>>,
                        behind |-> IF WalkEnd(h, p) < Len(buffer)
                                   THEN <<buffer[WalkEnd(h, p) + 1]>> ELSE <<>>]
  <2>5. Extensions(h, buffer) = [k \in rounds |-> Ext(at[k - 1])]
    <3>1. (IF ExtensionsAt(h) + 1 + U16(h, ExtensionsAt(h)) > Len(h) THEN Len(h)
           ELSE ExtensionsAt(h) + 1 + U16(h, ExtensionsAt(h))) = m
      BY <1>1, <2>1
    <3> QED
      BY <1>1, <2>1, <2>3, <2>4, <3>1, ExtensionsUnfold
  <2>6. \A k \in 0..m : at[k] = IF k <= n THEN before[k] + 1 ELSE m + 1
    BY <1>1, <1>3, <2>2, <2>3, WalkExact
  <2>7. /\ before \in [0..n -> Nat] /\ before[n] = m /\ n = Len(hello.exts)
        /\ \A k \in 1..n : Len(T!Data(hello.exts[k])) \in Nat
    BY <1>1, <2>2, HelloParts, DataType, LenProperties DEF Laid
  <2>8. ASSUME NEW k \in 1..n
        PROVE  LET b == before[k - 1]
                   e == hello.exts[k]
               IN  /\ before[k] = b + 4 + Len(T!Data(e)) /\ before[k] <= m
                   /\ U16(h, b + 1) = e.type /\ U16(h, b + 3) = Len(T!Data(e))
                   /\ SubSeq(h, b + 5, before[k]) = T!Data(e)
    BY <1>1, <2>2 DEF Laid
  <2>9. ASSUME NEW k \in 1..n
        PROVE  \E b \in Nat, d \in Nat : b = before[k - 1] /\ d = Len(T!Data(hello.exts[k]))
    <3>1. k - 1 \in 0..n
      OBVIOUS
    <3>2. before[k - 1] \in Nat /\ Len(T!Data(hello.exts[k])) \in Nat
      BY <2>7, <3>1
    <3> QED
      BY <3>2
  <2>10. n <= m
    <3> DEFINE B == {k \in 0..n : k <= before[k]}
    <3>1. 0 \in B
      BY <2>7
    <3>2. ASSUME NEW k \in 1..n, k - 1 \in B PROVE k \in B
      <4>1. PICK b \in Nat, d \in Nat : b = before[k - 1] /\ d = Len(T!Data(hello.exts[k]))
        BY <2>9
      <4>2. before[k] = b + 4 + d /\ k - 1 <= b
        BY <2>8, <3>2, <4>1
      <4> QED
        BY <4>2
    <3> HIDE DEF B
    <3>3. 0..n \subseteq B
      BY <3>1, <3>2, Induction
    <3> QED
      BY <2>7, <3>3 DEF B
  <2>11. ASSUME NEW k \in 1..n
         PROVE  k \in rounds /\ IsOf(Ext(at[k - 1]), hello.exts[k])
    <3>1. PICK b \in Nat, d \in Nat : b = before[k - 1] /\ d = Len(T!Data(hello.exts[k]))
      BY <2>9
    <3>2. k - 1 \in 0..m /\ k - 1 <= n /\ k \in 1..m
      BY <2>10
    <3>3. at[k - 1] = b + 1
      BY <2>6, <3>1, <3>2
    <3>4. before[k] = b + 4 + d /\ before[k] <= m /\ U16(h, b + 3) = d
      BY <2>8, <3>1
    <3>5. k \in rounds
      BY <2>4, <3>2, <3>3, <3>4
    <3>6. (b + 1) + 2 = b + 3 /\ (b + 1) + 4 = b + 5
      OBVIOUS
    <3>7. WalkEnd(h, b + 1) = before[k]
      <4>1. WalkEnd(h, b + 1) = (b + 1) + 3 + d
        BY <3>4, <3>6 DEF WalkEnd
      <4> QED
        BY <3>4, <4>1
    <3>8. U16(h, b + 1) = hello.exts[k].type /\ SubSeq(h, b + 5, before[k]) = T!Data(hello.exts[k])
      BY <2>8, <3>1
    <3>9. PICK after \in Seq(Nat) : after = IF before[k] < Len(buffer)
                                            THEN <<buffer[before[k] + 1]>> ELSE <<>>
      <4>1. before[k] \in Nat /\ Len(buffer) \in Nat
        <5>1. k \in 0..n
          OBVIOUS
        <5>2. before[k] \in Nat
          BY <2>7, <5>1
        <5> QED
          BY <5>2, LenProperties
      <4>2. CASE before[k] < Len(buffer)
        <5>1. PICK c \in Nat : c = buffer[before[k] + 1]
          BY <4>1, <4>2, ElementOfSeq
        <5>2. <<c>> \in Seq(Nat)
          OBVIOUS
        <5> QED
          BY <4>2, <5>1, <5>2
      <4>3. CASE ~(before[k] < Len(buffer))
        BY <4>3, EmptySeq
      <4> QED
        BY <4>2, <4>3
    <3>10. Ext(b + 1) = [type |-> hello.exts[k].type, read |-> TRUE,
                         data |-> T!Data(hello.exts[k]), behind |-> after]
      BY <3>4, <3>6, <3>7, <3>8, <3>9
    <3> HIDE DEF Ext
    <3>11. PICK x, t, data : /\ x = Ext(b + 1) /\ t = hello.exts[k].type
                             /\ data = T!Data(hello.exts[k])
      OBVIOUS
    <3>12. x = [type |-> t, read |-> TRUE, data |-> data, behind |-> after]
      BY <3>10, <3>11
    <3>13. x.type = t /\ x.read = TRUE /\ x.data = data /\ x.behind = after
      BY <3>12
    <3>14. IsOf(x, hello.exts[k])
      BY <3>11, <3>13 DEF IsOf
    <3> QED
      BY <3>3, <3>5, <3>11, <3>14
  <2>12. rounds = 1..n
    <3>1. ASSUME NEW k \in rounds PROVE k \in 1..n
      <4>1. k \in 1..m /\ at[k - 1] + 3 <= m
        BY <2>4
      <4> SUFFICES ASSUME ~(k <= n) PROVE FALSE
        BY <4>1
      <4>2. k - 1 \in 0..m
        BY <4>1
      <4>3. CASE k - 1 = n
        BY <2>6, <2>7, <4>1, <4>2, <4>3
      <4>4. CASE k - 1 # n
        <5>1. ~(k - 1 <= n)
          BY <4>1, <4>4
        <5> QED
          BY <2>6, <4>1, <4>2, <5>1
      <4> QED
        BY <4>3, <4>4
    <3> QED
      BY <2>11, <3>1
  <2>13. DOMAIN hello.exts = 1..n
    BY <1>1, HelloParts
  <2> HIDE DEF Ext
  <2>14. Extensions(h, buffer) = [k \in 1..n |-> Ext(at[k - 1])]
    BY <2>5, <2>12
  <2> QED
    BY <2>11, <2>13, <2>14 DEF Finds
<1> QED
  BY <1>2, <1>3

-----------------------------------------------------------------------------
(* What is read from the data of an extension is what the client put in.   *)

LEMMA LiesBefore ==
  ASSUME NEW s \in Seq(Nat), NEW t \in Seq(Nat)
  PROVE  \E b \in Seq(Nat) : b = s \o t /\ Lies(s, b, 0)
<1>1. PICK b \in Seq(Nat) : b = s \o t
  BY ConcatProperties
<1>2. Lies(b, b, 0) /\ Len(b) \in Nat
  BY LiesWhole, LenProperties
<1>3. Lies(s \o t, b, 0)
  BY <1>1, <1>2
<1>4. Lies(s, b, 0)
  BY <1>2, <1>3, LiesConcat
<1> QED
  BY <1>1, <1>4

LEMMA LongListRead ==
  ASSUME NEW e, T!IsExtension(e), e.type \in {10, 13}, NEW x, IsOf(x, e)
  PROVE  LongList(x) = e.list /\ ~IsOdd(U16(x.data, 1))
<1>1. e.list \in Seq(Nat)
  BY ExtensionType DEF Kind
<1>2. PICK t \in Seq(Nat) : t = T!Twos(e.list)
  BY <1>1, PairsType
<1>3. PICK d \in Seq(Nat) : d = T!WithLen2(t) /\ Len(d) = Len(t) + 2
  BY WithLenType
<1>4. T!Data(e) = d
  BY <1>2, <1>3, DataCases
<1>5. Lies(d, d, 0)
  BY LiesWhole
<1>6. U16(d, 0 + 1) = Len(t) /\ Lies(t, d, 0 + 2)
  BY <1>3, <1>5, LongLies
<1>7. U16(d, 1) = Len(t) /\ Lies(t, d, 2)
  BY <1>6
<1>8. PICK buffer \in Seq(Nat) : buffer = d \o x.behind /\ Lies(d, buffer, 0)
  BY <1>3, LiesBefore DEF IsOf
<1>9. Lies(t, buffer, 0 + 2)
  BY <1>3, <1>8, LongLies
<1>10. Lies(t, buffer, 2)
  BY <1>9
<1>11. Len(t) = 2 * Len(e.list) /\ U16s(buffer, 2 + 1, 2 * Len(e.list)) = e.list
  BY <1>1, <1>2, <1>10, TwosLie
<1>12. U16s(buffer, 3, U16(d, 1)) = e.list
  BY <1>7, <1>11
<1>13. HasLong(d)
  <2>1. Len(t) \in Nat
    BY LenProperties
  <2> QED
    BY <1>3, <1>7, <2>1 DEF HasLong
<1>14. ~IsOdd(U16(d, 1))
  <2>1. Len(e.list) \in Nat
    BY <1>1, LenProperties
  <2> QED
    BY <1>7, <1>11, <2>1, EvenIsNotOdd
<1>15. x.data = d
  BY <1>4 DEF IsOf
<1> QED
  BY <1>8, <1>12, <1>13, <1>14, <1>15 DEF LongList

LEMMA ShortListRead ==
  ASSUME NEW e, T!IsExtension(e), e.type = 43, NEW x, IsOf(x, e)
  PROVE  ShortList(x) = e.list /\ ~IsOdd(x.data[1])
<1>1. e.list \in Seq(Nat)
  BY ExtensionType DEF Kind
<1>2. PICK t \in Seq(Nat) : t = T!Twos(e.list)
  BY <1>1, PairsType
<1>3. PICK d \in Seq(Nat) : d = T!WithLen1(t) /\ Len(d) = Len(t) + 1
  BY WithLenType
<1>4. T!Data(e) = d
  BY <1>2, <1>3, DataCases
<1>5. Lies(d, d, 0)
  BY LiesWhole
<1>6. d[0 + 1] = Len(t) /\ Lies(t, d, 0 + 1)
  BY <1>3, <1>5, ShortLies
<1>7. d[1] = Len(t) /\ Lies(t, d, 1)
  BY <1>6
<1>8. PICK buffer \in Seq(Nat) : buffer = d \o x.behind /\ Lies(d, buffer, 0)
  BY <1>3, LiesBefore DEF IsOf
<1>9. Lies(t, buffer, 0 + 1)
  BY <1>3, <1>8, ShortLies
<1>10. Lies(t, buffer, 1)
  BY <1>9
<1>11. Len(t) = 2 * Len(e.list) /\ U16s(buffer, 1 + 1, 2 * Len(e.list)) = e.list
  BY <1>1, <1>2, <1>10, TwosLie, ZenonT(60)
<1>12. U16s(buffer, 2, d[1]) = e.list
  BY <1>7, <1>11
<1>13. HasShort(d)
  <2>1. Len(t) \in Nat
    BY LenProperties
  <2> QED
    BY <1>3, <1>7, <2>1 DEF HasShort
<1>14. ~IsOdd(d[1])
  <2>1. Len(e.list) \in Nat
    BY <1>1, LenProperties
  <2> QED
    BY <1>7, <1>11, <2>1, EvenIsNotOdd
<1>15. x.data = d
  BY <1>4 DEF IsOf
<1> QED
  BY <1>8, <1>12, <1>13, <1>14, <1>15 DEF ShortList

LEMMA PointListRead ==
  ASSUME NEW e, T!IsExtension(e), e.type = 11, NEW x, IsOf(x, e)
  PROVE  PointList(x) = e.list
<1>1. PICK t \in Seq(Nat) : t = e.list
  BY ExtensionType DEF Kind
<1>2. PICK d \in Seq(Nat) : d = T!WithLen1(t) /\ Len(d) = Len(t) + 1
  BY WithLenType
<1>3. T!Data(e) = d
  BY <1>1, <1>2, DataCases
<1>4. Lies(d, d, 0)
  BY LiesWhole
<1>5. d[0 + 1] = Len(t) /\ Lies(t, d, 0 + 1)
  BY <1>2, <1>4, ShortLies
<1>6. d[1] = Len(t) /\ Lies(t, d, 1)
  BY <1>5
<1>7. SubSeq(d, 1 + 1, 1 + Len(t)) = t
  BY <1>6, LiesAt
<1>8. SubSeq(d, 2, 1 + d[1]) = t
  BY <1>6, <1>7
<1>9. HasShort(d)
  <2>1. Len(t) \in Nat
    BY LenProperties
  <2> QED
    BY <1>2, <1>6, <2>1 DEF HasShort
<1>10. x.data = d
  BY <1>3 DEF IsOf
<1> QED
  BY <1>1, <1>8, <1>9, <1>10 DEF PointList

LEMMA FirstProtocolRead ==
  ASSUME NEW e, T!IsExtension(e), e.type = 16, NEW x, IsOf(x, e)
  PROVE  FirstProtocol(x) =
           IF e.list = <<>> THEN <<>> ELSE <<<<e.list[1][1], e.list[1][Len(e.list[1])]>>>>
<1>1. e.list \in Seq(Seq(Nat) \ {<<>>}) /\ e.list \in Seq(Seq(Nat))
  BY ExtensionType DEF Kind
<1>2. PICK t \in Seq(Nat) : t = FlattenSeq(Names(e.list))
  BY <1>1, NamesType
<1>3. PICK d \in Seq(Nat) : d = T!WithLen2(t) /\ Len(d) = Len(t) + 2
  BY WithLenType
<1>4. x.data = d
  BY <1>2, <1>3, DataCases DEF IsOf
<1>5. Lies(d, d, 0) /\ Len(d) \in Nat /\ Len(t) \in Nat
  BY LiesWhole, LenProperties
<1>6. U16(d, 0 + 1) = Len(t) /\ Lies(t, d, 0 + 2)
  BY <1>3, <1>5, LongLies
<1>7. U16(d, 1) = Len(t) /\ Lies(t, d, 2)
  BY <1>6
<1>8. CASE e.list = <<>>
  <2>1. Len(Names(e.list)) = 0
    BY <1>1, <1>8, NamesType, EmptySeq
  <2>2. t = <<>>
    BY <1>1, <1>2, <2>1, NamesType, FlattenNone
  <2>3. U16(d, 1) = 0
    BY <1>7, <2>2, EmptySeq
  <2> QED
    BY <1>4, <1>8, <2>3 DEF FirstProtocol
<1>9. CASE e.list # <<>>
  <2>1. Len(e.list) \in Nat /\ 1 \in 1..Len(e.list)
    BY <1>1, <1>9, EmptySeq
  <2>2. PICK y \in Seq(Nat) : y = e.list[1] /\ y # <<>>
    BY <1>1, <2>1, ElementOfSeq
  <2>3. Len(y) \in Nat \ {0}
    BY <2>2, EmptySeq
  <2>4. PICK w \in Seq(Nat) : w = T!WithLen1(y) /\ Len(w) = Len(y) + 1
    BY WithLenType
  <2>5. PICK at : PartsLie(Names(e.list), d, 2, at)
    BY <1>1, <1>2, <1>5, <1>7, NamesType, LiesFlatten
  <2>6. Lies(w, d, 2)
    <3>1. 1 \in 1..Len(Names(e.list)) /\ Names(e.list)[1] = w
      BY <1>1, <2>1, <2>2, <2>4, NamesType
    <3>2. Lies(Names(e.list)[1], d, at[1 - 1]) /\ at[0] = 2
      BY <2>5, <3>1 DEF PartsLie
    <3> QED
      BY <3>1, <3>2
  <2>7. d[2 + 1] = Len(y) /\ Lies(y, d, 2 + 1)
    BY <2>4, <2>6, ShortLies
  <2>8. d[3] = Len(y) /\ Lies(y, d, 3)
    BY <2>7
  <2>9. 3 + Len(y) <= Len(d) /\ d[3 + 1] = y[1] /\ d[3 + Len(y)] = y[Len(y)]
    BY <2>3, <2>8 DEF Lies
  <2>10. Len(t) > 1 /\ Len(d) >= 2 /\ Len(d) >= 2 + Len(t)
    BY <1>3, <1>5, <2>3, <2>9, SMTT(40)
  <2>11. /\ HasLong(d) /\ U16(d, 1) > 1
         /\ d[3] > 0 /\ Len(d) >= 3 + d[3]
    <3>1. Len(d) >= 2 + U16(d, 1) /\ U16(d, 1) > 1
      BY <1>7, <2>10
    <3>2. Len(y) > 0 /\ Len(d) >= 3 + Len(y)
      BY <1>5, <2>3, <2>9
    <3>3. d[3] > 0 /\ Len(d) >= 3 + d[3]
      BY <2>8, <3>2
    <3> QED
      BY <2>10, <3>1, <3>3 DEF HasLong
  <2>12. d[4] = y[1] /\ d[3 + d[3]] = y[Len(y)]
    BY <2>8, <2>9
  <2> QED
    BY <1>4, <1>9, <2>2, <2>11, <2>12 DEF FirstProtocol
<1> QED
  BY <1>8, <1>9

-----------------------------------------------------------------------------
(* What is gathered from the extensions of a type. *)

Gathered(hello, type, lists) ==
  FlattenSeq([i \in DOMAIN hello.exts |->
                IF hello.exts[i].type = type THEN lists[i] ELSE <<>>])
Lists(hello) == [i \in DOMAIN hello.exts |-> hello.exts[i].list]
Firsts(exts) == [i \in DOMAIN exts |-> FirstProtocol(exts[i])]

\* There is at most one extension of the type.
OneOrNone(hello, type, lists, result) ==
  \/ result = <<>> /\ \A k \in 1..Len(hello.exts) : hello.exts[k].type # type
  \/ \E k \in 1..Len(hello.exts) : hello.exts[k].type = type /\ result = lists[k]

LEMMA GatheredOne ==
  ASSUME NEW hello, T!IsHello(hello), NEW type, NEW lists, NEW Items,
         \A k \in 1..Len(hello.exts) : hello.exts[k].type = type => lists[k] \in Seq(Items)
  PROVE  /\ OneOrNone(hello, type, lists, Gathered(hello, type, lists))
         /\ Gathered(hello, type, lists) \in Seq(Items)
<1>1. PICK n \in Nat : n = Len(hello.exts) /\ DOMAIN hello.exts = 1..n
  BY HelloParts
<1>2. PICK ss : ss = [i \in 1..n |-> IF hello.exts[i].type = type THEN lists[i] ELSE <<>>]
  OBVIOUS
<1>3. ss \in [1..n -> Seq(Items)]
  BY <1>1, <1>2, EmptySeq
<1>4. ss \in Seq(Seq(Items)) /\ Len(ss) = n
  BY <1>3, SeqOfFunction
<1>5. Gathered(hello, type, lists) = FlattenSeq(ss)
  BY <1>1, <1>2 DEF Gathered
<1>6. CASE \A k \in 1..n : hello.exts[k].type # type
  <2>1. \A k \in 1..Len(ss) : ss[k] = <<>>
    BY <1>2, <1>4, <1>6
  <2>2. FlattenSeq(ss) = <<>>
    BY <1>4, <2>1, FlattenNone
  <2> QED
    BY <1>1, <1>5, <1>6, <2>2, EmptySeq DEF OneOrNone
<1>7. CASE \E k \in 1..n : hello.exts[k].type = type
  <2>1. PICK one \in 1..n : hello.exts[one].type = type
    BY <1>7
  <2>2. \A k \in 1..n : hello.exts[k].type = type => k = one
    BY <1>1, <2>1 DEF T!IsHello
  <2>3. one \in 1..Len(ss) /\ \A k \in 1..Len(ss) : k # one => ss[k] = <<>>
    BY <1>2, <1>4, <2>2
  <2>4. FlattenSeq(ss) = ss[one]
    BY <1>4, <2>3, FlattenOne
  <2>5. ss[one] = lists[one] /\ lists[one] \in Seq(Items)
    BY <1>1, <1>2, <2>1
  <2> QED
    BY <1>1, <1>5, <2>1, <2>4, <2>5 DEF OneOrNone
<1> QED
  BY <1>6, <1>7

LEMMA SaidGathered ==
  ASSUME NEW hello, NEW type
  PROVE  T!Said(hello, type) = Gathered(hello, type, Lists(hello))
<1>1. [i \in DOMAIN hello.exts |-> IF hello.exts[i].type = type THEN hello.exts[i].list ELSE <<>>]
      = [i \in DOMAIN hello.exts |-> IF hello.exts[i].type = type THEN Lists(hello)[i] ELSE <<>>]
  BY DEF Lists
<1> QED
  BY <1>1, SameFlatten DEF T!Said, Gathered

LEMMA FoundFields ==
  ASSUME NEW hello, NEW exts, Finds(exts, hello)
  PROVE  /\ DOMAIN exts = DOMAIN hello.exts
         /\ \A i \in DOMAIN hello.exts :
              exts[i].type = hello.exts[i].type /\ exts[i].read /\ IsOf(exts[i], hello.exts[i])
BY DEF Finds, IsOf

LEMMA CollectExact ==
  ASSUME NEW hello, T!IsHello(hello), NEW exts, Finds(exts, hello)
  PROVE  /\ Collect(exts, Groups, LongList) = T!Said(hello, 10)
         /\ Collect(exts, SigAlgs, LongList) = T!Said(hello, 13)
         /\ Collect(exts, PointFormats, PointList) = T!Said(hello, 11)
         /\ Collect(exts, SupportedVersions, ShortList) = T!Said(hello, 43)
         /\ Collect(exts, ALPN, FirstProtocol) = Gathered(hello, 16, Firsts(exts))
<1>1. \A i \in DOMAIN hello.exts : T!IsExtension(hello.exts[i])
  BY HelloParts, ZenonT(60)
<1>2. ASSUME NEW i \in DOMAIN hello.exts, NEW e, e = hello.exts[i]
      PROVE  /\ e.type = 10 => LongList(exts[i]) = e.list
             /\ e.type = 13 => LongList(exts[i]) = e.list
             /\ e.type = 11 => PointList(exts[i]) = e.list
             /\ e.type = 43 => ShortList(exts[i]) = e.list
  <2>1. PICK x : x = exts[i] /\ IsOf(x, e) /\ T!IsExtension(e)
    BY <1>1, <1>2, FoundFields
  <2>2. e.type \in {10, 13} => LongList(x) = e.list
    BY <2>1, LongListRead
  <2>3. e.type = 11 => PointList(x) = e.list
    BY <2>1, PointListRead
  <2>4. e.type = 43 => ShortList(x) = e.list
    BY <2>1, ShortListRead
  <2> QED
    BY <2>1, <2>2, <2>3, <2>4
<1>3. Collect(exts, Groups, LongList) = T!Said(hello, 10)
  BY <1>2, FoundFields, SameFlatten, ZenonT(60) DEF Collect, Groups, T!Said
<1>4. Collect(exts, SigAlgs, LongList) = T!Said(hello, 13)
  BY <1>2, FoundFields, SameFlatten, ZenonT(60) DEF Collect, SigAlgs, T!Said
<1>5. Collect(exts, PointFormats, PointList) = T!Said(hello, 11)
  BY <1>2, FoundFields, SameFlatten, ZenonT(60) DEF Collect, PointFormats, T!Said
<1>6. Collect(exts, SupportedVersions, ShortList) = T!Said(hello, 43)
  <2>1. ASSUME NEW i \in DOMAIN hello.exts
        PROVE  (IF exts[i].type = 43 /\ exts[i].read THEN ShortList(exts[i]) ELSE <<>>)
               = IF hello.exts[i].type = 43 THEN hello.exts[i].list ELSE <<>>
    BY <1>2, FoundFields
  <2> QED
    BY <2>1, FoundFields, SameFlatten DEF Collect, SupportedVersions, T!Said
<1>7. Collect(exts, ALPN, FirstProtocol) = Gathered(hello, 16, Firsts(exts))
  BY FoundFields DEF Collect, ALPN, Gathered, Firsts
<1> QED
  BY <1>3, <1>4, <1>5, <1>6, <1>7

\* A list a client says has whole numbers only.
LEMMA NothingOverruns ==
  ASSUME NEW hello, T!IsHello(hello), NEW exts, Finds(exts, hello)
  PROVE  /\ ~LongOverrun(exts, Groups) /\ ~LongOverrun(exts, SigAlgs)
         /\ ~ShortOverrun(exts, SupportedVersions)
<1>1. ASSUME NEW i \in DOMAIN exts
      PROVE  /\ exts[i].type \in {10, 13} => ~IsOdd(U16(exts[i].data, 1))
             /\ exts[i].type = 43 => ~IsOdd(exts[i].data[1])
  <2>1. PICK x, e : x = exts[i] /\ e = hello.exts[i]
    OBVIOUS
  <2>2. i \in DOMAIN hello.exts
    BY <1>1, FoundFields
  <2>3. IsOf(x, e) /\ x.type = e.type
    BY <2>1, <2>2, FoundFields
  <2>4. T!IsExtension(e)
    BY <2>1, <2>2, HelloParts, ZenonT(60)
  <2>5. x.type \in {10, 13} => ~IsOdd(U16(x.data, 1))
    BY <2>3, <2>4, LongListRead
  <2>6. x.type = 43 => ~IsOdd(x.data[1])
    BY <2>3, <2>4, ShortListRead
  <2> QED
    BY <2>1, <2>5, <2>6
<1> QED
  BY <1>1, ZenonT(60) DEF LongOverrun, ShortOverrun, Groups, SigAlgs, SupportedVersions

-----------------------------------------------------------------------------
(* GREASE. *)

LEMMA GreasePattern ==
  ASSUME NEW v \in T!GREASE
  PROVE  IsGREASE(v)
<1>1. PICK k \in 0..15 : v = 257 * (16 * k + 10)
  BY DEF T!GREASE
<1>2. k \in {0, 1, 2, 3, 4, 5, 6, 7, 8, 9, 10, 11, 12, 13, 14, 15}
  BY <1>1
<1> QED
  BY <1>1, <1>2 DEF IsGREASE

LEMMA PlainExact ==
  ASSUME NEW vs, \A i \in DOMAIN vs : IsGREASE(vs[i]) => vs[i] \in T!GREASE
  PROVE  NoGREASE(vs) = T!Plain(vs)
<1>1. \A i \in DOMAIN vs : (IF IsGREASE(vs[i]) THEN <<>> ELSE <<vs[i]>>)
                           = IF vs[i] \in T!GREASE THEN <<>> ELSE <<vs[i]>>
  BY GreasePattern
<1> QED
  BY <1>1, SameFlatten DEF NoGREASE, T!Plain

LEMMA PlainType ==
  ASSUME NEW vs \in Seq(Nat)
  PROVE  NoGREASE(vs) \in Seq(Nat)
<1>1. PICK n \in Nat : n = Len(vs) /\ DOMAIN vs = 1..n /\ \A i \in 1..n : vs[i] \in Nat
  BY LenProperties, ElementOfSeq
<1>2. PICK ss : ss = [i \in 1..n |-> IF IsGREASE(vs[i]) THEN <<>> ELSE <<vs[i]>>]
  OBVIOUS
<1>3. \A i \in 1..n : <<vs[i]>> \in Seq(Nat) /\ <<>> \in Seq(Nat)
  BY <1>1, EmptySeq
<1>4. ss \in [1..n -> Seq(Nat)]
  BY <1>2, <1>3
<1>5. ss \in Seq(Seq(Nat))
  BY <1>4, SeqOfFunction
<1> QED
  BY <1>1, <1>2, <1>5, FlattenType DEF NoGREASE

LEMMA ListsPlain ==
  ASSUME NEW hello, T!IsHello(hello), NEW exts, Finds(exts, hello)
  PROVE  /\ NoGREASE(hello.ciphers) = T!Plain(hello.ciphers)
         /\ Types(exts) = T!Kinds(hello)
         /\ \A type \in {10, 13} : NoGREASE(T!Said(hello, type)) = T!Plain(T!Said(hello, type))
<1>1. \A v \in T!Numbers(hello) : IsGREASE(v) => v \in T!GREASE
  BY DEF T!IsHello, T!H!IsGREASE, IsGREASE
<1>2. PICK n \in Nat : n = Len(hello.exts) /\ DOMAIN hello.exts = 1..n
  BY HelloParts
<1>3. \A k \in 1..n : hello.exts[k] \in T!ToSet(hello.exts)
  BY <1>2 DEF T!ToSet
<1>4. NoGREASE(hello.ciphers) = T!Plain(hello.ciphers)
  <2>1. \A i \in DOMAIN hello.ciphers : hello.ciphers[i] \in T!Numbers(hello)
    BY DEF T!Numbers, T!ToSet
  <2> QED
    BY <1>1, <2>1, PlainExact
<1>5. Types(exts) = T!Kinds(hello)
  <2>1. PICK ts : ts = [i \in DOMAIN hello.exts |-> hello.exts[i].type]
    OBVIOUS
  <2>2. \A i \in DOMAIN ts : ts[i] \in T!Numbers(hello)
    BY <1>2, <1>3, <2>1 DEF T!Numbers
  <2>3. [i \in DOMAIN exts |-> exts[i].type] = ts
    BY <2>1, FoundFields
  <2>4. NoGREASE(ts) = T!Plain(ts)
    BY <1>1, <2>2, PlainExact
  <2> QED
    BY <2>1, <2>3, <2>4 DEF Types, T!Kinds
<1>6. ASSUME NEW type \in {10, 13}
      PROVE  NoGREASE(T!Said(hello, type)) = T!Plain(T!Said(hello, type))
  <2>1. ASSUME NEW k \in 1..n, hello.exts[k].type = type
        PROVE  Lists(hello)[k] = hello.exts[k].list /\ Lists(hello)[k] \in Seq(Nat)
    BY <1>2, <2>1, HelloParts, ExtensionType, SMTT(40) DEF Lists, Kind
  <2>2. OneOrNone(hello, type, Lists(hello), T!Said(hello, type))
    BY <1>2, <2>1, GatheredOne, SaidGathered
  <2>3. ASSUME NEW i \in DOMAIN T!Said(hello, type)
        PROVE  T!Said(hello, type)[i] \in T!Numbers(hello)
    <3>1. CASE T!Said(hello, type) = <<>>
      BY <2>3, <3>1
    <3>2. CASE T!Said(hello, type) # <<>>
      <4>1. PICK k \in 1..n : hello.exts[k].type = type /\ T!Said(hello, type) = hello.exts[k].list
        BY <1>2, <2>1, <2>2, <3>2 DEF OneOrNone
      <4>2. T!Said(hello, type)[i] \in T!ToSet(hello.exts[k].list)
        BY <2>3, <4>1 DEF T!ToSet
      <4>3. hello.exts[k].type \in {T!H!Groups, T!H!SigAlgs}
        BY <4>1 DEF T!H!Groups, T!H!SigAlgs
      <4> QED
        BY <1>3, <4>2, <4>3 DEF T!Numbers
    <3> QED
      BY <3>1, <3>2
  <2> QED
    BY <1>1, <2>3, PlainExact
<1> QED
  BY <1>4, <1>5, <1>6

-----------------------------------------------------------------------------
(* Sorting by rank. *)

Before(vs, i, j) == vs[i] < vs[j] \/ (vs[i] = vs[j] /\ i <= j)
Below(vs, i) == {j \in DOMAIN vs : Before(vs, j, i)}
Ranks(vs) == [i \in DOMAIN vs |-> Cardinality(Below(vs, i))]
Places(vs) == [k \in DOMAIN vs |-> CHOOSE i \in DOMAIN vs : Ranks(vs)[i] = k]

LEMMA RankGrows ==
  ASSUME NEW vs \in Seq(Nat), NEW i \in DOMAIN vs, NEW j \in DOMAIN vs, i # j, Before(vs, i, j)
  PROVE  Ranks(vs)[i] < Ranks(vs)[j]
<1>1. PICK n \in Nat : n = Len(vs) /\ DOMAIN vs = 1..n /\ \A k \in 1..n : vs[k] \in Nat
  BY LenProperties, ElementOfSeq
<1>2. IsFiniteSet(1..n)
  BY FS_Interval
<1>3. Below(vs, i) \in SUBSET (1..n) /\ Below(vs, j) \in SUBSET (1..n)
  BY <1>1 DEF Below
<1>4. IsFiniteSet(Below(vs, i)) /\ IsFiniteSet(Below(vs, j))
  BY <1>2, <1>3, FS_Subset
<1>5. Below(vs, i) \in SUBSET Below(vs, j)
  BY <1>1 DEF Below, Before
<1>6. j \in Below(vs, j) /\ j \notin Below(vs, i)
  BY <1>1 DEF Below, Before
<1>7. Cardinality(Below(vs, i)) <= Cardinality(Below(vs, j))
  BY <1>4, <1>5, FS_Subset
<1>8. Cardinality(Below(vs, i)) # Cardinality(Below(vs, j))
  BY <1>4, <1>5, <1>6, FS_Subset
<1>9. Cardinality(Below(vs, i)) \in Nat /\ Cardinality(Below(vs, j)) \in Nat
  BY <1>4, FS_CardinalityType
<1> QED
  BY <1>7, <1>8, <1>9 DEF Ranks

LEMMA RankPlaces ==
  ASSUME NEW vs \in Seq(Nat)
  PROVE  LET Spots == DOMAIN vs
         IN  /\ Ranks(vs) \in [Spots -> Spots] /\ Places(vs) \in [Spots -> Spots]
             /\ \A k \in Spots : Ranks(vs)[Places(vs)[k]] = k /\ Places(vs)[Ranks(vs)[k]] = k
<1>1. PICK n \in Nat : n = Len(vs) /\ DOMAIN vs = 1..n /\ \A k \in 1..n : vs[k] \in Nat
  BY LenProperties, ElementOfSeq
<1>2. IsFiniteSet(1..n) /\ Cardinality(1..n) = n
  BY FS_Interval
<1>3. ASSUME NEW i \in 1..n PROVE Ranks(vs)[i] \in 1..n
  <2>1. Below(vs, i) \in SUBSET (1..n) /\ i \in Below(vs, i)
    BY <1>1 DEF Below, Before
  <2>2. IsFiniteSet(Below(vs, i)) /\ Cardinality(Below(vs, i)) <= n
    BY <1>2, <2>1, FS_Subset
  <2>3. Cardinality(Below(vs, i)) \in Nat /\ Cardinality(Below(vs, i)) # 0
    BY <2>1, <2>2, FS_CardinalityType, FS_EmptySet
  <2> QED
    BY <1>1, <2>2, <2>3 DEF Ranks
<1>4. PICK r : r = Ranks(vs)
  OBVIOUS
<1>5. r \in [1..n -> 1..n]
  BY <1>1, <1>3, <1>4 DEF Ranks
<1>6. ASSUME NEW i \in 1..n, NEW j \in 1..n, r[i] = r[j] PROVE i = j
  <2> SUFFICES ASSUME i # j PROVE FALSE
    OBVIOUS
  <2>1. Before(vs, i, j) \/ Before(vs, j, i)
    BY <1>1 DEF Before
  <2>2. r[i] < r[j] \/ r[j] < r[i]
    BY <1>1, <1>4, <2>1, RankGrows
  <2> QED
    BY <1>5, <1>6, <2>2
<1>7. r \in Injection(1..n, 1..n)
  BY <1>5, <1>6 DEF Injection, IsInjective
<1>8. r \in Surjection(1..n, 1..n)
  BY <1>2, <1>7, FS_Injection
<1>9. \A k \in 1..n : \E i \in 1..n : r[i] = k
  BY <1>8 DEF Surjection
<1>10. PICK p : p = Places(vs)
  OBVIOUS
<1>11. ASSUME NEW k \in 1..n PROVE p[k] \in 1..n /\ r[p[k]] = k
  BY <1>1, <1>4, <1>9, <1>10 DEF Places
<1>12. p \in [1..n -> 1..n]
  BY <1>1, <1>10, <1>11 DEF Places
<1>13. ASSUME NEW k \in 1..n PROVE p[r[k]] = k
  <2>1. r[k] \in 1..n
    BY <1>5
  <2>2. p[r[k]] \in 1..n /\ r[p[r[k]]] = r[k]
    BY <1>11, <2>1
  <2> QED
    BY <1>6, <2>2
<1> QED
  BY <1>1, <1>4, <1>5, <1>10, <1>11, <1>12, <1>13

LEMMA SameCardinality == \A set : T!Cardinality(set) = Cardinality(set)
  BY DEF T!Cardinality, Cardinality

LEMMA SortedExact ==
  ASSUME NEW vs \in Seq(Nat)
  PROVE  T!IsSortOf(Sorted(vs), vs)
<1>1. PICK n \in Nat : n = Len(vs) /\ DOMAIN vs = 1..n /\ \A k \in 1..n : vs[k] \in Nat
  BY LenProperties, ElementOfSeq
<1>2. PICK s, p, r : s = Sorted(vs) /\ p = Places(vs) /\ r = Ranks(vs)
  OBVIOUS
<1>3. /\ p \in [1..n -> 1..n] /\ r \in [1..n -> 1..n]
      /\ \A k \in 1..n : r[p[k]] = k /\ p[r[k]] = k
  BY <1>1, <1>2, RankPlaces
<1>4. s = [k \in 1..n |-> vs[p[k]]]
  <2>1. \A i \in 1..n : r[i] = Cardinality({j \in DOMAIN vs : vs[j] < vs[i] \/ (vs[j] = vs[i] /\ j <= i)})
    BY <1>1, <1>2 DEF Ranks, Below, Before
  <2> DEFINE Rank(i) == Cardinality({j \in DOMAIN vs : vs[j] < vs[i] \/ (vs[j] = vs[i] /\ j <= i)})
  <2>2. ASSUME NEW k \in 1..n
        PROVE  (CHOOSE i \in DOMAIN vs : Rank(i) = k) = p[k]
    <3>1. p[k] = CHOOSE i \in DOMAIN vs : r[i] = k
      BY <1>1, <1>2 DEF Places
    <3>2. \A i \in DOMAIN vs : r[i] = Rank(i)
      BY <1>1, <2>1
    <3> HIDE DEF Rank
    <3>3. \A i : (i \in DOMAIN vs /\ Rank(i) = k) <=> (i \in DOMAIN vs /\ r[i] = k)
      BY <3>2
    <3> QED
      BY <3>1, <3>3
  <2>3. Sorted(vs) = [k \in DOMAIN vs |-> vs[CHOOSE i \in DOMAIN vs : Rank(i) = k]]
    BY DEF Sorted
  <2> HIDE DEF Rank
  <2> QED
    BY <1>1, <1>2, <2>2, <2>3
<1>5. ASSUME NEW i \in 1..n, NEW j \in 1..n, i < j PROVE s[i] <= s[j]
  <2>1. p[i] \in 1..n /\ p[j] \in 1..n /\ r[p[i]] = i /\ r[p[j]] = j
    BY <1>3
  <2>2. s[i] = vs[p[i]] /\ s[j] = vs[p[j]] /\ s[i] \in Nat /\ s[j] \in Nat
    BY <1>1, <1>4, <2>1
  <2> SUFFICES ASSUME s[j] < s[i] PROVE FALSE
    BY <2>2
  <2>3. Before(vs, p[j], p[i]) /\ p[j] # p[i]
    BY <2>2 DEF Before
  <2>4. r[p[j]] < r[p[i]]
    BY <1>1, <1>2, <2>1, <2>3, RankGrows
  <2> QED
    BY <1>5, <2>1, <2>4
<1>6. ASSUME NEW v
      PROVE  Cardinality({i \in 1..n : s[i] = v}) = Cardinality({i \in 1..n : vs[i] = v})
  <2>1. PICK A, B : A = {i \in 1..n : s[i] = v} /\ B = {i \in 1..n : vs[i] = v}
    OBVIOUS
  <2>2. PICK f : f = [k \in A |-> p[k]]
    OBVIOUS
  <2>3. f \in [A -> B] /\ \A k \in A : k \in 1..n /\ f[k] = p[k]
    BY <1>3, <1>4, <2>1, <2>2
  <2>4. \A j, k \in A : f[j] = f[k] => j = k
    BY <1>3, <2>3
  <2>5. f \in Injection(A, B)
    BY <2>3, <2>4 DEF Injection, IsInjective
  <2>6. ASSUME NEW i \in B PROVE \E k \in A : f[k] = i
    <3>1. i \in 1..n /\ vs[i] = v /\ r[i] \in 1..n /\ p[r[i]] = i
      BY <1>3, <2>1
    <3>2. s[r[i]] = v
      BY <1>4, <3>1
    <3>3. r[i] \in A
      BY <2>1, <3>1, <3>2
    <3> QED
      BY <2>3, <3>1, <3>3
  <2>7. f \in Surjection(A, B)
    BY <2>3, <2>6 DEF Surjection
  <2>8. ExistsBijection(A, B)
    BY <2>5, <2>7 DEF ExistsBijection, Bijection
  <2>9. IsFiniteSet(A)
    <3>1. A \in SUBSET (1..n) /\ IsFiniteSet(1..n)
      BY <2>1, FS_Interval
    <3> QED
      BY <3>1, FS_Subset
  <2> QED
    BY <2>1, <2>8, <2>9, FS_Bijection
<1>7. DOMAIN s = 1..n
  BY <1>4
<1>8. \A v : Cardinality({i \in DOMAIN s : s[i] = v}) = Cardinality({i \in DOMAIN vs : vs[i] = v})
  BY <1>1, <1>6, <1>7
<1>9. \A i, j \in DOMAIN s : i < j => s[i] <= s[j]
  BY <1>5, <1>7
<1>10. T!IsSortOf(s, vs)
  BY <1>8, <1>9, SameCardinality DEF T!IsSortOf
<1> QED
  BY <1>2, <1>10

-----------------------------------------------------------------------------
(* The fingerprints of a hello. *)

LEMMA WholeSegment ==
  ASSUME NEW hello, T!IsHello(hello), NEW more \in Seq(Nat)
  PROVE  LET seg == T!Segment(hello, 0, more)
         IN  /\ IsWhole(seg) /\ seg.version = hello.version
             /\ Handshake(seg) = T!Bytes(hello) /\ seg.body \in Seq(Nat)
<1>1. PICK b \in Seq(Nat), n \in Nat : b = T!Bytes(hello) /\ n = Len(b)
  BY BytesShape, LenProperties DEF Shape
<1>2. n >= 2
  <2>1. Shape(hello, b)
    BY <1>1, BytesShape
  <2>2. IsComplete(b) /\ CompressionAt(b) = Len(hello.session) + 3 + 2 * Len(hello.ciphers) + 1
    BY <2>1, FieldsFound
  <2>3. PICK x \in Nat, y \in Nat : x = Len(hello.session) /\ y = Len(hello.ciphers)
    BY HelloParts, LenProperties
  <2>4. CompressionAt(b) <= n
    BY <1>1, <2>2 DEF IsComplete
  <2>5. CompressionAt(b) = x + 3 + 2 * y + 1
    BY <2>2, <2>3
  <2>6. x + 3 + 2 * y + 1 <= n
    BY <2>4, <2>5
  <2>7. 2 <= x + 3 + 2 * y + 1
    OBVIOUS
  <2> QED
    BY <2>6, <2>7
<1>3. SubSeq(b, 1, n - 0) = b
  BY <1>1, LiesWhole, LiesAt
<1>4. PICK body : body = b \o more
  OBVIOUS
<1>5. T!Segment(hello, 0, more) = [version |-> hello.version, declared |-> n, body |-> body]
  BY <1>1, <1>3, <1>4 DEF T!Segment
<1>6. body \in Seq(Nat) /\ Lies(body, body, 0)
  BY <1>4, ConcatProperties, LiesWhole
<1>7. Len(body) \in Nat
  BY <1>6, LenProperties
<1>8. Lies(b, body, 0) /\ Len(body) = n + Len(more) /\ Len(more) \in Nat
  BY <1>1, <1>4, <1>6, <1>7, LiesConcat, LenProperties
<1>9. SubSeq(body, 0 + 1, 0 + n) = b
  BY <1>1, <1>6, <1>8, LiesAt
<1>10. SubSeq(body, 1, n) = b
  BY <1>9
<1> QED
  BY <1>1, <1>2, <1>5, <1>6, <1>8, <1>10 DEF IsWhole, Handshake

LEMMA CutSegment ==
  ASSUME NEW hello, T!IsHello(hello), NEW cut \in 1..Len(T!Bytes(hello))
  PROVE  ~IsWhole(T!Segment(hello, cut, <<>>))
<1>1. PICK b \in Seq(Nat), n \in Nat : b = T!Bytes(hello) /\ n = Len(b)
  BY BytesShape, LenProperties DEF Shape
<1>2. PICK s : s = SubSeq(b, 1, n - cut)
  OBVIOUS
<1>3. s \in Seq(Nat) /\ Len(s) = n - cut
  <2>1. \A i \in 1..(n - cut) : b[i] \in Nat
    BY <1>1, ElementOfSeq
  <2> QED
    BY <1>1, <1>2, <2>1, SubSeqProperties
<1>4. s \o <<>> = s
  BY <1>3, ConcatEmptySeq
<1>5. T!Segment(hello, cut, <<>>) = [version |-> hello.version, declared |-> n, body |-> s]
  BY <1>1, <1>2, <1>4 DEF T!Segment
<1> QED
  BY <1>1, <1>3, <1>5 DEF IsWhole

\* All that is read of the record of a hello.
IsRead(s, hello) ==
  /\ IsWhole(s) /\ s.version = hello.version
  /\ IsComplete(Handshake(s)) /\ ~CiphersOverrun(Handshake(s), s.body)
  /\ Ciphers(Handshake(s)) = T!Plain(hello.ciphers) /\ Ciphers(Handshake(s)) \in Seq(Nat)
  /\ Finds(Extensions(Handshake(s), s.body), hello)

LEMMA RecordRead ==
  ASSUME NEW hello, T!IsHello(hello), NEW more \in Seq(Nat)
  PROVE  IsRead(T!Segment(hello, 0, more), hello)
<1>1. PICK s, h : s = T!Segment(hello, 0, more) /\ h = T!Bytes(hello)
  OBVIOUS
<1>2. IsWhole(s) /\ s.version = hello.version /\ Handshake(s) = h /\ s.body \in Seq(Nat)
  BY <1>1, WholeSegment
<1>3. Shape(hello, h)
  BY <1>1, BytesShape
<1>4. IsComplete(h) /\ ~CiphersOverrun(h, s.body)
  BY <1>3, FieldsFound DEF CiphersOverrun
<1>5. Finds(Extensions(h, s.body), hello)
  BY <1>2, <1>3, ExtensionsExact
<1>6. Ciphers(h) = T!Plain(hello.ciphers)
  BY <1>3, <1>5, FieldsFound, ListsPlain DEF Ciphers
<1>7. Ciphers(h) \in Seq(Nat)
  BY <1>3, FieldsFound, HelloParts, PlainType, ZenonT(60) DEF Ciphers
<1> QED
  BY <1>1, <1>2, <1>4, <1>5, <1>6, <1>7 DEF IsRead

LEMMA NoPanic ==
  ASSUME NEW hello, T!IsHello(hello), NEW s, IsRead(s, hello)
  PROVE  ~JA3Panics(s) /\ ~JA4Panics(s)
BY NothingOverruns DEF IsRead, JA3Panics, JA4Panics

LEMMA JA3Exact ==
  ASSUME NEW hello, T!IsHello(hello), NEW s, IsRead(s, hello)
  PROVE  ParseClientHello(s) = T!JA3(hello)
<1>1. PICK exts : exts = Extensions(Handshake(s), s.body) /\ Finds(exts, hello)
  BY DEF IsRead
<1>2. ParseClientHello(s) =
        [version |-> hello.version, ciphers |-> T!Plain(hello.ciphers),
         extensions |-> Types(exts),
         curves |-> NoGREASE(Collect(exts, Groups, LongList)),
         points |-> Collect(exts, PointFormats, PointList)]
  BY <1>1 DEF ParseClientHello, IsRead
<1>3. /\ Types(exts) = T!Kinds(hello)
      /\ NoGREASE(Collect(exts, Groups, LongList)) = T!Plain(T!Said(hello, 10))
      /\ Collect(exts, PointFormats, PointList) = T!Said(hello, 11)
  BY <1>1, ListsPlain, CollectExact
<1> QED
  BY <1>2, <1>3 DEF T!JA3, T!H!Groups, T!H!PointFormats

\* The first protocol, of the one extension that can name some.
LEMMA ProtocolExact ==
  ASSUME NEW hello, T!IsHello(hello), NEW exts, Finds(exts, hello)
  PROVE  LET protocols == Collect(exts, ALPN, FirstProtocol)
             first == T!Said(hello, 16)[1]
         IN  (IF protocols = <<>> THEN <<>> ELSE Last(protocols))
             = IF T!Said(hello, 16) = <<>> THEN <<>> ELSE <<T!Head(first), T!Last(first)>>
<1>1. PICK n \in Nat : n = Len(hello.exts) /\ \A k \in 1..n : T!IsExtension(hello.exts[k])
  BY HelloParts, ZenonT(60)
<1>2. PICK protocols, said : /\ protocols = Collect(exts, ALPN, FirstProtocol)
                             /\ said = T!Said(hello, 16)
  OBVIOUS
<1>3. ASSUME NEW k \in 1..n, hello.exts[k].type = 16
      PROVE  /\ Lists(hello)[k] = hello.exts[k].list /\ Lists(hello)[k] \in Seq(Seq(Nat))
             /\ Firsts(exts)[k] = IF hello.exts[k].list = <<>> THEN <<>>
                                   ELSE <<<<hello.exts[k].list[1][1],
                                            hello.exts[k].list[1][Len(hello.exts[k].list[1])]>>>>
  <2>1. PICK e : e = hello.exts[k]
    OBVIOUS
  <2>2. T!IsExtension(e) /\ e.type = 16 /\ k \in DOMAIN hello.exts
    BY <1>1, <1>3, <2>1, HelloParts
  <2>3. /\ Lists(hello)[k] = e.list
        /\ Firsts(exts)[k] = FirstProtocol(exts[k]) /\ IsOf(exts[k], e)
    BY <2>1, <2>2, FoundFields DEF Lists, Firsts
  <2>4. e.list \in Seq(Seq(Nat))
    BY <2>2, ExtensionType
  <2>5. FirstProtocol(exts[k]) =
          IF e.list = <<>> THEN <<>> ELSE <<<<e.list[1][1], e.list[1][Len(e.list[1])]>>>>
    BY <2>2, <2>3, FirstProtocolRead
  <2> QED
    BY <2>1, <2>3, <2>4, <2>5
<1>4. ASSUME NEW k \in 1..n, hello.exts[k].type = 16
      PROVE  Firsts(exts)[k] \in Seq({Firsts(exts)[i][1] : i \in 1..n})
  <2>1. CASE Firsts(exts)[k] = <<>>
    BY <2>1, EmptySeq
  <2>2. CASE Firsts(exts)[k] # <<>>
    <3>1. PICK x : Firsts(exts)[k] = <<x>>
      BY <1>3, <1>4, <2>2
    <3>2. x = Firsts(exts)[k][1]
      BY <3>1
    <3>3. PICK Items : Items = {Firsts(exts)[i][1] : i \in 1..n}
      OBVIOUS
    <3>4. x \in Items
      BY <3>2, <3>3
    <3>5. <<x>> \in Seq(Items)
      BY <3>4
    <3> QED
      BY <3>1, <3>3, <3>5
  <2> QED
    BY <2>1, <2>2
<1>5. OneOrNone(hello, 16, Firsts(exts), protocols)
  <2>1. protocols = Gathered(hello, 16, Firsts(exts))
    BY <1>2, CollectExact, ZenonT(60)
  <2>2. OneOrNone(hello, 16, Firsts(exts), Gathered(hello, 16, Firsts(exts)))
    BY <1>1, <1>4, GatheredOne
  <2> QED
    BY <2>1, <2>2
<1>6. OneOrNone(hello, 16, Lists(hello), said)
  BY <1>1, <1>2, <1>3, GatheredOne, SaidGathered
<1>7. CASE \A k \in 1..n : hello.exts[k].type # 16
  <2>1. protocols = <<>> /\ said = <<>>
    BY <1>1, <1>5, <1>6, <1>7 DEF OneOrNone
  <2> QED
    BY <1>2, <2>1
<1>8. ASSUME NEW one \in 1..n, hello.exts[one].type = 16
      PROVE  (IF protocols = <<>> THEN <<>> ELSE Last(protocols))
             = IF said = <<>> THEN <<>> ELSE <<T!Head(said[1]), T!Last(said[1])>>
  <2>1. \A k \in 1..n : hello.exts[k].type = 16 => k = one
    BY <1>1, <1>8, HelloParts, SMTT(40) DEF T!IsHello
  <2>2. protocols = Firsts(exts)[one] /\ said = hello.exts[one].list
    BY <1>1, <1>3, <1>5, <1>6, <1>8, <2>1 DEF OneOrNone
  <2>3. CASE said = <<>>
    BY <1>3, <1>8, <2>2, <2>3
  <2>4. CASE said # <<>>
    <3>1. PICK a, b : /\ a = said[1][1] /\ b = said[1][Len(said[1])]
                      /\ protocols = <<<<a, b>>>>
      <4>1. protocols = <<<<said[1][1], said[1][Len(said[1])]>>>>
        BY <1>3, <1>8, <2>2, <2>4
      <4> QED
        BY <4>1
    <3>2. protocols # <<>> /\ Last(protocols) = <<a, b>>
      BY <3>1 DEF Last
    <3>3. T!Head(said[1]) = a /\ T!Last(said[1]) = b
      BY <3>1 DEF T!Last
    <3> QED
      BY <2>4, <3>2, <3>3
  <2> QED
    BY <2>3, <2>4
<1> QED
  BY <1>2, <1>7, <1>8

LEMMA JA4Exact ==
  ASSUME NEW hello, T!IsHello(hello), NEW s, IsRead(s, hello), MaxCount \in Nat
  PROVE  T!IsJA4(CalculateJA4(s), hello)
<1>1. PICK print, h : print = CalculateJA4(s) /\ h = Handshake(s)
  OBVIOUS
<1>2. PICK exts : exts = Extensions(h, s.body) /\ Finds(exts, hello)
  BY <1>1 DEF IsRead
<1>3. PICK protocols : protocols = Collect(exts, ALPN, FirstProtocol)
  OBVIOUS
<1>4. Types(exts) = T!Kinds(hello)
  BY <1>2, ListsPlain
<1>5. Ciphers(h) = T!Plain(hello.ciphers) /\ Ciphers(h) \in Seq(Nat)
  BY <1>1 DEF IsRead
<1>6. /\ print.version = IF 772 \in ToSet(Collect(exts, SupportedVersions, ShortList))
                         THEN 13 ELSE VersionName(hello.version)
      /\ print.sni <=> \E i \in DOMAIN exts : exts[i].type = SNI /\ exts[i].read
      /\ print.counts = <<Count(Ciphers(h)), Count(Types(exts))>>
      /\ print.alpn = IF protocols = <<>> THEN <<>> ELSE Last(protocols)
      /\ print.ciphers = Sorted(Ciphers(h)) /\ print.extensions = Sorted(Types(exts))
      /\ print.sigAlgs = NoGREASE(Collect(exts, SigAlgs, LongList))
  <2>1. print =
          [version |-> IF 772 \in ToSet(Collect(exts, SupportedVersions, ShortList))
                       THEN 13 ELSE VersionName(hello.version),
           sni |-> \E i \in DOMAIN exts : exts[i].type = SNI /\ exts[i].read,
           counts |-> <<Count(Ciphers(h)), Count(Types(exts))>>,
           alpn |-> IF protocols = <<>> THEN <<>> ELSE Last(protocols),
           ciphers |-> Sorted(Ciphers(h)),
           extensions |-> Sorted(Types(exts)),
           sigAlgs |-> NoGREASE(Collect(exts, SigAlgs, LongList))]
    BY <1>1, <1>2, <1>3 DEF CalculateJA4, IsRead
  <2> QED
    BY <2>1
<1>7. print.version = IF 772 \in T!ToSet(T!Said(hello, 43)) THEN 13 ELSE hello.version - 759
  <2>1. print.version = IF 772 \in ToSet(T!Said(hello, 43)) THEN 13 ELSE VersionName(hello.version)
    BY <1>2, <1>6, CollectExact
  <2>2. VersionName(hello.version) = hello.version - 759
    BY HelloParts DEF VersionName
  <2>3. ToSet(T!Said(hello, 43)) = T!ToSet(T!Said(hello, 43))
    BY DEF ToSet, T!ToSet
  <2> QED
    BY <2>1, <2>2, <2>3
<1>8. print.sni <=> \E i \in DOMAIN hello.exts : hello.exts[i].type = 0
  <2>1. print.sni <=> \E i \in DOMAIN exts : exts[i].type = 0 /\ exts[i].read
    BY <1>6 DEF SNI
  <2> QED
    BY <1>2, <2>1, FoundFields
<1>9. Types(exts) \in Seq(Nat)
  <2>1. PICK ts : ts = [i \in DOMAIN exts |-> exts[i].type]
    OBVIOUS
  <2>2. ts \in [1..Len(hello.exts) -> Nat]
    <3>1. DOMAIN exts = 1..Len(hello.exts)
      BY <1>2, FoundFields, HelloParts
    <3>2. ASSUME NEW i \in 1..Len(hello.exts) PROVE exts[i].type \in Nat
      <4>1. T!IsExtension(hello.exts[i]) /\ i \in DOMAIN hello.exts
        BY HelloParts
      <4>2. hello.exts[i].type \in Nat
        BY <4>1, ExtensionType
      <4> QED
        BY <1>2, <4>1, <4>2, FoundFields
    <3> QED
      BY <2>1, <3>1, <3>2
  <2>3. ts \in Seq(Nat)
    BY <2>2, HelloParts, SeqOfFunction, ZenonT(60)
  <2> QED
    BY <2>1, <2>3, PlainType DEF Types
<1>10. print.counts = <<T!Capped(Len(T!Plain(hello.ciphers))), T!Capped(Len(T!Kinds(hello)))>>
  <2>1. \A vs \in Seq(Nat) : Count(vs) = T!Capped(Len(vs))
    BY LenProperties DEF Count, T!Capped
  <2> QED
    BY <1>4, <1>5, <1>6, <1>9, <2>1
<1>11. print.alpn = IF T!Said(hello, 16) = <<>> THEN <<>>
                    ELSE <<T!Head(T!Said(hello, 16)[1]), T!Last(T!Said(hello, 16)[1])>>
  BY <1>2, <1>3, <1>6, ProtocolExact
<1>12. /\ T!IsSortOf(print.ciphers, T!Plain(hello.ciphers))
       /\ T!IsSortOf(print.extensions, T!Kinds(hello))
  BY <1>4, <1>5, <1>6, <1>9, SortedExact
<1>13. print.sigAlgs = T!Plain(T!Said(hello, 13))
  BY <1>2, <1>6, CollectExact, ListsPlain
<1> QED
  BY <1>1, <1>7, <1>8, <1>10, <1>11, <1>12, <1>13
  DEF T!IsJA4, T!H!ALPN, T!H!SNI, T!H!SigAlgs, T!H!SupportedVersions

(***************************************************************************)
(* Whatever a client says, in whatever order, number and lengths, the two  *)
(* walks over the bytes of its record find exactly that and do not panic,  *)
(* wherever the record is sent and whatever follows it in the segment; of  *)
(* a record that is cut, by any number of bytes, there is no fingerprint,  *)
(* and no packet without a record is called TLS.  Records with other bytes *)
(* may be among the packets.                                               *)
(***************************************************************************)
THEOREM HellosAreExact == Spec => []HelloExact
<1>1. Decoded => HelloExact
  <2> SUFFICES ASSUME Decoded, packet # None, packet.app # None PROVE HelloExact
    BY DEF HelloExact
  <2>1. packet \in Packets /\ panicked = Panics(packet)
    BY DEF Decoded
  <2>2. "TLS" \notin {packet.transport, packet.next} /\ MaxCount \in Nat
    BY <2>1, HelloAssumption DEF HelloAssumption
  <2>3. PICK ja3, ja4 :
          /\ ja3 = IF MayBeHello(packet) THEN ParseClientHello(packet.app.segment) ELSE None
          /\ ja4 = IF MayBeHello(packet) THEN CalculateJA4(packet.app.segment) ELSE None
    OBVIOUS
  <2>4. ~panicked =>
          /\ info.ja3 = ja3 /\ info.ja4 = ja4
          /\ info.proto = IF IsHTTP(packet) THEN "HTTP"
                          ELSE IF ja3 # None \/ ja4 # None THEN "TLS"
                          ELSE TransportProtocol(packet)
    BY <2>1, <2>3 DEF DecodePacket, Decoded
  <2>5. ~panicked /\ ja3 = None /\ ja4 = None => info.proto # "TLS"
    BY <2>2, <2>4 DEF TransportProtocol, NetworkProtocol
  <2>6. CASE packet.app.kind # "record"
    <3>1. ~panicked /\ ja3 = None /\ ja4 = None
      BY <2>1, <2>3, <2>6 DEF MayBeHello, Panics
    <3> QED
      BY <2>4, <2>5, <2>6, <3>1 DEF HelloExact, IsOfHello
  <2>7. CASE packet.app.kind = "record" /\ ~IsOfHello(packet.app)
    BY <2>7 DEF HelloExact
  <2>8. CASE packet.app.kind = "record" /\ IsOfHello(packet.app)
    <3>1. PICK said, missing, more, s :
            /\ said = packet.app.said /\ missing = packet.app.missing
            /\ more = packet.app.more /\ s = packet.app.segment
      OBVIOUS
    <3>2. /\ T!IsHello(said) /\ missing \in 0..Len(T!Bytes(said))
          /\ more \in Seq(Nat) /\ (missing > 0 => more = <<>>)
          /\ s = T!Segment(said, missing, more)
      BY <2>8, <3>1 DEF IsOfHello
    <3>3. /\ packet.transport = "TCP" /\ packet.dns = None /\ packet.app.host = ""
          /\ None # T!JA3(said)
      BY <2>1, <2>8, <3>1, HelloAssumption DEF HelloAssumption, IsOfHello
    <3>4. MayBeHello(packet) /\ ~IsHTTP(packet)
      BY <2>8, <3>3 DEF MayBeHello, IsHTTP, ParsesAsHTTP, TransportProtocol
    <3>5. PICK n \in Nat : n = Len(T!Bytes(said))
      BY <3>2, BytesShape, LenProperties DEF Shape
    <3>6. missing \in 0..n
      BY <3>2, <3>5
    <3>7. CASE missing = 0
      <4>1. IsRead(s, said)
        BY <3>2, <3>7, RecordRead
      <4>2. ja3 = T!JA3(said) /\ T!IsJA4(ja4, said)
        BY <2>2, <2>3, <3>1, <3>2, <3>4, <4>1, JA3Exact, JA4Exact
      <4>3. ~panicked
        BY <2>1, <3>1, <3>2, <4>1, NoPanic DEF Panics
      <4>4. info.proto = "TLS"
        BY <2>4, <3>3, <3>4, <4>2, <4>3
      <4> QED
        BY <2>4, <2>8, <3>1, <3>7, <4>2, <4>3, <4>4 DEF HelloExact
    <3>8. CASE missing > 0
      <4>1. missing \in 1..Len(T!Bytes(said)) /\ more = <<>>
        <5>1. missing \in 1..n
          BY <3>6, <3>8
        <5> QED
          BY <3>2, <3>5, <3>8, <5>1
      <4>2. ~IsWhole(s)
        BY <3>2, <4>1, CutSegment
      <4>3. ja3 = None /\ ja4 = None /\ ~panicked
        BY <2>1, <2>3, <3>1, <4>2 DEF ParseClientHello, CalculateJA4, Panics, JA3Panics, JA4Panics
      <4> QED
        BY <2>4, <2>5, <2>8, <3>1, <3>8, <4>3 DEF HelloExact
    <3> QED
      BY <3>6, <3>7, <3>8
  <2> QED
    BY <2>6, <2>7, <2>8
<1> QED
  BY <1>1, AlwaysDecoded, PTL
=============================================================================
