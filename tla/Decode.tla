-------------------------------- MODULE Decode --------------------------------
(***************************************************************************)
(* What a worker makes of one packet: decode.DecodePacket, a cascade over  *)
(* the layers gopacket found, with the fingerprints of module ClientHello  *)
(* and the look-ups of security.Engine, which main may replace by one with *)
(* a feed of the user's before the first packet.                           *)
(*                                                                         *)
(* The layers of a packet are a record:                                    *)
(*   time            when it was captured                                  *)
(*   net, src, dst   "IPv4", "IPv6", "ARP" or "none"; the addresses        *)
(*   next            the protocol the IP header names                      *)
(*   transport, sport, dport, flags                                        *)
(*                   "TCP", "UDP", "ICMP" or "none", as in the fragments   *)
(*                   after the first                                       *)
(*   dns             None, or the names of the first question and answer,  *)
(*                   None where there is none                              *)
(*   app             None, or the payload the application layer hands      *)
(*                   over: its kind, "request" and "response" of HTTP,     *)
(*                   "text", "data", "record", a TLS handshake record, or  *)
(*                   "opaque", a layer of gopacket's own for a known port, *)
(*                   such as 443, that hands over nothing; the host a line *)
(*                   "Host:" names; the segment of a record (module        *)
(*                   ClientHello), and the hello the client said in it, or *)
(*                   None, how many of its bytes are missing and what is   *)
(*                   behind it                                             *)
(***************************************************************************)
EXTENDS Integers, Sequences, FiniteSets

CONSTANTS
    None, NoHost,
    Packets,         \* the packets that may come
    DefaultFeed,     \* threat_feed.json: ips, the texts of addresses, blocks, the sets of
                     \* addresses its CIDR texts stand for, and domains
    CustomFeeds,     \* what the file of -threat-feed may hold
    Broken,          \* a file that cannot be read or is no JSON
    NoBlock,         \* a text that is no CIDR
    Text(_),         \* net.IP.String of an address
    Parsed(_),       \* net.ParseIP of a text
    Trimmed(_),      \* strings.TrimSpace of a text
    Lower(_),        \* strings.ToLower of a domain name, trimmed
    MalwareTools,    \* ja4db.json: the fingerprints of malware tools
    NamedMalware,    \* those whose label has one of the words the code looks for
    MaxCount         \* 99, see ClientHello

\* None is neither a packet nor a feed.  A DNS layer is the application layer of
\* its packet, and an IP header has a source.  The text of an address has no
\* blanks, and is in the blocks the address is in.
ASSUME DecodeAssumption ==
    /\ None \notin Packets /\ None \notin CustomFeeds
    /\ Broken # None /\ Broken \notin CustomFeeds
    /\ \A p \in Packets :
        /\ p.dns # None => p.app # None
        /\ p.net \in {"IPv4", "IPv6"} => p.src # NoHost
        /\ \A ip \in {p.src, p.dst}, f \in {DefaultFeed} \union CustomFeeds :
             /\ Trimmed(Text(ip)) = Text(ip)
             /\ \A block \in f.blocks \ {NoBlock} : Parsed(Text(ip)) \in block <=> ip \in block

VARIABLES
    exactIPs, cidrs, c2Domains,  \* the threat engine
    feed,        \* history: the feed main was given, and None before and without
    panicked,    \* a worker has panicked, which nothing recovers
    started,     \* the workers run
    packet, info \* the packet in the hands of a worker and what became of it

INSTANCE ClientHello WITH NoPrint <- None

engine == <<exactIPs, cidrs, c2Domains>>
vars == <<engine, feed, panicked, started, packet, info>>
-----------------------------------------------------------------------------
\* loadFeedBytes: the feed is added to what is there.
LoadFeed(f) ==
    /\ exactIPs' = exactIPs \union {Trimmed(t) : t \in f.ips}
    /\ cidrs' = cidrs \union (f.blocks \ {NoBlock})
    /\ c2Domains' = c2Domains \union {Lower(d) : d \in f.domains}

\* Mutant of LoadCustomFeed: the feed replaces the built-in one.
LoadCustomFeedAlone ==
    /\ ~started /\ feed = None
    /\ \E f \in CustomFeeds :
         /\ exactIPs' = {Trimmed(t) : t \in f.ips}
         /\ cidrs' = f.blocks \ {NoBlock}
         /\ c2Domains' = {Lower(d) : d \in f.domains}
         /\ feed' = f
    /\ UNCHANGED <<panicked, started, packet, info>>

LoadCustomFeed ==
    /\ ~started /\ feed = None
    /\ \E f \in CustomFeeds : LoadFeed(f) /\ feed' = f
    /\ UNCHANGED <<panicked, started, packet, info>>

\* The engine that failed to load is dropped, the built-in one stays in place.
LoadBrokenFeed ==
    /\ ~started /\ feed = None
    /\ feed' = Broken
    /\ UNCHANGED <<engine, panicked, started, packet, info>>

\* Addresses are compared with the list as texts, and with the blocks as addresses.
MatchIP(ip) ==
    LET text == Trimmed(Text(ip))
    IN  text \in exactIPs \/ \E block \in cidrs : Parsed(text) \in block
MatchDomain(name) == Lower(name) \in c2Domains
-----------------------------------------------------------------------------
NetworkProtocol(p) ==
    CASE p.net = "ARP" -> "ARP"
      [] p.net = "none" -> "Other"
      [] OTHER -> p.next

TransportProtocol(p) ==
    IF p.dns # None THEN "DNS"
    ELSE IF p.transport # "none" THEN p.transport ELSE NetworkProtocol(p)

\* The first question, or the first answer where there is no question.
DNSQuery(p) ==
    IF p.dns = None THEN ""
    ELSE IF p.dns.question # None THEN p.dns.question
    ELSE IF p.dns.answer # None THEN p.dns.answer ELSE ""

LooksLikeHTTP(p) ==
    \/ 80 \in {p.sport, p.dport}
    \/ p.app # None /\ p.app.kind \in {"request", "response"}

\* parseHTTPInfo finds a method in a request and, without one, the line "Host:"
\* in any text.
ParsesAsHTTP(p) == p.app # None /\ (p.app.kind = "request" \/ p.app.host # "")

\* Mutant of IsHTTP: the port is enough.
IsHTTPByPort(p) == TransportProtocol(p) = "TCP" /\ LooksLikeHTTP(p)

IsHTTP(p) == TransportProtocol(p) = "TCP" /\ LooksLikeHTTP(p) /\ ParsesAsHTTP(p)

\* The bytes of the segment, when it can be the start of a TLS handshake.
MayBeHello(p) ==
    /\ TransportProtocol(p) = "TCP" /\ ~IsHTTP(p)
    /\ p.app # None /\ p.app.kind = "record"

\* The tool the fingerprint is known for, the sender, the receiver or the name
\* asked for: the first of them that is an indicator.
ThreatAlert(p, ja4) ==
    IF ja4 \in NamedMalware THEN <<"tool", ja4>>
    ELSE IF MatchIP(p.src) THEN <<"address", p.src>>
    ELSE IF MatchIP(p.dst) THEN <<"address", p.dst>>
    ELSE IF DNSQuery(p) # "" /\ MatchDomain(DNSQuery(p)) THEN <<"domain", DNSQuery(p)>>
    ELSE <<>>

Panics(p) == MayBeHello(p) /\ (JA3Panics(p.app.segment) \/ JA4Panics(p.app.segment))

DecodePacket(p) ==
    LET ja3 == IF MayBeHello(p) THEN ParseClientHello(p.app.segment) ELSE None
        ja4 == IF MayBeHello(p) THEN CalculateJA4(p.app.segment) ELSE None
    IN  [src |-> p.src, dst |-> p.dst, sport |-> p.sport, port |-> p.dport, flags |-> p.flags, time |-> p.time,
         proto |-> IF IsHTTP(p) THEN "HTTP"
                   ELSE IF ja3 # None \/ ja4 # None THEN "TLS" ELSE TransportProtocol(p),
         query |-> DNSQuery(p),
         ja3 |-> ja3, ja4 |-> ja4,
         threat |-> ThreatAlert(p, ja4)]
-----------------------------------------------------------------------------
Init ==
    /\ exactIPs = {Trimmed(t) : t \in DefaultFeed.ips}
    /\ cidrs = DefaultFeed.blocks \ {NoBlock}
    /\ c2Domains = {Lower(d) : d \in DefaultFeed.domains}
    /\ feed = None /\ panicked = FALSE /\ started = FALSE
    /\ packet = None /\ info = None

\* main has read its flags and starts the workers.
Start ==
    /\ ~started
    /\ started' = TRUE
    /\ UNCHANGED <<engine, feed, panicked, packet, info>>

\* A worker takes a packet and decodes it, or the whole program ends with a panic.
Take ==
    /\ started /\ packet = None
    /\ \E p \in Packets :
         /\ packet' = p
         /\ panicked' = Panics(p)
         /\ info' = IF Panics(p) THEN None ELSE DecodePacket(p)
    /\ UNCHANGED <<engine, feed, started>>

\* ... and hands the result on.
HandOn ==
    /\ packet # None /\ ~panicked
    /\ packet' = None /\ info' = None
    /\ UNCHANGED <<engine, feed, panicked, started>>

Next == LoadCustomFeed \/ LoadBrokenFeed \/ Start \/ Take \/ HandOn

Spec == Init /\ [][Next]_vars
-----------------------------------------------------------------------------
T == INSTANCE TlsHello WITH NoPrint <- None
D == INSTANCE Detector WITH ScanThreshold <- 1, ScanWindow <- 1, TransferThreshold <- 1,
                            portScanTrack <- <<>>, flaggedFlows <- {}
S == INSTANCE Story WITH StoryCap <- 1, timelines <- <<>>

\* No protocol but the one the decoder finds is called TLS, a record is a segment
\* of TCP, and None is no fingerprint.
ASSUME HelloAssumption ==
    /\ MaxCount \in Nat
    /\ \A p \in Packets :
        /\ "TLS" \notin {p.transport, p.next}
        /\ p.app # None /\ p.app.kind = "record" =>
             /\ p.transport = "TCP" /\ p.dns = None /\ p.app.host = ""
             /\ p.app.said # None => None # T!JA3(p.app.said)

\* The record is what a client said, of which bytes are missing or behind which
\* there is more.  A record that is not may have any bytes.
IsOfHello(app) ==
    /\ app.kind = "record" /\ app.said # None /\ T!IsHello(app.said)
    /\ app.missing \in 0..Len(T!Bytes(app.said))
    /\ app.more \in Seq(Nat) /\ (app.missing > 0 => app.more = <<>>)
    /\ app.segment = T!Segment(app.said, app.missing, app.more)

(***************************************************************************)
(* The fingerprints of a hello whose record is in one payload that the     *)
(* decoder is given are those documented, made of what the client said, on *)
(* port 80 too, whatever the order, the number and the lengths of what it  *)
(* says, and whatever follows the record; of a hello that is cut there is  *)
(* none, and the packet stays plain TCP.  Neither ends the program.  This  *)
(* is about the walk over the bytes, its two copies.                       *)
(***************************************************************************)
HelloExact ==
    packet # None /\ packet.app # None =>
        LET app == packet.app
        IN  /\ IsOfHello(app) /\ app.missing = 0 =>
                 /\ ~panicked /\ info.proto = "TLS"
                 /\ info.ja3 = T!JA3(app.said)
                 /\ T!IsJA4(info.ja4, app.said)
            /\ app.kind # "record" \/ (IsOfHello(app) /\ app.missing > 0) =>
                 ~panicked /\ info.ja3 = None /\ info.ja4 = None /\ info.proto # "TLS"

(***************************************************************************)
(* Nothing on the way of a packet that probes a port hides it: a TCP       *)
(* packet that opens a connection, and a UDP packet that is not DNS, is    *)
(* among those the port scan rule counts, under the port it was sent to,   *)
(* also when it is a well-known one; the opening is in the story, with     *)
(* the address it was for.  The decoder renames protocols, the detector    *)
(* and the story look at their names.                                      *)
(***************************************************************************)
ProbesAreCounted ==
    packet # None /\ ~panicked /\ packet.net \in {"IPv4", "IPv6"} =>
        LET opens == /\ packet.transport = "TCP" /\ packet.app = None
                     /\ "SYN" \in packet.flags /\ "ACK" \notin packet.flags
        IN  /\ opens \/ (packet.transport = "UDP" /\ packet.dns = None) =>
                 D!Watched(info) /\ info.port = packet.dport
            /\ opens => \E e \in S!Range(S!PacketEvents(info)) :
                          e.kind = "TCP_HANDSHAKE" /\ e.peer = packet.dst

(***************************************************************************)
(* A packet is marked as a threat exactly when one of its indicators, the  *)
(* tool, the text of either address, either address by a block, or the     *)
(* name in capitals or not, is in the built-in lists or in the feed of the *)
(* user; a feed takes no protection away, be it broken or in parts.        *)
(***************************************************************************)
IndicatorsRaiseAlert ==
    LET feeds == {DefaultFeed} \union ({feed} \ {None, Broken})
        Listed(ip) ==
            \E f \in feeds : \/ \E t \in f.ips : Trimmed(t) = Text(ip)
                             \/ \E block \in f.blocks \ {NoBlock} : ip \in block
        ListedName(d) == \E f \in feeds : \E e \in f.domains : Lower(e) = Lower(d)
    IN  packet # None /\ ~panicked =>
          (info.threat # <<>>
             <=> \/ info.ja4 \in NamedMalware
                 \/ Listed(packet.src) \/ Listed(packet.dst)
                 \/ DNSQuery(packet) # "" /\ ListedName(DNSQuery(packet)))

\* The database is there "to detect malware tools (Cobalt Strike C2, LummaC2
\* Infostealer, Evilginx, IcedID)" (src/README.md:60).
MalwareRaisesAlert == packet # None /\ ~panicked /\ info.ja4 \in MalwareTools => info.threat # <<>>

\* IsGREASE checks if a value "is a TLS GREASE ... value" (ja3.go:28): the mask
\* looks at one half of each byte, and takes 0x0A1A for one too.
GREASEIsExact == packet # None => \A v \in 0..65535 : IsGREASE(v) => v \in T!GREASE

\* The port scan rule counts the "distinct ports" a source "contacts"
\* (detect.go:85): ports that are in the packets.
CountedPortsAreReal ==
    packet # None /\ ~panicked /\ D!Watched(info) => packet.transport \in {"TCP", "UDP"}

\* "It safely handles missing/corrupt layers without panicking" (decode.go:26).
NeverPanics == ~panicked

\* CalculateJA4 makes "the canonical JA4 fingerprint" (ja4.go:38).
JA4IsCanonical ==
    packet # None /\ ~panicked /\ packet.app # None =>
        (IsOfHello(packet.app) /\ packet.app.missing = 0 =>
           T!IsCanonicalJA4(info.ja4, packet.app.said))

\* The hello of ja4_test.go:10-27, whose header declares three bytes more than its
\* fields have, "failed to calculate" no fingerprint: a segment that has all the
\* fields of a hello has one.
TestedHelloHasPrint ==
    packet # None /\ ~panicked /\ packet.app # None =>
        (packet.app.kind = "record" /\ packet.app.said # None
           /\ packet.app.segment.body = T!Bytes(packet.app.said) => info.ja4 # None)

\* Traffic is matched against "exact malicious C2 IPs" (src/README.md:76): against
\* addresses, however the feed writes them.
EverySpellingRaisesAlert ==
    packet # None /\ ~panicked =>
        \A f \in {DefaultFeed} \union ({feed} \ {None, Broken}) :
            (\E t \in f.ips : Parsed(Trimmed(t)) = packet.src) => info.threat # <<>>
=============================================================================
