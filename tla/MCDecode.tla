------------------------------ MODULE MCDecode ------------------------------
(***************************************************************************)
(* Packets, hellos and feeds for the decoder.                              *)
(***************************************************************************)
EXTENDS Decode

CONSTANTS a, b, bad1, bad2, bad3, bad4

\* Two spellings of one name are one name.
LowerOf(d) == CASE d = "Evil" -> "evil" [] d = "Worse" -> "worse" [] OTHER -> d

\* One address has a second spelling, and one text in a feed a blank.
TextOf(ip) ==
    CASE ip = a -> "a" [] ip = b -> "b" [] ip = bad1 -> "bad1" [] ip = bad2 -> "bad2"
      [] ip = bad3 -> "bad3" [] ip = bad4 -> "bad4" [] OTHER -> "<nil>"
TrimmedOf(t) == IF t = "bad3 " THEN "bad3" ELSE t
ParsedOf(t) ==
    CASE t = "a" -> a [] t = "b" -> b [] t = "bad1" -> bad1 [] t = "bad2" -> bad2
      [] t = "bad3" -> bad3 [] t \in {"bad4", "BAD::04"} -> bad4 [] OTHER -> NoHost

BuiltIn == [ips |-> {"bad1"}, blocks |-> {{bad1, bad2}}, domains |-> {"evil"}]
Feeds == {[ips |-> {"bad3 ", "BAD::04"}, blocks |-> {NoBlock}, domains |-> {"Worse"}]}

Hello(version, session, ciphers, exts, bare) ==
    [version |-> version, session |-> session, ciphers |-> ciphers, exts |-> exts,
     bare |-> bare]
Ext(type, list) == [type |-> type, list |-> list]

\* One extension of every kind that is read, and two of no interest, one of
\* them GREASE; 2570 and 6682 are GREASE values.
SomeExts ==
    {Ext(0, <<9, 9>>), Ext(10, <<2570, 29>>), Ext(11, <<0, 1>>), Ext(13, <<1027, 2052>>),
     Ext(16, <<<<104, 50>>, <<7>>>>), Ext(43, <<6682, 772>>), Ext(23, <<>>),
     Ext(6682, <<0>>)}
Distinct(s) == \A i, j \in DOMAIN s : i # j => s[i] # s[j]
ExtLists == {s \in UNION {[1..n -> SomeExts] : n \in 0..3} : Distinct(s)}

CipherLists == {<<47>>, <<2570, 4866, 4865>>, <<4865, 49195, 47, 6682>>}

Hellos ==
    {Hello(771, <<>>, ciphers, exts, FALSE) : ciphers \in CipherLists, exts \in ExtLists}
    \union {Hello(version, session, <<4866, 47>>, <<>>, bare) :
              version \in 769..771, session \in {<<>>, <<1, 2>>}, bare \in BOOLEAN}

Layers(net, src, dst, next, transport, sport, dport, flags, dns, app) ==
    [time |-> 0, net |-> net, src |-> src, dst |-> dst, next |-> next, transport |-> transport,
     sport |-> sport, dport |-> dport, flags |-> flags, dns |-> dns, app |-> app]

App(kind, host) == [kind |-> kind, host |-> host, missing |-> 0, said |-> None]
Record(hello, missing, more, host) ==
    [kind |-> "record", host |-> host, missing |-> missing, more |-> more, said |-> hello,
     segment |-> T!Segment(hello, missing, more)]

\* A record with a list of odd length: bytes that no client says.
Odd(declared, body) ==
    [kind |-> "record", host |-> "", missing |-> 0, more |-> <<>>, said |-> None,
     segment |-> [version |-> 771, declared |-> declared, body |-> body]]

OddCiphers == <<0, 0, 3, 0, 47, 5>>
OddExtension(type, data) ==
    <<0, 0, 2, 0, 47, 1, 0, 0, 4 + Len(data), 0, type, 0, Len(data)>> \o data
OddLists ==
    {OddCiphers} \union {OddExtension(type, <<0, 3, 0, 29, 7>>) : type \in {10, 13}}
    \union {OddExtension(43, <<1, 3>>), OddExtension(43, <<3, 3, 3, 3>>)}

\* They end with the packet, or the record does and the packet does not, or the
\* record does not.
OddRecords ==
    {Odd(Len(bytes), bytes) : bytes \in OddLists}
    \union {Odd(Len(bytes), bytes \o <<4>>) : bytes \in OddLists}
    \union {Odd(Len(bytes) + 1, bytes \o <<4>>) : bytes \in OddLists}

\* The hello of ja4_test.go.
Tested ==
    LET hello == Hello(771, <<>>, <<47>>, <<>>, FALSE)
        bytes == T!Bytes(hello)
    IN  [Odd(Len(bytes) + 3, bytes) EXCEPT !.said = hello]

TLSPackets ==
    {Layers("IPv4", a, b, "TCP", "TCP", 9, port, {"ACK"}, None, Record(h, missing, more, "")) :
        port \in {80, 8443}, h \in Hellos,
        <<missing, more>> \in {<<0, <<>>>>, <<1, <<>>>>, <<0, <<22, 3>>>>}}
    \* The first byte alone, and all but the list of extensions.
    \union {Layers("IPv6", a, b, "TCP", "TCP", 9, 8443, {"ACK"}, None,
                   Record(h, Len(T!Bytes(h)) - n, <<>>, "")) :
              h \in {g \in Hellos : g.exts = <<>>}, n \in 1..3}

OddPackets ==
    {Layers("IPv4", a, b, "TCP", "TCP", 9, 8443, {"ACK"}, None, app) :
        app \in OddRecords \union {Tested}}

Addresses == {a, bad1, bad2, bad3, bad4}
Contents == {None, App("request", "a"), App("response", ""), App("text", "a"),
             App("text", ""), App("data", "")}

TCPPackets ==
    {Layers("IPv4", src, b, "TCP", "TCP", sport, dport, flags, None, app) :
        src \in Addresses, sport \in {9, 80}, dport \in {22, 80},
        flags \in {{"SYN"}, {"SYN", "ACK"}, {"ACK"}}, app \in Contents}

Names == {None, "plain", "Evil", "worse"}
DNSPackets ==
    {Layers("IPv6", a, dst, "UDP", "UDP", 9, 53, {}, [question |-> q, answer |-> r],
            App("data", "")) : dst \in Addresses, q \in Names, r \in Names}

OtherPackets ==
    {Layers("none", NoHost, NoHost, "", "none", 0, 0, {}, None, None)}
    \union {Layers("IPv4", src, b, "TCP", "TCP", 9, 443, {"ACK"}, None, App("opaque", "")) :
              src \in Addresses}
    \union {Layers("ARP", src, b, "", "none", 0, 0, {}, None, None) : src \in Addresses}
    \union {Layers("IPv4", src, b, "ICMP", "ICMP", 0, 0, {}, None, None) : src \in Addresses}
    \union {Layers("IPv4", src, b, "UDP", "UDP", 9, port, {}, None, App("data", "")) :
              src \in Addresses, port \in {53, 9}}

\* The fragments of a datagram or segment after the first.
Fragments ==
    {Layers("IPv4", a, b, next, "none", 0, 0, {}, None, App("data", "")) :
        next \in {"TCP", "UDP"}}

Traffic ==
    TLSPackets \union OddPackets \union TCPPackets \union DNSPackets \union OtherPackets
    \union Fragments

\* Two tools by the fingerprint of a hello each: one whose label says so, one
\* whose label, "Evilginx Phishing Toolkit", has none of the words.
PrintOf(hello) == CalculateJA4(T!Segment(hello, 0, <<>>))
Beacon == PrintOf(Hello(771, <<>>, <<47>>, <<Ext(0, <<9, 9>>), Ext(23, <<>>)>>, FALSE))
Phishing == PrintOf(Hello(771, <<>>, <<47>>, <<Ext(43, <<6682, 772>>)>>, FALSE))
Tools == {Beacon, Phishing}
Named == {Beacon}
=============================================================================
