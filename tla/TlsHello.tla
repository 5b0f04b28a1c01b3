------------------------------ MODULE TlsHello ------------------------------
(***************************************************************************)
(* What a TLS client says, how its ClientHello lies in the bytes of a      *)
(* segment (RFC 8446, section 4.1.2), and the fingerprints as they are     *)
(* defined on what it says.  Nothing here is code of the repository: it is *)
(* the input of module ClientHello and the reference it is compared with.  *)
(*                                                                         *)
(* A hello is its version, the bytes of its session identifier, the list   *)
(* of cipher suites and the list of extensions, each of a type and a list  *)
(* of numbers, or of names for ALPN.  Without extensions a hello may leave *)
(* out their list altogether (bare).                                       *)
(***************************************************************************)
EXTENDS Integers, Sequences, FiniteSets, SequencesExt

CONSTANTS NoPrint, MaxCount

H == INSTANCE ClientHello

Two(v) == <<v \div 256, v % 256>>
Twos(vs) == FlattenSeq([i \in DOMAIN vs |-> Two(vs[i])])
WithLen1(s) == <<Len(s)>> \o s
WithLen2(s) == Two(Len(s)) \o s

Data(e) ==
    CASE e.type \in {H!Groups, H!SigAlgs} -> WithLen2(Twos(e.list))
      [] e.type = H!PointFormats -> WithLen1(e.list)
      [] e.type = H!SupportedVersions -> WithLen1(Twos(e.list))
      [] e.type = H!ALPN ->
           WithLen2(FlattenSeq([i \in DOMAIN e.list |-> WithLen1(e.list[i])]))
      [] OTHER -> e.list

Bytes(hello) ==
    LET Extension(e) == Two(e.type) \o WithLen2(Data(e))
        exts == FlattenSeq([i \in DOMAIN hello.exts |-> Extension(hello.exts[i])])
    IN  WithLen1(hello.session) \o WithLen2(Twos(hello.ciphers)) \o WithLen1(<<0>>)
        \o (IF hello.bare THEN <<>> ELSE WithLen2(exts))

\* The segment that begins with the record of a hello: all of it, or all but
\* the last bytes when the next segment or the snapshot length takes them, or
\* more behind it.
Segment(hello, cut, more) ==
    LET bytes == Bytes(hello)
    IN  [version |-> hello.version, declared |-> Len(bytes),
         body |-> SubSeq(bytes, 1, Len(bytes) - cut) \o more]
-----------------------------------------------------------------------------
\* RFC 8701: 0x0A0A, 0x1A1A, ..., 0xFAFA.
GREASE == {257 * (16 * k + 10) : k \in 0..15}
Plain(vs) ==
    FlattenSeq([i \in DOMAIN vs |-> IF vs[i] \in GREASE THEN <<>> ELSE <<vs[i]>>])

\* What a client may say: at most one extension of a type, no protocol without a
\* name, and no number that only looks like GREASE.
IsExtension(e) ==
    /\ e.type \in Nat
    /\ e.list \in Seq(IF e.type = H!ALPN THEN Seq(Nat) \ {<<>>} ELSE Nat)

Numbers(hello) ==
    ToSet(hello.ciphers) \union {e.type : e \in ToSet(hello.exts)}
    \union UNION {ToSet(e.list) : e \in {x \in ToSet(hello.exts) :
                                           x.type \in {H!Groups, H!SigAlgs}}}

IsHello(hello) ==
    /\ hello.version \in 769..772
    /\ hello.session \in Seq(Nat) /\ hello.ciphers \in Seq(Nat)
    /\ hello.exts \in Seq(ToSet(hello.exts)) /\ (hello.bare => hello.exts = <<>>)
    /\ \A i, j \in DOMAIN hello.exts : hello.exts[i].type = hello.exts[j].type => i = j
    /\ \A e \in ToSet(hello.exts) : IsExtension(e)
    /\ \A v \in Numbers(hello) : H!IsGREASE(v) => v \in GREASE

Said(hello, type) ==
    FlattenSeq([i \in DOMAIN hello.exts |->
                  IF hello.exts[i].type = type THEN hello.exts[i].list ELSE <<>>])
Kinds(hello) == Plain([i \in DOMAIN hello.exts |-> hello.exts[i].type])

JA3(hello) ==
    [version |-> hello.version, ciphers |-> Plain(hello.ciphers),
     extensions |-> Kinds(hello), curves |-> Plain(Said(hello, H!Groups)),
     points |-> Said(hello, H!PointFormats)]

\* s is what t is, in ascending order.
IsSortOf(s, t) ==
    /\ \A i, j \in DOMAIN s : i < j => s[i] <= s[j]
    /\ \A v \in ToSet(s) \union ToSet(t) :
         Cardinality({i \in DOMAIN s : s[i] = v}) = Cardinality({i \in DOMAIN t : t[i] = v})

Capped(n) == IF n > MaxCount THEN MaxCount ELSE n

\* The JA4 of a hello the way the documentation describes it: "digests of sorted
\* ciphers and extensions", all of them (src/README.md:59).
IsJA4(print, hello) ==
    LET first == Said(hello, H!ALPN)[1]
    IN  /\ print.version = IF 772 \in ToSet(Said(hello, H!SupportedVersions)) THEN 13
                           ELSE hello.version - 759
        /\ print.sni <=> \E i \in DOMAIN hello.exts : hello.exts[i].type = H!SNI
        /\ print.counts = <<Capped(Len(Plain(hello.ciphers))), Capped(Len(Kinds(hello)))>>
        /\ print.alpn = IF Said(hello, H!ALPN) = <<>> THEN <<>>
                        ELSE <<Head(first), Last(first)>>
        /\ IsSortOf(print.ciphers, Plain(hello.ciphers))
        /\ IsSortOf(print.extensions, Kinds(hello))
        /\ print.sigAlgs = Plain(Said(hello, H!SigAlgs))

\* What the published definition of JA4 has otherwise: the digest leaves out the
\* server name and ALPN, and the version is the highest the client supports.
IsCanonicalJA4(print, hello) ==
    LET versions == ToSet(Plain(Said(hello, H!SupportedVersions)))
        Digested(type) == type \notin {H!SNI, H!ALPN}
    IN  /\ IsSortOf(print.extensions, SelectSeq(Kinds(hello), Digested))
        /\ versions # {} => \E v \in versions : /\ \A w \in versions : w <= v
                                               /\ print.version = v - 759
=============================================================================
