---------------------------- MODULE ClientHello ----------------------------
(***************************************************************************)
(* The walk over the bytes of a TLS ClientHello and the two fingerprints   *)
(* made of it.  tls.ParseClientHello (JA3) and decode.CalculateJA4 hold a  *)
(* copy of the walk each; the copies take the same steps.                  *)
(*                                                                         *)
(* A segment that begins with a TLS record that begins with a ClientHello  *)
(* (bytes 16 03 .. .. .. 01) is                                            *)
(*   version   the version of the handshake                                *)
(*   declared  the length the record header gives, less the fixed part of  *)
(*             38 bytes (type, length, version, random)                    *)
(*   body      the bytes of the segment after that fixed part              *)
(* Positions in body count from 1: position p is offset 37 + p of the code.*)
(* A digest stands for the list it is made of.                             *)
(*                                                                         *)
(* The code reads a list of numbers two bytes at a time.  When the length  *)
(* of the list is odd, its last number takes the byte behind the list too. *)
(* Go reads it, across the end of the slice, as long as the buffer of the  *)
(* packet has one, and the buffer ends with the segment; otherwise the     *)
(* read panics.                                                            *)
(***************************************************************************)
EXTENDS Integers, Sequences, FiniteSets, SequencesExt

CONSTANTS
    NoPrint,     \* the result when there is no fingerprint
    MaxCount     \* the largest count JA4 shows: 99 in the code

IsGREASE(v) == v % 16 = 10 /\ (v \div 256) % 16 = 10
NoGREASE(vs) ==
    FlattenSeq([i \in DOMAIN vs |-> IF IsGREASE(vs[i]) THEN <<>> ELSE <<vs[i]>>])

\* binary.BigEndian.Uint16 at position p, and the numbers read for a list of n
\* bytes from p on.
U16(s, p) == 256 * s[p] + s[p + 1]
U16s(s, p, n) == [k \in 1..((n + 1) \div 2) |-> U16(s, p + 2 * (k - 1))]
IsOdd(n) == n % 2 = 1
-----------------------------------------------------------------------------
\* Where the walk finds the fields of the handshake bytes h.
CipherAt(h) == 2 + h[1]
CompressionAt(h) == CipherAt(h) + 2 + U16(h, CipherAt(h))
ExtensionsAt(h) == CompressionAt(h) + 1 + h[CompressionAt(h)]

\* The segment has 45 bytes and holds all of its record.
IsWhole(s) == Len(s.body) >= 2 /\ Len(s.body) >= s.declared

\* No field up to the compression methods reaches beyond the handshake.
IsComplete(h) ==
    /\ h # <<>>
    /\ CipherAt(h) + 1 <= Len(h)
    /\ CompressionAt(h) <= Len(h)

Ciphers(h) == NoGREASE(U16s(h, CipherAt(h) + 2, U16(h, CipherAt(h))))

\* The ciphers end with the buffer, in the middle of a number.
CiphersOverrun(h, buffer) ==
    /\ h # <<>> /\ CipherAt(h) + 1 <= Len(h)
    /\ IsOdd(U16(h, CipherAt(h)))
    /\ CipherAt(h) + 1 + U16(h, CipherAt(h)) = Len(buffer)

(***************************************************************************)
(* The extensions in their order, one for each round of the walk, which    *)
(* begins its rounds at "at".  The walk ends at the end of the list or of  *)
(* the handshake, whichever comes first; an extension that reaches beyond  *)
(* it counts by its type, but its data is not read.  behind is the byte    *)
(* the buffer has after the data, if it has one.                           *)
(***************************************************************************)
Extensions(h, buffer) ==
    LET list == ExtensionsAt(h)
        stated == list + 1 + U16(h, list)
        last == IF stated > Len(h) THEN Len(h) ELSE stated
        End(p) == p + 3 + U16(h, p + 2)
        at[k \in 0..Len(h)] ==
            IF k = 0 THEN list + 2
            ELSE LET p == at[k - 1] IN IF p + 3 > last THEN p ELSE End(p) + 1
        rounds == {k \in 1..Len(h) : at[k - 1] + 3 <= last}
        Extension(p) == [type |-> U16(h, p), read |-> End(p) <= last,
                         data |-> IF End(p) <= last THEN SubSeq(h, p + 4, End(p)) ELSE <<>>,
                         behind |-> IF End(p) < Len(buffer)
                                    THEN <<buffer[End(p) + 1]>> ELSE <<>>]
    IN  IF list + 1 <= Len(h) THEN [k \in rounds |-> Extension(at[k - 1])] ELSE <<>>

\* Mutant of Types: GREASE is left out of the ciphers only.
TypesWithGREASE(exts) == [i \in DOMAIN exts |-> exts[i].type]

Types(exts) == NoGREASE([i \in DOMAIN exts |-> exts[i].type])

\* What Read makes of the extensions of a type whose data is read, in order.
Collect(exts, type, Read(_)) ==
    FlattenSeq([i \in DOMAIN exts |-> IF exts[i].type = type /\ exts[i].read
                                      THEN Read(exts[i]) ELSE <<>>])

\* Extension e has data d: lists of numbers behind a length of two bytes or of one.
HasLong(d) == Len(d) >= 2 /\ Len(d) >= 2 + U16(d, 1)
HasShort(d) == Len(d) >= 1 /\ Len(d) >= 1 + d[1]

LongList(e) ==
    IF HasLong(e.data) THEN U16s(e.data \o e.behind, 3, U16(e.data, 1)) ELSE <<>>
ShortList(e) == IF HasShort(e.data) THEN U16s(e.data \o e.behind, 2, e.data[1]) ELSE <<>>
PointList(e) == IF HasShort(e.data) THEN SubSeq(e.data, 2, 1 + e.data[1]) ELSE <<>>

\* The first and the last character of the first protocol offered.
FirstProtocol(e) ==
    LET d == e.data
    IN  IF HasLong(d) /\ U16(d, 1) > 1 /\ d[3] > 0 /\ Len(d) >= 3 + d[3]
        THEN <<<<d[4], d[3 + d[3]]>>>> ELSE <<>>

\* A list of an extension of the type ends with the buffer, in the middle of a
\* number.
LongOverrun(exts, type) ==
    \E i \in DOMAIN exts : LET e == exts[i] IN
        /\ e.type = type /\ e.read /\ e.behind = <<>>
        /\ HasLong(e.data) /\ IsOdd(U16(e.data, 1)) /\ Len(e.data) = 2 + U16(e.data, 1)
ShortOverrun(exts, type) ==
    \E i \in DOMAIN exts : LET e == exts[i] IN
        /\ e.type = type /\ e.read /\ e.behind = <<>>
        /\ HasShort(e.data) /\ IsOdd(e.data[1]) /\ Len(e.data) = 1 + e.data[1]

SNI == 0
Groups == 10
PointFormats == 11
SigAlgs == 13
ALPN == 16
SupportedVersions == 43
-----------------------------------------------------------------------------
Handshake(s) == SubSeq(s.body, 1, s.declared)

\* A list that each of the two copies reads runs over the end of the buffer.
JA3Panics(s) ==
    LET h == Handshake(s)
    IN  /\ IsWhole(s)
        /\ \/ CiphersOverrun(h, s.body)
           \/ IsComplete(h) /\ LongOverrun(Extensions(h, s.body), Groups)
JA4Panics(s) ==
    LET h == Handshake(s)
        exts == Extensions(h, s.body)
    IN  /\ IsWhole(s)
        /\ \/ CiphersOverrun(h, s.body)
           \/ /\ IsComplete(h)
              /\ LongOverrun(exts, SigAlgs) \/ ShortOverrun(exts, SupportedVersions)

ParseClientHello(s) ==
    LET h == Handshake(s)
        exts == Extensions(h, s.body)
    IN  IF IsWhole(s) /\ IsComplete(h)
        THEN [version |-> s.version,
              ciphers |-> Ciphers(h),
              extensions |-> Types(exts),
              curves |-> NoGREASE(Collect(exts, Groups, LongList)),
              points |-> Collect(exts, PointFormats, PointList)]
        ELSE NoPrint

\* The version in the fingerprint: 13, 12, 11 or 10, and 12 for any other.
VersionName(v) == IF v \in 769..772 THEN v - 759 ELSE 12

\* The numbers in ascending order: each at the place that is its rank.
Sorted(vs) ==
    LET Rank(i) == Cardinality({j \in DOMAIN vs : vs[j] < vs[i] \/ (vs[j] = vs[i] /\ j <= i)})
    IN  [k \in DOMAIN vs |-> vs[CHOOSE i \in DOMAIN vs : Rank(i) = k]]

Count(vs) == IF Len(vs) < MaxCount THEN Len(vs) ELSE MaxCount

CalculateJA4(s) ==
    LET h == Handshake(s)
        exts == Extensions(h, s.body)
        protocols == Collect(exts, ALPN, FirstProtocol)
    IN  IF IsWhole(s) /\ IsComplete(h)
        THEN [version |-> IF 772 \in ToSet(Collect(exts, SupportedVersions, ShortList))
                          THEN 13 ELSE VersionName(s.version),
              sni |-> \E i \in DOMAIN exts : exts[i].type = SNI /\ exts[i].read,
              counts |-> <<Count(Ciphers(h)), Count(Types(exts))>>,
              alpn |-> IF protocols = <<>> THEN <<>> ELSE Last(protocols),
              ciphers |-> Sorted(Ciphers(h)),
              extensions |-> Sorted(Types(exts)),
              sigAlgs |-> NoGREASE(Collect(exts, SigAlgs, LongList))]
        ELSE NoPrint
=============================================================================
