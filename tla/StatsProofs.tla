---------------------------- MODULE StatsProofs ----------------------------
(***************************************************************************)
(* Theorems about the statistics, the detector and the stories, for any    *)
(* hosts, traffic, thresholds and capacities.                              *)
(***************************************************************************)
EXTENDS Stats, RingBuffer, SequenceLemmas, TLAPS, SequenceTheorems, FiniteSetTheorems,
        WellFoundedInduction
-----------------------------------------------------------------------------
(* The bytes of some packets of a list. *)

\* The packets that may be counted.
Packets == {Stamped(shape, t) : shape \in Shapes, t \in Nat}

LEMMA PacketType ==
  ASSUME NEW p \in Packets
  PROVE  /\ p.src \in Hosts \union {NoHost} /\ p.dst \in Hosts \union {NoHost}
         /\ p.proto \in Protocols /\ p.len \in Nat /\ p.time \in Nat /\ p.port \in Nat
         /\ p.query \in STRING
         /\ HasFlow(p) => FlowKey(p) \in FlowKeys
<1>1. PICK shape \in Shapes, t \in Nat : p = Stamped(shape, t)
  BY DEF Packets
<1>2. shape \in [src : Hosts \union {NoHost}, dst : Hosts \union {NoHost},
                proto : STRING, sport : Nat, port : Nat, len : Nat,
                flags : SUBSET STRING, query : STRING]
  BY StatsAssumption DEF StatsAssumption
<1>3. /\ p.src = shape.src /\ p.dst = shape.dst /\ p.proto = shape.proto
      /\ p.sport = shape.sport /\ p.port = shape.port /\ p.len = shape.len /\ p.query = shape.query /\ p.time = t
  BY <1>1 DEF Stamped
<1>4. p.proto \in Protocols
  BY <1>3 DEF Protocols
<1>5. HasFlow(p) => FlowKey(p) \in FlowKeys
  BY <1>3 DEF FlowKeys, HasFlow, FlowKey
<1> QED
  BY <1>2, <1>3, <1>4, <1>5

BytesUpTo(s, is) ==
  CHOOSE upto : upto =
    [n \in 0..Len(s) |-> IF n = 0 THEN 0
                         ELSE upto[n - 1] + (IF n \in is THEN s[n].len ELSE 0)]

LEMMA BytesRun ==
  ASSUME NEW s \in Seq(Packets), NEW is
  PROVE  /\ Bytes(s, is) = BytesUpTo(s, is)[Len(s)]
         /\ BytesUpTo(s, is) \in [0..Len(s) -> Nat]
         /\ BytesUpTo(s, is)[0] = 0
         /\ \A k \in 1..Len(s) :
              BytesUpTo(s, is)[k] =
                BytesUpTo(s, is)[k - 1] + (IF k \in is THEN s[k].len ELSE 0)
<1> DEFINE f == BytesUpTo(s, is)
           step == [k \in 1..Len(s) |->
                      [v \in Nat |-> v + (IF k \in is THEN s[k].len ELSE 0)]]
<1>1. Len(s) \in Nat /\ \A k \in 1..Len(s) : s[k].len \in Nat
  BY LenProperties, ElementOfSeq, PacketType
<1>2. step \in [1..Len(s) -> [Nat -> Nat]]
  BY <1>1
<1>3. PICK r \in [0..Len(s) -> Nat] :
        r[0] = 0 /\ \A k \in 1..Len(s) : r[k] = step[k][r[k - 1]]
  <2> HIDE DEF step
  <2>1. HasRun(Nat, 0, Len(s), step)
    BY <1>1, <1>2, Recursion
  <2> QED
    BY <2>1 DEF HasRun
<1>4. \A k \in 1..Len(s) : r[k] = r[k - 1] + (IF k \in is THEN s[k].len ELSE 0)
  <2> SUFFICES ASSUME NEW k \in 1..Len(s)
               PROVE  r[k] = r[k - 1] + (IF k \in is THEN s[k].len ELSE 0)
    OBVIOUS
  <2>1. r[k - 1] \in Nat
    BY <1>1
  <2> QED
    BY <1>3, <2>1
<1>5. r = [n \in 0..Len(s) |-> IF n = 0 THEN 0
                              ELSE r[n - 1] + (IF n \in is THEN s[n].len ELSE 0)]
  BY <1>1, <1>3, <1>4
<1>6. f = [n \in 0..Len(s) |-> IF n = 0 THEN 0
                              ELSE f[n - 1] + (IF n \in is THEN s[n].len ELSE 0)]
  BY <1>5 DEF BytesUpTo
<1>7. f[0] = 0 /\ \A k \in 1..Len(s) : f[k] = f[k - 1] + (IF k \in is THEN s[k].len ELSE 0)
  <2> HIDE DEF f
  <2> QED
    BY <1>1, <1>6
<1>8. \A k \in 0..Len(s) : f[k] = r[k]
  <2> HIDE DEF f
  <2>1. f[0] = r[0] /\ \A k \in 1..Len(s) : f[k - 1] = r[k - 1] => f[k] = r[k]
    BY <1>3, <1>4, <1>7
  <2> QED
    BY <1>1, <2>1, RunsAgree, ZenonT(60) DEF Agree
<1>9. f \in [0..Len(s) -> Nat]
  <2> HIDE DEF f
  <2> QED
    BY <1>6, <1>8
<1>10. Bytes(s, is) = f[Len(s)]
  BY DEF Bytes, BytesUpTo
<1> QED
  BY <1>7, <1>9, <1>10
\* Another packet adds its bytes, when it is one of those asked for.
LEMMA BytesAppend ==
  ASSUME NEW s \in Seq(Packets), NEW p \in Packets, NEW is
  PROVE  Bytes(Append(s, p), is) =
           Bytes(s, is) + (IF Len(s) + 1 \in is THEN p.len ELSE 0)
<1> DEFINE t == Append(s, p)
           f == BytesUpTo(s, is)
           g == BytesUpTo(t, is)
<1>1. /\ Len(s) \in Nat /\ t \in Seq(Packets) /\ Len(t) = Len(s) + 1
      /\ t[Len(s) + 1] = p /\ \A k \in 1..Len(s) : t[k] = s[k]
  BY LenProperties, AppendProperties
<1> HIDE DEF t
<1>2. /\ Bytes(s, is) = f[Len(s)] /\ f[0] = 0
      /\ \A k \in 1..Len(s) : f[k] = f[k - 1] + (IF k \in is THEN s[k].len ELSE 0)
  BY BytesRun
<1>3. /\ Bytes(t, is) = g[Len(t)] /\ g[0] = 0
      /\ \A k \in 1..Len(t) : g[k] = g[k - 1] + (IF k \in is THEN t[k].len ELSE 0)
  BY <1>1, BytesRun, ZenonT(60)
<1> HIDE DEF f, g
<1>4. g[Len(s)] = f[Len(s)]
  <2>1. \A k \in 1..Len(s) : k \in 1..Len(t)
    BY <1>1
  <2>2. \A k \in 1..Len(s) : g[k - 1] = f[k - 1] => g[k] = f[k]
    BY <1>1, <1>2, <1>3, <2>1
  <2>3. g[0] = f[0] /\ Len(s) \in Nat
    BY <1>1, <1>2, <1>3
  <2>4. \A k \in 0..Len(s) : g[k] = f[k]
    BY <2>2, <2>3, RunsAgree, ZenonT(60) DEF Agree
  <2> QED
    BY <1>1, <2>4
<1>5. g[Len(s) + 1] = g[Len(s)] + (IF Len(s) + 1 \in is THEN p.len ELSE 0)
  <2>1. Len(s) + 1 \in 1..Len(t) /\ (Len(s) + 1) - 1 = Len(s)
    BY <1>1
  <2> QED
    BY <1>1, <1>3, <2>1
<1> QED
  BY <1>1, <1>2, <1>3, <1>4, <1>5 DEF t

\* Only the positions that the list has count.
LEMMA BytesSame ==
  ASSUME NEW s \in Seq(Packets), NEW is, NEW js,
         \A k \in 1..Len(s) : k \in is <=> k \in js
  PROVE  Bytes(s, is) = Bytes(s, js)
<1> DEFINE f == BytesUpTo(s, is)
           g == BytesUpTo(s, js)
<1>1. /\ Bytes(s, is) = f[Len(s)] /\ f[0] = 0
      /\ \A k \in 1..Len(s) : f[k] = f[k - 1] + (IF k \in is THEN s[k].len ELSE 0)
  BY BytesRun
<1>2. /\ Bytes(s, js) = g[Len(s)] /\ g[0] = 0
      /\ \A k \in 1..Len(s) : g[k] = g[k - 1] + (IF k \in js THEN s[k].len ELSE 0)
  BY BytesRun
<1> HIDE DEF f, g
<1>3. \A k \in 1..Len(s) : f[k - 1] = g[k - 1] => f[k] = g[k]
  BY <1>1, <1>2
<1>4. Len(s) \in Nat /\ Len(s) \in 0..Len(s)
  BY LenProperties
<1>5. f[0] = g[0]
  BY <1>1, <1>2
<1>6. \A k \in 0..Len(s) : f[k] = g[k]
  BY <1>3, <1>4, <1>5, RunsAgree, ZenonT(60) DEF Agree
<1> QED
  BY <1>1, <1>2, <1>4, <1>6

LEMMA BytesNone ==
  ASSUME NEW s \in Seq(Packets), NEW is, \A k \in 1..Len(s) : k \notin is
  PROVE  Bytes(s, is) = 0
<1> DEFINE f == BytesUpTo(s, is)
           T == {k \in 0..Len(s) : f[k] = 0}
<1>1. Len(s) \in Nat /\ Len(s) \in 0..Len(s)
  BY LenProperties
<1>2. /\ Bytes(s, is) = f[Len(s)] /\ f[0] = 0 /\ f \in [0..Len(s) -> Nat]
      /\ \A k \in 1..Len(s) : f[k] = f[k - 1] + (IF k \in is THEN s[k].len ELSE 0)
  BY BytesRun
<1> HIDE DEF f
<1>3. 0 \in T /\ \A k \in 1..Len(s) : k - 1 \in T => k \in T
  BY <1>1, <1>2
<1> HIDE DEF T
<1>4. 0..Len(s) \subseteq T
  BY <1>1, <1>3, Induction
<1> QED
  BY <1>1, <1>2, <1>4 DEF T

LEMMA BytesType ==
  ASSUME NEW s \in Seq(Packets), NEW is
  PROVE  Bytes(s, is) \in Nat
<1>1. Len(s) \in 0..Len(s)
  BY LenProperties
<1> QED
  BY <1>1, BytesRun
-----------------------------------------------------------------------------
(* The last items of a sequence, and what more of them does to it. *)

LEMMA KeepLastProperties ==
  ASSUME NEW S, NEW s \in Seq(S), NEW n \in Nat
  PROVE  /\ KeepLast(s, n) \in Seq(S)
         /\ Len(KeepLast(s, n)) = IF Len(s) <= n THEN Len(s) ELSE n
         /\ \A i \in 1..Len(KeepLast(s, n)) :
              KeepLast(s, n)[i] = s[Len(s) - Len(KeepLast(s, n)) + i]
<1>1. Len(s) \in Nat /\ \A i \in 1..Len(s) : s[i] \in S
  BY LenProperties, ElementOfSeq
<1>2. CASE Len(s) <= n
  BY <1>1, <1>2 DEF KeepLast
<1>3. CASE ~(Len(s) <= n)
  <2> DEFINE m == Len(s) - n + 1
  <2>1. m \in Int /\ Len(s) \in Int /\ \A i \in m..Len(s) : s[i] \in S
    BY <1>1, <1>3
  <2>2. /\ SubSeq(s, m, Len(s)) \in Seq(S)
        /\ Len(SubSeq(s, m, Len(s))) = IF m <= Len(s) THEN Len(s) - m + 1 ELSE 0
        /\ \A i \in 1..(Len(s) - m + 1) : SubSeq(s, m, Len(s))[i] = s[m + i - 1]
    BY <2>1, SubSeqProperties
  <2>3. KeepLast(s, n) = SubSeq(s, m, Len(s))
    BY <1>3 DEF KeepLast
  <2>4. Len(KeepLast(s, n)) = n
    BY <1>1, <1>3, <2>2, <2>3
  <2>5. ASSUME NEW i \in 1..n PROVE KeepLast(s, n)[i] = s[Len(s) - n + i]
    <3>1. i \in 1..(Len(s) - m + 1) /\ m + i - 1 = Len(s) - n + i
      BY <1>1
    <3> QED
      BY <2>2, <2>3, <3>1
  <2> QED
    BY <1>3, <2>2, <2>3, <2>4, <2>5
<1> QED
  BY <1>2, <1>3

LEMMA KeepLastConcat ==
  ASSUME NEW S, NEW s \in Seq(S), NEW t \in Seq(S), NEW n \in Nat
  PROVE  KeepLast(KeepLast(s, n) \o t, n) = KeepLast(s \o t, n)
<1> DEFINE k == KeepLast(s, n)
           u == k \o t
           v == s \o t
           left == KeepLast(u, n)
           right == KeepLast(v, n)
<1>1. /\ k \in Seq(S) /\ Len(k) = (IF Len(s) <= n THEN Len(s) ELSE n)
      /\ \A i \in 1..Len(k) : k[i] = s[Len(s) - Len(k) + i]
  BY KeepLastProperties
<1> HIDE DEF k
<1>2. Len(s) \in Nat /\ Len(t) \in Nat /\ Len(k) \in Nat
  BY <1>1, LenProperties
<1>0. u \in Seq(S) /\ v \in Seq(S)
  BY <1>1, ConcatProperties
<1>3. /\ Len(u) = Len(k) + Len(t)
      /\ \A i \in 1..(Len(k) + Len(t)) : u[i] = IF i <= Len(k) THEN k[i] ELSE t[i - Len(k)]
  BY <1>1, ConcatProperties
<1>4. /\ Len(v) = Len(s) + Len(t)
      /\ \A i \in 1..(Len(s) + Len(t)) : v[i] = IF i <= Len(s) THEN s[i] ELSE t[i - Len(s)]
  BY ConcatProperties
<1> HIDE DEF u, v
<1>5. /\ left \in Seq(S) /\ Len(left) = (IF Len(u) <= n THEN Len(u) ELSE n)
      /\ \A i \in 1..Len(left) : left[i] = u[Len(u) - Len(left) + i]
  BY <1>0, KeepLastProperties
<1>6. /\ right \in Seq(S) /\ Len(right) = (IF Len(v) <= n THEN Len(v) ELSE n)
      /\ \A i \in 1..Len(right) : right[i] = v[Len(v) - Len(right) + i]
  BY <1>0, KeepLastProperties
<1> HIDE DEF left, right
<1>7. /\ Len(left) = Len(right) /\ Len(left) \in Nat
      /\ Len(left) <= Len(k) + Len(t) /\ Len(k) <= Len(s)
  BY <1>1, <1>2, <1>3, <1>4, <1>5, <1>6
<1>8. ASSUME NEW i \in 1..Len(left) PROVE left[i] = right[i]
  <2>1. PICK a, b : /\ a = Len(k) + Len(t) - Len(left) + i
                    /\ b = Len(s) + Len(t) - Len(left) + i
    OBVIOUS
  <2>2. /\ a \in 1..(Len(k) + Len(t)) /\ b \in 1..(Len(s) + Len(t))
        /\ a - Len(k) = b - Len(s) /\ Len(s) - Len(k) + a = b
        /\ Len(u) - Len(left) + i = a /\ Len(v) - Len(right) + i = b
    BY <1>2, <1>3, <1>4, <1>7, <2>1
  <2>3. left[i] = u[a]
    BY <1>5, <2>2
  <2>4. right[i] = v[b]
    BY <1>6, <1>7, <2>2
  <2>5. CASE a <= Len(k)
    <3>1. a \in 1..Len(k) /\ b <= Len(s)
      BY <1>2, <2>2, <2>5
    <3>2. u[a] = k[a]
      BY <1>3, <2>2, <2>5
    <3>3. k[a] = s[b]
      BY <1>1, <2>2, <3>1
    <3> QED
      BY <1>4, <2>2, <2>3, <2>4, <3>1, <3>2, <3>3
  <2>6. CASE ~(a <= Len(k))
    <3>1. ~(b <= Len(s))
      BY <1>2, <2>2, <2>6
    <3> QED
      BY <1>3, <1>4, <2>2, <2>3, <2>4, <2>6, <3>1
  <2> QED
    BY <2>5, <2>6
<1>9. left = right
  BY <1>5, <1>6, <1>7, <1>8, SeqEqual
<1> QED
  BY <1>9 DEF left, right, u, v, k

LEMMA KeepLastAppend ==
  ASSUME NEW S, NEW s \in Seq(S), NEW x \in S, NEW n \in Nat
  PROVE  KeepLast(Append(KeepLast(s, n), x), n) = KeepLast(Append(s, x), n)
<1>1. KeepLast(s, n) \in Seq(S) /\ <<x>> \in Seq(S)
  BY KeepLastProperties
<1>2. /\ Append(KeepLast(s, n), x) = KeepLast(s, n) \o <<x>>
      /\ Append(s, x) = s \o <<x>>
  BY <1>1, AppendIsConcat
<1> QED
  BY <1>1, <1>2, KeepLastConcat, ZenonT(60)
-----------------------------------------------------------------------------
(* The statistics of a list of packets, and what one more packet adds.  A  *)
(* question about packets is a set of them: those that answer it.          *)

Where(s, Q) == {i \in DOMAIN s : s[i] \in Q}

From(h) == {q \in Packets : q.src = h}
To(h) == {q \in Packets : q.dst = h}
Speaks(x) == {q \in Packets : q.proto = x}
OfFlow(k) == {q \in Packets : HasFlow(q) /\ FlowKey(q) = k}

LEMMA WhereAppend ==
  ASSUME NEW s \in Seq(Packets), NEW p \in Packets, NEW Q
  PROVE  /\ Where(Append(s, p), Q) =
              Where(s, Q) \union (IF p \in Q THEN {Len(s) + 1} ELSE {})
         /\ Where(s, Q) \subseteq 1..Len(s)
<1>1. /\ Len(s) \in Nat /\ DOMAIN s = 1..Len(s)
      /\ DOMAIN Append(s, p) = 1..(Len(s) + 1)
      /\ Append(s, p)[Len(s) + 1] = p
      /\ \A k \in 1..Len(s) : Append(s, p)[k] = s[k]
  <2>1. Append(s, p) \in Seq(Packets) /\ Len(Append(s, p)) = Len(s) + 1
    BY AppendProperties
  <2> QED
    BY <2>1, LenProperties, AppendProperties
<1>2. 1..(Len(s) + 1) = (1..Len(s)) \union {Len(s) + 1} /\ Len(s) + 1 \notin 1..Len(s)
  BY <1>1
<1> QED
  BY <1>1, <1>2 DEF Where

\* One more packet counts once more, and adds its bytes, where it is asked for.
LEMMA Recount ==
  ASSUME NEW s \in Seq(Packets), NEW p \in Packets, NEW Q
  PROVE  /\ Cardinality(Where(s, Q)) \in Nat /\ Bytes(s, Where(s, Q)) \in Nat
         /\ Cardinality(Where(Append(s, p), Q)) =
              Cardinality(Where(s, Q)) + (IF p \in Q THEN 1 ELSE 0)
         /\ Bytes(Append(s, p), Where(Append(s, p), Q)) =
              Bytes(s, Where(s, Q)) + (IF p \in Q THEN p.len ELSE 0)
<1> DEFINE old == Where(s, Q)
           new == Where(Append(s, p), Q)
<1>1. /\ new = old \union (IF p \in Q THEN {Len(s) + 1} ELSE {})
      /\ old \subseteq 1..Len(s)
  BY WhereAppend
<1>2. Len(s) \in Nat /\ p.len \in Nat
  BY LenProperties, PacketType
<1>3. Len(s) + 1 \notin old /\ (Len(s) + 1 \in new <=> p \in Q)
      /\ \A k \in 1..Len(s) : k \in new <=> k \in old
  BY <1>1, <1>2
<1> HIDE DEF old, new
<1>4. IsFiniteSet(old)
  <2>1. IsFiniteSet(1..Len(s))
    BY <1>2, FS_Interval
  <2> QED
    BY <1>1, <2>1, FS_Subset
<1>5. Cardinality(old) \in Nat
  BY <1>4, FS_CardinalityType
<1>6. Cardinality(new) = Cardinality(old) + (IF p \in Q THEN 1 ELSE 0)
  <2>1. CASE p \in Q
    <3>1. new = old \union {Len(s) + 1}
      BY <1>1, <2>1
    <3> QED
      BY <1>3, <1>4, <2>1, <3>1, FS_AddElement
  <2>2. CASE p \notin Q
    BY <1>1, <1>5, <2>2
  <2> QED
    BY <2>1, <2>2
<1>7. Bytes(Append(s, p), new) = Bytes(s, new) + (IF p \in Q THEN p.len ELSE 0)
  BY <1>3, BytesAppend
<1>8. Bytes(s, new) = Bytes(s, old) /\ Bytes(s, old) \in Nat
  BY <1>3, BytesSame, BytesType
<1> QED
  BY <1>5, <1>6, <1>7, <1>8 DEF old, new

LEMMA RecountEmpty ==
  ASSUME NEW Q
  PROVE  /\ Cardinality(Where(<<>>, Q)) = 0
         /\ Bytes(<<>>, Where(<<>>, Q)) = 0
<1>1. Where(<<>>, Q) = {}
  BY DEF Where
<1>2. <<>> \in Seq(Packets) /\ Len(<<>>) = 0
  BY EmptySeq
<1>3. Bytes(<<>>, {}) = 0
  BY <1>2, BytesNone
<1> QED
  BY <1>1, <1>3, FS_EmptySet

\* The statistics in a snapshot are those of the packets s.
Describes(st, s) ==
  /\ st.bytes = Bytes(s, DOMAIN s)
  /\ \A x \in Protocols : st.proto[x] = Cardinality(Indices(LAMBDA p : p.proto = x, s))
  /\ st.talkers = TalkersOf(s)
  /\ st.flows = FlowsOf(s)
  /\ st.recent = KeepLast(s, RecentCap)

\* The same, by sets of packets.
LEMMA Description ==
  ASSUME NEW s \in Seq(Packets)
  PROVE  /\ DOMAIN s = Where(s, Packets)
         /\ \A x \in Protocols : Indices(LAMBDA p : p.proto = x, s) = Where(s, Speaks(x))
         /\ TalkersOf(s) =
              [h \in Hosts |-> [sent |-> Cardinality(Where(s, From(h))),
                                recv |-> Cardinality(Where(s, To(h))),
                                bytesSent |-> Bytes(s, Where(s, From(h))),
                                bytesRecv |-> Bytes(s, Where(s, To(h)))]]
         /\ FlowsOf(s) =
              [k \in FlowKeys |-> [packets |-> Cardinality(Where(s, OfFlow(k))),
                                   bytes |-> Bytes(s, Where(s, OfFlow(k)))]]
<1>1. \A i \in DOMAIN s : s[i] \in Packets
  BY LenProperties, ElementOfSeq
<1>2. DOMAIN s = Where(s, Packets)
  BY <1>1 DEF Where
<1>3. \A x : {i \in DOMAIN s : s[i].proto = x} = Where(s, Speaks(x))
  BY <1>1 DEF Where, Speaks
<1>4. \A h : /\ {i \in DOMAIN s : s[i].src = h} = Where(s, From(h))
             /\ {i \in DOMAIN s : s[i].dst = h} = Where(s, To(h))
  BY <1>1 DEF Where, From, To
<1>5. \A k : {i \in DOMAIN s : HasFlow(s[i]) /\ FlowKey(s[i]) = k} = Where(s, OfFlow(k))
  BY <1>1 DEF Where, OfFlow
<1>6. \A x \in Protocols : Indices(LAMBDA p : p.proto = x, s) = Where(s, Speaks(x))
  BY <1>3 DEF Indices
<1>7. TalkersOf(s) =
        [h \in Hosts |-> [sent |-> Cardinality({i \in DOMAIN s : s[i].src = h}),
                          recv |-> Cardinality({i \in DOMAIN s : s[i].dst = h}),
                          bytesSent |-> Bytes(s, {i \in DOMAIN s : s[i].src = h}),
                          bytesRecv |-> Bytes(s, {i \in DOMAIN s : s[i].dst = h})]]
  BY DEF TalkersOf, Indices
<1>8. FlowsOf(s) =
        [k \in FlowKeys |->
           [packets |-> Cardinality({i \in DOMAIN s : HasFlow(s[i]) /\ FlowKey(s[i]) = k}),
            bytes |-> Bytes(s, {i \in DOMAIN s : HasFlow(s[i]) /\ FlowKey(s[i]) = k})]]
  BY DEF FlowsOf, Indices
<1> QED
  BY <1>2, <1>4, <1>5, <1>6, <1>7, <1>8
-----------------------------------------------------------------------------
(* The events of a packet: alerts, and milestones of a story. *)

Kinds == {"PORT_SCAN", "LARGE_TRANSFER", "SUSPICIOUS_DNS", "BEHAVIORAL_DEVIATION"}
Event == [kind : Kinds, host : Hosts, time : Nat, inText : SUBSET (Hosts \union {NoHost})]
Alert == [kind : Kinds, host : Hosts, time : Nat, at : Nat]
Milestone == [kind : {"DNS_QUERY", "TCP_HANDSHAKE", "TCP_CLOSE", "TCP_RESET", "SECURITY_ALERT"},
              time : Nat, inText : SUBSET (Hosts \union {NoHost}),
              peer : Hosts \union {NoHost}]

LEMMA SingleOrNone ==
  ASSUME NEW S, NEW x, NEW yes \in BOOLEAN, yes => x \in S
  PROVE  /\ (IF yes THEN <<x>> ELSE <<>>) \in Seq(S)
         /\ \A e : e \in Range(IF yes THEN <<x>> ELSE <<>>) <=> yes /\ e = x
BY DEF Range

LEMMA EventsProperties ==
  ASSUME NEW p \in Packets, NEW bytes \in Nat
  PROVE  /\ Events(p, bytes) \in Seq(Event)
         /\ \A e \in Range(Events(p, bytes)) : e.host = p.src /\ e.time = p.time
         /\ p.src = NoHost => Events(p, bytes) = <<>>
         /\ (\E e \in Range(Events(p, bytes)) : e.kind = "PORT_SCAN") <=> IsPortScan(p)
         /\ (\E e \in Range(Events(p, bytes)) : e.kind = "LARGE_TRANSFER")
              <=> IsLargeTransfer(p, bytes)
<1> DEFINE E(kind) == [kind |-> kind, host |-> p.src, time |-> p.time,
                       inText |-> IF kind = "LARGE_TRANSFER" THEN {p.src, p.dst} ELSE {}]
           a == IF IsPortScan(p) THEN <<E("PORT_SCAN")>> ELSE <<>>
           b == IF IsLargeTransfer(p, bytes) THEN <<E("LARGE_TRANSFER")>> ELSE <<>>
           c == IF IsSuspiciousDNS(p) THEN <<E("SUSPICIOUS_DNS")>> ELSE <<>>
<1>1. Events(p, bytes) = (a \o b) \o c
  BY DEF Events
<1>2. /\ p.src \in Hosts \union {NoHost} /\ p.dst \in Hosts \union {NoHost}
      /\ p.time \in Nat
  BY PacketType
<1>3. p.src = NoHost => ~IsPortScan(p) /\ ~IsLargeTransfer(p, bytes) /\ ~IsSuspiciousDNS(p)
  BY DEF IsPortScan, IsLargeTransfer, IsSuspiciousDNS, Watched, HasFlow
<1>4. \A kind \in Kinds : p.src # NoHost => E(kind) \in Event
  BY <1>2 DEF Event
<1>5. /\ IsPortScan(p) \in BOOLEAN /\ IsLargeTransfer(p, bytes) \in BOOLEAN
      /\ IsSuspiciousDNS(p) \in BOOLEAN
  BY DEF IsPortScan, IsLargeTransfer, IsSuspiciousDNS
<1>6. /\ a \in Seq(Event) /\ \A e : e \in Range(a) <=> IsPortScan(p) /\ e = E("PORT_SCAN")
  <2> HIDE DEF E
  <2>1. IsPortScan(p) => E("PORT_SCAN") \in Event
    <3>1. "PORT_SCAN" \in Kinds
      BY DEF Kinds
    <3> QED
      BY <1>3, <1>4, <3>1
  <2> QED
    BY <1>5, <2>1, SingleOrNone
<1>7. /\ b \in Seq(Event)
      /\ \A e : e \in Range(b) <=> IsLargeTransfer(p, bytes) /\ e = E("LARGE_TRANSFER")
  <2> HIDE DEF E
  <2>1. IsLargeTransfer(p, bytes) => E("LARGE_TRANSFER") \in Event
    <3>1. "LARGE_TRANSFER" \in Kinds
      BY DEF Kinds
    <3> QED
      BY <1>3, <1>4, <3>1
  <2> QED
    BY <1>5, <2>1, SingleOrNone
<1>8. /\ c \in Seq(Event)
      /\ \A e : e \in Range(c) <=> IsSuspiciousDNS(p) /\ e = E("SUSPICIOUS_DNS")
  <2> HIDE DEF E
  <2>1. IsSuspiciousDNS(p) => E("SUSPICIOUS_DNS") \in Event
    <3>1. "SUSPICIOUS_DNS" \in Kinds
      BY DEF Kinds
    <3> QED
      BY <1>3, <1>4, <3>1
  <2> QED
    BY <1>5, <2>1, SingleOrNone
<1>9. p.src = NoHost => a = <<>> /\ b = <<>> /\ c = <<>>
  BY <1>3
<1>10. \A kind : E(kind).kind = kind /\ E(kind).host = p.src /\ E(kind).time = p.time
  OBVIOUS
<1> HIDE DEF E, a, b, c
<1>11. /\ a \o b \in Seq(Event) /\ (a \o b) \o c \in Seq(Event)
       /\ Range((a \o b) \o c) = Range(a) \union Range(b) \union Range(c)
  <2>1. a \o b \in Seq(Event) /\ Range(a \o b) = Range(a) \union Range(b)
    BY <1>6, <1>7, ConcatProperties, RangeConcatenation
  <2>2. PICK ab : ab = a \o b
    OBVIOUS
  <2>3. ab \in Seq(Event) /\ c \in Seq(Event)
    BY <1>8, <2>1, <2>2
  <2>4. ab \o c \in Seq(Event) /\ Range(ab \o c) = Range(ab) \union Range(c)
    BY <2>3, ConcatProperties, RangeConcatenation
  <2> QED
    BY <2>1, <2>2, <2>4
<1>12. p.src = NoHost => (a \o b) \o c = <<>>
  <2>1. <<>> \in Seq(Event) /\ <<>> \o <<>> = <<>>
    BY EmptySeq, ConcatEmptySeq
  <2> QED
    BY <1>9, <2>1
<1>13. PICK es : es = Events(p, bytes)
  OBVIOUS
<1>14. /\ es \in Seq(Event) /\ (p.src = NoHost => es = <<>>)
       /\ Range(es) = Range(a) \union Range(b) \union Range(c)
  BY <1>1, <1>11, <1>12, <1>13
<1>15. \A e \in Range(es) : e.host = p.src /\ e.time = p.time
  BY <1>6, <1>7, <1>8, <1>10, <1>14
<1>16. (\E e \in Range(es) : e.kind = "PORT_SCAN") <=> IsPortScan(p)
  BY <1>6, <1>7, <1>8, <1>10, <1>14
<1>17. (\E e \in Range(es) : e.kind = "LARGE_TRANSFER") <=> IsLargeTransfer(p, bytes)
  BY <1>6, <1>7, <1>8, <1>10, <1>14
<1> QED
  BY <1>13, <1>14, <1>15, <1>16, <1>17

LEMMA DatedProperties ==
  ASSUME NEW es \in Seq(Event), NEW n \in Nat
  PROVE  /\ Dated(es, n) \in Seq(Alert) /\ Len(Dated(es, n)) = Len(es)
         /\ \A i \in 1..Len(es) : Dated(es, n)[i] =
              [kind |-> es[i].kind, host |-> es[i].host,
                time |-> es[i].time, at |-> n]
<1>1. /\ Len(es) \in Nat /\ DOMAIN es = 1..Len(es)
      /\ \A i \in 1..Len(es) : es[i] \in Event
  BY LenProperties, ElementOfSeq
<1>2. Dated(es, n) \in [1..Len(es) -> Alert]
  BY <1>1 DEF Dated, Event, Alert
<1>3. \A i \in 1..Len(es) : Dated(es, n)[i] =
              [kind |-> es[i].kind, host |-> es[i].host,
                time |-> es[i].time, at |-> n]
  BY <1>1 DEF Dated
<1> QED
  BY <1>1, <1>2, <1>3, SeqOfFunction
-----------------------------------------------------------------------------
(* A sequence seen through a function of its items. *)

Seen(s, f) == [i \in DOMAIN s |-> f[s[i]]]
IsSeen(u, s, f, T) ==
  u \in Seq(T) /\ Len(u) = Len(s) /\ \A i \in 1..Len(s) : u[i] = f[s[i]]

LEMMA SeenProperties ==
  ASSUME NEW S, NEW T, NEW f \in [S -> T], NEW s \in Seq(S)
  PROVE  IsSeen(Seen(s, f), s, f, T)
<1>1. /\ Len(s) \in Nat /\ DOMAIN s = 1..Len(s) /\ \A i \in 1..Len(s) : s[i] \in S
  BY LenProperties, ElementOfSeq
<1>2. Seen(s, f) \in [1..Len(s) -> T]
  BY <1>1 DEF Seen
<1>3. \A i \in 1..Len(s) : Seen(s, f)[i] = f[s[i]]
  BY <1>1 DEF Seen
<1> QED
  BY <1>1, <1>2, <1>3, SeqOfFunction DEF IsSeen

LEMMA SeenConcat ==
  ASSUME NEW S, NEW T, NEW f \in [S -> T], NEW s \in Seq(S), NEW t \in Seq(S)
  PROVE  Seen(s \o t, f) = Seen(s, f) \o Seen(t, f)
<1> DEFINE u == s \o t
           fs == Seen(s, f)
           ft == Seen(t, f)
           left == Seen(u, f)
           right == fs \o ft
<1>1. /\ u \in Seq(S) /\ Len(u) = Len(s) + Len(t)
      /\ \A i \in 1..(Len(s) + Len(t)) : u[i] = IF i <= Len(s) THEN s[i] ELSE t[i - Len(s)]
  BY ConcatProperties
<1>2. IsSeen(fs, s, f, T) /\ IsSeen(ft, t, f, T)
  BY SeenProperties
<1>3. IsSeen(left, u, f, T)
  <2> HIDE DEF u
  <2> QED
    BY <1>1, SeenProperties
<1> HIDE DEF u, fs, ft
<1>4. /\ fs \in Seq(T) /\ Len(fs) = Len(s) /\ \A i \in 1..Len(s) : fs[i] = f[s[i]]
      /\ ft \in Seq(T) /\ Len(ft) = Len(t) /\ \A i \in 1..Len(t) : ft[i] = f[t[i]]
      /\ left \in Seq(T) /\ Len(left) = Len(u) /\ \A i \in 1..Len(u) : left[i] = f[u[i]]
  BY <1>2, <1>3 DEF IsSeen
<1>5. /\ right \in Seq(T) /\ Len(right) = Len(fs) + Len(ft)
      /\ \A i \in 1..(Len(fs) + Len(ft)) :
           right[i] = IF i <= Len(fs) THEN fs[i] ELSE ft[i - Len(fs)]
  <2>1. fs \in Seq(T) /\ ft \in Seq(T)
    BY <1>4
  <2> QED
    BY <2>1, ConcatProperties
<1> HIDE DEF left, right
<1>6. Len(s) \in Nat /\ Len(t) \in Nat
  BY LenProperties
<1>7. Len(left) = Len(right) /\ Len(left) = Len(s) + Len(t)
  BY <1>1, <1>4, <1>5
<1>8. ASSUME NEW i \in 1..Len(left) PROVE left[i] = right[i]
  <2>1. left[i] = f[u[i]]
    BY <1>1, <1>4, <1>7
  <2>2. CASE i <= Len(s)
    <3>1. i \in 1..Len(s)
      BY <1>6, <1>7, <2>2
    <3> QED
      BY <1>1, <1>4, <1>5, <1>7, <2>1, <2>2, <3>1
  <2>3. CASE ~(i <= Len(s))
    <3>1. PICK j : j = i - Len(s)
      OBVIOUS
    <3>2. j \in 1..Len(t) /\ i \in 1..(Len(s) + Len(t))
      BY <1>6, <1>7, <2>3, <3>1
    <3>3. u[i] = t[j]
      BY <1>1, <2>3, <3>1, <3>2
    <3>4. right[i] = ft[j]
      BY <1>4, <1>5, <2>3, <3>1, <3>2
    <3> QED
      BY <1>4, <2>1, <3>2, <3>3, <3>4
  <2> QED
    BY <2>2, <2>3
<1>9. left = right
  BY <1>4, <1>5, <1>7, <1>8, SeqEqual
<1> QED
  BY <1>9 DEF left, right, u, fs, ft

LEMMA SeenKeepLast ==
  ASSUME NEW S, NEW T, NEW n \in Nat, NEW f \in [S -> T], NEW s \in Seq(S)
  PROVE  Seen(KeepLast(s, n), f) = KeepLast(Seen(s, f), n)
<1> DEFINE k == KeepLast(s, n)
           fs == Seen(s, f)
           left == Seen(k, f)
           right == KeepLast(fs, n)
<1>1. /\ k \in Seq(S) /\ Len(k) = (IF Len(s) <= n THEN Len(s) ELSE n)
      /\ \A i \in 1..Len(k) : k[i] = s[Len(s) - Len(k) + i]
  BY KeepLastProperties
<1>0. IsSeen(fs, s, f, T)
  BY SeenProperties
<1>2. /\ fs \in Seq(T) /\ Len(fs) = Len(s) /\ \A i \in 1..Len(s) : fs[i] = f[s[i]]
  BY <1>0 DEF IsSeen
<1> HIDE DEF k, fs
<1>3. /\ left \in Seq(T) /\ Len(left) = Len(k) /\ \A i \in 1..Len(k) : left[i] = f[k[i]]
  <2>1. IsSeen(left, k, f, T)
    BY <1>1, SeenProperties
  <2> QED
    BY <2>1 DEF IsSeen
<1>4. /\ right \in Seq(T) /\ Len(right) = (IF Len(fs) <= n THEN Len(fs) ELSE n)
      /\ \A i \in 1..Len(right) : right[i] = fs[Len(fs) - Len(right) + i]
  BY <1>2, KeepLastProperties, ZenonT(60)
<1> HIDE DEF left, right
<1>5. Len(s) \in Nat
  BY LenProperties
<1>6. Len(left) = Len(right) /\ Len(right) = Len(k) /\ Len(k) \in Nat /\ Len(k) <= Len(s)
  BY <1>1, <1>2, <1>3, <1>4, <1>5
<1>7. ASSUME NEW i \in 1..Len(left) PROVE left[i] = right[i]
  <2>1. PICK j : j = Len(s) - Len(k) + i
    OBVIOUS
  <2>2. j \in 1..Len(s)
    BY <1>5, <1>6, <2>1
  <2>3. left[i] = f[s[j]]
    BY <1>1, <1>3, <1>6, <2>1
  <2>4. right[i] = fs[j]
    BY <1>2, <1>4, <1>6, <2>1
  <2> QED
    BY <1>2, <2>2, <2>3, <2>4
<1>8. left = right
  BY <1>3, <1>4, <1>6, <1>7, SeqEqual
<1> QED
  BY <1>8 DEF left, right, k, fs

\* The first k items do not change when more are appended.
LEMMA SubSeqConcat ==
  ASSUME NEW S, NEW s \in Seq(S), NEW t \in Seq(S), NEW k \in 0..Len(s)
  PROVE  SubSeq(s \o t, 1, k) = SubSeq(s, 1, k)
<1>1. Len(s) \in Nat /\ \A i \in 1..Len(s) : s[i] \in S
  BY LenProperties, ElementOfSeq
<1>2. CASE k = 0
  BY <1>2, SubSeqEmpty
<1>3. CASE k # 0
  <2>1. 1 \in 1..Len(s) /\ k \in 1..Len(s)
    BY <1>1, <1>3
  <2> QED
    BY <2>1, SubSeqOfConcat1
<1> QED
  BY <1>2, <1>3
-----------------------------------------------------------------------------
(* Timelines. *)

LEMMA AddEventKeeps ==
  ASSUME NEW tl \in Seq(Milestone), Len(tl) <= StoryCap, NEW e \in Milestone
  PROVE  AddEvent(tl, e) = KeepLast(Append(tl, e), StoryCap)
<1>1. StoryCap \in Nat \ {0} /\ Len(tl) \in Nat
  BY StatsAssumption, LenProperties DEF StatsAssumption
<1>2. Append(tl, e) \in Seq(Milestone) /\ Len(Append(tl, e)) = Len(tl) + 1
  BY AppendProperties
<1>3. CASE Len(tl) >= StoryCap
  <2>1. Len(tl) = StoryCap /\ tl # <<>> /\ Append(tl, e) # <<>>
    BY <1>1, <1>2, <1>3, EmptySeq
  <2>2. Tail(Append(tl, e)) = Append(Tail(tl), e)
    BY <2>1, HeadTailAppend
  <2>3. Tail(Append(tl, e)) = SubSeq(Append(tl, e), 2, Len(tl) + 1)
    BY <1>2, <2>1, TailIsSubSeq
  <2>4. KeepLast(Append(tl, e), StoryCap) = SubSeq(Append(tl, e), 2, Len(tl) + 1)
    <3>1. PICK u : u = Append(tl, e)
      OBVIOUS
    <3>2. Len(u) - StoryCap + 1 = 2 /\ ~(Len(u) <= StoryCap) /\ Len(u) = Len(tl) + 1
      BY <1>1, <1>2, <2>1, <3>1
    <3>3. KeepLast(u, StoryCap) = SubSeq(u, Len(u) - StoryCap + 1, Len(u))
      BY <3>2 DEF KeepLast
    <3> QED
      BY <3>1, <3>2, <3>3
  <2> QED
    BY <1>3, <2>2, <2>3, <2>4 DEF AddEvent
<1>4. CASE ~(Len(tl) >= StoryCap)
  <2>1. Len(tl) + 1 <= StoryCap
    BY <1>1, <1>4
  <2> QED
    BY <1>2, <1>4, <2>1 DEF AddEvent, KeepLast
<1> QED
  BY <1>3, <1>4

Added(tl, es) ==
  CHOOSE after : after =
    [n \in 0..Len(es) |-> IF n = 0 THEN tl ELSE AddEvent(after[n - 1], es[n])]

\* A timeline keeps the last of its events and those that are added.
LEMMA AddEventsKeep ==
  ASSUME NEW tl \in Seq(Milestone), Len(tl) <= StoryCap, NEW es \in Seq(Milestone)
  PROVE  AddEvents(tl, es) = KeepLast(tl \o es, StoryCap)
<1> DEFINE Upto(n) == SubSeq(es, 1, n)
           Kept(n) == KeepLast(tl \o Upto(n), StoryCap)
           r == [n \in 0..Len(es) |-> Kept(n)]
           f == Added(tl, es)
<1>1. StoryCap \in Nat /\ Len(tl) \in Nat /\ Len(es) \in Nat
  BY StatsAssumption, LenProperties DEF StatsAssumption
<1>2. ASSUME NEW n \in 0..Len(es) PROVE Upto(n) \in Seq(Milestone)
  <2>1. \A i \in 1..n : es[i] \in Milestone
    BY <1>1, ElementOfSeq
  <2> QED
    BY <2>1, SubSeqProperties
<1>3. Upto(0) = <<>> /\ Upto(Len(es)) = es
  BY SubSeqEmpty, SubSeqFull
<1>4. Kept(0) = tl
  <2>1. tl \o <<>> = tl
    BY ConcatEmptySeq
  <2> QED
    BY <1>3, <2>1 DEF KeepLast
<1>5. ASSUME NEW n \in 1..Len(es) PROVE Kept(n) = AddEvent(Kept(n - 1), es[n])
  <2>1. n - 1 \in 0..Len(es) /\ n \in 0..Len(es) /\ es[n] \in Milestone
    BY <1>1, ElementOfSeq
  <2>2. PICK u : u = tl \o Upto(n - 1)
    OBVIOUS
  <2>3. u \in Seq(Milestone)
    BY <1>2, <2>1, <2>2, ConcatProperties
  <2>4. tl \o Upto(n) = Append(u, es[n])
    <3>1. Upto(n - 1) \in Seq(Milestone) /\ <<es[n]>> \in Seq(Milestone)
      BY <1>2, <2>1
    <3>2. Upto(n) = Upto(n - 1) \o <<es[n]>>
      <4>1. 1 \in 1..Len(es) /\ n \in 1..Len(es)
        BY <1>1
      <4> QED
        BY <4>1, SubSeqRecursiveSecond
    <3> HIDE DEF Upto
    <3>3. tl \o (Upto(n - 1) \o <<es[n]>>) = (tl \o Upto(n - 1)) \o <<es[n]>>
      BY <3>1, ConcatAssociative
    <3>4. u \o <<es[n]>> = Append(u, es[n])
      BY <2>1, <2>3, AppendIsConcat
    <3> QED
      BY <2>2, <3>2, <3>3, <3>4
  <2>5. PICK k : k = KeepLast(u, StoryCap)
    OBVIOUS
  <2>6. k \in Seq(Milestone) /\ Len(k) <= StoryCap
    BY <1>1, <2>3, <2>5, KeepLastProperties
  <2>7. AddEvent(k, es[n]) = KeepLast(Append(k, es[n]), StoryCap)
    BY <2>1, <2>6, AddEventKeeps
  <2>8. KeepLast(Append(k, es[n]), StoryCap) = KeepLast(Append(u, es[n]), StoryCap)
    BY <1>1, <2>1, <2>3, <2>5, KeepLastAppend
  <2> HIDE DEF Upto
  <2> QED
    BY <2>2, <2>4, <2>5, <2>7, <2>8
<1> HIDE DEF Kept
<1>6. r = [n \in 0..Len(es) |-> IF n = 0 THEN tl ELSE AddEvent(r[n - 1], es[n])]
  <2>1. \A n \in 0..Len(es) : r[n] = IF n = 0 THEN tl ELSE AddEvent(r[n - 1], es[n])
    <3> SUFFICES ASSUME NEW n \in 0..Len(es)
                 PROVE  r[n] = IF n = 0 THEN tl ELSE AddEvent(r[n - 1], es[n])
      OBVIOUS
    <3>1. CASE n = 0
      BY <1>4, <3>1
    <3>2. CASE n # 0
      <4>1. n \in 1..Len(es) /\ n - 1 \in 0..Len(es)
        BY <1>1, <3>2
      <4> QED
        BY <1>5, <3>2, <4>1
    <3> QED
      BY <3>1, <3>2
  <2>2. r = [n \in 0..Len(es) |-> r[n]]
    OBVIOUS
  <2> HIDE DEF r
  <2> QED
    BY <2>1, <2>2
<1>7. f = [n \in 0..Len(es) |-> IF n = 0 THEN tl ELSE AddEvent(f[n - 1], es[n])]
  <2> HIDE DEF r
  <2> QED
    BY <1>6 DEF Added
<1> HIDE DEF f
<1>8. f[0] = r[0] /\ \A n \in 1..Len(es) : f[n - 1] = r[n - 1] => f[n] = r[n]
  <2>1. \A n \in 1..Len(es) : n \in 0..Len(es) /\ n # 0
    BY <1>1
  <2>2. 0 \in 0..Len(es)
    BY <1>1
  <2> HIDE DEF r
  <2> QED
    BY <1>6, <1>7, <2>1, <2>2
<1>9. f[Len(es)] = Kept(Len(es))
  <2>1. \A n \in 0..Len(es) : f[n] = r[n]
    <3> HIDE DEF r
    <3>1. f[0] = r[0]
      BY <1>8
    <3>2. \A n \in 1..Len(es) : f[n - 1] = r[n - 1] => f[n] = r[n]
      BY <1>8
    <3>3. Agree(f, r, Len(es))
      BY <1>1, <3>1, <3>2, RunsAgree
    <3> QED
      BY <3>3 DEF Agree
  <2>2. Len(es) \in 0..Len(es)
    BY <1>1
  <2> QED
    BY <2>1, <2>2
<1>10. AddEvents(tl, es) = f[Len(es)]
  BY DEF AddEvents, f, Added
<1> QED
  BY <1>3, <1>9, <1>10 DEF Kept
-----------------------------------------------------------------------------
(* Types. *)

Talked == [sent : Nat, recv : Nat, bytesSent : Nat, bytesRecv : Nat]
Flowed == [packets : Nat, bytes : Nat]
Entry == [port : Nat, time : Nat]

TrafficOK == log \in Seq(Packets) /\ total = Len(log)
CountsOK ==
  /\ totalBytes \in Nat /\ currentSecBytes \in Nat
  /\ protoCounts \in [Protocols -> Nat]
  /\ talkers \in [Hosts -> Talked] /\ flows \in [FlowKeys -> Flowed]
  /\ throughput \in Seq(Nat) /\ recent \in Seq(Packets) /\ ticks \in Seq(Nat)
DetectorOK ==
  portScanTrack \in [Hosts -> SUBSET Entry] /\ flaggedFlows \subseteq FlowKeys
AlertsOK ==
  alerts \in Seq(Alert) /\ anomalies \in Seq(Event)
StoryOK ==
  /\ timelines \in [Hosts -> Seq(Milestone)]
  /\ \A h \in Hosts : Len(timelines[h]) <= StoryCap
PublishedOK ==
  /\ storyThen \in [Hosts -> Seq(Milestone)]
  /\ observed \in [Hosts -> Nat]
  /\ published \in
       [total : Nat, bytes : Nat, proto : [Protocols -> Nat],
        talkers : [Hosts -> Talked], flows : [FlowKeys -> Flowed],
        throughput : Seq(Nat), recent : Seq(Packets), anomalies : Seq(Event)]

TypeOK ==
  TrafficOK /\ CountsOK /\ DetectorOK /\ AlertsOK /\ StoryOK /\ PublishedOK

LEMMA InitTyped == Init => TypeOK
<1> SUFFICES ASSUME Init PROVE TypeOK
  OBVIOUS
<1>1. /\ <<>> \in Seq(Packets) /\ <<>> \in Seq(Nat) /\ <<>> \in Seq(Alert)
      /\ <<>> \in Seq(Event) /\ <<>> \in Seq(Milestone) /\ Len(<<>>) = 0
  BY EmptySeq
<1>2. CountsOK
  BY <1>1 DEF Init, CountsOK, Talked, Flowed, NoTraffic
<1>3. TrafficOK /\ DetectorOK /\ AlertsOK
  BY <1>1 DEF Init, TrafficOK, DetectorOK, AlertsOK
<1>4. StoryOK
  BY <1>1, StatsAssumption DEF Init, StoryOK, StatsAssumption
<1>5. total \in Nat
  BY DEF Init
<1>6. published = Current /\ storyThen = timelines /\ observed \in [Hosts -> Nat]
  BY DEF Init
<1>7. PublishedOK
  BY <1>2, <1>3, <1>4, <1>5, <1>6 DEF PublishedOK, Current, CountsOK, AlertsOK, StoryOK
<1> QED
  BY <1>2, <1>3, <1>4, <1>7 DEF TypeOK

\* A step of Packet counts one packet.
LEMMA PacketCounted ==
  ASSUME Packet
  PROVE  \E p \in Packets : AddPacket(p)
<1>1. PICK shape \in Shapes, t \in 0..MaxTime : AddPacket(Stamped(shape, t))
  BY DEF Packet
<1>2. PICK p : p = Stamped(shape, t)
  OBVIOUS
<1>3. t \in Nat
  BY StatsAssumption DEF StatsAssumption
<1>4. p \in Packets
  BY <1>2, <1>3 DEF Packets
<1> QED
  BY <1>1, <1>2, <1>4

\* The bytes of its flow that the detector is given.
FlowBytes(p) == IF HasFlow(p) THEN flows[FlowKey(p)].bytes + p.len ELSE 0

LEMMA FlowBytesType ==
  ASSUME CountsOK, NEW p \in Packets
  PROVE  FlowBytes(p) \in Nat
<1>1. p.len \in Nat /\ (HasFlow(p) => FlowKey(p) \in FlowKeys)
  BY PacketType
<1> QED
  BY <1>1 DEF FlowBytes, CountsOK, Flowed

LEMMA PacketMilestones ==
  ASSUME NEW p \in Packets
  PROVE  /\ PacketEvents(p) \in Seq(Milestone)
         /\ \A m \in Range(PacketEvents(p)) : m.time = p.time
<1> DEFINE E(kind) == [kind |-> kind, time |-> p.time, inText |-> {},
                       peer |-> IF kind = "DNS_QUERY" THEN NoHost ELSE p.dst]
           One(yes, kind) == IF yes THEN <<E(kind)>> ELSE <<>>
           a == One(p.proto = "DNS" /\ p.query # "", "DNS_QUERY")
           b == One(p.proto = "TCP" /\ "SYN" \in p.flags /\ "ACK" \notin p.flags, "TCP_HANDSHAKE")
           c == One(p.proto = "TCP" /\ "FIN" \in p.flags, "TCP_CLOSE")
           d == One(p.proto = "TCP" /\ "RST" \in p.flags, "TCP_RESET")
           Good(s) == s \in Seq(Milestone) /\ \A m \in Range(s) : m.time = p.time
<1>1. PacketEvents(p) = ((a \o b) \o c) \o d
  BY DEF PacketEvents
<1>2. p.dst \in Hosts \union {NoHost} /\ p.time \in Nat
  BY PacketType
<1>3. \A kind \in {"DNS_QUERY", "TCP_HANDSHAKE", "TCP_CLOSE", "TCP_RESET"} :
        E(kind) \in Milestone /\ E(kind).time = p.time
  BY <1>2 DEF Milestone
<1> HIDE DEF E
<1>4. \A kind \in {"DNS_QUERY", "TCP_HANDSHAKE", "TCP_CLOSE", "TCP_RESET"} :
        \A yes \in BOOLEAN : Good(One(yes, kind))
  BY <1>3, SingleOrNone, ZenonT(60)
<1>5. Good(a) /\ Good(b) /\ Good(c) /\ Good(d)
  <2> HIDE DEF Good, One
  <2>1. /\ (p.proto = "DNS" /\ p.query # "") \in BOOLEAN
        /\ (p.proto = "TCP" /\ "SYN" \in p.flags /\ "ACK" \notin p.flags) \in BOOLEAN
        /\ (p.proto = "TCP" /\ "FIN" \in p.flags) \in BOOLEAN
        /\ (p.proto = "TCP" /\ "RST" \in p.flags) \in BOOLEAN
    OBVIOUS
  <2> QED
    BY <1>4, <2>1
<1> HIDE DEF a, b, c, d, One
<1>6. ASSUME NEW s, NEW t, Good(s), Good(t) PROVE Good(s \o t)
  <2>1. s \in Seq(Milestone) /\ t \in Seq(Milestone)
    BY <1>6
  <2>2. s \o t \in Seq(Milestone) /\ Range(s \o t) = Range(s) \union Range(t)
    BY <2>1, ConcatProperties, RangeConcatenation
  <2> QED
    BY <1>6, <2>2
<1> HIDE DEF Good
<1>7. Good(((a \o b) \o c) \o d)
  <2>1. Good(a \o b)
    BY <1>5, <1>6
  <2>2. Good((a \o b) \o c)
    BY <1>5, <1>6, <2>1
  <2> QED
    BY <1>5, <1>6, <2>2
<1> QED
  BY <1>1, <1>7 DEF Good

\* The milestone an alert is for the story of h, if it is one.
Warn(e, h) ==
  IF e.host = h
  THEN <<[kind |-> "SECURITY_ALERT", time |-> e.time, inText |-> e.inText, peer |-> NoHost]>>
  ELSE <<>>
Warns(es, h) == [i \in DOMAIN es |-> Warn(es[i], h)]

LEMMA AlertMilestones ==
  ASSUME NEW es \in Seq(Event), NEW h
  PROVE  /\ Warns(es, h) \in Seq(Seq(Milestone)) /\ Len(Warns(es, h)) = Len(es)
         /\ \A i \in 1..Len(es) : Warns(es, h)[i] = Warn(es[i], h)
         /\ AlertEvents(es, h) = FlattenSeq(Warns(es, h))
         /\ AlertEvents(es, h) \in Seq(Milestone)
<1>1. /\ Len(es) \in Nat /\ DOMAIN es = 1..Len(es) /\ \A i \in 1..Len(es) : es[i] \in Event
  BY LenProperties, ElementOfSeq
<1>2. ASSUME NEW e \in Event PROVE Warn(e, h) \in Seq(Milestone)
  <2>1. [kind |-> "SECURITY_ALERT", time |-> e.time, inText |-> e.inText, peer |-> NoHost]
          \in Milestone
    BY DEF Event, Milestone
  <2> QED
    BY <2>1 DEF Warn
<1>3. Warns(es, h) \in [1..Len(es) -> Seq(Milestone)]
  BY <1>1, <1>2 DEF Warns
<1>4. /\ Warns(es, h) \in Seq(Seq(Milestone)) /\ Len(Warns(es, h)) = Len(es)
  BY <1>1, <1>3, SeqOfFunction
<1>5. \A i \in 1..Len(es) : Warns(es, h)[i] = Warn(es[i], h)
  BY <1>1 DEF Warns
<1>6. AlertEvents(es, h) = FlattenSeq(Warns(es, h))
  BY DEF AlertEvents, Warns, Warn
<1>7. PICK ss : ss = Warns(es, h)
  OBVIOUS
<1>8. FlattenSeq(ss) \in Seq(Milestone)
  BY <1>4, <1>7, FlattenType
<1> QED
  BY <1>4, <1>5, <1>6, <1>7, <1>8
\* What a packet does to each part.
LEMMA PacketEffect ==
  ASSUME NEW p, AddPacket(p)
  PROVE  LET events == Events(p, FlowBytes(p))
         IN  /\ total' = total + 1 /\ totalBytes' = totalBytes + p.len
             /\ currentSecBytes' = currentSecBytes + p.len
             /\ protoCounts' = [protoCounts EXCEPT ![p.proto] = @ + 1]
             /\ talkers' = [h \in Hosts |->
                   [sent |-> talkers[h].sent + (IF p.src = h THEN 1 ELSE 0),
                    recv |-> talkers[h].recv + (IF p.dst = h THEN 1 ELSE 0),
                    bytesSent |-> talkers[h].bytesSent + (IF p.src = h THEN 1 ELSE 0) * p.len,
                    bytesRecv |-> talkers[h].bytesRecv + (IF p.dst = h THEN 1 ELSE 0) * p.len]]
             /\ flows' = IF HasFlow(p)
                         THEN [flows EXCEPT ![FlowKey(p)] =
                                 [packets |-> @.packets + 1, bytes |-> FlowBytes(p)]]
                         ELSE flows
             /\ recent' = KeepLast(Append(recent, p), RecentCap)
             /\ CheckPacket(p, FlowBytes(p))
             /\ anomalies' = KeepLast(anomalies \o events, AnomaliesCap)
             /\ Record(p, events)
             /\ log' = Append(log, p)
             /\ alerts' = alerts \o Dated(events, total + 1)
             /\ UNCHANGED <<throughput, published, ticks, observed, storyThen>>
BY DEF AddPacket, FlowBytes

LEMMA PacketTrafficOK ==
  ASSUME TypeOK, NEW p \in Packets, AddPacket(p)
  PROVE  TrafficOK'
<1>1. log \in Seq(Packets) /\ Len(log) \in Nat /\ total = Len(log) /\ p.time \in Nat
  BY LenProperties, PacketType DEF TypeOK, TrafficOK
<1>2. log' = Append(log, p) /\ total' = total + 1
  BY PacketEffect
<1>3. log' \in Seq(Packets) /\ Len(log') = Len(log) + 1 /\ log'[Len(log) + 1] = p
  BY <1>1, <1>2, AppendProperties
<1> QED
  BY <1>1, <1>2, <1>3 DEF TrafficOK

LEMMA PacketCountsOK ==
  ASSUME TypeOK, NEW p \in Packets, AddPacket(p)
  PROVE  CountsOK'
<1>1. CountsOK
  BY DEF TypeOK
<1>2. /\ p.len \in Nat /\ p.proto \in Protocols /\ (HasFlow(p) => FlowKey(p) \in FlowKeys)
      /\ FlowBytes(p) \in Nat
  BY <1>1, PacketType, FlowBytesType
<1>3. totalBytes' \in Nat /\ currentSecBytes' \in Nat
  BY <1>1, <1>2, PacketEffect DEF CountsOK
<1>4. protoCounts' \in [Protocols -> Nat]
  <2>1. protoCounts' = [protoCounts EXCEPT ![p.proto] = @ + 1]
    BY PacketEffect
  <2> QED
    BY <1>1, <1>2, <2>1 DEF CountsOK
<1>5. talkers' \in [Hosts -> Talked]
  <2>1. talkers' = [h \in Hosts |->
          [sent |-> talkers[h].sent + (IF p.src = h THEN 1 ELSE 0),
           recv |-> talkers[h].recv + (IF p.dst = h THEN 1 ELSE 0),
           bytesSent |-> talkers[h].bytesSent + (IF p.src = h THEN 1 ELSE 0) * p.len,
           bytesRecv |-> talkers[h].bytesRecv + (IF p.dst = h THEN 1 ELSE 0) * p.len]]
    BY PacketEffect
  <2>2. ASSUME NEW h \in Hosts
        PROVE  /\ talkers[h].sent + (IF p.src = h THEN 1 ELSE 0) \in Nat
               /\ talkers[h].recv + (IF p.dst = h THEN 1 ELSE 0) \in Nat
               /\ talkers[h].bytesSent + (IF p.src = h THEN 1 ELSE 0) * p.len \in Nat
               /\ talkers[h].bytesRecv + (IF p.dst = h THEN 1 ELSE 0) * p.len \in Nat
    <3>1. talkers[h] \in Talked
      BY <1>1 DEF CountsOK
    <3>2. /\ (IF p.src = h THEN 1 ELSE 0) * p.len \in Nat
          /\ (IF p.dst = h THEN 1 ELSE 0) * p.len \in Nat
      BY <1>2
    <3> QED
      BY <3>1, <3>2 DEF Talked
  <2> QED
    BY <2>1, <2>2 DEF Talked
<1>6. flows' \in [FlowKeys -> Flowed]
  <2>1. flows' = IF HasFlow(p)
                 THEN [flows EXCEPT ![FlowKey(p)] =
                         [packets |-> @.packets + 1, bytes |-> FlowBytes(p)]]
                 ELSE flows
    BY PacketEffect
  <2>2. CASE HasFlow(p)
    <3>1. flows[FlowKey(p)] \in Flowed
      BY <1>1, <1>2, <2>2 DEF CountsOK
    <3>2. [packets |-> flows[FlowKey(p)].packets + 1, bytes |-> FlowBytes(p)] \in Flowed
      BY <1>2, <3>1 DEF Flowed
    <3> QED
      BY <1>1, <2>1, <2>2, <3>2 DEF CountsOK
  <2>3. CASE ~HasFlow(p)
    BY <1>1, <2>1, <2>3 DEF CountsOK
  <2> QED
    BY <2>2, <2>3
<1>7. throughput' \in Seq(Nat) /\ ticks' \in Seq(Nat)
  BY <1>1, PacketEffect DEF CountsOK
<1>8. recent' \in Seq(Packets)
  <2>1. Append(recent, p) \in Seq(Packets)
    BY <1>1, AppendProperties DEF CountsOK
  <2>2. RecentCap \in Nat
    BY StatsAssumption DEF StatsAssumption
  <2>3. recent' = KeepLast(Append(recent, p), RecentCap)
    BY PacketEffect
  <2> QED
    BY <2>1, <2>2, <2>3, KeepLastProperties
<1> QED
  BY <1>3, <1>4, <1>5, <1>6, <1>7, <1>8 DEF CountsOK

LEMMA PacketDetectorOK ==
  ASSUME TypeOK, NEW p \in Packets, AddPacket(p)
  PROVE  DetectorOK'
<1>1. DetectorOK /\ CheckPacket(p, FlowBytes(p))
  BY PacketEffect DEF TypeOK
<1>2. /\ p.src \in Hosts \union {NoHost} /\ p.time \in Nat /\ p.port \in Nat
      /\ (HasFlow(p) => FlowKey(p) \in FlowKeys)
  BY PacketType
<1>3. portScanTrack' \in [Hosts -> SUBSET Entry]
  <2>1. CASE Watched(p)
    <3>1. p.src \in Hosts
      BY <1>2, <2>1 DEF Watched
    <3>2. Entries(p) \in SUBSET Entry
      BY <1>1, <1>2, <3>1 DEF Entries, Entry, DetectorOK
    <3>3. portScanTrack' =
            [portScanTrack EXCEPT ![p.src] = IF IsPortScan(p) THEN {} ELSE Entries(p)]
      BY <1>1, <2>1 DEF CheckPacket
    <3> QED
      BY <1>1, <3>2, <3>3 DEF DetectorOK
  <2>2. CASE ~Watched(p)
    BY <1>1, <2>2 DEF CheckPacket, DetectorOK
  <2> QED
    BY <2>1, <2>2
<1>4. flaggedFlows' \subseteq FlowKeys
  BY <1>1, <1>2 DEF CheckPacket, DetectorOK, IsLargeTransfer
<1> QED
  BY <1>3, <1>4 DEF DetectorOK

LEMMA PacketAlertsOK ==
  ASSUME TypeOK, NEW p \in Packets, AddPacket(p)
  PROVE  AlertsOK'
<1>1. PICK es : es = Events(p, FlowBytes(p))
  OBVIOUS
<1>2. es \in Seq(Event) /\ total + 1 \in Nat
  BY <1>1, FlowBytesType, EventsProperties, LenProperties DEF TypeOK, TrafficOK
<1>3. /\ anomalies' = KeepLast(anomalies \o es, AnomaliesCap)
      /\ alerts' = alerts \o Dated(es, total + 1)
  BY <1>1, PacketEffect
<1>4. Dated(es, total + 1) \in Seq(Alert) /\ alerts \in Seq(Alert) /\ anomalies \in Seq(Event)
  BY <1>2, DatedProperties DEF TypeOK, AlertsOK
<1>5. PICK u : u = anomalies \o es
  OBVIOUS
<1>6. u \in Seq(Event) /\ AnomaliesCap \in Nat
  BY <1>2, <1>4, <1>5, ConcatProperties, StatsAssumption DEF StatsAssumption
<1>7. anomalies' \in Seq(Event)
  BY <1>3, <1>5, <1>6, KeepLastProperties
<1>8. alerts' \in Seq(Alert)
  BY <1>3, <1>4, ConcatProperties
<1> QED
  BY <1>7, <1>8 DEF AlertsOK

\* What the story of h is told of a packet and of the alerts it raised.
Happened(p, es, h) ==
  (IF p.src = h THEN PacketEvents(p) ELSE <<>>) \o AlertEvents(es, h)

LEMMA HappenedType ==
  ASSUME NEW p \in Packets, NEW es \in Seq(Event), NEW h
  PROVE  Happened(p, es, h) \in Seq(Milestone)
<1>1. PICK a, b : /\ a = (IF p.src = h THEN PacketEvents(p) ELSE <<>>)
                  /\ b = AlertEvents(es, h)
  OBVIOUS
<1>2. a \in Seq(Milestone) /\ b \in Seq(Milestone)
  BY <1>1, PacketMilestones, AlertMilestones, EmptySeq
<1>3. a \o b \in Seq(Milestone)
  BY <1>2, ConcatProperties
<1> QED
  BY <1>1, <1>3 DEF Happened

\* A timeline to which events are added stays within its cap.
LEMMA TimelinesGrow ==
  ASSUME TypeOK, NEW new, \A h \in Hosts : new[h] \in Seq(Milestone),
         timelines' = [h \in Hosts |-> AddEvents(timelines[h], new[h])]
  PROVE  /\ StoryOK'
         /\ \A h \in Hosts : timelines'[h] = KeepLast(timelines[h] \o new[h], StoryCap)
<1>1. /\ \A h \in Hosts : timelines[h] \in Seq(Milestone) /\ Len(timelines[h]) <= StoryCap
      /\ StoryCap \in Nat
  BY StatsAssumption DEF TypeOK, StoryOK, StatsAssumption
<1>2. ASSUME NEW h \in Hosts
      PROVE  /\ timelines'[h] = KeepLast(timelines[h] \o new[h], StoryCap)
             /\ timelines'[h] \in Seq(Milestone) /\ Len(timelines'[h]) <= StoryCap
  <2>1. PICK u : u = timelines[h] \o new[h]
    OBVIOUS
  <2>2. u \in Seq(Milestone) /\ Len(u) \in Nat
    BY <1>1, <2>1, ConcatProperties, LenProperties
  <2>3. /\ KeepLast(u, StoryCap) \in Seq(Milestone)
        /\ Len(KeepLast(u, StoryCap)) = IF Len(u) <= StoryCap THEN Len(u) ELSE StoryCap
    BY <1>1, <2>2, KeepLastProperties
  <2>4. timelines'[h] = KeepLast(u, StoryCap)
    BY <1>1, <2>1, AddEventsKeep
  <2>5. Len(KeepLast(u, StoryCap)) <= StoryCap
    <3>1. PICK m, c : m = Len(u) /\ c = StoryCap
      OBVIOUS
    <3>2. (IF m <= c THEN m ELSE c) <= c
      BY <1>1, <2>2, <3>1
    <3> QED
      BY <2>3, <3>1, <3>2
  <2> QED
    BY <2>1, <2>3, <2>4, <2>5
<1>3. StoryOK'
  BY <1>2 DEF StoryOK
<1> QED
  BY <1>2, <1>3

\* The timelines after a packet, without recursion.
LEMMA PacketTimelines ==
  ASSUME TypeOK, NEW p \in Packets, AddPacket(p), NEW es, es = Events(p, FlowBytes(p))
  PROVE  /\ es \in Seq(Event) /\ StoryOK'
         /\ \A h \in Hosts :
              timelines'[h] = KeepLast(timelines[h] \o Happened(p, es, h), StoryCap)
<1>1. es \in Seq(Event)
  BY FlowBytesType, EventsProperties DEF TypeOK
<1>2. PICK new : new = [h \in Hosts |-> Happened(p, es, h)]
  OBVIOUS
<1>3. \A h \in Hosts : new[h] = Happened(p, es, h) /\ new[h] \in Seq(Milestone)
  BY <1>1, <1>2, HappenedType
<1>4. timelines' = [h \in Hosts |-> AddEvents(timelines[h], new[h])]
  <2>1. Record(p, es) /\ DOMAIN timelines = Hosts
    BY PacketEffect DEF TypeOK, StoryOK
  <2> QED
    BY <1>3, <2>1 DEF Record, Happened
<1> QED
  BY <1>1, <1>3, <1>4, TimelinesGrow

LEMMA PacketTyped ==
  ASSUME TypeOK, NEW p \in Packets, AddPacket(p)
  PROVE  TypeOK'
<1>1. PublishedOK'
  BY PacketEffect DEF TypeOK, PublishedOK
<1> QED
  BY <1>1, PacketTrafficOK, PacketCountsOK, PacketDetectorOK, PacketAlertsOK,
     PacketTimelines DEF TypeOK
\* What a tick does: it raises some alerts against talkers.
LEMMA TickEffect ==
  ASSUME TypeOK, Tick
  PROVE  \E es \in Seq(Event) :
           /\ \A i \in 1..Len(es) :
                /\ es[i].kind = "BEHAVIORAL_DEVIATION"
                /\ talkers[es[i].host].sent + talkers[es[i].host].recv > 0
           /\ anomalies' = KeepLast(anomalies \o es, AnomaliesCap)
           /\ alerts' = alerts \o Dated(es, total)
           /\ RecordAlerts(es)
<1> DEFINE hosts == {h \in Deviating : Talker(h)}
<1>1. PICK order \in AlertOrders(hosts), now \in 0..MaxTime :
        LET events == [i \in DOMAIN order |->
                         [kind |-> "BEHAVIORAL_DEVIATION", host |-> order[i],
                          time |-> now, inText |-> {}]]
        IN  /\ anomalies' = KeepLast(anomalies \o events, AnomaliesCap)
            /\ alerts' = alerts \o Dated(events, total)
            /\ RecordAlerts(events)
  BY DEF Tick
<1>2. \A h \in hosts : h \in Hosts /\ talkers[h].sent + talkers[h].recv > 0
  BY StatsAssumption DEF Talker, StatsAssumption
<1>3. Cardinality(hosts) \in Nat
  <2>1. hosts \subseteq Hosts /\ IsFiniteSet(Hosts)
    BY StatsAssumption DEF StatsAssumption
  <2> HIDE DEF hosts
  <2> QED
    BY <2>1, FS_Subset, FS_CardinalityType
<1> HIDE DEF hosts
<1>4. PICK n \in Nat : order \in [1..n -> hosts]
  <2>1. order \in UNION {[1..m -> hosts] : m \in 0..(2 * Cardinality(hosts))}
    BY <1>1 DEF AlertOrders, BoundedSeq, SeqOf
  <2>2. \A m \in 0..(2 * Cardinality(hosts)) : m \in Nat
    BY <1>3
  <2> QED
    BY <2>1, <2>2
<1>5. PICK es : es = [i \in 1..n |-> [kind |-> "BEHAVIORAL_DEVIATION", host |-> order[i],
                                      time |-> now, inText |-> {}]]
  OBVIOUS
<1>6. es \in [1..n -> Event]
  <2>1. now \in Nat /\ "BEHAVIORAL_DEVIATION" \in Kinds
    BY StatsAssumption DEF StatsAssumption, Kinds
  <2>2. \A i \in 1..n : order[i] \in Hosts
    BY <1>2, <1>4
  <2> QED
    BY <1>5, <2>1, <2>2 DEF Event
<1>7. es \in Seq(Event) /\ Len(es) = n
  BY <1>4, <1>6, SeqOfFunction
<1>8. \A i \in 1..n : es[i].kind = "BEHAVIORAL_DEVIATION" /\ es[i].host = order[i]
  BY <1>5
<1>9. /\ anomalies' = KeepLast(anomalies \o es, AnomaliesCap)
      /\ alerts' = alerts \o Dated(es, total)
      /\ RecordAlerts(es)
  BY <1>1, <1>4, <1>5
<1>10. \A i \in 1..Len(es) : /\ es[i].kind = "BEHAVIORAL_DEVIATION"
                              /\ talkers[es[i].host].sent + talkers[es[i].host].recv > 0
  BY <1>2, <1>4, <1>7, <1>8
<1> QED
  BY <1>7, <1>9, <1>10

\* The timelines after a tick.
LEMMA TickTimelines ==
  ASSUME TypeOK, NEW es \in Seq(Event), RecordAlerts(es)
  PROVE  /\ StoryOK'
         /\ \A h \in Hosts :
              timelines'[h] = KeepLast(timelines[h] \o AlertEvents(es, h), StoryCap)
<1>1. PICK new : new = [h \in Hosts |-> AlertEvents(es, h)]
  OBVIOUS
<1>2. \A h \in Hosts : new[h] = AlertEvents(es, h) /\ new[h] \in Seq(Milestone)
  BY <1>1, AlertMilestones
<1>3. timelines' = [h \in Hosts |-> AddEvents(timelines[h], new[h])]
  BY <1>2 DEF RecordAlerts, TypeOK, StoryOK
<1> QED
  BY <1>2, <1>3, TimelinesGrow

LEMMA TickTyped ==
  ASSUME TypeOK, Tick
  PROVE  TypeOK'
<1>1. PICK es \in Seq(Event) :
        /\ anomalies' = KeepLast(anomalies \o es, AnomaliesCap)
        /\ alerts' = alerts \o Dated(es, total)
        /\ RecordAlerts(es)
  BY TickEffect
<1>2. /\ StoryCap \in Nat /\ AnomaliesCap \in Nat /\ ThroughputCap \in Nat
  BY StatsAssumption DEF StatsAssumption
<1>3. TrafficOK' /\ total \in Nat
  BY LenProperties DEF TypeOK, TrafficOK, Tick
<1>4. CountsOK'
  <2>1. ticks' \in Seq(Nat)
    BY <1>3, AppendProperties DEF TypeOK, CountsOK, Tick
  <2>2. Append(throughput, currentSecBytes) \in Seq(Nat)
    BY AppendProperties DEF TypeOK, CountsOK
  <2>3. throughput' \in Seq(Nat) /\ currentSecBytes' \in Nat
    BY <1>2, <2>2, KeepLastProperties DEF Tick, RollSecond
  <2> QED
    BY <2>1, <2>3 DEF TypeOK, CountsOK, Tick
<1>5. DetectorOK'
  BY DEF TypeOK, DetectorOK, Tick
<1>6. AlertsOK'
  <2>1. Dated(es, total) \in Seq(Alert) /\ alerts \in Seq(Alert) /\ anomalies \in Seq(Event)
    BY <1>3, DatedProperties DEF TypeOK, AlertsOK
  <2>2. PICK u : u = anomalies \o es
    OBVIOUS
  <2>3. u \in Seq(Event)
    BY <2>1, <2>2, ConcatProperties
  <2>4. anomalies' \in Seq(Event)
    BY <1>1, <1>2, <2>2, <2>3, KeepLastProperties
  <2>5. alerts' \in Seq(Alert)
    BY <1>1, <2>1, ConcatProperties
  <2> QED
    BY <2>4, <2>5 DEF AlertsOK
<1>7. StoryOK'
  BY <1>1, TickTimelines
<1>8. PublishedOK'
  <2>1. storyThen' = timelines' /\ timelines' \in [Hosts -> Seq(Milestone)]
    BY <1>7 DEF StoryOK, Tick
  <2>2. observed' \in [Hosts -> Nat]
    <3>1. \A h \in Hosts : talkers[h].sent + talkers[h].recv \in Nat
      BY DEF TypeOK, CountsOK, Talked
    <3> QED
      BY <3>1 DEF Tick
  <2>3. published' = [Current EXCEPT !.throughput = throughput', !.anomalies = anomalies']
    BY DEF Tick
  <2>4. throughput' \in Seq(Nat) /\ anomalies' \in Seq(Event)
    BY <1>4, <1>6 DEF CountsOK, AlertsOK
  <2> QED
    BY <1>3, <2>1, <2>2, <2>3, <2>4 DEF TypeOK, PublishedOK, Current, CountsOK
<1> QED
  BY <1>3, <1>4, <1>5, <1>6, <1>7, <1>8 DEF TypeOK

LEMMA PublishTyped ==
  ASSUME TypeOK, Publish
  PROVE  TypeOK'
<1>1. total \in Nat
  BY LenProperties DEF TypeOK, TrafficOK
<1>2. PublishedOK'
  BY <1>1 DEF TypeOK, PublishedOK, Publish, Current, CountsOK, AlertsOK, StoryOK
<1> QED
  BY <1>2 DEF TypeOK, Publish, TrafficOK, CountsOK, DetectorOK, AlertsOK, StoryOK

(***************************************************************************)
(* For any traffic the statistics are what their types say; in particular  *)
(* no timeline exceeds its cap.                                            *)
(***************************************************************************)
THEOREM TypeCorrect == Spec => []TypeOK
<1>1. TypeOK /\ [Next]_vars => TypeOK'
  <2> SUFFICES ASSUME TypeOK, [Next]_vars PROVE TypeOK'
    OBVIOUS
  <2>1. CASE Packet
    BY <2>1, PacketCounted, PacketTyped
  <2>2. CASE Publish
    BY <2>2, PublishTyped
  <2>3. CASE Tick
    BY <2>3, TickTyped
  <2>4. CASE UNCHANGED vars
    BY <2>4 DEF vars, TypeOK, TrafficOK, CountsOK, DetectorOK, AlertsOK, StoryOK, PublishedOK
  <2> QED
    BY <2>1, <2>2, <2>3, <2>4 DEF Next
<1> QED
  BY <1>1, InitTyped, PTL DEF Spec
-----------------------------------------------------------------------------
(* Snapshots. *)

\* What the statistics say of the packets s, by sets of packets.
Tallies(s) ==
  [bytes |-> Bytes(s, Where(s, Packets)),
   proto |-> [x \in Protocols |-> Cardinality(Where(s, Speaks(x)))],
   talkers |-> [h \in Hosts |-> [sent |-> Cardinality(Where(s, From(h))),
                                 recv |-> Cardinality(Where(s, To(h))),
                                 bytesSent |-> Bytes(s, Where(s, From(h))),
                                 bytesRecv |-> Bytes(s, Where(s, To(h)))]],
   flows |-> [k \in FlowKeys |-> [packets |-> Cardinality(Where(s, OfFlow(k))),
                                  bytes |-> Bytes(s, Where(s, OfFlow(k)))]],
   recent |-> KeepLast(s, RecentCap)]

LEMMA DescribesByTallies ==
  ASSUME NEW s \in Seq(Packets), NEW st
  PROVE  Describes(st, s) <=>
           /\ st.bytes = Tallies(s).bytes
           /\ \A x \in Protocols : st.proto[x] = Tallies(s).proto[x]
           /\ st.talkers = Tallies(s).talkers /\ st.flows = Tallies(s).flows
           /\ st.recent = Tallies(s).recent
BY Description DEF Describes, Tallies

\* The statistics of now are those of all packets.
Counted == Describes(Current, log)

LEMMA InitCounted == Init => Counted
<1> SUFFICES ASSUME Init PROVE Counted
  OBVIOUS
<1>1. log = <<>> /\ log \in Seq(Packets)
  BY EmptySeq DEF Init
<1>2. /\ Current.bytes = 0 /\ Current.recent = <<>>
      /\ \A x \in Protocols : Current.proto[x] = 0
      /\ Current.talkers = [h \in Hosts |-> NoTraffic]
      /\ Current.flows = [k \in FlowKeys |-> [packets |-> 0, bytes |-> 0]]
  BY DEF Init, Current
<1>3. KeepLast(<<>>, RecentCap) = <<>>
  BY EmptySeq, StatsAssumption DEF KeepLast, StatsAssumption
<1>4. /\ Current.bytes = Tallies(log).bytes
      /\ \A x \in Protocols : Current.proto[x] = Tallies(log).proto[x]
      /\ Current.talkers = Tallies(log).talkers /\ Current.flows = Tallies(log).flows
      /\ Current.recent = Tallies(log).recent
  BY <1>1, <1>2, <1>3, RecountEmpty DEF Tallies, NoTraffic
<1> QED
  BY <1>1, <1>4, DescribesByTallies DEF Counted

\* One more packet in each of the statistics.
LEMMA PacketCountedIn ==
  ASSUME TypeOK, Counted, NEW p \in Packets, AddPacket(p)
  PROVE  Counted'
<1>1. /\ log \in Seq(Packets) /\ log' = Append(log, p) /\ log' \in Seq(Packets)
      /\ RecentCap \in Nat
  <2>1. log \in Seq(Packets) /\ RecentCap \in Nat
    BY StatsAssumption DEF TypeOK, TrafficOK, StatsAssumption
  <2>2. log' = Append(log, p)
    BY PacketEffect
  <2>3. Append(log, p) \in Seq(Packets)
    BY <2>1, AppendProperties
  <2> QED
    BY <2>1, <2>2, <2>3
<1>2. /\ p.len \in Nat /\ p.proto \in Protocols /\ (HasFlow(p) => FlowKey(p) \in FlowKeys)
  BY PacketType
<1>3. /\ totalBytes = Tallies(log).bytes
      /\ \A x \in Protocols : protoCounts[x] = Tallies(log).proto[x]
      /\ talkers = Tallies(log).talkers /\ flows = Tallies(log).flows
      /\ recent = Tallies(log).recent
  BY <1>1, DescribesByTallies DEF Counted, Current
<1>4. totalBytes' = Tallies(log').bytes
  <2>1. Bytes(log', Where(log', Packets)) = Bytes(log, Where(log, Packets)) + p.len
    BY <1>1, Recount
  <2> QED
    BY <1>3, <2>1, PacketEffect DEF Tallies
<1>5. ASSUME NEW x \in Protocols PROVE protoCounts'[x] = Tallies(log').proto[x]
  <2>1. /\ Cardinality(Where(log, Speaks(x))) \in Nat
        /\ Cardinality(Where(log', Speaks(x))) =
             Cardinality(Where(log, Speaks(x))) + (IF p \in Speaks(x) THEN 1 ELSE 0)
    BY <1>1, Recount
  <2>2. protoCounts' = [protoCounts EXCEPT ![p.proto] = @ + 1]
    BY PacketEffect
  <2>3. protoCounts'[x] = protoCounts[x] + (IF p.proto = x THEN 1 ELSE 0)
    BY <1>2, <2>2 DEF TypeOK, CountsOK
  <2>4. protoCounts[x] = Cardinality(Where(log, Speaks(x)))
    BY <1>3 DEF Tallies
  <2>5. p \in Speaks(x) <=> p.proto = x
    BY DEF Speaks
  <2>6. Tallies(log').proto[x] = Cardinality(Where(log', Speaks(x)))
    BY DEF Tallies
  <2> QED
    BY <2>1, <2>3, <2>4, <2>5, <2>6
<1>6. talkers' = Tallies(log').talkers
  <2>1. talkers' = [h \in Hosts |->
          [sent |-> talkers[h].sent + (IF p.src = h THEN 1 ELSE 0),
           recv |-> talkers[h].recv + (IF p.dst = h THEN 1 ELSE 0),
           bytesSent |-> talkers[h].bytesSent + (IF p.src = h THEN 1 ELSE 0) * p.len,
           bytesRecv |-> talkers[h].bytesRecv + (IF p.dst = h THEN 1 ELSE 0) * p.len]]
    BY PacketEffect
  <2>2. ASSUME NEW h \in Hosts
        PROVE  /\ talkers[h].sent + (IF p.src = h THEN 1 ELSE 0)
                    = Cardinality(Where(log', From(h)))
               /\ talkers[h].recv + (IF p.dst = h THEN 1 ELSE 0)
                    = Cardinality(Where(log', To(h)))
               /\ talkers[h].bytesSent + (IF p.src = h THEN 1 ELSE 0) * p.len
                    = Bytes(log', Where(log', From(h)))
               /\ talkers[h].bytesRecv + (IF p.dst = h THEN 1 ELSE 0) * p.len
                    = Bytes(log', Where(log', To(h)))
    <3>1. /\ talkers[h].sent = Cardinality(Where(log, From(h)))
          /\ talkers[h].recv = Cardinality(Where(log, To(h)))
          /\ talkers[h].bytesSent = Bytes(log, Where(log, From(h)))
          /\ talkers[h].bytesRecv = Bytes(log, Where(log, To(h)))
      BY <1>3 DEF Tallies
    <3>2. (p \in From(h) <=> p.src = h) /\ (p \in To(h) <=> p.dst = h)
      BY DEF From, To
    <3>3. /\ (IF p.src = h THEN 1 ELSE 0) * p.len = (IF p.src = h THEN p.len ELSE 0)
          /\ (IF p.dst = h THEN 1 ELSE 0) * p.len = (IF p.dst = h THEN p.len ELSE 0)
      BY <1>2
    <3>4. /\ Cardinality(Where(log', From(h))) =
               Cardinality(Where(log, From(h))) + (IF p \in From(h) THEN 1 ELSE 0)
          /\ Bytes(log', Where(log', From(h))) =
               Bytes(log, Where(log, From(h))) + (IF p \in From(h) THEN p.len ELSE 0)
      BY <1>1, Recount
    <3>5. /\ Cardinality(Where(log', To(h))) =
               Cardinality(Where(log, To(h))) + (IF p \in To(h) THEN 1 ELSE 0)
          /\ Bytes(log', Where(log', To(h))) =
               Bytes(log, Where(log, To(h))) + (IF p \in To(h) THEN p.len ELSE 0)
      BY <1>1, Recount
    <3> QED
      BY <3>1, <3>2, <3>3, <3>4, <3>5
  <2> QED
    BY <2>1, <2>2 DEF Tallies
<1>7. flows' = Tallies(log').flows
  <2> DEFINE packets(k) == Cardinality(Where(log', OfFlow(k)))
             bytes(k) == Bytes(log', Where(log', OfFlow(k)))
  <2>1. flows' = IF HasFlow(p)
                 THEN [flows EXCEPT ![FlowKey(p)] =
                         [packets |-> @.packets + 1, bytes |-> FlowBytes(p)]]
                 ELSE flows
    BY PacketEffect
  <2>2. ASSUME NEW k \in FlowKeys
        PROVE  /\ flows[k] = [packets |-> Cardinality(Where(log, OfFlow(k))),
                              bytes |-> Bytes(log, Where(log, OfFlow(k)))]
               /\ (p \in OfFlow(k) <=> HasFlow(p) /\ FlowKey(p) = k)
               /\ packets(k) = flows[k].packets + (IF p \in OfFlow(k) THEN 1 ELSE 0)
               /\ bytes(k) = flows[k].bytes + (IF p \in OfFlow(k) THEN p.len ELSE 0)
    <3>1. flows[k] = [packets |-> Cardinality(Where(log, OfFlow(k))),
                      bytes |-> Bytes(log, Where(log, OfFlow(k)))]
      BY <1>3 DEF Tallies
    <3>2. p \in OfFlow(k) <=> HasFlow(p) /\ FlowKey(p) = k
      BY DEF OfFlow
    <3>3. /\ Cardinality(Where(log', OfFlow(k))) =
               Cardinality(Where(log, OfFlow(k))) + (IF p \in OfFlow(k) THEN 1 ELSE 0)
          /\ Bytes(log', Where(log', OfFlow(k))) =
               Bytes(log, Where(log, OfFlow(k))) + (IF p \in OfFlow(k) THEN p.len ELSE 0)
      BY <1>1, Recount
    <3> QED
      BY <3>1, <3>2, <3>3
  <2>3. ASSUME NEW k \in FlowKeys
        PROVE  flows'[k] = [packets |-> packets(k), bytes |-> bytes(k)]
    <3>1. flows[k] \in Flowed /\ flows \in [FlowKeys -> Flowed]
      BY DEF TypeOK, CountsOK
    <3>2. CASE HasFlow(p) /\ FlowKey(p) = k
      <4>1. flows'[k] = [packets |-> flows[k].packets + 1, bytes |-> FlowBytes(p)]
        BY <2>1, <3>1, <3>2
      <4>2. FlowBytes(p) = flows[k].bytes + p.len
        BY <3>2 DEF FlowBytes
      <4> HIDE DEF packets, bytes
      <4> QED
        BY <2>2, <3>2, <4>1, <4>2
    <3>3. CASE ~(HasFlow(p) /\ FlowKey(p) = k)
      <4>1. flows'[k] = flows[k]
        BY <2>1, <3>1, <3>3
      <4>2. packets(k) = flows[k].packets /\ bytes(k) = flows[k].bytes
        <5> HIDE DEF packets, bytes
        <5> QED
          BY <2>2, <3>1, <3>3 DEF Flowed
      <4> HIDE DEF packets, bytes
      <4> QED
        BY <3>1, <4>1, <4>2 DEF Flowed
    <3> QED
      BY <3>2, <3>3
  <2>4. flows' \in [FlowKeys -> Flowed]
    BY PacketCountsOK DEF CountsOK
  <2>5. flows' = [k \in FlowKeys |-> [packets |-> packets(k), bytes |-> bytes(k)]]
    <3> HIDE DEF packets, bytes
    <3> QED
      BY <2>3, <2>4
  <2> QED
    BY <2>5 DEF Tallies
<1>8. recent' = Tallies(log').recent
  <2>1. recent = KeepLast(log, RecentCap)
    BY <1>3 DEF Tallies
  <2>2. recent' = KeepLast(Append(recent, p), RecentCap)
    BY PacketEffect
  <2>3. recent' = KeepLast(Append(log, p), RecentCap)
    BY <1>1, <2>1, <2>2, KeepLastAppend
  <2> QED
    BY <1>1, <2>3 DEF Tallies
<1>9. Describes(Current', log')
  <2>1. PICK st : st = Current'
    OBVIOUS
  <2>2. /\ st.bytes = totalBytes' /\ st.proto = protoCounts' /\ st.talkers = talkers'
        /\ st.flows = flows' /\ st.recent = recent'
    BY <2>1 DEF Current
  <2> QED
    BY <1>1, <1>4, <1>5, <1>6, <1>7, <1>8, <2>1, <2>2, DescribesByTallies
<1> QED
  BY <1>9 DEF Counted
\* What a published snapshot says of the packets is what it said then.
SnapshotOK ==
  published.total \in 0..Len(log) /\ Describes(published, SubSeq(log, 1, published.total))

LEMMA PublishedAlike ==
  ASSUME NEW a, NEW b, NEW s, Describes(a, s),
         b.bytes = a.bytes, b.proto = a.proto, b.talkers = a.talkers,
         b.flows = a.flows, b.recent = a.recent
  PROVE  Describes(b, s)
BY DEF Describes

LEMMA SnapshotStep ==
  ASSUME TypeOK, Counted, SnapshotOK, [Next]_vars
  PROVE  Counted' /\ SnapshotOK'
<1>1. /\ log \in Seq(Packets) /\ Len(log) \in Nat /\ total = Len(log)
  BY LenProperties DEF TypeOK, TrafficOK
<1>2. CASE Packet
  <2>1. PICK p \in Packets : AddPacket(p)
    BY <1>2, PacketCounted
  <2>2. log' = Append(log, p) /\ published' = published
    BY <2>1, PacketEffect
  <2>3. log' = log \o <<p>> /\ Len(log') = Len(log) + 1 /\ <<p>> \in Seq(Packets)
    BY <1>1, <2>2, AppendIsConcat, AppendProperties
  <2>4. published.total \in 0..Len(log)
    BY DEF SnapshotOK
  <2>5. SubSeq(log', 1, published.total) = SubSeq(log, 1, published.total)
    BY <1>1, <2>3, <2>4, SubSeqConcat
  <2>6. Describes(published', SubSeq(log', 1, published'.total))
    BY <2>2, <2>5 DEF SnapshotOK
  <2>7. published'.total \in 0..Len(log')
    BY <1>1, <2>2, <2>3, <2>4
  <2> QED
    BY <2>1, <2>6, <2>7, PacketCountedIn DEF SnapshotOK
<1>3. CASE Publish \/ Tick
  <2>1. /\ published'.total = total /\ published'.bytes = Current.bytes
        /\ published'.proto = Current.proto /\ published'.talkers = Current.talkers
        /\ published'.flows = Current.flows /\ published'.recent = Current.recent
    <3>1. published' = Current
            \/ published' = [Current EXCEPT !.throughput = throughput', !.anomalies = anomalies']
      BY <1>3 DEF Publish, Tick
    <3>2. CASE published' = Current
      BY <3>2 DEF Current
    <3>3. CASE published' = [Current EXCEPT !.throughput = throughput', !.anomalies = anomalies']
      BY <3>3 DEF Current
    <3> QED
      BY <3>1, <3>2, <3>3
  <2>2. log' = log /\ Current'.bytes = Current.bytes
        /\ Current'.proto = Current.proto /\ Current'.talkers = Current.talkers
        /\ Current'.flows = Current.flows /\ Current'.recent = Current.recent
    BY <1>3 DEF Publish, Tick, Current
  <2>3. Describes(Current', log) /\ Describes(published', log)
    BY <2>1, <2>2, PublishedAlike DEF Counted
  <2>4. published'.total = Len(log') /\ SubSeq(log', 1, published'.total) = log'
    BY <1>1, <2>1, <2>2, SubSeqFull
  <2>5. Counted'
    BY <2>2, <2>3 DEF Counted
  <2>6. Describes(published', SubSeq(log', 1, published'.total))
    BY <2>2, <2>3, <2>4
  <2>7. published'.total \in 0..Len(log')
    BY <1>1, <2>2, <2>4
  <2> QED
    BY <2>5, <2>6, <2>7 DEF SnapshotOK
<1>4. CASE UNCHANGED vars
  BY <1>4 DEF vars, Counted, SnapshotOK, Current
<1> QED
  BY <1>2, <1>3, <1>4 DEF Next

\* The statistics are at all times those of the packets counted by then, and
\* those published are of the packets counted when they were.
THEOREM AlwaysCounted == Spec => [](TypeOK /\ Counted /\ SnapshotOK)
<1>1. Init => Counted /\ SnapshotOK
  <2> SUFFICES ASSUME Init PROVE Counted /\ SnapshotOK
    OBVIOUS
  <2>1. Counted /\ log = <<>> /\ log \in Seq(Packets) /\ total = Len(log) /\ published = Current
    BY InitCounted, EmptySeq DEF Init
  <2>2. published.total = Len(log) /\ SubSeq(log, 1, Len(log)) = log /\ Len(log) \in Nat
    BY <2>1, SubSeqFull, LenProperties DEF Current
  <2>3. Describes(published, SubSeq(log, 1, published.total))
    BY <2>1, <2>2 DEF Counted
  <2> QED
    BY <2>1, <2>2, <2>3 DEF SnapshotOK
<1> QED
  BY <1>1, SnapshotStep, TypeCorrect, PTL DEF Spec

(***************************************************************************)
(* Whatever the traffic, a snapshot that PublishSnapshot has stored is in  *)
(* all its parts the statistics of one prefix of it, and stays so while    *)
(* more packets are counted.                                               *)
(***************************************************************************)
THEOREM SnapshotsAreOnePrefix == Spec => []SnapshotIsPrefix
<1>1. SnapshotOK => SnapshotIsPrefix
  BY DEF SnapshotOK, Describes, SnapshotIsPrefix
<1> QED
  BY <1>1, AlwaysCounted, PTL
-----------------------------------------------------------------------------
(* Throughput. *)

Start(ts, k) == IF k = 1 THEN 0 ELSE ts[k - 1]
PerSecond(s, ts) == [k \in DOMAIN ts |-> Bytes(s, (Start(ts, k) + 1)..ts[k])]
Rolled(ts) == IF ts = <<>> THEN 0 ELSE ts[Len(ts)]

TicksOK == \A k \in 1..Len(ticks) : ticks[k] <= total
RollsOK ==
  /\ throughput = KeepLast(PerSecond(log, ticks), ThroughputCap)
  /\ currentSecBytes = Bytes(log, (Rolled(ticks) + 1)..total)

LEMMA PerSecondType ==
  ASSUME NEW s \in Seq(Packets), NEW ts \in Seq(Nat)
  PROVE  /\ PerSecond(s, ts) \in Seq(Nat) /\ Len(PerSecond(s, ts)) = Len(ts)
         /\ \A k \in 1..Len(ts) :
              PerSecond(s, ts)[k] = Bytes(s, (Start(ts, k) + 1)..ts[k])
<1>1. Len(ts) \in Nat /\ DOMAIN ts = 1..Len(ts)
  BY LenProperties
<1>2. \A k \in 1..Len(ts) : Bytes(s, (Start(ts, k) + 1)..ts[k]) \in Nat
  BY BytesType
<1>3. PerSecond(s, ts) = [k \in 1..Len(ts) |-> Bytes(s, (Start(ts, k) + 1)..ts[k])]
  BY <1>1 DEF PerSecond
<1>4. PerSecond(s, ts) \in [1..Len(ts) -> Nat]
  BY <1>2, <1>3
<1> QED
  BY <1>1, <1>3, <1>4, SeqOfFunction

LEMMA RollPacket ==
  ASSUME TypeOK, TicksOK, RollsOK, NEW p \in Packets, AddPacket(p)
  PROVE  TicksOK' /\ RollsOK'
<1>1. /\ log \in Seq(Packets) /\ ticks \in Seq(Nat) /\ total = Len(log) /\ total \in Nat
      /\ Len(ticks) \in Nat /\ p.len \in Nat
  BY LenProperties, PacketType DEF TypeOK, TrafficOK, CountsOK
<1>2. /\ total' = total + 1 /\ log' = Append(log, p) /\ ticks' = ticks
      /\ throughput' = throughput /\ currentSecBytes' = currentSecBytes + p.len
  BY PacketEffect
<1>3. log' \in Seq(Packets)
  BY <1>1, <1>2, AppendProperties
<1>4. TicksOK'
  <2>1. \A k \in 1..Len(ticks) : ticks[k] \in Nat
    BY <1>1, ElementOfSeq
  <2> QED
    BY <1>1, <1>2, <2>1 DEF TicksOK
<1>5. PerSecond(log', ticks) = PerSecond(log, ticks)
  <2>1. ASSUME NEW k \in 1..Len(ticks)
        PROVE  Bytes(log', (Start(ticks, k) + 1)..ticks[k])
                 = Bytes(log, (Start(ticks, k) + 1)..ticks[k])
    <3>1. ticks[k] \in Nat /\ ticks[k] <= total
      BY <1>1, ElementOfSeq DEF TicksOK
    <3>2. PICK is : is = (Start(ticks, k) + 1)..ticks[k]
      OBVIOUS
    <3>3. Len(log) + 1 \notin is
      BY <1>1, <3>1, <3>2
    <3>4. Bytes(log, is) \in Nat
      BY <1>1, BytesType
    <3>5. Bytes(Append(log, p), is) = Bytes(log, is)
      BY <1>1, <3>3, <3>4, BytesAppend
    <3> QED
      BY <1>2, <3>2, <3>5
  <2>2. DOMAIN ticks = 1..Len(ticks)
    BY <1>1, LenProperties
  <2> QED
    BY <2>1, <2>2 DEF PerSecond
<1>6. currentSecBytes' = Bytes(log', (Rolled(ticks) + 1)..total')
  <2>1. Rolled(ticks) \in Nat /\ Rolled(ticks) <= total
    <3>1. CASE ticks = <<>>
      BY <1>1, <3>1 DEF Rolled
    <3>2. CASE ticks # <<>>
      <4>1. Len(ticks) \in 1..Len(ticks)
        BY <1>1, <3>2, EmptySeq
      <4> QED
        BY <1>1, <3>2, <4>1, ElementOfSeq DEF TicksOK, Rolled
    <3> QED
      BY <3>1, <3>2
  <2>2. PICK is, js : is = (Rolled(ticks) + 1)..(total + 1) /\ js = (Rolled(ticks) + 1)..total
    OBVIOUS
  <2>3. Len(log) + 1 \in is /\ \A k \in 1..Len(log) : k \in is <=> k \in js
    BY <1>1, <2>1, <2>2
  <2>4. Bytes(Append(log, p), is) = Bytes(log, is) + p.len
    BY <1>1, <2>3, BytesAppend
  <2>5. Bytes(log, is) = Bytes(log, js)
    BY <1>1, <2>3, BytesSame
  <2> QED
    BY <1>2, <2>2, <2>4, <2>5 DEF RollsOK
<1> QED
  BY <1>2, <1>4, <1>5, <1>6 DEF RollsOK

LEMMA RollTick ==
  ASSUME TypeOK, TicksOK, RollsOK, Tick
  PROVE  TicksOK' /\ RollsOK'
<1>1. /\ log \in Seq(Packets) /\ ticks \in Seq(Nat) /\ total = Len(log) /\ total \in Nat
      /\ Len(ticks) \in Nat /\ ThroughputCap \in Nat /\ currentSecBytes \in Nat
  BY LenProperties, StatsAssumption DEF TypeOK, TrafficOK, CountsOK, StatsAssumption
<1>2. /\ total' = total /\ log' = log /\ ticks' = Append(ticks, total)
      /\ throughput' = KeepLast(Append(throughput, currentSecBytes), ThroughputCap)
      /\ currentSecBytes' = 0
  BY DEF Tick, RollSecond
<1>3. PICK ts : ts = Append(ticks, total)
  OBVIOUS
<1>4. /\ ts \in Seq(Nat) /\ Len(ts) = Len(ticks) + 1
      /\ ts[Len(ticks) + 1] = total /\ \A k \in 1..Len(ticks) : ts[k] = ticks[k]
  BY <1>1, <1>3, AppendProperties
<1>5. TicksOK'
  <2>1. \A k \in 1..Len(ts) : ts[k] <= total
    <3> SUFFICES ASSUME NEW k \in 1..Len(ts) PROVE ts[k] <= total
      OBVIOUS
    <3>1. CASE k \in 1..Len(ticks)
      BY <1>4, <3>1 DEF TicksOK
    <3>2. CASE k = Len(ticks) + 1
      BY <1>1, <1>4, <3>2
    <3> QED
      BY <1>1, <1>4, <3>1, <3>2
  <2> QED
    BY <1>2, <1>3, <2>1 DEF TicksOK
<1>6. PerSecond(log, ts) = Append(PerSecond(log, ticks), currentSecBytes)
  <2>1. PICK old, new : old = PerSecond(log, ticks) /\ new = PerSecond(log, ts)
    OBVIOUS
  <2>2. /\ old \in Seq(Nat) /\ Len(old) = Len(ticks)
        /\ \A k \in 1..Len(ticks) : old[k] = Bytes(log, (Start(ticks, k) + 1)..ticks[k])
    BY <1>1, <2>1, PerSecondType
  <2>3. /\ new \in Seq(Nat) /\ Len(new) = Len(ticks) + 1
        /\ \A k \in 1..(Len(ticks) + 1) : new[k] = Bytes(log, (Start(ts, k) + 1)..ts[k])
    BY <1>1, <1>4, <2>1, PerSecondType
  <2>4. /\ Append(old, currentSecBytes) \in Seq(Nat)
        /\ Len(Append(old, currentSecBytes)) = Len(ticks) + 1
        /\ Append(old, currentSecBytes)[Len(ticks) + 1] = currentSecBytes
        /\ \A k \in 1..Len(ticks) : Append(old, currentSecBytes)[k] = old[k]
    BY <1>1, <2>2, AppendProperties
  <2>5. ASSUME NEW k \in 1..Len(ticks) PROVE new[k] = old[k]
    <3>1. k \in 1..(Len(ticks) + 1) /\ (k # 1 => k - 1 \in 1..Len(ticks))
      BY <1>1
    <3>2. Start(ts, k) = Start(ticks, k) /\ ts[k] = ticks[k]
      BY <1>4, <3>1 DEF Start
    <3> QED
      BY <2>2, <2>3, <3>1, <3>2
  <2>6. new[Len(ticks) + 1] = currentSecBytes
    <3>1. Start(ts, Len(ticks) + 1) = Rolled(ticks)
      <4>1. CASE ticks = <<>>
        <5>1. Len(ticks) = 0
          BY <4>1, EmptySeq
        <5> QED
          BY <4>1, <5>1 DEF Start, Rolled
      <4>2. CASE ticks # <<>>
        <5>1. /\ Len(ticks) \in 1..Len(ticks) /\ Len(ticks) + 1 # 1
              /\ (Len(ticks) + 1) - 1 = Len(ticks)
          BY <1>1, <4>2, EmptySeq
        <5> QED
          BY <1>4, <4>2, <5>1 DEF Start, Rolled
      <4> QED
        BY <4>1, <4>2
    <3>2. Len(ticks) + 1 \in 1..(Len(ticks) + 1)
      BY <1>1
    <3> QED
      BY <1>4, <2>3, <3>1, <3>2 DEF RollsOK
  <2>7. new = Append(old, currentSecBytes)
    <3>1. PICK u : u = Append(old, currentSecBytes)
      OBVIOUS
    <3>2. u \in Seq(Nat) /\ Len(u) = Len(new) /\ Len(new) = Len(ticks) + 1
      BY <2>3, <2>4, <3>1
    <3>3. ASSUME NEW k \in 1..Len(new) PROVE new[k] = u[k]
      <4>1. k \in 1..Len(ticks) \/ k = Len(ticks) + 1
        BY <1>1, <3>2
      <4> QED
        BY <2>4, <2>5, <2>6, <3>1, <4>1
    <3> QED
      BY <2>3, <3>1, <3>2, <3>3, SeqEqual
  <2> QED
    BY <2>1, <2>7
<1>7. throughput' = KeepLast(PerSecond(log, ts), ThroughputCap)
  <2>1. PICK old : old = PerSecond(log, ticks)
    OBVIOUS
  <2>2. old \in Seq(Nat) /\ throughput = KeepLast(old, ThroughputCap)
    BY <1>1, <2>1, PerSecondType DEF RollsOK
  <2>3. KeepLast(Append(KeepLast(old, ThroughputCap), currentSecBytes), ThroughputCap)
          = KeepLast(Append(old, currentSecBytes), ThroughputCap)
    BY <1>1, <2>2, KeepLastAppend
  <2> QED
    BY <1>2, <1>6, <2>1, <2>2, <2>3
<1>8. currentSecBytes' = Bytes(log, (Rolled(ts) + 1)..total)
  <2>1. Rolled(ts) = total
    <3>1. ts # <<>>
      BY <1>1, <1>4, EmptySeq
    <3> QED
      BY <1>4, <3>1 DEF Rolled
  <2>2. \A k \in 1..Len(log) : k \notin (total + 1)..total
    BY <1>1
  <2>3. Bytes(log, (total + 1)..total) = 0
    BY <1>1, <2>2, BytesNone
  <2> QED
    BY <1>2, <2>1, <2>3
<1> QED
  BY <1>2, <1>3, <1>5, <1>7, <1>8 DEF RollsOK

(***************************************************************************)
(* Whatever the traffic and however the ticks come between its packets,    *)
(* every byte is in the entry of exactly one second or in the bucket.      *)
(***************************************************************************)
THEOREM EveryByteInOneSecond == Spec => []ThroughputExact
<1>1. Init => TicksOK /\ RollsOK
  <2> SUFFICES ASSUME Init PROVE TicksOK /\ RollsOK
    OBVIOUS
  <2>1. /\ ticks = <<>> /\ log = <<>> /\ total = 0 /\ throughput = <<>> /\ currentSecBytes = 0
        /\ log \in Seq(Packets) /\ ticks \in Seq(Nat) /\ Len(ticks) = 0 /\ Len(log) = 0
    BY EmptySeq DEF Init
  <2>2. PerSecond(log, ticks) = <<>>
    <3>1. PICK u : u = PerSecond(log, ticks)
      OBVIOUS
    <3>2. u \in Seq(Nat) /\ Len(u) = 0
      BY <2>1, <3>1, PerSecondType
    <3> QED
      BY <3>1, <3>2, EmptySeq
  <2>3. throughput = KeepLast(PerSecond(log, ticks), ThroughputCap)
    BY <2>1, <2>2, StatsAssumption DEF KeepLast, StatsAssumption
  <2>4. \A k \in 1..Len(log) : k \notin (Rolled(ticks) + 1)..total
    BY <2>1
  <2>5. Bytes(log, (Rolled(ticks) + 1)..total) = 0
    BY <2>1, <2>4, BytesNone
  <2> QED
    BY <2>1, <2>3, <2>5 DEF TicksOK, RollsOK
<1>2. TypeOK /\ TicksOK /\ RollsOK /\ [Next]_vars => TicksOK' /\ RollsOK'
  <2> SUFFICES ASSUME TypeOK, TicksOK, RollsOK, [Next]_vars PROVE TicksOK' /\ RollsOK'
    OBVIOUS
  <2>1. CASE Packet
    BY <2>1, PacketCounted, RollPacket
  <2>2. CASE Publish
    BY <2>2 DEF Publish, TicksOK, RollsOK
  <2>3. CASE Tick
    BY <2>3, RollTick
  <2>4. CASE UNCHANGED vars
    BY <2>4 DEF vars, TicksOK, RollsOK
  <2> QED
    BY <2>1, <2>2, <2>3, <2>4 DEF Next
<1>3. RollsOK => ThroughputExact
  BY DEF RollsOK, PerSecond, Start, Rolled, ThroughputExact
<1> QED
  BY <1>1, <1>2, <1>3, TypeCorrect, PTL DEF Spec
-----------------------------------------------------------------------------
(* Alerts. *)

Pair == Kinds \X Hosts
OfEvent == [e \in Event |-> <<e.kind, e.host>>]
OfAlert == [a \in Alert |-> <<a.kind, a.host>>]

\* The ring holds the newest alerts.
RingHolds(ring, all) == Seen(ring, OfEvent) = KeepLast(Seen(all, OfAlert), AnomaliesCap)

LEMMA SeenTypes ==
  /\ \A ring \in Seq(Event) :
       /\ Seen(ring, OfEvent) \in Seq(Pair) /\ Len(Seen(ring, OfEvent)) = Len(ring)
       /\ \A i \in 1..Len(ring) : Seen(ring, OfEvent)[i] = <<ring[i].kind, ring[i].host>>
  /\ \A all \in Seq(Alert) :
       /\ Seen(all, OfAlert) \in Seq(Pair) /\ Len(Seen(all, OfAlert)) = Len(all)
       /\ \A i \in 1..Len(all) : Seen(all, OfAlert)[i] = <<all[i].kind, all[i].host>>
<1>1. OfEvent \in [Event -> Pair] /\ OfAlert \in [Alert -> Pair]
  BY DEF OfEvent, OfAlert, Event, Alert, Pair
<1>2. ASSUME NEW ring \in Seq(Event)
      PROVE  /\ Seen(ring, OfEvent) \in Seq(Pair) /\ Len(Seen(ring, OfEvent)) = Len(ring)
             /\ \A i \in 1..Len(ring) : Seen(ring, OfEvent)[i] = <<ring[i].kind, ring[i].host>>
  <2>1. IsSeen(Seen(ring, OfEvent), ring, OfEvent, Pair)
    BY <1>1, SeenProperties
  <2>2. \A i \in 1..Len(ring) : ring[i] \in Event
    BY ElementOfSeq
  <2> QED
    BY <2>1, <2>2 DEF IsSeen, OfEvent
<1>3. ASSUME NEW all \in Seq(Alert)
      PROVE  /\ Seen(all, OfAlert) \in Seq(Pair) /\ Len(Seen(all, OfAlert)) = Len(all)
             /\ \A i \in 1..Len(all) : Seen(all, OfAlert)[i] = <<all[i].kind, all[i].host>>
  <2>1. IsSeen(Seen(all, OfAlert), all, OfAlert, Pair)
    BY <1>1, SeenProperties
  <2>2. \A i \in 1..Len(all) : all[i] \in Alert
    BY ElementOfSeq
  <2> QED
    BY <2>1, <2>2 DEF IsSeen, OfAlert
<1> QED
  BY <1>2, <1>3

LEMMA SeenDated ==
  ASSUME NEW es \in Seq(Event), NEW n \in Nat
  PROVE  Seen(Dated(es, n), OfAlert) = Seen(es, OfEvent)
<1>1. PICK d : d = Dated(es, n)
  OBVIOUS
<1>2. /\ d \in Seq(Alert) /\ Len(d) = Len(es)
      /\ \A i \in 1..Len(es) : d[i] = [kind |-> es[i].kind, host |-> es[i].host,
                time |-> es[i].time, at |-> n]
  BY <1>1, DatedProperties
<1>3. PICK u, v : u = Seen(d, OfAlert) /\ v = Seen(es, OfEvent)
  OBVIOUS
<1>4. /\ u \in Seq(Pair) /\ Len(u) = Len(d)
      /\ \A i \in 1..Len(d) : u[i] = <<d[i].kind, d[i].host>>
  BY <1>2, <1>3, SeenTypes
<1>5. /\ v \in Seq(Pair) /\ Len(v) = Len(es)
      /\ \A i \in 1..Len(es) : v[i] = <<es[i].kind, es[i].host>>
  BY <1>3, SeenTypes
<1>6. ASSUME NEW i \in 1..Len(u) PROVE u[i] = v[i]
  <2>1. u[i] = <<d[i].kind, d[i].host>> /\ i \in 1..Len(es)
    BY <1>2, <1>4
  <2>2. v[i] = <<es[i].kind, es[i].host>>
    BY <1>5, <2>1
  <2>3. d[i] = [kind |-> es[i].kind, host |-> es[i].host,
                time |-> es[i].time, at |-> n]
    BY <1>2, <2>1
  <2> QED
    BY <2>1, <2>2, <2>3
<1>7. u = v
  BY <1>2, <1>4, <1>5, <1>6, SeqEqual
<1> QED
  BY <1>1, <1>3, <1>7

\* New alerts go to the ring and to the history alike.
LEMMA RingGrows ==
  ASSUME NEW ring \in Seq(Event), NEW all \in Seq(Alert), RingHolds(ring, all),
         NEW es \in Seq(Event), NEW n \in Nat
  PROVE  RingHolds(KeepLast(ring \o es, AnomaliesCap), all \o Dated(es, n))
<1>1. AnomaliesCap \in Nat /\ OfEvent \in [Event -> Pair] /\ OfAlert \in [Alert -> Pair]
  BY StatsAssumption DEF StatsAssumption, OfEvent, OfAlert, Event, Alert, Pair
<1>2. PICK a, b, c : a = Seen(ring, OfEvent) /\ b = Seen(all, OfAlert) /\ c = Seen(es, OfEvent)
  OBVIOUS
<1>3. a \in Seq(Pair) /\ b \in Seq(Pair) /\ c \in Seq(Pair) /\ a = KeepLast(b, AnomaliesCap)
  BY <1>2, SeenTypes DEF RingHolds
<1>4. Seen(KeepLast(ring \o es, AnomaliesCap), OfEvent) = KeepLast(a \o c, AnomaliesCap)
  <2>1. PICK u : u = ring \o es
    OBVIOUS
  <2>2. u \in Seq(Event)
    BY <2>1, ConcatProperties
  <2>3. Seen(KeepLast(u, AnomaliesCap), OfEvent) = KeepLast(Seen(u, OfEvent), AnomaliesCap)
    BY <1>1, <2>2, SeenKeepLast, ZenonT(60)
  <2>4. Seen(ring \o es, OfEvent) = Seen(ring, OfEvent) \o Seen(es, OfEvent)
    BY <1>1, SeenConcat, ZenonT(60)
  <2> QED
    BY <1>2, <2>1, <2>3, <2>4
<1>5. Seen(all \o Dated(es, n), OfAlert) = b \o c
  <2>1. PICK d : d = Dated(es, n)
    OBVIOUS
  <2>2. d \in Seq(Alert) /\ Seen(d, OfAlert) = c
    BY <1>2, <2>1, DatedProperties, SeenDated
  <2>3. Seen(all \o d, OfAlert) = Seen(all, OfAlert) \o Seen(d, OfAlert)
    BY <1>1, <2>2, SeenConcat, ZenonT(60)
  <2> QED
    BY <1>2, <2>1, <2>2, <2>3
<1>6. KeepLast(KeepLast(b, AnomaliesCap) \o c, AnomaliesCap) = KeepLast(b \o c, AnomaliesCap)
  BY <1>1, <1>3, KeepLastConcat
<1> QED
  BY <1>3, <1>4, <1>5, <1>6 DEF RingHolds

\* No alert is of a packet that is not among the first n.
Known(all, n) == \A i \in 1..Len(all) : all[i].at <= n

\* A snapshot knows the first k alerts.
Knows(snapshot, all, k) ==
  /\ k \in 0..Len(all)
  /\ \A i \in 1..Len(all) : i <= k <=> all[i].at <= snapshot.total
  /\ Seen(snapshot.anomalies, OfEvent) = KeepLast(SubSeq(Seen(all, OfAlert), 1, k), AnomaliesCap)

IsShown(snapshot, all) == \E k \in Nat : Knows(snapshot, all, k)

AlertsHold ==
  /\ Known(alerts, total) /\ RingHolds(anomalies, alerts)
  /\ published.total <= total /\ IsShown(published, alerts)

\* Where alerts are published at once, all of them are.
LEMMA ShownNow ==
  ASSUME NEW all \in Seq(Alert), NEW snapshot,
         Known(all, snapshot.total), RingHolds(snapshot.anomalies, all)
  PROVE  IsShown(snapshot, all)
<1>1. Len(all) \in Nat
  BY LenProperties
<1>2. SubSeq(Seen(all, OfAlert), 1, Len(all)) = Seen(all, OfAlert)
  <2>1. PICK u : u = Seen(all, OfAlert)
    OBVIOUS
  <2>2. u \in Seq(Pair) /\ Len(u) = Len(all)
    BY <2>1, SeenTypes
  <2>3. SubSeq(u, 1, Len(u)) = u
    BY <2>2, SubSeqFull
  <2> QED
    BY <2>1, <2>2, <2>3
<1>3. PICK k : k = Len(all)
  OBVIOUS
<1>4. \A i \in 1..Len(all) : i <= k <=> all[i].at <= snapshot.total
  BY <1>1, <1>3 DEF Known
<1>5. Seen(snapshot.anomalies, OfEvent) = KeepLast(SubSeq(Seen(all, OfAlert), 1, k), AnomaliesCap)
  BY <1>2, <1>3 DEF RingHolds
<1>6. k \in 0..Len(all) /\ k \in Nat
  BY <1>1, <1>3
<1> QED
  BY <1>4, <1>5, <1>6 DEF Knows, IsShown

\* Earlier alerts keep their places, new ones come behind them.
Grown(all, es, n, new) ==
  /\ new \in Seq(Alert) /\ Len(new) = Len(all) + Len(es)
  /\ Len(all) \in Nat /\ Len(es) \in Nat
  /\ \A i \in 1..Len(all) : new[i] = all[i]
  /\ \A i \in (Len(all) + 1)..Len(new) :
       /\ i - Len(all) \in 1..Len(es)
       /\ new[i] = [kind |-> es[i - Len(all)].kind, host |-> es[i - Len(all)].host,
                time |-> es[i - Len(all)].time, at |-> n]
  /\ \A j \in 1..Len(es) :
       /\ Len(all) + j \in 1..Len(new)
       /\ new[Len(all) + j] = [kind |-> es[j].kind, host |-> es[j].host,
                time |-> es[j].time, at |-> n]

LEMMA AlertsGrow ==
  ASSUME NEW n \in Nat, NEW all \in Seq(Alert), NEW es \in Seq(Event)
  PROVE  Grown(all, es, n, all \o Dated(es, n))
<1>0. PICK new : new = all \o Dated(es, n)
  OBVIOUS
<1>1. PICK d : d = Dated(es, n)
  OBVIOUS
<1>2. /\ d \in Seq(Alert) /\ Len(d) = Len(es)
      /\ \A j \in 1..Len(es) : d[j] = [kind |-> es[j].kind, host |-> es[j].host,
                time |-> es[j].time, at |-> n]
  BY <1>1, DatedProperties
<1>3. Len(all) \in Nat /\ Len(es) \in Nat
  BY LenProperties
<1>4. /\ new \in Seq(Alert) /\ Len(new) = Len(all) + Len(d)
      /\ \A i \in 1..(Len(all) + Len(d)) : new[i] = IF i <= Len(all) THEN all[i] ELSE d[i - Len(all)]
  <2>1. new = all \o d /\ d \in Seq(Alert)
    BY <1>0, <1>1, <1>2
  <2> QED
    BY <2>1, ConcatProperties
<1>5. ASSUME NEW i \in 1..Len(all) PROVE new[i] = all[i]
  BY <1>2, <1>3, <1>4
<1>6. ASSUME NEW j \in 1..Len(es)
      PROVE  Len(all) + j \in 1..Len(new) /\ new[Len(all) + j] = d[j]
  <2>1. PICK i : i = Len(all) + j
    OBVIOUS
  <2>2. i \in 1..(Len(all) + Len(d)) /\ ~(i <= Len(all)) /\ i - Len(all) = j
    BY <1>2, <1>3, <2>1
  <2> QED
    BY <1>4, <2>1, <2>2
<1>7. ASSUME NEW i \in (Len(all) + 1)..Len(new)
      PROVE  i - Len(all) \in 1..Len(es) /\ new[i] = d[i - Len(all)]
  <2>1. i - Len(all) \in 1..Len(es) /\ i \in 1..(Len(all) + Len(d)) /\ ~(i <= Len(all))
    BY <1>2, <1>3, <1>4
  <2> QED
    BY <1>4, <2>1
<1> QED
  BY <1>0, <1>2, <1>3, <1>4, <1>5, <1>6, <1>7 DEF Grown
LEMMA KnownGrows ==
  ASSUME NEW n \in Nat, NEW m \in Nat, m <= n, NEW all \in Seq(Alert), Known(all, m),
         NEW es \in Seq(Event)
  PROVE  Known(all \o Dated(es, n), n)
<1>1. PICK new : new = all \o Dated(es, n)
  OBVIOUS
<1>2. Grown(all, es, n, new)
  BY <1>1, AlertsGrow
<1>3. ASSUME NEW i \in 1..Len(new) PROVE new[i].at <= n
  <2>1. CASE i \in 1..Len(all)
    <3>1. all[i] \in Alert /\ all[i].at <= m /\ new[i] = all[i]
      BY <1>2, <2>1, ElementOfSeq DEF Known, Grown
    <3>2. all[i].at \in Nat
      BY <3>1 DEF Alert
    <3> QED
      BY <3>1, <3>2
  <2>2. CASE i \notin 1..Len(all)
    <3>1. i \in (Len(all) + 1)..Len(new)
      BY <1>2, <2>2 DEF Grown
    <3>2. new[i] = [kind |-> es[i - Len(all)].kind, host |-> es[i - Len(all)].host,
                time |-> es[i - Len(all)].time, at |-> n]
      BY <1>2, <3>1 DEF Grown
    <3> QED
      BY <3>2
  <2> QED
    BY <2>1, <2>2
<1> QED
  BY <1>1, <1>3 DEF Known

\* Alerts of packets that are not published yet do not change what is.
LEMMA ShownBefore ==
  ASSUME NEW n \in Nat, NEW all \in Seq(Alert), NEW snapshot, IsShown(snapshot, all),
         ~(n <= snapshot.total), NEW es \in Seq(Event)
  PROVE  IsShown(snapshot, all \o Dated(es, n))
<1>1. PICK new, d : d = Dated(es, n) /\ new = all \o d
  OBVIOUS
<1>2. Grown(all, es, n, new) /\ d \in Seq(Alert)
  BY <1>1, AlertsGrow, DatedProperties
<1>3. PICK k \in Nat : Knows(snapshot, all, k)
  BY DEF IsShown
<1>4. k \in 0..Len(all) /\ k \in 0..Len(new)
  BY <1>2, <1>3 DEF Knows, Grown
<1>5. ASSUME NEW i \in 1..Len(new) PROVE i <= k <=> new[i].at <= snapshot.total
  <2>1. CASE i \in 1..Len(all)
    BY <1>2, <1>3, <2>1 DEF Knows, Grown
  <2>2. CASE i \notin 1..Len(all)
    <3>1. i \in (Len(all) + 1)..Len(new)
      BY <1>2, <2>2 DEF Grown
    <3>2. new[i] = [kind |-> es[i - Len(all)].kind, host |-> es[i - Len(all)].host,
                time |-> es[i - Len(all)].time, at |-> n]
      BY <1>2, <3>1 DEF Grown
    <3>3. ~(i <= k) /\ new[i].at = n
      BY <1>2, <1>4, <3>1, <3>2 DEF Grown
    <3> QED
      BY <3>3
  <2> QED
    BY <2>1, <2>2
<1>6. SubSeq(Seen(new, OfAlert), 1, k) = SubSeq(Seen(all, OfAlert), 1, k)
  <2>1. PICK a, c : a = Seen(all, OfAlert) /\ c = Seen(d, OfAlert)
    OBVIOUS
  <2>2. a \in Seq(Pair) /\ c \in Seq(Pair) /\ Len(a) = Len(all)
    BY <1>2, <2>1, SeenTypes
  <2>3. OfAlert \in [Alert -> Pair]
    BY DEF OfAlert, Alert, Pair
  <2>4. Seen(new, OfAlert) = a \o c
    BY <1>1, <1>2, <2>1, <2>3, SeenConcat, ZenonT(60)
  <2>5. k \in 0..Len(a)
    BY <1>4, <2>2
  <2>6. SubSeq(a \o c, 1, k) = SubSeq(a, 1, k)
    BY <2>2, <2>5, SubSeqConcat
  <2> QED
    BY <2>1, <2>4, <2>6
<1>7. Seen(snapshot.anomalies, OfEvent) = KeepLast(SubSeq(Seen(new, OfAlert), 1, k), AnomaliesCap)
  BY <1>3, <1>6 DEF Knows
<1>8. Knows(snapshot, new, k)
  BY <1>4, <1>5, <1>7 DEF Knows
<1> QED
  BY <1>1, <1>8 DEF IsShown

LEMMA AlertsHoldStep ==
  ASSUME TypeOK, AlertsHold, [Next]_vars
  PROVE  AlertsHold'
<1>1. /\ alerts \in Seq(Alert) /\ anomalies \in Seq(Event)
      /\ total \in Nat /\ published.total \in Nat /\ published.total <= total
      /\ Known(alerts, total) /\ RingHolds(anomalies, alerts) /\ IsShown(published, alerts)
  BY LenProperties DEF TypeOK, TrafficOK, AlertsOK, PublishedOK, AlertsHold
<1>2. CASE Packet
  <2>1. PICK p \in Packets : AddPacket(p)
    BY <1>2, PacketCounted
  <2>2. PICK es : es = Events(p, FlowBytes(p))
    OBVIOUS
  <2>3. es \in Seq(Event)
    BY <2>2, FlowBytesType, EventsProperties DEF TypeOK
  <2>4. PICK n \in Nat : n = total + 1
    BY <1>1
  <2>5. /\ anomalies' = KeepLast(anomalies \o es, AnomaliesCap)
        /\ alerts' = alerts \o Dated(es, n)
        /\ total' = n /\ published' = published
    BY <2>1, <2>2, <2>4, PacketEffect
  <2>6. RingHolds(anomalies', alerts')
    BY <1>1, <2>3, <2>5, RingGrows
  <2>7. Known(alerts', total')
    <3>1. total <= n
      BY <1>1, <2>4
    <3> QED
      BY <1>1, <2>3, <2>5, <3>1, KnownGrows
  <2>8. IsShown(published', alerts')
    <3>1. ~(n <= published.total)
      BY <1>1, <2>4
    <3> QED
      BY <1>1, <2>3, <2>5, <3>1, ShownBefore
  <2>9. published'.total <= total'
    BY <1>1, <2>4, <2>5
  <2> QED
    BY <2>6, <2>7, <2>8, <2>9 DEF AlertsHold
<1>3. CASE Publish
  <2>1. /\ alerts' = alerts /\ anomalies' = anomalies /\ total' = total
        /\ published'.total = total /\ published'.anomalies = anomalies
    BY <1>3 DEF Publish, Current
  <2>2. Known(alerts', total') /\ RingHolds(anomalies', alerts')
    BY <1>1, <2>1
  <2>3. IsShown(published', alerts')
    <3>1. PICK snapshot : snapshot = published'
      OBVIOUS
    <3> QED
      BY <1>1, <2>1, <3>1, ShownNow
  <2> QED
    BY <1>1, <2>1, <2>2, <2>3 DEF AlertsHold
<1>4. CASE Tick
  <2>1. PICK es \in Seq(Event) : /\ anomalies' = KeepLast(anomalies \o es, AnomaliesCap)
                                 /\ alerts' = alerts \o Dated(es, total)
    BY <1>4, TickEffect
  <2>2. total' = total /\ published'.total = total /\ published'.anomalies = anomalies'
    <3>1. /\ published' = [Current EXCEPT !.throughput = throughput', !.anomalies = anomalies']
          /\ total' = total
      BY <1>4 DEF Tick
    <3> QED
      BY <3>1 DEF Current
  <2>3. RingHolds(anomalies', alerts')
    BY <1>1, <2>1, RingGrows
  <2>4. Known(alerts', total')
    <3>1. total <= total
      BY <1>1
    <3> QED
      BY <1>1, <2>1, <2>2, <3>1, KnownGrows
  <2>5. alerts' \in Seq(Alert)
    BY <1>4, TickTyped DEF TypeOK, AlertsOK
  <2>6. IsShown(published', alerts')
    <3>1. PICK snapshot : snapshot = published'
      OBVIOUS
    <3> QED
      BY <2>2, <2>3, <2>4, <2>5, <3>1, ShownNow
  <2> QED
    BY <1>1, <2>2, <2>3, <2>4, <2>6 DEF AlertsHold
<1>5. CASE UNCHANGED vars
  BY <1>5 DEF vars, AlertsHold
<1> QED
  BY <1>2, <1>3, <1>4, <1>5 DEF Next

\* The ring of alerts and the published one hold the newest of the alerts
\* raised when they were written.
THEOREM AlertsAlwaysHold == Spec => []AlertsHold
<1>1. Init => AlertsHold
  <2> SUFFICES ASSUME Init PROVE AlertsHold
    OBVIOUS
  <2>1. /\ alerts = <<>> /\ anomalies = <<>> /\ total = 0
        /\ published.total = total /\ published.anomalies = anomalies
        /\ alerts \in Seq(Alert) /\ anomalies \in Seq(Event)
        /\ Len(alerts) = 0 /\ Len(anomalies) = 0
    BY EmptySeq DEF Init, Current
  <2>2. Known(alerts, total)
    BY <2>1 DEF Known
  <2>3. RingHolds(anomalies, alerts)
    <3>1. PICK a, b : a = Seen(anomalies, OfEvent) /\ b = Seen(alerts, OfAlert)
      OBVIOUS
    <3>2. a \in Seq(Pair) /\ Len(a) = 0 /\ b \in Seq(Pair) /\ Len(b) = 0
      BY <2>1, <3>1, SeenTypes
    <3>3. a = <<>> /\ b = <<>>
      BY <3>2, EmptySeq
    <3> QED
      BY <3>1, <3>2, <3>3, StatsAssumption DEF RingHolds, KeepLast, StatsAssumption
  <2>4. IsShown(published, alerts)
    BY <2>1, <2>2, <2>3, ShownNow
  <2> QED
    BY <2>1, <2>2, <2>3, <2>4 DEF AlertsHold
<1> QED
  BY <1>1, AlertsHoldStep, TypeCorrect, PTL DEF Spec

(***************************************************************************)
(* Whatever the traffic, the alerts that a snapshot shows are the newest   *)
(* of those raised by the packets it counts.                               *)
(***************************************************************************)
THEOREM SnapshotsShowAlerts == Spec => []SnapshotAlerts
<1>1. TypeOK /\ AlertsHold => SnapshotAlerts
  <2> SUFFICES ASSUME TypeOK, AlertsHold PROVE SnapshotAlerts
    OBVIOUS
  <2>1. PICK k \in Nat : Knows(published, alerts, k)
    BY DEF AlertsHold, IsShown
  <2>2. /\ alerts \in Seq(Alert) /\ DOMAIN alerts = 1..Len(alerts)
        /\ \A i \in DOMAIN alerts : alerts[i] \in Alert
        /\ published.anomalies \in Seq(Event)
        /\ \A i \in DOMAIN published.anomalies : published.anomalies[i] \in Event
    BY LenProperties, ElementOfSeq DEF TypeOK, AlertsOK, PublishedOK
  <2>3. Seen(published.anomalies, OfEvent) =
          [i \in DOMAIN published.anomalies |->
             <<published.anomalies[i].kind, published.anomalies[i].host>>]
    BY <2>2 DEF Seen, OfEvent
  <2>4. Seen(alerts, OfAlert) =
          [i \in DOMAIN alerts |-> <<alerts[i].kind, alerts[i].host>>]
    BY <2>2 DEF Seen, OfAlert
  <2>5. /\ k \in 0..Len(alerts)
        /\ \A i \in DOMAIN alerts : i <= k <=> alerts[i].at <= published.total
    BY <2>1, <2>2 DEF Knows
  <2>6. [i \in DOMAIN published.anomalies |->
             <<published.anomalies[i].kind, published.anomalies[i].host>>]
          = KeepLast(SubSeq([i \in DOMAIN alerts |-> <<alerts[i].kind, alerts[i].host>>], 1, k),
                     AnomaliesCap)
    BY <2>1, <2>3, <2>4 DEF Knows
  <2> QED
    BY <2>5, <2>6 DEF SnapshotAlerts
<1> QED
  BY <1>1, TypeCorrect, AlertsAlwaysHold, PTL
-----------------------------------------------------------------------------
(* Which packets raised an alert. *)

Raised(kind, n, all) == \E i \in 1..Len(all) : all[i].kind = kind /\ all[i].at = n

LEMMA RaisedGrows ==
  ASSUME NEW n \in Nat, NEW all \in Seq(Alert), NEW es \in Seq(Event), NEW kind, NEW m
  PROVE  Raised(kind, m, all \o Dated(es, n))
           <=> Raised(kind, m, all) \/ (m = n /\ \E e \in Range(es) : e.kind = kind)
<1>1. PICK new : new = all \o Dated(es, n)
  OBVIOUS
<1>2. Grown(all, es, n, new)
  BY <1>1, AlertsGrow
<1>3. ASSUME Raised(kind, m, new)
      PROVE  Raised(kind, m, all) \/ (m = n /\ \E e \in Range(es) : e.kind = kind)
  <2>1. PICK i \in 1..Len(new) : new[i].kind = kind /\ new[i].at = m
    BY <1>3 DEF Raised
  <2>2. CASE i \in 1..Len(all)
    BY <1>2, <2>1, <2>2 DEF Grown, Raised
  <2>3. CASE i \notin 1..Len(all)
    <3>1. i \in (Len(all) + 1)..Len(new)
      BY <1>2, <2>3 DEF Grown
    <3>2. PICK j \in 1..Len(es) : new[i] = [kind |-> es[j].kind, host |-> es[j].host,
                time |-> es[j].time, at |-> n]
      BY <1>2, <3>1 DEF Grown
    <3>3. es[j].kind = kind /\ m = n
      BY <2>1, <3>2
    <3>4. es[j] \in Range(es)
      BY LenProperties DEF Range
    <3> QED
      BY <3>3, <3>4
  <2> QED
    BY <2>2, <2>3
<1>4. ASSUME Raised(kind, m, all) PROVE Raised(kind, m, new)
  <2>1. PICK i \in 1..Len(all) : all[i].kind = kind /\ all[i].at = m
    BY <1>4 DEF Raised
  <2>2. i \in 1..Len(new) /\ new[i] = all[i]
    BY <1>2 DEF Grown
  <2> QED
    BY <2>1, <2>2 DEF Raised
<1>5. ASSUME m = n, NEW e \in Range(es), e.kind = kind PROVE Raised(kind, m, new)
  <2>1. PICK j \in 1..Len(es) : es[j] = e
    BY LenProperties DEF Range
  <2>2. PICK i : i = Len(all) + j
    OBVIOUS
  <2>3. i \in 1..Len(new) /\ new[i] = [kind |-> es[j].kind, host |-> es[j].host,
                time |-> es[j].time, at |-> n]
    BY <1>2, <2>2 DEF Grown
  <2>4. new[i].kind = kind /\ new[i].at = m
    BY <1>5, <2>1, <2>3
  <2> QED
    BY <2>3, <2>4 DEF Raised
<1> QED
  BY <1>1, <1>3, <1>4, <1>5

LEMMA PacketRaises ==
  ASSUME TypeOK, AlertsHold, NEW p \in Packets, AddPacket(p)
  PROVE  /\ \A kind : \A m \in 1..total : Raised(kind, m, alerts') <=> Raised(kind, m, alerts)
         /\ Raised("PORT_SCAN", total + 1, alerts') <=> IsPortScan(p)
         /\ Raised("LARGE_TRANSFER", total + 1, alerts') <=> IsLargeTransfer(p, FlowBytes(p))
<1>1. PICK n, es : n = total + 1 /\ es = Events(p, FlowBytes(p))
  OBVIOUS
<1>2. /\ total \in Nat /\ n \in Nat /\ alerts \in Seq(Alert) /\ es \in Seq(Event)
      /\ alerts' = alerts \o Dated(es, n) /\ Known(alerts, total)
  <2>1. total \in Nat /\ alerts \in Seq(Alert) /\ Known(alerts, total)
    BY LenProperties DEF TypeOK, TrafficOK, AlertsOK, AlertsHold
  <2>2. es \in Seq(Event)
    BY <1>1, FlowBytesType, EventsProperties DEF TypeOK
  <2>3. alerts' = alerts \o Dated(es, n)
    BY <1>1, PacketEffect
  <2> QED
    BY <1>1, <2>1, <2>2, <2>3
<1>3. \A kind, m : Raised(kind, m, alerts')
        <=> Raised(kind, m, alerts) \/ (m = n /\ \E e \in Range(es) : e.kind = kind)
  BY <1>2, RaisedGrows
<1>4. \A kind : ~Raised(kind, n, alerts)
  <2>1. \A i \in 1..Len(alerts) : alerts[i] \in Alert /\ alerts[i].at <= total
    BY <1>2, ElementOfSeq DEF Known
  <2>2. \A i \in 1..Len(alerts) : alerts[i].at # n
    BY <1>1, <1>2, <2>1 DEF Alert
  <2> QED
    BY <2>2 DEF Raised
<1>5. \A m \in 1..total : m # n
  BY <1>1, <1>2
<1>6. /\ (\E e \in Range(es) : e.kind = "PORT_SCAN") <=> IsPortScan(p)
      /\ (\E e \in Range(es) : e.kind = "LARGE_TRANSFER") <=> IsLargeTransfer(p, FlowBytes(p))
  BY <1>1, FlowBytesType, EventsProperties DEF TypeOK
<1> QED
  BY <1>1, <1>3, <1>4, <1>5, <1>6

LEMMA TickRaises ==
  ASSUME TypeOK, Tick
  PROVE  \A kind \in {"PORT_SCAN", "LARGE_TRANSFER"} : \A m :
           Raised(kind, m, alerts') <=> Raised(kind, m, alerts)
<1>1. PICK es \in Seq(Event) :
        /\ \A i \in 1..Len(es) : es[i].kind = "BEHAVIORAL_DEVIATION"
        /\ alerts' = alerts \o Dated(es, total)
  BY TickEffect
<1>2. alerts \in Seq(Alert) /\ total \in Nat
  BY LenProperties DEF TypeOK, TrafficOK, AlertsOK
<1>3. \A kind, m : Raised(kind, m, alerts')
        <=> Raised(kind, m, alerts) \/ (m = total /\ \E e \in Range(es) : e.kind = kind)
  BY <1>1, <1>2, RaisedGrows
<1>4. \A e \in Range(es) : e.kind = "BEHAVIORAL_DEVIATION"
  BY <1>1, LenProperties DEF Range
<1> QED
  BY <1>3, <1>4

LEMMA RaisedAt ==
  ASSUME alerts \in Seq(Alert), NEW kind, NEW n
  PROVE  AlertsAt(kind, n) # {} <=> Raised(kind, n, alerts)
BY LenProperties DEF AlertsAt, Raised
-----------------------------------------------------------------------------
(* Large transfers. *)

\* The packets of flow k among the first m, and whether with them it has
\* reached the threshold.
FlowUpTo(s, k, m) == {i \in 1..m : HasFlow(s[i]) /\ FlowKey(s[i]) = k}
Reaches(s, k, m) == Bytes(s, FlowUpTo(s, k, m)) >= TransferThreshold
ReachedBefore(s, k, m) == \E i \in FlowUpTo(s, k, m) : Reaches(s, k, i)

LEMMA FlowUpToAppend ==
  ASSUME NEW s \in Seq(Packets), NEW p \in Packets, NEW k, NEW m \in 0..Len(s)
  PROVE  /\ FlowUpTo(Append(s, p), k, m) = FlowUpTo(s, k, m)
         /\ Reaches(Append(s, p), k, m) <=> Reaches(s, k, m)
         /\ ReachedBefore(Append(s, p), k, m) <=> ReachedBefore(s, k, m)
<1>1. PICK t : t = Append(s, p)
  OBVIOUS
<1>2. Len(s) \in Nat /\ \A i \in 1..Len(s) : t[i] = s[i]
  BY <1>1, LenProperties, AppendProperties
<1>3. \A i \in 0..Len(s) : FlowUpTo(t, k, i) = FlowUpTo(s, k, i)
  BY <1>2 DEF FlowUpTo
<1>4. ASSUME NEW i \in 0..Len(s) PROVE Reaches(t, k, i) <=> Reaches(s, k, i)
  <2>1. PICK is : is = FlowUpTo(s, k, i)
    OBVIOUS
  <2>2. Len(s) + 1 \notin is
    BY <1>2, <2>1 DEF FlowUpTo
  <2>3. Bytes(s, is) \in Nat
    BY BytesType
  <2>4. Bytes(t, is) = Bytes(s, is)
    BY <1>1, <2>2, <2>3, BytesAppend
  <2> QED
    BY <1>3, <2>1, <2>4 DEF Reaches
<1>5. \A i \in FlowUpTo(s, k, m) : i \in 0..Len(s)
  BY <1>2 DEF FlowUpTo
<1>6. ReachedBefore(t, k, m) <=> ReachedBefore(s, k, m)
  BY <1>3, <1>4, <1>5 DEF ReachedBefore
<1> QED
  BY <1>1, <1>3, <1>4, <1>6

FlagsOK ==
  \A k \in FlowKeys : k \in flaggedFlows <=> ReachedBefore(log, k, Len(log))
TransfersOK ==
  \A n \in 1..Len(log) : HasFlow(log[n]) =>
    (Raised("LARGE_TRANSFER", n, alerts)
       <=> /\ Reaches(log, FlowKey(log[n]), n)
           /\ ~ReachedBefore(log, FlowKey(log[n]), n - 1))

LEMMA TransferPacket ==
  ASSUME TypeOK, Counted, AlertsHold, FlagsOK, TransfersOK,
         NEW p \in Packets, AddPacket(p)
  PROVE  FlagsOK' /\ TransfersOK'
<1>1. PICK n, new : n = Len(log) + 1 /\ new = Append(log, p)
  OBVIOUS
<1>2. /\ log \in Seq(Packets) /\ Len(log) \in Nat /\ n \in Nat /\ n - 1 = Len(log)
      /\ total + 1 = n /\ total = Len(log)
      /\ log' = new /\ new \in Seq(Packets) /\ Len(new) = n /\ new[n] = p
      /\ \A i \in 1..Len(log) : new[i] = log[i]
  BY <1>1, LenProperties, AppendProperties, PacketEffect DEF TypeOK, TrafficOK
<1>3. /\ HasFlow(p) => FlowKey(p) \in FlowKeys
      /\ p.len \in Nat
  BY PacketType
<1>4. \A k : FlowUpTo(new, k, n) =
        FlowUpTo(log, k, Len(log)) \union (IF HasFlow(p) /\ FlowKey(p) = k THEN {n} ELSE {})
  <2>1. 1..n = (1..Len(log)) \union {n}
    BY <1>1, <1>2
  <2> QED
    BY <1>2, <2>1 DEF FlowUpTo
<1>5. /\ \A k : \A m \in 0..Len(log) : Reaches(new, k, m) <=> Reaches(log, k, m)
      /\ \A k : \A m \in 0..Len(log) : ReachedBefore(new, k, m) <=> ReachedBefore(log, k, m)
      /\ \A k : \A i \in FlowUpTo(log, k, Len(log)) : i \in 0..Len(log)
  BY <1>1, <1>2, FlowUpToAppend DEF FlowUpTo
<1>6. HasFlow(p) => Bytes(new, FlowUpTo(new, FlowKey(p), n)) = FlowBytes(p)
  <2> SUFFICES ASSUME HasFlow(p)
               PROVE  Bytes(new, FlowUpTo(new, FlowKey(p), n)) = FlowBytes(p)
    OBVIOUS
  <2>1. PICK k \in FlowKeys : k = FlowKey(p)
    BY <1>3
  <2>2. flows[k].bytes = Bytes(log, Where(log, OfFlow(k)))
    <3>1. Current.flows = Tallies(log).flows
      BY <1>2, DescribesByTallies DEF Counted
    <3> QED
      BY <3>1 DEF Current, Tallies
  <2>3. p \in OfFlow(k)
    BY <2>1 DEF OfFlow
  <2>4. Bytes(new, Where(new, OfFlow(k))) = Bytes(log, Where(log, OfFlow(k))) + p.len
    BY <1>1, <1>2, <2>3, Recount
  <2>5. Where(new, OfFlow(k)) = FlowUpTo(new, k, n)
    <3>1. DOMAIN new = 1..n /\ \A i \in 1..n : new[i] \in Packets
      BY <1>2, LenProperties, ElementOfSeq
    <3> QED
      BY <3>1 DEF Where, OfFlow, FlowUpTo
  <2> QED
    BY <2>1, <2>2, <2>4, <2>5 DEF FlowBytes
<1>7. /\ HasFlow(p) => (Reaches(new, FlowKey(p), n) <=> FlowBytes(p) >= TransferThreshold)
      /\ IsLargeTransfer(p, FlowBytes(p)) <=>
           /\ HasFlow(p) /\ Reaches(new, FlowKey(p), n)
           /\ ~ReachedBefore(log, FlowKey(p), Len(log))
  BY <1>3, <1>6 DEF Reaches, IsLargeTransfer, FlagsOK
<1>8. FlagsOK'
  <2>1. flaggedFlows' = IF IsLargeTransfer(p, FlowBytes(p))
                        THEN flaggedFlows \union {FlowKey(p)} ELSE flaggedFlows
    BY PacketEffect DEF CheckPacket
  <2>2. ASSUME NEW k \in FlowKeys
        PROVE  k \in flaggedFlows' <=> ReachedBefore(new, k, n)
    <3>1. ReachedBefore(new, k, n)
            <=> \/ ReachedBefore(log, k, Len(log))
                \/ HasFlow(p) /\ FlowKey(p) = k /\ Reaches(new, k, n)
      BY <1>4, <1>5 DEF ReachedBefore
    <3>2. k \in flaggedFlows <=> ReachedBefore(log, k, Len(log))
      BY DEF FlagsOK
    <3> QED
      BY <1>7, <2>1, <3>1, <3>2
  <2> QED
    BY <1>2, <2>2 DEF FlagsOK
<1>9. TransfersOK'
  <2>1. ASSUME NEW m \in 1..n, HasFlow(new[m])
        PROVE  Raised("LARGE_TRANSFER", m, alerts')
                 <=> /\ Reaches(new, FlowKey(new[m]), m)
                     /\ ~ReachedBefore(new, FlowKey(new[m]), m - 1)
    <3>1. CASE m = n
      <4>1. Raised("LARGE_TRANSFER", n, alerts') <=> IsLargeTransfer(p, FlowBytes(p))
        BY <1>2, PacketRaises
      <4>2. Len(log) \in 0..Len(log)
        BY <1>2
      <4> QED
        BY <1>2, <1>5, <1>7, <2>1, <3>1, <4>1, <4>2
    <3>2. CASE m # n
      <4>1. m \in 1..Len(log) /\ m \in 0..Len(log) /\ m - 1 \in 0..Len(log) /\ m \in 1..total
        BY <1>1, <1>2, <3>2
      <4>2. Raised("LARGE_TRANSFER", m, alerts') <=> Raised("LARGE_TRANSFER", m, alerts)
        BY <4>1, PacketRaises
      <4>3. new[m] = log[m]
        BY <1>2, <4>1
      <4> QED
        BY <1>5, <2>1, <4>1, <4>2, <4>3 DEF TransfersOK
    <3> QED
      BY <3>1, <3>2
  <2> QED
    BY <1>2, <2>1 DEF TransfersOK
<1> QED
  BY <1>8, <1>9

(***************************************************************************)
(* Whatever the traffic and the threshold, a flow is reported once, by the *)
(* packet that takes it there.                                             *)
(***************************************************************************)
THEOREM TransfersReportedOnce == Spec => []TransferOnce
<1>1. Init => FlagsOK /\ TransfersOK
  <2> SUFFICES ASSUME Init PROVE FlagsOK /\ TransfersOK
    OBVIOUS
  <2>1. log = <<>> /\ Len(log) = 0 /\ flaggedFlows = {} /\ 1..0 = {}
    BY EmptySeq DEF Init
  <2>2. \A k : FlowUpTo(log, k, Len(log)) = {}
    BY <2>1 DEF FlowUpTo
  <2> QED
    BY <2>1, <2>2 DEF FlagsOK, TransfersOK, ReachedBefore
<1>2. TypeOK /\ Counted /\ AlertsHold /\ FlagsOK /\ TransfersOK /\ [Next]_vars
        => FlagsOK' /\ TransfersOK'
  <2> SUFFICES ASSUME TypeOK, Counted, AlertsHold, FlagsOK, TransfersOK, [Next]_vars
               PROVE  FlagsOK' /\ TransfersOK'
    OBVIOUS
  <2>1. CASE Packet
    BY <2>1, PacketCounted, TransferPacket
  <2>2. CASE Publish
    BY <2>2 DEF Publish, FlagsOK, TransfersOK
  <2>3. CASE Tick
    <3>1. log' = log /\ flaggedFlows' = flaggedFlows
      BY <2>3 DEF Tick
    <3>2. \A m : Raised("LARGE_TRANSFER", m, alerts') <=> Raised("LARGE_TRANSFER", m, alerts)
      BY <2>3, TickRaises
    <3> QED
      BY <3>1, <3>2 DEF FlagsOK, TransfersOK
  <2>4. CASE UNCHANGED vars
    BY <2>4 DEF vars, FlagsOK, TransfersOK
  <2> QED
    BY <2>1, <2>2, <2>3, <2>4 DEF Next
<1>3. TypeOK /\ TransfersOK => TransferOnce
  <2> SUFFICES ASSUME TypeOK, TransfersOK, NEW n \in DOMAIN log, HasFlow(log[n])
               PROVE  AlertsAt("LARGE_TRANSFER", n) # {}
                        <=> /\ Reaches(log, FlowKey(log[n]), n)
                            /\ ~ReachedBefore(log, FlowKey(log[n]), n - 1)
    BY DEF TransferOnce, Reaches, ReachedBefore, FlowUpTo
  <2>1. n \in 1..Len(log) /\ alerts \in Seq(Alert)
    BY LenProperties DEF TypeOK, TrafficOK, AlertsOK
  <2> QED
    BY <2>1, RaisedAt DEF TransfersOK
<1> QED
  BY <1>1, <1>2, <1>3, TypeCorrect, AlwaysCounted, AlertsAlwaysHold, PTL DEF Spec
-----------------------------------------------------------------------------
(* Port scans. *)

\* The watched packets of source h among the first m; those that count against
\* it after them, no alert and no end of a window since; those that count when
\* packet n comes.
WatchedUpTo(s, h, m) == {i \in 1..m : Watched(s[i]) /\ s[i].src = h}
Fresh(s, i, others) == \A j \in others : j > i => s[i].time > s[j].time - ScanWindow
Live(s, all, h, m) ==
  {i \in WatchedUpTo(s, h, m) :
     /\ Fresh(s, i, WatchedUpTo(s, h, m))
     /\ \A j \in WatchedUpTo(s, h, m) : Raised("PORT_SCAN", j, all) => j < i}
Counting(s, all, n) ==
  {i \in WatchedUpTo(s, s[n].src, n) :
     /\ Fresh(s, i, WatchedUpTo(s, s[n].src, n))
     /\ \A j \in WatchedUpTo(s, s[n].src, n - 1) : Raised("PORT_SCAN", j, all) => j < i}

\* The entries of these packets.
EntryOf(p) == [port |-> p.port, time |-> p.time]
EntriesOf(s, is) == {EntryOf(s[i]) : i \in is}

\* The scans reported are those there were.
ScansOf(s, all) ==
  \A n \in 1..Len(s) : Watched(s[n]) =>
    (Raised("PORT_SCAN", n, all)
       <=> Cardinality({s[i].port : i \in Counting(s, all, n)}) >= ScanThreshold)

TrackOK ==
  /\ \A h \in Hosts : portScanTrack[h] = EntriesOf(log, Live(log, alerts, h, Len(log)))
  /\ ScansOf(log, alerts)

\* What is known of the first packets and alerts stays so.
SameScans(s, all, t, new) ==
  /\ \A h : \A m \in 0..Len(s) : /\ WatchedUpTo(t, h, m) = WatchedUpTo(s, h, m)
                                 /\ Live(t, new, h, m) = Live(s, all, h, m)
  /\ \A n \in 1..Len(s) : {t[i].port : i \in Counting(t, new, n)}
                            = {s[i].port : i \in Counting(s, all, n)}

LEMMA WatchedAppend ==
  ASSUME NEW s \in Seq(Packets), NEW t, NEW all, NEW new,
         \A i \in 1..Len(s) : t[i] = s[i],
         \A m \in 1..Len(s) : Raised("PORT_SCAN", m, new) <=> Raised("PORT_SCAN", m, all)
  PROVE  SameScans(s, all, t, new)
<1>1. Len(s) \in Nat
  BY LenProperties
<1>2. \A h : \A m \in 0..Len(s) : /\ WatchedUpTo(t, h, m) = WatchedUpTo(s, h, m)
                                  /\ WatchedUpTo(s, h, m) \subseteq 1..Len(s)
  BY <1>1 DEF WatchedUpTo
<1>3. ASSUME NEW is \in SUBSET (1..Len(s)), NEW i \in 1..Len(s)
      PROVE  Fresh(t, i, is) <=> Fresh(s, i, is)
  BY DEF Fresh
<1>4. ASSUME NEW h, NEW m \in 0..Len(s) PROVE Live(t, new, h, m) = Live(s, all, h, m)
  <2>1. PICK is : is = WatchedUpTo(s, h, m)
    OBVIOUS
  <2>2. is \subseteq 1..Len(s) /\ WatchedUpTo(t, h, m) = is
    BY <1>2, <2>1
  <2>3. \A i \in is : Fresh(t, i, is) <=> Fresh(s, i, is)
    BY <1>3, <2>2
  <2>4. \A j \in is : Raised("PORT_SCAN", j, new) <=> Raised("PORT_SCAN", j, all)
    BY <2>2
  <2> QED
    BY <2>1, <2>2, <2>3, <2>4 DEF Live
<1>5. ASSUME NEW n \in 1..Len(s)
      PROVE  /\ Counting(t, new, n) = Counting(s, all, n)
             /\ Counting(s, all, n) \subseteq 1..Len(s)
  <2>1. t[n] = s[n] /\ n \in 0..Len(s) /\ n - 1 \in 0..Len(s)
    BY <1>1
  <2>2. PICK h, is, js : /\ h = s[n].src /\ is = WatchedUpTo(s, h, n)
                         /\ js = WatchedUpTo(s, h, n - 1)
    OBVIOUS
  <2>3. /\ WatchedUpTo(t, h, n) = is /\ WatchedUpTo(t, h, n - 1) = js
        /\ is \subseteq 1..Len(s) /\ js \subseteq 1..Len(s)
    BY <1>2, <2>1, <2>2
  <2>4. \A i \in is : Fresh(t, i, is) <=> Fresh(s, i, is)
    BY <1>3, <2>3
  <2>5. \A j \in js : Raised("PORT_SCAN", j, new) <=> Raised("PORT_SCAN", j, all)
    BY <2>3
  <2> QED
    BY <2>1, <2>2, <2>3, <2>4, <2>5 DEF Counting
<1>6. \A n \in 1..Len(s) : {t[i].port : i \in Counting(t, new, n)}
                             = {s[i].port : i \in Counting(s, all, n)}
  BY <1>5
<1> QED
  BY <1>2, <1>4, <1>6 DEF SameScans

\* A watched packet counts for itself, with those that counted before and are
\* inside the window that ends with it.
LEMMA CountingPacket ==
  ASSUME NEW s \in Seq(Packets), NEW n \in 1..Len(s), Watched(s[n]), NEW all
  PROVE  Counting(s, all, n) =
           {n} \union {i \in Live(s, all, s[n].src, n - 1) :
                         s[i].time > s[n].time - ScanWindow}
<1>1. PICK h, is, js : /\ h = s[n].src /\ is = WatchedUpTo(s, h, n)
                       /\ js = WatchedUpTo(s, h, n - 1)
  OBVIOUS
<1>2. Len(s) \in Nat
  BY LenProperties
<1>3. 1..n = (1..(n - 1)) \union {n} /\ \A j \in 1..(n - 1) : j < n /\ ~(j > n)
  BY <1>2
<1>4. is = js \union {n} /\ n \notin js /\ \A j \in js : j < n /\ ~(j > n)
  BY <1>1, <1>3 DEF WatchedUpTo
<1>5. Fresh(s, n, is) /\ ~(n > n)
  BY <1>2, <1>4 DEF Fresh
<1>6. \A i \in js : Fresh(s, i, is) <=>
                      Fresh(s, i, js) /\ s[i].time > s[n].time - ScanWindow
  BY <1>4 DEF Fresh
<1>7. Counting(s, all, n) =
        {i \in is : Fresh(s, i, is) /\ \A j \in js : Raised("PORT_SCAN", j, all) => j < i}
  BY <1>1 DEF Counting
<1>8. Live(s, all, h, n - 1) =
        {i \in js : Fresh(s, i, js) /\ \A j \in js : Raised("PORT_SCAN", j, all) => j < i}
  BY <1>1 DEF Live
<1> QED
  BY <1>1, <1>4, <1>5, <1>6, <1>7, <1>8

\* After the packet those that counted still do, unless there was an alert.
LEMMA LivePacket ==
  ASSUME NEW s \in Seq(Packets), NEW n \in 1..Len(s), Watched(s[n]), NEW all
  PROVE  Live(s, all, s[n].src, n) =
           IF Raised("PORT_SCAN", n, all) THEN {} ELSE Counting(s, all, n)
<1>1. PICK h, is, js : /\ h = s[n].src /\ is = WatchedUpTo(s, h, n)
                       /\ js = WatchedUpTo(s, h, n - 1)
  OBVIOUS
<1>2. Len(s) \in Nat
  BY LenProperties
<1>3. 1..n = (1..(n - 1)) \union {n} /\ \A j \in 1..n : ~(n < j)
  BY <1>2
<1>4. is = js \union {n} /\ \A i \in is : ~(n < i)
  BY <1>1, <1>3 DEF WatchedUpTo
<1>5. Live(s, all, h, n) =
        {i \in is : Fresh(s, i, is) /\ \A j \in is : Raised("PORT_SCAN", j, all) => j < i}
  BY <1>1 DEF Live
<1>6. Counting(s, all, n) =
        {i \in is : Fresh(s, i, is) /\ \A j \in js : Raised("PORT_SCAN", j, all) => j < i}
  BY <1>1 DEF Counting
<1> QED
  BY <1>1, <1>4, <1>5, <1>6

\* The entries the detector sees are those of the packets that count.
LEMMA EntriesExact ==
  ASSUME TypeOK, TrackOK, NEW p \in Packets, Watched(p), NEW new, new = Append(log, p),
         NEW all, Live(new, all, p.src, Len(log)) = Live(log, alerts, p.src, Len(log))
  PROVE  /\ p.src \in Hosts
         /\ Entries(p) = EntriesOf(new, Counting(new, all, Len(log) + 1))
<1>1. PICK n, live : n = Len(log) + 1 /\ live = Live(log, alerts, p.src, Len(log))
  OBVIOUS
<1>2. /\ new \in Seq(Packets) /\ n \in 1..Len(new) /\ new[n] = p /\ n - 1 = Len(log)
      /\ \A i \in 1..Len(log) : new[i] = log[i]
  BY <1>1, LenProperties, AppendProperties DEF TypeOK, TrafficOK
<1>3. p.src \in Hosts
  BY PacketType DEF Watched
<1>4. portScanTrack[p.src] = EntriesOf(log, live)
  BY <1>1, <1>3 DEF TrackOK
<1>5. live \subseteq 1..Len(log)
  BY <1>1 DEF Live, WatchedUpTo
<1>6. portScanTrack[p.src] = EntriesOf(new, live)
  BY <1>2, <1>4, <1>5 DEF EntriesOf
<1>7. Counting(new, all, n) =
        {n} \union {i \in live : new[i].time > p.time - ScanWindow}
  <2>1. PICK q : q = new[n]
    OBVIOUS
  <2>2. Watched(q) /\ q = p
    BY <1>2, <2>1
  <2>3. Counting(new, all, n) =
          {n} \union {i \in Live(new, all, q.src, n - 1) : new[i].time > q.time - ScanWindow}
    <3>1. new \in Seq(Packets) /\ n \in 1..Len(new) /\ Watched(new[n])
      BY <1>2, <2>1, <2>2
    <3>2. Counting(new, all, n) =
            {n} \union {i \in Live(new, all, new[n].src, n - 1) :
                          new[i].time > new[n].time - ScanWindow}
      BY <3>1, CountingPacket
    <3> QED
      BY <2>1, <3>2
  <2>4. Live(new, all, q.src, n - 1) = live
    BY <1>1, <1>2, <2>2
  <2> QED
    BY <2>2, <2>3, <2>4
<1>8. Entries(p) = {e \in portScanTrack[p.src] : e.time > p.time - ScanWindow} \union {EntryOf(p)}
  BY DEF Entries, EntryOf
<1>9. \A i : EntryOf(new[i]).time = new[i].time
  BY DEF EntryOf
<1>10. Entries(p) = EntriesOf(new, Counting(new, all, n))
  <2>1. PICK late : late = {i \in live : new[i].time > p.time - ScanWindow}
    OBVIOUS
  <2>2. {e \in portScanTrack[p.src] : e.time > p.time - ScanWindow} = {EntryOf(new[i]) : i \in late}
    BY <1>6, <1>9, <2>1, Zenon DEF EntriesOf
  <2>3. EntriesOf(new, {n} \union late) = {EntryOf(new[i]) : i \in late} \union {EntryOf(p)}
    BY <1>2 DEF EntriesOf
  <2> QED
    BY <1>7, <1>8, <2>1, <2>2, <2>3
<1> QED
  BY <1>1, <1>3, <1>10

LEMMA ScanPacket ==
  ASSUME TypeOK, AlertsHold, TrackOK, NEW p \in Packets, AddPacket(p)
  PROVE  TrackOK'
<1>1. PICK n, new, all : n = Len(log) + 1 /\ new = Append(log, p) /\ all = alerts'
  OBVIOUS
<1>2. /\ log \in Seq(Packets) /\ Len(log) \in Nat /\ n \in Nat /\ n - 1 = Len(log)
      /\ total + 1 = n /\ total = Len(log)
      /\ log' = new /\ new \in Seq(Packets) /\ Len(new) = n /\ new[n] = p
      /\ \A i \in 1..Len(log) : new[i] = log[i]
  BY <1>1, LenProperties, AppendProperties, PacketEffect DEF TypeOK, TrafficOK
<1>3. /\ \A m \in 1..Len(log) : Raised("PORT_SCAN", m, all) <=> Raised("PORT_SCAN", m, alerts)
      /\ Raised("PORT_SCAN", n, all) <=> IsPortScan(p)
  BY <1>1, <1>2, PacketRaises
<1>4. /\ \A h : \A m \in 0..Len(log) : /\ WatchedUpTo(new, h, m) = WatchedUpTo(log, h, m)
                                       /\ Live(new, all, h, m) = Live(log, alerts, h, m)
      /\ \A m \in 1..Len(log) : {new[i].port : i \in Counting(new, all, m)}
                                  = {log[i].port : i \in Counting(log, alerts, m)}
  <2>1. SameScans(log, alerts, new, all)
    BY <1>2, <1>3, WatchedAppend
  <2> QED
    BY <2>1 DEF SameScans
<1>5. Len(log) \in 0..Len(log) /\ n \notin 1..Len(log) /\ n \in 1..Len(new)
  BY <1>1, <1>2
<1>6. Watched(p) => /\ p.src \in Hosts
                    /\ Entries(p) = EntriesOf(new, Counting(new, all, n))
  BY <1>1, <1>4, <1>5, EntriesExact
<1>7. CheckPacket(p, FlowBytes(p)) /\ portScanTrack \in [Hosts -> SUBSET Entry]
  BY PacketEffect DEF TypeOK, DetectorOK
<1>8. ASSUME NEW h \in Hosts PROVE portScanTrack'[h] = EntriesOf(new, Live(new, all, h, n))
  <2>1. CASE Watched(p) /\ p.src = h
    <3>1. portScanTrack'[h] = IF IsPortScan(p) THEN {} ELSE Entries(p)
      BY <1>7, <2>1 DEF CheckPacket
    <3>2. Live(new, all, h, n) =
            IF Raised("PORT_SCAN", n, all) THEN {} ELSE Counting(new, all, n)
      <4>1. Watched(new[n]) /\ new[n].src = h
        BY <1>2, <2>1
      <4> QED
        BY <1>2, <1>5, <4>1, LivePacket
    <3>3. EntriesOf(new, {}) = {}
      BY DEF EntriesOf
    <3> QED
      BY <1>3, <1>6, <2>1, <3>1, <3>2, <3>3
  <2>2. CASE ~(Watched(p) /\ p.src = h)
    <3>1. portScanTrack'[h] = portScanTrack[h]
      BY <1>7, <2>2 DEF CheckPacket
    <3>2. WatchedUpTo(new, h, n) = WatchedUpTo(new, h, Len(log))
      <4>1. 1..n = (1..Len(log)) \union {n}
        BY <1>1, <1>2
      <4> QED
        BY <1>2, <2>2, <4>1 DEF WatchedUpTo
    <3>3. Live(new, all, h, n) = Live(log, alerts, h, Len(log))
      BY <1>4, <1>5, <3>2 DEF Live
    <3>4. Live(log, alerts, h, Len(log)) \subseteq 1..Len(log)
      BY DEF Live, WatchedUpTo
    <3>5. portScanTrack[h] = EntriesOf(log, Live(log, alerts, h, Len(log)))
      BY DEF TrackOK
    <3> QED
      BY <1>2, <3>1, <3>3, <3>4, <3>5 DEF EntriesOf
  <2> QED
    BY <2>1, <2>2
<1>9. ScansOf(new, all)
  <2>1. ASSUME NEW m \in 1..n, Watched(new[m])
        PROVE  Raised("PORT_SCAN", m, all)
                 <=> Cardinality({new[i].port : i \in Counting(new, all, m)}) >= ScanThreshold
    <3>1. CASE m # n
      <4>1. m \in 1..Len(log) /\ new[m] = log[m]
        BY <1>1, <1>2, <3>1
      <4> QED
        BY <1>3, <1>4, <2>1, <4>1 DEF TrackOK, ScansOf
    <3>2. CASE m = n
      <4>1. Watched(p)
        BY <1>2, <2>1, <3>2
      <4>2. \A i : EntryOf(new[i]).port = new[i].port
        BY DEF EntryOf
      <4>3. {e.port : e \in Entries(p)} = {new[i].port : i \in Counting(new, all, n)}
        BY <1>6, <4>1, <4>2 DEF EntriesOf
      <4> QED
        BY <1>3, <3>2, <4>1, <4>3 DEF IsPortScan
    <3> QED
      BY <3>1, <3>2
  <2> QED
    BY <1>2, <2>1 DEF ScansOf
<1> QED
  BY <1>1, <1>2, <1>8, <1>9 DEF TrackOK

(***************************************************************************)
(* Whatever the traffic, the times its packets carry, the threshold and    *)
(* the window, pruning a source's list only when a packet of it comes, and *)
(* emptying it at an alert, loses nothing and keeps nothing: a packet      *)
(* raises an alert exactly when its source has reached the threshold.      *)
(***************************************************************************)
THEOREM ScansFoundExactly == Spec => []ScanExact
<1>1. Init => TrackOK
  <2> SUFFICES ASSUME Init PROVE TrackOK
    OBVIOUS
  <2>1. /\ log = <<>> /\ Len(log) = 0 /\ 1..0 = {}
        /\ portScanTrack = [h \in Hosts |-> {}]
    BY EmptySeq DEF Init
  <2>2. \A h : Live(log, alerts, h, Len(log)) = {}
    BY <2>1 DEF Live, WatchedUpTo
  <2> QED
    BY <2>1, <2>2 DEF TrackOK, EntriesOf, ScansOf
<1>2. TypeOK /\ AlertsHold /\ TrackOK /\ [Next]_vars
        => TrackOK'
  <2> SUFFICES ASSUME TypeOK, AlertsHold, TrackOK, [Next]_vars
               PROVE  TrackOK'
    OBVIOUS
  <2>1. CASE Packet
    BY <2>1, PacketCounted, ScanPacket
  <2>2. CASE Publish
    BY <2>2 DEF Publish, TrackOK
  <2>3. CASE Tick
    <3>1. log' = log /\ portScanTrack' = portScanTrack
      BY <2>3 DEF Tick
    <3>2. \A m : Raised("PORT_SCAN", m, alerts') <=> Raised("PORT_SCAN", m, alerts)
      BY <2>3, TickRaises
    <3>3. /\ \A h, m : Live(log, alerts', h, m) = Live(log, alerts, h, m)
          /\ \A n : Counting(log, alerts', n) = Counting(log, alerts, n)
      BY <3>2 DEF Live, Counting
    <3>4. ScansOf(log, alerts')
      BY <3>2, <3>3 DEF TrackOK, ScansOf
    <3> QED
      BY <3>1, <3>3, <3>4 DEF TrackOK
  <2>4. CASE UNCHANGED vars
    BY <2>4 DEF vars, TrackOK
  <2> QED
    BY <2>1, <2>2, <2>3, <2>4 DEF Next
<1>3. TypeOK /\ TrackOK => ScanExact
  <2> SUFFICES ASSUME TypeOK, TrackOK, NEW n \in DOMAIN log, Watched(log[n])
               PROVE  AlertsAt("PORT_SCAN", n) # {}
                        <=> Cardinality({log[i].port : i \in Since(n)}) >= ScanThreshold
    BY DEF ScanExact
  <2>1. n \in 1..Len(log) /\ alerts \in Seq(Alert)
    BY LenProperties DEF TypeOK, TrafficOK, AlertsOK
  <2>2. \A m : AlertsAt("PORT_SCAN", m) # {} <=> Raised("PORT_SCAN", m, alerts)
    BY <2>1, RaisedAt
  <2>3. Since(n) = Counting(log, alerts, n)
    BY <2>2 DEF Since, Counting, WatchedUpTo, Fresh
  <2> QED
    BY <2>1, <2>2, <2>3 DEF TrackOK, ScansOf
<1> QED
  BY <1>1, <1>2, <1>3, TypeCorrect, AlertsAlwaysHold, PTL DEF Spec
-----------------------------------------------------------------------------
(* Stories. *)

Mark == {"DNS_QUERY", "TCP_HANDSHAKE", "TCP_CLOSE", "TCP_RESET", "SECURITY_ALERT"} \X Nat
OfMilestone == [m \in Milestone |-> <<m.kind, m.time>>]

\* What an alert adds to the story of h while n packets were counted, and what
\* all of them do.
Warning(a, h, n) == IF a.host = h /\ a.at = n THEN <<<<"SECURITY_ALERT", a.time>>>> ELSE <<>>
WarningOf(h, n) == [a \in Alert |-> Warning(a, h, n)]
Warned(all, h, n) == FlattenSeq(Seen(all, WarningOf(h, n)))

\* What packet n and the alerts after it add to the story of h, and the whole.
Did(p, h) == IF p.src = h THEN Seen(PacketEvents(p), OfMilestone) ELSE <<>>
Part(s, all, h, n) == Did(s[n], h) \o Warned(all, h, n)
Parts(s, all, h) == [n \in DOMAIN s |-> Part(s, all, h, n)]
Told(s, all, h) == FlattenSeq(Parts(s, all, h))

StoryTold ==
  \A h \in Hosts : Seen(timelines[h], OfMilestone) = KeepLast(Told(log, alerts, h), StoryCap)

LEMMA SeenMilestones ==
  ASSUME NEW ms \in Seq(Milestone)
  PROVE  /\ OfMilestone \in [Milestone -> Mark]
         /\ Seen(ms, OfMilestone) \in Seq(Mark)
<1>1. OfMilestone \in [Milestone -> Mark]
  BY DEF OfMilestone, Milestone, Mark
<1>2. IsSeen(Seen(ms, OfMilestone), ms, OfMilestone, Mark)
  BY <1>1, SeenProperties
<1> QED
  BY <1>1, <1>2 DEF IsSeen

LEMMA WarnedType ==
  ASSUME NEW all \in Seq(Alert), NEW h, NEW n
  PROVE  /\ WarningOf(h, n) \in [Alert -> Seq(Mark)]
         /\ IsSeen(Seen(all, WarningOf(h, n)), all, WarningOf(h, n), Seq(Mark))
         /\ Warned(all, h, n) \in Seq(Mark)
<1>1. ASSUME NEW a \in Alert PROVE Warning(a, h, n) \in Seq(Mark)
  <2>1. <<"SECURITY_ALERT", a.time>> \in Mark
    BY DEF Alert, Mark
  <2> QED
    BY <2>1 DEF Warning
<1>2. WarningOf(h, n) \in [Alert -> Seq(Mark)]
  BY <1>1 DEF WarningOf
<1>3. PICK f, ss : f = WarningOf(h, n) /\ ss = Seen(all, f)
  OBVIOUS
<1>4. IsSeen(ss, all, f, Seq(Mark))
  BY <1>2, <1>3, SeenProperties
<1>5. FlattenSeq(ss) \in Seq(Mark)
  BY <1>4, FlattenType DEF IsSeen
<1> QED
  BY <1>2, <1>3, <1>4, <1>5 DEF Warned

\* Later alerts are told after earlier ones.
LEMMA WarnedConcat ==
  ASSUME NEW all \in Seq(Alert), NEW more \in Seq(Alert), NEW h, NEW n
  PROVE  Warned(all \o more, h, n) = Warned(all, h, n) \o Warned(more, h, n)
<1>1. PICK f, a, b : f = WarningOf(h, n) /\ a = Seen(all, f) /\ b = Seen(more, f)
  OBVIOUS
<1>2. f \in [Alert -> Seq(Mark)] /\ a \in Seq(Seq(Mark)) /\ b \in Seq(Seq(Mark))
  BY <1>1, WarnedType DEF IsSeen
<1>3. Seen(all \o more, f) = a \o b
  BY <1>1, <1>2, SeenConcat, ZenonT(60)
<1>4. FlattenSeq(a \o b) = FlattenSeq(a) \o FlattenSeq(b)
  BY <1>2, FlattenConcat
<1> QED
  BY <1>1, <1>3, <1>4 DEF Warned

\* Alerts raised at another time are not told with these.
LEMMA NotWarned ==
  ASSUME NEW all \in Seq(Alert), NEW h, NEW n, \A i \in 1..Len(all) : all[i].at # n
  PROVE  Warned(all, h, n) = <<>>
<1>1. PICK f, ss : f = WarningOf(h, n) /\ ss = Seen(all, f)
  OBVIOUS
<1>2. IsSeen(ss, all, f, Seq(Mark))
  BY <1>1, WarnedType
<1>3. \A i \in 1..Len(ss) : ss[i] = f[all[i]] /\ all[i] \in Alert /\ all[i].at # n
  BY <1>2, LenProperties, ElementOfSeq DEF IsSeen
<1>4. \A i \in 1..Len(ss) : ss[i] = <<>>
  BY <1>1, <1>3 DEF WarningOf, Warning
<1>5. ss \in Seq(Seq(Mark))
  BY <1>2 DEF IsSeen
<1>6. FlattenSeq(ss) = <<>>
  BY <1>4, <1>5, FlattenNone
<1> QED
  BY <1>1, <1>6 DEF Warned

\* Seeing a flattened list through a function is flattening what is seen.
SeenEach(ss, tt, f) == Len(tt) = Len(ss) /\ \A k \in 1..Len(ss) : tt[k] = Seen(ss[k], f)

LEMMA FlattenSeen ==
  ASSUME NEW A, NEW B, NEW f \in [A -> B],
         NEW ss \in Seq(Seq(A)), NEW tt \in Seq(Seq(B)), SeenEach(ss, tt, f)
  PROVE  Seen(FlattenSeq(ss), f) = FlattenSeq(tt)
<1>1. PICK n \in Nat : n = Len(ss) /\ n = Len(tt)
  BY LenProperties DEF SeenEach
<1>2. PICK r \in [0..n -> Seq(A)] : Joins(r, ss)
  BY <1>1, JoinsExists
<1>3. PICK q : q = [k \in 0..n |-> Seen(r[k], f)]
  OBVIOUS
<1>4. r[0] = <<>> /\ \A k \in 1..n : r[k] = r[k - 1] \o ss[k]
  BY <1>1, <1>2 DEF Joins
<1>5. q[0] = <<>>
  <2>1. Seen(<<>>, f) = <<>>
    BY DEF Seen
  <2> QED
    BY <1>1, <1>3, <1>4, <2>1
<1>6. ASSUME NEW k \in 1..n PROVE q[k] = q[k - 1] \o tt[k]
  <2>1. PICK a, b : a = r[k - 1] /\ b = ss[k]
    OBVIOUS
  <2>2. a \in Seq(A) /\ b \in Seq(A) /\ k - 1 \in 0..n /\ k \in 0..n
    <3>1. k - 1 \in 0..n /\ k \in 0..n
      OBVIOUS
    <3>2. ss[k] \in Seq(A)
      BY <1>1, ElementOfSeq
    <3> QED
      BY <2>1, <3>1, <3>2
  <2>3. Seen(a \o b, f) = Seen(a, f) \o Seen(b, f)
    BY <2>2, SeenConcat
  <2>4. q[k] = Seen(a \o b, f) /\ q[k - 1] = Seen(a, f) /\ tt[k] = Seen(b, f)
    BY <1>1, <1>3, <1>4, <2>1, <2>2 DEF SeenEach
  <2> QED
    BY <2>3, <2>4
<1>7. Joins(q, tt)
  BY <1>1, <1>5, <1>6 DEF Joins
<1>8. FlattenSeq(ss) = r[n] /\ FlattenSeq(tt) = q[n]
  BY <1>1, <1>2, <1>7, FlattenJoins
<1> QED
  BY <1>1, <1>3, <1>8

\* The story is told of alerts what their dates say.
LEMMA AlertsTold ==
  ASSUME NEW es \in Seq(Event), NEW n \in Nat, NEW h
  PROVE  Seen(AlertEvents(es, h), OfMilestone) = Warned(Dated(es, n), h, n)
<1>1. PICK ss, f, all, tt : /\ ss = Warns(es, h) /\ f = WarningOf(h, n)
                            /\ all = Dated(es, n) /\ tt = Seen(all, f)
  OBVIOUS
<1>2. /\ all \in Seq(Alert) /\ Len(all) = Len(es)
      /\ \A i \in 1..Len(es) : all[i] = [kind |-> es[i].kind, host |-> es[i].host,
                                         time |-> es[i].time, at |-> n]
  BY <1>1, DatedProperties
<1>3. /\ ss \in Seq(Seq(Milestone)) /\ Len(ss) = Len(es)
      /\ \A i \in 1..Len(es) : ss[i] = Warn(es[i], h)
      /\ AlertEvents(es, h) = FlattenSeq(ss)
  BY <1>1, AlertMilestones
<1>4. IsSeen(tt, all, f, Seq(Mark))
  BY <1>1, <1>2, WarnedType
<1>5. tt \in Seq(Seq(Mark)) /\ Len(tt) = Len(es) /\ \A i \in 1..Len(es) : tt[i] = f[all[i]]
  BY <1>2, <1>4 DEF IsSeen
<1>6. OfMilestone \in [Milestone -> Mark]
  BY DEF OfMilestone, Milestone, Mark
<1>7. ASSUME NEW i \in 1..Len(es) PROVE tt[i] = Seen(ss[i], OfMilestone)
  <2>1. es[i] \in Event /\ all[i] \in Alert
    BY <1>2, LenProperties, ElementOfSeq
  <2>2. all[i].host = es[i].host /\ all[i].at = n /\ all[i].time = es[i].time
    <3>1. all[i] = [kind |-> es[i].kind, host |-> es[i].host, time |-> es[i].time, at |-> n]
      BY <1>2
    <3> QED
      BY <3>1
  <2>3. tt[i] = IF es[i].host = h THEN <<<<"SECURITY_ALERT", es[i].time>>>> ELSE <<>>
    BY <1>1, <1>5, <2>1, <2>2 DEF WarningOf, Warning
  <2>4. CASE es[i].host = h
    <3>1. PICK m : m = [kind |-> "SECURITY_ALERT", time |-> es[i].time,
                        inText |-> es[i].inText, peer |-> NoHost]
      OBVIOUS
    <3>2. m \in Milestone /\ m.kind = "SECURITY_ALERT" /\ m.time = es[i].time
      BY <2>1, <3>1 DEF Event, Milestone
    <3>3. ss[i] = <<m>>
      BY <1>3, <2>4, <3>1 DEF Warn
    <3>4. OfMilestone[m] = <<"SECURITY_ALERT", es[i].time>>
      BY <3>2 DEF OfMilestone
    <3>5. Seen(<<m>>, OfMilestone) = <<OfMilestone[m]>>
      BY DEF Seen
    <3> QED
      BY <2>3, <2>4, <3>3, <3>4, <3>5
  <2>5. CASE es[i].host # h
    <3>1. ss[i] = <<>>
      BY <1>3, <2>5 DEF Warn
    <3>2. Seen(<<>>, OfMilestone) = <<>>
      BY DEF Seen
    <3> QED
      BY <2>3, <2>5, <3>1, <3>2
  <2> QED
    BY <2>4, <2>5
<1>8. SeenEach(ss, tt, OfMilestone)
  BY <1>3, <1>5, <1>7 DEF SeenEach
<1>9. Seen(FlattenSeq(ss), OfMilestone) = FlattenSeq(tt)
  BY <1>3, <1>5, <1>6, <1>8, FlattenSeen
<1> QED
  BY <1>1, <1>3, <1>9 DEF Warned

LEMMA DidType ==
  ASSUME NEW p \in Packets, NEW h
  PROVE  Did(p, h) \in Seq(Mark)
<1>1. PICK ms : ms = PacketEvents(p)
  OBVIOUS
<1>2. ms \in Seq(Milestone)
  BY <1>1, PacketMilestones
<1>3. Seen(ms, OfMilestone) \in Seq(Mark)
  BY <1>2, SeenMilestones
<1> QED
  BY <1>1, <1>3, EmptySeq DEF Did

LEMMA PartsType ==
  ASSUME NEW s \in Seq(Packets), NEW all \in Seq(Alert), NEW h
  PROVE  /\ Parts(s, all, h) \in Seq(Seq(Mark)) /\ Len(Parts(s, all, h)) = Len(s)
         /\ \A n \in 1..Len(s) : /\ Part(s, all, h, n) \in Seq(Mark)
                                 /\ Parts(s, all, h)[n] = Part(s, all, h, n)
<1>1. Len(s) \in Nat /\ DOMAIN s = 1..Len(s)
  BY LenProperties
<1>2. ASSUME NEW n \in 1..Len(s) PROVE Part(s, all, h, n) \in Seq(Mark)
  <2>1. PICK a, b : a = Did(s[n], h) /\ b = Warned(all, h, n)
    OBVIOUS
  <2>2. s[n] \in Packets
    BY <1>1, ElementOfSeq
  <2>3. a \in Seq(Mark) /\ b \in Seq(Mark)
    BY <2>1, <2>2, DidType, WarnedType
  <2>4. a \o b \in Seq(Mark)
    BY <2>3, ConcatProperties
  <2> QED
    BY <2>1, <2>4 DEF Part
<1>3. Parts(s, all, h) \in [1..Len(s) -> Seq(Mark)]
  BY <1>1, <1>2 DEF Parts
<1>4. \A n \in 1..Len(s) : Parts(s, all, h)[n] = Part(s, all, h, n)
  BY <1>1 DEF Parts
<1> QED
  BY <1>1, <1>2, <1>3, <1>4, SeqOfFunction

\* More in the last part is more at the end.
MoreInLast(ss, tt, y) ==
  /\ ss # <<>> /\ Len(tt) = Len(ss)
  /\ \A k \in 1..(Len(ss) - 1) : tt[k] = ss[k]
  /\ tt[Len(ss)] = ss[Len(ss)] \o y

LEMMA FlattenLast ==
  ASSUME NEW ss \in Seq(Seq(Mark)), NEW tt \in Seq(Seq(Mark)), NEW y \in Seq(Mark),
         MoreInLast(ss, tt, y)
  PROVE  FlattenSeq(tt) = FlattenSeq(ss) \o y
<1>1. PICK n : n = Len(ss)
  OBVIOUS
<1>0. /\ ss # <<>> /\ Len(tt) = n
      /\ \A k \in 1..(n - 1) : tt[k] = ss[k]
      /\ tt[n] = ss[n] \o y
  BY <1>1 DEF MoreInLast
<1>2. n \in Nat \ {0} /\ n \in 1..n /\ n - 1 \in 0..n
  BY <1>0, <1>1, EmptySeq, LenProperties
<1>3. PICK r \in [0..n -> Seq(Mark)] : Joins(r, tt)
  BY <1>0, JoinsExists
<1>4. PICK q : q = [k \in 0..n |-> IF k = n THEN r[n - 1] \o ss[n] ELSE r[k]]
  OBVIOUS
<1>5. /\ r[0] = <<>> /\ \A k \in 1..n : r[k] = r[k - 1] \o tt[k]
  BY <1>0, <1>3 DEF Joins
<1>6. q[n] = r[n - 1] \o ss[n] /\ q[0] = <<>> /\ \A k \in 0..(n - 1) : q[k] = r[k]
  <2>1. n \in 0..n /\ 0 \in 0..(n - 1) /\ \A k \in 0..(n - 1) : k \in 0..n /\ k # n
    BY <1>2
  <2> QED
    BY <1>4, <1>5, <2>1
<1>7. ASSUME NEW k \in 1..n PROVE q[k] = q[k - 1] \o ss[k]
  <2>1. k - 1 \in 0..(n - 1)
    BY <1>2
  <2>2. CASE k = n
    BY <1>6, <2>1, <2>2
  <2>3. CASE k # n
    <3>1. k \in 1..(n - 1) /\ k \in 0..(n - 1)
      BY <1>2, <2>3
    <3> QED
      BY <1>0, <1>5, <1>6, <2>1, <3>1
  <2> QED
    BY <2>2, <2>3
<1>8. Joins(q, ss)
  BY <1>1, <1>6, <1>7 DEF Joins
<1>9. FlattenSeq(tt) = r[n] /\ FlattenSeq(ss) = q[n]
  BY <1>0, <1>1, <1>3, <1>8, FlattenJoins
<1>10. r[n] = r[n - 1] \o (ss[n] \o y)
  BY <1>0, <1>2, <1>5
<1>11. r[n - 1] \in Seq(Mark) /\ ss[n] \in Seq(Mark)
  BY <1>1, <1>2, ElementOfSeq
<1>12. r[n - 1] \o (ss[n] \o y) = (r[n - 1] \o ss[n]) \o y
  <2>1. Regroups(r[n - 1], ss[n], y)
    BY <1>11, Regroup, Zenon
  <2> QED
    BY <2>1, Zenon DEF Regroups
<1> QED
  BY <1>6, <1>9, <1>10, <1>12

LEMMA ToldType ==
  ASSUME NEW s \in Seq(Packets), NEW all \in Seq(Alert), NEW h
  PROVE  Told(s, all, h) \in Seq(Mark)
<1>1. PICK ss : ss = Parts(s, all, h)
  OBVIOUS
<1>2. ss \in Seq(Seq(Mark))
  BY <1>1, PartsType
<1>3. FlattenSeq(ss) \in Seq(Mark)
  BY <1>2, FlattenType
<1> QED
  BY <1>1, <1>3 DEF Told

\* A timeline that is a window of a story stays one when both go on alike.
LEMMA WindowGrows ==
  ASSUME NEW tl \in Seq(Milestone), NEW new \in Seq(Milestone), NEW told \in Seq(Mark),
         Seen(tl, OfMilestone) = KeepLast(told, StoryCap)
  PROVE  Seen(KeepLast(tl \o new, StoryCap), OfMilestone)
           = KeepLast(told \o Seen(new, OfMilestone), StoryCap)
<1>1. StoryCap \in Nat /\ OfMilestone \in [Milestone -> Mark]
  BY StatsAssumption DEF StatsAssumption, OfMilestone, Milestone, Mark
<1>2. PICK u, a : u = tl \o new /\ a = Seen(new, OfMilestone)
  OBVIOUS
<1>3. u \in Seq(Milestone) /\ a \in Seq(Mark)
  BY <1>2, ConcatProperties, SeenMilestones
<1>4. Seen(KeepLast(u, StoryCap), OfMilestone) = KeepLast(Seen(u, OfMilestone), StoryCap)
  BY <1>1, <1>3, SeenKeepLast
<1>5. Seen(tl \o new, OfMilestone) = Seen(tl, OfMilestone) \o Seen(new, OfMilestone)
  BY <1>1, SeenConcat, ZenonT(60)
<1>6. KeepLast(KeepLast(told, StoryCap) \o a, StoryCap) = KeepLast(told \o a, StoryCap)
  BY <1>1, <1>3, KeepLastConcat
<1> QED
  BY <1>2, <1>4, <1>5, <1>6

\* What alerts raised now add to a part of the story: to that of now what the
\* timeline is given, to no other anything.
AddsToNow(all, es, n, h) ==
  /\ Warned(all \o Dated(es, n), h, n)
       = Warned(all, h, n) \o Seen(AlertEvents(es, h), OfMilestone)
  /\ \A m : m # n => Warned(all \o Dated(es, n), h, m) = Warned(all, h, m)

LEMMA PartGrows ==
  ASSUME NEW all \in Seq(Alert), NEW es \in Seq(Event), NEW n \in Nat, NEW h
  PROVE  AddsToNow(all, es, n, h)
<1>1. PICK more : more = Dated(es, n)
  OBVIOUS
<1>2. /\ more \in Seq(Alert) /\ Len(more) = Len(es)
      /\ \A i \in 1..Len(es) : more[i] = [kind |-> es[i].kind, host |-> es[i].host,
                                          time |-> es[i].time, at |-> n]
  BY <1>1, DatedProperties
<1>3. \A m : Warned(all \o more, h, m) = Warned(all, h, m) \o Warned(more, h, m)
  BY <1>2, WarnedConcat
<1>4. Warned(more, h, n) = Seen(AlertEvents(es, h), OfMilestone)
  BY <1>1, AlertsTold
<1>5. ASSUME NEW m, m # n PROVE Warned(all \o more, h, m) = Warned(all, h, m)
  <2>1. ASSUME NEW i \in 1..Len(more) PROVE more[i].at # m
    <3>1. more[i] = [kind |-> es[i].kind, host |-> es[i].host, time |-> es[i].time, at |-> n]
      BY <1>2
    <3> QED
      BY <1>5, <3>1
  <2>2. Warned(more, h, m) = <<>>
    BY <1>2, <2>1, NotWarned
  <2>3. PICK a : a = Warned(all, h, m)
    OBVIOUS
  <2>4. a \in Seq(Mark)
    BY <2>3, WarnedType
  <2> QED
    BY <1>3, <2>2, <2>3, <2>4, ConcatEmptySeq
<1> QED
  BY <1>1, <1>3, <1>4, <1>5 DEF AddsToNow

\* A packet adds to the story of each host what its timeline is given.
LEMMA PacketTold ==
  ASSUME NEW s \in Seq(Packets), NEW p \in Packets, NEW all \in Seq(Alert),
         Known(all, Len(s)), NEW es \in Seq(Event), NEW h
  PROVE  Told(Append(s, p), all \o Dated(es, Len(s) + 1), h)
           = Told(s, all, h) \o Seen(Happened(p, es, h), OfMilestone)
<1>1. PICK n, t, new : /\ n = Len(s) + 1 /\ t = Append(s, p)
                       /\ new = all \o Dated(es, n) /\ n \in Nat
  <2>1. Len(s) + 1 \in Nat
    BY LenProperties
  <2> QED
    BY <2>1
<1>2. /\ t \in Seq(Packets) /\ Len(t) = n /\ t[n] = p /\ \A m \in 1..Len(s) : t[m] = s[m]
      /\ Len(s) \in Nat
  BY <1>1, LenProperties, AppendProperties
<1>3. new \in Seq(Alert)
  BY <1>1, DatedProperties, ConcatProperties
<1>4. PICK ss, tt, x : ss = Parts(s, all, h) /\ tt = Parts(t, new, h) /\ x = Part(t, new, h, n)
  OBVIOUS
<1>5. /\ ss \in Seq(Seq(Mark)) /\ Len(ss) = Len(s)
      /\ \A m \in 1..Len(s) : ss[m] = Part(s, all, h, m)
  BY <1>4, PartsType
<1>6. /\ tt \in Seq(Seq(Mark)) /\ Len(tt) = n
      /\ \A m \in 1..n : tt[m] = Part(t, new, h, m) /\ tt[m] \in Seq(Mark)
  BY <1>2, <1>3, <1>4, PartsType
<1>7. \A m \in 1..Len(s) : tt[m] = ss[m]
  <2>1. ASSUME NEW m \in 1..Len(s) PROVE tt[m] = ss[m]
    <3>1. m # n /\ m \in 1..n
      BY <1>1, <1>2
    <3>2. Warned(new, h, m) = Warned(all, h, m)
      BY <1>1, <3>1, PartGrows DEF AddsToNow
    <3> QED
      BY <1>2, <1>5, <1>6, <3>1, <3>2 DEF Part
  <2> QED
    BY <2>1
<1>8. x = Seen(Happened(p, es, h), OfMilestone)
  <2>1. PICK ms, ws : /\ ms = (IF p.src = h THEN PacketEvents(p) ELSE <<>>)
                      /\ ws = AlertEvents(es, h)
    OBVIOUS
  <2>2. ms \in Seq(Milestone) /\ ws \in Seq(Milestone)
    BY <2>1, PacketMilestones, AlertMilestones, EmptySeq
  <2>3. OfMilestone \in [Milestone -> Mark]
    BY DEF OfMilestone, Milestone, Mark
  <2>4. Seen(ms \o ws, OfMilestone) = Seen(ms, OfMilestone) \o Seen(ws, OfMilestone)
    BY <2>2, <2>3, SeenConcat, ZenonT(60)
  <2>5. Seen(ms, OfMilestone) = Did(p, h)
    <3>1. Seen(<<>>, OfMilestone) = <<>>
      BY DEF Seen
    <3> QED
      BY <2>1, <3>1 DEF Did
  <2>6. Warned(all, h, n) = <<>>
    <3>1. \A i \in 1..Len(all) : all[i].at # n
      <4>1. \A i \in 1..Len(all) : all[i] \in Alert /\ all[i].at <= Len(s)
        BY LenProperties, ElementOfSeq DEF Known
      <4> QED
        BY <1>1, <1>2, <4>1 DEF Alert
    <3> QED
      BY <3>1, NotWarned
  <2>7. Warned(new, h, n) = Seen(ws, OfMilestone)
    <3>1. Warned(new, h, n) = <<>> \o Seen(ws, OfMilestone)
      <4>1. Warned(all \o Dated(es, n), h, n)
              = Warned(all, h, n) \o Seen(AlertEvents(es, h), OfMilestone)
        BY <1>1, PartGrows DEF AddsToNow
      <4> QED
        BY <1>1, <2>1, <2>6, <4>1
    <3>2. Seen(ws, OfMilestone) \in Seq(Mark)
      BY <2>2, SeenMilestones
    <3> QED
      BY <3>1, <3>2, ConcatEmptySeq
  <2> QED
    BY <1>2, <1>4, <2>1, <2>4, <2>5, <2>7 DEF Part, Happened
<1>9. x \in Seq(Mark) /\ tt[n] = x
  <2>1. n \in 1..n
    BY <1>1, <1>2
  <2> QED
    BY <1>4, <1>6, <2>1
<1>10. tt = Append(ss, x)
  <2>1. PICK u : u = Append(ss, x)
    OBVIOUS
  <2>2. /\ u \in Seq(Seq(Mark)) /\ Len(u) = n /\ u[n] = x
        /\ \A m \in 1..Len(s) : u[m] = ss[m]
    BY <1>1, <1>5, <1>9, <2>1, AppendProperties
  <2>3. \A m \in 1..Len(tt) : tt[m] = u[m]
    <3>1. \A m \in 1..n : m = n \/ m \in 1..Len(s)
      BY <1>1, <1>2
    <3> QED
      BY <1>6, <1>7, <1>9, <2>2, <3>1
  <2>4. tt = u
    BY <1>6, <2>2, <2>3, SeqEqual
  <2> QED
    BY <2>1, <2>4
<1>11. FlattenSeq(tt) = FlattenSeq(ss) \o x
  BY <1>5, <1>9, <1>10, FlattenAppend
<1> QED
  BY <1>1, <1>4, <1>8, <1>11 DEF Told

\* So do the alerts of a tick, to the part of the last packet.
LEMMA TickTold ==
  ASSUME NEW s \in Seq(Packets), s # <<>>, NEW all \in Seq(Alert),
         NEW es \in Seq(Event), NEW h
  PROVE  Told(s, all \o Dated(es, Len(s)), h)
           = Told(s, all, h) \o Seen(AlertEvents(es, h), OfMilestone)
<1>1. PICK n, new, y : /\ n = Len(s) /\ new = all \o Dated(es, n) /\ n \in Nat
                       /\ y = Seen(AlertEvents(es, h), OfMilestone)
  <2>1. Len(s) \in Nat
    BY LenProperties
  <2> QED
    BY <2>1
<1>2. n # 0 /\ n \in 1..n /\ s[n] \in Packets /\ new \in Seq(Alert)
  <2>1. n # 0
    BY <1>1, EmptySeq
  <2> QED
    BY <1>1, <2>1, ElementOfSeq, DatedProperties, ConcatProperties
<1>3. PICK ss, tt : ss = Parts(s, all, h) /\ tt = Parts(s, new, h)
  OBVIOUS
<1>4. /\ ss \in Seq(Seq(Mark)) /\ Len(ss) = n
      /\ tt \in Seq(Seq(Mark)) /\ Len(tt) = n
      /\ \A m \in 1..n : ss[m] = Part(s, all, h, m) /\ tt[m] = Part(s, new, h, m)
  <2>1. /\ ss \in Seq(Seq(Mark)) /\ Len(ss) = Len(s)
        /\ \A m \in 1..Len(s) : ss[m] = Part(s, all, h, m)
    BY <1>3, PartsType
  <2>2. /\ tt \in Seq(Seq(Mark)) /\ Len(tt) = Len(s)
        /\ \A m \in 1..Len(s) : tt[m] = Part(s, new, h, m)
    BY <1>2, <1>3, PartsType
  <2> QED
    BY <1>1, <2>1, <2>2
<1>5. y \in Seq(Mark)
  <2>1. PICK ws : ws = AlertEvents(es, h)
    OBVIOUS
  <2>2. ws \in Seq(Milestone)
    BY <2>1, AlertMilestones
  <2> QED
    BY <1>1, <2>1, <2>2, SeenMilestones
<1>6. \A m \in 1..(n - 1) : tt[m] = ss[m]
  <2>1. ASSUME NEW m \in 1..(n - 1) PROVE tt[m] = ss[m]
    <3>1. m # n /\ m \in 1..n
      BY <1>1
    <3>2. Warned(new, h, m) = Warned(all, h, m)
      BY <1>1, <3>1, PartGrows DEF AddsToNow
    <3> QED
      BY <1>4, <3>1, <3>2 DEF Part
  <2> QED
    BY <2>1
<1>7. tt[n] = ss[n] \o y
  <2>1. PICK a, b : a = Did(s[n], h) /\ b = Warned(all, h, n)
    OBVIOUS
  <2>2. a \in Seq(Mark) /\ b \in Seq(Mark)
    BY <1>2, <2>1, DidType, WarnedType
  <2>3. Warned(new, h, n) = b \o y
    <3>1. Warned(all \o Dated(es, n), h, n)
            = Warned(all, h, n) \o Seen(AlertEvents(es, h), OfMilestone)
      BY <1>1, PartGrows DEF AddsToNow
    <3> QED
      BY <1>1, <2>1, <3>1
  <2>4. Regroups(a, b, y)
    BY <1>5, <2>2, Regroup
  <2>5. tt[n] = a \o (b \o y) /\ ss[n] = a \o b
    BY <1>2, <1>4, <2>1, <2>3 DEF Part
  <2> QED
    BY <2>4, <2>5, Zenon DEF Regroups
<1>8. MoreInLast(ss, tt, y)
  <2>1. ss # <<>>
    BY <1>2, <1>4, EmptySeq
  <2> QED
    BY <1>4, <1>6, <1>7, <2>1 DEF MoreInLast
<1>9. FlattenSeq(tt) = FlattenSeq(ss) \o y
  BY <1>4, <1>5, <1>8, FlattenLast
<1> QED
  BY <1>1, <1>3, <1>9 DEF Told

\* Only a host that has talked deviates.
LEMMA TalkerHasTraffic ==
  ASSUME TypeOK, Counted, NEW h \in Hosts, talkers[h].sent + talkers[h].recv > 0
  PROVE  log # <<>>
<1> SUFFICES ASSUME log = <<>> PROVE FALSE
  OBVIOUS
<1>1. <<>> \in Seq(Packets)
  BY EmptySeq
<1>2. Current.talkers = Tallies(log).talkers
  BY <1>1, DescribesByTallies DEF Counted
<1>3. /\ talkers[h].sent = Cardinality(Where(<<>>, From(h)))
      /\ talkers[h].recv = Cardinality(Where(<<>>, To(h)))
  BY <1>2 DEF Current, Tallies
<1>4. talkers[h].sent = 0 /\ talkers[h].recv = 0
  BY <1>3, RecountEmpty
<1> QED
  BY <1>4
LEMMA StoryStep ==
  ASSUME TypeOK, Counted, AlertsHold, StoryTold, [Next]_vars
  PROVE  StoryTold'
<1>1. /\ log \in Seq(Packets) /\ Len(log) \in Nat /\ total = Len(log) /\ alerts \in Seq(Alert)
      /\ timelines \in [Hosts -> Seq(Milestone)] /\ Known(alerts, Len(log))
  BY LenProperties DEF TypeOK, TrafficOK, AlertsOK, StoryOK, AlertsHold
<1>2. \A h \in Hosts : Told(log, alerts, h) \in Seq(Mark)
  BY <1>1, ToldType
<1>3. CASE Packet
  <2>1. PICK p \in Packets : AddPacket(p)
    BY <1>3, PacketCounted
  <2>2. PICK es : es = Events(p, FlowBytes(p))
    OBVIOUS
  <2>3. /\ es \in Seq(Event)
        /\ \A h \in Hosts :
             timelines'[h] = KeepLast(timelines[h] \o Happened(p, es, h), StoryCap)
    BY <2>1, <2>2, PacketTimelines
  <2>4. log' = Append(log, p) /\ alerts' = alerts \o Dated(es, Len(log) + 1)
    BY <1>1, <2>1, <2>2, PacketEffect
  <2>5. ASSUME NEW h \in Hosts
        PROVE  Seen(timelines'[h], OfMilestone) = KeepLast(Told(log', alerts', h), StoryCap)
    <3>1. PICK new : new = Happened(p, es, h)
      OBVIOUS
    <3>2. new \in Seq(Milestone) /\ timelines[h] \in Seq(Milestone)
      BY <1>1, <2>3, <3>1, HappenedType
    <3>3. Told(log', alerts', h) = Told(log, alerts, h) \o Seen(new, OfMilestone)
      BY <1>1, <2>3, <2>4, <3>1, PacketTold
    <3>4. Seen(timelines[h], OfMilestone) = KeepLast(Told(log, alerts, h), StoryCap)
      BY DEF StoryTold
    <3>5. Seen(KeepLast(timelines[h] \o new, StoryCap), OfMilestone)
            = KeepLast(Told(log, alerts, h) \o Seen(new, OfMilestone), StoryCap)
      BY <1>2, <3>2, <3>4, WindowGrows
    <3> QED
      BY <2>3, <3>1, <3>3, <3>5
  <2> QED
    BY <2>5 DEF StoryTold
<1>4. CASE Publish
  BY <1>4 DEF Publish, StoryTold
<1>5. CASE Tick
  <2>1. PICK es \in Seq(Event) :
          /\ \A i \in 1..Len(es) : talkers[es[i].host].sent + talkers[es[i].host].recv > 0
          /\ alerts' = alerts \o Dated(es, total)
          /\ RecordAlerts(es)
    BY <1>5, TickEffect
  <2>2. \A h \in Hosts :
          timelines'[h] = KeepLast(timelines[h] \o AlertEvents(es, h), StoryCap)
    BY <2>1, TickTimelines
  <2>3. log' = log
    BY <1>5 DEF Tick
  <2>4. ASSUME NEW h \in Hosts
        PROVE  Seen(timelines'[h], OfMilestone) = KeepLast(Told(log', alerts', h), StoryCap)
    <3>1. PICK new : new = AlertEvents(es, h)
      OBVIOUS
    <3>2. new \in Seq(Milestone) /\ timelines[h] \in Seq(Milestone)
      BY <1>1, <3>1, AlertMilestones
    <3>3. Told(log', alerts', h) = Told(log, alerts, h) \o Seen(new, OfMilestone)
      <4>1. CASE log # <<>>
        BY <1>1, <2>1, <2>3, <3>1, <4>1, TickTold
      <4>2. CASE log = <<>>
        <5>1. es = <<>>
          <6>1. ASSUME NEW i \in 1..Len(es) PROVE FALSE
            <7>0. es[i] \in Event
              BY LenProperties, ElementOfSeq
            <7>1. es[i].host \in Hosts
              BY <7>0 DEF Event
            <7> QED
              BY <2>1, <4>2, <7>1, TalkerHasTraffic
          <6>2. PICK n \in Nat : n = Len(es)
            BY LenProperties
          <6>3. n = 0
            BY <6>1, <6>2
          <6> QED
            BY <6>2, <6>3, EmptySeq
        <5>2. Told(log', alerts', h) = Told(log, alerts, h)
          BY <2>3, <4>2, EmptySeq DEF Told, Parts
        <5>3. new = <<>> /\ Seen(<<>>, OfMilestone) = <<>>
          <6>1. PICK ss : ss = Warns(es, h)
            OBVIOUS
          <6>2. ss \in Seq(Seq(Milestone)) /\ Len(ss) = 0 /\ new = FlattenSeq(ss)
            BY <3>1, <5>1, <6>1, EmptySeq, AlertMilestones
          <6>3. \A k \in 1..Len(ss) : ss[k] = <<>>
            BY <6>2
          <6>4. FlattenSeq(ss) = <<>>
            BY <6>2, <6>3, FlattenNone
          <6> QED
            BY <6>2, <6>4 DEF Seen
        <5> QED
          BY <1>2, <5>2, <5>3, ConcatEmptySeq
      <4> QED
        BY <4>1, <4>2
    <3>4. Seen(timelines[h], OfMilestone) = KeepLast(Told(log, alerts, h), StoryCap)
      BY DEF StoryTold
    <3>5. Seen(KeepLast(timelines[h] \o new, StoryCap), OfMilestone)
            = KeepLast(Told(log, alerts, h) \o Seen(new, OfMilestone), StoryCap)
      BY <1>2, <3>2, <3>4, WindowGrows
    <3> QED
      BY <2>2, <3>1, <3>3, <3>5
  <2> QED
    BY <2>4 DEF StoryTold
<1>6. CASE UNCHANGED vars
  BY <1>6 DEF vars, StoryTold
<1> QED
  BY <1>3, <1>4, <1>5, <1>6 DEF Next

(***************************************************************************)
(* Whatever the traffic, the timeline of a host is the newest StoryCap of  *)
(* what it did and of the alerts against it, in the order in which they    *)
(* happened, although packets and alerts reach it by different calls.      *)
(***************************************************************************)
THEOREM StoriesAreWindows == Spec => []StoryIsWindow
<1>1. Init => StoryTold
  <2> SUFFICES ASSUME Init, NEW h \in Hosts
               PROVE  Seen(timelines[h], OfMilestone) = KeepLast(Told(log, alerts, h), StoryCap)
    BY DEF StoryTold
  <2>1. /\ log = <<>> /\ alerts = <<>> /\ timelines[h] = <<>>
        /\ log \in Seq(Packets) /\ alerts \in Seq(Alert) /\ Len(log) = 0
    BY EmptySeq DEF Init
  <2>2. PICK ss : ss = Parts(log, alerts, h)
    OBVIOUS
  <2>3. ss \in Seq(Seq(Mark)) /\ Len(ss) = 0
    BY <2>1, <2>2, PartsType, ZenonT(60)
  <2>4. PICK r \in [0..Len(ss) -> Seq(Mark)] : Joins(r, ss)
    BY <2>3, JoinsExists
  <2>5. FlattenSeq(ss) = r[Len(ss)] /\ r[0] = <<>>
    BY <2>3, <2>4, FlattenJoins DEF Joins
  <2>6. Told(log, alerts, h) = <<>>
    BY <2>2, <2>3, <2>5 DEF Told
  <2>7. KeepLast(<<>>, StoryCap) = <<>>
    BY EmptySeq, StatsAssumption DEF KeepLast, StatsAssumption
  <2>8. Seen(<<>>, OfMilestone) = <<>>
    BY DEF Seen
  <2> QED
    BY <2>1, <2>6, <2>7, <2>8
<1>2. TypeOK /\ StoryTold => StoryIsWindow
  <2> SUFFICES ASSUME TypeOK, StoryTold, NEW h \in Hosts
               PROVE  [i \in DOMAIN timelines[h] |-> <<timelines[h][i].kind, timelines[h][i].time>>]
                        = KeepLast(Milestones(h), StoryCap)
    BY DEF StoryIsWindow
  <2>1. \A ms \in Seq(Milestone) :
          [i \in DOMAIN ms |-> <<ms[i].kind, ms[i].time>>] = Seen(ms, OfMilestone)
    <3> SUFFICES ASSUME NEW ms \in Seq(Milestone)
                 PROVE  [i \in DOMAIN ms |-> <<ms[i].kind, ms[i].time>>] = Seen(ms, OfMilestone)
      OBVIOUS
    <3>1. \A i \in DOMAIN ms : ms[i] \in Milestone
      BY LenProperties, ElementOfSeq
    <3>2. \A i \in DOMAIN ms : OfMilestone[ms[i]] = <<ms[i].kind, ms[i].time>>
      BY <3>1 DEF OfMilestone
    <3> QED
      BY <3>2 DEF Seen
  <2>2. \A n \in DOMAIN log : log[n] \in Packets
    BY LenProperties, ElementOfSeq DEF TypeOK, TrafficOK
  <2>3. DOMAIN alerts = 1..Len(alerts)
    BY LenProperties DEF TypeOK, AlertsOK
  <2> DEFINE Tell(es) == [i \in DOMAIN es |-> <<es[i].kind, es[i].time>>]
             Warn1(n) == FlattenSeq([i \in DOMAIN alerts |->
                                       IF alerts[i].host = h /\ alerts[i].at = n
                                       THEN <<<<"SECURITY_ALERT", alerts[i].time>>>> ELSE <<>>])
             Of(n) == (IF log[n].src = h THEN Tell(PacketEvents(log[n])) ELSE <<>>)
                        \o Warn1(n)
  <2>4. Milestones(h) = FlattenSeq([n \in DOMAIN log |-> Of(n)])
    BY DEF Milestones
  <2>5. \A n \in DOMAIN log : Of(n) = Part(log, alerts, h, n)
    <3> SUFFICES ASSUME NEW n \in DOMAIN log PROVE Of(n) = Part(log, alerts, h, n)
      OBVIOUS
    <3>1. Tell(PacketEvents(log[n])) = Seen(PacketEvents(log[n]), OfMilestone)
      BY <2>1, <2>2, PacketMilestones
    <3>2. Warn1(n) = Warned(alerts, h, n)
      <4>1. \A i \in DOMAIN alerts : alerts[i] \in Alert
        BY <2>3, ElementOfSeq DEF TypeOK, AlertsOK
      <4>2. \A i \in DOMAIN alerts :
              WarningOf(h, n)[alerts[i]] = IF alerts[i].host = h /\ alerts[i].at = n
                                           THEN <<<<"SECURITY_ALERT", alerts[i].time>>>> ELSE <<>>
        BY <4>1 DEF WarningOf, Warning
      <4> QED
        BY <4>2 DEF Warned, Seen
    <3> HIDE DEF Tell, Warn1
    <3> QED
      BY <3>1, <3>2 DEF Part, Did
  <2> HIDE DEF Of
  <2>6. Milestones(h) = Told(log, alerts, h)
    BY <2>4, <2>5 DEF Told, Parts
  <2>7. [i \in DOMAIN timelines[h] |-> <<timelines[h][i].kind, timelines[h][i].time>>]
          = Seen(timelines[h], OfMilestone)
    BY <2>1 DEF TypeOK, StoryOK
  <2> QED
    BY <2>6, <2>7 DEF StoryTold
<1>3. TypeOK /\ Counted /\ AlertsHold /\ StoryTold /\ [Next]_vars => StoryTold'
  BY StoryStep
<1> QED
  BY <1>1, <1>2, <1>3, AlwaysCounted, AlertsAlwaysHold, PTL DEF Spec
-----------------------------------------------------------------------------
(* The rings.  The statistics keep their recent packets, the throughput    *)
(* and the anomalies in three of them, which the model writes as windows   *)
(* (KeepLast); this is why it may.                                         *)

\* The only modulo the ring ever takes is of a slot's successor.
LEMMA NextSlot ==
  ASSUME NEW n \in Nat, NEW h \in 0..(n - 1)
  PROVE  (h + 1) % n = IF h + 1 = n THEN 0 ELSE h + 1
OBVIOUS

LEMMA InitRing == RInit => RingOK
BY RingAssumption DEF RingAssumption, RInit, RingOK, Slot

LEMMA NextRing == RingOK /\ [RNext]_slots => RingOK'
<1> SUFFICES ASSUME RingOK, [RNext]_slots PROVE RingOK'
  OBVIOUS
<1>1. ASSUME NEW item \in Item, Push(item) PROVE RingOK'
  <2>1. head \in Slot /\ Capacity \in Nat \ {0}
    BY <1>1, RingAssumption DEF Push, RingOK, RingAssumption
  <2>2. head' = IF head + 1 = Capacity THEN 0 ELSE head + 1
    BY <1>1, <2>1, NextSlot DEF Push, Slot
  <2> QED
    BY <1>1, <2>1, <2>2 DEF Push, RingOK, Slot
<1>2. CASE UNCHANGED slots
  BY <1>2 DEF slots, RingOK
<1> QED
  BY <1>1, <1>2 DEF RNext

(***************************************************************************)
(* For every capacity the head stays in the ring and an unset slot is      *)
(* never among those in use.                                               *)
(***************************************************************************)
THEOREM RingTypeCorrect == RSpec => []RingOK
BY InitRing, NextRing, PTL DEF RSpec

LEMMA SliceIsSeq == RingOK => Slice \in Seq(Item) /\ Len(Slice) = size
<1> SUFFICES ASSUME RingOK PROVE Slice \in Seq(Item) /\ Len(Slice) = size
  OBVIOUS
<1>1. size \in Nat /\ Capacity \in Nat
  BY RingAssumption DEF RingOK, RingAssumption
<1>2. Slice \in [1..size -> Item]
  <2>1. CASE size < Capacity
    BY <1>1, <2>1 DEF RingOK, Slot, Slice
  <2>2. CASE ~(size < Capacity)
    <3>1. size = Capacity
      BY <1>1, <2>2 DEF RingOK
    <3>2. ASSUME NEW i \in 1..size
          PROVE  (IF i <= Capacity - head THEN data[head + i - 1]
                  ELSE data[i - 1 - (Capacity - head)]) \in Item
      BY <1>1, <3>1 DEF RingOK, Slot
    <3> QED
      BY <2>2, <3>2 DEF Slice
  <2> QED
    BY <2>1, <2>2
<1>3. Slice \in Seq(Item)
  BY <1>1, <1>2, SeqDef
<1>4. 1..Len(Slice) = 1..size /\ Len(Slice) \in Nat
  BY <1>2, <1>3, LenProperties
<1>5. ~(Len(Slice) < size) /\ ~(size < Len(Slice))
  <2>1. size < Len(Slice) => Len(Slice) \in 1..Len(Slice) /\ Len(Slice) \notin 1..size
    BY <1>1, <1>4
  <2>2. Len(Slice) < size => size \in 1..size /\ size \notin 1..Len(Slice)
    BY <1>1, <1>4
  <2> QED
    BY <1>4, <2>1, <2>2
<1>6. Len(Slice) \in Nat
  BY <1>4
<1>7. Len(Slice) = size
  BY <1>1, <1>5, <1>6
<1> QED
  BY <1>3, <1>7

LEMMA PushIsWindowPush ==
  ASSUME RingOK, NEW item \in Item, Push(item)
  PROVE  W!WPush(item)
<1>1. /\ head \in Slot /\ Capacity \in Nat \ {0}
      /\ head' = IF head + 1 = Capacity THEN 0 ELSE head + 1
  BY RingAssumption, NextSlot DEF Push, RingOK, RingAssumption, Slot
<1>2. RingOK'
  BY NextRing DEF RNext
<1>3. /\ Slice \in Seq(Item) /\ Len(Slice) = size
      /\ Slice' \in Seq(Item) /\ Len(Slice') = size'
  <2>1. (RingOK => Slice \in Seq(Item) /\ Len(Slice) = size)'
    BY SliceIsSeq, PTL
  <2> QED
    BY <1>2, <2>1, SliceIsSeq
<1>4. CASE size < Capacity
  <2>1. Len(Append(Slice, item)) = size + 1 /\ Append(Slice, item) \in Seq(Item)
    BY <1>3, AppendProperties
  <2>2. \A i \in 1..(size + 1) : Slice'[i] = Append(Slice, item)[i]
    BY <1>1, <1>3, <1>4 DEF Push, Slice, RingOK, Slot
  <2>3. Slice' = Append(Slice, item)
    BY <1>3, <1>4, <2>1, <2>2, SeqEqual DEF Push
  <2> QED
    BY <1>3, <1>4, <2>3 DEF W!WPush
<1>5. CASE ~(size < Capacity)
  <2>1. size = Capacity /\ size' = Capacity /\ Slice # <<>>
    BY <1>1, <1>3, <1>5 DEF Push, RingOK
  <2>2. /\ Tail(Slice) \in Seq(Item) /\ Len(Tail(Slice)) = Capacity - 1
        /\ \A i \in 1..(Capacity - 1) : Tail(Slice)[i] = Slice[i + 1]
    BY <1>3, <2>1, HeadTailProperties
  <2>3. /\ Append(Tail(Slice), item) \in Seq(Item)
        /\ Len(Append(Tail(Slice), item)) = Capacity
        /\ \A i \in 1..(Capacity - 1) : Append(Tail(Slice), item)[i] = Slice[i + 1]
        /\ Append(Tail(Slice), item)[Capacity] = item
    BY <1>1, <2>2, AppendProperties
  <2>4. ASSUME NEW i \in 1..Capacity PROVE Slice'[i] = Append(Tail(Slice), item)[i]
    <3>1. /\ Slice = [k \in 1..Capacity |-> IF k <= Capacity - head
                        THEN data[head + k - 1] ELSE data[k - 1 - (Capacity - head)]]
          /\ Slice' = [k \in 1..Capacity |-> IF k <= Capacity - head'
                        THEN data'[head' + k - 1] ELSE data'[k - 1 - (Capacity - head')]]
      BY <1>5, <2>1 DEF Slice
    <3>2. /\ data' = [data EXCEPT ![head] = item] /\ DOMAIN data = 0..(Capacity - 1)
          /\ head \in 0..(Capacity - 1)
      BY <1>1 DEF Push, RingOK, Slot
    <3>3. Slice'[i] = IF i <= Capacity - head' THEN data'[head' + i - 1]
                      ELSE data'[i - 1 - (Capacity - head')]
      BY <3>1
    <3>4. CASE i = Capacity
      <4>1. Slice'[i] = data'[head]
        BY <1>1, <3>2, <3>3, <3>4
      <4> QED
        BY <2>3, <3>2, <3>4, <4>1
    <3>5. CASE i \in 1..(Capacity - 1)
      <4>1. Slice[i + 1] = IF i + 1 <= Capacity - head THEN data[head + i]
                           ELSE data[i - (Capacity - head)]
        BY <1>1, <3>1, <3>2, <3>5
      <4>2. CASE head + 1 = Capacity
        <5>1. Slice'[i] = data'[i - 1] /\ Slice[i + 1] = data[i - 1]
          BY <1>1, <3>2, <3>3, <3>5, <4>1, <4>2
        <5> QED
          BY <2>3, <3>2, <3>5, <4>2, <5>1
      <4>3. CASE head + 1 # Capacity
        <5>1. Slice'[i] = IF i + 1 <= Capacity - head THEN data'[head + i]
                          ELSE data'[i - (Capacity - head)]
          BY <1>1, <3>2, <3>3, <3>5, <4>3
        <5> QED
          BY <2>3, <3>2, <3>5, <4>1, <4>3, <5>1
      <4> QED
        BY <4>2, <4>3
    <3>6. i = Capacity \/ i \in 1..(Capacity - 1)
      BY <1>1
    <3> QED
      BY <3>4, <3>5, <3>6
  <2>5. Slice' = Append(Tail(Slice), item)
    BY <1>3, <2>1, <2>3, <2>4, SeqEqual
  <2> QED
    BY <1>1, <1>3, <2>1, <2>5 DEF W!WPush
<1> QED
  BY <1>4, <1>5

(***************************************************************************)
(* What the readers of a snapshot see of a ring is the window of the last  *)
(* items pushed, oldest first.                                             *)
(***************************************************************************)
THEOREM RingImplementsWindow == RSpec => ImplementsWindow
<1>1. RInit => W!WInit
  <2>1. ASSUME RInit PROVE Slice = <<>>
    BY <2>1, InitRing, SliceIsSeq, EmptySeq DEF RInit
  <2> QED
    BY <2>1 DEF W!WInit
<1>2. RingOK /\ [RNext]_slots => [\E item \in Item : W!WPush(item)]_Slice
  BY PushIsWindowPush DEF RNext, slots, Slice
<1> QED
  BY <1>1, <1>2, RingTypeCorrect, PTL DEF RSpec, ImplementsWindow, W!WSpec

(***************************************************************************)
(* A ring that shows the last items of s shows those of s and one more     *)
(* item after a push of it, as Stats writes its rings.                     *)
(***************************************************************************)
THEOREM RingsAreKeepLast ==
  ASSUME RingOK, NEW s \in Seq(Item), NEW item \in Item,
         Slice = KeepLast(s, Capacity), Push(item)
  PROVE  Slice' = KeepLast(Append(s, item), Capacity)
<1>1. PICK w, t : w = KeepLast(s, Capacity) /\ t = Append(s, item)
  OBVIOUS
<1>2. Capacity \in Nat /\ Capacity # 0
  BY RingAssumption DEF RingAssumption, Push
<1>3. /\ Len(s) \in Nat
      /\ t \in Seq(Item) /\ Len(t) = Len(s) + 1 /\ t[Len(s) + 1] = item
      /\ \A i \in 1..Len(s) : t[i] = s[i]
  BY <1>1, AppendProperties, LenProperties
<1>4. /\ w \in Seq(Item) /\ Len(w) = IF Len(s) <= Capacity THEN Len(s) ELSE Capacity
      /\ \A i \in 1..Len(w) : w[i] = s[Len(s) - Len(w) + i]
  BY <1>1, <1>2, KeepLastProperties
<1>5. PICK k : k = KeepLast(t, Capacity)
  OBVIOUS
<1>6. /\ k \in Seq(Item) /\ Len(k) = IF Len(t) <= Capacity THEN Len(t) ELSE Capacity
      /\ \A i \in 1..Len(k) : k[i] = t[Len(t) - Len(k) + i]
  <2>1. t \in Seq(Item)
    BY <1>3
  <2>2. /\ KeepLast(t, Capacity) \in Seq(Item)
        /\ Len(KeepLast(t, Capacity)) = IF Len(t) <= Capacity THEN Len(t) ELSE Capacity
        /\ \A i \in 1..Len(KeepLast(t, Capacity)) :
             KeepLast(t, Capacity)[i] = t[Len(t) - Len(KeepLast(t, Capacity)) + i]
    BY <1>2, <2>1, KeepLastProperties
  <2> QED
    BY <1>5, <2>2
<1>7. Slice' = IF Len(w) < Capacity THEN Append(w, item) ELSE Append(Tail(w), item)
  BY <1>1, <1>2, PushIsWindowPush DEF W!WPush
<1>8. CASE Len(w) < Capacity
  <2>1. Len(w) = Len(s) /\ Len(k) = Len(s) + 1
    BY <1>2, <1>3, <1>4, <1>6, <1>8
  <2>2. PICK v : v = Append(w, item)
    OBVIOUS
  <2>3. /\ v \in Seq(Item) /\ Len(v) = Len(w) + 1 /\ v[Len(w) + 1] = item
        /\ \A i \in 1..Len(w) : v[i] = w[i]
    BY <1>4, <2>2, AppendProperties
  <2>4. ASSUME NEW i \in 1..Len(v) PROVE v[i] = k[i]
    <3>1. k[i] = t[i]
      <4>1. i \in 1..Len(k) /\ Len(t) - Len(k) + i = i
        BY <1>3, <2>1, <2>3
      <4>2. k[i] = t[Len(t) - Len(k) + i]
        BY <1>6, <4>1
      <4> QED
        BY <4>1, <4>2
    <3> QED
      BY <1>3, <1>4, <2>1, <2>3, <3>1
  <2>5. v = k
    BY <1>3, <1>6, <2>1, <2>3, <2>4, SeqEqual
  <2> QED
    BY <1>1, <1>5, <1>7, <1>8, <2>2, <2>5
<1>9. CASE ~(Len(w) < Capacity)
  <2>1. Len(w) = Capacity /\ Len(k) = Capacity /\ Len(s) >= Capacity /\ w # <<>>
    BY <1>2, <1>3, <1>4, <1>6, <1>9, EmptySeq
  <2>2. PICK r, v : r = Tail(w) /\ v = Append(r, item)
    OBVIOUS
  <2>3. /\ r \in Seq(Item) /\ Len(r) = Len(w) - 1
        /\ \A i \in 1..Len(r) : r[i] = w[i + 1]
    BY <1>4, <2>1, <2>2, HeadTailProperties
  <2>4. /\ v \in Seq(Item) /\ Len(v) = Len(r) + 1 /\ v[Len(r) + 1] = item
        /\ \A i \in 1..Len(r) : v[i] = r[i]
    BY <2>2, <2>3, AppendProperties
  <2>5. ASSUME NEW i \in 1..Len(v) PROVE v[i] = k[i]
    <3>1. k[i] = t[Len(s) + 1 - Capacity + i] /\ i \in 1..Capacity
      <4>1. i \in 1..Capacity /\ i \in 1..Len(k)
        BY <1>2, <2>1, <2>3, <2>4
      <4>2. k[i] = t[Len(t) - Len(k) + i]
        BY <1>6, <4>1
      <4> QED
        BY <1>3, <2>1, <4>1, <4>2
    <3>2. CASE i = Capacity
      BY <1>2, <1>3, <2>1, <2>3, <2>4, <3>1, <3>2
    <3>3. CASE i # Capacity
      <4>1. i \in 1..Len(r) /\ v[i] = w[i + 1] /\ w[i + 1] = s[Len(s) - Capacity + (i + 1)]
        <5>1. i \in 1..Len(r) /\ i + 1 \in 1..Len(w)
          BY <1>2, <2>1, <2>3, <3>1, <3>3
        <5>2. w[i + 1] = s[Len(s) - Len(w) + (i + 1)]
          BY <1>4, <5>1
        <5> QED
          BY <2>1, <2>3, <2>4, <5>1, <5>2
      <4>2. Len(s) - Capacity + (i + 1) \in 1..Len(s)
        BY <1>2, <1>3, <2>1, <3>1, <3>3
      <4>3. Len(s) - Capacity + (i + 1) = Len(s) + 1 - Capacity + i
        BY <1>2, <1>3, <3>1
      <4> QED
        BY <1>3, <3>1, <4>1, <4>2, <4>3
    <3> QED
      BY <3>2, <3>3
  <2>6. v = k
    BY <1>2, <1>6, <2>1, <2>3, <2>4, <2>5, SeqEqual
  <2> QED
    BY <1>1, <1>5, <1>7, <1>9, <2>2, <2>6
<1> QED
  BY <1>8, <1>9
=============================================================================
