--------------------------- MODULE PipelineProofs ---------------------------
(***************************************************************************)
(* Theorems about the live pipeline, for any number of packets and         *)
(* workers and any channel size.                                           *)
(***************************************************************************)
EXTENDS Pipeline, TLAPS, SequenceTheorems, FiniteSetTheorems

-----------------------------------------------------------------------------
(* Channels and sets of packets. *)

LEMMA ChannelSend ==
  ASSUME NEW c \in Seq(Packet), NEW p \in Packet, Len(c) < BufSize
  PROVE  Append(c, p) \in Seq(Packet) /\ Len(Append(c, p)) <= BufSize
<1>1. Len(c) \in Nat /\ Len(Append(c, p)) = Len(c) + 1
  BY AppendProperties, LenProperties
<1> QED
  BY <1>1, AppendProperties, PipelineAssumption DEF PipelineAssumption

LEMMA ChannelReceive ==
  ASSUME NEW c \in Seq(Packet), c # <<>>
  PROVE  /\ Head(c) \in Packet
         /\ Tail(c) \in Seq(Packet)
         /\ Len(c) <= BufSize => Len(Tail(c)) <= BufSize
<1>1. Len(c) \in Nat /\ Len(Tail(c)) = Len(c) - 1
  BY HeadTailProperties, LenProperties
<1> QED
  BY <1>1, HeadTailProperties, PipelineAssumption DEF PipelineAssumption

LEMMA PacketsAreFinite ==
  ASSUME NEW S, S \subseteq Packet
  PROVE  IsFiniteSet(S) /\ Cardinality(S) \in Nat
<1>1. IsFiniteSet(Packet)
  BY FS_Interval, PipelineAssumption DEF PipelineAssumption, Packet
<1> QED
  BY <1>1, FS_Subset, FS_CardinalityType

-----------------------------------------------------------------------------
(* Type correctness: the initial state, then one lemma per goroutine. *)

LEMMA InitTypeOK == Init => TypeOK
<1> SUFFICES ASSUME Init PROVE TypeOK
  OBVIOUS
<1> USE PipelineAssumption DEF PipelineAssumption, Init, Zero, Totals
<1>1. ChannelsOK
  <2>1. <<>> \in Seq(Packet) /\ Len(<<>>) <= BufSize
    OBVIOUS
  <2> QED
    BY <2>1 DEF ChannelsOK, CaptureInit, PoolInit
<1>2. CaptureOK
  BY DEF CaptureOK, CaptureInit
<1>3. PoolOK
  BY DEF PoolOK, PoolInit
<1>4. AggOK
  BY DEF AggOK, AggInit
<1>5. MainOK
  BY DEF MainOK, CaptureInit
<1> QED
  BY <1>1, <1>2, <1>3, <1>4, <1>5 DEF TypeOK

LEMMA CaptureTypeOK == TypeOK /\ CaptureNext /\ CaptureFrame => TypeOK'
<1> SUFFICES ASSUME TypeOK, CaptureNext, CaptureFrame PROVE TypeOK'
  OBVIOUS
<1> USE PipelineAssumption
    DEF PipelineAssumption, TypeOK, CaptureFrame, mainVars, poolVars, aggVars
<1>a. arrived \in 0..MaxPackets
  BY DEF CaptureOK
<1>1. /\ PoolOK'
      /\ AggOK'
      /\ MainOK'
  BY DEF PoolOK, AggOK, MainOK, ChannelsOK
<1>2. CASE CaptureReceive
  <2>1. ChannelsOK'
    BY <1>2 DEF CaptureReceive, ChannelsOK
  <2>2. arrived' \in Packet
    BY <1>a, <1>2 DEF CaptureReceive, Packet
  <2>3. recorded' \in Seq(Packet)
    BY <2>2, <1>2 DEF CaptureReceive, WritePacket, CaptureOK
  <2>4. CaptureOK'
    BY <2>2, <2>3, <1>a, <1>2 DEF CaptureReceive, CaptureOK
  <2> QED
    BY <1>1, <2>1, <2>4
<1>3. CASE CaptureSend
  <2>1. arrived \in Packet
    BY <1>a, <1>3 DEF CaptureSend, CaptureOK, Packet
  <2>2. inChan' \in Seq(Packet) /\ Len(inChan') <= BufSize
    BY <2>1, <1>3, ChannelSend DEF CaptureSend, ChannelsOK
  <2>3. ChannelsOK'
    BY <2>2, <1>3 DEF CaptureSend, ChannelsOK
  <2>4. CaptureOK'
    BY <2>1, <1>3 DEF CaptureSend, CaptureOK
  <2> QED
    BY <1>1, <2>3, <2>4
<1>4. CASE CaptureStop
  BY <1>1, <1>4 DEF CaptureStop, ChannelsOK, CaptureOK
<1> QED
  BY <1>2, <1>3, <1>4 DEF CaptureNext

LEMMA PoolTypeOK ==
  TypeOK /\ (PoolClose \/ \E w \in Workers : WorkerNext(w)) /\ PoolFrame => TypeOK'
<1> SUFFICES ASSUME TypeOK, PoolFrame,
                    PoolClose \/ \E w \in Workers : WorkerNext(w)
             PROVE  TypeOK'
  OBVIOUS
<1> USE PipelineAssumption
    DEF PipelineAssumption, TypeOK, PoolFrame, mainVars, captureVars, aggVars
<1>1. CaptureOK' /\ AggOK' /\ MainOK'
  BY DEF CaptureOK, AggOK, MainOK
<1>2. CASE PoolClose
  BY <1>1, <1>2 DEF PoolClose, ChannelsOK, PoolOK
<1>3. ASSUME NEW w \in Workers, WorkerRecv(w) PROVE TypeOK'
  <2>1. /\ Head(inChan) \in Packet
        /\ Tail(inChan) \in Seq(Packet) /\ Len(Tail(inChan)) <= BufSize
    BY <1>3, ChannelReceive DEF WorkerRecv, ChannelsOK
  <2>2. ChannelsOK'
    BY <2>1, <1>3 DEF WorkerRecv, ChannelsOK
  <2>3. Head(inChan) \in 0..MaxPackets /\ Head(inChan) # 0
    BY <2>1 DEF Packet
  <2>4. PoolOK'
    BY <2>3, <1>3 DEF WorkerRecv, PoolOK
  <2> QED
    BY <1>1, <2>2, <2>4
<1>4. ASSUME NEW w \in Workers, WorkerStop(w) PROVE TypeOK'
  BY <1>1, <1>4 DEF WorkerStop, ChannelsOK, PoolOK
<1>5. ASSUME NEW w \in Workers, held[w] # 0 PROVE held[w] \in Packet
  BY <1>5 DEF PoolOK, Packet
<1>6. ASSUME NEW w \in Workers, WorkerSend(w) PROVE TypeOK'
  <2>1. outChan' \in Seq(Packet) /\ Len(outChan') <= BufSize
    BY <1>5, <1>6, ChannelSend DEF WorkerSend, ChannelsOK, PoolOK
  <2>2. ChannelsOK'
    BY <2>1, <1>6 DEF WorkerSend, ChannelsOK
  <2>3. PoolOK'
    BY <1>6 DEF WorkerSend, PoolOK
  <2> QED
    BY <1>1, <2>2, <2>3
<1>7. ASSUME NEW w \in Workers, WorkerAbandon(w) PROVE TypeOK'
  <2>1. held[w] \in Packet
    BY <1>5, <1>7 DEF WorkerAbandon, PoolOK
  <2>2. PoolOK'
    BY <2>1, <1>7 DEF WorkerAbandon, PoolOK
  <2>3. ChannelsOK'
    BY <1>7 DEF WorkerAbandon, ChannelsOK
  <2> QED
    BY <1>1, <2>2, <2>3
<1> QED
  BY <1>2, <1>3, <1>4, <1>6, <1>7 DEF WorkerNext

LEMMA AggTypeOK == TypeOK /\ AggNext /\ AggFrame => TypeOK'
<1> SUFFICES ASSUME TypeOK, AggNext, AggFrame PROVE TypeOK'
  OBVIOUS
<1> USE DEF TypeOK, AggFrame, mainVars, captureVars, poolVars
<1>1. CaptureOK' /\ PoolOK' /\ MainOK'
  BY DEF CaptureOK, PoolOK, MainOK
<1>2. ASSUME PublishSnapshot PROVE published' \in Totals
  <2>1. Len(counted) \in Nat /\ Cardinality(dropped) \in Nat
    BY LenProperties, PacketsAreFinite DEF AggOK, CaptureOK
  <2> QED
    BY <1>2, <2>1 DEF PublishSnapshot, Totals
<1>3. ASSUME AddPacket PROVE /\ outChan' \in Seq(Packet) /\ Len(outChan') <= BufSize
                             /\ counted' \in Seq(Packet)
  <2>1. Head(outChan) \in Packet
    BY <1>3, ChannelReceive DEF AddPacket, ChannelsOK
  <2>2. outChan' \in Seq(Packet) /\ Len(outChan') <= BufSize
    BY <1>3, ChannelReceive DEF AddPacket, ChannelsOK
  <2> QED
    BY <2>1, <2>2, <1>3 DEF AddPacket, AggOK
<1>4. CASE AggReceive \/ AggDrain
  BY <1>1, <1>3, <1>4 DEF AggReceive, AggDrain, ChannelsOK, AggOK
<1>5. CASE AggClosed \/ AggTick \/ AggFinalPublish
  BY <1>1, <1>2, <1>5 DEF AggClosed, AggTick, AggFinalPublish, ChannelsOK, AggOK
<1>6. CASE AggCancel \/ AggDrained \/ AggSaveOpen \/ AggSaveWrite
  BY <1>1, <1>6 DEF AggCancel, AggDrained, AggSaveOpen, AggSaveWrite, ChannelsOK, AggOK
<1> QED
  BY <1>4, <1>5, <1>6 DEF AggNext, AggFinish

LEMMA MainTypeOK == TypeOK /\ MainNext /\ MainFrame => TypeOK'
<1> SUFFICES ASSUME TypeOK, MainNext, MainFrame PROVE TypeOK'
  OBVIOUS
<1> USE DEF TypeOK, MainFrame, channels, captureVars, poolVars, aggVars
<1>1. ChannelsOK' /\ CaptureOK' /\ PoolOK' /\ AggOK'
  BY DEF ChannelsOK, CaptureOK, PoolOK, AggOK
<1>2. MainOK'
  <2>1. CASE Signal \/ SourceEnd \/ MainStop
    BY <2>1 DEF MainOK, Signal, SourceEnd, MainStop
  <2>2. CASE MainReport
    BY <2>2 DEF MainOK, MainReport, AggOK
  <2>3. CASE MainCloseRecorder \/ MainCloseHandle \/ MainCancel \/ MainReturn
    BY <2>3 DEF MainOK, MainCloseRecorder, MainCloseHandle, MainCancel, MainReturn
  <2> QED
    BY <2>1, <2>2, <2>3 DEF MainNext
<1> QED
  BY <1>1, <1>2

LEMMA StutterTypeOK == TypeOK /\ UNCHANGED vars => TypeOK'
BY DEF TypeOK, ChannelsOK, CaptureOK, PoolOK, AggOK, MainOK, vars, mainVars,
       channels, captureVars, poolVars, aggVars

(***************************************************************************)
(* Every reachable state of the live pipeline is well typed; the channels  *)
(* never hold more than their capacity.                                    *)
(***************************************************************************)
THEOREM TypeCorrect == Spec => []TypeOK
<1>1. TypeOK /\ [Next]_vars => TypeOK'
  BY CaptureTypeOK, PoolTypeOK, AggTypeOK, MainTypeOK, StutterTypeOK DEF Next, Exited
<1> QED
  BY InitTypeOK, <1>1, PTL DEF Spec
-----------------------------------------------------------------------------
(* What a channel operation does to the packets a sequence holds. *)

LEMMA RangeOfAppend ==
  ASSUME NEW S, NEW s \in Seq(S), NEW e \in S
  PROVE  /\ Range(Append(s, e)) = Range(s) \union {e}
         /\ NoRepeat(s) /\ e \notin Range(s) => NoRepeat(Append(s, e))
<1>1. /\ Len(s) \in Nat /\ DOMAIN s = 1..Len(s)
      /\ DOMAIN Append(s, e) = 1..(Len(s) + 1)
      /\ \A i \in 1..Len(s) : Append(s, e)[i] = s[i]
      /\ Append(s, e)[Len(s) + 1] = e
  BY AppendProperties, LenProperties
<1> QED
  BY <1>1 DEF Range, NoRepeat

LEMMA RangeOfTail ==
  ASSUME NEW S, NEW s \in Seq(S), s # <<>>, NoRepeat(s)
  PROVE  /\ Head(s) \in Range(s)
         /\ Range(Tail(s)) = Range(s) \ {Head(s)}
         /\ NoRepeat(Tail(s))
<1>1. /\ Len(s) \in Nat \ {0} /\ DOMAIN s = 1..Len(s)
      /\ Head(s) = s[1]
      /\ DOMAIN Tail(s) = 1..(Len(s) - 1)
      /\ \A i \in 1..(Len(s) - 1) : Tail(s)[i] = s[i + 1]
  BY HeadTailProperties, LenProperties, EmptySeq
<1>2. NoRepeat(Tail(s))
  BY <1>1 DEF NoRepeat
<1>3. Range(Tail(s)) \subseteq Range(s) \ {Head(s)}
  BY <1>1 DEF Range, NoRepeat
<1>4. ASSUME NEW x \in Range(s), x # Head(s) PROVE x \in Range(Tail(s))
  <2>1. PICK i \in 1..Len(s) : x = s[i]
    BY <1>1 DEF Range
  <2>2. i - 1 \in 1..(Len(s) - 1) /\ Tail(s)[i - 1] = x
    BY <1>1, <1>4, <2>1
  <2> QED
    BY <1>1, <2>2 DEF Range
<1>5. Head(s) \in Range(s)
  BY <1>1 DEF Range
<1>6. Range(Tail(s)) = Range(s) \ {Head(s)}
  BY <1>3, <1>4
<1> QED
  BY <1>2, <1>5, <1>6

\* One packet moves from place i to place j and nothing else happens.
Moved(P, Q, p, i, j) ==
  /\ Q[i] = P[i] \ {p}
  /\ Q[j] = P[j] \union {p}
  /\ \A k \in 1..7 : k = i \/ k = j \/ Q[k] = P[k]

LEMMA MoveKeepsDisjoint ==
  ASSUME NEW P, NEW Q, NEW p, NEW i \in 1..7, NEW j \in 1..7, i # j,
         DOMAIN P = 1..7, DOMAIN Q = 1..7,
         Disjoint(P), p \in P[i], Moved(P, Q, p, i, j)
  PROVE  Disjoint(Q)
BY DEF Disjoint, Moved

-----------------------------------------------------------------------------
(***************************************************************************)
(* The effect of every step on the places, which is all that ExactlyOnce   *)
(* and the refinement of the ledger need to know of it.                    *)
(***************************************************************************)
Quiet ==
  /\ UNCHANGED <<arrived, dropped, lost, counted>>
  /\ InHand' = InHand /\ inChan' = inChan /\ held' = held /\ outChan' = outChan

LEMMA PlacesDomain == DOMAIN Places = 1..7 /\ DOMAIN Places' = 1..7
BY DEF Places

LEMMA PlacesAre ==
  /\ Places[1] = InHand /\ Places[2] = Range(inChan) /\ Places[3] = Held
  /\ Places[4] = Range(outChan) /\ Places[5] = Range(counted)
  /\ Places[6] = dropped /\ Places[7] = lost
  /\ Places'[1] = InHand' /\ Places'[2] = Range(inChan') /\ Places'[3] = Held'
  /\ Places'[4] = Range(outChan') /\ Places'[5] = Range(counted')
  /\ Places'[6] = dropped' /\ Places'[7] = lost'
BY DEF Places

LEMMA PlacesCover == /\ Pending \union Settled = UNION {Places[k] : k \in 1..7}
                     /\ Pending' \union Settled' = UNION {Places'[k] : k \in 1..7}
<1>1. /\ Pending \union Settled = UNION {InHand, Range(inChan), Held, Range(outChan),
                                         Range(counted), dropped, lost}
      /\ Pending' \union Settled' = UNION {InHand', Range(inChan'), Held', Range(outChan'),
                                           Range(counted'), dropped', lost'}
  BY DEF Pending, Settled
<1>2. /\ {Places[k] : k \in 1..7} = {InHand, Range(inChan), Held, Range(outChan),
                                     Range(counted), dropped, lost}
      /\ {Places'[k] : k \in 1..7} = {InHand', Range(inChan'), Held', Range(outChan'),
                                      Range(counted'), dropped', lost'}
  BY DEF Places
<1> QED
  BY <1>1, <1>2

LEMMA QuietKeeps == ExactlyOnce /\ Quiet => ExactlyOnce' /\ Places' = Places
BY DEF ExactlyOnce, Quiet, Places, Pending, Settled, Held, InHand

\* Within the sequences and the hands of the workers no packet occurs twice.
OnceWithin ==
  /\ NoRepeat(inChan) /\ NoRepeat(outChan) /\ NoRepeat(counted)
  /\ \A v, w \in Workers : held[v] = held[w] /\ held[v] # 0 => v = w

LEMMA MoveKeepsExactlyOnce ==
  ASSUME ExactlyOnce, arrived' = arrived, OnceWithin',
         NEW p, NEW i \in 1..7, NEW j \in 1..7, i # j,
         p \in Places[i], Moved(Places, Places', p, i, j)
  PROVE  ExactlyOnce'
<1>1. Disjoint(Places)'
  BY MoveKeepsDisjoint, PlacesDomain DEF ExactlyOnce
<1>2. UNION {Places'[k] : k \in 1..7} = UNION {Places[k] : k \in 1..7}
  BY DEF Moved
<1> QED
  BY <1>1, <1>2, PlacesCover DEF ExactlyOnce, OnceWithin

-----------------------------------------------------------------------------
(* The moves of each goroutine. *)

LEMMA CaptureMoves ==
  ASSUME TypeOK, ExactlyOnce, CaptureSend, CaptureFrame
  PROVE  /\ OnceWithin' /\ arrived \in Places[1]
         /\ IF Len(inChan) < BufSize THEN Moved(Places, Places', arrived, 1, 2)
                                     ELSE Moved(Places, Places', arrived, 1, 6)
<1> USE DEF CaptureSend, CaptureFrame, poolVars, aggVars
<1>1. InHand = {arrived} /\ InHand' = {} /\ Held' = Held
  BY DEF InHand, Held
<1>2. arrived \in Packet /\ inChan \in Seq(Packet)
  BY DEF TypeOK, CaptureOK, ChannelsOK, Packet
<1>3. arrived \in Places[1] /\ arrived \notin Places[2]
  BY <1>1, PlacesDomain, PlacesAre DEF ExactlyOnce, Disjoint
<1>4. CASE Len(inChan) < BufSize
  <2>1. inChan' = Append(inChan, arrived) /\ dropped' = dropped
    BY <1>4
  <2>2. Range(inChan') = Range(inChan) \union {arrived} /\ NoRepeat(inChan')
    BY <1>2, <1>3, <2>1, RangeOfAppend, PlacesAre DEF ExactlyOnce
  <2>3. Moved(Places, Places', arrived, 1, 2)
    BY <1>1, <2>1, <2>2, PlacesAre DEF Moved
  <2> QED
    BY <1>3, <1>4, <2>2, <2>3 DEF OnceWithin, ExactlyOnce
<1>5. CASE ~(Len(inChan) < BufSize)
  <2>1. dropped' = dropped \union {arrived} /\ inChan' = inChan
    BY <1>5
  <2>2. Moved(Places, Places', arrived, 1, 6)
    BY <1>1, <2>1, PlacesAre DEF Moved
  <2> QED
    BY <1>3, <1>5, <2>1, <2>2 DEF OnceWithin, ExactlyOnce
<1> QED
  BY <1>4, <1>5

LEMMA CaptureArrives ==
  ASSUME TypeOK, ExactlyOnce, CaptureReceive, CaptureFrame
  PROVE  /\ arrived + 1 \in Packet /\ arrived + 1 \notin Pending \union Settled
         /\ Pending' = Pending \union {arrived + 1}
         /\ ExactlyOnce'
<1> USE DEF CaptureReceive, CaptureFrame, poolVars, aggVars
<1>1. InHand = {} /\ InHand' = {arrived + 1} /\ Held' = Held
  BY DEF InHand, Held
<1>2. arrived \in 0..MaxPackets /\ arrived + 1 \in Packet
  BY PipelineAssumption DEF TypeOK, CaptureOK, Packet, PipelineAssumption
<1>3. arrived + 1 \notin Pending \union Settled
  BY <1>2 DEF ExactlyOnce
<1>4. Pending' = Pending \union {arrived + 1} /\ Settled' = Settled
  BY <1>1 DEF Pending, Settled
<1>5. Pending' \union Settled' = 1..arrived'
  BY <1>2, <1>4, PipelineAssumption DEF ExactlyOnce, PipelineAssumption
<1>6. \A k \in 1..7 : arrived + 1 \notin Places[k]
  BY <1>3, PlacesCover
<1>7. Places'[1] = {arrived + 1} /\ \A k \in 2..7 : Places'[k] = Places[k]
  BY <1>1, PlacesAre
<1>8. Disjoint(Places)'
  BY <1>6, <1>7, PlacesDomain DEF ExactlyOnce, Disjoint
<1> QED
  BY <1>2, <1>3, <1>4, <1>5, <1>8 DEF ExactlyOnce

LEMMA WorkerTakes ==
  ASSUME TypeOK, ExactlyOnce, NEW w \in Workers, WorkerRecv(w), PoolFrame
  PROVE  /\ OnceWithin' /\ Head(inChan) \in Places[2]
         /\ Moved(Places, Places', Head(inChan), 2, 3)
<1> USE DEF WorkerRecv, PoolFrame, captureVars, aggVars
<1>1. /\ inChan \in Seq(Packet) /\ inChan # <<>>
      /\ Head(inChan) \in Packet /\ Head(inChan) # 0
      /\ held \in [Workers -> 0..MaxPackets] /\ held[w] = 0
  BY ChannelReceive DEF TypeOK, ChannelsOK, PoolOK, Packet
<1>2. /\ Head(inChan) \in Range(inChan) /\ NoRepeat(inChan')
      /\ Range(inChan') = Range(inChan) \ {Head(inChan)}
  BY <1>1, RangeOfTail DEF ExactlyOnce
<1>3. Held' = Held \union {Head(inChan)} /\ InHand' = InHand
  BY <1>1 DEF Held, InHand
<1>4. Head(inChan) \in Places[2] /\ Head(inChan) \notin Held
  BY <1>2, PlacesAre, PlacesDomain DEF ExactlyOnce, Disjoint
<1>5. Moved(Places, Places', Head(inChan), 2, 3)
  BY <1>2, <1>3, PlacesAre DEF Moved
<1>6. \A u, v \in Workers : held'[u] = held'[v] /\ held'[u] # 0 => u = v
  BY <1>1, <1>4 DEF Held, ExactlyOnce
<1> QED
  BY <1>2, <1>4, <1>5, <1>6 DEF OnceWithin, ExactlyOnce

\* A worker that sends or abandons its packet no longer holds it.
LEMMA WorkerGives ==
  ASSUME TypeOK, ExactlyOnce, NEW w \in Workers, held[w] # 0,
         held' = [held EXCEPT ![w] = 0]
  PROVE  /\ held[w] \in Packet /\ held[w] \in Held
         /\ Held' = Held \ {held[w]}
         /\ \A u, v \in Workers : held'[u] = held'[v] /\ held'[u] # 0 => u = v
BY DEF TypeOK, PoolOK, Packet, Held, ExactlyOnce

LEMMA WorkerSends ==
  ASSUME TypeOK, ExactlyOnce, NEW w \in Workers, WorkerSend(w), PoolFrame
  PROVE  /\ OnceWithin' /\ held[w] \in Places[3]
         /\ Moved(Places, Places', held[w], 3, 4)
<1> USE DEF WorkerSend, PoolFrame, captureVars, aggVars
<1>1. held[w] # 0 /\ outChan \in Seq(Packet)
  BY DEF TypeOK, PoolOK, ChannelsOK
<1>2. /\ held[w] \in Packet /\ held[w] \in Held /\ Held' = Held \ {held[w]}
      /\ \A u, v \in Workers : held'[u] = held'[v] /\ held'[u] # 0 => u = v
  BY <1>1, WorkerGives
<1>3. held[w] \in Places[3] /\ held[w] \notin Range(outChan)
  BY <1>2, PlacesAre, PlacesDomain DEF ExactlyOnce, Disjoint
<1>4. Range(outChan') = Range(outChan) \union {held[w]} /\ NoRepeat(outChan')
  BY <1>1, <1>2, <1>3, RangeOfAppend DEF ExactlyOnce
<1>5. InHand' = InHand
  BY DEF InHand
<1>6. Moved(Places, Places', held[w], 3, 4)
  BY <1>2, <1>4, <1>5, PlacesAre DEF Moved
<1> QED
  BY <1>2, <1>3, <1>4, <1>6 DEF OnceWithin, ExactlyOnce

LEMMA WorkerLoses ==
  ASSUME TypeOK, ExactlyOnce, NEW w \in Workers, WorkerAbandon(w), PoolFrame
  PROVE  /\ OnceWithin' /\ held[w] \in Places[3]
         /\ Moved(Places, Places', held[w], 3, 7)
<1> USE DEF WorkerAbandon, PoolFrame, captureVars, aggVars
<1>1. held[w] # 0
  BY DEF TypeOK, PoolOK
<1>2. /\ held[w] \in Held /\ Held' = Held \ {held[w]}
      /\ \A u, v \in Workers : held'[u] = held'[v] /\ held'[u] # 0 => u = v
  BY <1>1, WorkerGives
<1>3. InHand' = InHand
  BY DEF InHand
<1>4. Moved(Places, Places', held[w], 3, 7)
  BY <1>2, <1>3, PlacesAre DEF Moved
<1> QED
  BY <1>2, <1>4, PlacesAre DEF OnceWithin, ExactlyOnce

LEMMA AggCounts ==
  ASSUME TypeOK, ExactlyOnce, AddPacket, AggFrame
  PROVE  /\ OnceWithin' /\ Head(outChan) \in Places[4]
         /\ Moved(Places, Places', Head(outChan), 4, 5)
<1> USE DEF AddPacket, AggFrame, captureVars, poolVars
<1>1. /\ outChan \in Seq(Packet) /\ Head(outChan) \in Packet
      /\ counted \in Seq(Packet)
  BY ChannelReceive DEF TypeOK, ChannelsOK, AggOK
<1>2. /\ Head(outChan) \in Range(outChan) /\ NoRepeat(outChan')
      /\ Range(outChan') = Range(outChan) \ {Head(outChan)}
  BY <1>1, RangeOfTail DEF ExactlyOnce
<1>3. Head(outChan) \in Places[4] /\ Head(outChan) \notin Range(counted)
  BY <1>2, PlacesAre, PlacesDomain DEF ExactlyOnce, Disjoint
<1>4. Range(counted') = Range(counted) \union {Head(outChan)} /\ NoRepeat(counted')
  BY <1>1, <1>3, RangeOfAppend DEF ExactlyOnce
<1>5. InHand' = InHand /\ Held' = Held
  BY DEF InHand, Held
<1>6. Moved(Places, Places', Head(outChan), 4, 5)
  BY <1>2, <1>4, <1>5, PlacesAre DEF Moved
<1> QED
  BY <1>2, <1>3, <1>4, <1>6 DEF OnceWithin, ExactlyOnce

LEMMA InitExactlyOnce == Init => ExactlyOnce
<1> SUFFICES ASSUME Init PROVE ExactlyOnce
  OBVIOUS
<1> USE DEF Init, CaptureInit, PoolInit, AggInit
<1>1. InHand = {} /\ Held = {} /\ Range(<<>>) = {}
  BY DEF InHand, Held, Range
<1>2. Pending \union Settled = {} /\ 1..arrived = {}
  BY <1>1 DEF Pending, Settled
<1>3. OnceWithin
  BY DEF OnceWithin, NoRepeat
<1>4. \A k \in 1..7 : Places[k] = {}
  BY <1>1, PlacesAre
<1> QED
  BY <1>2, <1>3, <1>4, PlacesDomain DEF ExactlyOnce, OnceWithin, Disjoint

LEMMA NextExactlyOnce == TypeOK /\ ExactlyOnce /\ [Next]_vars => ExactlyOnce'
<1> SUFFICES ASSUME TypeOK, ExactlyOnce, [Next]_vars PROVE ExactlyOnce'
  OBVIOUS
<1>1. ASSUME Quiet PROVE ExactlyOnce'
  BY <1>1, QuietKeeps
<1>2. CASE CaptureNext /\ CaptureFrame
  <2> USE <1>2 DEF CaptureFrame, poolVars, aggVars
  <2>1. CASE CaptureReceive
    BY <2>1, CaptureArrives
  <2>2. CASE CaptureSend
    <3>1. arrived' = arrived
      BY <2>2 DEF CaptureSend
    <3> QED
      BY <2>2, <3>1, CaptureMoves, MoveKeepsExactlyOnce
  <2>3. CASE CaptureStop
    BY <2>3, <1>1 DEF CaptureStop, Quiet, InHand
  <2> QED
    BY <2>1, <2>2, <2>3 DEF CaptureNext
<1>3. CASE (PoolClose \/ \E w \in Workers : WorkerNext(w)) /\ PoolFrame
  <2> USE <1>3 DEF PoolFrame, captureVars, aggVars
  <2>1. CASE PoolClose
    BY <2>1, <1>1 DEF PoolClose, Quiet, InHand
  <2>2. ASSUME NEW w \in Workers, WorkerRecv(w) PROVE ExactlyOnce'
    BY <2>2, WorkerTakes, MoveKeepsExactlyOnce
  <2>3. ASSUME NEW w \in Workers, WorkerStop(w) PROVE ExactlyOnce'
    BY <2>3, <1>1 DEF WorkerStop, Quiet, InHand
  <2>4. ASSUME NEW w \in Workers, WorkerSend(w) PROVE ExactlyOnce'
    BY <2>4, WorkerSends, MoveKeepsExactlyOnce
  <2>5. ASSUME NEW w \in Workers, WorkerAbandon(w) PROVE ExactlyOnce'
    BY <2>5, WorkerLoses, MoveKeepsExactlyOnce
  <2> QED
    BY <2>1, <2>2, <2>3, <2>4, <2>5 DEF WorkerNext
<1>4. CASE AggNext /\ AggFrame
  <2> USE <1>4 DEF AggFrame, captureVars, poolVars
  <2>1. CASE AggReceive \/ AggDrain
    <3>1. AddPacket
      BY <2>1 DEF AggReceive, AggDrain
    <3> QED
      BY <3>1, AggCounts, MoveKeepsExactlyOnce
  <2>2. CASE \/ AggClosed \/ AggTick \/ AggCancel \/ AggFinish
    BY <2>2, <1>1 DEF AggClosed, AggTick, AggCancel, AggFinish, AggDrained,
         AggSaveOpen, AggSaveWrite, AggFinalPublish, Quiet, InHand
  <2> QED
    BY <2>1, <2>2 DEF AggNext
<1>5. CASE MainNext /\ MainFrame
  BY <1>5, <1>1 DEF MainFrame, channels, captureVars, poolVars, aggVars, Quiet, InHand
<1>6. CASE UNCHANGED vars
  BY <1>6, <1>1 DEF vars, channels, captureVars, poolVars, aggVars, Quiet, InHand
<1> QED
  BY <1>2, <1>3, <1>4, <1>5, <1>6 DEF Next, Exited

(***************************************************************************)
(* For any number of packets, workers and slots: no interleaving of the    *)
(* goroutines duplicates a packet or makes one vanish unaccounted.         *)
(***************************************************************************)
THEOREM PacketsAreExactlyOnce == Spec => []ExactlyOnce
<1>1. Init => TypeOK /\ ExactlyOnce
  BY InitTypeOK, InitExactlyOnce
<1> QED
  BY <1>1, NextExactlyOnce, TypeCorrect, PTL DEF Spec

-----------------------------------------------------------------------------
(* The refinement of the ledger. *)

LEMMA PendingPlaces ==
  /\ Pending = UNION {Places[k] : k \in 1..4}
  /\ Pending' = UNION {Places'[k] : k \in 1..4}
  /\ L!Seen = Pending \union Settled
<1>1. /\ {Places[k] : k \in 1..4} = {Places[1], Places[2], Places[3], Places[4]}
      /\ {Places'[k] : k \in 1..4} = {Places'[1], Places'[2], Places'[3], Places'[4]}
  OBVIOUS
<1>2. L!Seen = Pending \union Settled
  BY DEF L!Seen, Settled, Range
<1> QED
  BY <1>1, <1>2, PlacesAre DEF Pending

LEMMA MoveWithin ==
  ASSUME NEW p, NEW i \in 1..4, NEW j \in 1..4, i # j,
         p \in Places[i], Moved(Places, Places', p, i, j)
  PROVE  Pending' = Pending
BY PendingPlaces DEF Moved

LEMMA MoveOut ==
  ASSUME ExactlyOnce, NEW p, NEW i \in 1..4, NEW j \in 5..7,
         p \in Places[i], Moved(Places, Places', p, i, j)
  PROVE  p \in Pending /\ Pending' = Pending \ {p}
<1>1. \A k \in 1..7 : k # i => p \notin Places[k]
  BY PlacesDomain DEF ExactlyOnce, Disjoint
<1>2. \A k \in 1..4 : Places'[k] = Places[k] \ {p}
  BY <1>1 DEF Moved
<1> QED
  BY <1>2, PendingPlaces

\* The ledger counts with the same operator, under the name of its instance.
LEMMA SameCardinality == \A S : L!Cardinality(S) = Cardinality(S)
BY DEF Cardinality, L!Cardinality

LEMMA InitLedger == Init => L!LInit
<1> SUFFICES ASSUME Init PROVE L!LInit
  OBVIOUS
<1>1. InHand = {} /\ Held = {} /\ Range(inChan) = {} /\ Range(outChan) = {}
  BY DEF Init, CaptureInit, PoolInit, InHand, Held, Range
<1> QED
  BY <1>1 DEF Init, CaptureInit, PoolInit, AggInit, Pending, L!LInit

LEMMA NextLedger ==
  TypeOK /\ ExactlyOnce /\ [Next]_vars => [L!LNext]_(L!ledger)
<1> SUFFICES ASSUME TypeOK, ExactlyOnce, [Next]_vars PROVE [L!LNext]_(L!ledger)
  OBVIOUS
<1> USE DEF L!ledger
<1>1. ASSUME Quiet, UNCHANGED ctxDone, UNCHANGED published PROVE UNCHANGED L!ledger
  BY <1>1 DEF Quiet, Pending, Held
<1>2. CASE CaptureNext /\ CaptureFrame
  <2> USE <1>2 DEF CaptureFrame, mainVars, poolVars, aggVars
  <2>1. CASE CaptureReceive
    <3>1. L!Arrive(arrived + 1) /\ arrived + 1 \in Packet
      BY <2>1, CaptureArrives, PendingPlaces DEF L!Arrive, CaptureReceive
    <3> QED
      BY <3>1 DEF L!LNext
  <2>2. CASE CaptureSend
    <3>1. CASE Len(inChan) < BufSize
      <4>1. Pending' = Pending
        BY <2>2, <3>1, CaptureMoves, MoveWithin
      <4> QED
        BY <2>2, <3>1, <4>1 DEF CaptureSend
    <3>2. CASE ~(Len(inChan) < BufSize)
      <4>1. arrived \in Pending /\ Pending' = Pending \ {arrived}
        BY <2>2, <3>2, CaptureMoves, MoveOut
      <4>2. L!Drop(arrived)
        BY <2>2, <3>2, <4>1 DEF CaptureSend, L!Drop
      <4> QED
        BY <4>1, <4>2 DEF L!LNext
    <3> QED
      BY <3>1, <3>2
  <2>3. CASE CaptureStop
    BY <2>3, <1>1 DEF CaptureStop, Quiet, InHand
  <2> QED
    BY <2>1, <2>2, <2>3 DEF CaptureNext
<1>3. CASE (PoolClose \/ \E w \in Workers : WorkerNext(w)) /\ PoolFrame
  <2> USE <1>3 DEF PoolFrame, mainVars, captureVars, aggVars
  <2>1. CASE PoolClose
    BY <2>1, <1>1 DEF PoolClose, Quiet, InHand
  <2>2. ASSUME NEW w \in Workers, WorkerRecv(w) PROVE [L!LNext]_(L!ledger)
    <3>1. Pending' = Pending
      BY <2>2, WorkerTakes, MoveWithin
    <3> QED
      BY <2>2, <3>1 DEF WorkerRecv
  <2>3. ASSUME NEW w \in Workers, WorkerStop(w) PROVE [L!LNext]_(L!ledger)
    BY <2>3, <1>1 DEF WorkerStop, Quiet, InHand
  <2>4. ASSUME NEW w \in Workers, WorkerSend(w) PROVE [L!LNext]_(L!ledger)
    <3>1. Pending' = Pending
      BY <2>4, WorkerSends, MoveWithin
    <3> QED
      BY <2>4, <3>1 DEF WorkerSend
  <2>5. ASSUME NEW w \in Workers, WorkerAbandon(w) PROVE [L!LNext]_(L!ledger)
    <3>1. held[w] \in Pending /\ Pending' = Pending \ {held[w]}
      BY <2>5, WorkerLoses, MoveOut
    <3>2. L!Lose(held[w])
      BY <2>5, <3>1 DEF WorkerAbandon, L!Lose
    <3> QED
      BY <3>1, <3>2 DEF L!LNext
  <2> QED
    BY <2>1, <2>2, <2>3, <2>4, <2>5 DEF WorkerNext
<1>4. CASE AggNext /\ AggFrame
  <2> USE <1>4 DEF AggFrame, mainVars, captureVars, poolVars
  <2>1. CASE AggReceive \/ AggDrain
    <3>1. AddPacket /\ UNCHANGED published
      BY <2>1 DEF AggReceive, AggDrain
    <3>2. Head(outChan) \in Pending /\ Pending' = Pending \ {Head(outChan)}
      BY <3>1, AggCounts, MoveOut
    <3>3. L!Count(Head(outChan))
      BY <3>1, <3>2 DEF AddPacket, L!Count
    <3> QED
      BY <3>2, <3>3 DEF L!LNext
  <2>2. CASE AggClosed \/ AggTick \/ AggFinalPublish
    <3>1. Quiet /\ PublishSnapshot
      BY <2>2 DEF AggClosed, AggTick, AggFinalPublish, Quiet, InHand
    <3>2. Pending' = Pending
      BY <3>1 DEF Quiet, Pending, Held
    <3>3. UNCHANGED <<counted, dropped, lost, ctxDone>>
      BY <3>1 DEF Quiet
    <3>4. L!Publish
      BY <3>1, <3>2, <3>3, SameCardinality DEF PublishSnapshot, L!Publish
    <3> QED
      BY <3>4 DEF L!LNext
  <2>3. CASE AggCancel \/ AggDrained \/ AggSaveOpen \/ AggSaveWrite
    BY <2>3, <1>1 DEF AggCancel, AggDrained, AggSaveOpen, AggSaveWrite, Quiet, InHand
  <2> QED
    BY <2>1, <2>2, <2>3 DEF AggNext, AggFinish
<1>5. CASE MainNext /\ MainFrame
  <2> USE <1>5 DEF MainFrame, channels, captureVars, poolVars, aggVars
  <2>1. Quiet /\ UNCHANGED published
    BY DEF Quiet, InHand
  <2>2. CASE UNCHANGED ctxDone
    BY <2>1, <2>2, <1>1
  <2>3. CASE ~ctxDone /\ ctxDone' = TRUE
    <3>1. Pending' = Pending
      BY <2>1 DEF Quiet, Pending, Held
    <3>2. L!Stop
      BY <2>1, <2>3, <3>1 DEF Quiet, L!Stop
    <3> QED
      BY <3>2 DEF L!LNext
  <2>4. UNCHANGED ctxDone \/ (~ctxDone /\ ctxDone' = TRUE)
    BY DEF MainNext, Signal, SourceEnd, MainStop, MainReport, MainCloseRecorder,
           MainCloseHandle, MainCancel, MainReturn, TypeOK, MainOK
  <2> QED
    BY <2>2, <2>3, <2>4
<1>6. CASE UNCHANGED vars
  BY <1>6, <1>1 DEF vars, mainVars, channels, captureVars, poolVars, aggVars, Quiet, InHand
<1> QED
  BY <1>2, <1>3, <1>4, <1>5, <1>6 DEF Next, Exited

(***************************************************************************)
(* The goroutines and channels of the live pipeline implement the ledger.  *)
(***************************************************************************)
THEOREM PipelineImplementsLedger == Spec => ImplementsLedger
<1>1. Spec => []TypeOK
  BY TypeCorrect
<1>2. Spec => []ExactlyOnce
  BY PacketsAreExactlyOnce
<1> QED
  BY <1>1, <1>2, InitLedger, NextLedger, PTL DEF Spec, ImplementsLedger, L!LSpec
-----------------------------------------------------------------------------
(***************************************************************************)
(* The order in which the stages stop.  Each stage is done only after the  *)
(* one before it, unless the context was cancelled; this is the            *)
(* strengthening that makes the three shutdown invariants inductive.       *)
(***************************************************************************)
ShutdownOrder ==
  /\ inClosed <=> capture = "done"
  /\ \A w \in Workers : worker[w] = "done" => ctxDone \/ (inClosed /\ inChan = <<>>)
  /\ outClosed => \A w \in Workers : worker[w] = "done"
  /\ agg \in {"save", "write", "publish", "done"} => outClosed /\ outChan = <<>>
  /\ lost # {} => ctxDone
  /\ agg = "done" => ctxDone \/ published = [total |-> Len(counted),
                                             dropped |-> Cardinality(dropped)]

LEMMA InitShutdownOrder == Init => ShutdownOrder
BY DEF Init, CaptureInit, PoolInit, AggInit, ShutdownOrder

LEMMA NextShutdownOrder == TypeOK /\ ShutdownOrder /\ [Next]_vars => ShutdownOrder'
<1> SUFFICES ASSUME TypeOK, ShutdownOrder, [Next]_vars PROVE ShutdownOrder'
  OBVIOUS
<1>1. PICK v : v \in Workers
  BY PipelineAssumption DEF PipelineAssumption
<1>2. agg = "done" => ctxDone \/ capture = "done"
  BY <1>1 DEF ShutdownOrder
<1>3. /\ worker \in [Workers -> {"recv", "send", "done"}]
      /\ \A w \in Workers : worker[w] = "send" <=> held[w] # 0
  BY DEF TypeOK, PoolOK
<1>4. CASE CaptureNext /\ CaptureFrame
  BY <1>2, <1>4 DEF CaptureNext, CaptureFrame, CaptureReceive, CaptureSend,
     CaptureStop, mainVars, poolVars, aggVars, ShutdownOrder
<1>5. CASE (PoolClose \/ \E w \in Workers : WorkerNext(w)) /\ PoolFrame
  <2> USE <1>3, <1>5 DEF PoolFrame, mainVars, captureVars, aggVars
  <2>1. CASE PoolClose
    BY <2>1 DEF PoolClose, ShutdownOrder
  <2>2. ASSUME NEW w \in Workers, WorkerRecv(w) PROVE ShutdownOrder'
    BY <2>2 DEF WorkerRecv, ShutdownOrder
  <2>3. ASSUME NEW w \in Workers, WorkerStop(w) PROVE ShutdownOrder'
    BY <2>3 DEF WorkerStop, ShutdownOrder
  <2>4. ASSUME NEW w \in Workers, WorkerSend(w) PROVE ShutdownOrder'
    BY <2>4 DEF WorkerSend, ShutdownOrder
  <2>5. ASSUME NEW w \in Workers, WorkerAbandon(w) PROVE ShutdownOrder'
    BY <2>5 DEF WorkerAbandon, ShutdownOrder
  <2> QED
    BY <2>1, <2>2, <2>3, <2>4, <2>5 DEF WorkerNext
<1>6. CASE AggNext /\ AggFrame
  <2> USE <1>6 DEF AggFrame, mainVars, captureVars, poolVars
  <2>1. CASE AggReceive \/ AggDrain
    BY <2>1 DEF AggReceive, AggDrain, ShutdownOrder
  <2>2. CASE AggClosed \/ AggTick \/ AggFinalPublish
    BY <2>2 DEF AggClosed, AggTick, AggFinalPublish, PublishSnapshot, ShutdownOrder
  <2>3. CASE AggCancel \/ AggDrained \/ AggSaveOpen \/ AggSaveWrite
    BY <2>3 DEF AggCancel, AggDrained, AggSaveOpen, AggSaveWrite, ShutdownOrder
  <2> QED
    BY <2>1, <2>2, <2>3 DEF AggNext, AggFinish
<1>7. CASE MainNext /\ MainFrame
  <2>1. ctxDone => ctxDone'
    BY <1>7 DEF MainNext, Signal, SourceEnd, MainStop, MainReport,
       MainCloseRecorder, MainCloseHandle, MainCancel, MainReturn
  <2> QED
    BY <1>7, <2>1 DEF MainFrame, channels, captureVars, poolVars, aggVars, ShutdownOrder
<1>8. CASE UNCHANGED vars
  BY <1>8 DEF vars, mainVars, channels, captureVars, poolVars, aggVars, ShutdownOrder
<1> QED
  BY <1>4, <1>5, <1>6, <1>7, <1>8 DEF Next, Exited

\* Goroutines stop and channels close in the order of the pipeline, for any
\* number of workers and slots.
THEOREM StagesStopInOrder == Spec => []ShutdownOrder
BY InitShutdownOrder, NextShutdownOrder, TypeCorrect, PTL DEF Spec

(***************************************************************************)
(* For any number of workers and slots: no goroutine sends on a closed     *)
(* channel, and packets are thrown away or left behind only by a shutdown. *)
(***************************************************************************)
THEOREM ShutdownIsSafe == Spec => [](NoSendOnClosed /\ LostOnlyByShutdown)
<1>1. TypeOK /\ ShutdownOrder => NoSendOnClosed /\ LostOnlyByShutdown
  <2> SUFFICES ASSUME TypeOK, ShutdownOrder PROVE NoSendOnClosed /\ LostOnlyByShutdown
    OBVIOUS
  <2>1. PICK v : v \in Workers
    BY PipelineAssumption DEF PipelineAssumption
  <2>2. agg \in {"select", "drain"} \/ agg \in {"save", "write", "publish", "done"}
    BY DEF TypeOK, AggOK
  <2> QED
    BY <2>1, <2>2 DEF ShutdownOrder, NoSendOnClosed, LostOnlyByShutdown
<1> QED
  BY <1>1, TypeCorrect, StagesStopInOrder, PTL

(***************************************************************************)
(* For any number of packets, workers and slots: a pipeline that ends with *)
(* its source has counted or dropped every packet and says so.             *)
(***************************************************************************)
THEOREM EndIsComplete == Spec => []CompleteAtEnd
<1>1. TypeOK /\ ExactlyOnce /\ ShutdownOrder => CompleteAtEnd
  <2> SUFFICES ASSUME TypeOK, ExactlyOnce, ShutdownOrder, agg = "done", ~ctxDone
               PROVE  /\ Range(counted) \union dropped = 1..arrived
                      /\ published = [total |-> Len(counted),
                                      dropped |-> Cardinality(dropped)]
    BY DEF CompleteAtEnd
  <2>1. PICK v : v \in Workers
    BY PipelineAssumption DEF PipelineAssumption
  <2>2. /\ outChan = <<>> /\ inChan = <<>> /\ capture = "done" /\ lost = {}
        /\ \A w \in Workers : worker[w] = "done"
    BY <2>1 DEF ShutdownOrder
  <2>3. \A w \in Workers : held[w] = 0
    BY <2>2 DEF TypeOK, PoolOK
  <2>4. InHand = {} /\ Held = {} /\ Range(inChan) = {} /\ Range(outChan) = {}
    BY <2>2, <2>3 DEF InHand, Held, Range
  <2>5. Range(counted) \union dropped = 1..arrived
    BY <2>2, <2>4 DEF ExactlyOnce, Pending, Settled
  <2> QED
    BY <2>5 DEF ShutdownOrder
<1> QED
  BY <1>1, TypeCorrect, PacketsAreExactlyOnce, StagesStopInOrder, PTL
-----------------------------------------------------------------------------
(* What the snapshots say.  HonestSnapshot is inductive with TypeOK. *)

LEMMA InitHonestSnapshot == Init => HonestSnapshot
<1> SUFFICES ASSUME Init PROVE HonestSnapshot
  OBVIOUS
<1>1. Cardinality(dropped) = 0 /\ Len(counted) = 0
  BY FS_EmptySet DEF Init, CaptureInit, AggInit
<1> QED
  BY <1>1 DEF Init, AggInit, Zero, HonestSnapshot

\* The totals a snapshot published now would have.
Now == [total |-> Len(counted), dropped |-> Cardinality(dropped)]

\* What a step may do to the history, the drop counter, the snapshot and the
\* report.
LEMMA TotalsStep ==
  ASSUME [Next]_vars
  PROVE  /\ published' \in {published, Now}
         /\ counted' = counted \/ (agg # "done" /\ counted' = Append(counted, Head(outChan)) /\ outChan # <<>>)
         /\ dropped \subseteq dropped'
         /\ agg' = "done" => counted' = counted /\ (agg = "done" \/ published' = Now)
         /\ report' = report \/ (report' = published /\ published' = published)
<1>1. CASE CaptureNext /\ CaptureFrame
  BY <1>1 DEF CaptureNext, CaptureFrame, CaptureReceive, CaptureSend, CaptureStop,
     mainVars, aggVars
<1>2. CASE (PoolClose \/ \E w \in Workers : WorkerNext(w)) /\ PoolFrame
  BY <1>2 DEF PoolFrame, mainVars, captureVars, aggVars
<1>3. CASE AggNext /\ AggFrame
  <2> USE <1>3 DEF AggFrame, mainVars, captureVars, PublishSnapshot, Now
  <2>1. CASE AggReceive \/ AggDrain
    BY <2>1 DEF AggReceive, AggDrain, AddPacket
  <2>2. CASE AggClosed \/ AggTick \/ AggFinalPublish
    BY <2>2 DEF AggClosed, AggTick, AggFinalPublish
  <2>3. CASE AggCancel \/ AggDrained \/ AggSaveOpen \/ AggSaveWrite
    BY <2>3 DEF AggCancel, AggDrained, AggSaveOpen, AggSaveWrite
  <2> QED
    BY <2>1, <2>2, <2>3 DEF AggNext, AggFinish
<1>4. CASE MainNext /\ MainFrame
  BY <1>4 DEF MainNext, MainFrame, Signal, SourceEnd, MainStop, MainReport,
     MainCloseRecorder, MainCloseHandle, MainCancel, MainReturn, captureVars, aggVars
<1>5. CASE UNCHANGED vars
  BY <1>5 DEF vars, mainVars, captureVars, aggVars
<1> QED
  BY <1>1, <1>2, <1>3, <1>4, <1>5 DEF Next, Exited

\* One more packet counted: the history is a prefix of the new one.
LEMMA CountedGrows ==
  ASSUME TypeOK, [Next]_vars
  PROVE  /\ Len(counted') >= Len(counted)
         /\ SubSeq(counted', 1, Len(counted)) = counted
<1>1. counted \in Seq(Packet) /\ outChan \in Seq(Packet) /\ Len(counted) \in Nat
  BY LenProperties DEF TypeOK, AggOK, ChannelsOK
<1>2. CASE counted' = counted
  BY <1>1, <1>2, SubSeqProperties
<1>3. CASE counted' = Append(counted, Head(outChan)) /\ outChan # <<>>
  <2>1. Head(outChan) \in Packet
    BY <1>1, <1>3, HeadTailProperties
  <2>2. Len(counted') = Len(counted) + 1 /\ counted' \in Seq(Packet)
    BY <1>1, <1>3, <2>1, AppendProperties
  <2>3. \A i \in 1..Len(counted) : counted'[i] = counted[i]
    BY <1>1, <1>3, <2>1, AppendProperties
  <2>4. /\ SubSeq(counted', 1, Len(counted)) \in Seq(Packet)
        /\ Len(SubSeq(counted', 1, Len(counted))) = Len(counted)
        /\ \A i \in 1..Len(counted) : SubSeq(counted', 1, Len(counted))[i] = counted'[i]
    BY <1>1, <2>2, SubSeqProperties
  <2> QED
    BY <1>1, <2>2, <2>3, <2>4, SeqEqual
<1> QED
  BY <1>2, <1>3, TotalsStep

LEMMA DroppedGrows ==
  ASSUME TypeOK, TypeOK', [Next]_vars
  PROVE  /\ Cardinality(dropped) \in Nat /\ Cardinality(dropped') \in Nat
         /\ Cardinality(dropped') >= Cardinality(dropped)
<1>1. dropped \subseteq Packet /\ dropped' \subseteq Packet
  BY DEF TypeOK, CaptureOK, Packet
<1> QED
  BY <1>1, TotalsStep, PacketsAreFinite, FS_Subset

LEMMA NextHonestSnapshot ==
  TypeOK /\ TypeOK' /\ HonestSnapshot /\ [Next]_vars => HonestSnapshot'
<1> SUFFICES ASSUME TypeOK, TypeOK', HonestSnapshot, [Next]_vars PROVE HonestSnapshot'
  OBVIOUS
<1>1. /\ Len(counted) \in Nat /\ Len(counted') \in Nat
      /\ {published, published', report, report'} \subseteq Totals
  BY LenProperties DEF TypeOK, AggOK, MainOK
<1>2. published' \in {published, Now}
  BY TotalsStep
<1>3. published'.total <= Len(counted') /\ published'.dropped <= Cardinality(dropped')
  BY <1>1, <1>2, CountedGrows, DroppedGrows DEF HonestSnapshot, Now, Totals
<1>4. agg' = "done" => published'.total = Len(counted')
  BY <1>1, <1>2, TotalsStep DEF HonestSnapshot, Now, Totals
<1>5. published'.total >= published.total
  BY <1>1, <1>2 DEF HonestSnapshot, Now, Totals
<1>6. report'.total <= published'.total
  BY <1>1, <1>5, TotalsStep DEF HonestSnapshot, Totals
<1> QED
  BY <1>3, <1>4, <1>6 DEF HonestSnapshot

(***************************************************************************)
(* For any number of packets, workers and slots: a snapshot never runs     *)
(* ahead of what happened, and the last one has every packet counted.      *)
(***************************************************************************)
THEOREM SnapshotIsHonest == Spec => []HonestSnapshot
BY InitHonestSnapshot, NextHonestSnapshot, TypeCorrect, PTL DEF Spec

(***************************************************************************)
(* For any number of packets, workers and slots: the totals a reader polls *)
(* never go back, and no packet that was counted is taken back.            *)
(***************************************************************************)
THEOREM TotalsNeverGoBack == Spec => TotalsOnlyGrow
<1>1. TypeOK /\ TypeOK' /\ HonestSnapshot /\ [Next]_vars =>
        [ /\ published'.total >= published.total
          /\ published'.dropped >= published.dropped
          /\ SubSeq(counted', 1, Len(counted)) = counted ]_vars
  <2> SUFFICES ASSUME TypeOK, TypeOK', HonestSnapshot, [Next]_vars
               PROVE  /\ published'.total >= published.total
                      /\ published'.dropped >= published.dropped
                      /\ SubSeq(counted', 1, Len(counted)) = counted
    OBVIOUS
  <2>1. /\ Len(counted) \in Nat /\ published \in Totals /\ published' \in Totals
    BY LenProperties DEF TypeOK, AggOK
  <2> QED
    BY <2>1, TotalsStep, CountedGrows, DroppedGrows DEF HonestSnapshot, Now, Totals
<1> QED
  BY <1>1, TypeCorrect, SnapshotIsHonest, PTL DEF Spec, TotalsOnlyGrow
-----------------------------------------------------------------------------
(* The order of packets: the recording, and how far workers overtake each  *)
(* other.                                                                  *)

Ascending(s) == \A i, j \in DOMAIN s : i < j => s[i] < s[j]

-----------------------------------------------------------------------------
(* What the operations of a channel do to an ascending sequence. *)

LEMMA AscendingAppend ==
  ASSUME NEW s \in Seq(Packet), Ascending(s), NEW p \in Packet,
         \A q \in Range(s) : q < p
  PROVE  Ascending(Append(s, p))
<1>1. /\ Len(s) \in Nat /\ DOMAIN s = 1..Len(s)
      /\ DOMAIN Append(s, p) = 1..(Len(s) + 1)
      /\ \A i \in 1..Len(s) : Append(s, p)[i] = s[i] /\ s[i] \in Range(s)
      /\ Append(s, p)[Len(s) + 1] = p
  BY AppendProperties, LenProperties DEF Range
<1> QED
  BY <1>1 DEF Ascending

LEMMA AscendingTail ==
  ASSUME NEW s \in Seq(Packet), Ascending(s), s # <<>>
  PROVE  /\ Ascending(Tail(s)) /\ NoRepeat(s)
         /\ \A p \in Range(Tail(s)) : Head(s) < p
<1>1. /\ Len(s) \in Nat \ {0} /\ DOMAIN s = 1..Len(s) /\ Head(s) = s[1]
      /\ DOMAIN Tail(s) = 1..(Len(s) - 1)
      /\ \A i \in 1..(Len(s) - 1) : Tail(s)[i] = s[i + 1]
  BY HeadTailProperties, LenProperties, EmptySeq
<1>a. \A i \in 1..Len(s) : s[i] \in Nat
  <2>1. \A i \in 1..Len(s) : s[i] \in Packet
    BY ElementOfSeq
  <2> QED
    BY <2>1 DEF Packet
<1>2. Ascending(Tail(s))
  BY <1>1 DEF Ascending
<1>3. NoRepeat(s)
  BY <1>1, <1>a DEF Ascending, NoRepeat
<1>4. \A p \in Range(Tail(s)) : Head(s) < p
  BY <1>1 DEF Ascending, Range
<1> QED
  BY <1>2, <1>3, <1>4

-----------------------------------------------------------------------------
(* FaithfulRecording is inductive with the types, once it is known that    *)
(* nothing is in the file that has not arrived.                            *)

RecordingOrder ==
  /\ Ascending(recorded)
  /\ \A p \in Range(recorded) : p <= arrived
  /\ recOpen /\ ~DiskFails => Range(recorded) = 1..arrived

LEMMA InitRecordingOrder == Init => RecordingOrder
<1> SUFFICES ASSUME Init PROVE RecordingOrder
  OBVIOUS
<1>1. recorded = <<>> /\ arrived = 0 /\ Range(recorded) = {} /\ DOMAIN recorded = {}
  BY DEF Init, CaptureInit, Range
<1> QED
  BY <1>1 DEF RecordingOrder, Ascending

LEMMA NextRecordingOrder == TypeOK /\ RecordingOrder /\ [Next]_vars => RecordingOrder'
<1> SUFFICES ASSUME TypeOK, RecordingOrder, [Next]_vars PROVE RecordingOrder'
  OBVIOUS
<1>1. /\ recorded \in Seq(Packet) /\ arrived \in Nat /\ arrived \in 0..MaxPackets
      /\ MaxPackets \in Nat
  BY PipelineAssumption DEF PipelineAssumption, TypeOK, CaptureOK
<1>2. ASSUME UNCHANGED <<recorded, arrived>>, recOpen' => recOpen
      PROVE  RecordingOrder'
  BY <1>2 DEF RecordingOrder, Ascending, Range
<1>3. CASE CaptureReceive /\ CaptureFrame
  <2> USE <1>3 DEF CaptureReceive, CaptureFrame, mainVars
  <2>1. arrived + 1 \in Packet /\ arrived' = arrived + 1
    BY <1>1 DEF Packet
  <2>2. CASE recOpen /\ recorded' = Append(recorded, arrived + 1)
    <3>1. \A q \in Range(recorded) : q < arrived + 1
      <4>1. Range(recorded) \subseteq Nat
        BY <1>1, LenProperties, ElementOfSeq DEF Range, Packet
      <4> QED
        BY <1>1, <4>1 DEF RecordingOrder
    <3>2. Ascending(recorded')
      BY <1>1, <2>1, <2>2, <3>1, AscendingAppend DEF RecordingOrder
    <3>3. Range(recorded') = Range(recorded) \union {arrived + 1}
      BY <1>1, <2>1, <2>2, RangeOfAppend
    <3>4. Range(recorded) = 1..arrived => Range(recorded') = 1..arrived'
      BY <1>1, <2>1, <3>3
    <3>5. \A p \in Range(recorded') : p <= arrived'
      <4>1. Range(recorded) \subseteq Nat
        BY <1>1, LenProperties, ElementOfSeq DEF Range, Packet
      <4> QED
        BY <1>1, <2>1, <3>1, <3>3, <4>1
    <3> QED
      BY <2>2, <3>2, <3>4, <3>5 DEF RecordingOrder
  <2>3. CASE (recOpen => DiskFails) /\ UNCHANGED recorded
    <3>1. \A p \in Range(recorded) : p <= arrived'
      <4>1. Range(recorded) \subseteq Nat
        BY <1>1, LenProperties, ElementOfSeq DEF Range, Packet
      <4> QED
        BY <1>1, <2>1, <4>1 DEF RecordingOrder
    <3> QED
      BY <2>3, <3>1 DEF RecordingOrder, Ascending, Range
  <2> QED
    BY <2>2, <2>3 DEF WritePacket
<1>4. CASE (CaptureSend \/ CaptureStop) /\ CaptureFrame
  BY <1>2, <1>4 DEF CaptureSend, CaptureStop, CaptureFrame, mainVars
<1>5. CASE (PoolClose \/ \E w \in Workers : WorkerNext(w)) /\ PoolFrame
  BY <1>2, <1>5 DEF PoolFrame, mainVars, captureVars
<1>6. CASE AggNext /\ AggFrame
  BY <1>2, <1>6 DEF AggFrame, mainVars, captureVars
<1>7. CASE MainNext /\ MainFrame
  BY <1>2, <1>7 DEF MainNext, MainFrame, captureVars, Signal, SourceEnd, MainStop,
     MainReport, MainCloseRecorder, MainCloseHandle, MainCancel, MainReturn
<1>8. CASE UNCHANGED vars
  BY <1>2, <1>8 DEF vars, mainVars, captureVars
<1> QED
  BY <1>3, <1>4, <1>5, <1>6, <1>7, <1>8 DEF Next, CaptureNext, Exited

(***************************************************************************)
(* For any number of packets, workers and slots: the recording is in       *)
(* capture order, and what reaches the statistics or the drop counter was  *)
(* in the file before, unless the disk failed or main closed the recorder. *)
(***************************************************************************)
THEOREM RecordingIsFaithful == Spec => []FaithfulRecording
<1>1. RecordingOrder => FaithfulRecording
  BY DEF RecordingOrder, FaithfulRecording, Ascending
<1> QED
  BY <1>1, InitRecordingOrder, NextRecordingOrder, TypeCorrect, PTL DEF Spec
-----------------------------------------------------------------------------
(***************************************************************************)
(* How far packets overtake each other.  What the workers took from        *)
(* packetChan came before everything that is still in it; so a packet just *)
(* taken comes after all that was passed on, and a worker that has passed  *)
(* its packet on holds none: one worker is always not behind.              *)
(***************************************************************************)
Taken == Held \union Passed

NotBehind(w) == held[w] = 0 \/ \A q \in Passed : q < held[w]

InOrder ==
  /\ Ascending(inChan)
  /\ \A p \in Range(inChan), q \in Taken : q < p
  /\ \E w \in Workers : NotBehind(w)

LEMMA InitInOrder == Init => InOrder
<1> SUFFICES ASSUME Init PROVE InOrder
  OBVIOUS
<1>1. inChan = <<>> /\ Range(inChan) = {} /\ DOMAIN inChan = {}
  BY DEF Init, CaptureInit, Range
<1>2. PICK w \in Workers : TRUE
  BY PipelineAssumption DEF PipelineAssumption
<1>3. NotBehind(w)
  BY DEF Init, PoolInit, NotBehind
<1> QED
  BY <1>1, <1>3 DEF InOrder, Ascending

\* What is in the hands of the capture came after everything else.
LEMMA NewestInHand ==
  ASSUME TypeOK, ExactlyOnce
  PROVE  /\ \A p \in Taken \union Range(inChan) : p \in Nat /\ p <= arrived
         /\ capture = "send" => \A p \in Taken \union Range(inChan) : p < arrived
<1>1. /\ Taken \union Range(inChan) \subseteq Pending \union Settled
      /\ Pending \union Settled = 1..arrived /\ arrived \in Nat
  BY PipelineAssumption
     DEF PipelineAssumption, TypeOK, CaptureOK, ExactlyOnce, Taken, Passed, Pending, Settled
<1>2. \A p \in Taken \union Range(inChan) : p \in Nat /\ p <= arrived
  BY <1>1
<1>3. ASSUME capture = "send" PROVE arrived \notin Taken \union Range(inChan)
  <2>1. Places[1] = {arrived}
    BY <1>3, PlacesAre DEF InHand
  <2>2. \A k \in 2..7 : arrived \notin Places[k]
    BY <2>1, PlacesDomain DEF ExactlyOnce, Disjoint
  <2> QED
    BY <2>2, PlacesAre DEF Taken, Passed
<1> QED
  BY <1>1, <1>2, <1>3

LEMMA NextInOrder ==
  TypeOK /\ ExactlyOnce /\ InOrder /\ [Next]_vars => InOrder'
<1> SUFFICES ASSUME TypeOK, ExactlyOnce, InOrder, [Next]_vars PROVE InOrder'
  OBVIOUS
<1>1. /\ inChan \in Seq(Packet) /\ outChan \in Seq(Packet) /\ counted \in Seq(Packet)
      /\ held \in [Workers -> 0..MaxPackets]
  BY DEF TypeOK, ChannelsOK, PoolOK, AggOK
<1>2. PICK u \in Workers : NotBehind(u)
  BY DEF InOrder
<1>3. ASSUME UNCHANGED <<inChan, held, outChan, counted>> PROVE InOrder'
  BY <1>3 DEF InOrder, NotBehind, Taken, Held, Passed, Ascending, Range
<1>4. CASE CaptureSend /\ CaptureFrame
  <2> USE <1>4 DEF CaptureSend, CaptureFrame, poolVars, aggVars
  <2>1. CASE inChan' = Append(inChan, arrived)
    <3>1. arrived \in Packet /\ \A q \in Taken \union Range(inChan) : q < arrived
      BY NewestInHand DEF TypeOK, CaptureOK, Packet
    <3>2. Ascending(inChan') /\ Range(inChan') = Range(inChan) \union {arrived}
      BY <1>1, <2>1, <3>1, AscendingAppend, RangeOfAppend DEF InOrder
    <3>3. Taken' = Taken /\ NotBehind(u)'
      BY <1>2 DEF Taken, Held, Passed, NotBehind
    <3> QED
      BY <1>2, <3>1, <3>2, <3>3 DEF InOrder
  <2>2. CASE UNCHANGED inChan
    BY <1>3, <2>2
  <2> QED
    BY <2>1, <2>2
<1>5. CASE (CaptureReceive \/ CaptureStop) /\ CaptureFrame
  BY <1>3, <1>5 DEF CaptureReceive, CaptureStop, CaptureFrame, poolVars, aggVars
<1>6. CASE PoolClose /\ PoolFrame
  BY <1>3, <1>6 DEF PoolClose, PoolFrame, aggVars
<1>7. ASSUME NEW w \in Workers, WorkerNext(w), PoolFrame PROVE InOrder'
  <2> USE <1>7 DEF PoolFrame, aggVars
  <2>1. CASE WorkerRecv(w)
    <3> USE <2>1 DEF WorkerRecv
    <3>1. /\ Ascending(inChan') /\ \A p \in Range(inChan') : Head(inChan) < p
          /\ Head(inChan) \in Range(inChan) /\ Range(inChan') \subseteq Range(inChan)
      BY <1>1, AscendingTail, RangeOfTail DEF InOrder
    <3>2. held'[w] = Head(inChan) /\ Taken' \subseteq Taken \union {Head(inChan)}
      BY <1>1 DEF Taken, Held, Passed
    <3>3. NotBehind(w)'
      BY <3>1, <3>2 DEF InOrder, NotBehind, Taken, Passed
    <3> QED
      BY <1>7, <3>1, <3>2, <3>3 DEF InOrder
  <2>2. CASE WorkerStop(w)
    BY <1>3, <2>2 DEF WorkerStop
  <2>3. CASE WorkerSend(w)
    <3> USE <2>3 DEF WorkerSend
    <3>1. held[w] \in Held /\ held[w] \in Packet /\ held'[w] = 0 /\ Held' \subseteq Held
      BY <1>1 DEF TypeOK, PoolOK, Held, Packet
    <3>2. Passed' = Passed \union {held[w]}
      BY <1>1, <3>1, RangeOfAppend DEF Passed
    <3>3. Taken' \subseteq Taken /\ NotBehind(w)'
      BY <3>1, <3>2 DEF Taken, NotBehind
    <3> QED
      BY <1>7, <3>3 DEF InOrder, Ascending, Range
  <2>4. CASE WorkerAbandon(w)
    <3> USE <2>4 DEF WorkerAbandon
    <3>1. held'[w] = 0 /\ Held' \subseteq Held /\ Passed' = Passed
      BY <1>1 DEF Held, Passed
    <3>2. Taken' \subseteq Taken /\ NotBehind(w)'
      BY <3>1 DEF Taken, NotBehind
    <3>3. Ascending(inChan') /\ Range(inChan') = Range(inChan)
      BY DEF InOrder, Ascending, Range
    <3> QED
      BY <1>7, <3>2, <3>3 DEF InOrder
  <2> QED
    BY <1>7, <2>1, <2>2, <2>3, <2>4 DEF WorkerNext
<1>8. CASE (AggReceive \/ AggDrain) /\ AggFrame
  <2> USE <1>8 DEF AggReceive, AggDrain, AddPacket, AggFrame, poolVars
  <2>a. Head(outChan) \in Packet
    BY <1>1, ChannelReceive
  <2>b. Range(counted') = Range(counted) \union {Head(outChan)}
    <3>1. counted' = Append(counted, Head(outChan)) /\ counted \in Seq(Packet)
      BY <1>1
    <3>2. Range(Append(counted, Head(outChan))) = Range(counted) \union {Head(outChan)}
      BY ONLY <2>a, <3>1, RangeOfAppend
    <3> QED
      BY <3>1, <3>2
  <2>1. /\ Range(outChan') = Range(outChan) \ {Head(outChan)}
        /\ Head(outChan) \in Range(outChan)
    BY <1>1, RangeOfTail DEF ExactlyOnce
  <2>2. Passed' = Passed
    BY <2>b, <2>1 DEF Passed
  <2>3. Taken' = Taken /\ NotBehind(u)'
    BY <1>2, <2>2 DEF Taken, Held, NotBehind
  <2> QED
    BY <1>2, <2>3 DEF InOrder, Ascending, Range
<1>9. CASE (AggClosed \/ AggTick \/ AggCancel \/ AggFinish) /\ AggFrame
  BY <1>3, <1>9 DEF AggClosed, AggTick, AggCancel, AggFinish, AggDrained,
     AggSaveOpen, AggSaveWrite, AggFinalPublish, AggFrame, poolVars
<1>10. CASE MainNext /\ MainFrame
  BY <1>3, <1>10 DEF MainFrame, channels, poolVars, aggVars
<1>11. CASE UNCHANGED vars
  BY <1>3, <1>11 DEF vars, channels, poolVars, aggVars
<1> QED
  BY <1>4, <1>5, <1>6, <1>7, <1>8, <1>9, <1>10, <1>11
     DEF Next, CaptureNext, AggNext, Exited

(***************************************************************************)
(* For any number of packets, workers and slots: a packet that a later one *)
(* has overtaken is in the hands of a worker, and one worker is not late.  *)
(***************************************************************************)
THEOREM OvertakingIsBounded == Spec => []OvertakenAreHeld
<1>1. TypeOK /\ ExactlyOnce /\ InOrder => OvertakenAreHeld
  <2> SUFFICES ASSUME TypeOK, ExactlyOnce, InOrder PROVE OvertakenAreHeld
    OBVIOUS
  <2>1. \A p \in Taken \union Range(inChan) : p \in Nat /\ p <= arrived
    BY NewestInHand
  <2>2. ASSUME NEW p \in InHand, NEW q \in Passed, q > p PROVE FALSE
    <3>1. p = arrived /\ arrived \in Nat
      BY <2>2, PipelineAssumption DEF InHand, TypeOK, CaptureOK, PipelineAssumption
    <3> QED
      BY <2>1, <2>2, <3>1 DEF Taken
  <2>3. ASSUME NEW p \in Range(inChan), NEW q \in Passed, q > p PROVE FALSE
    BY <2>1, <2>3 DEF InOrder, Taken
  <2>4. Overtaken \subseteq Held
    BY <2>2, <2>3 DEF Overtaken, Pending, Passed
  <2>5. PICK w \in Workers : NotBehind(w)
    BY DEF InOrder
  <2>6. held[w] \notin Overtaken
    <3>1. CASE held[w] = 0
      BY <2>4, <3>1 DEF Held
    <3>2. CASE held[w] # 0 /\ \A q \in Passed : q < held[w]
      <4>1. held[w] \in Nat
        BY <2>1, <3>2 DEF Taken, Held
      <4>2. \A q \in Passed : q \in Nat
        BY <2>1 DEF Taken
      <4> QED
        BY <3>2, <4>1, <4>2 DEF Overtaken
    <3> QED
      BY <2>5, <3>1, <3>2 DEF NotBehind
  <2> QED
    BY <2>4, <2>6 DEF OvertakenAreHeld
<1> QED
  BY <1>1, InitInOrder, NextInOrder, TypeCorrect, PacketsAreExactlyOnce, PTL DEF Spec

(***************************************************************************)
(* For any number of packets, workers and slots: a decoded packet is       *)
(* thrown away or left behind in a channel only by the shutdown.           *)
(***************************************************************************)
THEOREM LossNeedsShutdown == Spec => []LostOnlyByShutdown
BY ShutdownIsSafe, PTL
=============================================================================
