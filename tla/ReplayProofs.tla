---------------------------- MODULE ReplayProofs ----------------------------
(***************************************************************************)
(* Theorems about replay mode, for any recording, any size of the channel  *)
(* and any number of keys.                                                 *)
(***************************************************************************)
EXTENDS Replay, TLAPS, SequenceTheorems

LEMMA RecordingIsNotEmpty == N \in Nat /\ N > 0
BY LenProperties, EmptySeq, ReplayAssumption DEF ReplayAssumption, N

-----------------------------------------------------------------------------
(* What the keys may do. *)

\* A key toggles the pause, moves the position into the recording, changes
\* the speed or panics; it does one of these and leaves the rest alone.
LEMMA KeyEffect ==
  ASSUME Key, currentIndex \in 0..N, speed \in {"0.5x", "1x", "2x", "4x", "8x"}
  PROVE  \/ /\ isPaused' = ~isPaused /\ sincePause' = 0
            /\ UNCHANGED <<currentIndex, speed, sent, origin, trail, process>>
         \/ /\ \E i \in 0..(N - 1) : currentIndex' = i /\ origin' = i /\ trail' = <<>>
            /\ UNCHANGED <<isPaused, speed, sent, sincePause, process>>
         \/ /\ speed' \in {"0.5x", "1x", "2x", "4x", "8x"}
            /\ UNCHANGED <<currentIndex, isPaused, sent, sincePause, origin, trail, process>>
         \/ process' = "panicked" /\ UNCHANGED <<position, history>>
<1> USE RecordingIsNotEmpty
<1>1. CASE TogglePause /\ UNCHANGED process
  BY <1>1 DEF TogglePause
<1>2. CASE CycleSpeed /\ UNCHANGED process
  BY <1>2 DEF CycleSpeed, Faster, history
<1>3. CASE SetSpeed /\ UNCHANGED process
  BY <1>3 DEF SetSpeed, history
<1>4. CASE (JumpStart \/ JumpEnd) /\ UNCHANGED process
  BY <1>4 DEF JumpStart, JumpEnd, Seek
<1>5. CASE StepForward /\ UNCHANGED process
  <2>1. PICK i \in currentIndex..(N - 1) : Seek(i)
    BY <1>5 DEF StepForward
  <2> QED
    BY <1>5, <2>1 DEF Seek
<1>6. CASE StepBackward /\ UNCHANGED process
  <2>1. PICK i \in 0..currentIndex : Seek(i) /\ currentIndex < N
    BY <1>6 DEF StepBackward, InRange
  <2> QED
    BY <1>6, <2>1 DEF Seek
<1>7. CASE Panic
  BY <1>7 DEF Panic
<1> QED
  BY <1>1, <1>2, <1>3, <1>4, <1>5, <1>6, <1>7 DEF Key

-----------------------------------------------------------------------------
(* Type correctness. *)

LEMMA InitTypeOK == Init => TypeOK
<1> SUFFICES ASSUME Init PROVE TypeOK
  OBVIOUS
<1>1. outChan \in Seq(0..(N - 1)) /\ Len(outChan) <= BufSize
  BY ReplayAssumption DEF ReplayAssumption, Init
<1>2. inHand \in 0..(N - 1) /\ currentIndex \in 0..N
  BY RecordingIsNotEmpty DEF Init
<1> QED
  BY <1>1, <1>2 DEF Init, TypeOK

LEMMA EngineTypeOK == TypeOK /\ EngineNext /\ EngineFrame => TypeOK'
<1> SUFFICES ASSUME TypeOK, EngineNext, EngineFrame PROVE TypeOK'
  OBVIOUS
<1> USE RecordingIsNotEmpty DEF TypeOK, EngineFrame, position
<1>1. CASE EngineLoop
  <2>1. engine' \in {"pick", "done"} /\ (outClosed' <=> engine' = "done")
    BY <1>1 DEF EngineLoop
  <2> QED
    BY <1>1, <2>1 DEF EngineLoop
<1>2. CASE EnginePick
  BY <1>2 DEF EnginePick, MayPick
<1>3. CASE EngineSend
  <2>1. /\ Append(outChan, inHand) \in Seq(0..(N - 1))
        /\ Len(Append(outChan, inHand)) = Len(outChan) + 1
        /\ Len(outChan) \in Nat
    BY AppendProperties, LenProperties
  <2> QED
    BY <1>3, <2>1, ReplayAssumption DEF EngineSend, ReplayAssumption
<1>4. CASE EngineAbandon
  BY <1>4 DEF EngineAbandon
<1> QED
  BY <1>1, <1>2, <1>3, <1>4 DEF EngineNext

LEMMA KeyTypeOK == TypeOK /\ Key /\ KeyFrame => TypeOK'
<1> SUFFICES ASSUME TypeOK, Key, KeyFrame PROVE TypeOK'
  OBVIOUS
<1>1. /\ currentIndex' \in 0..N /\ isPaused' \in BOOLEAN
      /\ speed' \in {"0.5x", "1x", "2x", "4x", "8x"}
      /\ process' \in {"running", "exited", "panicked"}
  <2>1. currentIndex' = currentIndex \/ currentIndex' \in 0..(N - 1)
    BY KeyEffect DEF TypeOK, position
  <2>2. isPaused' = isPaused \/ isPaused' = ~isPaused
    BY KeyEffect DEF TypeOK, position
  <2>3. speed' = speed \/ speed' \in {"0.5x", "1x", "2x", "4x", "8x"}
    BY KeyEffect DEF TypeOK, position
  <2>4. process' = process \/ process' = "panicked"
    BY KeyEffect DEF TypeOK
  <2>5. currentIndex' \in 0..N
    BY <2>1, RecordingIsNotEmpty DEF TypeOK
  <2> QED
    BY <2>2, <2>3, <2>4, <2>5, Zenon DEF TypeOK
<1> QED
  BY <1>1 DEF TypeOK, KeyFrame, engineVars

LEMMA AggTypeOK == TypeOK /\ AggNext /\ AggFrame => TypeOK'
<1> SUFFICES ASSUME TypeOK, AggNext, AggFrame PROVE TypeOK'
  OBVIOUS
<1>1. UNCHANGED outClosed /\ (outChan' = outChan \/ (outChan # <<>> /\ outChan' = Tail(outChan)))
  BY DEF AggNext, AggReceive, AggClosed, AggTick, AggCancel, AggDrain, AggFinish,
     AggDrained, AggSaveOpen, AggSaveWrite, AggFinalPublish, AddPacket
<1>2. outChan' \in Seq(0..(N - 1)) /\ Len(outChan') <= BufSize
  <2>1. outChan \in Seq(0..(N - 1)) /\ Len(outChan) <= BufSize /\ BufSize \in Nat
    BY ReplayAssumption DEF TypeOK, ReplayAssumption
  <2>2. CASE outChan # <<>> /\ outChan' = Tail(outChan)
    <3>1. Tail(outChan) \in Seq(0..(N - 1)) /\ Len(Tail(outChan)) = Len(outChan) - 1
      BY <2>1, <2>2, HeadTailProperties
    <3> QED
      BY <2>1, <2>2, <3>1, LenProperties
  <2> QED
    BY <1>1, <2>1, <2>2
<1> QED
  BY <1>1, <1>2 DEF TypeOK, AggFrame, engineVars, position

LEMMA NextTypeOK == TypeOK /\ [Next]_vars => TypeOK'
<1> SUFFICES ASSUME TypeOK, [Next]_vars PROVE TypeOK'
  OBVIOUS
<1>1. CASE (Cancel \/ Exit) /\ MainFrame
  BY <1>1 DEF Cancel, Exit, MainFrame, TypeOK, engineVars, position
<1>2. CASE UNCHANGED vars
  BY <1>2 DEF TypeOK, vars, engineVars, position
<1> QED
  BY <1>1, <1>2, EngineTypeOK, KeyTypeOK, AggTypeOK DEF Next, Gone

\* Every reachable state of replay mode is well typed, the position included,
\* for any recording: no key moves it out of the recording.
THEOREM TypeCorrect == Spec => []TypeOK
BY InitTypeOK, NextTypeOK, PTL DEF Spec

-----------------------------------------------------------------------------
(***************************************************************************)
(* The pause.  A packet that waits to be sent in a pause has been picked   *)
(* before it, and nothing has been sent since.                             *)
(***************************************************************************)
Paused ==
  isPaused => sincePause = 0 \/ (sincePause = 1 /\ engine # "send")

LEMMA NextPaused == TypeOK /\ Paused /\ [Next]_vars => Paused'
<1> SUFFICES ASSUME TypeOK, Paused, [Next]_vars PROVE Paused'
  OBVIOUS
<1>1. CASE EngineNext /\ EngineFrame
  <2> USE DEF position, history, Paused
  <2>1. CASE EngineLoop
    BY <2>1 DEF EngineLoop
  <2>2. CASE EnginePick
    BY <2>2 DEF EnginePick, MayPick
  <2>3. CASE EngineSend
    BY <2>3 DEF EngineSend
  <2>4. CASE EngineAbandon
    BY <2>4 DEF EngineAbandon
  <2> QED
    BY <1>1, <2>1, <2>2, <2>3, <2>4 DEF EngineNext
<1>2. CASE Key /\ KeyFrame
  BY <1>2, KeyEffect DEF KeyFrame, engineVars, position, history, Paused, TypeOK
<1>3. CASE (AggNext /\ AggFrame) \/ ((Cancel \/ Exit) /\ MainFrame) \/ UNCHANGED vars
  BY <1>3 DEF AggFrame, MainFrame, vars, engineVars, position, history, Paused
<1> QED
  BY <1>1, <1>2, <1>3 DEF Next, Gone

(***************************************************************************)
(* For any recording, channel and keys: in a pause at most the one packet  *)
(* that had been picked before is still played.                            *)
(***************************************************************************)
THEOREM PauseIsKept == Spec => []PauseHolds
<1>1. Init => Paused
  BY DEF Init, Paused
<1>2. Paused => PauseHolds
  BY DEF Paused, PauseHolds
<1> QED
  BY <1>1, <1>2, NextPaused, TypeCorrect, PTL DEF Spec

-----------------------------------------------------------------------------
(* The seek.  SeekHolds is inductive with the types of its history. *)

SeekInv == origin \in Nat /\ trail \in Seq(Nat) /\ SeekHolds

LEMMA NextSeekInv == TypeOK /\ SeekInv /\ [Next]_vars => SeekInv'
<1> SUFFICES ASSUME TypeOK, SeekInv, [Next]_vars PROVE SeekInv'
  OBVIOUS
<1>1. CASE UNCHANGED <<origin, trail, currentIndex>>
  BY <1>1 DEF SeekInv, SeekHolds
<1>2. CASE EnginePick /\ MayPick
  <2>1. trail' = Append(trail, currentIndex) /\ currentIndex' = currentIndex + 1
        /\ origin' = origin
    BY <1>2 DEF EnginePick
  <2>2. currentIndex \in Nat /\ Len(trail) \in Nat
    BY RecordingIsNotEmpty, LenProperties DEF TypeOK, SeekInv
  <2>3. /\ trail' \in Seq(Nat) /\ Len(trail') = Len(trail) + 1
        /\ \A i \in 1..Len(trail) : trail'[i] = trail[i]
        /\ trail'[Len(trail) + 1] = currentIndex
    BY <2>1, <2>2, AppendProperties DEF SeekInv
  <2>4. DOMAIN trail = 1..Len(trail) /\ DOMAIN trail' = 1..(Len(trail) + 1)
    BY <2>3, LenProperties DEF SeekInv
  <2>5. \A i \in DOMAIN trail' : trail'[i] = origin + i - 1
    BY <2>2, <2>3, <2>4 DEF SeekInv, SeekHolds
  <2> QED
    BY <2>1, <2>2, <2>3, <2>5 DEF SeekInv, SeekHolds
<1>3. CASE Key /\ KeyFrame
  <2>1. CASE UNCHANGED <<currentIndex, origin, trail>>
    BY <1>1, <2>1
  <2>2. CASE \E i \in 0..(N - 1) : currentIndex' = i /\ origin' = i /\ trail' = <<>>
    BY <2>2, RecordingIsNotEmpty DEF SeekInv, SeekHolds
  <2> QED
    BY <1>3, <2>1, <2>2, KeyEffect DEF TypeOK, position, history
<1>4. CASE EngineNext /\ EngineFrame
  BY <1>1, <1>2, <1>4 DEF EngineNext, EngineLoop, EnginePick, EngineSend, EngineAbandon,
     position, history
<1>5. CASE (AggNext /\ AggFrame) \/ ((Cancel \/ Exit) /\ MainFrame) \/ UNCHANGED vars
  BY <1>1, <1>5 DEF AggFrame, MainFrame, vars, position, history
<1> QED
  BY <1>3, <1>4, <1>5 DEF Next, Gone

(***************************************************************************)
(* For any recording, channel and keys: from the last seek on packets are  *)
(* picked one by one from where it went.                                   *)
(***************************************************************************)
THEOREM SeekIsKept == Spec => []SeekHolds
<1>1. Init => SeekInv
  BY DEF Init, SeekInv, SeekHolds
<1>2. SeekInv => SeekHolds
  BY DEF SeekInv
<1> QED
  BY <1>1, <1>2, NextSeekInv, TypeCorrect, PTL DEF Spec
-----------------------------------------------------------------------------
(* What is played is counted. *)

\* Taking the head of one sequence to the end of another.
LEMMA MoveHead ==
  ASSUME NEW S, NEW s \in Seq(S), NEW t \in Seq(S), t # <<>>
  PROVE  Append(s, Head(t)) \in Seq(S) /\ Append(s, Head(t)) \o Tail(t) = s \o t
<1>1. Head(t) \in S /\ Tail(t) \in Seq(S) /\ <<Head(t)>> \in Seq(S)
  BY HeadTailProperties
<1>2. Append(s, Head(t)) = s \o <<Head(t)>> /\ Append(s, Head(t)) \in Seq(S)
  BY <1>1, AppendIsConcat, AppendProperties
<1>3. <<Head(t)>> \o Tail(t) = t
  BY HeadTailProperties, ConcatProperties, SeqEqual
<1>4. (s \o <<Head(t)>>) \o Tail(t) = s \o (<<Head(t)>> \o Tail(t))
  BY <1>1, ConcatAssociative
<1> QED
  BY <1>2, <1>3, <1>4

LEMMA ConcatAppend ==
  ASSUME NEW S, NEW s \in Seq(S), NEW t \in Seq(S), NEW e \in S
  PROVE  /\ Append(t, e) \in Seq(S)
         /\ s \o Append(t, e) = Append(s \o t, e)
<1>1. <<e>> \in Seq(S) /\ s \o t \in Seq(S)
  BY ConcatProperties
<1>2. Append(t, e) = t \o <<e>> /\ Append(s \o t, e) = (s \o t) \o <<e>>
  BY <1>1, AppendIsConcat
<1> QED
  BY <1>1, <1>2, ConcatAssociative, AppendProperties

Packets == 0..(N - 1)

(***************************************************************************)
(* The drain ends only when the channel is closed and empty, and the       *)
(* engine sends nothing any more once it is closed.                        *)
(***************************************************************************)
PlayedInv ==
  /\ counted \in Seq(Packets) /\ sent \in Seq(Packets)
  /\ agg \in {"select", "drain", "save", "write", "publish", "done"}
  /\ counted \o outChan = sent
  /\ agg \in {"save", "write", "publish", "done"} => outClosed /\ outChan = <<>>
  /\ agg = "done" => published.total = Len(counted)

LEMMA NextPlayedInv == TypeOK /\ PlayedInv /\ [Next]_vars => PlayedInv'
<1> SUFFICES ASSUME TypeOK, PlayedInv, [Next]_vars PROVE PlayedInv'
  OBVIOUS
<1>1. outChan \in Seq(Packets) /\ (outClosed <=> engine = "done") /\ inHand \in Packets
  BY DEF TypeOK, Packets
<1>2. CASE EngineNext /\ EngineFrame
  <2> USE <1>1, <1>2 DEF EngineFrame, aggVars, PlayedInv
  <2>1. CASE EngineLoop
    <3>1. ~outClosed /\ UNCHANGED <<outChan, sent>>
      BY <2>1 DEF EngineLoop, history
    <3> QED
      BY <3>1
  <2>2. CASE EnginePick
    BY <2>2 DEF EnginePick
  <2>3. CASE EngineSend
    <3>1. counted \o Append(outChan, inHand) = Append(counted \o outChan, inHand)
      <4>1. counted \in Seq(Packets) /\ outChan \in Seq(Packets) /\ inHand \in Packets
        OBVIOUS
      <4> HIDE <1>1, <1>2 DEF PlayedInv
      <4> QED
        BY <4>1, ConcatAppend
    <3>2. Append(sent, inHand) \in Seq(Packets)
      BY AppendProperties
    <3>3. ~outClosed
      BY <2>3 DEF EngineSend
    <3>4. /\ outChan' = Append(outChan, inHand) /\ sent' = Append(sent, inHand)
          /\ UNCHANGED <<outClosed, agg, counted, published>>
      BY <2>3 DEF EngineSend
    <3> QED
      BY <3>1, <3>2, <3>3, <3>4
  <2>4. CASE EngineAbandon
    BY <2>4 DEF EngineAbandon, history
  <2> QED
    BY <2>1, <2>2, <2>3, <2>4 DEF EngineNext
<1>3. CASE AggNext /\ AggFrame
  <2> USE <1>1, <1>3 DEF AggFrame, history
  <2>1. CASE AggReceive \/ AggDrain
    <3>1. /\ outChan # <<>> /\ outChan' = Tail(outChan)
          /\ counted' = Append(counted, Head(outChan))
          /\ agg' = agg /\ agg \in {"select", "drain"}
          /\ UNCHANGED <<outClosed, published, sent>>
      BY <2>1 DEF AggReceive, AggDrain, AddPacket
    <3>2. /\ Append(counted, Head(outChan)) \in Seq(Packets)
          /\ Append(counted, Head(outChan)) \o Tail(outChan) = counted \o outChan
      BY <3>1, MoveHead DEF PlayedInv
    <3> QED
      BY <3>1, <3>2 DEF PlayedInv
  <2>2. CASE AggClosed \/ AggTick \/ AggFinalPublish
    <3>1. /\ published'.total = Len(counted)
          /\ UNCHANGED <<outChan, outClosed, counted, sent>>
      BY <2>2 DEF AggClosed, AggTick, AggFinalPublish, PublishSnapshot
    <3>2. \/ agg' = agg
          \/ agg = "publish" /\ agg' = "done"
          \/ agg = "select" /\ outClosed /\ outChan = <<>> /\ agg' = "done"
      BY <2>2 DEF AggClosed, AggTick, AggFinalPublish
    <3> QED
      BY <3>1, <3>2 DEF PlayedInv
  <2>3. CASE AggCancel \/ AggDrained \/ AggSaveOpen \/ AggSaveWrite
    BY <2>3 DEF AggCancel, AggDrained, AggSaveOpen, AggSaveWrite, PlayedInv
  <2> QED
    BY <2>1, <2>2, <2>3 DEF AggNext, AggFinish
<1>4. CASE Key /\ KeyFrame
  <2>1. UNCHANGED sent
    BY <1>4, KeyEffect DEF TypeOK, position, history
  <2> QED
    BY <1>4, <2>1 DEF KeyFrame, aggVars, PlayedInv
<1>5. CASE ((Cancel \/ Exit) /\ MainFrame) \/ UNCHANGED vars
  BY <1>5 DEF MainFrame, vars, aggVars, history, PlayedInv
<1> QED
  BY <1>2, <1>3, <1>4, <1>5 DEF Next, Gone

(***************************************************************************)
(* For any recording, channel and keys: the packets counted and those in   *)
(* the channel are the packets sent, and the aggregator stops only when it *)
(* has counted and shown them all.                                         *)
(***************************************************************************)
THEOREM AllPlayedIsCounted == Spec => []PlayedIsCounted
<1>1. Init => PlayedInv
  <2>1. <<>> \in Seq(Packets) /\ <<>> \o <<>> = <<>>
    BY ConcatEmptySeq
  <2> QED
    BY <2>1 DEF Init, AggInit, PlayedInv
<1>2. TypeOK /\ PlayedInv => PlayedIsCounted
  <2> SUFFICES ASSUME PlayedInv PROVE PlayedIsCounted
    OBVIOUS
  <2>1. counted \o <<>> = counted
    BY ConcatEmptySeq DEF PlayedInv
  <2> QED
    BY <2>1 DEF PlayedInv, PlayedIsCounted
<1> QED
  BY <1>1, <1>2, NextPlayedInv, TypeCorrect, PTL DEF Spec
=============================================================================
