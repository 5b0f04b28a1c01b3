------------------------------- MODULE Replay -------------------------------
(***************************************************************************)
(* Replay mode: replay.ReplayEngine, the keys of the dashboard that drive  *)
(* it, and the aggregator that counts what it plays.  The engine runs in a *)
(* goroutine of its own and the keys in the goroutine of the dashboard;    *)
(* the engine's mutex guards the position, the pause and the speed.        *)
(*                                                                         *)
(* A packet is its index in the recording.  The delays between packets are *)
(* not modelled: they only make a step take longer.                        *)
(***************************************************************************)
EXTENDS Integers, Sequences, FiniteSets

CONSTANTS
    Times,       \* timestamps of the recording: Times[i + 1] is that of packet i
    BufSize,
    StepSeconds, \* what the arrow keys step by: 5 in the code
    MaxKeys,     \* bound: keys pressed
    Headless,    \* no dashboard, hence no keys
    DiskFails

ASSUME ReplayAssumption ==
    /\ Times \in Seq(Nat) /\ Times # <<>>    \* NewReplayEngine refuses an empty recording
    /\ BufSize \in Nat \ {0} /\ StepSeconds \in Nat \ {0} /\ MaxKeys \in Nat

VARIABLES
    ctxDone, outChan, outClosed,
    agg, counted, published, baseFile,
    engine,      \* "loop", "pick", "send" or "done"
    inHand,      \* the packet picked and not yet sent
    currentIndex, isPaused, speed,
    process,     \* "running", "exited" or "panicked"
    keys,        \* history: keys pressed
    sent,        \* history: packets sent to outChan
    sincePause,  \* history: packets sent since isPaused last became TRUE
    origin,      \* history: where the last seek went,
    trail        \* history: and the packets picked since

INSTANCE Aggregator WITH dropped <- {}   \* no drop counter in replay mode

N == Len(Times)
At(i) == Times[i + 1]

position == <<currentIndex, isPaused, speed>>
history == <<sent, sincePause, origin, trail>>
aggVars == <<agg, counted, published, baseFile>>
engineVars == <<engine, inHand>>
vars == <<ctxDone, outChan, outClosed, aggVars, engineVars, position, process,
          keys, history>>

Init ==
    /\ ctxDone = FALSE
    /\ outChan = <<>> /\ outClosed = FALSE
    /\ AggInit
    /\ engine = "loop" /\ inHand = 0
    /\ currentIndex = 0 /\ isPaused = FALSE /\ speed = "1x"
    /\ process = "running"
    /\ keys = 0 /\ sent = <<>> /\ sincePause = 0 /\ origin = 0 /\ trail = <<>>
-----------------------------------------------------------------------------
(* ReplayEngine.Run *)

\* The check of ctx.Done() at the top of the loop.
EngineLoop ==
    /\ engine = "loop"
    /\ engine' = IF ctxDone THEN "done" ELSE "pick"
    /\ outClosed' = ctxDone
    /\ UNCHANGED <<inHand, outChan, position, history>>

\* Mutant of MayPick: the pause is not looked at.
MayPickInPause == currentIndex < N

\* Mutant of MayPick: the last packet is never played.
MayPickButLast == currentIndex < N - 1 /\ ~isPaused

MayPick == currentIndex < N /\ ~isPaused

\* Under the mutex: sleep and try again at the end of the recording or in a
\* pause, else take the packet and move on.
EnginePick ==
    /\ engine = "pick"
    /\ IF MayPick
       THEN /\ engine' = "send"
            /\ inHand' = currentIndex
            /\ currentIndex' = currentIndex + 1
            /\ trail' = Append(trail, currentIndex)
       ELSE /\ engine' = "loop"
            /\ UNCHANGED <<inHand, currentIndex, trail>>
    /\ UNCHANGED <<outChan, outClosed, isPaused, speed, sent, sincePause, origin>>

\* Mutant of EngineSend: the position moves on after the send, without the mutex.
EngineSendMovesOn ==
    /\ engine = "send"
    /\ Len(outChan) < BufSize
    /\ outChan' = Append(outChan, inHand)
    /\ sent' = Append(sent, inHand)
    /\ sincePause' = sincePause + 1
    /\ currentIndex' = inHand + 1
    /\ engine' = "loop"
    /\ UNCHANGED <<outClosed, inHand, isPaused, speed, origin, trail>>

EngineSend ==
    /\ engine = "send"
    /\ Len(outChan) < BufSize
    /\ outChan' = Append(outChan, inHand)
    /\ sent' = Append(sent, inHand)
    /\ sincePause' = sincePause + 1
    /\ engine' = "loop"
    /\ UNCHANGED <<outClosed, inHand, position, origin, trail>>

\* Mutant of EngineAbandon: this return does not close the channel.
EngineAbandonOpen ==
    /\ engine = "send"
    /\ ctxDone
    /\ engine' = "done"
    /\ UNCHANGED <<outChan, outClosed, inHand, position, history>>

EngineAbandon ==
    /\ engine = "send"
    /\ ctxDone
    /\ engine' = "done"
    /\ outClosed' = TRUE
    /\ UNCHANGED <<outChan, inHand, position, history>>

EngineNext == EngineLoop \/ EnginePick \/ EngineSend \/ EngineAbandon
-----------------------------------------------------------------------------
(* The keys: ' ', '+', '-', the arrows, Home and End. *)

Seek(i) ==
    /\ currentIndex' = i
    /\ origin' = i /\ trail' = <<>>
    /\ UNCHANGED <<isPaused, speed, sent, sincePause>>

TogglePause ==
    /\ isPaused' = ~isPaused
    /\ sincePause' = 0
    /\ UNCHANGED <<currentIndex, speed, sent, origin, trail>>

Faster(s) ==
    CASE s = "1x" -> "2x" [] s = "2x" -> "4x" [] s = "4x" -> "8x"
      [] s = "8x" -> "0.5x" [] OTHER -> "1x"

CycleSpeed == speed' = Faster(speed) /\ UNCHANGED <<currentIndex, isPaused, history>>
SetSpeed == speed' = "1x" /\ UNCHANGED <<currentIndex, isPaused, history>>

JumpStart == Seek(0)
JumpEnd == Seek(N - 1)

(***************************************************************************)
(* StepSec reads the packet at the current position before it moves: after *)
(* the last packet there is none, the index is out of range and Go panics. *)
(***************************************************************************)
InRange == currentIndex < N

\* The first packet from here on that is late enough, or the last one.
StepForward ==
    LET Reached(i) == i = N - 1 \/ At(i) >= At(currentIndex) + StepSeconds
    IN  /\ InRange
        /\ \E i \in currentIndex..(N - 1) :
             /\ Reached(i) /\ \A k \in currentIndex..(i - 1) : ~Reached(k)
             /\ Seek(i)

\* The nearest packet back from here that is early enough, or the first one.
StepBackward ==
    LET Reached(i) == i = 0 \/ At(i) <= At(currentIndex) - StepSeconds
    IN  /\ InRange
        /\ \E i \in 0..currentIndex :
             /\ Reached(i) /\ \A k \in (i + 1)..currentIndex : ~Reached(k)
             /\ Seek(i)

Panic ==
    /\ ~InRange
    /\ process' = "panicked"
    /\ UNCHANGED <<position, history>>

Key ==
    /\ ~Headless /\ keys < MaxKeys
    /\ keys' = keys + 1
    /\ \/ /\ \/ TogglePause \/ CycleSpeed \/ SetSpeed
             \/ JumpStart \/ JumpEnd \/ StepForward \/ StepBackward
          /\ UNCHANGED process
       \/ Panic
-----------------------------------------------------------------------------
(* main *)

Cancel ==
    /\ ~ctxDone
    /\ ctxDone' = TRUE
    /\ UNCHANGED process

\* The headless loop returns on ctx.Done(); 'q' leaves the dashboard at any
\* time.  The deferred cancel() comes just before the end of the process.
Exit ==
    /\ ctxDone \/ ~Headless
    /\ process' = "exited"
    /\ ctxDone' = TRUE

Running == process = "running"

EngineFrame == Running /\ UNCHANGED <<ctxDone, aggVars, process, keys>>
KeyFrame    == Running /\ UNCHANGED <<ctxDone, outChan, outClosed, aggVars, engineVars>>
AggFrame    == Running /\ UNCHANGED <<ctxDone, engineVars, position, process, keys, history>>
MainFrame   == Running /\ UNCHANGED <<outChan, outClosed, aggVars, engineVars,
                                      position, keys, history>>

AggNext ==
    \/ AggReceive \/ AggClosed \/ AggTick \/ AggCancel
    \/ AggDrain \/ AggFinish

Gone == ~Running /\ UNCHANGED vars

Next ==
    \/ EngineNext /\ EngineFrame
    \/ Key /\ KeyFrame
    \/ AggNext /\ AggFrame
    \/ (Cancel \/ Exit) /\ MainFrame
    \/ Gone

Spec == Init /\ [][Next]_vars

\* The engine and the aggregator run; keys and signals may never come.
Fairness ==
    /\ WF_vars(EngineNext /\ EngineFrame)
    /\ WF_vars((AggReceive \/ AggClosed) /\ AggFrame)
    /\ WF_vars(AggCancel /\ AggFrame)
    /\ WF_vars((AggDrain \/ AggFinish) /\ AggFrame)

FairSpec == Spec /\ Fairness
-----------------------------------------------------------------------------
\* The type invariant of replay mode.
TypeOK ==
    /\ outChan \in Seq(0..(N - 1)) /\ Len(outChan) <= BufSize
    /\ ctxDone \in BOOLEAN /\ outClosed \in BOOLEAN
    /\ outClosed <=> engine = "done"
    /\ engine \in {"loop", "pick", "send", "done"}
    /\ inHand \in 0..(N - 1) /\ currentIndex \in 0..N
    /\ isPaused \in BOOLEAN
    /\ speed \in {"0.5x", "1x", "2x", "4x", "8x"}
    /\ process \in {"running", "exited", "panicked"}

(***************************************************************************)
(* A pause holds: whatever the engine was doing when the key came, at most *)
(* the one packet it had already picked is still played.                   *)
(***************************************************************************)
PauseHolds == isPaused => sincePause <= 1

(***************************************************************************)
(* A seek is never undone by the engine's own step forward: from the last  *)
(* seek on, packets are picked one by one from where it went.              *)
(***************************************************************************)
SeekHolds ==
    /\ \A i \in DOMAIN trail : trail[i] = origin + i - 1
    /\ currentIndex = origin + Len(trail)

(***************************************************************************)
(* What is played is counted, in that order: the aggregator's packets and  *)
(* those still in the channel are the packets sent, and when it stops none *)
(* is left behind.                                                         *)
(***************************************************************************)
PlayedIsCounted ==
    /\ counted \o outChan = sent
    /\ agg = "done" => counted = sent /\ published.total = Len(sent)

\* The shutdown never hangs, although the aggregator waits for the engine to
\* close the channel and the engine may wait for room in it.
ShutdownTerminates == ctxDone ~> agg = "done" \/ ~Running

\* A recording that is left to play reaches its end.
PlaysToTheEnd ==
    (<>[](~isPaused) /\ [](~ctxDone /\ Running)) => <>(currentIndex = N)

\* StepSec "steps playback forward or backward by N seconds" (replay.go:137),
\* wherever the playback is.
StepAlwaysWorks == process # "panicked"

\* replay_test.go:63 reads the channel until it is closed and expects to have
\* then all packets of the recording.
ChannelClosesAtTheEnd == <>(outClosed \/ ~Running)
=============================================================================
