------------------------------ MODULE Pipeline ------------------------------
(***************************************************************************)
(* Undertow's live mode: the goroutines that cmd/undertow/main.go starts   *)
(* and the exit path of main, over the channels that connect them.         *)
(*                                                                         *)
(*    source -> capture -> inChan -> workers -> outChan -> aggregator      *)
(*                |                                           |            *)
(*             recorder                              snapshot, baseline    *)
(*                                                                         *)
(* main does not wait for the goroutines: when it returns the process is   *)
(* gone, wherever they are.                                                *)
(***************************************************************************)
EXTENDS Naturals, Sequences, FiniteSets, Functions

CONSTANTS
    MaxPackets, BufSize, Workers, Recording, DiskFails,
    Headless,    \* -headless or -no-tui: main leaves its loop only on ctx.Done()
    Exporting    \* -export-html was given

ASSUME PipelineAssumption ==
    /\ MaxPackets \in Nat
    /\ BufSize \in Nat \ {0}
    /\ IsFiniteSet(Workers) /\ Workers # {}
    /\ Recording \in BOOLEAN /\ DiskFails \in BOOLEAN
    /\ Headless \in BOOLEAN /\ Exporting \in BOOLEAN

VARIABLES
    ctxDone, srcOpen, recOpen,
    arrived, capture, inChan, inClosed, dropped, recorded,
    worker, held, lost,
    outChan, outClosed,
    agg, counted, published, baseFile,
    main,        \* "running", "report", "recorder", "handle", "cancel",
                 \* "return" or "exited"
    report       \* totals in the exported report, zero before the export

channels == <<inChan, inClosed, outChan, outClosed>>
mainVars == <<ctxDone, srcOpen, recOpen, main, report>>
captureVars == <<arrived, capture, dropped, recorded>>
poolVars == <<worker, held, lost>>
aggVars == <<agg, counted, published, baseFile>>

INSTANCE Capture
INSTANCE WorkerPool
INSTANCE Aggregator

vars == <<mainVars, channels, captureVars, poolVars, aggVars>>

Zero == [total |-> 0, dropped |-> 0]

Init ==
    /\ ctxDone = FALSE
    /\ srcOpen = TRUE
    /\ main = "running"
    /\ report = Zero
    /\ CaptureInit
    /\ PoolInit
    /\ AggInit
-----------------------------------------------------------------------------
(***************************************************************************)
(* Everything that may happen to main: a signal, the end of the source,    *)
(* and its own way out, the deferred calls in the order they run.          *)
(***************************************************************************)
Signal ==
    /\ ~ctxDone
    /\ ctxDone' = TRUE
    /\ UNCHANGED <<srcOpen, recOpen, main, report>>

SourceEnd ==
    /\ srcOpen
    /\ srcOpen' = FALSE
    /\ UNCHANGED <<ctxDone, recOpen, main, report>>

\* The headless loop ends on ctx.Done() only, the dashboard also on 'q'.
MainStop ==
    /\ main = "running"
    /\ ctxDone \/ ~Headless
    /\ main' = IF Exporting THEN "report" ELSE "recorder"
    /\ UNCHANGED <<ctxDone, srcOpen, recOpen, report>>

\* GetSnapshot and GenerateHTMLReport.
MainReport ==
    /\ main = "report"
    /\ report' = published
    /\ main' = "recorder"
    /\ UNCHANGED <<ctxDone, srcOpen, recOpen>>

\* defer recorder.Close()
MainCloseRecorder ==
    /\ main = "recorder"
    /\ recOpen' = FALSE
    /\ main' = "handle"
    /\ UNCHANGED <<ctxDone, srcOpen, report>>

\* defer handle.Close()
MainCloseHandle ==
    /\ main = "handle"
    /\ srcOpen' = FALSE
    /\ main' = "cancel"
    /\ UNCHANGED <<ctxDone, recOpen, report>>

\* defer cancel()
MainCancel ==
    /\ main = "cancel"
    /\ ctxDone' = TRUE
    /\ main' = "return"
    /\ UNCHANGED <<srcOpen, recOpen, report>>

MainReturn ==
    /\ main = "return"
    /\ main' = "exited"
    /\ UNCHANGED <<ctxDone, srcOpen, recOpen, report>>

MainNext ==
    \/ Signal \/ SourceEnd
    \/ MainStop \/ MainReport
    \/ MainCloseRecorder \/ MainCloseHandle \/ MainCancel
    \/ MainReturn

AggNext ==
    \/ AggReceive \/ AggClosed \/ AggTick \/ AggCancel
    \/ AggDrain \/ AggFinish
-----------------------------------------------------------------------------
Running == main # "exited"

\* What a step of each goroutine leaves alone; none runs once the process is gone.
CaptureFrame == Running /\ UNCHANGED <<mainVars, outChan, outClosed, poolVars, aggVars>>
PoolFrame    == Running /\ UNCHANGED <<mainVars, captureVars, aggVars>>
AggFrame     == Running /\ UNCHANGED <<mainVars, inChan, inClosed, captureVars, poolVars>>
MainFrame    == Running /\ UNCHANGED <<channels, captureVars, poolVars, aggVars>>

\* The process is gone.
Exited == main = "exited" /\ UNCHANGED vars

Next ==
    \/ CaptureNext /\ CaptureFrame
    \/ (PoolClose \/ \E w \in Workers : WorkerNext(w)) /\ PoolFrame
    \/ AggNext /\ AggFrame
    \/ MainNext /\ MainFrame
    \/ Exited

Spec == Init /\ [][Next]_vars

(***************************************************************************)
(* Every goroutine that can step does, and a branch of a select that stays *)
(* ready is taken in the end, for Go picks among the ready ones at random. *)
(* Nothing makes a packet arrive, a signal come or the user quit, and main *)
(* may be as slow as it likes.                                             *)
(***************************************************************************)
Fairness ==
    /\ WF_vars((CaptureSend \/ CaptureStop) /\ CaptureFrame)
    /\ \A w \in Workers : WF_vars(WorkerNext(w) /\ PoolFrame)
    /\ WF_vars(PoolClose /\ PoolFrame)
    /\ WF_vars((AggReceive \/ AggClosed) /\ AggFrame)
    /\ WF_vars(AggCancel /\ AggFrame)
    /\ WF_vars((AggDrain \/ AggFinish) /\ AggFrame)
    /\ WF_vars(AggTick /\ AggFrame)

FairSpec == Spec /\ Fairness
-----------------------------------------------------------------------------
Packet == 1..MaxPackets
Totals == [total : Nat, dropped : Nat]

ChannelsOK ==
    /\ inChan \in Seq(Packet) /\ Len(inChan) <= BufSize /\ inClosed \in BOOLEAN
    /\ outChan \in Seq(Packet) /\ Len(outChan) <= BufSize /\ outClosed \in BOOLEAN

CaptureOK ==
    /\ capture \in {"select", "send", "done"}
    /\ arrived \in 0..MaxPackets
    /\ capture = "send" => arrived # 0
    /\ dropped \subseteq Packet
    /\ recorded \in Seq(Packet)

PoolOK ==
    /\ worker \in [Workers -> {"recv", "send", "done"}]
    /\ held \in [Workers -> 0..MaxPackets]
    /\ \A w \in Workers : worker[w] = "send" <=> held[w] # 0
    /\ lost \subseteq Packet

AggOK ==
    /\ agg \in {"select", "drain", "save", "write", "publish", "done"}
    /\ counted \in Seq(Packet)
    /\ published \in Totals
    /\ baseFile \in {"old", "torn", "saved"}

MainOK ==
    /\ ctxDone \in BOOLEAN /\ srcOpen \in BOOLEAN /\ recOpen \in BOOLEAN
    /\ main \in {"running", "report", "recorder", "handle", "cancel",
                 "return", "exited"}
    /\ report \in Totals

\* The type invariant of the live pipeline.
TypeOK == ChannelsOK /\ CaptureOK /\ PoolOK /\ AggOK /\ MainOK

\* Where a packet that has arrived can be.
InHand == IF capture = "send" THEN {arrived} ELSE {}
Held == {held[w] : w \in Workers} \ {0}
Pending == InHand \union Range(inChan) \union Held \union Range(outChan)
Settled == Range(counted) \union dropped \union lost

Places == <<InHand, Range(inChan), Held, Range(outChan), Range(counted), dropped, lost>>

NoRepeat(s) == \A i, j \in DOMAIN s : s[i] = s[j] => i = j
Disjoint(P) == \A i, j \in DOMAIN P : i # j => P[i] \intersect P[j] = {}

(***************************************************************************)
(* Every packet the source delivered is in exactly one place: in the hand  *)
(* of the capture goroutine or of one worker, in one slot of one channel,  *)
(* counted once by the aggregator, dropped or lost.  No interleaving of    *)
(* the goroutines duplicates a packet or makes one vanish unaccounted.     *)
(***************************************************************************)
ExactlyOnce ==
    /\ Pending \union Settled = 1..arrived
    /\ NoRepeat(inChan) /\ NoRepeat(outChan) /\ NoRepeat(counted)
    /\ \A v, w \in Workers : held[v] = held[w] /\ held[v] # 0 => v = w
    /\ Disjoint(Places)

(***************************************************************************)
(* A decoded packet is thrown away only by the shutdown (the inner select  *)
(* of the worker): until the context is cancelled every packet is dropped  *)
(* at the full packetChan, where it is counted, or on its way to be        *)
(* counted.  A packet may be left behind in a channel that nobody reads    *)
(* any more under the same condition only.                                 *)
(***************************************************************************)
LostOnlyByShutdown ==
    /\ lost # {} => ctxDone
    /\ inChan # <<>> /\ (\A w \in Workers : worker[w] = "done") => ctxDone
    /\ outChan # <<>> => agg \in {"select", "drain"}

(***************************************************************************)
(* No goroutine ever sends on a closed channel, which would panic: inChan  *)
(* is closed by its only sender, outChan after its last sender has left.   *)
(***************************************************************************)
NoSendOnClosed ==
    /\ inClosed => capture # "send"
    /\ outClosed => \A w \in Workers : worker[w] # "send"

(***************************************************************************)
(* When the source ends and nobody cancels, the pipeline empties itself:   *)
(* the aggregator stops only after every packet that arrived is either     *)
(* counted or dropped, and its last snapshot says so.                      *)
(***************************************************************************)
CompleteAtEnd ==
    agg = "done" /\ ~ctxDone =>
        /\ Range(counted) \union dropped = 1..arrived
        /\ published = [total |-> Len(counted), dropped |-> Cardinality(dropped)]

(***************************************************************************)
(* A snapshot never runs ahead of what happened, and the last snapshot of  *)
(* a stopped aggregator holds every packet it ever counted, those drained  *)
(* after the cancellation included.                                        *)
(***************************************************************************)
HonestSnapshot ==
    /\ published.total <= Len(counted)
    /\ published.dropped <= Cardinality(dropped)
    /\ agg = "done" => published.total = Len(counted)
    /\ report.total <= published.total

(***************************************************************************)
(* The recording is a faithful log: in capture order without repetition,   *)
(* and a packet reaches the statistics or the drop counter only after it   *)
(* is in the file, unless the disk failed or the recorder was closed.      *)
(***************************************************************************)
FaithfulRecording ==
    /\ \A i, j \in DOMAIN recorded : i < j => recorded[i] < recorded[j]
    /\ recOpen /\ ~DiskFails => Range(recorded) = 1..arrived

\* The statistics only grow: a reader that polls GetSnapshot never sees the
\* totals go back, and no packet that was counted is ever taken back.
TotalsOnlyGrow ==
    [][ /\ published'.total >= published.total
        /\ published'.dropped >= published.dropped
        /\ SubSeq(counted', 1, Len(counted)) = counted ]_vars

\* Packets a worker has passed on, and those behind which a later one already is.
Passed == Range(counted) \union Range(outChan)
Overtaken == {p \in Pending : p \notin Passed /\ \E q \in Passed : q > p}

(***************************************************************************)
(* The pool changes the order of packets only as far as its workers are    *)
(* slow: a packet that a later one has overtaken is in the hands of a      *)
(* worker, never still in packetChan, and one worker at least holds none.  *)
(* So fewer packets than there are workers are ever late, and with         *)
(* -workers 1 none is.                                                     *)
(***************************************************************************)
OvertakenAreHeld ==
    /\ Overtaken \subseteq Held
    /\ \E w \in Workers : held[w] \notin Overtaken

(***************************************************************************)
(* The aggregator counts packets in capture order, so that the rings it    *)
(* fills (stats.go: RingBuffer.Slice, "in chronological order") and the    *)
(* timelines of the story are in the order of the capture.  It holds with  *)
(* one worker and not with more.                                           *)
(***************************************************************************)
CaptureOrder ==
    \A i, j \in DOMAIN counted : i < j => counted[i] < counted[j]

\* SaveBaseline "persists baseline data to disk on shutdown" (stats.go:242):
\* when the process is gone without a disk failure, the file has been rewritten.
BaselineSavedOnShutdown ==
    main = "exited" /\ ~DiskFails => baseFile = "saved"

\* -export-html exports the "session metrics ... on exit" (main.go:103): the
\* report counts every packet the session counted.
ReportComplete ==
    main = "exited" /\ Exporting => report.total = Len(counted)

(***************************************************************************)
(* The shutdown never hangs: once the context is cancelled the aggregator  *)
(* finishes its drain, although it waits for the workers, which wait for   *)
(* it when outChan is full; or main is gone first.                         *)
(***************************************************************************)
ShutdownTerminates == ctxDone ~> agg = "done" \/ main = "exited"

(***************************************************************************)
(* No packet is stuck: whatever has arrived is counted, dropped or lost in *)
(* the end, and shown in a snapshot, unless the shutdown came first.       *)
(***************************************************************************)
EveryPacketSettles ==
    \A p \in Packet : p <= arrived ~>
        ctxDone \/ main = "exited" \/ (p \in dropped \/ p \in Range(counted))

SnapshotCatchesUp ==
    \A n \in Packet : Len(counted) >= n ~> main = "exited" \/ published.total >= n
-----------------------------------------------------------------------------
\* The pipeline implements the ledger: the channels and the hands of the
\* goroutines are the packets pending.
L == INSTANCE Ledger WITH
        Packets <- Packet,
        pending <- Pending,
        tally <- counted,
        stopping <- ctxDone,
        shown <- published

(***************************************************************************)
(* Every step of a goroutine is a step of the ledger or changes nothing in *)
(* it: no packet is counted twice, uncounted, dropped after it was counted *)
(* or thrown away before the stop, and a snapshot never mixes two states.  *)
(***************************************************************************)
ImplementsLedger == L!LSpec
=============================================================================
