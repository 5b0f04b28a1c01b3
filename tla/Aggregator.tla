----------------------------- MODULE Aggregator -----------------------------
(***************************************************************************)
(* The aggregator goroutine: aggregator.Aggregator.Run.                    *)
(*                                                                         *)
(* Of the StatsManager it owns, this module keeps the packets AddPacket    *)
(* has counted, in order, the totals of the last published snapshot and    *)
(* the state of the baseline file; what AddPacket does with one packet is  *)
(* module Stats.                                                           *)
(***************************************************************************)
EXTENDS Naturals, Sequences, FiniteSets

CONSTANTS DiskFails

VARIABLES
    ctxDone, outChan, outClosed, dropped,
    agg,         \* "select", "drain", "save", "write", "publish" or "done"
    counted,     \* packets given to AddPacket, in that order
    published,   \* StatsManager.publishedPtr: total and dropped of the snapshot
    baseFile     \* baseline.json: "old", "torn" (truncated, not rewritten) or "saved"

AggInit ==
    /\ agg = "select"
    /\ counted = <<>>
    /\ published = [total |-> 0, dropped |-> 0]
    /\ baseFile = "old"

\* The drop counter belongs to the capture goroutine and is read atomically.
PublishSnapshot ==
    published' = [total |-> Len(counted), dropped |-> Cardinality(dropped)]

AddPacket ==
    /\ outChan # <<>>
    /\ counted' = Append(counted, Head(outChan))
    /\ outChan' = Tail(outChan)

AggReceive ==
    /\ agg = "select"
    /\ AddPacket
    /\ UNCHANGED <<outClosed, agg, published, baseFile>>

\* Mutant of AggClosed: what is buffered in a closed channel is left in it.
AggClosedEarly ==
    /\ agg = "select"
    /\ outClosed
    /\ PublishSnapshot
    /\ agg' = "done"
    /\ UNCHANGED <<outChan, outClosed, counted, baseFile>>

\* The !ok branch: publish and return.
AggClosed ==
    /\ agg = "select"
    /\ outClosed /\ outChan = <<>>
    /\ PublishSnapshot
    /\ agg' = "done"
    /\ UNCHANGED <<outChan, outClosed, counted, baseFile>>

\* Mutant of AggTick: only the drop counter is refreshed.
AggTickDroppedOnly ==
    /\ agg = "select"
    /\ published' = [published EXCEPT !.dropped = Cardinality(dropped)]
    /\ UNCHANGED <<outChan, outClosed, agg, counted, baseFile>>

\* Both tickers publish; what TickSecond adds to it is module Stats.
AggTick ==
    /\ agg = "select"
    /\ PublishSnapshot
    /\ UNCHANGED <<outChan, outClosed, agg, counted, baseFile>>

AggCancel ==
    /\ agg = "select"
    /\ ctxDone
    /\ agg' = "drain"
    /\ UNCHANGED <<outChan, outClosed, counted, published, baseFile>>

AggDrain ==
    /\ agg = "drain"
    /\ AddPacket
    /\ UNCHANGED <<outClosed, agg, published, baseFile>>

\* Mutant of AggDrained: the drain ends with the close, not with the last packet.
AggDrainedEarly ==
    /\ agg = "drain"
    /\ outClosed
    /\ agg' = "save"
    /\ UNCHANGED <<outChan, outClosed, counted, published, baseFile>>

AggDrained ==
    /\ agg = "drain"
    /\ outClosed /\ outChan = <<>>
    /\ agg' = "save"
    /\ UNCHANGED <<outChan, outClosed, counted, published, baseFile>>

(***************************************************************************)
(* SaveBaseline.  os.WriteFile truncates the file before it writes, and    *)
(* SaveBaseline ignores every error: of creating the directory, of opening *)
(* the file, of writing it.                                                *)
(***************************************************************************)
AggSaveOpen ==
    /\ agg = "save"
    /\ \/ agg' = "write" /\ baseFile' = "torn"
       \/ DiskFails /\ agg' = "publish" /\ UNCHANGED baseFile
    /\ UNCHANGED <<outChan, outClosed, counted, published>>

AggSaveWrite ==
    /\ agg = "write"
    /\ agg' = "publish"
    /\ baseFile' = "saved" \/ (DiskFails /\ UNCHANGED baseFile)
    /\ UNCHANGED <<outChan, outClosed, counted, published>>

\* Mutant of AggFinalPublish: the drained packets are never published.
AggNoFinalPublish ==
    /\ agg = "publish"
    /\ agg' = "done"
    /\ UNCHANGED <<outChan, outClosed, counted, published, baseFile>>

AggFinalPublish ==
    /\ agg = "publish"
    /\ PublishSnapshot
    /\ agg' = "done"
    /\ UNCHANGED <<outChan, outClosed, counted, baseFile>>

AggFinish ==
    AggDrained \/ AggSaveOpen \/ AggSaveWrite \/ AggFinalPublish
=============================================================================
