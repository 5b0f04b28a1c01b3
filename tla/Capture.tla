------------------------------ MODULE Capture ------------------------------
(***************************************************************************)
(* The capture goroutine: capture.Engine.Run together with the recorder    *)
(* (replay.Recorder) it writes to.                                         *)
(*                                                                         *)
(* A packet is the number of its arrival, so 1, 2, 3 ... is capture order. *)
(* The packet source of gopacket is outside the repository: it yields the  *)
(* next packet and, once the handle is closed, what it had still buffered  *)
(* before it ends.                                                         *)
(***************************************************************************)
EXTENDS Naturals, Sequences

CONSTANTS
    MaxPackets,  \* bound: packets that ever arrive
    BufSize,     \* -bufsize, capacity of packetChan and of the pool's outChan
    Recording,   \* -record was given, so Engine.recorder is not nil
    DiskFails    \* whether a write to disk may fail

VARIABLES
    ctxDone,     \* the context has been cancelled
    srcOpen,     \* the handle is open, and the packet source with it
    arrived,     \* packets the source has delivered; the newest is in hand in "send"
    capture,     \* where the goroutine is: "select", "send" or "done"
    inChan,      \* Engine.packetChan
    inClosed,    \* ... has been closed
    dropped,     \* packets counted in Engine.droppedCount
    recOpen,     \* the recorder's writer is not nil
    recorded     \* packets in the .pcap file, in file order

CaptureInit ==
    /\ arrived = 0
    /\ capture = "select"
    /\ inChan = <<>>
    /\ inClosed = FALSE
    /\ dropped = {}
    /\ recOpen = Recording
    /\ recorded = <<>>

\* Mutant of WritePacket: the recorder stops at the cancellation, not at Close.
WritePacketUntilCancel(p) ==
    \/ recOpen /\ ~ctxDone /\ recorded' = Append(recorded, p)
    \/ (recOpen /\ ~ctxDone => DiskFails) /\ UNCHANGED recorded

(***************************************************************************)
(* Recorder.WritePacket: nothing is written once the recorder is closed,   *)
(* and Engine.Run ignores the error of a failed write.                     *)
(***************************************************************************)
WritePacket(p) ==
    \/ recOpen /\ recorded' = Append(recorded, p)
    \/ (recOpen => DiskFails) /\ UNCHANGED recorded

CaptureReceive ==
    /\ capture = "select"
    /\ arrived < MaxPackets
    /\ arrived' = arrived + 1
    /\ WritePacket(arrived + 1)
    /\ capture' = "send"
    /\ UNCHANGED <<inChan, inClosed, dropped>>

\* Mutant of CaptureSend: one packet too many fits.
CaptureSendOffByOne ==
    /\ capture = "send"
    /\ capture' = "select"
    /\ IF Len(inChan) <= BufSize
       THEN inChan' = Append(inChan, arrived) /\ UNCHANGED dropped
       ELSE dropped' = dropped \union {arrived} /\ UNCHANGED inChan
    /\ UNCHANGED <<arrived, inClosed, recorded>>

\* Mutant of CaptureSend: a full channel loses its oldest packet, not the new one.
CaptureSendDropOldest ==
    /\ capture = "send"
    /\ capture' = "select"
    /\ IF Len(inChan) < BufSize
       THEN inChan' = Append(inChan, arrived) /\ UNCHANGED dropped
       ELSE /\ dropped' = dropped \union {arrived}
            /\ inChan' = Append(Tail(inChan), arrived)
    /\ UNCHANGED <<arrived, inClosed, recorded>>

\* The non-blocking send: a full channel costs the packet, never time.
CaptureSend ==
    /\ capture = "send"
    /\ capture' = "select"
    /\ IF Len(inChan) < BufSize
       THEN inChan' = Append(inChan, arrived) /\ UNCHANGED dropped
       ELSE dropped' = dropped \union {arrived} /\ UNCHANGED inChan
    /\ UNCHANGED <<arrived, inClosed, recorded>>

\* Both returns of Run, through ctx.Done() or the end of the source, run the
\* deferred close(packetChan).
CaptureStop ==
    /\ capture = "select"
    /\ ctxDone \/ ~srcOpen
    /\ capture' = "done"
    /\ inClosed' = TRUE
    /\ UNCHANGED <<arrived, inChan, dropped, recorded>>

CaptureNext == CaptureReceive \/ CaptureSend \/ CaptureStop
=============================================================================
