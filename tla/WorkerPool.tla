----------------------------- MODULE WorkerPool -----------------------------
(***************************************************************************)
(* The decode workers: decode.WorkerPool.Run, its worker goroutines and    *)
(* the goroutine that closes outChan behind them.  Decoding itself is a    *)
(* function of the packet and is not part of this module.                  *)
(***************************************************************************)
EXTENDS Naturals, Sequences

CONSTANTS
    Workers,     \* the worker goroutines (-workers of them)
    BufSize

VARIABLES
    ctxDone, inChan, inClosed,
    worker,      \* where each worker is: "recv", "send" or "done"
    held,        \* the packet a worker has decoded and not yet sent, or 0
    outChan,     \* decoded packets on their way to the aggregator
    outClosed,
    lost         \* packets a worker threw away on cancellation

PoolInit ==
    /\ worker = [w \in Workers |-> "recv"]
    /\ held = [w \in Workers |-> 0]
    /\ outChan = <<>>
    /\ outClosed = FALSE
    /\ lost = {}

\* Mutant of WorkerRecv: the newest packet first.
WorkerRecvNewest(w) ==
    /\ worker[w] = "recv"
    /\ inChan # <<>>
    /\ held' = [held EXCEPT ![w] = inChan[Len(inChan)]]
    /\ inChan' = SubSeq(inChan, 1, Len(inChan) - 1)
    /\ worker' = [worker EXCEPT ![w] = "send"]
    /\ UNCHANGED <<inClosed, outChan, outClosed, lost>>

WorkerRecv(w) ==
    /\ worker[w] = "recv"
    /\ inChan # <<>>
    /\ held' = [held EXCEPT ![w] = Head(inChan)]
    /\ inChan' = Tail(inChan)
    /\ worker' = [worker EXCEPT ![w] = "send"]
    /\ UNCHANGED <<inClosed, outChan, outClosed, lost>>

\* Mutant of WorkerStop: an empty channel is taken for a closed one.
WorkerStopWhenEmpty(w) ==
    /\ worker[w] = "recv"
    /\ ctxDone \/ inChan = <<>>
    /\ worker' = [worker EXCEPT ![w] = "done"]
    /\ UNCHANGED <<inChan, inClosed, held, outChan, outClosed, lost>>

\* A receive from a closed channel still yields what is buffered in it.
WorkerStop(w) ==
    /\ worker[w] = "recv"
    /\ ctxDone \/ (inClosed /\ inChan = <<>>)
    /\ worker' = [worker EXCEPT ![w] = "done"]
    /\ UNCHANGED <<inChan, inClosed, held, outChan, outClosed, lost>>

WorkerSend(w) ==
    /\ worker[w] = "send"
    /\ Len(outChan) < BufSize
    /\ outChan' = Append(outChan, held[w])
    /\ held' = [held EXCEPT ![w] = 0]
    /\ worker' = [worker EXCEPT ![w] = "recv"]
    /\ UNCHANGED <<inChan, inClosed, outClosed, lost>>

\* Mutant of WorkerAbandon: the packet is thrown away without a trace.
WorkerAbandonSilently(w) ==
    /\ worker[w] = "send"
    /\ ctxDone
    /\ held' = [held EXCEPT ![w] = 0]
    /\ worker' = [worker EXCEPT ![w] = "done"]
    /\ UNCHANGED <<inChan, inClosed, outChan, outClosed, lost>>

\* Mutant of WorkerAbandon: this return does not reach wg.Done().
WorkerAbandonLeaks(w) ==
    /\ worker[w] = "send"
    /\ ctxDone
    /\ lost' = lost \union {held[w]}
    /\ held' = [held EXCEPT ![w] = 0]
    /\ worker' = [worker EXCEPT ![w] = "gone"]
    /\ UNCHANGED <<inChan, inClosed, outChan, outClosed>>

\* The inner select may take ctx.Done() even when outChan has room.
WorkerAbandon(w) ==
    /\ worker[w] = "send"
    /\ ctxDone
    /\ lost' = lost \union {held[w]}
    /\ held' = [held EXCEPT ![w] = 0]
    /\ worker' = [worker EXCEPT ![w] = "done"]
    /\ UNCHANGED <<inChan, inClosed, outChan, outClosed>>

\* Mutant of PoolClose: the first worker to leave closes the channel.
PoolCloseEarly ==
    /\ \E w \in Workers : worker[w] = "done"
    /\ ~outClosed
    /\ outClosed' = TRUE
    /\ UNCHANGED <<inChan, inClosed, worker, held, outChan, lost>>

PoolClose ==
    /\ \A w \in Workers : worker[w] = "done"
    /\ ~outClosed
    /\ outClosed' = TRUE
    /\ UNCHANGED <<inChan, inClosed, worker, held, outChan, lost>>

WorkerNext(w) ==
    WorkerRecv(w) \/ WorkerStop(w) \/ WorkerSend(w) \/ WorkerAbandon(w)
=============================================================================
