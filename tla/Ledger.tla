------------------------------- MODULE Ledger -------------------------------
(***************************************************************************)
(* What the live pipeline promises about packets, whatever goroutines and  *)
(* channels it is made of: a packet that arrives is pending until it is    *)
(* counted or dropped, once, and it is thrown away only after the stop was *)
(* asked for.  The snapshot on show is a state of the ledger, present or   *)
(* past.                                                                   *)
(***************************************************************************)
EXTENDS Naturals, Sequences, FiniteSets

CONSTANT Packets  \* the packets there can be

VARIABLES
    pending,     \* packets on their way
    tally,       \* packets in the statistics, in the order they were counted
    dropped,     \* packets the drop counter counts
    lost,        \* packets thrown away by the shutdown
    stopping,    \* the stop was asked for
    shown        \* totals of the snapshot on show

ledger == <<pending, tally, dropped, lost, stopping, shown>>

Seen == pending \union dropped \union lost \union {tally[i] : i \in DOMAIN tally}

LInit ==
    /\ pending = {} /\ dropped = {} /\ lost = {}
    /\ tally = <<>>
    /\ stopping = FALSE
    /\ shown = [total |-> 0, dropped |-> 0]

Arrive(p) ==
    /\ p \notin Seen
    /\ pending' = pending \union {p}
    /\ UNCHANGED <<tally, dropped, lost, stopping, shown>>

Count(p) ==
    /\ p \in pending
    /\ pending' = pending \ {p}
    /\ tally' = Append(tally, p)
    /\ UNCHANGED <<dropped, lost, stopping, shown>>

Drop(p) ==
    /\ p \in pending
    /\ pending' = pending \ {p}
    /\ dropped' = dropped \union {p}
    /\ UNCHANGED <<tally, lost, stopping, shown>>

Lose(p) ==
    /\ stopping
    /\ p \in pending
    /\ pending' = pending \ {p}
    /\ lost' = lost \union {p}
    /\ UNCHANGED <<tally, dropped, stopping, shown>>

Publish ==
    /\ shown' = [total |-> Len(tally), dropped |-> Cardinality(dropped)]
    /\ UNCHANGED <<pending, tally, dropped, lost, stopping>>

Stop ==
    /\ ~stopping
    /\ stopping' = TRUE
    /\ UNCHANGED <<pending, tally, dropped, lost, shown>>

LNext ==
    \/ \E p \in Packets : Arrive(p)
    \/ \E p \in pending : Count(p) \/ Drop(p) \/ Lose(p)
    \/ Publish
    \/ Stop

LSpec == LInit /\ [][LNext]_ledger
=============================================================================
