-------------------------------- MODULE Remote --------------------------------
(***************************************************************************)
(* The broadcast server (remote.Server), which streams the published       *)
(* snapshot to browsers, at the mercy of main, which does not wait for it. *)
(*                                                                         *)
(* A snapshot is its number.  Every connection a browser opens is served   *)
(* by a goroutine of its own, which reads and encodes the snapshot and     *)
(* writes it to its connection in two steps.  json.Marshal fails while a   *)
(* packet is among the recent ones that has an address of no known length, *)
(* which an ARP packet may have.  The browser (EventSource in viewer.html) *)
(* opens a new connection when the old one is lost; net/http, the browser  *)
(* and the network are outside the repository.                             *)
(***************************************************************************)
EXTENDS Naturals, Sequences

CONSTANTS
    Viewers,         \* browsers that have the token, or all when there is none
    Unencodable,     \* the snapshots json.Marshal fails on
    MaxSnapshots, MaxConns, MaxWire   \* bounds

ASSUME RemoteAssumption == {MaxSnapshots, MaxConns, MaxWire} \subseteq Nat

VARIABLES
    ctxDone, exited, \* the context of main, and whether the process is gone
    published,       \* the newest snapshot
    server,          \* Start: "starting", "listening" or "returned"
    closer,          \* its goroutine: "waiting", "closing" or "done"
    conns,           \* connections opened so far
    conn,            \* the newest connection of each viewer, or 0
    alive,           \* connections that have not been lost
    handler,         \* handleStream per connection: "none", "select", "write" or "gone"
    snap,            \* the snapshot it is writing
    wire,            \* what is on its way to the browser
    shown            \* the snapshot each browser shows

Conns == 1..MaxConns

life == <<ctxDone, exited>>
serverVars == <<server, closer>>
streams == <<conns, conn, alive, handler, snap, wire, shown>>
vars == <<life, published, serverVars, streams>>

Init ==
    /\ ctxDone = FALSE /\ exited = FALSE
    /\ published = 0
    /\ server = "starting" /\ closer = "waiting"
    /\ conns = 0
    /\ conn = [v \in Viewers |-> 0]
    /\ alive = {}
    /\ handler = [c \in Conns |-> "none"]
    /\ snap = [c \in Conns |-> 0]
    /\ wire = [c \in Conns |-> <<>>]
    /\ shown = [v \in Viewers |-> 0]
-----------------------------------------------------------------------------
(***************************************************************************)
(* main and the aggregator.                                                *)
(***************************************************************************)
Cancel ==
    /\ ~ctxDone
    /\ ctxDone' = TRUE
    /\ UNCHANGED <<exited, published, serverVars, streams>>

\* The deferred cancel() comes before the end of the process.
Exit ==
    /\ ctxDone
    /\ exited' = TRUE
    /\ UNCHANGED <<ctxDone, published, serverVars, streams>>

PublishSnapshot ==
    /\ published < MaxSnapshots
    /\ published' = published + 1
    /\ UNCHANGED <<life, serverVars, streams>>
-----------------------------------------------------------------------------
(***************************************************************************)
(* Server.Start and its goroutine.                                         *)
(***************************************************************************)
\* The address may be in use.  After Shutdown, ListenAndServe returns at once.
Listen ==
    /\ server = "starting"
    /\ \/ closer = "waiting" /\ server' = "listening"
       \/ server' = "returned"
    /\ UNCHANGED <<life, published, closer, streams>>

\* Shutdown closes the listener, and ListenAndServe returns.
ShutdownBegin ==
    /\ closer = "waiting" /\ ctxDone
    /\ closer' = "closing"
    /\ server' = IF server = "listening" THEN "returned" ELSE server
    /\ UNCHANGED <<life, published, streams>>

\* Mutant of ShutdownEnd: Shutdown(context.Background()).
ShutdownWhenIdle ==
    /\ closer = "closing"
    /\ \A c \in Conns : handler[c] \in {"none", "gone"}
    /\ closer' = "done"
    /\ UNCHANGED <<life, published, server, streams>>

(***************************************************************************)
(* It waits for the connections to become idle, two seconds at most; it    *)
(* neither closes them nor cancels the requests on them.                   *)
(***************************************************************************)
ShutdownEnd ==
    /\ closer = "closing"
    /\ closer' = "done"
    /\ UNCHANGED <<life, published, server, streams>>
-----------------------------------------------------------------------------
(***************************************************************************)
(* Server.handleStream, one goroutine for each connection.                 *)
(***************************************************************************)
\* The request context ends, or the write fails.
HandlerReturn(c) ==
    /\ handler[c] \in {"select", "write"} /\ c \notin alive
    /\ handler' = [handler EXCEPT ![c] = "gone"]
    /\ snap' = [snap EXCEPT ![c] = 0]
    /\ UNCHANGED <<conns, conn, alive, wire, shown>>

\* Mutant of HandlerTick: the handler ends on a snapshot it cannot encode.
HandlerTickOrReturn(c) ==
    /\ handler[c] = "select"
    /\ snap' = [snap EXCEPT ![c] = published]
    /\ handler' = [handler EXCEPT ![c] = IF published \in Unencodable THEN "gone" ELSE "write"]
    /\ UNCHANGED <<conns, conn, alive, wire, shown>>

\* A snapshot that cannot be encoded is skipped.
HandlerTick(c) ==
    /\ handler[c] = "select" /\ published \notin Unencodable
    /\ snap' = [snap EXCEPT ![c] = published]
    /\ handler' = [handler EXCEPT ![c] = "write"]
    /\ UNCHANGED <<conns, conn, alive, wire, shown>>

\* Mutant of HandlerWrite: it writes to the viewer, not to its own connection.
HandlerWriteToViewer(c) ==
    /\ handler[c] = "write"
    /\ \E v \in Viewers :
         /\ conn[v] # 0 /\ Len(wire[conn[v]]) < MaxWire
         /\ wire' = [wire EXCEPT ![conn[v]] = Append(@, snap[c])]
    /\ handler' = [handler EXCEPT ![c] = "select"]
    /\ snap' = [snap EXCEPT ![c] = 0]
    /\ UNCHANGED <<conns, conn, alive, shown>>

\* The write waits while the connection is full; a write to a lost connection
\* that has not been noticed yet goes nowhere.
HandlerWrite(c) ==
    /\ handler[c] = "write"
    /\ IF c \in alive
       THEN Len(wire[c]) < MaxWire /\ wire' = [wire EXCEPT ![c] = Append(@, snap[c])]
       ELSE UNCHANGED wire
    /\ handler' = [handler EXCEPT ![c] = "select"]
    /\ snap' = [snap EXCEPT ![c] = 0]
    /\ UNCHANGED <<conns, conn, alive, shown>>

HandlerNext(c) == HandlerReturn(c) \/ HandlerTick(c) \/ HandlerWrite(c)
-----------------------------------------------------------------------------
(***************************************************************************)
(* The browsers and the network.                                           *)
(***************************************************************************)
Connected(v) == conn[v] \in alive

\* A request with the token: handleStream starts.
Connect(v) ==
    /\ server = "listening"
    /\ ~Connected(v) /\ conns < MaxConns
    /\ conns' = conns + 1
    /\ conn' = [conn EXCEPT ![v] = conns + 1]
    /\ alive' = alive \union {conns + 1}
    /\ handler' = [handler EXCEPT ![conns + 1] = "select"]
    /\ UNCHANGED <<snap, wire, shown>>

\* The browser shows what arrives on its newest connection, in order.
Show(v) ==
    /\ Connected(v) /\ wire[conn[v]] # <<>>
    /\ shown' = [shown EXCEPT ![v] = Head(wire[conn[v]])]
    /\ wire' = [wire EXCEPT ![conn[v]] = Tail(@)]
    /\ UNCHANGED <<conns, conn, alive, handler, snap>>

\* A connection is lost, or its viewer leaves, with what is under way on it.
Lose(v) ==
    /\ Connected(v)
    /\ alive' = alive \ {conn[v]}
    /\ wire' = [wire EXCEPT ![conn[v]] = <<>>]
    /\ UNCHANGED <<conns, conn, handler, snap, shown>>
-----------------------------------------------------------------------------
StreamFrame == UNCHANGED <<life, published, serverVars>>

Next ==
    /\ ~exited
    /\ \/ Cancel \/ Exit \/ PublishSnapshot
       \/ Listen \/ ShutdownBegin \/ ShutdownEnd
       \/ \E c \in Conns : HandlerNext(c) /\ StreamFrame
       \/ \E v \in Viewers : (Connect(v) \/ Show(v) \/ Lose(v)) /\ StreamFrame

Spec == Init /\ [][Next]_vars

(***************************************************************************)
(* Goroutines step, ticks and time-outs come, and a live connection passes *)
(* on what was written to it.  Nothing makes a browser connect, a snapshot *)
(* come, or main go on.                                                    *)
(***************************************************************************)
Fairness ==
    /\ WF_vars(~exited /\ Listen)
    /\ WF_vars(~exited /\ ShutdownBegin)
    /\ WF_vars(~exited /\ ShutdownEnd)
    /\ \A c \in Conns : WF_vars(~exited /\ HandlerNext(c) /\ StreamFrame)
    /\ \A v \in Viewers : WF_vars(~exited /\ Show(v) /\ StreamFrame)

FairSpec == Spec /\ Fairness
-----------------------------------------------------------------------------
(***************************************************************************)
(* What a browser shows never goes back to an older snapshot, although its *)
(* connection may be lost with the goroutine of the old one still writing  *)
(* while that of the new one does.                                         *)
(***************************************************************************)
ViewerNeverGoesBack == [][\A v \in Viewers : shown'[v] >= shown[v]]_vars

(***************************************************************************)
(* When the snapshots stop changing, a viewer that stays connected comes   *)
(* to show the last one if it can be encoded, whichever could not before   *)
(* it, and after the server has been told to stop as before.               *)
(***************************************************************************)
ViewerCatchesUp ==
    \A v \in Viewers, n \in (1..MaxSnapshots) \ Unencodable :
        <>[](published = n /\ Connected(v) /\ ~exited) => <>[](shown[v] = n)

\* Viewers never leave on their own, and the shutdown of the server ends all
\* the same: once the context is cancelled Shutdown and Start return.
ShutdownReturns ==
    ctxDone ~> (closer = "done" /\ server = "returned") \/ exited
=============================================================================
