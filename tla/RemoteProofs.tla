---------------------------- MODULE RemoteProofs ----------------------------
(***************************************************************************)
(* What browsers see of the broadcast server, for any number of them, of   *)
(* connections and of snapshots, and any length of the network.            *)
(***************************************************************************)
EXTENDS Remote, TLAPS, SequenceTheorems

StreamsOK ==
  /\ published \in Nat
  /\ conns \in 0..MaxConns
  /\ conn \in [Viewers -> 0..conns]
  /\ alive \subseteq 1..conns
  /\ handler \in [Conns -> {"none", "select", "write", "gone"}]
  /\ snap \in [Conns -> Nat]
  /\ wire \in [Conns -> Seq(Nat)]
  /\ shown \in [Viewers -> Nat]

\* A connection is of one viewer, and nothing happens on it before it is opened.
OneOwner ==
  /\ \A u, v \in Viewers : conn[u] = conn[v] /\ conn[u] # 0 => u = v
  /\ \A c \in Conns : c > conns => handler[c] = "none" /\ wire[c] = <<>>

\* Everything in t is at least n, at most m, and in order.
Between(n, t, m) ==
  /\ \A i \in DOMAIN t : n <= t[i] /\ t[i] <= m
  /\ \A i, j \in DOMAIN t : i < j => t[i] <= t[j]

(***************************************************************************)
(* The snapshots of a connection, from the browser back to the aggregator: *)
(* shown, on the wire, in the hands of the handler, published.             *)
(***************************************************************************)
Newest(c) == IF handler[c] = "write" THEN snap[c] ELSE published

ConnInLine(c) == snap[c] <= published /\ Between(0, wire[c], Newest(c))

ViewerInLine(v) ==
  /\ shown[v] <= published
  /\ conn[v] # 0 =>
       /\ \A i \in DOMAIN wire[conn[v]] : shown[v] <= wire[conn[v]][i]
       /\ shown[v] <= Newest(conn[v])

InLine == (\A c \in Conns : ConnInLine(c)) /\ (\A v \in Viewers : ViewerInLine(v))

StreamInv == StreamsOK /\ OneOwner /\ InLine

-----------------------------------------------------------------------------
(* Sequences of numbers. *)

LEMMA BetweenAppend ==
  ASSUME NEW t \in Seq(Nat), NEW n \in Nat, NEW m \in Nat, Between(n, t, m)
  PROVE  Append(t, m) \in Seq(Nat) /\ (n <= m => Between(n, Append(t, m), m))
<1>1. /\ Len(t) \in Nat /\ DOMAIN t = 1..Len(t)
      /\ Append(t, m) \in Seq(Nat)
      /\ DOMAIN Append(t, m) = 1..(Len(t) + 1)
      /\ \A i \in 1..Len(t) : Append(t, m)[i] = t[i]
      /\ Append(t, m)[Len(t) + 1] = m
  BY AppendProperties, LenProperties
<1> QED
  BY <1>1 DEF Between

LEMMA BetweenTail ==
  ASSUME NEW t \in Seq(Nat), t # <<>>, NEW n \in Nat, NEW m \in Nat, Between(n, t, m)
  PROVE  /\ Head(t) \in Nat /\ Tail(t) \in Seq(Nat)
         /\ n <= Head(t) /\ Head(t) <= m
         /\ Between(Head(t), Tail(t), m)
<1>1. /\ Len(t) \in Nat \ {0} /\ DOMAIN t = 1..Len(t) /\ Head(t) = t[1]
      /\ Head(t) \in Nat /\ Tail(t) \in Seq(Nat)
      /\ DOMAIN Tail(t) = 1..(Len(t) - 1)
      /\ \A i \in 1..(Len(t) - 1) : Tail(t)[i] = t[i + 1]
  BY HeadTailProperties, LenProperties, EmptySeq
<1>2. \A i \in DOMAIN Tail(t) : i + 1 \in DOMAIN t /\ Tail(t)[i] = t[i + 1] /\ i \in Nat
  BY <1>1
<1>3. 1 \in DOMAIN t /\ n <= Head(t) /\ Head(t) <= m
  BY <1>1 DEF Between
<1>4. \A i \in DOMAIN Tail(t) : Head(t) <= Tail(t)[i] /\ Tail(t)[i] <= m
  <2>1. ASSUME NEW i \in DOMAIN Tail(t) PROVE i + 1 \in DOMAIN t /\ 1 < i + 1
    BY <1>1
  <2> QED
    BY <1>1, <1>2, <1>3, <2>1 DEF Between
<1>5. \A i, j \in DOMAIN Tail(t) : i < j => Tail(t)[i] <= Tail(t)[j]
  BY <1>2 DEF Between
<1> QED
  BY <1>1, <1>3, <1>4, <1>5 DEF Between

LEMMA BetweenWidens ==
  ASSUME NEW t \in Seq(Nat), NEW n \in Nat, NEW k \in Nat, NEW m \in Nat, NEW l \in Nat,
         Between(n, t, m), k <= n, m <= l
  PROVE  Between(k, t, l)
<1>1. \A i \in DOMAIN t : t[i] \in Nat
  BY LenProperties, ElementOfSeq
<1> QED
  BY <1>1 DEF Between

LEMMA BetweenEmpty ==
  ASSUME NEW n, NEW m PROVE Between(n, <<>>, m)
BY DEF Between

-----------------------------------------------------------------------------
(* StreamInv is inductive. *)

LEMMA InitStreamInv == Init => StreamInv
<1> SUFFICES ASSUME Init PROVE StreamInv
  OBVIOUS
<1> USE RemoteAssumption DEF RemoteAssumption, Init
<1>1. StreamsOK
  BY DEF StreamsOK
<1>2. OneOwner
  BY DEF OneOwner
<1>3. InLine
  BY BetweenEmpty DEF InLine, ConnInLine, ViewerInLine, Newest
<1> QED
  BY <1>1, <1>2, <1>3 DEF StreamInv

LEMMA QuietStream ==
  StreamInv /\ UNCHANGED <<published, streams>> => StreamInv'
BY DEF StreamInv, StreamsOK, OneOwner, InLine, ConnInLine, ViewerInLine, Newest, streams

(* What is known of one connection, and of the viewer of it. *)
LEMMA ConnFacts ==
  ASSUME StreamInv, NEW c \in Conns
  PROVE  /\ wire[c] \in Seq(Nat) /\ snap[c] \in Nat /\ published \in Nat
         /\ snap[c] <= published /\ Newest(c) \in Nat /\ Newest(c) <= published
         /\ Between(0, wire[c], Newest(c)) /\ Between(0, wire[c], published)
         /\ Len(wire[c]) \in Nat /\ DOMAIN wire[c] = 1..Len(wire[c])
<1>1. /\ wire[c] \in Seq(Nat) /\ snap[c] \in Nat /\ published \in Nat
      /\ snap[c] <= published /\ Between(0, wire[c], Newest(c))
  BY DEF StreamInv, StreamsOK, InLine, ConnInLine
<1>2. Newest(c) \in Nat /\ Newest(c) <= published
  BY <1>1 DEF Newest
<1>3. Between(0, wire[c], published)
  BY <1>1, <1>2, BetweenWidens
<1> QED
  BY <1>1, <1>2, <1>3, LenProperties

LEMMA ViewerFacts ==
  ASSUME StreamInv, NEW v \in Viewers
  PROVE  /\ shown[v] \in Nat /\ shown[v] <= published
         /\ conn[v] \in Nat /\ conn[v] <= conns
         /\ conn[v] # 0 =>
              /\ conn[v] \in Conns /\ shown[v] <= Newest(conn[v])
              /\ \A i \in DOMAIN wire[conn[v]] : shown[v] <= wire[conn[v]][i]
BY RemoteAssumption
   DEF StreamInv, StreamsOK, InLine, ViewerInLine, Conns, RemoteAssumption

LEMMA PublishStream == StreamInv /\ PublishSnapshot => StreamInv'
<1> SUFFICES ASSUME StreamInv, PublishSnapshot PROVE StreamInv'
  OBVIOUS
<1> USE DEF PublishSnapshot, streams
<1>1. StreamsOK' /\ OneOwner' /\ published \in Nat
  BY DEF StreamInv, StreamsOK, OneOwner
<1>2. ASSUME NEW c \in Conns
      PROVE  ConnInLine(c)' /\ Newest(c) <= Newest(c)' /\ Newest(c)' \in Nat
  <2>1. Newest(c)' \in Nat /\ Newest(c) <= Newest(c)'
    BY <1>1, ConnFacts DEF Newest
  <2>2. Between(0, wire[c], Newest(c)')
    BY <2>1, ConnFacts, BetweenWidens
  <2> QED
    BY <1>1, <2>1, <2>2, ConnFacts DEF ConnInLine
<1>3. ASSUME NEW v \in Viewers PROVE ViewerInLine(v)'
  <2>1. shown'[v] <= published'
    BY <1>1, ViewerFacts
  <2>2. conn[v] # 0 => shown[v] <= Newest(conn[v])'
    BY <1>2, ViewerFacts, ConnFacts
  <2> QED
    BY <2>1, <2>2, ViewerFacts DEF ViewerInLine, Newest
<1> QED
  BY <1>1, <1>2, <1>3 DEF StreamInv, InLine

-----------------------------------------------------------------------------
(* The handler of one connection. *)

(* A step on the connection c alone. *)
LEMMA OneConnection ==
  ASSUME StreamInv, NEW c \in Conns,
         UNCHANGED <<published, conns, conn, alive, shown>>,
         handler'[c] # "none", c <= conns,
         \E h \in {"none", "select", "write", "gone"} : handler' = [handler EXCEPT ![c] = h],
         \E n \in Nat : snap' = [snap EXCEPT ![c] = n],
         \E t \in Seq(Nat) : wire' = [wire EXCEPT ![c] = t],
         ConnInLine(c)',
         \A v \in Viewers : conn[v] = c =>
              /\ shown[v] <= Newest(c)'
              /\ \A i \in DOMAIN wire'[c] : shown[v] <= wire'[c][i]
  PROVE  StreamInv'
<1>1. StreamsOK'
  BY DEF StreamInv, StreamsOK
<1>2. ASSUME NEW d \in Conns, d # c
      PROVE  wire'[d] = wire[d] /\ snap'[d] = snap[d] /\ handler'[d] = handler[d]
  BY <1>2 DEF StreamInv, StreamsOK
<1>3. OneOwner'
  <2>1. c \in Nat /\ conns \in Nat
    BY RemoteAssumption DEF StreamInv, StreamsOK, Conns, RemoteAssumption
  <2>2. \A d \in Conns : d > conns => handler'[d] = "none" /\ wire'[d] = <<>>
    BY <1>2, <2>1 DEF StreamInv, OneOwner, Conns
  <2> QED
    BY <2>2 DEF StreamInv, OneOwner
<1>4. ASSUME NEW d \in Conns PROVE ConnInLine(d)'
  <2>1. CASE d # c
    BY <1>2, <2>1 DEF StreamInv, InLine, ConnInLine, Newest
  <2> QED
    BY <2>1
<1>5. ASSUME NEW v \in Viewers PROVE ViewerInLine(v)'
  <2>1. CASE conn[v] = c
    BY <2>1, ViewerFacts DEF ViewerInLine
  <2>2. CASE conn[v] # c
    <3>1. conn[v] # 0 => Newest(conn[v])' = Newest(conn[v]) /\ wire'[conn[v]] = wire[conn[v]]
      BY <1>2, <2>2, ViewerFacts DEF Newest
    <3> QED
      BY <3>1, ViewerFacts DEF ViewerInLine, Newest
  <2> QED
    BY <2>1, <2>2
<1> QED
  BY <1>1, <1>3, <1>4, <1>5 DEF StreamInv, InLine

LEMMA HandlerStream ==
  ASSUME StreamInv, NEW c \in Conns, HandlerNext(c), UNCHANGED published
  PROVE  StreamInv'
<1>0. handler \in [Conns -> {"none", "select", "write", "gone"}] /\ snap \in [Conns -> Nat]
      /\ wire \in [Conns -> Seq(Nat)]
  BY DEF StreamInv, StreamsOK
<1>1. handler[c] # "none" => c <= conns
  BY RemoteAssumption DEF StreamInv, OneOwner, StreamsOK, Conns, RemoteAssumption
<1>2. wire[c] = [wire EXCEPT ![c] = wire[c]][c] /\ wire = [wire EXCEPT ![c] = wire[c]]
  BY <1>0
<1>3. \A v \in Viewers : conn[v] = c =>
        /\ shown[v] <= Newest(c) /\ shown[v] <= published
        /\ \A i \in DOMAIN wire[c] : shown[v] <= wire[c][i]
  BY ViewerFacts, RemoteAssumption DEF Conns, RemoteAssumption
<1>4. CASE HandlerReturn(c)
  <2> USE <1>4 DEF HandlerReturn
  <2>1. handler'[c] = "gone" /\ snap'[c] = 0 /\ wire'[c] = wire[c]
    BY <1>0
  <2>2. Newest(c)' = published
    BY <2>1 DEF Newest
  <2>3. ConnInLine(c)'
    BY <2>1, <2>2, ConnFacts DEF ConnInLine
  <2> QED
    BY <1>0, <1>1, <1>2, <1>3, <2>1, <2>2, <2>3, OneConnection
<1>5. CASE HandlerTick(c)
  <2> USE <1>5 DEF HandlerTick
  <2>1. handler'[c] = "write" /\ snap'[c] = published /\ wire'[c] = wire[c]
    BY <1>0
  <2>2. Newest(c)' = published /\ published \in Nat
    BY <2>1, ConnFacts DEF Newest
  <2>3. ConnInLine(c)'
    BY <2>1, <2>2, ConnFacts DEF ConnInLine
  <2> QED
    BY <1>0, <1>1, <1>2, <1>3, <2>1, <2>2, <2>3, OneConnection
<1>6. CASE HandlerWrite(c) /\ c \in alive
  <2> USE <1>6 DEF HandlerWrite
  <2> DEFINE t == Append(wire[c], snap[c])
  <2>1. handler'[c] = "select" /\ snap'[c] = 0 /\ wire'[c] = t /\ Newest(c) = snap[c]
    BY <1>0 DEF Newest
  <2>2. Newest(c)' = published
    BY <2>1 DEF Newest
  <2>3. t \in Seq(Nat) /\ Between(0, t, snap[c])
    BY <2>1, ConnFacts, BetweenAppend
  <2>4. Between(0, t, published)
    <3>1. snap[c] \in Nat /\ published \in Nat /\ snap[c] <= published /\ 0 \in Nat /\ 0 <= 0
      BY ConnFacts
    <3> HIDE DEF t
    <3> QED
      BY <2>3, <3>1, BetweenWidens
  <2>5. ConnInLine(c)'
    BY <2>1, <2>2, <2>4, ConnFacts DEF ConnInLine
  <2>6. ASSUME NEW v \in Viewers, conn[v] = c, NEW i \in DOMAIN wire'[c]
        PROVE  shown[v] <= wire'[c][i]
    <3>1. /\ DOMAIN t = 1..(Len(wire[c]) + 1)
          /\ \A k \in 1..Len(wire[c]) : t[k] = wire[c][k]
          /\ t[Len(wire[c]) + 1] = snap[c]
      BY ConnFacts, AppendProperties
    <3> QED
      BY <1>3, <2>1, <2>6, <3>1, ConnFacts
  <2> QED
    BY <1>0, <1>1, <1>3, <2>1, <2>2, <2>3, <2>5, <2>6, OneConnection
<1>7. CASE HandlerWrite(c) /\ c \notin alive
  <2> USE <1>7 DEF HandlerWrite
  <2>1. handler'[c] = "select" /\ snap'[c] = 0 /\ wire'[c] = wire[c]
    BY <1>0
  <2>2. Newest(c)' = published
    BY <2>1 DEF Newest
  <2>3. ConnInLine(c)'
    BY <2>1, <2>2, ConnFacts DEF ConnInLine
  <2> QED
    BY <1>0, <1>1, <1>2, <1>3, <2>1, <2>2, <2>3, OneConnection
<1> QED
  BY <1>4, <1>5, <1>6, <1>7 DEF HandlerNext

-----------------------------------------------------------------------------
(* The browsers. *)

LEMMA ConnectStream ==
  ASSUME StreamInv, NEW v \in Viewers, Connect(v), UNCHANGED published
  PROVE  StreamInv' /\ UNCHANGED shown
<1> USE DEF Connect
<1>0. conns + 1 \in Conns /\ conns \in Nat
  BY RemoteAssumption DEF StreamInv, StreamsOK, Conns, RemoteAssumption
<1>1. PICK c \in Conns : c = conns + 1 /\ c \in Nat /\ conns \in Nat /\ c # 0
  BY <1>0
<1>2. StreamsOK'
  BY <1>1 DEF StreamInv, StreamsOK, Conns
<1>3. conn'[v] = c /\ \A u \in Viewers : u # v => conn'[u] = conn[u] /\ conn[u] < c
  BY <1>1 DEF StreamInv, StreamsOK
<1>4. OneOwner'
  <2>1. \A u, w \in Viewers : conn'[u] = conn'[w] /\ conn'[u] # 0 => u = w
    BY <1>1, <1>3, ViewerFacts DEF StreamInv, OneOwner
  <2>2. ASSUME NEW d \in Conns, d > c
        PROVE  handler'[d] = "none" /\ wire'[d] = <<>>
    <3>1. d > conns /\ d # c /\ d # conns + 1
      BY <1>1, <2>2, RemoteAssumption DEF Conns, RemoteAssumption
    <3>2. handler'[d] = handler[d]
      BY <1>1, <3>1 DEF StreamInv, StreamsOK
    <3> QED
      BY <3>1, <3>2 DEF StreamInv, OneOwner
  <2> QED
    BY <1>1, <2>1, <2>2 DEF OneOwner
<1>5. /\ wire'[c] = <<>> /\ handler'[c] = "select"
      /\ \A d \in Conns : d # c => handler'[d] = handler[d]
  BY <1>1 DEF StreamInv, OneOwner, StreamsOK, Conns
<1>6. Newest(c)' = published /\ \A d \in Conns : d # c => Newest(d)' = Newest(d)
  BY <1>5 DEF Newest
<1>7. ASSUME NEW d \in Conns PROVE ConnInLine(d)'
  BY <1>5, <1>6, ConnFacts, BetweenEmpty DEF ConnInLine
<1>8. ASSUME NEW u \in Viewers PROVE ViewerInLine(u)'
  <2>1. CASE u = v
    BY <1>3, <1>5, <1>6, <2>1, ViewerFacts DEF ViewerInLine
  <2>2. CASE u # v
    <3>1. conn'[u] = conn[u] /\ (conn[u] # 0 => conn[u] \in Conns /\ conn[u] # c)
      BY <1>1, <1>3, <2>2, ViewerFacts
    <3>2. conn[u] # 0 => Newest(conn[u])' = Newest(conn[u])
      BY <1>6, <3>1
    <3> QED
      BY <3>1, <3>2, ViewerFacts DEF ViewerInLine, Newest
  <2> QED
    BY <2>1, <2>2
<1> QED
  BY <1>2, <1>4, <1>7, <1>8 DEF StreamInv, InLine

LEMMA ShowStream ==
  ASSUME StreamInv, NEW v \in Viewers, Show(v), UNCHANGED published
  PROVE  StreamInv' /\ \A u \in Viewers : shown'[u] >= shown[u]
<1> DEFINE c == conn[v]
<1> USE DEF Show, Connected
<1>1. c \in Conns /\ c # 0 /\ c \in Nat /\ c <= conns
  BY ViewerFacts DEF StreamInv, StreamsOK
<1>2. /\ Head(wire[c]) \in Nat /\ Tail(wire[c]) \in Seq(Nat)
      /\ Head(wire[c]) <= Newest(c) /\ Between(Head(wire[c]), Tail(wire[c]), Newest(c))
  BY <1>1, ConnFacts, BetweenTail
<1>3. Between(0, Tail(wire[c]), Newest(c))
  <2>1. Newest(c) \in Nat /\ 0 \in Nat /\ 0 <= Head(wire[c]) /\ Newest(c) <= Newest(c)
    BY <1>1, <1>2, ConnFacts
  <2> QED
    BY <1>2, <2>1, BetweenWidens
<1>4. shown[v] <= Head(wire[c])
  <2>1. Head(wire[c]) = wire[c][1] /\ 1 \in DOMAIN wire[c]
    BY <1>1, ConnFacts, HeadTailProperties, EmptySeq
  <2> QED
    BY <1>1, <2>1, ViewerFacts
<1>5. /\ shown'[v] = Head(wire[c]) /\ wire'[c] = Tail(wire[c])
      /\ \A u \in Viewers : u # v => shown'[u] = shown[u] /\ conn[u] # c
      /\ \A d \in Conns : d # c => wire'[d] = wire[d]
  BY <1>1 DEF StreamInv, StreamsOK, OneOwner
<1>6. StreamsOK'
  BY <1>2 DEF StreamInv, StreamsOK
<1>7. OneOwner'
  <2>1. \A d \in Conns : d > conns => d # c
    BY <1>1 DEF StreamInv, StreamsOK, Conns
  <2> QED
    BY <1>5, <2>1 DEF StreamInv, OneOwner
<1>8. \A d \in Conns : Newest(d)' = Newest(d)
  BY DEF Newest
<1>9. ASSUME NEW d \in Conns PROVE ConnInLine(d)'
  BY <1>3, <1>5, <1>8, ConnFacts DEF ConnInLine
<1>10. ASSUME NEW u \in Viewers PROVE ViewerInLine(u)'
  <2>1. CASE u = v
    <3>1. \A i \in DOMAIN wire'[c] : shown'[v] <= wire'[c][i]
      BY <1>2, <1>5 DEF Between
    <3>2. shown'[v] <= Newest(c)' /\ shown'[v] <= published'
      BY <1>1, <1>2, <1>5, <1>8, ConnFacts
    <3> QED
      BY <2>1, <3>1, <3>2 DEF ViewerInLine, Newest
  <2>2. CASE u # v
    <3>1. conn[u] # 0 => wire'[conn[u]] = wire[conn[u]] /\ Newest(conn[u])' = Newest(conn[u])
      BY <1>5, <1>8, <2>2, ViewerFacts
    <3> QED
      BY <1>5, <2>2, <3>1, ViewerFacts DEF ViewerInLine, Newest
  <2> QED
    BY <2>1, <2>2
<1>11. \A u \in Viewers : shown'[u] >= shown[u]
  BY <1>2, <1>4, <1>5, ViewerFacts
<1> QED
  BY <1>6, <1>7, <1>9, <1>10, <1>11 DEF StreamInv, InLine

LEMMA LoseStream ==
  ASSUME StreamInv, NEW v \in Viewers, Lose(v), UNCHANGED published
  PROVE  StreamInv' /\ UNCHANGED shown
<1> DEFINE c == conn[v]
<1> USE DEF Lose, Connected
<1>1. c \in Conns /\ c # 0
  BY ViewerFacts DEF StreamInv, StreamsOK
<1>2. wire'[c] = <<>> /\ \A d \in Conns : d # c => wire'[d] = wire[d]
  BY <1>1 DEF StreamInv, StreamsOK
<1>3. StreamsOK' /\ OneOwner'
  <2>1. wire' \in [Conns -> Seq(Nat)]
    BY <1>1 DEF StreamInv, StreamsOK
  <2>2. StreamsOK'
    BY <2>1 DEF StreamInv, StreamsOK
  <2>3. OneOwner'
    BY <1>2 DEF StreamInv, OneOwner
  <2> QED
    BY <2>2, <2>3
<1>4. \A d \in Conns : Newest(d)' = Newest(d)
  BY DEF Newest
<1>5. ASSUME NEW d \in Conns PROVE ConnInLine(d)'
  BY <1>2, <1>4, ConnFacts, BetweenEmpty DEF ConnInLine
<1>6. ASSUME NEW u \in Viewers PROVE ViewerInLine(u)'
  <2>1. conn[u] # 0 =>
          /\ Newest(conn[u])' = Newest(conn[u])
          /\ \A i \in DOMAIN wire'[conn[u]] : shown[u] <= wire'[conn[u]][i]
    <3>1. CASE conn[u] = c
      BY <1>1, <1>2, <1>4, <3>1
    <3>2. CASE conn[u] # c
      BY <1>2, <1>4, <3>2, ViewerFacts
    <3> QED
      BY <3>1, <3>2
  <2> QED
    BY <2>1, ViewerFacts DEF ViewerInLine, Newest
<1> QED
  BY <1>3, <1>5, <1>6 DEF StreamInv, InLine

-----------------------------------------------------------------------------
(* Every step. *)

LEMMA NextStreamInv ==
  StreamInv /\ [Next]_vars => StreamInv' /\ \A v \in Viewers : shown'[v] >= shown[v]
<1> SUFFICES ASSUME StreamInv, [Next]_vars
             PROVE  StreamInv' /\ \A v \in Viewers : shown'[v] >= shown[v]
  OBVIOUS
<1>0. UNCHANGED shown => \A v \in Viewers : shown'[v] >= shown[v]
  BY DEF StreamInv, StreamsOK
<1>1. CASE Cancel \/ Exit \/ Listen \/ ShutdownBegin \/ ShutdownEnd
  BY <1>0, <1>1, QuietStream
     DEF Cancel, Exit, Listen, ShutdownBegin, ShutdownEnd, streams
<1>2. CASE PublishSnapshot
  BY <1>0, <1>2, PublishStream DEF PublishSnapshot, streams
<1>3. ASSUME NEW c \in Conns, HandlerNext(c), StreamFrame
      PROVE  StreamInv' /\ \A v \in Viewers : shown'[v] >= shown[v]
  BY <1>0, <1>3, HandlerStream
     DEF StreamFrame, HandlerNext, HandlerReturn, HandlerTick, HandlerWrite
<1>4. ASSUME NEW v \in Viewers, Connect(v) \/ Show(v) \/ Lose(v), StreamFrame
      PROVE  StreamInv' /\ \A u \in Viewers : shown'[u] >= shown[u]
  BY <1>0, <1>4, ConnectStream, ShowStream, LoseStream DEF StreamFrame
<1>5. CASE UNCHANGED vars
  BY <1>0, <1>5, QuietStream DEF vars, streams
<1> QED
  BY <1>1, <1>2, <1>3, <1>4, <1>5 DEF Next

(***************************************************************************)
(* For any number of browsers, connections and snapshots: what a browser   *)
(* shows never goes back, however often it reconnects, and whatever the    *)
(* handlers of its lost connections still do.                              *)
(***************************************************************************)
THEOREM ViewersNeverGoBack == Spec => ViewerNeverGoesBack
<1>1. Spec => []StreamInv
  BY InitStreamInv, NextStreamInv, PTL DEF Spec
<1>2. StreamInv /\ [Next]_vars => [\A v \in Viewers : shown'[v] >= shown[v]]_vars
  BY NextStreamInv
<1> QED
  BY <1>1, <1>2, PTL DEF Spec, ViewerNeverGoesBack
=============================================================================
