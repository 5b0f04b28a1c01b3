--------------------------- MODULE DashboardProofs ---------------------------
(***************************************************************************)
(* Theorems about the dashboard, for any hosts, rankings and filters, and  *)
(* about the process tracker its process panel asks.                       *)
(***************************************************************************)
EXTENDS Dashboard, Tracker, FiniteSetTheorems, TLAPS

LEMMA NextShownFilter ==
  ShownFilterIsInstalled /\ [Next]_vars => ShownFilterIsInstalled'
<1> SUFFICES ASSUME ShownFilterIsInstalled, [Next]_vars PROVE ShownFilterIsInstalled'
  OBVIOUS
<1>1. CASE UNCHANGED <<bpf, installed>>
  BY <1>1 DEF ShownFilterIsInstalled
<1>2. CASE EnterFilter
  <2>1. PICK expr \in Typed :
          /\ installed' = ApplyBPFFilter(expr, installed)
          /\ IF Refused(expr) THEN UNCHANGED <<open, bpf>> ELSE open' = {} /\ bpf' = expr
    BY <1>2 DEF EnterFilter
  <2>2. CASE Refused(expr)
    <3>1. expr \notin Filters
      BY <2>2, DashboardAssumption DEF Refused
    <3> QED
      BY <1>1, <2>1, <2>2, <3>1 DEF ApplyBPFFilter
  <2>3. CASE ~Refused(expr)
    BY <2>1, <2>3 DEF Refused, ApplyBPFFilter, ShownFilterIsInstalled, Typed
  <2> QED
    BY <2>2, <2>3
<1>3. CASE UiKey
  BY <1>1, <1>2, <1>3 DEF UiKey, OpenFilter, CloseModal, OpenPanel, OpenStory, SelectRow
<1>4. CASE AskAI \/ Quit \/ AIAnswer
  BY <1>1, <1>4 DEF AskAI, Quit, AIAnswer, uiVars
<1>5. CASE Start \/ Repaint
  BY <1>1, <1>5 DEF Start, Repaint, RepaintStop, RepaintTick, RepaintSelect, Draw, uiVars
<1>6. CASE UNCHANGED uiVars \/ UNCHANGED vars
  BY <1>1, <1>6 DEF uiVars, vars
<1> QED
  BY <1>3, <1>4, <1>5, <1>6 DEF Next

(***************************************************************************)
(* For any filters: one that the dashboard shows is in the handle,         *)
(* whatever was typed, refused or given up in between, unless it is of     *)
(* white space only.                                                       *)
(***************************************************************************)
THEOREM ShownFilterIsReal == Spec => []ShownFilterIsInstalled
<1>1. Init => ShownFilterIsInstalled
  BY DEF Init, ApplyBPFFilter, ShownFilterIsInstalled
<1> QED
  BY <1>1, NextShownFilter, PTL DEF Spec
-----------------------------------------------------------------------------
(* Pages, tables and questions. *)

Shown == Rankings \union {<<>>}

\* One page at most.
PagesOK ==
  /\ open \subseteq Panels \union {"filterModal"}
  /\ \A m, n \in open : m = n
FiltersOK == bpf \in Filters \union {Blank, Spaces} /\ installed \in Filters \union {Blank}
\* What is drawn was read before it: an empty ranking never follows another.
TablesOK ==
  /\ DOMAIN frame = {"snap", "selected"}
  /\ {snap, frame.snap, table} \subseteq Shown
  /\ table # <<>> => frame.snap # <<>>
  /\ frame.snap # <<>> => snap # <<>>
  /\ row \in 0..Len(table)
AsksOK == asks \in Nat /\ \A q \in pending : q.id \in 1..asks

Orderly == PagesOK /\ FiltersOK /\ TablesOK /\ AsksOK

LEMMA ShownProperties ==
  /\ \A ranking \in Shown : Len(ranking) \in Nat /\ DOMAIN ranking = 1..Len(ranking)
  /\ \A ranking \in Rankings : ranking # <<>> /\ Len(ranking) > 0
BY DashboardAssumption DEF Shown

LEMMA NextOrderly == Orderly /\ [Next]_vars => Orderly'
<1> SUFFICES ASSUME Orderly, [Next]_vars PROVE Orderly'
  OBVIOUS
<1>1. PagesOK /\ FiltersOK /\ TablesOK /\ AsksOK
  BY DEF Orderly
<1>2. CASE UNCHANGED vars
  BY <1>1, <1>2 DEF vars, uiVars, aiVars, repaintVars, Orderly, PagesOK, FiltersOK, TablesOK, AsksOK
<1>3. CASE (Cancel \/ Publish) /\ UNCHANGED <<app, uiVars, repaintVars, aiVars>>
  <2>1. snap' = snap \/ snap' \in Rankings
    BY <1>3 DEF Cancel, Publish
  <2>2. TablesOK'
    BY <1>1, <1>3, <2>1, ShownProperties DEF TablesOK, Shown, uiVars, repaintVars
  <2> QED
    BY <1>1, <1>3, <2>2 DEF uiVars, aiVars, Orderly, PagesOK, FiltersOK, AsksOK
<1>4. CASE (UiKey \/ AskAI \/ Quit \/ AIAnswer) /\ UNCHANGED <<ctxDone, snap, published, repaintVars>>
  <2>1. PagesOK'
    BY <1>1, <1>4 DEF PagesOK, UiKey, OpenFilter, EnterFilter, CloseModal, OpenPanel,
       OpenStory, SelectRow, AskAI, Quit, AIAnswer, OnMain, uiVars, Panels
  <2>2. FiltersOK'
    <3>1. CASE EnterFilter
      BY <1>1, <3>1 DEF FiltersOK, EnterFilter, ApplyBPFFilter, Refused, Typed
    <3>2. CASE UNCHANGED <<bpf, installed>>
      BY <1>1, <3>2 DEF FiltersOK
    <3>3. EnterFilter \/ UNCHANGED <<bpf, installed>>
      BY <1>4 DEF UiKey, OpenFilter, CloseModal, OpenPanel, OpenStory, SelectRow, AskAI,
         Quit, AIAnswer, uiVars
    <3> QED
      BY <3>1, <3>2, <3>3
  <2>3. TablesOK'
    <3>1. table' = table /\ (row' = row \/ row' \in DOMAIN table)
      BY <1>4 DEF UiKey, OpenFilter, EnterFilter, CloseModal, OpenPanel, OpenStory, SelectRow,
         AskAI, Quit, AIAnswer, uiVars
    <3>2. snap' = snap /\ frame' = frame
      BY <1>4 DEF repaintVars
    <3>3. table \in Shown
      BY <1>1 DEF TablesOK
    <3>4. Len(table) \in Nat /\ DOMAIN table = 1..Len(table)
      BY <3>3, ShownProperties
    <3> QED
      BY <1>1, <3>1, <3>2, <3>4 DEF TablesOK
  <2>4. AsksOK'
    <3>1. CASE AskAI
      BY <1>1, <3>1 DEF AsksOK, AskAI
    <3>2. CASE AIAnswer
      BY <1>1, <3>2 DEF AsksOK, AIAnswer
    <3>3. CASE UiKey \/ Quit
      BY <1>1, <3>3 DEF AsksOK, UiKey, Quit, aiVars
    <3> QED
      BY <1>4, <3>1, <3>2, <3>3
  <2> QED
    BY <2>1, <2>2, <2>3, <2>4 DEF Orderly
<1>5. CASE (Start \/ Repaint) /\ UNCHANGED <<ctxDone, snap, published>>
  <2>1. UNCHANGED <<open, bpf, installed, asks, pending>>
    BY <1>5 DEF Start, Repaint, RepaintStop, RepaintTick, RepaintSelect, Draw, uiVars, aiVars
  <2>2. TablesOK'
    <3>1. CASE Start \/ RepaintStop
      BY <1>1, <1>5, <3>1 DEF TablesOK, Start, RepaintStop, uiVars, repaintVars
    <3>2. CASE RepaintTick
      <4>1. /\ frame' = [frame EXCEPT !.snap = snap]
            /\ UNCHANGED <<snap, table, row>>
        BY <1>5, <3>2 DEF RepaintTick, uiVars
      <4>2. frame'.snap = snap /\ DOMAIN frame' = {"snap", "selected"}
        BY <1>1, <4>1 DEF TablesOK
      <4> QED
        BY <1>1, <4>1, <4>2 DEF TablesOK
    <3>3. CASE RepaintSelect
      <4>1. /\ frame' = [frame EXCEPT !.selected = SelectedIP]
            /\ UNCHANGED <<snap, table, row>>
        BY <1>5, <3>3 DEF RepaintSelect, uiVars
      <4>2. frame'.snap = frame.snap /\ DOMAIN frame' = {"snap", "selected"}
        BY <1>1, <4>1 DEF TablesOK
      <4> QED
        BY <1>1, <4>1, <4>2 DEF TablesOK
    <3>4. CASE Draw
      <4>1. /\ table' = frame.snap /\ frame' = frame /\ snap' = snap
            /\ row' = IF row \in DOMAIN frame.snap \/ frame.snap = <<>> THEN row ELSE 1
        BY <1>5, <3>4 DEF Draw, UpdateTable
      <4>2. /\ frame.snap \in Shown
            /\ Len(frame.snap) \in Nat /\ DOMAIN frame.snap = 1..Len(frame.snap)
        BY <1>1, ShownProperties DEF TablesOK
      <4>3. row' \in 0..Len(frame.snap)
        <5>1. CASE frame.snap = <<>>
          <6>1. table = <<>> /\ row \in 0..Len(table) /\ row' = row
            BY <1>1, <4>1, <5>1 DEF TablesOK
          <6> QED
            BY <5>1, <6>1
        <5>2. CASE frame.snap # <<>>
          <6>1. Len(frame.snap) > 0
            BY <4>2, <5>2, ShownProperties DEF Shown
          <6> QED
            BY <4>1, <4>2, <5>2, <6>1
        <5> QED
          BY <5>1, <5>2
      <4> QED
        BY <1>1, <4>1, <4>3 DEF TablesOK
    <3> QED
      BY <1>5, <3>1, <3>2, <3>3, <3>4 DEF Repaint
  <2> QED
    BY <1>1, <2>1, <2>2 DEF Orderly, PagesOK, FiltersOK, AsksOK
<1> QED
  BY <1>2, <1>3, <1>4, <1>5 DEF Next

(***************************************************************************)
(* For any hosts, rankings and filters: never are two modal pages on show, *)
(* the row selected is one of the table, and no answer is awaited to a     *)
(* question nobody asked.                                                  *)
(***************************************************************************)
THEOREM TypeCorrect == Spec => []TypeOK
<1>1. Init => Orderly
  BY DEF Init, ApplyBPFFilter, Orderly, PagesOK, FiltersOK, TablesOK, AsksOK, Shown
<1>2. Orderly => TypeOK
  <2> SUFFICES ASSUME Orderly PROVE TypeOK
    OBVIOUS
  <2>1. Cardinality(open) <= 1
    <3>1. CASE open = {}
      BY <3>1, FS_EmptySet
    <3>2. CASE open # {}
      <4>1. PICK m : open = {m}
        BY <3>2 DEF Orderly, PagesOK
      <4> QED
        BY <4>1, FS_Singleton
    <3> QED
      BY <3>1, <3>2
  <2> QED
    BY <2>1 DEF Orderly, PagesOK, FiltersOK, TablesOK, AsksOK, Shown, TypeOK
<1> QED
  BY <1>1, <1>2, NextOrderly, PTL DEF Spec
-----------------------------------------------------------------------------
(***************************************************************************)
(* The process tracker, for any ports, processes, systems and rights.      *)
(***************************************************************************)

Owners == Pids \union {IdlePid}

OneSocket == [inode : Nat, proto : Protos, port : Ports, remote : Ports \union {NoPort},
              pid : Owners]

\* The process had a socket that refreshes enter under this port.
HadEntry(port, pid) ==
  \E h \in held : h[3] = pid /\ (h[1] = port \/ (platform = "darwin" /\ h[2] = port))

\* Owners of the open sockets, and of the entries, are known to the history.
Remembered ==
  /\ portMap \in [Ports -> Owners \union {NoPid}]
  /\ todo \subseteq Pids
  /\ opened \in Nat /\ sockets \subseteq OneSocket
  /\ \A s \in sockets : <<s.port, s.remote, s.pid>> \in held
  /\ \A p \in Ports : portMap[p] # NoPid => HadEntry(p, portMap[p])

LEMMA NextRemembered == Remembered /\ [TrackerNext]_allVars => Remembered'
<1> SUFFICES ASSUME Remembered, [TrackerNext]_allVars PROVE Remembered'
  OBVIOUS
<1> USE DEF Remembered, HadEntry
<1>1. CASE OpenSocket /\ UNCHANGED platform
  <2>1. PICK proto \in Protos, port \in Ports, remote \in Ports \union {NoPort}, pid \in Pids :
          /\ sockets' = sockets \union {[inode |-> opened + 1, proto |-> proto, port |-> port,
                                         remote |-> remote, pid |-> pid]}
          /\ held' = held \union {<<port, remote, pid>>}
    BY <1>1 DEF OpenSocket
  <2>2. UNCHANGED <<portMap, todo>> /\ opened' \in Nat
    BY <1>1 DEF OpenSocket, trackerVars
  <2>3. sockets' \subseteq OneSocket
    BY <2>1 DEF OneSocket, Owners
  <2>4. \A s \in sockets' : <<s.port, s.remote, s.pid>> \in held'
    <3> DEFINE new == [inode |-> opened + 1, proto |-> proto, port |-> port,
                       remote |-> remote, pid |-> pid]
    <3>1. new.port = port /\ new.remote = remote /\ new.pid = pid
      OBVIOUS
    <3>2. \A s \in sockets' : s \in sockets \/ s = new
      BY <2>1
    <3> HIDE DEF new
    <3> QED
      BY <2>1, <3>1, <3>2
  <2> QED
    BY <1>1, <2>1, <2>2, <2>3, <2>4
<1>2. CASE CloseSocket /\ UNCHANGED platform
  BY <1>2 DEF CloseSocket, trackerVars
<1>3. CASE Linger /\ UNCHANGED platform
  <2>1. PICK s \in sockets :
          /\ sockets' = (sockets \ {s}) \union {[s EXCEPT !.pid = IdlePid]}
          /\ held' = held \union {<<s.port, s.remote, IdlePid>>}
    BY <1>3 DEF Linger
  <2> DEFINE idle == [s EXCEPT !.pid = IdlePid]
  <2>2. s \in OneSocket
    OBVIOUS
  <2>3. idle \in OneSocket /\ idle.port = s.port /\ idle.remote = s.remote /\ idle.pid = IdlePid
    BY <2>2 DEF OneSocket, Owners
  <2>4. UNCHANGED <<portMap, todo, opened, platform>>
    BY <1>3 DEF Linger, trackerVars
  <2>5. \A t \in sockets' : t \in sockets \/ t = idle
    BY <2>1
  <2> HIDE DEF idle
  <2>6. \A t \in sockets' : <<t.port, t.remote, t.pid>> \in held'
    BY <2>1, <2>3, <2>5
  <2>7. held \subseteq held' /\ sockets' \subseteq OneSocket
    BY <2>1, <2>3, <2>5
  <2> QED
    BY <2>4, <2>6, <2>7
<1>4. CASE (Second \/ Refresh) /\ UNCHANGED platform
  BY <1>4 DEF Second, Refresh, trackerVars
<1>5. CASE ReadSockets /\ UNCHANGED platform
  BY <1>5 DEF ReadSockets, ListProcesses
<1>6. CASE ReadProcess /\ UNCHANGED platform
  <2>1. PICK pid \in todo :
          /\ portMap' = [p \in Ports |-> IF p \in Found(pid) THEN pid ELSE portMap[p]]
          /\ todo' = todo \ {pid}
    BY <1>6 DEF ReadProcess
  <2>2. \A p \in Found(pid) : HadEntry(p, pid)
    BY DEF Found
  <2> QED
    BY <1>6, <2>1, <2>2 DEF ReadProcess, Owners
<1>7. CASE ReadTable /\ UNCHANGED platform
  <2>1. CASE UNCHANGED portMap
    BY <1>7, <2>1 DEF ReadTable
  <2>2. CASE ~UNCHANGED portMap
    <3>1. PICK listed \in [Ports -> Pids \union {IdlePid, NoPid}] :
            /\ \A p \in Ports :
                 LET owners == {s.pid : s \in {t \in Visible : EntryPort(t) = p}}
                 IN  listed[p] \in IF owners = {} THEN {NoPid} ELSE owners
            /\ portMap' = [p \in Ports |-> IF listed[p] = NoPid THEN portMap[p] ELSE listed[p]]
      BY <1>7, <2>2 DEF ReadTable
    <3>2. \A p \in Ports : listed[p] # NoPid => HadEntry(p, listed[p])
      <4> SUFFICES ASSUME NEW p \in Ports, listed[p] # NoPid PROVE HadEntry(p, listed[p])
        OBVIOUS
      <4>1. PICK s \in Visible : EntryPort(s) = p /\ s.pid = listed[p]
        BY <3>1
      <4>2. <<s.port, s.remote, s.pid>> \in held
        BY <4>1 DEF Visible
      <4> QED
        BY <4>1, <4>2 DEF EntryPort
    <3>3. portMap' \in [Ports -> Owners \union {NoPid}]
      BY <3>1 DEF Owners
    <3>4. UNCHANGED <<platform, sockets, opened, held, todo>>
      BY <1>7 DEF ReadTable
    <3> QED
      BY <3>1, <3>2, <3>3, <3>4
  <2> QED
    BY <2>1, <2>2
<1>8. CASE UNCHANGED allVars
  BY <1>8 DEF allVars
<1> QED
  BY <1>1, <1>2, <1>3, <1>4, <1>5, <1>6, <1>7, <1>8 DEF TrackerNext

(***************************************************************************)
(* For any ports, processes and protocols: however sockets come and go     *)
(* between the reads of a refresh, and whichever reads fail, no entry      *)
(* names a process that never had a socket with that port at its own end   *)
(* or, on macOS, at either end.                                            *)
(***************************************************************************)
THEOREM NothingIsInvented == TrackerSpec => []NeverInvented
<1>1. TrackerInit => Remembered
  BY DEF TrackerInit, Remembered, Owners
<1>2. Remembered => NeverInvented
  BY DEF Remembered, HadEntry, NeverInvented, GetProcessMatrix
<1> QED
  BY <1>1, <1>2, NextRemembered, PTL DEF TrackerSpec
-----------------------------------------------------------------------------
\* Socket s is accounted for: the entry of its port is of a visible socket.
Attributed(s) ==
  \E t \in Visible : EntryPort(t) = EntryPort(s) /\ t.pid = portMap[EntryPort(s)]

\* What a refresh has gathered so far, if no socket has come or gone and no
\* read has failed.
Progress ==
  /\ portMap \in [Ports -> Owners \union {NoPid}]
  /\ platform = "windows" \/ \A s \in sockets : s.pid \in Pids
  /\ scan \in {"tcp", "udp", "fds"} => platform = "linux"
  /\ \A s \in inodes : s.proto \in {"tcp", "udp"}
  /\ undisturbed /\ scan = "udp" => \A s \in sockets : s.proto = "tcp" => s \in inodes
  /\ undisturbed /\ scan = "fds" =>
       /\ \A s \in sockets : s.proto \in {"tcp", "udp"} => s \in inodes
       /\ \A s \in Visible : s.pid \in todo \/ Attributed(s)
  /\ undisturbed /\ scan = "idle" => \A s \in Visible : Attributed(s)

LEMMA NextProgress == Remembered /\ Progress /\ [TrackerNext]_allVars => Progress'
<1> SUFFICES ASSUME Remembered, Progress, [TrackerNext]_allVars PROVE Progress'
  OBVIOUS
<1>1. CASE OpenSocket /\ UNCHANGED platform
  <2>1. \A s \in sockets' : s \in sockets \/ s.pid \in Pids
    BY <1>1 DEF OpenSocket
  <2>2. ~undisturbed' /\ UNCHANGED <<portMap, scan, inodes, platform>>
    BY <1>1 DEF OpenSocket, trackerVars
  <2> QED
    BY <2>1, <2>2 DEF Progress
<1>2. CASE CloseSocket /\ UNCHANGED platform
  BY <1>2 DEF CloseSocket, Progress, trackerVars
<1>3. CASE Linger /\ UNCHANGED platform
  <2>1. platform = "windows" /\ ~undisturbed' /\ UNCHANGED <<portMap, scan, inodes, platform>>
    BY <1>3 DEF Linger, trackerVars
  <2> QED
    BY <2>1 DEF Progress
<1>4. CASE Second /\ UNCHANGED platform
  BY <1>4 DEF Second, Progress, Attributed, Visible, EntryPort, trackerVars
<1>5. CASE Refresh /\ UNCHANGED platform
  BY <1>5 DEF Refresh, Progress
<1>6. CASE ReadSockets /\ UNCHANGED platform
  <2>1. CASE scan = "tcp"
    <3>1. /\ UNCHANGED <<platform, sockets, opened, portMap>> /\ platform = "linux"
          /\ scan' = "udp" /\ \A s \in inodes' : s.proto \in {"tcp", "udp"}
      BY <1>6, <2>1 DEF ReadSockets, Progress
    <3>2. undisturbed' => \A s \in sockets : s.proto = "tcp" => s \in inodes'
      BY <1>6, <2>1 DEF ReadSockets
    <3> QED
      BY <3>1, <3>2 DEF Progress
  <2>2. CASE scan = "udp"
    <3>1. /\ UNCHANGED <<platform, sockets, opened, portMap>> /\ platform = "linux"
          /\ \A s \in inodes' : s.proto \in {"tcp", "udp"}
          /\ \/ scan' = "fds" /\ todo' = Pids
             \/ scan' = "idle"
      BY <1>6, <2>2 DEF ReadSockets, ListProcesses, Progress
    <3>2. CASE undisturbed'
      <4>1. /\ undisturbed /\ scan' = "fds" /\ todo' = Pids
            /\ inodes' = inodes \union {s \in sockets : s.proto = scan}
        BY <1>6, <2>2, <3>1, <3>2 DEF ReadSockets
      <4>2. \A s \in sockets' : s.proto \in {"tcp", "udp"} => s \in inodes'
        BY <2>2, <3>1, <4>1 DEF Progress
      <4>3. \A s \in sockets' : s.pid \in Pids
        BY <3>1 DEF Progress
      <4>4. \A s \in Visible' : s.pid \in todo'
        BY <3>1, <4>1, <4>3 DEF Visible
      <4> QED
        BY <3>1, <4>1, <4>2, <4>4 DEF Progress
    <3>3. CASE ~undisturbed'
      BY <3>1, <3>3 DEF Progress
    <3> QED
      BY <3>2, <3>3
  <2> QED
    BY <1>6, <2>1, <2>2 DEF ReadSockets
<1>7. CASE ReadProcess /\ UNCHANGED platform
  <2>1. PICK pid \in todo :
          /\ portMap' = [p \in Ports |-> IF p \in Found(pid) THEN pid ELSE portMap[p]]
          /\ todo' = todo \ {pid}
    BY <1>7 DEF ReadProcess
  <2>2. /\ scan = "fds" /\ platform = "linux" /\ pid \in Pids
        /\ scan' = IF todo' = {} THEN "idle" ELSE "fds"
        /\ UNCHANGED <<platform, sockets, opened, inodes, undisturbed>>
    BY <1>7 DEF ReadProcess, Progress, Remembered
  <2>3. /\ Visible' = Visible
        /\ Visible = {s \in sockets : s.proto \in {"tcp", "udp"} /\ s.pid \notin Unreadable}
    BY <2>2 DEF Visible
  <2>4. \A s \in sockets : EntryPort(s) = s.port /\ EntryPort(s)' = s.port
    BY <2>2 DEF EntryPort
  <2>5. ASSUME undisturbed, NEW s \in Visible, s.pid \notin todo'
        PROVE  \E t \in Visible : t.port = s.port /\ t.pid = portMap'[s.port]
    <3>1. /\ \A t \in Visible : t \in inodes
          /\ s.port \in Ports /\ (s.pid \in todo \/ Attributed(s))
      BY <2>2, <2>3, <2>5 DEF Progress, Remembered, OneSocket
    <3>2. CASE s.port \in Found(pid)
      <4>1. portMap'[s.port] = pid
        BY <2>1, <3>1, <3>2
      <4>2. PICK t \in inodes : t \in sockets /\ t.pid = pid /\ t.port = s.port
        BY <3>2 DEF Found
      <4>3. pid \notin Unreadable
        BY <3>2 DEF Found
      <4>4. t.proto \in {"tcp", "udp"}
        BY <4>2 DEF Progress
      <4> QED
        BY <2>3, <4>1, <4>2, <4>3, <4>4
    <3>3. CASE s.port \notin Found(pid)
      <4>1. s.pid # pid
        BY <2>3, <3>1, <3>3 DEF Found
      <4>2. Attributed(s) /\ portMap'[s.port] = portMap[s.port]
        BY <2>1, <2>5, <3>1, <3>3, <4>1
      <4> QED
        BY <2>3, <2>4, <4>2 DEF Attributed
    <3> QED
      BY <3>2, <3>3
  <2>6. undisturbed' => \A s \in Visible' : s.pid \in todo' \/ Attributed(s)'
    BY <2>2, <2>3, <2>4, <2>5 DEF Attributed
  <2>7. portMap' \in [Ports -> Owners \union {NoPid}]
    BY <2>1, <2>2 DEF Progress, Owners
  <2> QED
    BY <2>2, <2>6, <2>7 DEF Progress
<1>8. CASE ReadTable /\ UNCHANGED platform
  <2>1. scan' = "idle" /\ UNCHANGED <<platform, sockets, opened, inodes>>
    BY <1>8 DEF ReadTable
  <2>2. CASE UNCHANGED portMap /\ ~undisturbed'
    BY <2>1, <2>2 DEF Progress
  <2>3. CASE ~(UNCHANGED portMap /\ ~undisturbed')
    <3>1. PICK listed \in [Ports -> Pids \union {IdlePid, NoPid}] :
            /\ \A p \in Ports :
                 LET owners == {s.pid : s \in {t \in Visible : EntryPort(t) = p}}
                 IN  listed[p] \in IF owners = {} THEN {NoPid} ELSE owners
            /\ portMap' = [p \in Ports |-> IF listed[p] = NoPid THEN portMap[p] ELSE listed[p]]
      BY <1>8, <2>3 DEF ReadTable
    <3>2. /\ Visible' = Visible /\ (\A s \in Visible : s \in sockets)
          /\ \A s \in sockets : EntryPort(s)' = EntryPort(s)
      BY <2>1 DEF Visible, EntryPort
    <3>3. ASSUME NEW s \in Visible
          PROVE  \E t \in Visible : EntryPort(t) = EntryPort(s)
                                    /\ t.pid = portMap'[EntryPort(s)]
      <4>1. EntryPort(s) \in Ports
        BY <3>2 DEF Remembered, OneSocket, EntryPort
      <4>2. PICK t \in Visible : EntryPort(t) = EntryPort(s) /\ t.pid = listed[EntryPort(s)]
        <5> DEFINE owners == {x.pid : x \in {t \in Visible : EntryPort(t) = EntryPort(s)}}
        <5>1. listed[EntryPort(s)] \in IF owners = {} THEN {NoPid} ELSE owners
          BY <3>1, <4>1
        <5>2. s.pid \in owners
          OBVIOUS
        <5>3. listed[EntryPort(s)] \in owners
          BY <5>1, <5>2
        <5> QED
          BY <5>3
      <4>3. listed[EntryPort(s)] # NoPid
        BY <3>2, <4>2, TrackerAssumption DEF Remembered, OneSocket, Owners
      <4> QED
        BY <3>1, <4>1, <4>2, <4>3
    <3>4. \A s \in Visible' : Attributed(s)'
      BY <3>2, <3>3 DEF Attributed
    <3>5. portMap' \in [Ports -> Owners \union {NoPid}]
      BY <3>1 DEF Progress, Owners
    <3> QED
      BY <2>1, <3>4, <3>5 DEF Progress
  <2> QED
    BY <2>2, <2>3
<1>9. CASE UNCHANGED allVars
  BY <1>9 DEF allVars, Progress, Attributed, Visible, EntryPort
<1> QED
  BY <1>1, <1>2, <1>3, <1>4, <1>5, <1>6, <1>7, <1>8, <1>9 DEF TrackerNext

(***************************************************************************)
(* For any ports, processes and protocols, on every platform: a refresh    *)
(* that succeeds, and that no socket comes or goes during, gives every     *)
(* socket it can see an owner, whatever entries were there before and in   *)
(* whatever order the processes are looked at.                             *)
(***************************************************************************)
THEOREM OwnersAreFound == TrackerSpec => []RefreshFindsOwners
<1>1. TrackerInit => Progress
  BY DEF TrackerInit, Progress, Owners
<1>2. TrackerInit => Remembered
  BY DEF TrackerInit, Remembered, Owners
<1>3. Progress => RefreshFindsOwners
  BY DEF Progress, Attributed, RefreshFindsOwners, Readable
<1> QED
  BY <1>1, <1>2, <1>3, NextRemembered, NextProgress, PTL DEF TrackerSpec
=============================================================================
