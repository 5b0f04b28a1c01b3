------------------------------ MODULE Tracker ------------------------------
(***************************************************************************)
(* process.Tracker: the map from local ports to the processes that own     *)
(* them, rebuilt from the operating system when the process panel asks.    *)
(*                                                                         *)
(* On Linux a refresh reads two tables of sockets and then the descriptors *)
(* of every process, one after the other, while processes open and close   *)
(* sockets.  On the other systems it parses the output of one command.  A  *)
(* table, a list of processes or a command that cannot be had adds nothing *)
(* to the map.                                                             *)
(***************************************************************************)
EXTENDS Integers, FiniteSets, Functions

CONSTANTS
    Ports, Pids, NoPid, NoPort,
    IdlePid,         \* PID 0, under which Windows lists closed connections
    Protos,          \* of "tcp", "udp", "tcp6" and "udp6"
    Platforms,       \* what runtime.GOOS may be: "linux", "windows", "darwin"
    Unreadable,      \* processes the program has no right to look into
    MaxSockets, MaxTime  \* bounds: sockets ever opened, clock

ASSUME TrackerAssumption ==
    /\ NoPid \notin Pids \union {IdlePid} /\ IdlePid \notin Pids /\ NoPort \notin Ports
    /\ Protos \subseteq {"tcp", "udp", "tcp6", "udp6"}

VARIABLES
    platform,        \* runtime.GOOS, which never changes
    sockets,         \* sockets: inode, proto, port, the port at the other end, owner
    opened,          \* inodes given out; an inode is not given out twice
    clock,           \* seconds
    portMap,         \* Tracker.portMap: owner of a port, NoPid when there is no entry
    lastLookup,      \* Tracker.lastLookup
    scan,            \* "idle", or what a refresh reads next: "tcp", "udp", "fds"
    inodes,          \* the sockets of the tables it has read
    todo,            \* the processes it has still to look at
    held,            \* history: every (port, port at the other end, owner) there was
    undisturbed      \* history: since the last scan began no socket has come or gone,
                     \* and no read has failed

allVars == <<platform, sockets, opened, clock, portMap, lastLookup, scan, inodes, todo,
             held, undisturbed>>
trackerVars == <<portMap, lastLookup, scan, inodes, todo>>

TrackerInit ==
    /\ platform \in Platforms
    /\ sockets = {} /\ opened = 0 /\ clock = 0
    /\ portMap = [p \in Ports |-> NoPid]
    /\ lastLookup = -2      \* the zero time, long ago
    /\ scan = "idle" /\ inodes = {} /\ todo = {}
    /\ held = {} /\ undisturbed = FALSE
-----------------------------------------------------------------------------
(* The operating system *)

OpenSocket ==
    \E proto \in Protos, port \in Ports, remote \in Ports \union {NoPort}, pid \in Pids :
        /\ opened < MaxSockets
        /\ \A s \in sockets : <<s.proto, s.port, s.remote>> # <<proto, port, remote>>
        /\ opened' = opened + 1
        /\ sockets' = sockets \union {[inode |-> opened + 1, proto |-> proto, port |-> port,
                                       remote |-> remote, pid |-> pid]}
        /\ held' = held \union {<<port, remote, pid>>}
        /\ undisturbed' = FALSE
        /\ UNCHANGED <<clock, trackerVars>>

CloseSocket ==
    \E s \in sockets :
        /\ sockets' = sockets \ {s}
        /\ undisturbed' = FALSE
        /\ UNCHANGED <<opened, clock, trackerVars, held>>

\* On Windows a closed connection of TCP stays in the table for a while.
Linger ==
    \E s \in sockets :
        /\ platform = "windows" /\ s.proto = "tcp" /\ s.remote # NoPort /\ s.pid # IdlePid
        /\ sockets' = (sockets \ {s}) \union {[s EXCEPT !.pid = IdlePid]}
        /\ held' = held \union {<<s.port, s.remote, IdlePid>>}
        /\ undisturbed' = FALSE
        /\ UNCHANGED <<opened, clock, trackerVars>>

Second ==
    /\ clock < MaxTime
    /\ clock' = clock + 1
    /\ UNCHANGED <<sockets, opened, trackerVars, held, undisturbed>>
-----------------------------------------------------------------------------
(* Tracker.Refresh *)

IsEmpty == \A p \in Ports : portMap[p] = NoPid

\* At most once in two seconds, unless the last refresh found nothing.
MayRefresh == clock - lastLookup >= 2 \/ IsEmpty

Refresh ==
    /\ scan = "idle" /\ MayRefresh
    /\ lastLookup' = clock
    /\ scan' = IF platform = "linux" THEN "tcp" ELSE "table"
    /\ inodes' = {}
    /\ undisturbed' = TRUE
    /\ UNCHANGED <<sockets, opened, clock, portMap, todo, held>>

\* The list of /proc, which follows the second table.
ListProcesses ==
    \/ scan' = "fds" /\ todo' = Pids
    \/ scan' = "idle" /\ UNCHANGED todo   \* it cannot be read

\* Mutant of ReadSockets: the second table replaces the first.
ReadSocketsAnew ==
    /\ scan \in {"tcp", "udp"}
    /\ inodes' = {s \in sockets : s.proto = scan}
    /\ IF scan = "tcp" THEN scan' = "udp" /\ UNCHANGED todo ELSE ListProcesses
    /\ undisturbed' = (undisturbed /\ scan' # "idle")
    /\ UNCHANGED <<sockets, opened, clock, portMap, lastLookup, held>>

\* parseProcNet of /proc/net/tcp, then of /proc/net/udp, then the list of /proc.
ReadSockets ==
    /\ scan \in {"tcp", "udp"}
    /\ IF scan = "tcp" THEN scan' = "udp" /\ UNCHANGED todo ELSE ListProcesses
    /\ \/ /\ inodes' = inodes \union {s \in sockets : s.proto = scan}
          /\ undisturbed' = (undisturbed /\ scan' # "idle")
       \/ UNCHANGED inodes /\ undisturbed' = FALSE   \* the table cannot be opened
    /\ UNCHANGED <<sockets, opened, clock, portMap, lastLookup, held>>

\* Mutant of Found: a process that holds a socket gets every port of the tables.
FoundAll(pid) ==
    IF \E s \in sockets : s.pid = pid THEN {s.port : s \in inodes} ELSE {}

\* The ports of the sockets a process holds now and the tables knew.
Found(pid) ==
    IF pid \in Unreadable THEN {}
    ELSE {s.port : s \in {t \in inodes : t \in sockets /\ t.pid = pid}}

\* One process: each port found is mapped to it, over what was there before.
ReadProcess ==
    /\ scan = "fds"
    /\ \E pid \in todo :
         /\ portMap' = [p \in Ports |-> IF p \in Found(pid) THEN pid ELSE portMap[p]]
         /\ todo' = todo \ {pid}
    /\ scan' = IF todo' = {} THEN "idle" ELSE "fds"
    /\ UNCHANGED <<sockets, opened, clock, lastLookup, inodes, held, undisturbed>>

\* The sockets a refresh can see: on Linux those of two tables, on Windows the
\* rows of TCP, with lsof all; Windows asks for no right to look into a process.
Visible ==
    {s \in sockets :
        /\ platform = "linux" => s.proto \in {"tcp", "udp"}
        /\ platform = "windows" => s.proto = "tcp"
        /\ platform # "windows" => s.pid \notin Unreadable}

\* The port a socket is entered under.  Of "local:54321->remote:443", as lsof
\* writes a connection, refreshMacOS takes what follows the last colon.
EntryPort(s) == IF platform = "darwin" /\ s.remote # NoPort THEN s.remote ELSE s.port

\* netstat or lsof: of the sockets with one port, the one listed last.
ReadTable ==
    /\ scan = "table"
    /\ \/ /\ \E listed \in [Ports -> Pids \union {IdlePid, NoPid}] :
               /\ \A p \in Ports :
                    LET owners == {s.pid : s \in {t \in Visible : EntryPort(t) = p}}
                    IN  listed[p] \in IF owners = {} THEN {NoPid} ELSE owners
               /\ portMap' = [p \in Ports |->
                                IF listed[p] = NoPid THEN portMap[p] ELSE listed[p]]
          /\ UNCHANGED undisturbed
       \/ UNCHANGED portMap /\ undisturbed' = FALSE   \* the command fails
    /\ scan' = "idle"
    /\ UNCHANGED <<sockets, opened, clock, lastLookup, inodes, todo, held>>

TrackerNext ==
    /\ \/ OpenSocket \/ CloseSocket \/ Linger \/ Second
       \/ Refresh \/ ReadSockets \/ ReadProcess \/ ReadTable
    /\ UNCHANGED platform

TrackerSpec == TrackerInit /\ [][TrackerNext]_allVars

\* The lookups take the lock, so they see the map between two refreshes.
Readable == scan = "idle"

GetProcessMatrix == {<<p, portMap[p]>> : p \in {q \in Ports : portMap[q] # NoPid}}

\* NoPid stands for "System/Kernel".
ResolveFlow(src, dst) == IF portMap[src] # NoPid THEN portMap[src] ELSE portMap[dst]
-----------------------------------------------------------------------------
(***************************************************************************)
(* No flow is ever pinned on a process that had nothing to do with it:     *)
(* although the tables and the descriptors are read at different moments,  *)
(* an entry names a process that did hold a socket with that port at its   *)
(* own end, or on macOS, where connections are entered under the port of   *)
(* the other end, at one of its ends.                                      *)
(***************************************************************************)
NeverInvented ==
    \A e \in GetProcessMatrix : \E h \in held :
        h[3] = e[2] /\ (h[1] = e[1] \/ (platform = "darwin" /\ h[2] = e[1]))

(***************************************************************************)
(* A refresh that succeeds, and that no socket comes or goes during, finds *)
(* an owner for the port of every socket that it can see: earlier entries  *)
(* do not hide it.  Of a connection on macOS it is the port of the other   *)
(* end, and nothing is said of its own.                                    *)
(***************************************************************************)
RefreshFindsOwners ==
    Readable /\ undisturbed =>
        \A s \in Visible : \E t \in Visible :
            EntryPort(t) = EntryPort(s) /\ t.pid = portMap[EntryPort(s)]

\* The map is from the "LocalPort" (tracker.go:25) of a socket to its owner: an
\* entry names a process that had a socket with that port at its own end.
EntriesAreLocal == \A e \in GetProcessMatrix : \E h \in held : h[1] = e[1] /\ h[3] = e[2]

(***************************************************************************)
(* GetProcessMatrix "returns a slice of all active process socket          *)
(* mappings" (tracker.go:248): right after an undisturbed refresh, every   *)
(* entry is that of an open socket.                                        *)
(***************************************************************************)
MatrixIsActive ==
    Readable /\ undisturbed =>
        \A e \in GetProcessMatrix : \E s \in sockets : e = <<s.port, s.pid>>

(***************************************************************************)
(* ResolveFlow "returns local process metadata ... for a network flow"     *)
(* (tracker.go:47): for a packet that came in to a local port in use, the  *)
(* owner of that port, whatever port it came from.                         *)
(***************************************************************************)
ResolvesLocalPort ==
    Readable /\ undisturbed =>
        \A s \in sockets, remote \in Ports :
            \E t \in sockets : t.port = s.port /\ t.pid = ResolveFlow(remote, s.port)
=============================================================================
