----------------------------- MODULE Aggregator -----------------------------
(***************************************************************************)
(* The client's connections to servers (client/aggregator.go).  Callers    *)
(* are the goroutines that use the aggregator: one for each browser        *)
(* (handleUIMessages) and the one that connects to the enrolled servers    *)
(* when the program starts (main.go).  Each connection has a reader        *)
(* (readPump) and a writer (writePump).                                    *)
(*                                                                         *)
(* The row of a host in enrolled_servers is made once, by whoever enrolls  *)
(* it first, and nothing deletes it: a host stands for the server id of    *)
(* its row.  Host names are normalised before anything else is done with   *)
(* them, so a caller names hosts.  What channel lists, messages and pages  *)
(* of history do after a reader has taken them is a matter of the browsers *)
(* (ClientUI).                                                             *)
(***************************************************************************)
EXTENDS Naturals, FiniteSets

CONSTANTS
  Browsers, \* goroutines that call Connect, Disconnect and the requests
  Starter,  \* the goroutine that connects to the enrolled servers at the start
  Hosts,    \* servers
  Conns,    \* bound: the websockets that may be dialled, in this order
  SendCap,  \* capacity of ServerConnection.send (256 in the code)
  None      \* no host, no connection

Callers == Browsers \cup {Starter}

ASSUME KindsAssumption ==
  /\ Starter \notin Browsers
  /\ Callers \cap Conns = {}
  /\ None \notin Conns \cup Hosts
ASSUME ConnsAssumption == Conns \subseteq Nat
ASSUME SendCapAssumption == SendCap \in Nat \ {0}

\* Whatever runs Disconnect: callers, and readers at their end.
Actors == Callers \cup Conns

VARIABLES
  connections,  \* Aggregator.connections
  crossed,      \* history: connections registered while another Connect to
                \* their host had found none and was on its way
  host,         \* ServerConnection.server of each connection
  at,           \* where each caller, and each connection's reader, is
  target,       \* the host a caller is connecting to
  held,         \* the connection an actor is making, using or closing
  name,         \* display_name of each host's row: none, its host name, its own
  todo,         \* rows the starter has read, and not yet connected to
  done,         \* connections whose done channel is closed
  sock,         \* the socket of each connection
  writer,       \* where each connection's writePump is
  send          \* how many requests wait in ServerConnection.send

mapVars    == <<connections, crossed>>
callerVars == <<mapVars, host, at, target, held>>
rowVars    == <<name, todo>>
wireVars   == <<done, sock, writer, send>>
vars       == <<callerVars, rowVars, wireVars>>

-----------------------------------------------------------------------------
OnTheWay     == {"enroll", "dial", "register"}
Connecting   == OnTheWay \cup {"start"}
Closing      == {"close_done", "close_conn"}
CallerStates == {"load", "idle", "push"} \cup Connecting \cup Closing
\* Reading before auth_ok, and after it with the server's name stored or not.
Reading      == {"reading", "named", "unnamed"}
ReaderStates == {"none", "auth", "leaving", "gone"} \cup Reading \cup Closing

TypeOK ==
  /\ connections \in [Hosts -> Conns \cup {None}]
  /\ crossed \in SUBSET Conns
  /\ host \in [Conns -> Hosts \cup {None}]
  /\ at \in [Actors -> CallerStates \cup ReaderStates]
  /\ \A u \in Callers : at[u] \in CallerStates
  /\ \A c \in Conns : at[c] \in ReaderStates
  /\ target \in [Callers -> Hosts \cup {None}]
  /\ held \in [Actors -> Conns \cup {None}]
  /\ name \in [Hosts -> {"none", "hostname", "display"}]
  /\ todo \in SUBSET Hosts
  /\ done \in SUBSET Conns
  /\ sock \in [Conns -> {"none", "open", "broken", "closed"}]
  /\ writer \in [Conns -> {"none", "running", "gone"}]
  /\ send \in [Conns -> 0..SendCap]

Init ==
  /\ connections = [h \in Hosts |-> None]
  /\ crossed = {}
  /\ host = [c \in Conns |-> None]
  /\ at = [a \in Actors |-> CASE a \in Browsers -> "idle"
                            [] a = Starter    -> "load"
                            [] a \in Conns    -> "none"]
  /\ target = [u \in Callers |-> None]
  /\ held = [a \in Actors |-> None]
  /\ name \in [Hosts -> {"none", "hostname", "display"}]
  /\ todo = {}
  /\ done = {}
  /\ sock = [c \in Conns |-> "none"]
  /\ writer = [c \in Conns |-> "none"]
  /\ send = [c \in Conns |-> 0]

-----------------------------------------------------------------------------
(* Connect.  A caller that finds its host connected returns at once.       *)

\* (Mutant: Connect does not look for a connection first.)
CheckNothing(u, h) ==
  /\ at[u] = "idle"
  /\ at' = [at EXCEPT ![u] = "enroll"]
  /\ target' = [target EXCEPT ![u] = h]
  /\ UNCHANGED <<mapVars, host, held, name, wireVars>>

Check(u, h) ==
  /\ at[u] = "idle"
  /\ connections[h] = None
  /\ at' = [at EXCEPT ![u] = "enroll"]
  /\ target' = [target EXCEPT ![u] = h]
  /\ UNCHANGED <<mapVars, host, held, name, wireVars>>

\* A page asks for the connection.
Ask(u, h) == Check(u, h) /\ UNCHANGED todo

\* The starter reads the rows, once, or ends because it could not.
Load ==
  /\ at[Starter] = "load"
  /\ \/ todo' = {h \in Hosts : name[h] # "none"}
     \/ UNCHANGED todo
  /\ at' = [at EXCEPT ![Starter] = "idle"]
  /\ UNCHANGED <<mapVars, host, target, held, name, wireVars>>

\* It connects to one host after the other, whether that fails or not.
ConnectNext(h) ==
  /\ h \in todo
  /\ at[Starter] = "idle"
  /\ todo' = todo \ {h}
  /\ \/ Check(Starter, h)
     \/ connections[h] # None /\ UNCHANGED <<callerVars, name, wireVars>>

\* The host is its own display name until the server tells another.
Enroll(u) ==
  /\ at[u] = "enroll"
  /\ name' = [name EXCEPT ![target[u]] = "hostname"]
  /\ at' = [at EXCEPT ![u] = "dial"]
  /\ UNCHANGED <<mapVars, host, target, held, todo, wireVars>>

Fresh(c) == sock[c] = "none" /\ \A d \in Conns : d < c => sock[d] # "none"

\* (Mutant: the pumps are started before the connection is registered.)
DialAndStart(u, c) ==
  /\ at[u] = "dial"
  /\ Fresh(c)
  /\ sock' = [sock EXCEPT ![c] = "open"]
  /\ host' = [host EXCEPT ![c] = target[u]]
  /\ held' = [held EXCEPT ![u] = c]
  /\ at' = [at EXCEPT ![u] = "register", ![c] = "reading"]
  /\ writer' = [writer EXCEPT ![c] = "running"]
  /\ UNCHANGED <<mapVars, target, rowVars, done, send>>

Dial(u, c) ==
  /\ at[u] = "dial"
  /\ Fresh(c)
  /\ sock' = [sock EXCEPT ![c] = "open"]
  /\ host' = [host EXCEPT ![c] = target[u]]
  /\ held' = [held EXCEPT ![u] = c]
  /\ at' = [at EXCEPT ![u] = "register"]
  /\ UNCHANGED <<mapVars, target, rowVars, done, writer, send>>

\* The database, or the dialer, returns an error.
ConnectFails(u) ==
  /\ at[u] \in {"enroll", "dial"}
  /\ at' = [at EXCEPT ![u] = "idle"]
  /\ target' = [target EXCEPT ![u] = None]
  /\ UNCHANGED <<mapVars, host, held, rowVars, wireVars>>

\* Whatever the map has for the host by then is written over.
Register(u) ==
  /\ at[u] = "register"
  /\ connections' = [connections EXCEPT ![target[u]] = held[u]]
  /\ crossed' = crossed \cup
       {c \in {held[u]} : \E v \in Callers \ {u} : at[v] \in OnTheWay /\ target[v] = target[u]}
  /\ at' = [at EXCEPT ![u] = "start"]
  /\ UNCHANGED <<host, target, held, rowVars, wireVars>>

\* (Mutant: the writer is not started.)
StartReader(u) ==
  /\ at[u] = "start"
  /\ at' = [at EXCEPT ![u] = "idle", ![held[u]] = "reading"]
  /\ target' = [target EXCEPT ![u] = None]
  /\ held' = [held EXCEPT ![u] = None]
  /\ UNCHANGED <<mapVars, host, rowVars, wireVars>>

Start(u) ==
  /\ at[u] = "start"
  /\ at' = [at EXCEPT ![u] = "idle", ![held[u]] = "reading"]
  /\ writer' = [writer EXCEPT ![held[u]] = "running"]
  /\ target' = [target EXCEPT ![u] = None]
  /\ held' = [held EXCEPT ![u] = None]
  /\ UNCHANGED <<mapVars, host, rowVars, done, sock, send>>

-----------------------------------------------------------------------------
(* Disconnect(h), in three steps: the map under its lock, the done         *)
(* channel, the socket.                                                    *)

\* (Mutant: the connection is looked up, and left in the map for others.)
RemoveLater(a, h) ==
  /\ connections[h] # None
  /\ held' = [held EXCEPT ![a] = connections[h]]
  /\ at' = [at EXCEPT ![a] = "close_done"]
  /\ UNCHANGED <<mapVars, host, target, rowVars, wireVars>>

Remove(a, h) ==
  /\ connections[h] # None
  /\ held' = [held EXCEPT ![a] = connections[h]]
  /\ connections' = [connections EXCEPT ![h] = None]
  /\ at' = [at EXCEPT ![a] = "close_done"]
  /\ UNCHANGED <<crossed, host, target, rowVars, wireVars>>

CloseDone(a) ==
  /\ at[a] = "close_done"
  /\ done' = done \cup {held[a]}
  /\ at' = [at EXCEPT ![a] = "close_conn"]
  /\ UNCHANGED <<mapVars, host, target, held, rowVars, sock, writer, send>>

CloseConn(a) ==
  /\ at[a] = "close_conn"
  /\ sock' = [sock EXCEPT ![held[a]] = "closed"]
  /\ held' = [held EXCEPT ![a] = None]
  /\ at' = [at EXCEPT ![a] = IF a \in Callers THEN "idle" ELSE "gone"]
  /\ UNCHANGED <<mapVars, host, target, rowVars, done, writer, send>>

Disconnect(u, h) == at[u] = "idle" /\ Remove(u, h)

-----------------------------------------------------------------------------
(* Subscribe, Unsubscribe, SendMessage and GetHistory find the connection  *)
(* and put a request on its send channel, waiting for room.                *)

Request(u, h) ==
  /\ at[u] = "idle"
  /\ connections[h] # None
  /\ held' = [held EXCEPT ![u] = connections[h]]
  /\ at' = [at EXCEPT ![u] = "push"]
  /\ UNCHANGED <<mapVars, host, target, rowVars, wireVars>>

\* (Mutant: no more room than there is.)
PushRegardless(u) ==
  /\ at[u] = "push"
  /\ send' = [send EXCEPT ![held[u]] = @ + 1]
  /\ held' = [held EXCEPT ![u] = None]
  /\ at' = [at EXCEPT ![u] = "idle"]
  /\ UNCHANGED <<mapVars, host, target, rowVars, done, sock, writer>>

Push(u) ==
  /\ at[u] = "push"
  /\ send[held[u]] < SendCap
  /\ send' = [send EXCEPT ![held[u]] = @ + 1]
  /\ held' = [held EXCEPT ![u] = None]
  /\ at' = [at EXCEPT ![u] = "idle"]
  /\ UNCHANGED <<mapVars, host, target, rowVars, done, sock, writer>>

-----------------------------------------------------------------------------
(* The reader.  What was received before the socket was closed can still   *)
(* be read after it.  A server sends auth_ok once.                         *)

\* handleMessage, auth_ok: the connection first, then the row of its host.
AuthOK(c) ==
  /\ at[c] = "reading"
  /\ at' = [at EXCEPT ![c] = "auth"]
  /\ UNCHANGED <<mapVars, host, target, held, rowVars, wireVars>>

\* (Mutant: the row is given its host name again.)
RenameToHost(c) ==
  /\ at[c] = "auth"
  /\ name' = [name EXCEPT ![host[c]] = "hostname"]
  /\ at' = [at EXCEPT ![c] = "named"]
  /\ UNCHANGED <<mapVars, host, target, held, todo, wireVars>>

\* An error of EnrollServer is ignored: the row stays as it was.
Rename(c) ==
  /\ at[c] = "auth"
  /\ \/ /\ name' = [name EXCEPT ![host[c]] = "display"]
        /\ at' = [at EXCEPT ![c] = "named"]
     \/ /\ at' = [at EXCEPT ![c] = "unnamed"]
        /\ UNCHANGED name
  /\ UNCHANGED <<mapVars, host, target, held, todo, wireVars>>

\* The socket is down, the deadline has passed or the message is too long.
ReadFails(c) ==
  /\ at[c] \in Reading
  /\ at' = [at EXCEPT ![c] = "leaving"]
  /\ UNCHANGED <<mapVars, host, target, held, rowVars, wireVars>>

\* The reader disconnects its server, by the server's id: whichever
\* connection the map has for it.
Leave(c) ==
  /\ at[c] = "leaving"
  /\ \/ Remove(c, host[c])
     \/ /\ connections[host[c]] = None
        /\ at' = [at EXCEPT ![c] = "gone"]
        /\ UNCHANGED <<mapVars, host, target, held, rowVars, wireVars>>

-----------------------------------------------------------------------------
(* The writer.  It closes the socket however it ends.                      *)

Write(c) ==
  /\ writer[c] = "running"
  /\ sock[c] # "closed"
  /\ send[c] > 0
  /\ send' = [send EXCEPT ![c] = @ - 1]
  /\ UNCHANGED <<callerVars, rowVars, done, sock, writer>>

\* (Mutant: the socket is left open.)
WriteFailsSilently(c) ==
  /\ writer[c] = "running"
  /\ \/ UNCHANGED send
     \/ send[c] > 0 /\ send' = [send EXCEPT ![c] = @ - 1]
  /\ writer' = [writer EXCEPT ![c] = "gone"]
  /\ UNCHANGED <<callerVars, rowVars, done, sock>>

\* A request, or the ping of the ticker, could not be written in time.
WriteFails(c) ==
  /\ writer[c] = "running"
  /\ \/ UNCHANGED send
     \/ send[c] > 0 /\ send' = [send EXCEPT ![c] = @ - 1]
  /\ writer' = [writer EXCEPT ![c] = "gone"]
  /\ sock' = [sock EXCEPT ![c] = "closed"]
  /\ UNCHANGED <<callerVars, rowVars, done>>

Stop(c) ==
  /\ writer[c] = "running"
  /\ c \in done
  /\ writer' = [writer EXCEPT ![c] = "gone"]
  /\ sock' = [sock EXCEPT ![c] = "closed"]
  /\ UNCHANGED <<callerVars, rowVars, done, send>>

\* The server closes the connection, or the network loses it.
Break(c) ==
  /\ sock[c] = "open"
  /\ sock' = [sock EXCEPT ![c] = "broken"]
  /\ UNCHANGED <<callerVars, rowVars, done, writer, send>>

-----------------------------------------------------------------------------
\* What is left of Connect, once it has found no connection.
ConnectOn(u) ==
  \/ Enroll(u) \/ ConnectFails(u) \/ Register(u) \/ Start(u)
  \/ \E c \in Conns : Dial(u, c)

BrowserNext(u) ==
  \/ Push(u)
  \/ \E h \in Hosts : Ask(u, h) \/ Disconnect(u, h) \/ Request(u, h)

ConnNext(c) ==
  \/ AuthOK(c) \/ Rename(c) \/ ReadFails(c) \/ Leave(c)
  \/ Write(c) \/ WriteFails(c) \/ Stop(c) \/ Break(c)

Next ==
  \/ Load
  \/ \E h \in Hosts : ConnectNext(h)
  \/ \E u \in Browsers : BrowserNext(u)
  \/ \E u \in Callers : ConnectOn(u)
  \/ \E c \in Conns : ConnNext(c)
  \/ \E a \in Actors : CloseDone(a) \/ CloseConn(a)

Spec == Init /\ [][Next]_vars

\* Goroutines that can go on do: a started Connect and a Disconnect are
\* carried through, readers go on reading, writers writing (the ticker sees
\* to it that a dead socket is noticed), and the senders that wait for a Go
\* channel are served first come, first served.
Fairness ==
  /\ \A u \in Callers : WF_vars(Register(u) \/ Start(u) \/ CloseDone(u) \/ CloseConn(u))
  /\ \A u \in Browsers : SF_vars(Push(u))
  /\ \A c \in Conns :
       /\ WF_vars(\/ Rename(c) \/ Leave(c) \/ CloseDone(c) \/ CloseConn(c)
                  \/ sock[c] # "open" /\ ReadFails(c))
       /\ WF_vars(Write(c) \/ Stop(c) \/ (sock[c] # "open" /\ WriteFails(c)))

FairSpec == Spec /\ Fairness

-----------------------------------------------------------------------------
(* What holds however many callers connect to the same host at once.       *)

\* A connection's done channel is closed at most once, however many browsers
\* disconnect the server and readers fail at the same time: closing it again
\* would panic (Disconnect, aggregator.go 139-152).
DoneClosedOnce ==
  /\ \A a \in Actors : at[a] = "close_done" => held[a] \notin done
  /\ \A a, b \in Actors :
       at[a] = "close_done" /\ at[b] = "close_done" /\ held[a] = held[b] => a = b

\* A connection whose reader has ended is never in the map again: a caller is
\* not refused a new connection, nor handed a dead one, because of it
\* (Connect 93-125, readPump 269-272).
DeadAreUnlisted ==
  \A c \in Conns : at[c] = "gone" => \A h \in Hosts : connections[h] # c

\* Every connection that is being read, and that nobody is closing, is in the
\* map, where Disconnect and the requests find it ("GetConnections returns
\* all active connections", aggregator.go 161).
Active(c) ==
  /\ at[c] \in {"auth", "leaving"} \cup Reading
  /\ c \notin done
  /\ \A a \in Actors : at[a] \in Closing => held[a] # c

AllActiveListed == \A c \in Conns : Active(c) => connections[host[c]] = c

\* The code keeps that, except for connections that were registered while
\* another Connect to their host had already found none (93-125): only those
\* are ever written over, however Connects, Disconnects and readers that fail
\* follow each other otherwise.
UncrossedAreListed ==
  \A c \in Conns : Active(c) => connections[host[c]] = c \/ c \in crossed

\* Once the name a server gave itself is stored, the row of its host keeps it
\* as long as the map has the connection: no Connect under way puts the host
\* name back (EnrollServer at 104 and 347), unless it crossed this one.
StoredNamesStay ==
  \A c \in Conns :
    at[c] = "named" /\ connections[host[c]] = c =>
      name[host[c]] = "display" \/ c \in crossed

\* A reader disconnects its host by its id, whichever connection the map has
\* by then (269-272).  That is another one than its own only when its own had
\* been disconnected before, by somebody else, or when its own was crossed by
\* another Connect: these are the two ways in which the end of one connection
\* closes another one that is in use.
LateReadersCloseSuccessors ==
  [][\A c \in Conns :
       at[c] = "leaving" /\ at'[c] = "close_done" /\ held'[c] # c =>
         \/ c \in done \cup crossed
         \/ \E a \in Actors : at[a] \in Closing /\ held[a] = c]_vars

\* When one of a connection's two pumps ends, the other does and the map
\* forgets the connection: neither is left behind (269-324).  A connection
\* that another Connect crossed may have been written over in the map: its
\* done channel is never closed, and its writer may go on pinging.
PumpsEndTogether ==
  \A c \in Conns :
    at[c] \in {"leaving", "gone"} \/ writer[c] = "gone" ~>
      \/ at[c] = "gone" /\ writer[c] = "gone" /\ \A h \in Hosts : connections[h] # c
      \/ c \in crossed

\* A caller waiting for room gets it as long as the connection's writer runs
\* (192, 215, 240, 265).  After the writer has ended the caller may wait for
\* ever.
RequestersAreServed ==
  \A u \in Callers :
    at[u] = "push" ~> at[u] # "push" \/ writer[held[u]] = "gone"

-----------------------------------------------------------------------------
(* What the map does, seen from outside (Registry).                        *)

\* The connections that are, or have been, in the map.
Listed ==
  {c \in Conns :
     sock[c] # "none" /\ \A u \in Callers : at[u] = "register" => held[u] # c}

\* Taken off the map, and not yet told to end.
Out == {held[a] : a \in {b \in Actors : at[b] = "close_done"}}

Slots == INSTANCE Registry
  WITH slot <- connections, used <- Listed, contested <- crossed, out <- Out, retired <- done

\* Connect, Disconnect and the readers keep one connection to a host: Connect
\* registers one where there is none, or writes over one that it crossed,
\* which is lost to Disconnect for good; a done channel is closed once, by
\* whoever took its connection off the map (93-125, 139-152).
ImplementsRegistry == Slots!Spec
=============================================================================
