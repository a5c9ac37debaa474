-------------------------------- MODULE Hub --------------------------------
(***************************************************************************)
(* The server's hub (server/hub.go) with the goroutines that share it:     *)
(* the hub's own loop, for each connection the reader (HandleWebSocket and *)
(* readPump), the writer (writePump) and the greeter (sendInitialData) of  *)
(* server/handlers.go, and an administrator's request that sends everybody *)
(* the channel list.                                                       *)
(*                                                                         *)
(* A client is one connection: it is accepted once and never comes back    *)
(* (a browser or an aggregator that reconnects is another client).  A step *)
(* of the model is one critical section, one channel operation or one      *)
(* socket operation of the code.                                           *)
(***************************************************************************)
EXTENDS Naturals, Sequences, FiniteSets

CONSTANTS
  Clients,        \* connections the server may accept
  Channels,       \* ids of chat channels
  Messages,       \* ids of chat messages
  Replies,        \* envelopes that are not chat messages (auth_ok, error, ...)
  SendCap,        \* capacity of Client.send (256 in the code)
  BroadcastCap,   \* capacity of Hub.broadcast (256 in the code)
  MaxRequests,    \* bound: requests the model lets each connection make
  None            \* no client, no channel, no message

ASSUME CapAssumption ==
  /\ SendCap \in Nat \ {0}
  /\ BroadcastCap \in Nat \ {0}
  /\ MaxRequests \in [Clients -> Nat]

\* A chat message on its way to the subscribers of a channel.
MessageEnvelope == [ch : Channels, id : Messages]

Envelope == MessageEnvelope \cup Replies

ASSUME ReplyAssumption == Replies \cap MessageEnvelope = {}

ASSUME NoneAssumption == None \notin Clients \cup Channels \cup MessageEnvelope

VARIABLES
  clients,    \* Hub.clients
  members,    \* Hub.channels: the subscribers of each channel ({}: no entry)
  broadcast,  \* Hub.broadcast, a buffered Go channel
  hub,        \* where the hub's goroutine is
  cur,        \* the client the hub is registering, removing or stuck on
  msg,        \* the message the hub is delivering
  todo,       \* the subscribers its loop has still to visit
  iter,       \* the channel whose map in Hub.channels that loop ranges over
  reader,     \* where each connection's readPump is
  arg,        \* the channel or the message its request is about
  requests,   \* requests made so far, for the bound
  subs,       \* Client.subs
  writer,     \* where each connection's writePump is
  greeter,    \* where each connection's sendInitialData is
  send,       \* Client.send, a buffered Go channel
  closed,     \* clients whose send channel has been closed
  conns,      \* clients whose socket is open on this side
  sent,       \* chat messages put on it, in order; when the writer has ended,
              \* those the peer got
  received,   \* chat messages the peer got, in order
  order,      \* every chat message put on Hub.broadcast, in order
  fault       \* what brought the server process down

hubVars    == <<clients, members, broadcast, hub, cur, msg, todo, iter, order>>
readerVars == <<reader, arg, requests, subs>>
pumpVars   == <<writer, greeter, send, sent, closed, conns, received>>
vars       == <<hubVars, readerVars, pumpVars, fault>>

-----------------------------------------------------------------------------
HubStates     == {"select", "add", "remove", "cleanup", "deliver", "blocked"}
ReaderStates  == {"none", "register", "reading", "subscribing", "unsubscribing",
                  "broadcasting", "unregister", "closing", "done"}
WriterStates  == {"none", "running", "stopped"}
GreeterStates == {"none", "auth", "list", "done"}

\* What brings the process down.  "map_race": the Go runtime found a map
\* written while it was iterated over; the others name the goroutine that sent
\* on a closed channel.
Faults == {"none", "map_race", "hub", "reader", "greeter"}

TypeOK ==
  /\ clients \in SUBSET Clients
  /\ members \in [Channels -> SUBSET Clients]
  /\ broadcast \in Seq(MessageEnvelope) /\ Len(broadcast) <= BroadcastCap
  /\ hub \in HubStates
  /\ cur \in Clients \cup {None}
  /\ msg \in MessageEnvelope \cup {None}
  /\ todo \in SUBSET Clients
  /\ iter \in Channels \cup {None}
  /\ reader \in [Clients -> ReaderStates]
  /\ arg \in [Clients -> Channels \cup MessageEnvelope \cup {None}]
  /\ requests \in [Clients -> Nat]
  /\ \A c \in Clients : requests[c] <= MaxRequests[c]
  /\ subs \in [Clients -> SUBSET Channels]
  /\ writer \in [Clients -> WriterStates]
  /\ greeter \in [Clients -> GreeterStates]
  /\ send \in [Clients -> Seq(Envelope)]
  /\ \A c \in Clients : Len(send[c]) <= SendCap
  /\ closed \in SUBSET Clients
  /\ conns \in SUBSET Clients
  /\ sent \in [Clients -> Seq(MessageEnvelope)]
  /\ received \in [Clients -> Seq(MessageEnvelope)]
  /\ order \in Seq(MessageEnvelope)
  /\ fault \in Faults

Init ==
  /\ clients = {}
  /\ members = [ch \in Channels |-> {}]
  /\ broadcast = <<>>
  /\ hub = "select"
  /\ cur = None
  /\ msg = None
  /\ todo = {}
  /\ iter = None
  /\ reader = [c \in Clients |-> "none"]
  /\ arg = [c \in Clients |-> None]
  /\ requests = [c \in Clients |-> 0]
  /\ subs = [c \in Clients |-> {}]
  /\ writer = [c \in Clients |-> "none"]
  /\ greeter = [c \in Clients |-> "none"]
  /\ send = [c \in Clients |-> <<>>]
  /\ closed = {}
  /\ conns = {}
  /\ sent = [c \in Clients |-> <<>>]
  /\ received = [c \in Clients |-> <<>>]
  /\ order = <<>>
  /\ fault = "none"

-----------------------------------------------------------------------------
(* Client.Send, and the hub's own send: never blocks, and panics when the  *)
(* channel is closed.                                                      *)

\* (Mutant: a buffer one longer than its capacity.)
HasRoomForOneMore(c) == Len(send[c]) <= SendCap

HasRoom(c) == Len(send[c]) < SendCap

\* `who` puts e on c's send channel, or drops it when the buffer is full.
TrySend(c, e, who) ==
  IF c \in closed
    THEN /\ fault' = who
         /\ UNCHANGED <<send, sent>>
    ELSE /\ send' = IF HasRoom(c) THEN [send EXCEPT ![c] = Append(@, e)] ELSE send
         /\ sent' = IF HasRoom(c) /\ e \in MessageEnvelope /\ writer[c] # "stopped"
                      THEN [sent EXCEPT ![c] = Append(@, e)] ELSE sent
         /\ UNCHANGED fault

-----------------------------------------------------------------------------
(* The hub's goroutine: Hub.Run.                                           *)

\* case client := <-h.register: the handoff frees HandleWebSocket, which
\* starts the two other goroutines of the connection and goes on to read.
HubRegister(c) ==
  /\ hub = "select"
  /\ reader[c] = "register"
  /\ hub' = "add"
  /\ cur' = c
  /\ reader' = [reader EXCEPT ![c] = "reading"]
  /\ writer' = [writer EXCEPT ![c] = "running"]
  /\ greeter' = [greeter EXCEPT ![c] = "auth"]
  /\ UNCHANGED <<clients, members, broadcast, msg, todo, iter, order,
                 arg, requests, subs, send, sent, closed, conns, received, fault>>

\* h.clients[client] = true, under clientsMu.
HubAdd ==
  /\ hub = "add"
  /\ clients' = clients \cup {cur}
  /\ hub' = "select"
  /\ cur' = None
  /\ UNCHANGED <<members, broadcast, msg, todo, iter, order,
                 readerVars, pumpVars, fault>>

\* case client := <-h.unregister.
HubUnregister(c) ==
  /\ hub = "select"
  /\ reader[c] = "unregister"
  /\ hub' = "remove"
  /\ cur' = c
  /\ reader' = [reader EXCEPT ![c] = "closing"]
  /\ UNCHANGED <<clients, members, broadcast, msg, todo, iter, order,
                 arg, requests, subs, pumpVars, fault>>

\* Removal from h.clients and close(client.send), under clientsMu.
HubRemove ==
  /\ hub = "remove"
  /\ clients' = clients \ {cur}
  /\ closed' = IF cur \in clients THEN closed \cup {cur} ELSE closed
  /\ hub' = "cleanup"
  /\ UNCHANGED <<members, broadcast, cur, msg, todo, iter, order,
                 readerVars, writer, greeter, send, sent, conns, received, fault>>

\* (Mutant: the client is removed from h.clients only.)
HubCleanupForgotten ==
  /\ hub = "cleanup"
  /\ hub' = "select"
  /\ cur' = None
  /\ UNCHANGED <<clients, members, broadcast, msg, todo, iter, order,
                 readerVars, pumpVars, fault>>

\* unsubscribeFromChannel for every channel of client.subs.
HubCleanup ==
  /\ hub = "cleanup"
  /\ members' = [ch \in Channels |->
                   IF ch \in subs[cur] THEN members[ch] \ {cur} ELSE members[ch]]
  /\ hub' = "select"
  /\ cur' = None
  /\ UNCHANGED <<clients, broadcast, msg, todo, iter, order,
                 readerVars, pumpVars, fault>>

\* (Mutant: the newest message first.)
HubTakeNewest ==
  LET newest == broadcast[Len(broadcast)]
  IN  /\ hub = "select"
      /\ broadcast # <<>>
      /\ msg' = newest
      /\ broadcast' = SubSeq(broadcast, 1, Len(broadcast) - 1)
      /\ todo' = members[newest.ch]
      /\ iter' = IF todo' = {} THEN None ELSE newest.ch
      /\ hub' = "deliver"
      /\ UNCHANGED <<clients, members, cur, order, readerVars, pumpVars, fault>>

\* case msg := <-h.broadcast: the map of the channel is looked up under
\* channelsMu and ranged over without it (an absent entry is a nil map).
HubTake ==
  /\ hub = "select"
  /\ broadcast # <<>>
  /\ msg' = Head(broadcast)
  /\ broadcast' = Tail(broadcast)
  /\ todo' = members[Head(broadcast).ch]
  /\ iter' = IF todo' = {} THEN None ELSE Head(broadcast).ch
  /\ hub' = "deliver"
  /\ UNCHANGED <<clients, members, cur, order, readerVars, pumpVars, fault>>

\* One turn of the loop.  A client whose buffer is full is to be disconnected
\* by h.unregister <- client; that channel is unbuffered and received from
\* only by the hub's own select, so the hub stays there: no step leaves
\* "blocked".
HubDeliver(c) ==
  /\ hub = "deliver"
  /\ c \in todo
  /\ todo' = todo \ {c}
  /\ IF c \in closed \/ HasRoom(c)
       THEN /\ TrySend(c, msg, "hub")
            /\ UNCHANGED <<hub, cur>>
       ELSE /\ hub' = "blocked"
            /\ cur' = c
            /\ UNCHANGED <<send, sent, fault>>
  /\ UNCHANGED <<clients, members, broadcast, msg, iter, order,
                 readerVars, writer, greeter, closed, conns, received>>

\* (Mutant: the loop ends when the next message is there.)
HubDoneWhenNextIsThere ==
  /\ hub = "deliver"
  /\ todo = {}
  /\ broadcast # <<>>
  /\ hub' = "select"
  /\ msg' = None
  /\ iter' = None
  /\ UNCHANGED <<clients, members, broadcast, cur, todo, order,
                 readerVars, pumpVars, fault>>

\* (Mutant: Run returns after a message for a channel without subscribers.)
HubDoneIfSubscribed ==
  /\ hub = "deliver"
  /\ todo = {}
  /\ iter # None
  /\ hub' = "select"
  /\ msg' = None
  /\ iter' = None
  /\ UNCHANGED <<clients, members, broadcast, cur, todo, order,
                 readerVars, pumpVars, fault>>

HubDone ==
  /\ hub = "deliver"
  /\ todo = {}
  /\ hub' = "select"
  /\ msg' = None
  /\ iter' = None
  /\ UNCHANGED <<clients, members, broadcast, cur, todo, order,
                 readerVars, pumpVars, fault>>

-----------------------------------------------------------------------------
(* HandleWebSocket and readPump, one goroutine.                            *)

\* The request is authenticated and upgraded, and waits in Hub.Register.
Connect(c) ==
  /\ reader[c] = "none"
  /\ reader' = [reader EXCEPT ![c] = "register"]
  /\ conns' = conns \cup {c}
  /\ UNCHANGED <<hubVars, arg, requests, subs, writer, greeter, send, sent, closed,
                 received, fault>>

\* The reader of c takes its next request; frames it has buffered are still
\* read when the socket has just been closed.
Request(c, state, about) ==
  /\ reader[c] = "reading"
  /\ requests[c] < MaxRequests[c]
  /\ requests' = [requests EXCEPT ![c] = @ + 1]
  /\ reader' = [reader EXCEPT ![c] = state]
  /\ arg' = [arg EXCEPT ![c] = about]

\* The request is over and the reader goes back to the socket.
Resume(c) ==
  /\ reader' = [reader EXCEPT ![c] = "reading"]
  /\ arg' = [arg EXCEPT ![c] = None]

\* Writing the map the hub ranges over is a data race: the runtime may stop
\* the process, and if it does not the loop may or may not notice the change.
MapWritten(ch, seen) ==
  IF hub = "deliver" /\ iter = ch
    THEN fault' \in {fault, "map_race"} /\ todo' \in {todo, seen}
    ELSE UNCHANGED <<fault, todo>>

\* Hub.Subscribe, under channelsMu.
JoinChannel(c, ch) ==
  /\ members' = [members EXCEPT ![ch] = @ \cup {c}]
  /\ MapWritten(ch, IF c \in members[ch] THEN todo ELSE todo \cup {c})
  /\ UNCHANGED iter

\* Hub.unsubscribeFromChannel: a map left empty is dropped from Hub.channels,
\* and the hub may go on ranging over a map nobody else can reach.
LeaveChannel(c, ch) ==
  /\ members' = [members EXCEPT ![ch] = @ \ {c}]
  /\ MapWritten(ch, todo \ {c})
  /\ iter' = IF iter = ch /\ members'[ch] = {} THEN None ELSE iter

Subscribe(c, ch) ==
  /\ Request(c, "subscribing", ch)
  /\ JoinChannel(c, ch)
  /\ UNCHANGED <<clients, broadcast, hub, cur, msg, order, subs, pumpVars>>

\* (Mutant: the client does not note its subscription.)
SubscribeDoneForgets(c) ==
  /\ reader[c] = "subscribing"
  /\ Resume(c)
  /\ UNCHANGED <<hubVars, requests, subs, pumpVars, fault>>

\* Hub.Subscribe, under subsMu.
SubscribeDone(c) ==
  /\ reader[c] = "subscribing"
  /\ subs' = [subs EXCEPT ![c] = @ \cup {arg[c]}]
  /\ Resume(c)
  /\ UNCHANGED <<hubVars, requests, pumpVars, fault>>

Unsubscribe(c, ch) ==
  /\ Request(c, "unsubscribing", ch)
  /\ LeaveChannel(c, ch)
  /\ UNCHANGED <<clients, broadcast, hub, cur, msg, order, subs, pumpVars>>

\* (Mutant: the client goes on noting a subscription it gave up.)
UnsubscribeDoneForgets(c) ==
  /\ reader[c] = "unsubscribing"
  /\ Resume(c)
  /\ UNCHANGED <<hubVars, requests, subs, pumpVars, fault>>

\* Hub.Unsubscribe, under subsMu.
UnsubscribeDone(c) ==
  /\ reader[c] = "unsubscribing"
  /\ subs' = [subs EXCEPT ![c] = @ \ {arg[c]}]
  /\ Resume(c)
  /\ UNCHANGED <<hubVars, requests, pumpVars, fault>>

\* The database gives each message it stores an id that was not used before;
\* which one makes no difference here.
Fresh(id) ==
  /\ \A i \in DOMAIN order : order[i].id # id
  /\ \A c \in Clients : reader[c] = "broadcasting" => arg[c].id # id

NextId == CHOOSE id \in Messages : Fresh(id)

\* A request to send a message has been stored and is to be broadcast.
SendMessage(c, m) ==
  /\ Fresh(m.id) /\ m.id = NextId
  /\ Request(c, "broadcasting", m)
  /\ UNCHANGED <<hubVars, subs, pumpVars, fault>>

\* h.broadcast <- m: blocks while the buffer is full.
Broadcast(c) ==
  /\ reader[c] = "broadcasting"
  /\ Len(broadcast) < BroadcastCap
  /\ broadcast' = Append(broadcast, arg[c])
  /\ order' = Append(order, arg[c])
  /\ Resume(c)
  /\ UNCHANGED <<clients, members, hub, cur, msg, todo, iter,
                 requests, subs, pumpVars, fault>>

\* A request the reader answers itself: SendError, or a page of history.
Reply(c, e) ==
  /\ Request(c, "reading", None)
  /\ TrySend(c, e, "reader")
  /\ UNCHANGED <<hubVars, subs, writer, greeter, closed, conns, received>>

\* ReadMessage fails: the peer left, the deadline passed, or the writer
\* closed the socket.  The deferred function waits in Hub.Unregister.
ReadFails(c) ==
  /\ reader[c] = "reading"
  /\ reader' = [reader EXCEPT ![c] = "unregister"]
  /\ UNCHANGED <<hubVars, arg, requests, subs, pumpVars, fault>>

\* client.Conn().Close(), once the hub has taken the client.
ReaderExits(c) ==
  /\ reader[c] = "closing"
  /\ reader' = [reader EXCEPT ![c] = "done"]
  /\ conns' = conns \ {c}
  /\ UNCHANGED <<hubVars, arg, requests, subs, writer, greeter, send, sent, closed,
                 received, fault>>

-----------------------------------------------------------------------------
(* writePump.                                                              *)

\* (Mutant: the writer ends without closing the socket.)
WriterStopsSilently(c) ==
  /\ writer' = [writer EXCEPT ![c] = "stopped"]
  /\ sent' = [sent EXCEPT ![c] = received[c]]
  /\ UNCHANGED conns

WriterStops(c) ==
  /\ writer' = [writer EXCEPT ![c] = "stopped"]
  /\ sent' = [sent EXCEPT ![c] = received[c]]
  /\ conns' = conns \ {c}

\* A write reaches the peer.
WriteOk(c) ==
  /\ writer[c] = "running"
  /\ c \in conns
  /\ send[c] # <<>>
  /\ send' = [send EXCEPT ![c] = Tail(@)]
  /\ received' = IF Head(send[c]) \in MessageEnvelope
                   THEN [received EXCEPT ![c] = Append(@, Head(send[c]))]
                   ELSE received
  /\ UNCHANGED <<hubVars, readerVars, writer, greeter, sent, closed, conns, fault>>

\* A write fails, or passes its deadline.
WriteFails(c) ==
  /\ writer[c] = "running"
  /\ send[c] # <<>>
  /\ send' = [send EXCEPT ![c] = Tail(@)]
  /\ WriterStops(c)
  /\ UNCHANGED <<hubVars, readerVars, greeter, closed, received, fault>>

\* A ping fails.
PingFails(c) ==
  /\ writer[c] = "running"
  /\ WriterStops(c)
  /\ UNCHANGED <<hubVars, readerVars, greeter, send, closed, received, fault>>

\* The send channel is closed and empty.
WriterSeesClose(c) ==
  /\ writer[c] = "running"
  /\ send[c] = <<>>
  /\ c \in closed
  /\ WriterStops(c)
  /\ UNCHANGED <<hubVars, readerVars, greeter, send, closed, received, fault>>

-----------------------------------------------------------------------------
(* sendInitialData: two envelopes, with database reads before each.        *)

Greet(c, e) ==
  /\ greeter[c] \in {"auth", "list"}
  /\ greeter' = [greeter EXCEPT ![c] = IF @ = "auth" THEN "list" ELSE "done"]
  /\ TrySend(c, e, "greeter")
  /\ UNCHANGED <<hubVars, readerVars, writer, closed, conns, received>>

\* GetServerInfo or GetCategories fails.
GreetFails(c) ==
  /\ greeter[c] \in {"auth", "list"}
  /\ greeter' = [greeter EXCEPT ![c] = "done"]
  /\ UNCHANGED <<hubVars, readerVars, writer, send, sent, closed, conns, received,
                 fault>>

-----------------------------------------------------------------------------
(* BroadcastChannelList, in the goroutine of an administrator's request.   *)

\* The channel list is put on the send channel of a client of Hub.GetClients.
\* One that was removed since has its channel closed: the send panics, which
\* ends the request and, as net/http recovers it, changes nothing here
\* (ChannelList has who is left without a list).
SendList(c, e) ==
  /\ c \in clients
  /\ TrySend(c, e, fault)
  /\ UNCHANGED <<hubVars, readerVars, writer, greeter, closed, conns, received>>

-----------------------------------------------------------------------------
HubStep(c) ==
  \/ HubRegister(c)
  \/ HubUnregister(c)
  \/ HubDeliver(c)

HubLoop ==
  \/ HubAdd
  \/ HubRemove
  \/ HubCleanup
  \/ HubTake
  \/ HubDone

ReaderStep(c) ==
  \/ Connect(c)
  \/ \E ch \in Channels : Subscribe(c, ch) \/ Unsubscribe(c, ch)
  \/ SubscribeDone(c)
  \/ UnsubscribeDone(c)
  \/ \E m \in MessageEnvelope : SendMessage(c, m)
  \/ Broadcast(c)
  \/ \E e \in Replies : Reply(c, e)
  \/ ReadFails(c)
  \/ ReaderExits(c)

PumpStep(c) ==
  \/ WriteOk(c)
  \/ WriteFails(c)
  \/ PingFails(c)
  \/ WriterSeesClose(c)
  \/ \E e \in Replies : Greet(c, e)
  \/ GreetFails(c)

\* A fault ends the process.
Next ==
  /\ fault = "none"
  /\ \/ HubLoop
     \/ \E c \in Clients : HubStep(c) \/ ReaderStep(c) \/ PumpStep(c)
     \/ \E c \in Clients, e \in Replies : SendList(c, e)

Spec == Init /\ [][Next]_vars

\* What each goroutine does of its own accord; requests, failing pings and
\* peers that leave are never owed.
HubMoves == HubAdd \/ HubRemove \/ HubCleanup \/ HubDone \/ \E c \in Clients : HubDeliver(c)

ReaderMoves(c) ==
  \/ HubRegister(c)
  \/ SubscribeDone(c) \/ UnsubscribeDone(c)
  \/ Broadcast(c)
  \/ c \notin conns /\ ReadFails(c)
  \/ HubUnregister(c)
  \/ ReaderExits(c)

WriterMoves(c) == WriteOk(c) \/ WriteFails(c) \/ WriterSeesClose(c)

GreeterMoves(c) == GreetFails(c) \/ \E e \in Replies : Greet(c, e)

\* The Go scheduler runs every goroutine that can run.  A goroutine that waits
\* for the hub's select or for room on a full channel is served in the end,
\* whoever else waits there (senders queue first in first out, select picks at
\* random among the ready cases): strong fairness.  A write ends at its
\* deadline at the latest, and a read fails once the socket is closed.
Fairness ==
  /\ WF_vars(fault = "none" /\ HubMoves)
  /\ SF_vars(fault = "none" /\ HubTake)
  /\ \A c \in Clients :
       /\ SF_vars(fault = "none" /\ ReaderMoves(c))
       /\ WF_vars(fault = "none" /\ WriterMoves(c))
       /\ WF_vars(fault = "none" /\ GreeterMoves(c))

FairSpec == Spec /\ Fairness

-----------------------------------------------------------------------------
(* Safety.                                                                 *)

\* The hub and the readers never send on a closed channel: once the hub has
\* closed client.send the client is in no channel the loop of Hub.Run can
\* range over, and its reader has returned.  (sendInitialData can, and brings
\* the process down; an administrator's request can, and ends there.)
LoopAndReadersFindOpen == fault \notin {"hub", "reader"}

\* Whenever the hub is back in its select, every subscriber it knows is a
\* registered client: a connection that ended, at whatever point of a
\* subscription, leaves nothing behind in Hub.channels.
DepartedLeaveNoTrace ==
  hub = "select" => \A ch \in Channels : members[ch] \subseteq clients

\* Hub.channels and Client.subs, each under a lock of its own, agree whenever
\* the reader of the connection is between two requests.
SubscriptionsAgree ==
  \A c \in Clients : reader[c] = "reading" =>
    subs[c] = {ch \in Channels : c \in members[ch]}

Position(m) == CHOOSE i \in DOMAIN order : order[i] = m

\* One order for everybody: each peer gets the messages its send channel was
\* given, and those follow the order in which they were put on Hub.broadcast,
\* whatever it missed, so no two peers disagree on which of two messages came
\* first.
StreamsFollowBroadcastOrder ==
  \A c \in Clients :
    /\ Len(received[c]) <= Len(sent[c])
    /\ \A i \in DOMAIN received[c] : received[c][i] = sent[c][i]
    /\ \A i, j \in DOMAIN sent[c] : i < j => Position(sent[c][i]) <= Position(sent[c][j])

-----------------------------------------------------------------------------
(* Liveness.                                                               *)

\* The hub is stuck in its own h.unregister, or the process is gone.
Down == hub = "blocked" \/ fault # "none"

\* c has lost its socket, or its reader has given up.
Leaving(c) == writer[c] = "stopped" \/ reader[c] = "unregister"

\* Nothing of c is left: no registration, no subscription, no goroutine.
Gone(c) ==
  /\ c \notin clients
  /\ \A ch \in Channels : c \notin members[ch]
  /\ reader[c] = "done" /\ writer[c] = "stopped" /\ greeter[c] = "done"

\* While the hub runs, a connection that fails on either side is torn down to
\* the last goroutine: a dead writer reaches the reader through the socket,
\* the reader the hub, and the hub the writer by closing client.send.
LeaversAreTornDown == \A c \in Clients : Leaving(c) ~> Gone(c) \/ Down

\* While the hub runs, nobody waits forever for room on Hub.broadcast, also
\* when the buffer is full because the others wait there too.
SendersAreReleased ==
  \A c \in Clients : reader[c] = "broadcasting" ~> reader[c] = "reading" \/ Down

\* What the comment in Hub.Run says: a client whose buffer is full is
\* disconnected.
FullClientsAreDisconnected ==
  \A c \in Clients : (hub = "blocked" /\ cur = c) ~> c \notin clients

-----------------------------------------------------------------------------
(* The hub and the goroutines of its connections implement Feed: that is   *)
(* all the message handlers of ChatServer rely on.                         *)

AbstractHub == INSTANCE Feed WITH
  taken      <- Len(order) - Len(broadcast),
  delivering <- msg # None,
  todo       <- IF hub = "blocked" THEN todo \cup {cur} ELSE todo,
  feed       <- sent,
  cut        <- {c \in Clients : writer[c] = "stopped"},
  stuck      <- hub = "blocked",
  up         <- fault = "none"

\* Every interleaving of the hub's loop with the goroutines of its connections
\* is one of Feed's: messages are handed out one after the other in the order
\* they were published, each to those subscribed when the hub took it.
ImplementsFeed == AbstractHub!Spec

\* And a hub that is not stuck gets through every message published.
ImplementsFairFeed == AbstractHub!FairSpec

=============================================================================
