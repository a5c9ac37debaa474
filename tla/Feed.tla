-------------------------------- MODULE Feed --------------------------------
(***************************************************************************)
(* What the hub (server/hub.go) promises the rest of the server: messages  *)
(* are published in one order; the hub goes through them in that order and *)
(* hands each to the peers subscribed to its channel, while peers come and *)
(* go.  Buffers, sockets, goroutines and locks are the business of Hub,    *)
(* which is shown to implement this specification; ChatServer builds the   *)
(* message handlers on it.                                                 *)
(***************************************************************************)
EXTENDS Naturals, Sequences

CONSTANTS
  Clients,    \* connections
  Channels,   \* ids of chat channels
  Messages    \* ids of chat messages

MessageEnvelope == [ch : Channels, id : Messages]

VARIABLES
  members,     \* the peers subscribed to each channel
  order,       \* the messages published, in order
  taken,       \* how many of them the hub has taken
  delivering,  \* the hub is handing out the last one it took
  todo,        \* the peers it has still to hand it to
  feed,        \* what each peer is sent, in order
  cut,         \* peers whose connection has failed
  stuck,       \* the hub will never finish what it is delivering
  up           \* the server process is running

feedVars == <<members, order, taken, delivering, todo, feed, cut, stuck, up>>

TypeOK ==
  /\ members \in [Channels -> SUBSET Clients]
  /\ order \in Seq(MessageEnvelope)
  /\ taken \in 0..Len(order)
  /\ delivering \in BOOLEAN
  /\ todo \in SUBSET Clients
  /\ feed \in [Clients -> Seq(MessageEnvelope)]
  /\ cut \in SUBSET Clients
  /\ stuck \in BOOLEAN
  /\ up \in BOOLEAN

Init ==
  /\ members = [ch \in Channels |-> {}]
  /\ order = <<>>
  /\ taken = 0
  /\ delivering = FALSE
  /\ todo = {}
  /\ feed = [c \in Clients |-> <<>>]
  /\ cut = {}
  /\ stuck = FALSE
  /\ up = TRUE

-----------------------------------------------------------------------------
\* The hub's loop does not hold the lock of the map it ranges over: a
\* subscription that changes meanwhile may be noticed, may go unnoticed, and
\* may bring the process down.
Meanwhile(ch, noticed) ==
  IF delivering /\ ~stuck /\ order[taken].ch = ch
    THEN todo' \in {todo, noticed} /\ up' \in {up, FALSE}
    ELSE UNCHANGED <<todo, up>>

\* c subscribes to ch.
Join(c, ch) ==
  /\ up
  /\ members' = [members EXCEPT ![ch] = @ \cup {c}]
  /\ Meanwhile(ch, IF c \in members[ch] THEN todo ELSE todo \cup {c})
  /\ UNCHANGED <<order, taken, delivering, feed, cut, stuck>>

\* c gives its subscription up.
Leave(c, ch) ==
  /\ up
  /\ members' = [members EXCEPT ![ch] = @ \ {c}]
  /\ Meanwhile(ch, todo \ {c})
  /\ UNCHANGED <<order, taken, delivering, feed, cut, stuck>>

\* c has gone: the hub takes it off every channel, between two messages.
Depart(c) ==
  /\ up
  /\ ~delivering
  /\ members' = [ch \in Channels |-> members[ch] \ {c}]
  /\ UNCHANGED <<order, taken, delivering, todo, feed, cut, stuck, up>>

\* m is to be delivered after everything published before.
Publish(m) ==
  /\ up
  /\ \A i \in DOMAIN order : order[i].id # m.id
  /\ order' = Append(order, m)
  /\ UNCHANGED <<members, taken, delivering, todo, feed, cut, stuck, up>>

\* The hub takes the next message, for the subscribers of the moment.
Take ==
  /\ up
  /\ ~delivering
  /\ taken < Len(order)
  /\ taken' = taken + 1
  /\ delivering' = TRUE
  /\ todo' = members[order[taken'].ch]
  /\ UNCHANGED <<members, order, feed, cut, stuck, up>>

Deliver(c) ==
  /\ up
  /\ ~stuck
  /\ c \in todo
  /\ todo' = todo \ {c}
  /\ feed' = IF c \in cut THEN feed ELSE [feed EXCEPT ![c] = Append(@, order[taken])]
  /\ UNCHANGED <<members, order, taken, delivering, cut, stuck, up>>

Done ==
  /\ up
  /\ ~stuck
  /\ delivering
  /\ todo = {}
  /\ delivering' = FALSE
  /\ UNCHANGED <<members, order, taken, todo, feed, cut, stuck, up>>

\* The connection of c fails: some of what it was last sent never arrives.
Cut(c) ==
  /\ up
  /\ c \notin cut
  /\ cut' = cut \cup {c}
  /\ \E n \in 0..Len(feed[c]) : feed' = [feed EXCEPT ![c] = SubSeq(@, 1, n)]
  /\ UNCHANGED <<members, order, taken, delivering, todo, stuck, up>>

\* The hub waits for what will not happen, in the middle of a delivery.
Stick ==
  /\ up
  /\ delivering
  /\ todo # {}
  /\ stuck' = TRUE
  /\ UNCHANGED <<members, order, taken, delivering, todo, feed, cut, up>>

\* The process ends.
Halt ==
  /\ up
  /\ up' = FALSE
  /\ UNCHANGED <<members, order, taken, delivering, todo, feed, cut, stuck>>

HubStep == Take \/ Done \/ \E c \in Clients : Deliver(c)

Next ==
  \/ HubStep
  \/ Stick
  \/ Halt
  \/ \E m \in MessageEnvelope : Publish(m)
  \/ \E c \in Clients :
       \/ \E ch \in Channels : Join(c, ch) \/ Leave(c, ch)
       \/ Depart(c)
       \/ Cut(c)

Spec == Init /\ [][Next]_feedVars

\* A hub that is not stuck goes through the messages.
Fairness == WF_feedVars(HubStep)

FairSpec == Spec /\ Fairness

=============================================================================
