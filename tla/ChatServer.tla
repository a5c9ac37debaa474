----------------------------- MODULE ChatServer -----------------------------
(***************************************************************************)
(* The requests of the connected peers (server/handlers.go) over the       *)
(* database (internal/db/server.go) and the hub, with the administration   *)
(* of channels and groups (server/admin.go) changing the database under    *)
(* them.  The hub is what Feed promises of it.                             *)
(*                                                                         *)
(* Each SQL statement is one step; nothing locks the database from one     *)
(* statement of a handler to its next.  A connection's requests are        *)
(* handled one after the other by its reader.  Replies that carry no       *)
(* message (errors, auth_ok, channel lists) are left out.                  *)
(***************************************************************************)
EXTENDS Feed, Access, FiniteSets

CONSTANTS
  Groups,       \* ids of user groups
  Lists,        \* the allow and deny lists administrators give to channels
  PageLimit,    \* messages in a page of history (at most 100 in the code)
  Times,        \* bound: the readings of the server's clock
  MaxRequests,  \* bound: requests of one connection
  MaxChanges,   \* bound: changes made by administrators
  None

\* Users are told apart by their connection.
ASSUME ListsAssumption ==
  /\ Lists \subseteq [allow : SUBSET (Clients \cup Groups),
                      deny  : SUBSET (Clients \cup Groups)]
  /\ NoLists \in Lists
  /\ None \notin Lists \cup Messages \cup Clients

ASSUME TimesAssumption == Times \subseteq Nat /\ Times # {}

ASSUME BoundAssumption ==
  /\ PageLimit \in Nat \ {0}
  /\ MaxRequests \in Nat
  /\ MaxChanges \in Nat

VARIABLES
  rows,      \* table channels: the lists of each channel that exists
  groups,    \* tables groups and group_members
  deleted,   \* ids of channels and groups there have been
  stored,    \* table messages
  stamp,     \* the timestamp of each message there has been
  sender,    \* the connection that sent it
  clock,     \* the server's clock, as it was last read
  earlier,   \* history: the messages there were when each was given its time
  setBack,   \* history: messages at which the clock read less than before
  reader,    \* where the reader of each connection is
  request,   \* the request it is handling
  row,       \* the channel's row as GetChannel returned it
  result,    \* the page of history the query returned
  shown,     \* the page answered last to each connection since it subscribed
  requests,  \* requests made so far, for the bound
  changes    \* administrators' changes so far, for the bound

dbVars     == <<rows, groups, deleted, stored>>
workVars   == <<request, row, result>>
readerVars == <<reader, workVars, shown, requests>>
clockVars  == <<stamp, sender, clock, earlier, setBack>>
boundVars  == <<requests, changes>>
vars       == <<feedVars, dbVars, readerVars, clockVars, changes>>

-----------------------------------------------------------------------------
Page == [ids : SUBSET Messages, more : BOOLEAN]

Request == [op : {"subscribe", "send", "history"}, ch : Channels, id : Messages \cup {None}]

ReaderStates == {"idle", "check", "subscribe", "stamp", "insert", "publish",
                 "before", "query", "reply", "leaving", "gone"}

ChatTypeOK ==
  /\ TypeOK
  /\ rows \in [Channels -> Lists \cup {None}]
  /\ groups \in [Groups -> (SUBSET Clients) \cup {None}]
  /\ deleted \in SUBSET (Channels \cup Groups)
  /\ stored \in SUBSET MessageEnvelope
  /\ stamp \in [Messages -> Nat]
  /\ sender \in [Messages -> Clients \cup {None}]
  /\ clock \in Times
  /\ earlier \in [Messages -> SUBSET Messages]
  /\ setBack \in SUBSET Messages
  /\ reader \in [Clients -> ReaderStates]
  /\ request \in [Clients -> Request \cup {None}]
  /\ row \in [Clients -> Lists \cup {None}]
  /\ result \in [Clients -> Page \cup {None}]
  /\ shown \in [Clients -> [Channels -> Page \cup {None}]]
  /\ requests \in [Clients -> 0..MaxRequests]
  /\ changes \in 0..MaxChanges

ChatInit ==
  /\ Init
  /\ rows \in [Channels -> Lists \cup {None}]
  /\ groups \in [Groups -> (SUBSET Clients) \cup {None}]
  /\ deleted = {}
  /\ stored = {}
  /\ stamp = [m \in Messages |-> 0]
  /\ sender = [m \in Messages |-> None]
  /\ clock \in Times
  /\ earlier = [m \in Messages |-> {}]
  /\ setBack = {}
  /\ reader = [c \in Clients |-> "idle"]
  /\ request = [c \in Clients |-> None]
  /\ row = [c \in Clients |-> None]
  /\ result = [c \in Clients |-> None]
  /\ shown = [c \in Clients |-> [ch \in Channels |-> None]]
  /\ requests = [c \in Clients |-> 0]
  /\ changes = 0

-----------------------------------------------------------------------------
(* The steps the handlers share.                                           *)

Goto(c, state) == reader' = [reader EXCEPT ![c] = state]

\* The handler returns, and the reader goes back to the socket.
Return(c) ==
  /\ Goto(c, "idle")
  /\ request' = [request EXCEPT ![c] = None]
  /\ row' = [row EXCEPT ![c] = None]
  /\ result' = [result EXCEPT ![c] = None]

\* A request to subscribe, to send, or for history, which GetChannel finds the
\* channel of.  (One whose channel is not found, or that is malformed, is
\* answered with an error and changes nothing.)
Receive(c, op, ch, id) ==
  /\ up
  /\ reader[c] = "idle"
  /\ requests[c] < MaxRequests
  /\ rows[ch] # None
  /\ requests' = [requests EXCEPT ![c] = @ + 1]
  /\ request' = [request EXCEPT ![c] = [op |-> op, ch |-> ch, id |-> id]]
  /\ row' = [row EXCEPT ![c] = rows[ch]]
  /\ Goto(c, "check")
  /\ UNCHANGED <<feedVars, dbVars, clockVars, result, shown, changes>>

GroupsOf(c) == {g \in Groups : groups[g] # None /\ c \in groups[g]}

\* The step that a request which passed its check goes on with.
Granted(c) ==
  CASE request[c].op = "subscribe" -> "subscribe"
    [] request[c].op = "send"      -> "stamp"
    [] request[c].op = "history"   -> IF request[c].id = None THEN "query" ELSE "before"

\* (Mutant: a user on the allow list is not looked for on the deny list.)
CheckAllowFirst(c, userGroups) ==
  /\ up
  /\ reader[c] = "check"
  /\ IF row[c].allow = {} \/ row[c].allow \cap ({c} \cup userGroups) # {}
       THEN Goto(c, Granted(c)) /\ UNCHANGED workVars
       ELSE Return(c)
  /\ UNCHANGED <<feedVars, dbVars, clockVars, shown, boundVars>>

\* (Mutant: the lists are taken to name users only.)
CheckUserOnly(c, userGroups) ==
  /\ up
  /\ reader[c] = "check"
  /\ IF CanAccess(c, {}, row[c])
       THEN Goto(c, Granted(c)) /\ UNCHANGED workVars
       ELSE Return(c)
  /\ UNCHANGED <<feedVars, dbVars, clockVars, shown, boundVars>>

CheckWith(c, userGroups) ==
  /\ up
  /\ reader[c] = "check"
  /\ IF CanAccess(c, userGroups, row[c])
       THEN Goto(c, Granted(c)) /\ UNCHANGED workVars
       ELSE Return(c)
  /\ UNCHANGED <<feedVars, dbVars, clockVars, shown, boundVars>>

\* canAccessChannel, on the row read before and on the groups as they are now.
\* It ignores the error of GetUserGroups, and goes by the groups it got.
Check(c) == \E userGroups \in SUBSET GroupsOf(c) : CheckWith(c, userGroups)

\* (Mutant: a message that was stored is given up, too.)
FailLate(c) ==
  /\ up
  /\ reader[c] \in {"insert", "publish", "before", "query"}
  /\ Return(c)
  /\ UNCHANGED <<feedVars, dbVars, clockVars, shown, boundVars>>

\* A statement fails, and the handler answers with an error.
Fail(c) ==
  /\ up
  /\ reader[c] \in {"insert", "before", "query"}
  /\ Return(c)
  /\ UNCHANGED <<feedVars, dbVars, clockVars, shown, boundVars>>

-----------------------------------------------------------------------------
(* handleSubscribe and handleUnsubscribe.                                  *)

Subscribe(c) ==
  /\ reader[c] = "subscribe"
  /\ Join(c, request[c].ch)
  /\ Return(c)
  /\ UNCHANGED <<dbVars, clockVars, shown, boundVars>>

Unsubscribe(c, ch) ==
  /\ reader[c] = "idle"
  /\ requests[c] < MaxRequests
  /\ requests' = [requests EXCEPT ![c] = @ + 1]
  /\ Leave(c, ch)
  /\ shown' = [shown EXCEPT ![c] = [@ EXCEPT ![ch] = None]]
  /\ UNCHANGED <<dbVars, clockVars, reader, workVars, changes>>

-----------------------------------------------------------------------------
(* handleSendMessage: CreateMessage takes the time, then inserts; the      *)
(* broadcast follows.                                                      *)

\* A message's time is the reading of a wall clock, which may be set back
\* between any two messages: time.Now().UTC() leaves out the monotonic reading.
ReadClock(id) ==
  /\ clock' \in Times
  /\ setBack' = setBack \cup {m \in {id} : clock' < clock}
  /\ earlier' = [earlier EXCEPT ![id] = {m \in Messages : sender[m] # None}]

\* (Mutant: the time is the one the peer gives.)
StampByPeer(c, id) ==
  /\ up
  /\ reader[c] = "stamp"
  /\ sender[id] = None
  /\ ReadClock(id)
  /\ \E time \in Times : stamp' = [stamp EXCEPT ![id] = time]
  /\ sender' = [sender EXCEPT ![id] = c]
  /\ request' = [request EXCEPT ![c] = [@ EXCEPT !.id = id]]
  /\ Goto(c, "insert")
  /\ UNCHANGED <<feedVars, dbVars, row, result, shown, boundVars>>

\* (Mutant: the message is given a time, and no id.)
StampWithoutId(c, id) ==
  /\ up
  /\ reader[c] = "stamp"
  /\ sender[id] = None
  /\ ReadClock(id)
  /\ stamp' = [stamp EXCEPT ![id] = clock']
  /\ sender' = [sender EXCEPT ![id] = c]
  /\ Goto(c, "insert")
  /\ UNCHANGED <<feedVars, dbVars, workVars, shown, boundVars>>

Stamp(c, id) ==
  /\ up
  /\ reader[c] = "stamp"
  /\ sender[id] = None
  /\ ReadClock(id)
  /\ stamp' = [stamp EXCEPT ![id] = clock']
  /\ sender' = [sender EXCEPT ![id] = c]
  /\ request' = [request EXCEPT ![c] = [@ EXCEPT !.id = id]]
  /\ Goto(c, "insert")
  /\ UNCHANGED <<feedVars, dbVars, row, result, shown, boundVars>>

\* The message of the request.
Message(c) == [ch |-> request[c].ch, id |-> request[c].id]

\* (Mutant: nothing ties a message to its channel's row.)
InsertUnchecked(c) ==
  /\ up
  /\ reader[c] = "insert"
  /\ stored' = stored \cup {Message(c)}
  /\ Goto(c, "publish")
  /\ UNCHANGED <<feedVars, rows, deleted, groups, clockVars, workVars, shown, boundVars>>

\* INSERT INTO messages: the channel's row must still be there.
Insert(c) ==
  /\ up
  /\ reader[c] = "insert"
  /\ rows[request[c].ch] # None
  /\ stored' = stored \cup {Message(c)}
  /\ Goto(c, "publish")
  /\ UNCHANGED <<feedVars, rows, deleted, groups, clockVars, workVars, shown, boundVars>>

\* (Mutant: no broadcast for a sender that has meanwhile gone.)
PublishWhileConnected(c) ==
  /\ reader[c] = "publish"
  /\ c \notin cut
  /\ Publish(Message(c))
  /\ Return(c)
  /\ UNCHANGED <<dbVars, clockVars, shown, boundVars>>

\* hub.Broadcast.
PublishStored(c) ==
  /\ reader[c] = "publish"
  /\ Publish(Message(c))
  /\ Return(c)
  /\ UNCHANGED <<dbVars, clockVars, shown, boundVars>>

-----------------------------------------------------------------------------
(* handleGetHistory.                                                       *)

\* The timestamp of the message the page is to end before; it must be stored.
ReadBefore(c) ==
  /\ up
  /\ reader[c] = "before"
  /\ \E m \in stored : m.id = request[c].id
  /\ Goto(c, "query")
  /\ UNCHANGED <<feedVars, dbVars, clockVars, workVars, shown, boundVars>>

\* The newest n of S by timestamp; which of two of the same time comes first
\* is the database's choice.
Newest(S, n) ==
  {P \in SUBSET S :
     /\ Cardinality(P) = IF Cardinality(S) < n THEN Cardinality(S) ELSE n
     /\ \A p \in P, m \in S \ P : stamp[p] >= stamp[m]}

\* WHERE channel_id = ? [AND timestamp < ?].
Eligible(c) ==
  {m.id : m \in {x \in stored :
                   /\ x.ch = request[c].ch
                   /\ request[c].id # None => stamp[x.id] < stamp[request[c].id]}}

\* A limit that is not positive, or too large, is replaced by the largest.
Limit(asked) == IF asked \in 1..PageLimit THEN asked ELSE PageLimit

\* (Mutant: no more rows than the limit are asked for.)
FetchedToLimit(c, limit) == Newest(Eligible(c), limit)

\* One row more than the limit is asked for, to know whether there are more.
Fetched(c, limit) == Newest(Eligible(c), limit + 1)

\* What dropping the first row, the oldest, can leave of S.
WithoutOldest(S) == {S \ {m} : m \in {x \in S : \A p \in S : stamp[x] <= stamp[p]}}

Query(c) ==
  /\ up
  /\ reader[c] = "query"
  /\ \E asked \in 0..PageLimit + 1 : \E F \in Fetched(c, Limit(asked)) :
       \/ /\ Cardinality(F) <= Limit(asked)
          /\ result' = [result EXCEPT ![c] = [ids |-> F, more |-> FALSE]]
       \/ /\ Cardinality(F) > Limit(asked)
          /\ \E P \in WithoutOldest(F) :
               result' = [result EXCEPT ![c] = [ids |-> P, more |-> TRUE]]
  /\ Goto(c, "reply")
  /\ UNCHANGED <<feedVars, dbVars, clockVars, request, row, shown, boundVars>>

\* The page is put on the connection's send channel, or dropped if that is full.
\* Remembered is the last page that reaches back from the newest message.
Answer(c) ==
  /\ up
  /\ reader[c] = "reply"
  /\ shown' \in IF c \in members[request[c].ch] /\ request[c].id = None
                  THEN {shown, [shown EXCEPT ![c] = [@ EXCEPT ![request[c].ch] = result[c]]]}
                  ELSE {shown}
  /\ Return(c)
  /\ UNCHANGED <<feedVars, dbVars, clockVars, boundVars>>

-----------------------------------------------------------------------------
(* The end of a connection, and the hub.                                   *)

\* readPump's read fails; the reader hands the client to the hub.
ReadFails(c) ==
  /\ up
  /\ reader[c] = "idle"
  /\ Goto(c, "leaving")
  /\ UNCHANGED <<feedVars, dbVars, clockVars, workVars, shown, boundVars>>

Forget(c) ==
  /\ reader[c] = "leaving"
  /\ Depart(c)
  /\ Goto(c, "gone")
  /\ shown' = [shown EXCEPT ![c] = [ch \in Channels |-> None]]
  /\ UNCHANGED <<dbVars, clockVars, workVars, boundVars>>

HubRuns ==
  /\ HubStep \/ Stick \/ Halt \/ \E c \in Clients : Cut(c)
  /\ UNCHANGED <<dbVars, clockVars, readerVars, changes>>

-----------------------------------------------------------------------------
(* The administrators.                                                     *)

Change ==
  /\ up
  /\ changes < MaxChanges
  /\ changes' = changes + 1
  /\ UNCHANGED <<feedVars, clockVars, readerVars>>

CreateChannel(ch) ==
  /\ Change
  /\ rows[ch] = None
  /\ ch \notin deleted
  /\ rows' = [rows EXCEPT ![ch] = NoLists]
  /\ UNCHANGED <<deleted, groups, stored>>

\* An update of a channel that is gone updates nothing.
UpdateChannel(ch, lists) ==
  /\ Change
  /\ rows[ch] # None
  /\ rows' = [rows EXCEPT ![ch] = lists]
  /\ UNCHANGED <<deleted, groups, stored>>

\* The messages go with the channels: one channel, or all of a category's.
DeleteChannels(S) ==
  /\ Change
  /\ \A ch \in S : rows[ch] # None
  /\ rows' = [ch \in Channels |-> IF ch \in S THEN None ELSE rows[ch]]
  /\ deleted' = deleted \cup S
  /\ stored' = {m \in stored : m.ch \notin S}
  /\ UNCHANGED groups

ClearChannelMessages(ch) ==
  /\ Change
  /\ stored' = {m \in stored : m.ch # ch}
  /\ UNCHANGED <<rows, deleted, groups>>

CreateGroup(g) ==
  /\ Change
  /\ groups[g] = None
  /\ g \notin deleted
  /\ groups' = [groups EXCEPT ![g] = {}]
  /\ UNCHANGED <<rows, deleted, stored>>

\* The group must be there.
AddGroupMember(g, c) ==
  /\ Change
  /\ groups[g] # None
  /\ groups' = [groups EXCEPT ![g] = @ \cup {c}]
  /\ UNCHANGED <<rows, deleted, stored>>

RemoveGroupMember(g, c) ==
  /\ Change
  /\ groups[g] # None
  /\ groups' = [groups EXCEPT ![g] = @ \ {c}]
  /\ UNCHANGED <<rows, deleted, stored>>

\* The members go with the group; lists that name it keep naming it.
DeleteGroup(g) ==
  /\ Change
  /\ groups[g] # None
  /\ groups' = [groups EXCEPT ![g] = None]
  /\ deleted' = deleted \cup {g}
  /\ UNCHANGED <<rows, stored>>

Administrate ==
  \/ \E ch \in Channels :
       \/ CreateChannel(ch)
       \/ \E lists \in Lists : UpdateChannel(ch, lists)
       \/ ClearChannelMessages(ch)
  \/ \E S \in (SUBSET Channels) \ {{}} : DeleteChannels(S)
  \/ \E g \in Groups :
       \/ \E c \in Clients : AddGroupMember(g, c) \/ RemoveGroupMember(g, c)
       \/ CreateGroup(g)
       \/ DeleteGroup(g)

-----------------------------------------------------------------------------
\* What the reader of c does of its own accord once it has a request.
Handle(c) ==
  \/ Check(c)
  \/ Subscribe(c)
  \/ \E id \in Messages : Stamp(c, id)
  \/ Insert(c) \/ PublishStored(c)
  \/ ReadBefore(c) \/ Query(c) \/ Answer(c)
  \/ Fail(c)

ChatNext ==
  \/ HubRuns
  \/ Administrate
  \/ \E c \in Clients :
       \/ Handle(c)
       \/ \E ch \in Channels :
            \/ Receive(c, "subscribe", ch, None)
            \/ Receive(c, "send", ch, None)
            \/ \E id \in Messages \cup {None} : Receive(c, "history", ch, id)
            \/ Unsubscribe(c, ch)
       \/ ReadFails(c)
       \/ Forget(c)

ChatSpec == ChatInit /\ [][ChatNext]_vars

HubMoves == HubStep /\ UNCHANGED <<dbVars, clockVars, readerVars, changes>>

\* A request that has been read is handled to its end, and the hub makes
\* progress while it is not stuck (Hub: ImplementsFairFeed; that a full
\* broadcast channel does not keep a reader forever is SendersAreReleased).
\* Requests, failures and administrators' changes are never owed.
ChatFairness ==
  /\ WF_vars(HubMoves)
  /\ \A c \in Clients : WF_vars(Handle(c))

-----------------------------------------------------------------------------
(* Safety.                                                                 *)

\* The messages c has been or will be sent.
Told(c) == {feed[c][i] : i \in DOMAIN feed[c]}

\* m is stored, and is still on its way to c.
InFlight(c, m) ==
  \/ \E d \in Clients : reader[d] = "publish" /\ Message(d) = m
  \/ \E i \in taken + 1 .. Len(order) : order[i] = m
  \/ delivering /\ order[taken] = m /\ c \in todo

\* m is older than the page, which says that there is more.
BeforePage(m, page) == page.more /\ \A p \in page.ids : stamp[m.id] <= stamp[p]

\* The protocol of the page (subscribe, then get_history): a peer that has
\* subscribed to a channel and then been answered its history misses nothing
\* of it.  Whatever is stored is in the page, before the page, delivered or on
\* its way: no message falls between the query and the subscription, whatever
\* its sender, the hub and the administrators do meanwhile.
NoGap ==
  \A c \in Clients \ cut, ch \in Channels :
    c \in members[ch] /\ shown[c][ch] # None =>
      \A m \in stored : m.ch = ch =>
        \/ m.id \in shown[c][ch].ids
        \/ BeforePage(m, shown[c][ch])
        \/ m \in Told(c)
        \/ InFlight(c, m)

\* The clock was set back after x was given its time, and by the time y was.
SetBackBetween(x, y) == \E m \in setBack \cap ({y} \cup earlier[y]) : x \in earlier[m]

\* x was sent before y, and the history has them in this order, too.
InOrder(x, y) == x \in earlier[y] /\ (stamp[x] <= stamp[y] \/ SetBackBetween(x, y))

\* The messages of one sender are told to every peer in the order they were
\* sent in, whatever else is stored and broadcast meanwhile, and the history
\* has the same order as long as the server's clock is not set back between
\* them.  (A peer that leaves and comes back may be told the same message
\* twice; of two senders the orders may differ.)
SendersKeepTheirOrder ==
  \A c \in Clients : \A i, j \in DOMAIN feed[c] :
    LET x == feed[c][i].id
        y == feed[c][j].id
    IN i < j /\ sender[x] = sender[y] => x = y \/ InOrder(x, y)

\* A channel is deleted with its messages, those included that were being
\* sent when it was: the handler looks the channel up long before it inserts.
DeletedChannelsKeepNothing == \A m \in stored : rows[m.ch] # None

-----------------------------------------------------------------------------
(* What becomes of a message, seen from outside (Posting).                 *)

\* A reader at `state` has the message in hand.
InHand(state, id) == \E c \in Clients : reader[c] = state /\ request[c].id = id

Published(id) == \E i \in DOMAIN order : order[i].id = id

Life ==
  [id \in Messages |->
     IF sender[id] = None             THEN "new"
     ELSE IF Published(id)            THEN "published"
     ELSE IF InHand("publish", id)    THEN "stored"
     ELSE IF InHand("insert", id)     THEN "timed"
     ELSE                                  "lost"]

Posts == INSTANCE Posting WITH life <- Life, table <- stored

\* A message is stored at most once and broadcast at most once, only after it
\* was stored, and once it is stored no failure, no peer that leaves and no
\* administrator keeps it from being broadcast but the end of the process
\* (handleSendMessage, handlers.go 313-321; CreateMessage, db/server.go).
ImplementsPosting == Posts!Spec

-----------------------------------------------------------------------------
(* Liveness.                                                               *)

\* A message that has been stored reaches every peer that is then subscribed
\* and stays, also when its sender leaves at once or the channel is deleted.
SubscribersAreTold ==
  \A c \in Clients, m \in MessageEnvelope :
    (c \in members[m.ch] /\ \E d \in Clients : reader[d] = "publish" /\ Message(d) = m)
      ~> \/ m \in Told(c)
         \/ c \notin members[m.ch]
         \/ c \in cut
         \/ stuck \/ ~up

=============================================================================
