# Tambua in TLA+

Tambua is a small chat system in Go. A *server* (`cmd/tambua-server`) keeps
channels and messages in SQLite and speaks a JSON protocol over websockets. A
*client* (`cmd/tambua`) keeps one websocket to each server it is enrolled with
(the aggregator) and shows them all to browsers over websockets of its own.
There are no tests and no design documents: everything here is translated from
the source, and the comments of the source are the only statements of intent.

## Inventory

### Server

| part | state | operations | hard because |
|---|---|---|---|
| **Hub** `server/hub.go` | `clients`, `channels`, the Go channels `register`, `unregister` (unbuffered) and `broadcast` (256); per client `subs` and `send` (256) | `Run`, `Subscribe`, `Unsubscribe`, `Broadcast`, `Register`, `Unregister`, `Client.Send` | one goroutine, two locks, a map ranged over without its lock, channels that block, drop, or panic once closed |
| **Connection goroutines** `server/handlers.go` 40-224 | the socket; where each goroutine is | `HandleWebSocket`, `readPump`, `writePump`, `sendInitialData` | three goroutines per connection that must all end when one of them fails |
| **Message handlers** `server/handlers.go` 226-368 | none of their own | `handleSubscribe`, `handleUnsubscribe`, `handleSendMessage`, `handleGetHistory` | each is several SQL statements and hub calls, with no transaction around them |
| **Access control** 133-169 | none | `canAccessChannel` | lists and groups are read at different times; the error of the second read is ignored |
| **Channel lists** 92-131 | none | `sendChannelList`, `BroadcastChannelList` | what is read may be old when it is sent, and lists of two changes may cross |
| **Database** `internal/db/server.go` | tables `categories`, `channels`, `messages`, `groups`, `group_members`, `server_info` | one statement per method | foreign keys with cascades; pages by timestamp |
| **Administration** `server/admin.go` | none | create, update, delete, clear | changes the database under the handlers |

### Client

| part | state | operations | hard because |
|---|---|---|---|
| **Aggregator** `client/aggregator.go` | `connections` by server id; per connection `send` (256), `done`, server info, channel list | `Connect`, `Disconnect`, `Subscribe`, `Unsubscribe`, `SendMessage`, `GetHistory`, `readPump`, `writePump`, `handleMessage` | looks up, then dials, then registers; the reader disconnects by id; sends block |
| **Browser hub** `client/handlers.go` | `uiClients`, `broadcast` (256) | `HandleWebSocket`, `sendInitialState`, `handleUIMessage`, `runBroadcast` | map and sockets shared by goroutines; one slow browser |
| **Database** `internal/db/client.go` | `enrolled_servers`, `preferences` | one statement per method | the display name is written by two callers |
| **Page** `web/client/index.html` | selected server and channel, what is shown | select, send, load more, answers | answers that arrive after what they do not contain |

The administrators' page, authentication (a stateless query to the Tailscale
daemon), the JSON encoding and the two `main` programs are not modelled,
save for the goroutine of `cmd/tambua` that connects to the enrolled servers and
the shutdown of `cmd/tambua-server`.

### How they interact

A browser's request goes through the client's `handleUIMessage` to the
aggregator's `send` channel and over the websocket to the server's `readPump`,
which runs the handler itself: one connection's requests are handled one after
the other, those of different connections at once. The handlers share the
database (no transactions), the hub's channel maps (locks) and
`Hub.broadcast`. The hub's goroutine puts each message on the `send` channels
of the subscribers; the `writePump` of each takes it to the socket. Administrators'
requests run in goroutines of `net/http`.

### What makes each part correct

* Hub: nobody sends on a channel that was closed; a connection that ended
  leaves nothing behind; the two records of a subscription agree; all peers
  see one order; a failed connection is torn down completely; no reader waits
  forever. In one sentence: the hub implements `Feed`.
* Handlers: subscribing and then asking for history misses nothing; a stored
  message reaches whoever is subscribed; a sender's messages are broadcast in order, and
  the history has the same order while the clock is not set back;
  a deleted channel keeps nothing.
* Channel lists: the last list a connected client was sent is current once the
  changes are over.
* Pages: following them back shows every message once, also those that arrive
  meanwhile, and whatever the other pages of the same client ask for.
* Aggregator: at most one connection per server, a live one, and none that is
  not in the map, as far as `Connect`, which looks first and registers later, can keep that.
* Browser hub: what the server sends reaches every browser, in order.

`PROJECT.json` lists the hazards behind these, each at its line.

## Modules

| module | models |
|---|---|
| `Feed` | what the hub promises: one order of messages, each handed to those subscribed when its turn comes |
| `Hub` | `server/hub.go` and the goroutines of the connections; implements `Feed` |
| `Access` | `canAccessChannel` |
| `ChatServer` | the message handlers and administrators over the database, on top of `Feed`; implements `Posting` |
| `Posting` | what becomes of a message: timed, stored and published once each, in this order, or given up before it is stored |
| `ChatAccess` | `ChatServer` with two history variables: how long what `canAccessChannel` answered stays true |
| `ChannelList` | the lists of channels: greeters and administrators' requests over the database |
| `Aggregator` | `client/aggregator.go`: the client's connections to its servers; implements `Registry` |
| `Registry` | what the map of connections promises: one connection to a host, put in once, taken out and ended once, or contested and then written over |
| `ClientUI` | `client/handlers.go`: the browsers, the broadcast loop, the initial state; implements `Feed` |
| `Pages` | `web/client/index.html` against the server: selecting channels, history, live messages |
| `HubProofs`, `HubFeedProofs`, `ChatServerProofs`, `ChatAccessProofs`, `ChannelListProofs`, `AggregatorProofs`, `ClientUIProofs`, `PagesProofs` | inductive invariants of these modules and the theorems they give |
| `MCHub`, `MCChatServer`, `MCChatAccess`, `MCChannelList`, `MCAggregator`, `MCClientUI`, `MCPages` | instances for TLC |

`ChatServer` EXTENDS `Feed` and conjoins `Feed`'s actions to its own (`Subscribe`
is `Join`, `PublishStored` is `Publish`), so that by construction it uses the hub in no
other way; `Hub` INSTANCEs `Feed` with a
refinement mapping. So the handlers are checked against the promise and the
hub is checked to keep it, and neither check pays for the other's state.
`Access` is shared by `ChatServer` and `ChannelList`. `ChannelList` has its own, smaller, picture of
the hub: which connections it lists. `Pages` has one client connection to one
server: where its requests and the answers may be lost or refused is what `Hub`,
`ChatServer`, `Aggregator` and `ClientUI` show.

### Hub

A client of the model is a connection, which never comes back. Each step is
one critical section, one operation on a Go channel or one on a socket:

* `hub` is where `Run` is. `HubRegister`/`HubAdd` and
  `HubUnregister`/`HubRemove`/`HubCleanup` are its first two cases, split where
  another goroutine can see the difference (the rendezvous frees the other side
  before the maps change). `HubTake`, `HubDeliver`, `HubDone` are the third.
* `"blocked"` is `h.unregister <- client` inside `Run`. The channel is
  unbuffered and its only receiver is the goroutine that sends, so no action
  leaves this state.
* The loop ranges over the map without `channelsMu`. `MapWritten` is what Go
  makes of a write meanwhile: the process may be stopped, and the loop may or
  may not notice. `iter` tells whether the map being ranged over is still the one
  in `Hub.channels` (an emptied map is dropped from it and a new one made).
* `reader[c]` is `HandleWebSocket` and `readPump`, `writer[c]` is `writePump`,
  `greeter[c]` is `sendInitialData`. `Subscribe`/`SubscribeDone` and
  `Unsubscribe`/`UnsubscribeDone` are the two critical sections of those calls.
* `TrySend` is the non-blocking send on `client.send`; on a closed channel it
  sets `fault`, which ends the process.
* `SendList` is one client's turn in `BroadcastChannelList`, which runs in an
  administrator's request: to a client that is still registered. That the same request
  may come across one whose channel is closed, and then panics and is recovered by
  `net/http`, changes nothing in the hub; `ChannelList` has it.
* Go channels are sequences with a capacity, `closed` the closed ones; a closed
  channel still yields what it holds.

What a peer does, what the handlers decide and when sockets fail is left open.
Three variables are history, not state of the code: `order` is everything ever put
on `Hub.broadcast`, `sent[c]` the messages put on the send channel of `c` (once its
writer has ended, those of them that got through), and `received[c]` those written to its
socket.

### Feed

`order` is the sequence of messages published and `taken` how far the hub is in
it. `Join`, `Leave` and `Depart` change the subscriptions; `Take` fixes who is
owed the next message, `Deliver` hands it over, `Done` ends it. `Meanwhile`
keeps the freedom the unlocked loop has. `Cut` is a connection that fails: its
peer has got a prefix of what it was sent. `Stick` and `Halt` are the hub that
is stuck and the process that ends.

### ChatServer

The reader of each connection goes through a request statement by statement:
`Receive` (with `GetChannel`), `Check` (with `GetUserGroups`), and then
`Subscribe`; or `Stamp`, `Insert`, `PublishStored`; or `ReadBefore`, `Query`,
`Answer`; `Eligible` is the `WHERE` of the query. `Fail` is a statement that fails. Administrators' changes may come
between any two of them. The database starts with any contents that have no
messages; ids are never used twice. `Stamp` is apart from `Insert` because
`CreateMessage` takes the time before it inserts. The time is the reading of a wall clock, without its
monotonic part: `ReadClock` may find it where it was, later, or set back, and the history
variables `earlier` and `setBack` tell which messages had their time by then and where it was set back. Two messages may have the
same time, and which of them a page prefers is then left open. `Query` goes through the limit as the code
does: `Limit` replaces one that is out of range, `Fetched` asks for one row more, and `WithoutOldest` drops it
again. Pages are sets:
their order is that of the timestamps. `shown` remembers the page that was
answered last, which is history, not state of the code; an answer that finds
the send channel full is dropped, as `Client.Send` does. Users are told apart
by their connection. `Life` is how far each message has come, read off the readers and the
hub's order: seen that way `Stamp`, `Insert`, `PublishStored` and a failed `INSERT` are
`Time`, `Store`, `Publish` and `GiveUp` of `Posting`, administrators `Delete`, and every other step is a stutter.

### ChatAccess

`ChatAccess` runs `ChatServer` and records which rights have changed: `overtaken` are the
connections whose request a change has overtaken (of the channel's lists after
`GetChannel`, of the user's groups after `GetUserGroups`, or a `GetUserGroups` that failed),
`stale` the subscribers whose rights have changed since they subscribed, or since the lookup on which
their subscription was granted. Nothing else makes somebody act, or stay subscribed, without rights:
the code does not take a subscription away when rights change, and the properties say that this,
and the gap between its statements, is all there is to it.

### ChannelList

A *lister* puts lists together: the greeter of a connection makes one, an
administrator's request one for each connection that `GetClients` found.
`GetCategories`, `GetChannels` for each category and `Filter` (`canAccessChannel`, with the groups read
after the row) are the statements of `sendChannelList`, `Send` its end; other
requests go on changing the tables between them. `Change` is what all changes of
categories and channels share; it begins the request's lists. `ChangeGroup` sends none, since the
code sends none. A failing `GetChannels` leaves a category out, a failing
`GetUserGroups` counts as fewer groups. `Panic` is a send to a connection that
was closed meanwhile: in a greeter it ends the process, in a request `net/http`
recovers it, and those left in `todo` get no list. `told` is the list a connection was sent last and
`missed` is history: whether anything but the order of steps accounts for a list that is out
of date. A change clears it, for the lists it sends make up for what went
wrong before, unless it `Crossed` a list being made for the connection, which may then be sent after the
newer one.

### Aggregator

Callers are the goroutines of the browsers and the one of `main.go` that connects to the enrolled
servers at the start, `Starter`: it reads the rows once (`Load`) and connects to one after the other
(`ConnectNext`); what pages ask for is `Ask`. Nothing keeps two of them from connecting to one host at once.
`at[u]` is where caller `u` is, `at[c]` where the reader of
connection `c` is, `held` the connection an actor has in hand. `Check`, `Enroll`, `Dial`,
`Register`, `Start` are `Connect` between its locks; `Remove`, `CloseDone`,
`CloseConn` are `Disconnect`, run by callers and by readers alike (`Leave`). A
host stands for the id of its row: `EnrollServer` makes the row once and nothing
deletes it. `name` is what the row says: the host name after `Enroll`, the
server's own after `Rename`, which may fail unnoticed (`"named"` and `"unnamed"` readers). Requests are
counted, not told apart.

`crossed` is history: the connections that were registered while another `Connect` to their host had found none
and was still on its way. These are the ones that may be written over in the map (`Register`). The properties say what
holds whoever connects to what, and name crossed connections where the code lets them down.
Through `Listed` (what is, or has been, in the
map) and `Out` the module is a `Registry`: `Register` opens a slot, empty or contested, `Remove` closes it,
`CloseDone` retires the connection.

### ClientUI

`handler[b]` is the goroutine of a browser, first that of its HTTP request
and then `handleUIMessages`. `log` is everything ever put on `h.broadcast` and
`taken` how far `runBroadcast` has come, so that the queue is the rest. An item
is the version of the channel list it shows, or 0 for one that shows a list of servers;
messages and history take the same way. The loop takes an item (`Take`), which frees its
place in the queue, and then waits for the read lock (`Lock`). `Disconnect` is the aggregator taking the connection off its map:
from then on the update callback and `sendInitialState` find nothing to show. A write to a socket has a beginning and an end,
because two goroutines write to the same socket without a lock. If they overlap, the
frames are mixed (`sock` is `"mixed"`, and what the browser gets is not followed any more), and the
library, whose check is best effort, may make one of the writers panic (`Overlap`: the end of the process, or
`"panicked"` when it is a goroutine `net/http` recovers). `FailWrite` deletes under the read lock, which the Go runtime may
notice if a lookup is under way. `CanLock` and `CanRLock` are `uiMu`, with the
priority Go gives to waiting writers. One server is connected: servers only share the
queue. What the aggregator does in a call is left open, also that it never returns.

`AbstractLoop` reads the module as a `Feed` of one channel that all browsers in the map
subscribe to, with `runBroadcast` as its hub: a browser that registers joins, one that the loop or its own
goroutine takes off the map leaves, one whose socket has gone or whose frames were mixed is cut, and a fault is the end of the
process. An item counts as taken once the loop has the lock for it (`Begun`), for it goes to the browsers of that moment. It is never stuck: where the
server's hub waits for itself, this loop deletes from the map.

### Pages

The pages of one client share its connection, so one reader of the server
serves them (`page` is the answer it has in hand) and one set of subscriptions, `subscribed`. `asked[b]` are
the requests of a page on their way, `inbox[b]` what is on its way back: messages and
history go to every page, whoever asked. `SelectChannel`, `GoBackToChannels`, `SelectServer`
and `LoadMoreMessages` are what a user does; `AppendMessage`, `RenderHistory`, `PrependHistory`
and `IgnoreHistory` are the cases of the page's `handleMessage`, which tells a first page of history
from an older one by `oldestMessageId`. A message is the time it was stamped with: `Post` stores messages in
any order, `Publish` broadcasts them in any order. `Refuse`, `Lose` and `Reconnect` are failures. The
fields `by`, `before` and `found` of an answer and the variable `excuse` are history, not state of the
code: `excuse` collects what the code does that makes a page miss or repeat a message,
and the properties say that there is nothing else.

## Runs

| run | cfg | checks | result |
|---|---|---|---|
| `hub_safety` | `MCHub` | types; `LoopAndReadersFindOpen`, `DepartedLeaveNoTrace`, `SubscriptionsAgree`, `StreamsFollowBroadcastOrder`, `ImplementsFeed` | hold |
| `hub_live` | `MCHub_live` | `LeaversAreTornDown`, `SendersAreReleased`, `ImplementsFairFeed` | hold |
| `hub_full` | `MCHub_full` | `FullClientsAreDisconnected` | violated: see below |
| `chat_safety` | `MCChatServer` | types; `NoGap`, `SendersKeepTheirOrder`, `DeletedChannelsKeepNothing`, `ImplementsPosting` | hold |
| `chat_access` | `MCChatAccess` | `ActorsMayAct`, `SubscribersMayRead`, `SubscribersAreTold` | hold |
| `lists` | `MCChannelList` | types; `SettledAreCurrent`, `ListsCatchUp` | hold |
| `agg` | `MCAggregator` | types; `DoneClosedOnce`, `DeadAreUnlisted`, `UncrossedAreListed`, `StoredNamesStay`, `LateReadersCloseSuccessors`, `ImplementsRegistry`, `PumpsEndTogether`, `RequestersAreServed` | hold |
| `agg_twice` | `MCAggregator_twice` | `AllActiveListed` | violated: two callers connect to one host |
| `ui_safety` | `MCClientUI` | types; `ItemsWithoutGaps`, `NothingMissedAfterState`, `EndedAreForgotten`, `ImplementsFeed` | hold |
| `ui_live` | `MCClientUI_live` | `LeaversAreForgotten`, `ImplementsFairFeed` | hold |
| `ui_states` | `MCClientUI_states` | `StatesAreCurrent` | violated |
| `pages` | `MCPages` | types; `PagesMissNothing`, `MessagesShownOnce`, `AsksBeforeTheOldest` | hold |

**Findings.** `hub_full` refutes the comment "Client buffer full, disconnect"
(`server/hub.go` 85). With one client, a buffer of one and two messages the hub
reaches `h.unregister <- client` and stays there. Everything that goes through
the hub stops with it: registrations, removals, deliveries, and in the end
every reader that broadcasts. The liveness properties of the hub
therefore end in "or `Down`", and `Feed` has `stuck`.

`agg_twice` refutes "GetConnections returns all active connections"
(`client/aggregator.go` 161): between looking for a connection and writing the map `Connect`
dials, and the second of two callers puts its connection in the first one's place. The first
goes on being read, its messages arrive twice, and nothing can disconnect it.
Browsers connecting to one server at once, or one doing so while the program connects to the
enrolled servers, are such callers. `UncrossedAreListed`, in `agg` and as a theorem, shows that this
is the only way: a connection that no other `Connect` crossed stays in the map until somebody closes it.

`ui_states` refutes "Send current connection states" (`client/handlers.go` 175): a
browser is in the map before its initial state is sent. The state is read, a newer update is broadcast to the browser, and then the
older state is written over it; nothing corrects that until the server sends
its channels again. `NothingMissedAfterState` shows that the opposite order of
reading and registering would be worse: as it is, no update is missed.

**Shown without a finding.** The repository says nothing that these could be held
against, so no run expects them; each is in a model and part of what its properties
except.

* A reader disconnects by server id and may so close the connection that took
  its own's place (`Aggregator!Leave`); `LateReadersCloseSuccessors` shows that this takes somebody who disconnected
  its own before, or another `Connect` that crossed it.
* A connection that was crossed and written over is never told to end: when its socket fails its reader disconnects the
  other one, and its writer goes on until a ping fails (the exception of `PumpsEndTogether`).
* The error of storing a server's own name is ignored (`Rename`), and a `Connect` that crosses an authenticated connection puts
  the host name back (the exception of `StoredNamesStay`).
* A request to a connection whose writer has ended waits for ever once the send
  channel is full, and with it its browser; this is how `Aggregator` can deadlock.
* Overlapping writes to a browser's socket, noticed by the library or not, and the map of browsers written under its read
  lock (`ClientUI!Overlap`, `Begin`, `FailWrite`).
* The server's clock may be set back: a sender's later message then has the earlier time, and comes earlier in the
  history than in the broadcast (`SetBackBetween`).
* A request that finds one of its connections closed breaks off, and the rest get
  no list; a greeter that does ends the server (`ChannelList!Panic`, and `Hub`).
* Two lists for one connection may arrive in the wrong order (`ChannelList!Crossed`); a
  change of groups tells nobody.
* A subscription outlives the rights it was given for (`ChatAccess!Outdated`).
* Messages of one timestamp at the boundary of two pages: those that did not
  fit are on neither (`ChatServer!Eligible`).
* The first page to leave a channel gives up the subscription of all (`Pages!Unsubscribe`);
  after a reconnection nobody subscribes again (`Reconnect`).
* A message that comes between the query of the first page of history and its answer is taken off
  the page by the answer (`Pages!Replaced`); a button pressed twice shows a page
  twice; a page of history that another asked for is shown as one's own (`Confused`).

**Deadlock** is not checked: the instances of `Hub`, `ChatServer`, `ChannelList`, `ClientUI`
and `Pages` stop when their bounds are used up, and the browsers of `Aggregator` may all wait on
a dead connection.

**Bounds.** `SendCap`, `BroadcastCap` and `PageLimit` stand for 256, 256 and 100;
with one or two places full, empty and in between all occur, and with a page of one
message so does `has_more`. Two connections give every pair of
goroutines the code lets run against each other: there is no interaction of
three that is not through the hub's loop, which takes one at a time. One channel
is enough where no property relates two. Where a symmetry is used it is named in the `MC` module; liveness runs use
none.

* `Hub`: `MaxRequests` bounds the requests of each connection. In `hub_safety` each makes two: enough to subscribe and
  send, or subscribe and leave, or send twice. A broadcast channel of two places holds the messages
  of both, a send channel of one is filled by a reply or a list. `hub_full` has three for one connection, to subscribe and
  send twice. In `hub_live` one connection makes two requests and the other one,
  without replies: one that subscribes and sends, and one that sends meanwhile, which fills the broadcast channel, lets
  readers wait for it, and lets the subscriber's buffer fill up and the hub get stuck, where the properties allow `Down`.
  The id of a new message is the one `NextId` chooses: ids have no other meaning than being new.
* `chat_safety`: two requests, to subscribe and then ask for history, or subscribe and send, against the same of another connection; two
  readings of the clock, of which the second may be less than the first; one change, which may come between any two statements.
  The limit of a request ranges over 0, the page, and one more.
* `chat_access` has lists that let in all, the group,
  all but the group, and the group but not one of its members, and one request and one change, which may come
  between any two statements of it or after it: enough for a request that is overtaken and for a subscription
  that outlives its rights. For any number of either the theorems say that the two safety properties hold. Its clock
  stands still: no property of the run is about times.
* `agg`: one browser, which may connect, disconnect and send at any time, and the start of the program, against the readers
  and writers of two connections to one host. So two `Connect` may cross, one may follow the other, and the reader of the old
  connection may come across the new one. Connections are used once and dialled in order. More than two callers in one
  `Connect`, or a third connection, are left to the theorems, which say of any number that the safety properties hold.
* `lists`: two changes and two administrators let a list cross another and be
  made up for, against one connection with its greeter; two channels let one be deleted and
  another changed, and the lists given are none and "the group only". With one connection, a request
  that breaks off leaves nobody behind: that case is only in the proof of `SettledAreCurrent`, which is for any number
  of connections, and not in `ListsCatchUp`. Two connections against two administrators are too many states for the run,
  and two administrators are what makes lists cross.
* `pages`: two pages make every pair of one that asks and one that is asked
  for, three clicks let a page select, load more and let the other leave, two messages and pages of one
  leave an older page and a newer message, and one fault loses any one thing.
* `ClientUI`: three items are needed for a gap in the middle, a queue of one place
  to drop one, one version told for a state older than an update, and two
  browsers for one to fail or stall while the other is served. `ui_live` has
  one item: a queue that served one item is back where it began.

**Fairness.** Go runs every goroutine that can run: weak fairness for the hub's
loop, writers and greeters. A goroutine waiting in the hub's select or on
a full Go channel is served in the end, since waiting senders queue first in,
first out and `select` picks at random among ready cases: strong fairness
for the readers and for `HubTake`. A socket write ends by its deadline of ten seconds, a read once the
socket is closed. Nothing is assumed of peers, of pings, or of
requests that may come. In `ChatServer` readers and hub get weak fairness;
that a reader does not wait forever for room in `Hub.broadcast` and that the hub
gets through its messages are `SendersAreReleased` and `ImplementsFairFeed` of `Hub`.
In `ChannelList` requests and greeters that have begun go on and the hub adds a connection that was
handed to it, unless the process ends: weak fairness of each lister. In `Aggregator` the steps of a started `Connect` that need nothing from outside, those of `Disconnect`, and readers and
writers go on (weak fairness: nothing holds `connMu` across a step), and a browser that waits for room on a send channel gets it in the
end, first come, first served: strong fairness. A dial or a statement need not end. The pings of the
writer's ticker find a dead socket (weak fairness), and a read
fails once the socket is down; nothing makes anybody connect or disconnect. In `ClientUI` locks are granted in turn (strong fairness of what waits for one, `Lock` included), and a
write, the loop's or a handler's, ends if its browser reads or has left: the code sets no deadline, so `Stallers`
is empty in `ui_live`. Calls of the aggregator need not return.

## Proofs

Each theorem is proved for any sets of actors, channels and messages and any
capacities, from the named assumptions on constants in the modules, and each comes from an inductive invariant
(`IInv` or `FeedInv`) that holds at the start and after every step. There
is a lemma for every part of an invariant, with one step per action.

**The hub keeps its promise** (`HubProofs`, `HubFeedProofs`).

* `TypeCorrect`, `SendsFindChannelOpen`, `NoTraceOfTheDeparted`, `SubscriptionsStayInStep`:
  `TypeOK`, `LoopAndReadersFindOpen`, `DepartedLeaveNoTrace`, `SubscriptionsAgree`.
  None of the last three is inductive. `IInv` adds what
  the control state of the goroutines implies: `MembershipInv` states for each
  client and channel exactly when the client is in the channel's map (`Expected`),
  `RegistrationInv` that a client is registered from the hub's add to its
  removal and that only departed ones are closed, `HubInv` that the loop never
  ranges over a closed client.
* `OneOrderForAll`, `HubImplementsFeed`: `StreamsFollowBroadcastOrder` and the
  refinement `ImplementsFeed`. `FeedInv` adds to `IInv` that the
  messages published are distinct (`OrderInv`), that the queue is the end of
  `order` and the message in hand the one before it (`QueueInv`), that what
  a send channel holds is the rest of what its peer is to get
  (`StreamInv`), and that this follows `order` (`SentInv`). A send channel
  also holds replies, so `Pending` says which of its places hold the messages, by an increasing
  map, rather than by filtering the sequence. A step of the hub maps
  to a step of `Feed` or to a stutter: an add, a removal from the map of clients, a reply
  and a write to a socket are stutters, the end of a writer is `Cut`.

**The server on the promise** (`ChatServerProofs`).

* `ServerTypes`, `NoOrphans`, `OrderOfASender`, `SubscribersMissNothing`: `ChatTypeOK`,
  `DeletedChannelsKeepNothing`, `SendersKeepTheirOrder`, `NoGap`.
  The main one is `NoGap`. It needs `NoGapToCome`: a page that was read and not yet answered would leave no gap
  either. `Work` says what a reader that handles a request has in hand, `Delivery` and
  `FromOrder` what the hub may still owe or has handed over. A page's limit is a statement about
  `Cardinality`, so the invariant also has that what is stored is finite.
  `SendersKeepTheirOrder` needs that one sender's messages are in `order` as they were sent and that the message in
  hand comes after them (`OrderOfSenders`); and, for their times, that a time later than the clock now shows was given before
  the clock was set back (`ClockFollows`), so that of two messages in the wrong order one can name the place
  where that happened between them (`SetBackBetween`).
* `ServerImplementsPosting`: the refinement `ImplementsPosting`. It needs that one reader at most has a
  message in hand (`OneHand`, from `Work`) and that it was not published before (`PostedOnce`).
  `PostingSteps` says that a step takes a message further or leaves all of them where they are (`Aside`).

**Rights** (`ChatAccessProofs`). `AccessTypes`, `HandlersActWithRights`, `SubscribersKeepRights`: `AccessTypeOK`,
`ActorsMayAct`, `SubscribersMayRead`. The invariant adds `RowsAreCurrent`: until it is overtaken, a
request is checked against the lists of the moment. `RequestLine` says that a handler past its check keeps its
request, `RightsAreAdministered` that only administrators change rights; the rest of the server's
invariant is that of `ChatServerProofs`.

**Lists of channels** (`ChannelListProofs`). `ListTypes` and `ListsAreCurrent`: `TypeOK` and
`SettledAreCurrent`. `DraftsAreCurrent` says that what a lister has read is still so, unless `missed` records why not;
`ToldAreCurrent` says the same of the list sent last to a connection no request owes another
one (`Owed`); `ListersInOrder` says what a lister holds at each statement.

**The client** (`AggregatorProofs`, `ClientUIProofs`).

* `AggregatorTypeCorrect`, `DoneChannelsAreClosedOnce`, `TheDeadStayUnlisted`, `OnlyCrossedAreUnlisted`,
  `OnlyCrossedAreMisnamed`: `TypeOK`, `DoneClosedOnce`, `DeadAreUnlisted`, `UncrossedAreListed`, `StoredNamesStay`. None
  of them assumes anything of who connects to what.
  The first three follow from an invariant that gives each connection one
  life: dialled and made by one caller (`MadeByOne`), unknown to others before it is
  registered (`NewAreUnknown`), in use while it is listed (`ListedAreInUse`), taken off the
  map and closed by one actor (`ClosedByOne`). The last two add what crossing means: what the map has for a host that
  a caller on its way found empty was crossed (`OnlyCrossedMeanwhile`), so `Register` writes over nothing else, and what
  is in use and was not crossed is listed (`InUseAreListed`).
* `ReadersCloseTheirOwn` and `MapImplementsRegistry`: the action property
  `LateReadersCloseSuccessors` and the refinement `ImplementsRegistry`. A reader that disconnects
  finds, by the same invariants, its own connection in the map, or one that was put there after its own was taken off or written
  over; and a `Register` finds its slot empty or contested.
* `UITypes`, `FeedHasNoGaps`, `NothingFallsBetween`, `MapForgets`: `TypeOK`, `ItemsWithoutGaps`,
  `NothingMissedAfterState`, `EndedAreForgotten`. `LoopInOrder` and `MapInOrder` say where the loop and
  the goroutines are when a browser is in the map, `FeedInOrder` that the last item of a browser in the
  map is the last the loop is done with (the last but one while it waits for the lock), `LogInOrder` that nothing in the
  log is newer than what the server has told, `StateFollowed` that a browser that has read its
  state has every newer item the loop is done with.
* `LoopImplementsFeed`: the refinement `ImplementsFeed`. `TypeOK`, `LoopInOrder` and `MapInOrder` are enough: a
  browser the loop has still to serve is in the map, and items are distinct because
  each has its place in the log. `Take` is a stutter, `Lock` is `Feed`'s `Take`, and a write that begins while another is
  under way is `Cut`. What follows from `Feed` alone holds of both hubs of the system.

**The pages of a client** (`PagesProofs`). `PagesTypes`, `NothingIsMissed`, `NothingTwice`, `OlderPagesFollow`: `TypeOK`,
`PagesMissNothing`, `MessagesShownOnce`, `AsksBeforeTheOldest`, from `MessagesAssumption` (messages are finitely
many stamps), `BoundAssumption` and `NoneAssumption`. Both properties of a page at rest
follow from what is true of one that waits (`Coming` is what is on its way to it, `asked` what it
has asked):

* `NothingMissed`: a message of the channel a page shows is there, or will come by itself or with the
  first page, or is older than what the button goes on from *and* in whatever answer comes first. To keep it,
  a page must be subscribed or about to be (`StaySubscribed`), right before it asks (`AskedInOrder`); ask for
  older messages only once the first page is there (`FirstComesFirst`); and first pages must find what answers
  and messages before them brought (`AnswersGrow`, `OneOvertaken`), or they would take it off the page.
* `ComesOnce`: what is shown, or in an answer, does not come again. It needs that a message is
  broadcast once (`BroadcastOnce`) and that a page awaits one answer, about what is before
  its oldest message (`OneAwaited`).
* `AsksBeforeTheOldest` follows from `ComesOnce` and `OldestIsShown`: the message the button goes on
  from is one of those shown.

Every part is about the order of what is coming, which each of the actions disturbs in its own way.
`Steps` says once what an action means to one page, and `Trace` where everything that is coming was
before, so that the lemmas of the parts split on few cases.
That a page of history can be sorted at all (`SortedPage`) is shown from the ranks of a finite set, without induction over sequences.

**Only model-checked**: all liveness, with the
fairness it needs (`LeaversAreTornDown`, `SendersAreReleased`, `ImplementsFairFeed`, `SubscribersAreTold`,
`ListsCatchUp`, `PumpsEndTogether`, `RequestersAreServed`, `LeaversAreForgotten` and `ImplementsFairFeed` of `ClientUI`),
which is outside the prover's reach. Every other property of a run that passes is the statement of a theorem.

## Mutants

Definitions marked *Mutant* in the modules are not part of the specification. Each
is a slip the code could have had (a reset forgotten, a guard
dropped, an order reversed); with it in the place of the original the
property it is paired with in `PROJECT.json` fails.

## Plan

What is done: the hub and its promise, the handlers on it, lists of channels, the
aggregator, the browsers and the pages, each with its runs, and every safety property, action property
and safety refinement proved.
What would come next:

1. In `Pages`: messages of equal timestamps, and deletions, which pages do not
   hear of.
2. `Aggregator` and `Pages` composed: a page whose server is connected again by somebody else.

## Not modelled

* Contents of messages, names, icons and descriptions; JSON; HTTP status codes;
  logging; TLS and Tailscale; `normalizeHostname`, which only chooses the host.
* `HandleServerInfo` and the preferences: plain values nothing else depends on, like the time
  of the last connection.
* `GetMessages`, which only the administrators' page reads through; `RemoveEnrolledServer` is never called.
* The administrators' page and the parts of the client's page that keep lists, input and
  layout.
* Restarts of the server: nothing outlives the process but the database, and
  `ChatServer` starts from any database without messages. A second process on the same
  database is not foreseen by the code.
