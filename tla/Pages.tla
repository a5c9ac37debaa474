-------------------------------- MODULE Pages --------------------------------
(***************************************************************************)
(* The pages a client serves (web/client/index.html) show the channels of  *)
(* a server.  All of a client's pages share its one connection: the        *)
(* browsers' requests are merged into one stream (client/handlers.go,      *)
(* aggregator.go), a subscription is that of the connection, and whatever  *)
(* the server sends goes to every page, which picks what is about the      *)
(* channel it shows.  A page of history does not say who asked for it.     *)
(*                                                                         *)
(* Requests wait in one queue for each browser; their order is settled     *)
(* when the server's reader takes them.  Between the server and the        *)
(* browsers everything keeps its order, and may be lost.  Access control,  *)
(* deleted messages and channels, and other peers' requests are in         *)
(* ChatServer.                                                             *)
(***************************************************************************)
EXTENDS Naturals, FiniteSets, SequencesExt

CONSTANTS
  Browsers,   \* pages that are open
  Channels,   \* channels of the server
  Messages,   \* messages, each the time it was stamped with
  PageLimit,  \* messages in a page of history (100 in the code)
  MaxClicks,  \* bound: what users do in all
  MaxFaults,  \* bound: what fails in all
  None

ASSUME MessagesAssumption ==
  /\ Messages \subseteq Nat
  /\ IsFiniteSet(Messages)
ASSUME BoundAssumption ==
  /\ PageLimit \in Nat \ {0}
  /\ MaxClicks \in Nat
  /\ MaxFaults \in Nat

VARIABLES
  place,       \* the channel of each message stored
  fresh,       \* messages stored and not broadcast yet
  subscribed,  \* Client.subs of the client's connection
  asked,       \* requests of each browser on their way
  page,        \* the page of history the reader is about to send
  inbox,       \* what each browser is about to receive
  current,     \* currentChannel
  oldest,      \* oldestMessageId
  more,        \* hasMoreMessages: the button is there
  shown,       \* the messages on the page
  excuse,      \* what may be wrong with it
  clicks,      \* what users did, for the bound
  faults       \* what failed, for the bound

serverVars == <<place, fresh, subscribed, page>>
viewVars   == <<current, oldest, more, shown>>
boundVars  == <<clicks, faults>>
vars       == <<serverVars, viewVars, asked, inbox, excuse, boundVars>>

-----------------------------------------------------------------------------
Request == [op : {"subscribe", "unsubscribe"}, ch : Channels]
             \cup [op : {"get_history"}, ch : Channels, before : Messages \cup {None}]

Message == [op : {"message"}, id : Messages]

\* by, before and found are what the answer does not say: who asked, for what,
\* and which messages there were.
History ==
  [op : {"history"}, ch : Channels, ids : SUBSET Messages, more : BOOLEAN,
   by : Browsers, before : Messages \cup {None}, found : SUBSET Messages]

ASSUME NoneAssumption == None \notin Messages \cup Channels \cup History

TypeOK ==
  /\ place \in [Messages -> Channels \cup {None}]
  /\ fresh \in SUBSET Messages
  /\ subscribed \in SUBSET Channels
  /\ asked \in [Browsers -> Seq(Request)]
  /\ page \in History \cup {None}
  /\ inbox \in [Browsers -> Seq(Message \cup History)]
  /\ current \in [Browsers -> Channels \cup {None}]
  /\ oldest \in [Browsers -> Messages \cup {None}]
  /\ more \in [Browsers -> BOOLEAN]
  /\ \A b \in Browsers : more[b] => oldest[b] # None
  /\ shown \in [Browsers -> Seq({m \in Messages : place[m] # None})]
  /\ excuse \in [Browsers -> SUBSET {"missed", "repeated"}]
  /\ clicks \in 0..MaxClicks
  /\ faults \in 0..MaxFaults

Init ==
  /\ place \in [Messages -> Channels \cup {None}]
  /\ fresh = {}
  /\ subscribed = {}
  /\ asked = [b \in Browsers |-> <<>>]
  /\ page = None
  /\ inbox = [b \in Browsers |-> <<>>]
  /\ current = [b \in Browsers |-> None]
  /\ oldest = [b \in Browsers |-> None]
  /\ more = [b \in Browsers |-> FALSE]
  /\ shown = [b \in Browsers |-> <<>>]
  /\ excuse = [b \in Browsers |-> {}]
  /\ clicks = 0
  /\ faults = 0

-----------------------------------------------------------------------------
\* What is wrong from now on with the pages of B.
Excused(B, why) ==
  [b \in Browsers |-> IF b \in B THEN excuse[b] \cup {why} ELSE excuse[b]]

\* What is on its way to b, in this order.
Coming(b) == IF page = None THEN inbox[b] ELSE Append(inbox[b], page)

\* What b has asked for the history of ch before, and has not been answered.
Awaited(b, ch) ==
  {r.before : r \in {x \in ToSet(asked[b]) : x.op = "get_history" /\ x.ch = ch}}
    \cup {h.before : h \in {x \in ToSet(Coming(b)) :
                             x.op = "history" /\ x.by = b /\ x.ch = ch}}

Fault == faults < MaxFaults /\ faults' = faults + 1 /\ UNCHANGED clicks

-----------------------------------------------------------------------------
(* What the users do.                                                      *)

Click ==
  /\ clicks < MaxClicks
  /\ clicks' = clicks + 1
  /\ UNCHANGED <<serverVars, inbox, faults>>

Leave(b) ==
  IF current[b] = None THEN <<>> ELSE <<[op |-> "unsubscribe", ch |-> current[b]]>>

Join(ch) == <<[op |-> "subscribe", ch |-> ch]>>

GetHistory(ch, id) == <<[op |-> "get_history", ch |-> ch, before |-> id]>>

\* A page that still waits for history of the channel takes the answer for
\* that to its new request.
Show(b, ch) ==
  /\ Click
  /\ current' = [current EXCEPT ![b] = ch]
  /\ oldest' = [oldest EXCEPT ![b] = None]
  /\ shown' = [shown EXCEPT ![b] = <<>>]
  /\ excuse' = [excuse EXCEPT ![b] = IF Awaited(b, ch) = {} THEN {} ELSE {"missed", "repeated"}]

\* (Mutant: the history first.)
SelectChannelLater(b, ch) ==
  /\ Show(b, ch)
  /\ asked' = [asked EXCEPT ![b] = @ \o Leave(b) \o GetHistory(ch, None) \o Join(ch)]
  /\ more' = [more EXCEPT ![b] = FALSE]

\* (Mutant: hasMoreMessages is not reset.)
SelectChannelKeepsButton(b, ch) ==
  /\ Show(b, ch)
  /\ asked' = [asked EXCEPT ![b] = @ \o Leave(b) \o Join(ch) \o GetHistory(ch, None)]
  /\ UNCHANGED more

SelectChannel(b, ch) ==
  /\ Show(b, ch)
  /\ asked' = [asked EXCEPT ![b] = @ \o Leave(b) \o Join(ch) \o GetHistory(ch, None)]
  /\ more' = [more EXCEPT ![b] = FALSE]

GoBackToChannels(b) ==
  /\ Click
  /\ current[b] # None
  /\ asked' = [asked EXCEPT ![b] = @ \o Leave(b)]
  /\ current' = [current EXCEPT ![b] = None]
  /\ UNCHANGED <<oldest, more, shown, excuse>>

\* goBackToServers and selectServer, of the same server: the subscription stays.
SelectServer(b) ==
  /\ Click
  /\ current[b] # None
  /\ current' = [current EXCEPT ![b] = None]
  /\ UNCHANGED <<asked, oldest, more, shown, excuse>>

\* The button stays until an answer comes: it may be pressed again, or while
\* the first page is awaited.
LoadMoreMessages(b) ==
  /\ Click
  /\ current[b] # None
  /\ more[b]
  /\ oldest[b] # None
  /\ asked' = [asked EXCEPT ![b] = @ \o GetHistory(current[b], oldest[b])]
  /\ LET awaited == Awaited(b, current[b])
     IN  excuse' = [excuse EXCEPT ![b] =
                      @ \cup (IF awaited = {} THEN {} ELSE {"repeated"})
                        \cup (IF None \in awaited THEN {"missed"} ELSE {})]
  /\ UNCHANGED viewVars

-----------------------------------------------------------------------------
(* The server.                                                             *)

\* Somebody's message is stored.  Stamps are taken before that, and senders
\* overtake each other.
Post(m, ch) ==
  /\ place[m] = None
  /\ place' = [place EXCEPT ![m] = ch]
  /\ fresh' = fresh \cup {m}
  /\ UNCHANGED <<subscribed, page, viewVars, asked, inbox, excuse, boundVars>>

Sent(item) == inbox' = [b \in Browsers |-> Append(inbox[b], item)]

\* The hub broadcasts it.
Publish(m) ==
  /\ m \in fresh
  /\ fresh' = fresh \ {m}
  /\ IF place[m] \in subscribed THEN Sent([op |-> "message", id |-> m]) ELSE UNCHANGED inbox
  /\ UNCHANGED <<place, subscribed, page, viewVars, asked, excuse, boundVars>>

\* The reader takes the next request of b.
Take(b, op) ==
  /\ page = None
  /\ asked[b] # <<>>
  /\ Head(asked[b]).op = op
  /\ asked' = [asked EXCEPT ![b] = Tail(@)]
  /\ UNCHANGED <<place, fresh, inbox, viewVars>>

Subscribe(b) ==
  /\ Take(b, "subscribe")
  /\ subscribed' = subscribed \cup {Head(asked[b]).ch}
  /\ UNCHANGED <<page, excuse, boundVars>>

\* Pages that show the channel and have it behind them that they subscribed.
Deserted(ch) ==
  {d \in Browsers : current[d] = ch /\ [op |-> "subscribe", ch |-> ch] \notin ToSet(asked[d])}

Unsubscribe(b) ==
  LET ch == Head(asked[b]).ch
  IN  /\ Take(b, "unsubscribe")
      /\ subscribed' = subscribed \ {ch}
      /\ excuse' = Excused(Deserted(ch), "missed")
      /\ UNCHANGED <<page, boundVars>>

\* (Mutant: timestamp <= before.)
EligibleUpTo(r) ==
  {m \in Messages : place[m] = r.ch /\ (r.before # None => m <= r.before)}

\* The messages a request for history is about.
Eligible(r) ==
  {m \in Messages : place[m] = r.ch /\ (r.before # None => m < r.before)}

\* The newest of S, as many as a page holds.
Newest(S) == {m \in S : Cardinality({x \in S : x > m}) < PageLimit}

\* A message in the page that is still to be broadcast comes twice.
Query(b) ==
  LET r     == Head(asked[b])
      found == Eligible(r)
      ids   == Newest(found)
  IN  /\ Take(b, "get_history")
      /\ page' = [op |-> "history", ch |-> r.ch, ids |-> ids, more |-> ids # found,
                  by |-> b, before |-> r.before, found |-> found]
      /\ excuse' = IF ids \cap fresh # {} THEN Excused({b}, "repeated") ELSE excuse
      /\ UNCHANGED <<subscribed, boundVars>>

Answer ==
  /\ page # None
  /\ Sent(page)
  /\ page' = None
  /\ UNCHANGED <<place, fresh, subscribed, viewVars, asked, excuse, boundVars>>

\* The client is not connected, or the server answers with an error.
Refuse(b) ==
  /\ Fault
  /\ \E op \in {"subscribe", "unsubscribe", "get_history"} : Take(b, op)
  /\ excuse' = IF Head(asked[b]).op = "unsubscribe" THEN excuse ELSE Excused({b}, "missed")
  /\ UNCHANGED <<subscribed, page>>

\* The client's connection to the server is replaced by another.
Reconnect ==
  /\ Fault
  /\ subscribed' = {}
  /\ page' = None
  /\ excuse' = Excused(Browsers, "missed")
  /\ UNCHANGED <<place, fresh, viewVars, asked, inbox>>

-----------------------------------------------------------------------------
(* The page: handleMessage.                                                *)

Receive(b, item) ==
  /\ inbox[b] # <<>>
  /\ item = Head(inbox[b])
  /\ inbox' = [inbox EXCEPT ![b] = Tail(@)]
  /\ UNCHANGED <<serverVars, asked, current, boundVars>>

\* A buffer was full, or the browser's socket failed and it connects again.
Lose(b) ==
  /\ Fault
  /\ inbox[b] # <<>>
  /\ inbox' = [inbox EXCEPT ![b] = Tail(@)]
  /\ excuse' = Excused({b}, "missed")
  /\ UNCHANGED <<serverVars, viewVars, asked>>

\* A message with an older stamp than the page reaches back to is in one of
\* the older pages, too.
AppendMessage(b, i) ==
  /\ Receive(b, i)
  /\ i.op = "message"
  /\ IF place[i.id] = current[b]
       THEN /\ shown' = [shown EXCEPT ![b] = Append(@, i.id)]
            /\ excuse' = IF oldest[b] # None /\ i.id < oldest[b]
                           THEN Excused({b}, "repeated") ELSE excuse
       ELSE UNCHANGED <<shown, excuse>>
  /\ UNCHANGED <<oldest, more>>

\* In the order of time.
Sorted(S) ==
  [i \in 1..Cardinality(S) |-> CHOOSE m \in S : Cardinality({x \in S : x < m}) = i - 1]

OldestOf(h, m) == IF h.ids = {} THEN m ELSE Head(Sorted(h.ids))

\* Messages a first page takes off that showed up before it, and that no
\* further page will bring.
Replaced(b, h) ==
  {m \in ToSet(shown[b]) \ h.ids : h.more => \E x \in h.ids : x < m}

\* Another page's answer is taken for one's own.
Confused(b, h) ==
  IF h.by = b THEN {} ELSE IF h.before = None THEN {"repeated"} ELSE {"repeated", "missed"}

RenderHistory(b, h) ==
  /\ Receive(b, h)
  /\ h.op = "history"
  /\ h.ch = current[b]
  /\ oldest[b] = None
  /\ oldest' = [oldest EXCEPT ![b] = OldestOf(h, None)]
  /\ more' = [more EXCEPT ![b] = h.more]
  /\ shown' = [shown EXCEPT ![b] = Sorted(h.ids)]
  /\ excuse' = [excuse EXCEPT ![b] =
                  @ \cup Confused(b, h)
                    \cup (IF Replaced(b, h) = {} THEN {} ELSE {"missed"})]

\* (Mutant: oldestMessageId stays where it was.)
PrependKeepsOldest(b, h) ==
  /\ Receive(b, h)
  /\ h.op = "history"
  /\ h.ch = current[b]
  /\ oldest[b] # None
  /\ more' = [more EXCEPT ![b] = h.more]
  /\ shown' = [shown EXCEPT ![b] = Sorted(h.ids) \o @]
  /\ excuse' = [excuse EXCEPT ![b] = @ \cup Confused(b, h)]
  /\ UNCHANGED oldest

PrependHistory(b, h) ==
  /\ Receive(b, h)
  /\ h.op = "history"
  /\ h.ch = current[b]
  /\ oldest[b] # None
  /\ oldest' = [oldest EXCEPT ![b] = OldestOf(h, @)]
  /\ more' = [more EXCEPT ![b] = h.more]
  /\ shown' = [shown EXCEPT ![b] = Sorted(h.ids) \o @]
  /\ excuse' = [excuse EXCEPT ![b] = @ \cup Confused(b, h)]

IgnoreHistory(b, h) ==
  /\ Receive(b, h)
  /\ h.op = "history"
  /\ h.ch # current[b]
  /\ UNCHANGED <<oldest, more, shown, excuse>>

-----------------------------------------------------------------------------
Next ==
  \/ \E b \in Browsers :
       \/ \E ch \in Channels : SelectChannel(b, ch)
       \/ GoBackToChannels(b) \/ SelectServer(b) \/ LoadMoreMessages(b)
       \/ Subscribe(b) \/ Unsubscribe(b) \/ Query(b) \/ Refuse(b)
       \/ Lose(b)
       \/ \E item \in ToSet(inbox[b]) :
            \/ AppendMessage(b, item) \/ IgnoreHistory(b, item)
            \/ RenderHistory(b, item) \/ PrependHistory(b, item)
  \/ \E m \in Messages :
       \/ \E ch \in Channels : Post(m, ch)
       \/ Publish(m)
  \/ Answer
  \/ Reconnect

Spec == Init /\ [][Next]_vars

-----------------------------------------------------------------------------
\* Nothing b asked for is under way to it.
Quiet(b) ==
  /\ asked[b] = <<>>
  /\ inbox[b] = <<>>
  /\ page # None => page.by # b

\* When nothing it asked for is under way, a page shows every message of its
\* channel, down to where its button for older messages goes on - whatever the
\* other pages do, and in whatever order requests, broadcasts and answers cross
\* (selectChannel, renderHistory, prependHistory, index.html 556-624).  Since
\* the channel was selected, none of these has happened:
\*   - another page left the channel (Unsubscribe), or was sent older messages
\*     of it (Confused);
\*   - a message came between the query of the first page and its answer, and
\*     the answer took it off the page (Replaced);
\*   - the page still waited for history of the channel when it was selected,
\*     or for its first page when older messages were asked for;
\*   - something was refused or lost, or the client reconnected.
PagesMissNothing ==
  \A b \in Browsers :
    Quiet(b) /\ current[b] # None /\ "missed" \notin excuse[b] =>
      \A m \in Messages \ fresh :
        place[m] = current[b] =>
          \/ m \in ToSet(shown[b])
          \/ more[b] /\ oldest[b] # None /\ m < oldest[b]

\* No message is on a page twice (handleMessage, index.html 463-476), unless a
\* page of history overtook its broadcast, it was broadcast late, the user
\* asked again before the answer came, or another page asked.
MessagesShownOnce ==
  \A b \in Browsers :
    current[b] # None /\ "repeated" \notin excuse[b] => IsInjective(shown[b])

\* A page asks for what is before the oldest message it shows, however
\* answers, broadcasts and other pages' requests cross: older ones are not
\* hidden behind it and the same ones not asked for again (renderHistory,
\* prependHistory and loadMoreMessages, index.html 556-624).  The exceptions
\* are those of MessagesShownOnce.
AsksBeforeTheOldest ==
  \A b \in Browsers :
    current[b] # None /\ "repeated" \notin excuse[b] /\ oldest[b] # None =>
      /\ oldest[b] \in ToSet(shown[b])
      /\ \A m \in ToSet(shown[b]) : oldest[b] <= m
=============================================================================
