-------------------------- MODULE ChatAccessProofs --------------------------
(***************************************************************************)
(* Proofs about ChatAccess, for any number of connections, channels,       *)
(* groups, messages, requests and changes and any lists.  What is proved   *)
(* of the server holds here too: the history variables only watch it.      *)
(***************************************************************************)
EXTENDS ChatAccess, ChatServerProofs

-----------------------------------------------------------------------------
(* The invariant.                                                          *)

\* Until it is overtaken a request is checked against the lists of the moment.
RowsAreCurrent ==
  \A c \in Clients :
    reader[c] = "check" /\ c \notin overtaken =>
      row[c] # None /\ row[c] = rows[request[c].ch]

AccessInv ==
  /\ HistoryOK
  /\ RowsAreCurrent
  /\ ActorsMayAct
  /\ SubscribersMayRead

\* Rights are a matter of the lists and the groups.
LEMMA RightsStay ==
  ASSUME NEW c, NEW ch, ~ListsChange(ch), ~GroupsChange(c)
  PROVE  MayUse(c, ch)' <=> MayUse(c, ch)
<1>1. GroupsOf(c)' = GroupsOf(c)
  BY DEF GroupsChange
<1>2. rows'[ch] = rows[ch]
  BY DEF ListsChange
<1> QED
  BY <1>1, <1>2 DEF MayUse

\* The rights of nobody change but by the hand of an administrator.
LEMMA RightsAreAdministered ==
  ASSUME UNCHANGED dbVars, NEW c, NEW ch
  PROVE  ~ListsChange(ch) /\ ~GroupsChange(c)
<1>1. groups' = groups /\ rows' = rows
  BY DEF dbVars
<1>2. GroupsOf(c)' = GroupsOf(c)
  BY <1>1 DEF GroupsOf
<1> QED
  BY <1>1, <1>2 DEF ListsChange, GroupsChange

-----------------------------------------------------------------------------
(* What a step does to the request of a connection.                        *)

Receives(c) ==
  /\ reader'[c] = "check"
  /\ row'[c] = rows[request'[c].ch]
  /\ rows[request'[c].ch] # None
  /\ request'[c].ch \in Channels
  /\ UNCHANGED dbVars

Keeps(c) ==
  /\ reader[c] \in Handling
  /\ \/ reader'[c] = reader[c]
     \/ reader[c] # "check" /\ reader'[c] # "check"
  /\ request'[c].ch = request[c].ch
  /\ row'[c] = row[c]

LEMMA RequestLine ==
  ASSUME RestOK, Work, [ChatNext]_vars, NEW c \in Clients, reader'[c] \in Handling
  PROVE  Receives(c) \/ Check(c) \/ Keeps(c)
<1> DEFINE Goal == Receives(c) \/ Check(c) \/ Keeps(c)
<1> SUFFICES Goal
  OBVIOUS
<1>a. /\ DOMAIN reader = Clients /\ DOMAIN request = Clients /\ DOMAIN row = Clients
      /\ reader[c] \in Busy => request[c] \in Request
  BY DEF RestOK, Work
<1>s. ASSUME reader'[c] = reader[c], request'[c] = request[c], row'[c] = row[c] PROVE Goal
  BY <1>s DEF Keeps, Handling, Acting
<1> USE <1>a DEF readerVars, boundVars, workVars, Goto, Return, Handling, Acting
<1>1. CASE HubRuns
  BY <1>1, <1>s DEF HubRuns
<1>2. CASE Administrate
  BY <1>2, <1>s DEF Administrate, Change, CreateChannel, UpdateChannel, ClearChannelMessages,
              DeleteChannels, AddGroupMember, RemoveGroupMember, CreateGroup, DeleteGroup
<1>3. ASSUME NEW d \in Clients, NEW x \in Messages, Stamp(d, x) PROVE Goal
  <2>1. CASE d = c
    <3>1. /\ request'[c].ch = request[c].ch /\ row'[c] = row[c]
          /\ reader'[c] = "insert" /\ reader[c] = "stamp"
      BY <1>3, <2>1 DEF Stamp, Busy, Request
    <3> QED
      BY <3>1 DEF Keeps
  <2>2. CASE d # c
    BY <1>3, <1>s, <2>2 DEF Stamp
  <2> QED
    BY <2>1, <2>2
<1>4. ASSUME NEW d \in Clients, Check(d), d # c PROVE Goal
  <2>1. reader'[c] = reader[c] /\ request'[c] = request[c] /\ row'[c] = row[c]
    BY <1>4 DEF Check, CheckWith
  <2> QED
    BY <1>s, <2>1
<1>5. ASSUME NEW d \in Clients, Subscribe(d) \/ PublishStored(d) \/ Fail(d) \/ Answer(d)
      PROVE  Goal
  <2>1. CASE d = c
    BY <1>5, <2>1 DEF Subscribe, PublishStored, Fail, Answer
  <2>2. CASE d # c
    BY <1>5, <1>s, <2>2 DEF Subscribe, PublishStored, Fail, Answer
  <2> QED
    BY <2>1, <2>2
<1>6. ASSUME NEW d \in Clients, Insert(d) \/ ReadBefore(d) \/ Query(d) PROVE Goal
  <2>1. CASE d = c
    BY <1>6, <2>1 DEF Insert, ReadBefore, Query, Keeps
  <2>2. CASE d # c
    BY <1>6, <1>s, <2>2 DEF Insert, ReadBefore, Query
  <2> QED
    BY <2>1, <2>2
<1>7. ASSUME NEW d \in Clients, NEW ch \in Channels, NEW op, NEW x, Receive(d, op, ch, x)
      PROVE  Goal
  <2>1. CASE d = c
    BY <1>7, <2>1 DEF Receive, Receives
  <2>2. CASE d # c
    BY <1>7, <1>s, <2>2 DEF Receive
  <2> QED
    BY <2>1, <2>2
<1>8. ASSUME NEW d \in Clients, NEW ch, Unsubscribe(d, ch) \/ ReadFails(d) \/ Forget(d)
      PROVE  Goal
  <2>1. CASE d = c
    BY <1>8, <2>1 DEF Unsubscribe, ReadFails, Forget
  <2>2. CASE d # c
    BY <1>8, <1>s, <2>2 DEF Unsubscribe, ReadFails, Forget
  <2> QED
    BY <2>1, <2>2
<1>9. CASE UNCHANGED vars
  BY <1>9, <1>s DEF vars
<1> QED
  BY <1>1, <1>2, <1>3, <1>4, <1>5, <1>6, <1>7, <1>8, <1>9 DEF ChatNext, Handle

\* A reader leaves "subscribe" by subscribing, and a peer becomes a subscriber
\* in no other way.
LEMMA SubscriptionSteps ==
  ASSUME TypeOK, RestOK, Work, [ChatNext]_vars, NEW c \in Clients
  PROVE  /\ reader[c] = "subscribe" => Subscribe(c) \/ reader'[c] = "subscribe"
         /\ \A ch \in Channels :
              c \in members'[ch] => c \in members[ch] \/ Subscribes(c, ch)
<1> DEFINE Goal == /\ reader[c] = "subscribe" => Subscribe(c) \/ reader'[c] = "subscribe"
                   /\ \A ch \in Channels :
                        c \in members'[ch] => c \in members[ch] \/ Subscribes(c, ch)
<1> SUFFICES Goal
  OBVIOUS
<1>a. members \in [Channels -> SUBSET Clients] /\ DOMAIN reader = Clients
  BY DEF TypeOK, RestOK
<1>s. ASSUME UNCHANGED members, reader[c] = "subscribe" => reader'[c] = "subscribe" PROVE Goal
  BY <1>s
<1> USE <1>a DEF readerVars, boundVars, workVars, feedVars, Goto, Return
<1>1. CASE HubRuns
  BY <1>1, <1>s DEF HubRuns, HubStep, Take, Deliver, Done, Stick, Halt, Cut
<1>2. CASE Administrate
  BY <1>2, <1>s DEF Administrate, Change, CreateChannel, UpdateChannel, ClearChannelMessages,
              DeleteChannels, AddGroupMember, RemoveGroupMember, CreateGroup, DeleteGroup
<1>3. ASSUME NEW d \in Clients, Check(d) PROVE Goal
  BY <1>3, <1>s DEF Check, CheckWith
<1>4. ASSUME NEW d \in Clients, Insert(d) \/ Fail(d) \/ ReadBefore(d) \/ Query(d) \/ Answer(d)
      PROVE  Goal
  BY <1>4, <1>s DEF Insert, Fail, ReadBefore, Query, Answer
<1>5. ASSUME NEW d \in Clients, NEW x, NEW op, NEW id,
             Stamp(d, id) \/ Receive(d, op, x, id) \/ ReadFails(d) \/ PublishStored(d)
      PROVE  Goal
  BY <1>5, <1>s DEF Stamp, Receive, ReadFails, PublishStored, Publish
<1>6. ASSUME NEW d \in Clients, Subscribe(d) PROVE Goal
  <2>1. request[d].ch \in Channels
    BY <1>6 DEF Subscribe, Work, Busy, Request
  <2>2. CASE d = c
    BY <1>6, <2>1, <2>2 DEF Subscribe, Join, Subscribes
  <2>3. CASE d # c
    BY <1>6, <2>1, <2>3 DEF Subscribe, Join, Subscribes
  <2> QED
    BY <2>2, <2>3
<1>7. ASSUME NEW d \in Clients, NEW x \in Channels, Unsubscribe(d, x) PROVE Goal
  BY <1>7 DEF Unsubscribe, Leave
<1>8. ASSUME NEW d \in Clients, Forget(d) PROVE Goal
  BY <1>8 DEF Forget, Depart
<1>9. CASE UNCHANGED vars
  BY <1>9, <1>s DEF vars
<1> QED
  BY <1>1, <1>2, <1>3, <1>4, <1>5, <1>6, <1>7, <1>8, <1>9 DEF ChatNext, Handle

-----------------------------------------------------------------------------
(* The invariant is kept.                                                  *)

\* What a handler that nothing overtakes goes on with.
LEMMA NotOvertaken ==
  ASSUME Record, NEW c \in Clients, reader[c] \in Handling, reader'[c] \in Handling,
         c \notin overtaken'
  PROVE  c \notin overtaken /\ ~Overtakes(c)
BY DEF Record

LEMMA RowsNext ==
  ASSUME IInv, AccessInv, [ChatNext]_vars, Record
  PROVE  RowsAreCurrent'
<1> SUFFICES ASSUME NEW c \in Clients, reader'[c] = "check", c \notin overtaken'
             PROVE  row'[c] # None /\ row'[c] = rows'[request'[c].ch]
  BY DEF RowsAreCurrent
<1>1. Receives(c) \/ Check(c) \/ Keeps(c)
  BY RequestLine DEF IInv, Handling
<1>2. CASE Receives(c)
  BY <1>2 DEF Receives, dbVars
<1>3. CASE Check(c)
  <2>1. reader[c] = "check" /\ reader \in [Clients -> ReaderStates] /\ request[c] \in Request
    BY <1>3 DEF Check, CheckWith, IInv, RestOK, Work, Busy
  <2>2. reader'[c] # "check"
    BY <1>3, <2>1 DEF Check, CheckWith, Granted, Goto, Return, Request
  <2> QED
    BY <2>2
<1>4. CASE Keeps(c)
  <2>1. reader[c] = "check"
    BY <1>4 DEF Keeps
  <2>2. c \notin overtaken /\ ~Overtakes(c)
    BY <2>1, NotOvertaken DEF Handling
  <2>3. ~ListsChange(request[c].ch)
    BY <2>2 DEF Overtakes
  <2> QED
    BY <1>4, <2>1, <2>2, <2>3 DEF Keeps, AccessInv, RowsAreCurrent, ListsChange
<1> QED
  BY <1>1, <1>2, <1>3, <1>4

LEMMA ActorsNext ==
  ASSUME IInv, AccessInv, [ChatNext]_vars, Record
  PROVE  ActorsMayAct'
<1> SUFFICES ASSUME NEW c \in Clients, reader'[c] \in Acting, c \notin overtaken'
             PROVE  MayUse(c, request[c].ch)'
  BY DEF ActorsMayAct
<1>1. Receives(c) \/ Check(c) \/ Keeps(c)
  BY RequestLine DEF IInv, Handling
<1>2. ~Receives(c)
  BY DEF Receives, Acting
<1>3. CASE Check(c)
  <2>1. reader[c] = "check" /\ reader'[c] # "check" /\ DOMAIN reader = Clients
    BY <1>3 DEF Check, CheckWith, Acting, IInv, RestOK
  <2>2. c \notin overtaken /\ ~Overtakes(c)
    BY <2>1, NotOvertaken DEF Handling
  <2>3. CheckWith(c, GroupsOf(c))
    BY <2>1, <2>2 DEF Overtakes, ChecksWithoutGroups
  <2>4. CanAccess(c, GroupsOf(c), row[c]) /\ request'[c] = request[c]
    BY <2>1, <2>3 DEF CheckWith, Return, Goto, Acting, workVars
  <2>5. row[c] # None /\ row[c] = rows[request[c].ch]
    BY <2>1, <2>2 DEF AccessInv, RowsAreCurrent
  <2>6. MayUse(c, request[c].ch)
    BY <2>4, <2>5 DEF MayUse
  <2>7. ~ListsChange(request[c].ch) /\ ~GroupsChange(c)
    BY <1>3, RightsAreAdministered DEF Check, CheckWith
  <2>8. MayUse(c, request[c].ch)' <=> rows'[request[c].ch] # None /\ CanAccess(c, GroupsOf(c)', rows'[request[c].ch])
    BY <2>4 DEF MayUse
  <2> QED
    BY <2>6, <2>7, <2>8 DEF MayUse, ListsChange, GroupsChange
<1>4. CASE Keeps(c)
  <2>1. reader[c] \in Acting /\ reader[c] # "check" /\ request'[c].ch = request[c].ch
    BY <1>4 DEF Keeps, Handling, Acting
  <2>2. c \notin overtaken /\ ~Overtakes(c)
    BY <2>1, NotOvertaken DEF Handling
  <2>3. MayUse(c, request[c].ch)
    BY <2>1, <2>2 DEF AccessInv, ActorsMayAct
  <2>4. ~ListsChange(request[c].ch) /\ ~GroupsChange(c)
    BY <2>1, <2>2 DEF Overtakes
  <2>5. MayUse(c, request[c].ch)' <=> rows'[request[c].ch] # None /\ CanAccess(c, GroupsOf(c)', rows'[request[c].ch])
    BY <2>1 DEF MayUse
  <2> QED
    BY <2>3, <2>4, <2>5 DEF MayUse, ListsChange, GroupsChange
<1> QED
  BY <1>1, <1>2, <1>3, <1>4

LEMMA SubscribersNext ==
  ASSUME IInv, AccessInv, [ChatNext]_vars, Record
  PROVE  SubscribersMayRead'
<1> SUFFICES ASSUME NEW ch \in Channels, NEW c \in Clients, c \in members'[ch], c \notin stale'[ch]
             PROVE  MayUse(c, ch)'
  <2>1. members' \in [Channels -> SUBSET Clients]
    BY StepsOfTheHub, FeedTypes DEF IInv, TypeOK
  <2> QED
    BY <2>1 DEF SubscribersMayRead
<1>1. ~Outdated(c, ch)
  BY DEF Record
<1>2. CASE Subscribes(c, ch)
  <2>1. c \notin overtaken /\ reader[c] \in Acting /\ request[c].ch = ch
    BY <1>1, <1>2 DEF Outdated, Subscribes, Acting
  <2>2. MayUse(c, ch)
    BY <2>1 DEF AccessInv, ActorsMayAct
  <2>3. Subscribe(c)
    BY <1>2, SubscriptionSteps DEF Subscribes, IInv
  <2>4. ~ListsChange(ch) /\ ~GroupsChange(c)
    BY <2>3, RightsAreAdministered DEF Subscribe
  <2> QED
    BY <2>2, <2>4, RightsStay
<1>3. CASE ~Subscribes(c, ch)
  <2>1. c \notin stale[ch] /\ ~ListsChange(ch) /\ ~GroupsChange(c)
    BY <1>1, <1>3 DEF Outdated
  <2>2. c \in members[ch]
    BY <1>3, SubscriptionSteps DEF IInv
  <2>3. MayUse(c, ch)
    BY <2>1, <2>2 DEF AccessInv, SubscribersMayRead
  <2> QED
    BY <2>1, <2>3, RightsStay
<1> QED
  BY <1>2, <1>3

LEMMA AccessTypesNext ==
  ASSUME IInv, [ChatNext]_vars, Record
  PROVE  HistoryOK'
<1>1. members' \in [Channels -> SUBSET Clients]
  BY StepsOfTheHub, FeedTypes DEF IInv, TypeOK
<1> QED
  BY <1>1 DEF Record, HistoryOK

\* Steps that leave the server alone leave the history alone.
LEMMA AccessStutters ==
  ASSUME AccessInv, UNCHANGED accessVars
  PROVE  AccessInv'
BY DEF accessVars, vars, feedVars, dbVars, readerVars, workVars, AccessInv, HistoryOK,
       RowsAreCurrent, ActorsMayAct, SubscribersMayRead, MayUse, GroupsOf

LEMMA AccessInductive == AccessSpec => ChatSpec /\ []AccessInv
<1>1. AccessInit => AccessInv /\ ChatInit
  BY DEF AccessInit, ChatInit, Init, AccessInv, HistoryOK, RowsAreCurrent, ActorsMayAct,
         SubscribersMayRead, Acting
<1>2. [AccessNext]_accessVars => [ChatNext]_vars
  BY DEF AccessNext, accessVars
<1>3. IInv /\ AccessInv /\ [AccessNext]_accessVars => AccessInv'
  <2>1. ASSUME IInv, AccessInv, ChatNext, Record PROVE AccessInv'
    BY <2>1, AccessTypesNext, RowsNext, ActorsNext, SubscribersNext DEF AccessInv
  <2> QED
    BY <2>1, AccessStutters DEF AccessNext
<1>4. AccessSpec => ChatSpec
  BY <1>1, <1>2, PTL DEF AccessSpec, ChatSpec
<1> QED
  BY <1>1, <1>3, <1>4, Inductive, PTL DEF AccessSpec

-----------------------------------------------------------------------------
\* The server and the history of it keep to their types, with access lists
\* and groups as administrators make them (handlers.go, admin.go).
THEOREM AccessTypes == AccessSpec => []AccessTypeOK
<1>1. AccessInv /\ ChatTypeOK => AccessTypeOK
  BY DEF AccessInv, AccessTypeOK
<1> QED
  BY <1>1, AccessInductive, ServerTypes, PTL

\* No handler acts without the right to, whatever administrators do meanwhile,
\* unless they do it to its channel's lists or its user's groups, or the
\* groups could not be read (handleSubscribe, handleSendMessage,
\* handleGetHistory, canAccessChannel).
THEOREM HandlersActWithRights == AccessSpec => []ActorsMayAct
<1>1. AccessInv => ActorsMayAct
  BY DEF AccessInv
<1> QED
  BY <1>1, AccessInductive, PTL

\* Subscribers may read what they are told, unless rights have changed since
\* they subscribed (handleSubscribe; nothing takes a subscription back).
THEOREM SubscribersKeepRights == AccessSpec => []SubscribersMayRead
<1>1. AccessInv => SubscribersMayRead
  BY DEF AccessInv
<1> QED
  BY <1>1, AccessInductive, PTL
=============================================================================
