----------------------------- MODULE ChatAccess -----------------------------
(***************************************************************************)
(* Who may do what on the server (ChatServer), while administrators change *)
(* the channels' lists and the groups.  A handler reads the channel's row, *)
(* then the user's groups, then acts; a subscription lasts until it is     *)
(* given up.  So a request, or a subscription, may outlive the rights it   *)
(* was granted under, and this module says exactly when.                   *)
(*                                                                         *)
(* Two history variables watch the server and change nothing of it.        *)
(***************************************************************************)
EXTENDS ChatServer

VARIABLES
  overtaken,  \* connections whose request a change of rights has overtaken
  stale       \* the subscribers of each channel whose rights have changed since

accessVars == <<vars, overtaken, stale>>

-----------------------------------------------------------------------------
HistoryOK ==
  /\ overtaken \in SUBSET Clients
  /\ stale \in [Channels -> SUBSET Clients]

AccessTypeOK == ChatTypeOK /\ HistoryOK

AccessInit ==
  /\ ChatInit
  /\ overtaken = {}
  /\ stale = [ch \in Channels |-> {}]

\* The channel is there, and its lists let c in.
MayUse(c, ch) == rows[ch] # None /\ CanAccess(c, GroupsOf(c), rows[ch])

ListsChange(ch) == rows'[ch] # rows[ch]
GroupsChange(c) == GroupsOf(c)' # GroupsOf(c)

\* The reader of c leaves its check, and not as all the groups of c have it.
ChecksWithoutGroups(c) ==
  reader[c] = "check" /\ reader'[c] # "check" /\ ~CheckWith(c, GroupsOf(c))

\* The rights of c change under its request: the lists after the row was read,
\* the groups after they were looked up; or the groups could not be looked up.
Overtakes(c) ==
  \/ ListsChange(request[c].ch)
  \/ reader[c] # "check" /\ GroupsChange(c)
  \/ ChecksWithoutGroups(c)

Subscribes(c, ch) ==
  reader[c] = "subscribe" /\ reader'[c] # "subscribe" /\ request[c].ch = ch

\* A subscription is as good as the request it was last made with, until the
\* rights change.
Outdated(c, ch) ==
  IF Subscribes(c, ch) THEN c \in overtaken
                       ELSE c \in stale[ch] \/ ListsChange(ch) \/ GroupsChange(c)

\* The states of a reader whose request has passed its check, and of one that
\* has a request.
Acting   == {"subscribe", "stamp", "insert", "publish", "before", "query", "reply"}
Handling == {"check"} \cup Acting

Record ==
  /\ overtaken' = {c \in Clients : /\ reader[c] \in Handling /\ reader'[c] \in Handling
                                   /\ c \in overtaken \/ Overtakes(c)}
  /\ stale' = [ch \in Channels |-> {c \in members'[ch] : Outdated(c, ch)}]

AccessNext == ChatNext /\ Record

AccessSpec == AccessInit /\ [][AccessNext]_accessVars

AccessFairSpec == AccessSpec /\ ChatFairness

-----------------------------------------------------------------------------
\* A handler that subscribes, stores, broadcasts or reads a page does so for a
\* user that may use the channel at that moment, unless an administrator has
\* changed the channel's lists or the user's groups since the handler read
\* them, or they could not be read (handlers.go 139 and 271-368).
ActorsMayAct ==
  \A c \in Clients :
    reader[c] \in Acting /\ c \notin overtaken => MayUse(c, request[c].ch)

\* Whoever is subscribed to a channel, and so is told its messages, may use
\* it, unless rights have changed since: a subscription outlives the rights it
\* was granted under, and nothing but a change of rights makes it do so
\* (handlers.go 283; HandleChannel and the groups' requests, admin.go 146-356).
SubscribersMayRead ==
  \A ch \in Channels : \A c \in members[ch] \ stale[ch] : MayUse(c, ch)
=============================================================================
