----------------------------- MODULE ChannelList -----------------------------
(***************************************************************************)
(* How connected peers learn of the server's channels.  A connection's     *)
(* greeter sends it a list (server/handlers.go, sendInitialData), and each *)
(* change by an administrator (server/admin.go) is followed by a list for  *)
(* every connection the hub has at that moment (BroadcastChannelList).  A  *)
(* list is put together from several statements (sendChannelList) while    *)
(* other requests go on changing the database.  Changes of groups send no  *)
(* lists.                                                                  *)
(*                                                                         *)
(* Each SQL statement and each critical section of the hub is a step.      *)
(* Administrators' requests and greeters make lists in the same way; a     *)
(* greeter has the name of its connection.  That a greeter, or a request,  *)
(* may find the connection closed under it is here; what it is sent        *)
(* besides lists is in Hub.                                                *)
(***************************************************************************)
EXTENDS Access, Naturals, FiniteSets

CONSTANTS
  Clients,     \* connections, each accepted once; users are told apart by them
  Admins,      \* requests of administrators that may run at once
  Categories,  \* ids of categories
  Names,       \* what a category is shown as: its name and position
  Channels,    \* ids of channels
  Groups,      \* ids of user groups
  Lists,       \* the allow and deny lists administrators give to channels
  MaxChanges,  \* bound: changes made by administrators
  None

ASSUME ActorsAssumption == Clients \cap Admins = {}

ASSUME ListsAssumption ==
  /\ Lists \subseteq [allow : SUBSET (Clients \cup Groups),
                      deny  : SUBSET (Clients \cup Groups)]
  /\ NoLists \in Lists

ASSUME BoundAssumption == MaxChanges \in Nat

Listers == Admins \cup Clients

Row == [cat : Categories, lists : Lists]

ASSUME NoneAssumption == None \notin Row \cup Names \cup Clients

VARIABLES
  cats,     \* table categories: what each is shown as
  rows,     \* table channels
  groups,   \* table group_members
  used,     \* ids there have been
  changes,  \* administrators' changes so far, for the bound
  conn,     \* where each connection is with the hub
  at,       \* where each lister is
  todo,     \* connections it has still to make a list for
  target,   \* the connection it is making a list for
  left,     \* the categories it has still to read
  found,    \* rows it has read and still to check
  draft,    \* the list so far
  told,     \* the list each connection was sent last
  missed,   \* why that one may be out of date
  up        \* the process runs

dbVars     == <<cats, rows, groups, used, changes>>
workVars   == <<left, found, draft>>
listerVars == <<at, todo, target, workVars>>
vars       == <<dbVars, conn, listerVars, told, missed, up>>

-----------------------------------------------------------------------------
NamedCategory == [cat : Categories, name : Names]
FoundChannel  == [ch : Channels, row : Row]
List          == [cats : SUBSET NamedCategory, chs : SUBSET FoundChannel]

EmptyList == [cats |-> {}, chs |-> {}]

TypeOK ==
  /\ cats \in [Categories -> Names \cup {None}]
  /\ rows \in [Channels -> Row \cup {None}]
  /\ \A ch \in Channels : rows[ch] # None => cats[rows[ch].cat] # None
  /\ groups \in [Groups -> SUBSET Clients]
  /\ used \in SUBSET (Categories \cup Channels)
  /\ changes \in 0..MaxChanges
  /\ conn \in [Clients -> {"new", "adding", "listed", "closed"}]
  /\ at \in [Listers -> {"idle", "clients", "greet", "next", "listing", "done"}]
  /\ todo \in [Listers -> SUBSET Clients]
  /\ target \in [Listers -> Clients \cup {None}]
  /\ left \in [Listers -> SUBSET NamedCategory]
  /\ found \in [Listers -> SUBSET FoundChannel]
  /\ draft \in [Listers -> List]
  /\ told \in [Clients -> List \cup {None}]
  /\ missed \in [Clients -> {"nothing", "cut_short", "other"}]
  /\ up \in BOOLEAN

Init ==
  /\ cats \in [Categories -> Names \cup {None}]
  /\ rows \in [Channels -> Row \cup {None}]
  /\ \A ch \in Channels : rows[ch] # None => cats[rows[ch].cat] # None
  /\ groups \in [Groups -> SUBSET Clients]
  /\ used = {k \in Categories : cats[k] # None} \cup {ch \in Channels : rows[ch] # None}
  /\ changes = 0
  /\ conn = [c \in Clients |-> "new"]
  /\ at = [l \in Listers |-> "idle"]
  /\ todo = [l \in Listers |-> {}]
  /\ target = [l \in Listers |-> None]
  /\ left = [l \in Listers |-> {}]
  /\ found = [l \in Listers |-> {}]
  /\ draft = [l \in Listers |-> EmptyList]
  /\ told = [c \in Clients |-> None]
  /\ missed = [c \in Clients |-> "nothing"]
  /\ up = TRUE

-----------------------------------------------------------------------------
(* Connections.  HandleWebSocket hands the client to the hub and starts    *)
(* the greeter; the hub adds the client to its map a little later.         *)

Register(c) ==
  /\ conn[c] = "new"
  /\ \A d \in Clients : conn[d] # "adding"
  /\ conn' = [conn EXCEPT ![c] = "adding"]
  /\ at' = [at EXCEPT ![c] = "greet"]
  /\ todo' = [todo EXCEPT ![c] = {c}]
  /\ UNCHANGED <<dbVars, target, workVars, told, missed, up>>

Add(c) ==
  /\ conn[c] = "adding"
  /\ conn' = [conn EXCEPT ![c] = "listed"]
  /\ UNCHANGED <<dbVars, listerVars, told, missed, up>>

\* The hub removes the client from its map and closes its send channel.
Remove(c) ==
  /\ conn[c] = "listed"
  /\ \A d \in Clients : conn[d] # "adding"
  /\ conn' = [conn EXCEPT ![c] = "closed"]
  /\ UNCHANGED <<dbVars, listerVars, told, missed, up>>

-----------------------------------------------------------------------------
(* Making a list: sendInitialData and sendChannelList.                     *)

\* Where a lister goes that has still to make lists for S.
Onward(l, S) ==
  at' = [at EXCEPT ![l] = IF S # {} THEN "next" ELSE IF l \in Clients THEN "done" ELSE "idle"]

Miss(S, why) ==
  missed' = [c \in Clients |->
               IF c \in S /\ missed[c] # "other" THEN why ELSE missed[c]]

\* Send on a closed channel panics.  A greeter's panic ends the process; that
\* of a request is caught by net/http, and ends the request.
Panic(l) ==
  IF l \in Clients
    THEN up' = FALSE /\ UNCHANGED <<listerVars, missed>>
    ELSE /\ at' = [at EXCEPT ![l] = "idle"]
         /\ todo' = [todo EXCEPT ![l] = {}]
         /\ target' = [target EXCEPT ![l] = None]
         /\ draft' = [draft EXCEPT ![l] = EmptyList]
         /\ Miss(todo[l], "cut_short")
         /\ UNCHANGED <<left, found, up>>

\* auth_ok, unless GetServerInfo fails: then no list is sent either.
Greet(c) ==
  /\ at[c] = "greet"
  /\ \/ /\ conn[c] = "closed"
        /\ Panic(c)
     \/ /\ conn[c] # "closed"
        /\ at' = [at EXCEPT ![c] = "next"]
        /\ UNCHANGED <<todo, target, workVars, missed, up>>
     \/ /\ at' = [at EXCEPT ![c] = "done"]
        /\ todo' = [todo EXCEPT ![c] = {}]
        /\ Miss({c}, "other")
        /\ UNCHANGED <<target, workVars, up>>
  /\ UNCHANGED <<dbVars, conn, told>>

\* GetCategories, for one of the connections that are left.
GetCategories(l, c) ==
  /\ at[l] = "next"
  /\ c \in todo[l]
  /\ todo' = [todo EXCEPT ![l] = @ \ {c}]
  /\ at' = [at EXCEPT ![l] = "listing"]
  /\ target' = [target EXCEPT ![l] = c]
  /\ left' = [left EXCEPT ![l] =
                {[cat |-> k, name |-> cats[k]] : k \in {j \in Categories : cats[j] # None}}]
  /\ UNCHANGED <<dbVars, conn, found, draft, told, missed, up>>

\* When it fails, the connection gets no list.
GetCategoriesFails(l, c) ==
  /\ at[l] = "next"
  /\ c \in todo[l]
  /\ todo' = [todo EXCEPT ![l] = @ \ {c}]
  /\ Onward(l, todo[l] \ {c})
  /\ Miss({c}, "other")
  /\ UNCHANGED <<dbVars, conn, target, workVars, told, up>>

\* GetChannels of the next category.  When it fails, the list goes out
\* without the category.
GetChannels(l, k) ==
  /\ found[l] = {}
  /\ k \in left[l]
  /\ left' = [left EXCEPT ![l] = @ \ {k}]
  /\ \/ /\ found' = [found EXCEPT ![l] =
                       {[ch |-> ch, row |-> rows[ch]] :
                          ch \in {x \in Channels : rows[x] # None /\ rows[x].cat = k.cat}}]
        /\ draft' = [draft EXCEPT ![l] = [cats |-> @.cats \cup {k}, chs |-> @.chs]]
        /\ UNCHANGED missed
     \/ /\ Miss({target[l]}, "other")
        /\ UNCHANGED <<found, draft>>
  /\ UNCHANGED <<dbVars, conn, at, todo, target, told, up>>

GroupsOf(c) == {g \in Groups : c \in groups[g]}

\* canAccessChannel, on a row that was read before and on the groups of now,
\* or on those it got when GetUserGroups failed.
Filter(l, f) ==
  LET c == target[l]
      Passes(userGroups) == CanAccess(c, userGroups, f.row.lists)
  IN  /\ f \in found[l]
      /\ found' = [found EXCEPT ![l] = @ \ {f}]
      /\ \E userGroups \in SUBSET GroupsOf(c) :
           /\ draft' = [draft EXCEPT ![l] = [cats |-> @.cats,
                          chs |-> IF Passes(userGroups) THEN @.chs \cup {f} ELSE @.chs]]
           /\ IF Passes(userGroups) = Passes(GroupsOf(c))
                THEN UNCHANGED missed ELSE Miss({c}, "other")
      /\ UNCHANGED <<dbVars, conn, at, todo, target, left, told, up>>

\* SendEnvelope: dropped when the buffer is full.
Send(l) ==
  LET c == target[l]
  IN  /\ at[l] = "listing"
      /\ left[l] = {} /\ found[l] = {}
      /\ IF conn[c] = "closed"
           THEN Panic(l) /\ UNCHANGED told
           ELSE /\ \/ told' = [told EXCEPT ![c] = draft[l]] /\ UNCHANGED missed
                   \/ Miss({c}, "other") /\ UNCHANGED told
                /\ Onward(l, todo[l])
                /\ target' = [target EXCEPT ![l] = None]
                /\ draft' = [draft EXCEPT ![l] = EmptyList]
                /\ UNCHANGED <<todo, left, found, up>>
      /\ UNCHANGED <<dbVars, conn>>

-----------------------------------------------------------------------------
(* The administrators.  Every request but those about groups ends with     *)
(* BroadcastChannelList, also when its statement matched nothing.          *)

\* (Mutant: only those it had been told a list before.)
GetClientsTold(a) ==
  /\ at[a] = "clients"
  /\ LET listed == {c \in Clients : conn[c] = "listed" /\ told[c] # None}
     IN  Onward(a, listed) /\ todo' = [todo EXCEPT ![a] = listed]
  /\ UNCHANGED <<dbVars, conn, target, workVars, told, missed, up>>

\* GetClients: the connections the hub has now.
GetClients(a) ==
  /\ at[a] = "clients"
  /\ LET listed == {c \in Clients : conn[c] = "listed"}
     IN  Onward(a, listed) /\ todo' = [todo EXCEPT ![a] = listed]
  /\ UNCHANGED <<dbVars, conn, target, workVars, told, missed, up>>

\* A list for c is being put together just now, or c's greeter has begun its
\* own and the hub has not added c yet.
Crossed(c) ==
  \/ \E l \in Listers : target[l] = c
  \/ conn[c] = "adding" /\ todo[c] = {}

\* (Mutant: without BroadcastChannelList.)
ChangeQuietly(a) ==
  /\ at[a] = "idle"
  /\ changes < MaxChanges
  /\ changes' = changes + 1
  /\ missed' = [c \in Clients |-> IF Crossed(c) THEN "other" ELSE "nothing"]
  /\ UNCHANGED <<groups, conn, listerVars, told, up>>

Change(a) ==
  /\ at[a] = "idle"
  /\ changes < MaxChanges
  /\ changes' = changes + 1
  /\ at' = [at EXCEPT ![a] = "clients"]
  /\ missed' = [c \in Clients |-> IF Crossed(c) THEN "other" ELSE "nothing"]
  /\ UNCHANGED <<groups, conn, todo, target, workVars, told, up>>

CreateCategory(a, k, name) ==
  /\ Change(a)
  /\ k \notin used
  /\ cats' = [cats EXCEPT ![k] = name]
  /\ used' = used \cup {k}
  /\ UNCHANGED rows

UpdateCategory(a, k, name) ==
  /\ Change(a)
  /\ cats' = IF cats[k] = None THEN cats ELSE [cats EXCEPT ![k] = name]
  /\ UNCHANGED <<rows, used>>

\* (Mutant: its channels stay.)
DeleteCategoryRow(a, k) ==
  /\ Change(a)
  /\ cats' = [cats EXCEPT ![k] = None]
  /\ UNCHANGED <<rows, used>>

\* Its channels go with it.
DeleteCategory(a, k) ==
  /\ Change(a)
  /\ cats' = [cats EXCEPT ![k] = None]
  /\ rows' = [ch \in Channels |->
                IF rows[ch] # None /\ rows[ch].cat = k THEN None ELSE rows[ch]]
  /\ UNCHANGED used

\* The category must be there.
CreateChannel(a, ch, k) ==
  /\ Change(a)
  /\ ch \notin used
  /\ cats[k] # None
  /\ rows' = [rows EXCEPT ![ch] = [cat |-> k, lists |-> NoLists]]
  /\ used' = used \cup {ch}
  /\ UNCHANGED cats

UpdateChannel(a, ch, row) ==
  /\ Change(a)
  /\ rows[ch] # None => cats[row.cat] # None
  /\ rows' = IF rows[ch] = None THEN rows ELSE [rows EXCEPT ![ch] = row]
  /\ UNCHANGED <<cats, used>>

DeleteChannel(a, ch) ==
  /\ Change(a)
  /\ rows' = [rows EXCEPT ![ch] = None]
  /\ UNCHANGED <<cats, used>>

\* AddGroupMember, RemoveGroupMember and DeleteGroup: nobody is told.
ChangeGroup(g, S) ==
  /\ changes < MaxChanges
  /\ changes' = changes + 1
  /\ groups' = [groups EXCEPT ![g] = S]
  /\ Miss({c \in Clients : conn[c] # "new"}, "other")
  /\ UNCHANGED <<cats, rows, used, conn, listerVars, told, up>>

Administrate(a) ==
  \/ \E k \in Categories :
       \/ \E name \in Names : CreateCategory(a, k, name) \/ UpdateCategory(a, k, name)
       \/ DeleteCategory(a, k)
  \/ \E ch \in Channels :
       \/ \E k \in Categories : CreateChannel(a, ch, k)
       \/ \E row \in Row : UpdateChannel(a, ch, row)
       \/ DeleteChannel(a, ch)

-----------------------------------------------------------------------------
MakeLists(l) ==
  \/ \E c \in Clients : GetCategories(l, c) \/ GetCategoriesFails(l, c)
  \/ \E k \in left[l] : GetChannels(l, k)
  \/ \E f \in found[l] : Filter(l, f)
  \/ Send(l)

Next ==
  /\ up
  /\ \/ \E c \in Clients : Register(c) \/ Add(c) \/ Remove(c) \/ Greet(c)
     \/ \E l \in Listers : MakeLists(l)
     \/ \E a \in Admins : Administrate(a) \/ GetClients(a)
     \/ \E g \in Groups, S \in SUBSET Clients : ChangeGroup(g, S)

Spec == Init /\ [][Next]_vars

\* Requests and greeters that have begun go on, and so does the hub (it may
\* be stuck, see Hub: then nobody is added or removed any more).
Fairness ==
  /\ \A l \in Listers : WF_vars(up /\ MakeLists(l))
  /\ \A c \in Clients : WF_vars(up /\ (Add(c) \/ Greet(c)))
  /\ \A a \in Admins : WF_vars(up /\ GetClients(a))

FairSpec == Spec /\ Fairness

-----------------------------------------------------------------------------
\* The list c would be sent by statements made all at once now.
View(c) ==
  [cats |-> {[cat |-> k, name |-> cats[k]] : k \in {j \in Categories : cats[j] # None}},
   chs  |-> {[ch |-> ch, row |-> rows[ch]] :
               ch \in {x \in Channels : rows[x] # None /\ CanAccess(c, GroupsOf(c), rows[x].lists)}}]

\* Nobody is about to send c a list.
Settled(c) ==
  /\ conn[c] = "listed"
  /\ at[c] = "done"
  /\ \A a \in Admins : at[a] # "clients" /\ c \notin todo[a] /\ target[a] # c

\* Once no list is under way to it, a connection has the channels as they are,
\* however requests, greetings and other connections' ends interleave - unless
\* since the last change that crossed no list for it, groups changed, a list was
\* dropped or a statement failed, or a request broke off on a connection that
\* had gone.  One such change makes up for everything missed before
\* (BroadcastChannelList, handlers.go 126-131).
SettledAreCurrent ==
  up => \A c \in Clients : Settled(c) /\ missed[c] = "nothing" => told[c] = View(c)

\* A connection whose list is out of date is sent another, or one of these
\* happens to it.
ListsCatchUp ==
  \A c \in Clients :
    conn[c] = "listed" /\ told[c] # View(c) ~>
      told[c] = View(c) \/ missed[c] # "nothing" \/ conn[c] = "closed" \/ ~up

=============================================================================
