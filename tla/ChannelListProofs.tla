-------------------------- MODULE ChannelListProofs --------------------------
(***************************************************************************)
(* Proofs about ChannelList, for any number of connections, requests,      *)
(* categories, channels and groups: the types, and that a connection to    *)
(* which no list is under way has the channels as they are.                *)
(***************************************************************************)
EXTENDS ChannelList, TLAPS

-----------------------------------------------------------------------------
\* Listers hold something only while they make a list, and a greeter lists
\* for its own connection.
ListersInOrder ==
  /\ \A l \in Listers :
       /\ at[l] = "listing" => target[l] \in Clients
       /\ at[l] # "listing" =>
            target[l] = None /\ left[l] = {} /\ found[l] = {} /\ draft[l] = EmptyList
       /\ at[l] \notin {"greet", "next", "listing"} => todo[l] = {}
       /\ \A c \in Clients : c \in todo[l] \/ target[l] = c => conn[c] # "new"
  /\ \A c \in Clients :
       /\ todo[c] \subseteq {c}
       /\ target[c] \in {c, None}
       /\ at[c] = "listing" => todo[c] = {}
       /\ at[c] # "clients"
       /\ conn[c] = "new" => at[c] = "idle"

\* The categories as they are.
Named == {[cat |-> k, name |-> cats[k]] : k \in {j \in Categories : cats[j] # None}}

\* The rows as they are, of the categories K.
Rows(K) == {[ch |-> ch, row |-> rows[ch]] :
              ch \in {x \in Channels : rows[x] # None /\ \E k \in K : k.cat = rows[x].cat}}

\* What a lister has read is still so, and its list has what it is done with.
DraftIsCurrent(l) ==
  /\ left[l] \subseteq Named
  /\ draft[l].cats = Named \ left[l]
  /\ found[l] \subseteq Rows(draft[l].cats)
  /\ draft[l].chs = {f \in Rows(draft[l].cats) \ found[l] :
                       CanAccess(target[l], GroupsOf(target[l]), f.row.lists)}

DraftsAreCurrent ==
  \A l \in Listers :
    at[l] = "listing" /\ missed[target[l]] = "nothing" => DraftIsCurrent(l)

\* The lists of those no administrator's request owes one.  A connection the
\* hub has not added yet is owed none.
Owed(c) == \E a \in Admins : at[a] = "clients" \/ c \in todo[a] \/ target[a] = c

Reached(c) == conn[c] = "adding" \/ (conn[c] = "listed" /\ ~Owed(c))

ToldAreCurrent ==
  up => \A c \in Clients :
    at[c] = "done" /\ missed[c] = "nothing" /\ Reached(c) => told[c] = View(c)

IInv == TypeOK /\ ListersInOrder /\ DraftsAreCurrent /\ ToldAreCurrent

-----------------------------------------------------------------------------
(* The types.                                                              *)

LEMMA TypeInit == Init => TypeOK
BY BoundAssumption, NoneAssumption, ListsAssumption
   DEF Init, TypeOK, Listers, List, EmptyList, Row

LEMMA TypeNext == TypeOK /\ [Next]_vars => TypeOK'
<1> SUFFICES ASSUME TypeOK, [Next]_vars PROVE TypeOK'
  OBVIOUS
<1> USE BoundAssumption, NoneAssumption, ListsAssumption, ActorsAssumption
<1> USE DEF TypeOK, Listers, List, EmptyList, NamedCategory, FoundChannel
<1>1. ASSUME NEW c \in Clients, Register(c) PROVE TypeOK'
  BY <1>1 DEF Register, dbVars, workVars
<1>2. ASSUME NEW c \in Clients, Add(c) PROVE TypeOK'
  BY <1>2 DEF Add, dbVars, listerVars, workVars
<1>3. ASSUME NEW c \in Clients, Remove(c) PROVE TypeOK'
  BY <1>3 DEF Remove, dbVars, listerVars, workVars
<1>4. ASSUME NEW c \in Clients, Greet(c) PROVE TypeOK'
  <2>1. CASE UNCHANGED <<listerVars, missed>> /\ up' = FALSE
    <3>1. UNCHANGED <<dbVars, conn, told>>
      BY <1>4 DEF Greet
    <3> QED
      BY <2>1, <3>1 DEF dbVars, listerVars, workVars
  <2>2. CASE at' = [at EXCEPT ![c] = "next"] /\ UNCHANGED <<todo, target, workVars, missed, up>>
    <3>1. UNCHANGED <<dbVars, conn, told>>
      BY <1>4 DEF Greet
    <3> QED
      BY <2>2, <3>1 DEF dbVars, workVars
  <2>3. CASE /\ at' = [at EXCEPT ![c] = "done"]
             /\ todo' = [todo EXCEPT ![c] = {}]
             /\ Miss({c}, "other")
             /\ UNCHANGED <<target, workVars, up>>
    <3>1. UNCHANGED <<dbVars, conn, told>>
      BY <1>4 DEF Greet
    <3> QED
      BY <2>3, <3>1 DEF Miss, dbVars, workVars
  <2> QED
    BY <1>4, <2>1, <2>2, <2>3 DEF Greet, Panic
<1>5. ASSUME NEW l \in Listers, NEW c \in Clients, GetCategories(l, c) PROVE TypeOK'
  <2>1. {[cat |-> k, name |-> cats[k]] : k \in {j \in Categories : cats[j] # None}}
          \in SUBSET NamedCategory
    OBVIOUS
  <2> QED
    BY <1>5, <2>1 DEF GetCategories, dbVars
<1>6. ASSUME NEW l \in Listers, NEW c \in Clients, GetCategoriesFails(l, c) PROVE TypeOK'
  BY <1>6 DEF GetCategoriesFails, Onward, Miss, dbVars, workVars
<1>7. ASSUME NEW l \in Listers, NEW k \in left[l], GetChannels(l, k) PROVE TypeOK'
  <2>1. {[ch |-> ch, row |-> rows[ch]] :
           ch \in {x \in Channels : rows[x] # None /\ rows[x].cat = k.cat}}
          \in SUBSET FoundChannel
    OBVIOUS
  <2>2. k \in NamedCategory
    BY <1>7
  <2>3. UNCHANGED <<dbVars, conn, at, todo, target, told, up>>
    BY <1>7 DEF GetChannels
  <2>4. left' \in [Listers -> SUBSET NamedCategory]
    BY <1>7, <2>2 DEF GetChannels
  <2>5. found' \in [Listers -> SUBSET FoundChannel]
    BY <1>7, <2>1 DEF GetChannels
  <2>6. draft' \in [Listers -> List]
    <3>1. [cats |-> draft[l].cats \cup {k}, chs |-> draft[l].chs] \in List
      BY <2>2
    <3>2. \/ draft' = draft
          \/ draft' = [draft EXCEPT ![l] = [cats |-> @.cats \cup {k}, chs |-> @.chs]]
      BY <1>7 DEF GetChannels
    <3> HIDE DEF List
    <3> QED
      BY <3>1, <3>2
  <2>7. missed' \in [Clients -> {"nothing", "cut_short", "other"}]
    BY <1>7 DEF GetChannels, Miss
  <2> QED
    BY <2>3, <2>4, <2>5, <2>6, <2>7 DEF dbVars
<1>8. ASSUME NEW l \in Listers, NEW f \in found[l], Filter(l, f) PROVE TypeOK'
  <2>1. f \in FoundChannel
    BY <1>8
  <2>2. draft[l].cats \in SUBSET NamedCategory /\ draft[l].chs \in SUBSET FoundChannel
    OBVIOUS
  <2>3. missed' \in [Clients -> {"nothing", "cut_short", "other"}]
    BY <1>8 DEF Filter, Miss
  <2>4. draft' \in [Listers -> List]
    <3>1. PICK more \in SUBSET FoundChannel :
            draft' = [draft EXCEPT ![l] = [cats |-> @.cats, chs |-> more]]
      BY <1>8, <2>1, <2>2 DEF Filter
    <3> QED
      BY <2>2, <3>1
  <2> QED
    BY <1>8, <2>3, <2>4 DEF Filter, dbVars
<1>9. ASSUME NEW l \in Listers, Send(l) PROVE TypeOK'
  <2>1. UNCHANGED <<dbVars, conn>>
    BY <1>9 DEF Send
  <2>2. CASE UNCHANGED <<listerVars, missed, told>> /\ up' = FALSE
    BY <2>1, <2>2 DEF dbVars, listerVars, workVars
  <2>3. CASE /\ at' = [at EXCEPT ![l] = "idle"]
             /\ todo' = [todo EXCEPT ![l] = {}]
             /\ target' = [target EXCEPT ![l] = None]
             /\ draft' = [draft EXCEPT ![l] = EmptyList]
             /\ Miss(todo[l], "cut_short")
             /\ UNCHANGED <<left, found, up, told>>
    BY <2>1, <2>3 DEF Miss, dbVars
  <2>4. CASE /\ told' = [told EXCEPT ![target[l]] = draft[l]] /\ UNCHANGED missed
             /\ Onward(l, todo[l])
             /\ target' = [target EXCEPT ![l] = None]
             /\ draft' = [draft EXCEPT ![l] = EmptyList]
             /\ UNCHANGED <<todo, left, found, up>>
    BY <2>1, <2>4 DEF Onward, dbVars
  <2>5. CASE /\ Miss({target[l]}, "other") /\ UNCHANGED told
             /\ Onward(l, todo[l])
             /\ target' = [target EXCEPT ![l] = None]
             /\ draft' = [draft EXCEPT ![l] = EmptyList]
             /\ UNCHANGED <<todo, left, found, up>>
    BY <2>1, <2>5 DEF Miss, Onward, dbVars
  <2> QED
    BY <1>9, <2>2, <2>3, <2>4, <2>5 DEF Send, Panic
<1>10. ASSUME NEW a \in Admins, GetClients(a) PROVE TypeOK'
  BY <1>10 DEF GetClients, Onward, dbVars, workVars
<1>11. ASSUME NEW a \in Admins, Administrate(a) PROVE TypeOK'
  <2> USE DEF Row
  <2>1. ASSUME Change(a),
               cats' \in [Categories -> Names \cup {None}],
               rows' \in [Channels -> Row \cup {None}],
               \A ch \in Channels : rows'[ch] # None => cats'[rows'[ch].cat] # None,
               used' \in SUBSET (Categories \cup Channels)
        PROVE  TypeOK'
    BY <2>1 DEF Change, workVars
  <2>2. ASSUME NEW k \in Categories, NEW name \in Names, CreateCategory(a, k, name)
        PROVE  TypeOK'
    BY <2>1, <2>2 DEF CreateCategory
  <2>3. ASSUME NEW k \in Categories, NEW name \in Names, UpdateCategory(a, k, name)
        PROVE  TypeOK'
    BY <2>1, <2>3 DEF UpdateCategory
  <2>4. ASSUME NEW k \in Categories, DeleteCategory(a, k) PROVE TypeOK'
    BY <2>1, <2>4 DEF DeleteCategory
  <2>5. ASSUME NEW ch \in Channels, NEW k \in Categories, CreateChannel(a, ch, k)
        PROVE  TypeOK'
    BY <2>1, <2>5 DEF CreateChannel
  <2>6. ASSUME NEW ch \in Channels, NEW row \in Row, UpdateChannel(a, ch, row)
        PROVE  TypeOK'
    BY <2>1, <2>6 DEF UpdateChannel
  <2>7. ASSUME NEW ch \in Channels, DeleteChannel(a, ch) PROVE TypeOK'
    BY <2>1, <2>7 DEF DeleteChannel
  <2> QED
    BY <1>11, <2>2, <2>3, <2>4, <2>5, <2>6, <2>7 DEF Administrate
<1>13. ASSUME NEW g \in Groups, NEW S \in SUBSET Clients, ChangeGroup(g, S) PROVE TypeOK'
  BY <1>13 DEF ChangeGroup, Miss, listerVars, workVars
<1>14. CASE UNCHANGED vars
  BY <1>14 DEF vars, dbVars, listerVars, workVars
<1> QED
  BY <1>1, <1>2, <1>3, <1>4, <1>5, <1>6, <1>7, <1>8, <1>9, <1>10, <1>11, <1>13, <1>14
     DEF Next, MakeLists

-----------------------------------------------------------------------------
(* Listers in order.                                                       *)

LEMMA OrderInit == Init => ListersInOrder
BY ActorsAssumption, NoneAssumption DEF Init, ListersInOrder, Listers

LEMMA OrderNext == TypeOK /\ ListersInOrder /\ [Next]_vars => ListersInOrder'
<1> SUFFICES ASSUME TypeOK, ListersInOrder, [Next]_vars PROVE ListersInOrder'
  OBVIOUS
<1> USE NoneAssumption, ActorsAssumption DEF Listers
<1> DEFINE Types == /\ conn \in [Clients -> {"new", "adding", "listed", "closed"}]
                    /\ at \in [Listers -> {"idle", "clients", "greet", "next", "listing", "done"}]
                    /\ todo \in [Listers -> SUBSET Clients]
                    /\ target \in [Listers -> Clients \cup {None}]
                    /\ DOMAIN left = Listers
                    /\ DOMAIN found = Listers
                    /\ DOMAIN draft = Listers
<1>0. Types
  BY DEF TypeOK
<1> USE <1>0 DEF ListersInOrder
<1>1. ASSUME NEW c \in Clients, Register(c) PROVE ListersInOrder'
  BY <1>1 DEF Register, workVars
<1>2. ASSUME NEW c \in Clients, Add(c) PROVE ListersInOrder'
  BY <1>2 DEF Add, listerVars, workVars
<1>3. ASSUME NEW c \in Clients, Remove(c) PROVE ListersInOrder'
  BY <1>3 DEF Remove, listerVars, workVars
<1>4. ASSUME NEW c \in Clients, Greet(c) PROVE ListersInOrder'
  BY <1>4 DEF Greet, Panic, listerVars, workVars
<1>5. ASSUME NEW l \in Listers, NEW c \in Clients, GetCategories(l, c) PROVE ListersInOrder'
  BY <1>5 DEF GetCategories
<1>6. ASSUME NEW l \in Listers, NEW c \in Clients, GetCategoriesFails(l, c)
      PROVE  ListersInOrder'
  BY <1>6 DEF GetCategoriesFails, Onward, workVars
<1>7. ASSUME NEW l \in Listers, NEW k \in left[l], GetChannels(l, k) PROVE ListersInOrder'
  <2>1. at[l] = "listing"
    OBVIOUS
  <2>2. \A m \in Listers \ {l} : left'[m] = left[m] /\ found'[m] = found[m] /\ draft'[m] = draft[m]
    BY <1>7 DEF GetChannels
  <2> QED
    BY <1>7, <2>1, <2>2 DEF GetChannels
<1>8. ASSUME NEW l \in Listers, NEW f \in found[l], Filter(l, f) PROVE ListersInOrder'
  <2>1. at[l] = "listing"
    OBVIOUS
  <2>2. \A m \in Listers \ {l} : left'[m] = left[m] /\ found'[m] = found[m] /\ draft'[m] = draft[m]
    BY <1>8 DEF Filter
  <2> QED
    BY <1>8, <2>1, <2>2 DEF Filter
<1>9. ASSUME NEW l \in Listers, Send(l) PROVE ListersInOrder'
  BY <1>9 DEF Send, Panic, Onward, listerVars, workVars
<1>10. ASSUME NEW a \in Admins, GetClients(a) PROVE ListersInOrder'
  BY <1>10 DEF GetClients, Onward, workVars
<1>11. ASSUME NEW a \in Admins, Administrate(a) PROVE ListersInOrder'
  <2>1. Change(a)
    BY <1>11 DEF Administrate, CreateCategory, UpdateCategory, DeleteCategory,
         CreateChannel, UpdateChannel, DeleteChannel
  <2> QED
    BY <2>1 DEF Change, workVars
<1>12. ASSUME NEW g \in Groups, NEW S \in SUBSET Clients, ChangeGroup(g, S)
       PROVE  ListersInOrder'
  BY <1>12 DEF ChangeGroup, listerVars, workVars
<1>13. CASE UNCHANGED vars
  BY <1>13 DEF vars, listerVars, workVars
<1> QED
  BY <1>1, <1>2, <1>3, <1>4, <1>5, <1>6, <1>7, <1>8, <1>9, <1>10, <1>11, <1>12, <1>13
     DEF Next, MakeLists

-----------------------------------------------------------------------------
(* The drafts.                                                             *)

\* Only changes by administrators make up for what was missed.
Misses == \A c \in Clients : missed'[c] = "nothing" => missed[c] = "nothing"

LEMMA MissMisses ==
  ASSUME NEW S, NEW why \in {"cut_short", "other"}, Miss(S, why)
  PROVE  Misses /\ \A c \in Clients \cap S : missed'[c] # "nothing"
BY DEF Miss, Misses

LEMMA DraftFrame ==
  ASSUME NEW l \in Listers, UNCHANGED dbVars, DraftIsCurrent(l),
         left'[l] = left[l], found'[l] = found[l], draft'[l] = draft[l], target'[l] = target[l]
  PROVE  DraftIsCurrent(l)'
<1>1. UNCHANGED <<cats, rows, groups>>
  BY DEF dbVars
<1>2. Named' = Named
  BY <1>1 DEF Named
<1>3. Rows(draft[l].cats)' = Rows(draft[l].cats)
  BY <1>1 DEF Rows
<1>4. GroupsOf(target[l])' = GroupsOf(target[l])
  BY <1>1 DEF GroupsOf
<1> QED
  BY <1>2, <1>3, <1>4 DEF DraftIsCurrent

LEMMA DraftsInit == Init => DraftsAreCurrent
BY DEF Init, DraftsAreCurrent

\* The three steps that read what a list is made of.
LEMMA BeginDraft ==
  ASSUME TypeOK, ListersInOrder, NEW l \in Listers, NEW c \in Clients, GetCategories(l, c)
  PROVE  DraftIsCurrent(l)'
<1>1. /\ left'[l] = Named
      /\ draft'[l] = EmptyList
      /\ found'[l] = {}
      /\ UNCHANGED cats
  BY DEF TypeOK, ListersInOrder, GetCategories, Named, dbVars
<1>2. Named' = Named
  BY <1>1 DEF Named
<1>3. Rows({})' = {}
  BY DEF Rows
<1> QED
  BY <1>1, <1>2, <1>3 DEF DraftIsCurrent, EmptyList

LEMMA ExtendDraft ==
  ASSUME TypeOK, NEW l \in Listers, NEW k \in left[l], GetChannels(l, k),
         DraftIsCurrent(l), Misses, missed'[target[l]] = "nothing", target[l] \in Clients
  PROVE  DraftIsCurrent(l)'
<1> DEFINE K == draft[l].cats
           Ok(f) == CanAccess(target[l], GroupsOf(target[l]), f.row.lists)
<1>1. /\ left'[l] = left[l] \ {k}
      /\ draft'[l] = [cats |-> K \cup {k}, chs |-> draft[l].chs]
      /\ found'[l] = Rows({k})
      /\ found[l] = {}
      /\ UNCHANGED <<cats, rows, groups, target>>
  <2>1. CASE Miss({target[l]}, "other")
    BY <2>1, MissMisses
  <2>2. CASE ~Miss({target[l]}, "other")
    <3>1. Rows({k}) = {[ch |-> ch, row |-> rows[ch]] :
                         ch \in {x \in Channels : rows[x] # None /\ rows[x].cat = k.cat}}
      BY DEF Rows
    <3> QED
      BY <2>2, <3>1 DEF TypeOK, GetChannels, dbVars
  <2> QED
    BY <2>1, <2>2
<1>2. Named' = Named /\ GroupsOf(target[l])' = GroupsOf(target[l])
  BY <1>1 DEF Named, GroupsOf
<1>3. draft'[l].cats = K \cup {k} /\ draft'[l].chs = draft[l].chs
  BY <1>1
<1>4. Rows(draft[l].cats)' = Rows(K) \cup Rows({k})
  BY <1>1, <1>3 DEF Rows
<1>5. Rows(K) \cap Rows({k}) = {}
  <2>1. K = Named \ left[l] /\ k \in Named
    BY DEF DraftIsCurrent
  <2>2. \A j \in K : j.cat # k.cat
    BY <2>1 DEF Named
  <2> QED
    BY <2>2 DEF Rows
<1>6. draft'[l].cats = (Named \ left[l]) \cup {k} /\ k \in Named
  BY <1>3 DEF DraftIsCurrent
<1>7. draft'[l].cats = Named \ left'[l] /\ left'[l] \subseteq Named
  BY <1>1, <1>6 DEF DraftIsCurrent
<1>8. found'[l] \subseteq Rows(draft[l].cats)'
  BY <1>1, <1>4
<1>9. draft'[l].chs = {f \in Rows(draft[l].cats)' \ found'[l] : Ok(f)}
  <2>1. draft[l].chs = {f \in Rows(K) \ found[l] : Ok(f)}
    BY DEF DraftIsCurrent
  <2> HIDE DEF Ok, K
  <2> QED
    BY <1>1, <1>3, <1>4, <1>5, <2>1
<1> QED
  BY <1>1, <1>2, <1>7, <1>8, <1>9 DEF DraftIsCurrent

LEMMA CheckDraft ==
  ASSUME TypeOK, NEW l \in Listers, NEW f \in found[l], Filter(l, f),
         DraftIsCurrent(l), missed'[target[l]] = "nothing", target[l] \in Clients
  PROVE  DraftIsCurrent(l)'
<1> DEFINE K == draft[l].cats
           Ok(g) == CanAccess(target[l], GroupsOf(target[l]), g.row.lists)
<1>1. /\ found'[l] = found[l] \ {f}
      /\ UNCHANGED <<cats, rows, groups, target, left>>
  BY DEF TypeOK, Filter, dbVars
<1>2. draft'[l] = [cats |-> K, chs |-> IF Ok(f) THEN draft[l].chs \cup {f} ELSE draft[l].chs]
  <2>1. PICK userGroups \in SUBSET GroupsOf(target[l]) :
          /\ draft' = [draft EXCEPT ![l] = [cats |-> @.cats,
                         chs |-> IF CanAccess(target[l], userGroups, f.row.lists)
                                   THEN @.chs \cup {f} ELSE @.chs]]
          /\ IF CanAccess(target[l], userGroups, f.row.lists) = Ok(f)
               THEN UNCHANGED missed ELSE Miss({target[l]}, "other")
    BY DEF Filter
  <2>2. CanAccess(target[l], userGroups, f.row.lists) = Ok(f)
    BY <2>1, MissMisses
  <2> QED
    BY <2>1, <2>2 DEF TypeOK
<1>3. Named' = Named /\ GroupsOf(target[l])' = GroupsOf(target[l])
  BY <1>1 DEF Named, GroupsOf
<1>4. draft'[l].cats = K
  BY <1>2
<1>5. Rows(draft[l].cats)' = Rows(K)
  BY <1>1, <1>4 DEF Rows
<1>6. draft'[l].chs = {g \in Rows(K) \ found'[l] : Ok(g)}
  <2>1. draft[l].chs = {g \in Rows(K) \ found[l] : Ok(g)} /\ f \in Rows(K)
    BY DEF DraftIsCurrent
  <2>2. draft'[l].chs = IF Ok(f) THEN draft[l].chs \cup {f} ELSE draft[l].chs
    BY <1>2
  <2> HIDE DEF Ok, K
  <2> QED
    BY <1>1, <2>1, <2>2
<1> QED
  BY <1>1, <1>3, <1>4, <1>5, <1>6 DEF DraftIsCurrent

LEMMA DraftsNext ==
  TypeOK /\ ListersInOrder /\ DraftsAreCurrent /\ [Next]_vars => DraftsAreCurrent'
<1> SUFFICES ASSUME TypeOK, ListersInOrder, DraftsAreCurrent, [Next]_vars,
                    NEW m \in Listers,
                    at'[m] = "listing", missed'[target'[m]] = "nothing"
             PROVE  DraftIsCurrent(m)'
  BY DEF DraftsAreCurrent
<1>a. /\ at \in [Listers -> {"idle", "clients", "greet", "next", "listing", "done"}]
      /\ DOMAIN target = Listers /\ DOMAIN draft = Listers
      /\ DOMAIN left = Listers /\ DOMAIN found = Listers
  BY DEF TypeOK
<1>b. ASSUME UNCHANGED dbVars, Misses, at[m] = "listing",
             left'[m] = left[m], found'[m] = found[m],
             draft'[m] = draft[m], target'[m] = target[m]
      PROVE  DraftIsCurrent(m)'
  <2>1. target[m] \in Clients
    BY <1>b DEF ListersInOrder
  <2>2. DraftIsCurrent(m)
    BY <1>b, <2>1 DEF DraftsAreCurrent, Misses
  <2> QED
    BY <1>b, <2>2, DraftFrame
<1>1. ASSUME NEW c \in Clients, Register(c) PROVE DraftIsCurrent(m)'
  BY <1>1, <1>a, <1>b DEF Register, workVars, Misses
<1>2. ASSUME NEW c \in Clients, Add(c) \/ Remove(c) PROVE DraftIsCurrent(m)'
  BY <1>2, <1>b DEF Add, Remove, listerVars, workVars, Misses
<1>3. ASSUME NEW c \in Clients, Greet(c) PROVE DraftIsCurrent(m)'
  <2>1. CASE UNCHANGED <<listerVars, missed>>
    BY <1>3, <1>b, <2>1 DEF Greet, listerVars, workVars, Misses
  <2>2. CASE at' = [at EXCEPT ![c] = "next"] /\ UNCHANGED <<target, workVars, missed>>
    BY <1>3, <1>a, <1>b, <2>2 DEF Greet, workVars, Misses
  <2>3. CASE at' = [at EXCEPT ![c] = "done"] /\ Miss({c}, "other") /\ UNCHANGED <<target, workVars>>
    BY <1>3, <1>a, <1>b, <2>3, MissMisses DEF Greet, workVars
  <2> QED
    BY <1>3, <2>1, <2>2, <2>3 DEF Greet, Panic
<1>4. ASSUME NEW l \in Listers, NEW c \in Clients, GetCategories(l, c) PROVE DraftIsCurrent(m)'
  <2>1. CASE m = l
    BY <1>4, <2>1, BeginDraft
  <2>2. CASE m # l
    BY <1>4, <1>a, <1>b, <2>2 DEF GetCategories, Misses
  <2> QED
    BY <2>1, <2>2
<1>5. ASSUME NEW l \in Listers, NEW c \in Clients, GetCategoriesFails(l, c)
      PROVE  DraftIsCurrent(m)'
  BY <1>5, <1>a, <1>b, MissMisses DEF GetCategoriesFails, Onward, workVars
<1>6. ASSUME NEW l \in Listers, NEW k \in left[l], GetChannels(l, k) PROVE DraftIsCurrent(m)'
  <2>1. Misses
    BY <1>6, MissMisses DEF GetChannels, Misses
  <2>2. UNCHANGED <<dbVars, at, target>>
    BY <1>6 DEF GetChannels
  <2>3. target[m] \in Clients
    BY <2>2 DEF ListersInOrder
  <2>4. CASE m = l
    <3>1. DraftIsCurrent(m)
      BY <2>1, <2>2, <2>3 DEF DraftsAreCurrent, Misses
    <3> QED
      BY <1>6, <2>1, <2>2, <2>3, <2>4, <3>1, ExtendDraft
  <2>5. CASE m # l
    <3>1. left'[m] = left[m] /\ found'[m] = found[m] /\ draft'[m] = draft[m]
      BY <1>6, <1>a, <2>5 DEF GetChannels
    <3> QED
      BY <1>b, <2>1, <2>2, <3>1
  <2> QED
    BY <2>4, <2>5
<1>7. ASSUME NEW l \in Listers, NEW f \in found[l], Filter(l, f) PROVE DraftIsCurrent(m)'
  <2>1. Misses
    BY <1>7, MissMisses DEF Filter, Misses
  <2>2. UNCHANGED <<dbVars, at, target>>
    BY <1>7 DEF Filter
  <2>3. target[m] \in Clients
    BY <2>2 DEF ListersInOrder
  <2>4. CASE m = l
    <3>1. DraftIsCurrent(m)
      BY <2>1, <2>2, <2>3 DEF DraftsAreCurrent, Misses
    <3> QED
      BY <1>7, <2>2, <2>3, <2>4, <3>1, CheckDraft
  <2>5. CASE m # l
    <3>1. left'[m] = left[m] /\ found'[m] = found[m] /\ draft'[m] = draft[m]
      BY <1>7, <1>a, <2>5 DEF Filter
    <3> QED
      BY <1>b, <2>1, <2>2, <3>1
  <2> QED
    BY <2>4, <2>5
<1>8. ASSUME NEW l \in Listers, Send(l) PROVE DraftIsCurrent(m)'
  <2>1. CASE Panic(l)
    BY <1>8, <1>a, <1>b, <2>1, MissMisses DEF Send, Panic, listerVars, workVars, Misses
  <2>2. CASE ~Panic(l)
    BY <1>8, <1>a, <1>b, <2>2, MissMisses DEF Send, Onward, Misses
  <2> QED
    BY <2>1, <2>2
<1>9. ASSUME NEW a \in Admins, GetClients(a) PROVE DraftIsCurrent(m)'
  BY <1>9, <1>a, <1>b DEF GetClients, Onward, workVars, Misses
<1>10. ASSUME NEW a \in Admins, Administrate(a) PROVE DraftIsCurrent(m)'
  <2>1. Change(a)
    BY <1>10 DEF Administrate, CreateCategory, UpdateCategory, DeleteCategory,
         CreateChannel, UpdateChannel, DeleteChannel
  <2>2. at[m] = "listing" /\ UNCHANGED target
    BY <1>a, <2>1 DEF Change
  <2>3. target[m] \in Clients
    BY <2>2 DEF ListersInOrder
  <2>4. missed'[target[m]] = "other"
    BY <2>1, <2>2, <2>3 DEF Change, Crossed
  <2> QED
    BY <2>2, <2>4
<1>11. ASSUME NEW g \in Groups, NEW S \in SUBSET Clients, ChangeGroup(g, S)
       PROVE  DraftIsCurrent(m)'
  <2>1. at[m] = "listing" /\ UNCHANGED target
    BY <1>11 DEF ChangeGroup, listerVars
  <2>2. target[m] \in Clients /\ conn[target[m]] # "new"
    BY <2>1 DEF ListersInOrder
  <2>3. missed'[target[m]] # "nothing"
    BY <1>11, <2>2, MissMisses DEF ChangeGroup
  <2> QED
    BY <2>1, <2>3
<1>12. CASE UNCHANGED vars
  BY <1>12, <1>b DEF vars, listerVars, workVars, Misses
<1> QED
  BY <1>1, <1>2, <1>3, <1>4, <1>5, <1>6, <1>7, <1>8, <1>9, <1>10, <1>11, <1>12
     DEF Next, MakeLists

-----------------------------------------------------------------------------
(* What connections were told.                                             *)

LEMMA ViewFrame ==
  ASSUME UNCHANGED dbVars, NEW c
  PROVE  View(c)' = View(c)
<1>1. UNCHANGED <<cats, rows>> /\ GroupsOf(c)' = GroupsOf(c)
  BY DEF dbVars, GroupsOf
<1> QED
  BY <1>1 DEF View

\* A list that is complete is what the connection would be sent now.
LEMMA DraftIsView ==
  ASSUME TypeOK, NEW l \in Listers, DraftIsCurrent(l), left[l] = {}, found[l] = {}
  PROVE  draft[l] = View(target[l])
<1> DEFINE Ok(g) == CanAccess(target[l], GroupsOf(target[l]), g.lists)
<1>1. draft[l] = [cats |-> draft[l].cats, chs |-> draft[l].chs]
  BY DEF TypeOK, List
<1>2. draft[l].cats = Named
  BY DEF DraftIsCurrent
<1>3. Rows(Named) = {[ch |-> ch, row |-> rows[ch]] : ch \in {x \in Channels : rows[x] # None}}
  <2>1. \A x \in Channels : rows[x] # None => \E k \in Named : k.cat = rows[x].cat
    <3> SUFFICES ASSUME NEW x \in Channels, rows[x] # None
                 PROVE  \E k \in Named : k.cat = rows[x].cat
      OBVIOUS
    <3>1. rows[x].cat \in Categories /\ cats[rows[x].cat] # None
      BY DEF TypeOK, Row
    <3>2. [cat |-> rows[x].cat, name |-> cats[rows[x].cat]] \in Named
      BY <3>1 DEF Named
    <3> QED
      BY <3>2
  <2> QED
    BY <2>1 DEF Rows
<1>4. draft[l].chs = {f \in Rows(Named) : Ok(f.row)}
  BY <1>2 DEF DraftIsCurrent
<1>5. draft[l].chs = {[ch |-> ch, row |-> rows[ch]] :
                        ch \in {x \in Channels : rows[x] # None /\ Ok(rows[x])}}
  <2> HIDE DEF Ok
  <2> QED
    BY <1>3, <1>4
<1> QED
  BY <1>1, <1>2, <1>5 DEF View, Named

LEMMA ToldInit == Init => ToldAreCurrent
BY ActorsAssumption DEF Init, ToldAreCurrent, Listers, Reached

LEMMA ToldNext ==
  TypeOK /\ ListersInOrder /\ DraftsAreCurrent /\ ToldAreCurrent /\ [Next]_vars => ToldAreCurrent'
<1> SUFFICES ASSUME TypeOK, ListersInOrder, DraftsAreCurrent, ToldAreCurrent, [Next]_vars,
                    up', NEW d \in Clients,
                    at'[d] = "done", missed'[d] = "nothing", Reached(d)'
             PROVE  told'[d] = View(d)'
  BY DEF ToldAreCurrent
<1> USE ActorsAssumption, NoneAssumption DEF Listers
<1>a. /\ at \in [Listers -> {"idle", "clients", "greet", "next", "listing", "done"}]
      /\ conn \in [Clients -> {"new", "adding", "listed", "closed"}]
      /\ todo \in [Listers -> SUBSET Clients]
      /\ DOMAIN target = Listers /\ DOMAIN told = Clients
  BY DEF TypeOK
\* Nothing that matters to d changes.
<1>b. ASSUME UNCHANGED dbVars, up, Misses, at[d] = "done", Reached(d), told'[d] = told[d]
      PROVE  told'[d] = View(d)'
  BY <1>b, ViewFrame DEF ToldAreCurrent, Misses
<1>c. ASSUME UNCHANGED dbVars, up, Misses, at[d] = "done", told'[d] = told[d],
             conn'[d] = conn[d], Owed(d) => Owed(d)'
      PROVE  told'[d] = View(d)'
  BY <1>b, <1>c DEF Reached
<1>1. ASSUME up, NEW c \in Clients, Register(c) PROVE told'[d] = View(d)'
  BY <1>1, <1>a, <1>c DEF Register, workVars, Misses, Owed
<1>2. ASSUME up, NEW c \in Clients, Add(c) PROVE told'[d] = View(d)'
  <2>1. UNCHANGED <<at, target, todo>> /\ UNCHANGED Owed(d)
    BY <1>2 DEF Add, listerVars, Owed
  <2>2. Reached(d)
    BY <1>2, <1>a, <2>1 DEF Add, Reached
  <2> QED
    BY <1>2, <1>b, <2>1, <2>2 DEF Add, Misses
<1>3. ASSUME up, NEW c \in Clients, Remove(c) PROVE told'[d] = View(d)'
  <2>1. UNCHANGED <<at, target, todo>> /\ UNCHANGED Owed(d)
    BY <1>3 DEF Remove, listerVars, Owed
  <2>2. Reached(d)
    BY <1>3, <1>a, <2>1 DEF Remove, Reached
  <2> QED
    BY <1>3, <1>b, <2>1, <2>2 DEF Remove, Misses
<1>4. ASSUME up, NEW c \in Clients, Greet(c) PROVE told'[d] = View(d)'
  <2>1. CASE at' = [at EXCEPT ![c] = "next"] /\ UNCHANGED <<todo, target, workVars, missed>>
    BY <1>4, <1>a, <1>c, <2>1 DEF Greet, Misses, Owed
  <2>2. CASE /\ at' = [at EXCEPT ![c] = "done"]
             /\ todo' = [todo EXCEPT ![c] = {}]
             /\ Miss({c}, "other")
             /\ UNCHANGED <<target, workVars>>
    BY <1>4, <1>a, <1>c, <2>2, MissMisses DEF Greet, Owed
  <2> QED
    BY <1>4, <2>1, <2>2 DEF Greet, Panic
<1>5. ASSUME up, NEW l \in Listers, NEW c \in Clients, GetCategories(l, c)
      PROVE  told'[d] = View(d)'
  <2>1. Owed(d) => Owed(d)'
    <3>1. target[l] = None /\ at[l] = "next"
      BY <1>5 DEF GetCategories, ListersInOrder
    <3>2. d # None
      OBVIOUS
    <3> QED
      BY <1>5, <1>a, <3>1, <3>2 DEF GetCategories, Owed
  <2> QED
    BY <1>5, <1>a, <1>c, <2>1 DEF GetCategories, Misses
<1>6. ASSUME up, NEW l \in Listers, NEW c \in Clients, GetCategoriesFails(l, c)
      PROVE  told'[d] = View(d)'
  <2>1. Misses /\ missed'[c] # "nothing" /\ d # c
    BY <1>6, MissMisses DEF GetCategoriesFails
  <2>2. l # d
    BY <1>6, <2>1 DEF GetCategoriesFails, ListersInOrder
  <2>3. Owed(d) => Owed(d)'
    BY <1>6, <1>a, <2>1 DEF GetCategoriesFails, Onward, Owed
  <2> QED
    BY <1>6, <1>a, <1>c, <2>1, <2>2, <2>3 DEF GetCategoriesFails, Onward
<1>7. ASSUME up, NEW l \in Listers, NEW k \in left[l], GetChannels(l, k)
      PROVE  told'[d] = View(d)'
  <2>1. Misses
    BY <1>7, MissMisses DEF GetChannels, Misses
  <2>2. UNCHANGED <<dbVars, conn, at, todo, target, told>>
    BY <1>7 DEF GetChannels
  <2> QED
    BY <1>7, <1>c, <2>1, <2>2 DEF Owed
<1>8. ASSUME up, NEW l \in Listers, NEW f \in found[l], Filter(l, f)
      PROVE  told'[d] = View(d)'
  <2>1. Misses
    BY <1>8, MissMisses DEF Filter, Misses
  <2>2. UNCHANGED <<dbVars, conn, at, todo, target, told>>
    BY <1>8 DEF Filter
  <2> QED
    BY <1>8, <1>c, <2>1, <2>2 DEF Owed
<1>9. ASSUME up, NEW l \in Listers, Send(l) PROVE told'[d] = View(d)'
  <2> DEFINE c == target[l]
  <2>1. UNCHANGED <<dbVars, conn>> /\ at[l] = "listing" /\ left[l] = {} /\ found[l] = {}
    BY <1>9 DEF Send
  <2>2. c \in Clients
    BY <2>1 DEF ListersInOrder
  <2>3. CASE conn[c] = "closed"
    <3>1. Panic(l) /\ UNCHANGED told
      BY <1>9, <2>3 DEF Send
    <3>2. l \in Admins
      BY <3>1 DEF Panic
    <3>3. Misses /\ d \notin todo[l] /\ at[d] = "done"
      BY <1>a, <3>1, <3>2, MissMisses DEF Panic
    <3>4. d # c
      BY <2>1, <2>3 DEF Reached
    <3>5. Owed(d) => Owed(d)'
      BY <1>a, <2>1, <3>1, <3>2, <3>3, <3>4 DEF Panic, Owed
    <3> QED
      BY <1>9, <1>c, <2>1, <3>1, <3>3, <3>5
  <2>4. CASE conn[c] # "closed"
    <3>1. /\ \/ told' = [told EXCEPT ![c] = draft[l]] /\ UNCHANGED missed
             \/ Miss({c}, "other") /\ UNCHANGED told
          /\ Onward(l, todo[l])
          /\ target' = [target EXCEPT ![l] = None]
          /\ UNCHANGED todo
      BY <1>9, <2>4 DEF Send
    <3>2. Misses
      BY <3>1, MissMisses DEF Misses
    <3>3. CASE d = c
      <4>1. told'[d] = draft[l] /\ missed[c] = "nothing"
        BY <1>a, <3>1, <3>3, MissMisses
      <4>2. DraftIsCurrent(l)
        BY <2>1, <4>1 DEF DraftsAreCurrent
      <4> QED
        BY <2>1, <3>3, <4>1, <4>2, DraftIsView, ViewFrame
    <3>4. CASE d # c
      <4>1. l # d
        BY <2>2, <3>4 DEF ListersInOrder
      <4>2. at[d] = "done" /\ told'[d] = told[d]
        BY <1>a, <3>1, <3>4, <4>1 DEF Onward
      <4>3. Owed(d) => Owed(d)'
        BY <1>a, <2>1, <3>1, <3>4 DEF Onward, Owed
      <4> QED
        BY <1>9, <1>c, <2>1, <3>2, <4>2, <4>3
    <3> QED
      BY <3>3, <3>4
  <2> QED
    BY <2>3, <2>4
<1>10. ASSUME up, NEW a \in Admins, GetClients(a) PROVE told'[d] = View(d)'
  <2>1. UNCHANGED <<dbVars, conn, told, missed>> /\ at[d] = "done"
    BY <1>10, <1>a DEF GetClients, Onward
  <2>2. CASE conn[d] = "listed"
    <3>1. d \in todo'[a]
      BY <1>10, <1>a, <2>2 DEF GetClients
    <3> QED
      BY <2>1, <2>2, <3>1 DEF Reached, Owed
  <2>3. CASE conn[d] # "listed"
    BY <1>10, <1>b, <2>1, <2>3 DEF Reached, Misses
  <2> QED
    BY <2>2, <2>3
<1>11. ASSUME up, NEW a \in Admins, Administrate(a) PROVE told'[d] = View(d)'
  <2>1. Change(a)
    BY <1>11 DEF Administrate, CreateCategory, UpdateCategory, DeleteCategory,
         CreateChannel, UpdateChannel, DeleteChannel
  <2>2. Owed(d)'
    BY <1>a, <2>1 DEF Change, Owed
  <2>3. conn[d] = "adding" /\ at[d] = "done"
    BY <1>a, <2>1, <2>2 DEF Change, Reached
  <2>4. Crossed(d)
    BY <2>3 DEF Crossed, ListersInOrder
  <2> QED
    BY <2>1, <2>4 DEF Change
<1>12. ASSUME up, NEW g \in Groups, NEW S \in SUBSET Clients, ChangeGroup(g, S)
       PROVE  told'[d] = View(d)'
  <2>1. conn[d] # "new"
    BY <1>12 DEF ChangeGroup, Reached
  <2> QED
    BY <1>12, <2>1, MissMisses DEF ChangeGroup
<1>13. CASE UNCHANGED vars
  BY <1>13, <1>c DEF vars, listerVars, Misses, Owed
<1> QED
  BY <1>1, <1>2, <1>3, <1>4, <1>5, <1>6, <1>7, <1>8, <1>9, <1>10, <1>11, <1>12, <1>13
     DEF Next, MakeLists

-----------------------------------------------------------------------------
(* The theorems.                                                           *)

\* The types of ChannelList's variables hold in every reachable state; among
\* them, that a channel's category is there (server/handlers.go lists channels
\* by category, db/server.go deletes them with it).
THEOREM ListTypes == Spec => []TypeOK
<1>1. Init => TypeOK
  BY TypeInit
<1>2. TypeOK /\ [Next]_vars => TypeOK'
  BY TypeNext
<1> QED
  BY <1>1, <1>2, PTL DEF Spec

THEOREM ListInvariant == Spec => []IInv
<1>1. Init => IInv
  BY TypeInit, OrderInit, DraftsInit, ToldInit DEF IInv
<1>2. IInv /\ [Next]_vars => IInv'
  BY TypeNext, OrderNext, DraftsNext, ToldNext DEF IInv
<1> QED
  BY <1>1, <1>2, PTL DEF Spec

\* However many connections and requests there are: when no list is under way
\* to a connection, it was told the channels as they are, unless one of the
\* named exceptions has happened to it since (sendInitialData,
\* BroadcastChannelList, sendChannelList).
THEOREM ListsAreCurrent == Spec => []SettledAreCurrent
<1>1. IInv => SettledAreCurrent
  BY DEF IInv, ToldAreCurrent, SettledAreCurrent, Settled, Reached, Owed
<1> QED
  BY <1>1, ListInvariant, PTL
=============================================================================
