-------------------------- MODULE ChatServerProofs --------------------------
(***************************************************************************)
(* Proofs about ChatServer, for any number of connections, channels,       *)
(* groups, messages, requests and changes.                                 *)
(***************************************************************************)
EXTENDS ChatServer, Integers, FiniteSetTheorems, SequenceTheorems, TLAPS

-----------------------------------------------------------------------------
(* The hub, as Feed has it.                                                *)

\* There is somebody to deliver to only during a delivery, of a message that
\* was taken.
Delivery ==
  /\ ~delivering => todo = {}
  /\ delivering => taken > 0

\* A peer is sent only what the hub has taken.
FromOrder ==
  \A c \in Clients : \A i \in DOMAIN feed[c] : \E a \in 1..taken : order[a] = feed[c][i]

\* What a step of the hub does to the feed of a peer.
Handed(c) ==
  /\ taken > 0
  /\ feed'[c] = Append(feed[c], order[taken])

Shortened(c) ==
  /\ c \in cut'
  /\ feed'[c] \in Seq(MessageEnvelope)
  /\ Len(feed'[c]) <= Len(feed[c])
  /\ \A i \in 1..Len(feed'[c]) : feed'[c][i] = feed[c][i]

LEMMA FeedTypes ==
  ASSUME TypeOK, Delivery, [Next]_feedVars
  PROVE  TypeOK' /\ Delivery'
<1> USE DEF TypeOK, Delivery
<1>1. ASSUME NEW c \in Clients, NEW ch \in Channels, Join(c, ch) \/ Leave(c, ch)
      PROVE  TypeOK' /\ Delivery'
  <2>1. todo' \in SUBSET Clients /\ up' \in BOOLEAN /\ (~delivering => todo' = {})
    BY <1>1 DEF Join, Leave, Meanwhile
  <2>2. members' \in [Channels -> SUBSET Clients]
    BY <1>1 DEF Join, Leave
  <2>3. UNCHANGED <<order, taken, delivering, feed, cut, stuck>>
    BY <1>1 DEF Join, Leave
  <2> QED
    BY <2>1, <2>2, <2>3
<1>2. ASSUME NEW c \in Clients, Depart(c) PROVE TypeOK' /\ Delivery'
  BY <1>2 DEF Depart
<1>3. ASSUME NEW m \in MessageEnvelope, Publish(m) PROVE TypeOK' /\ Delivery'
  BY <1>3 DEF Publish
<1>4. CASE Take
  <2>1. order[taken'].ch \in Channels
    <3>1. order[taken'] \in MessageEnvelope
      BY <1>4 DEF Take
    <3> QED
      BY <3>1 DEF MessageEnvelope
  <2> QED
    BY <1>4, <2>1 DEF Take
<1>5. ASSUME NEW c \in Clients, Deliver(c) PROVE TypeOK' /\ Delivery'
  <2>1. order[taken] \in MessageEnvelope
    BY <1>5 DEF Deliver
  <2> QED
    BY <1>5, <2>1 DEF Deliver
<1>6. CASE Done \/ Stick \/ Halt
  <2>1. CASE Done
    BY <2>1 DEF Done
  <2>2. CASE Stick
    BY <2>2 DEF Stick
  <2>3. CASE Halt
    BY <2>3 DEF Halt
  <2> QED
    BY <1>6, <2>1, <2>2, <2>3
<1>7. ASSUME NEW c \in Clients, Cut(c) PROVE TypeOK' /\ Delivery'
  <2>1. PICK n \in 0..Len(feed[c]) : feed' = [feed EXCEPT ![c] = SubSeq(@, 1, n)]
    BY <1>7 DEF Cut
  <2>2. SubSeq(feed[c], 1, n) \in Seq(MessageEnvelope)
    <3>1. 1 \in Int /\ n \in Int /\ \A i \in 1..n : feed[c][i] \in MessageEnvelope
      OBVIOUS
    <3> QED
      BY <3>1, SubSeqProperties
  <2>3. feed' \in [Clients -> Seq(MessageEnvelope)]
    BY <2>1, <2>2
  <2> QED
    BY <1>7, <2>3 DEF Cut
<1>8. CASE UNCHANGED feedVars
  BY <1>8 DEF feedVars
<1> QED
  BY <1>1, <1>2, <1>3, <1>4, <1>5, <1>6, <1>7, <1>8 DEF Next, HubStep

LEMMA FeedSteps ==
  ASSUME TypeOK, Delivery, [Next]_feedVars, NEW c \in Clients
  PROVE  /\ feed'[c] = feed[c] \/ Handed(c) \/ Shortened(c)
         /\ taken <= taken' /\ Len(order) <= Len(order')
         /\ \A i \in 1..Len(order) : order'[i] = order[i]
<1> DEFINE Goal == /\ feed'[c] = feed[c] \/ Handed(c) \/ Shortened(c)
                   /\ taken <= taken' /\ Len(order) <= Len(order')
                   /\ \A i \in 1..Len(order) : order'[i] = order[i]
<1> SUFFICES Goal
  OBVIOUS
<1>a. /\ order \in Seq(MessageEnvelope) /\ taken \in 0..Len(order)
      /\ feed \in [Clients -> Seq(MessageEnvelope)]
  BY DEF TypeOK
<1>1. ASSUME NEW d \in Clients, NEW ch \in Channels, Join(d, ch) \/ Leave(d, ch) PROVE Goal
  BY <1>a, <1>1 DEF Join, Leave
<1>2. ASSUME NEW d \in Clients, Depart(d) PROVE Goal
  BY <1>a, <1>2 DEF Depart
<1>3. ASSUME NEW m \in MessageEnvelope, Publish(m) PROVE Goal
  BY <1>a, <1>3 DEF Publish
<1>4. CASE Take \/ Done \/ Stick \/ Halt
  BY <1>a, <1>4 DEF Take, Done, Stick, Halt
<1>5. ASSUME NEW d \in Clients, Deliver(d) PROVE Goal
  <2>1. taken > 0
    BY <1>5 DEF Deliver, TypeOK, Delivery
  <2>2. feed'[c] = feed[c] \/ feed'[c] = Append(feed[c], order[taken])
    BY <1>a, <1>5 DEF Deliver
  <2> QED
    BY <1>a, <1>5, <2>1, <2>2 DEF Deliver, Handed
<1>6. ASSUME NEW d \in Clients, Cut(d) PROVE Goal
  <2>1. PICK n \in 0..Len(feed[d]) : feed' = [feed EXCEPT ![d] = SubSeq(@, 1, n)]
    BY <1>6 DEF Cut
  <2>2. CASE c # d
    BY <1>a, <1>6, <2>1, <2>2 DEF Cut
  <2>3. CASE c = d
    <3>1. feed'[c] = SubSeq(feed[c], 1, n)
      BY <1>a, <2>1, <2>3
    <3>2. 1 \in Int /\ n \in Int /\ \A i \in 1..n : feed[c][i] \in MessageEnvelope
      BY <1>a, <2>3
    <3>3. /\ SubSeq(feed[c], 1, n) \in Seq(MessageEnvelope)
          /\ Len(SubSeq(feed[c], 1, n)) = IF 1 <= n THEN n - 1 + 1 ELSE 0
          /\ \A i \in 1..n - 1 + 1 : SubSeq(feed[c], 1, n)[i] = feed[c][1 + i - 1]
      BY <3>2, SubSeqProperties
    <3>4. /\ Len(feed'[c]) = n
          /\ \A i \in 1..n : feed'[c][i] = feed[c][i]
      BY <2>1, <3>1, <3>3
    <3>5. Shortened(c)
      BY <1>a, <1>6, <2>1, <2>3, <3>1, <3>3, <3>4 DEF Cut, Shortened
    <3> QED
      BY <1>a, <1>6, <3>5 DEF Cut
  <2> QED
    BY <2>2, <2>3
<1>7. CASE UNCHANGED feedVars
  BY <1>a, <1>7 DEF feedVars
<1> QED
  BY <1>1, <1>2, <1>3, <1>4, <1>5, <1>6, <1>7 DEF Next, HubStep

LEMMA FromOrderNext ==
  TypeOK /\ Delivery /\ FromOrder /\ [Next]_feedVars => FromOrder'
<1> SUFFICES ASSUME TypeOK, Delivery, FromOrder, [Next]_feedVars,
                    NEW c \in Clients, NEW i \in DOMAIN feed'[c]
             PROVE  \E a \in 1..taken' : order'[a] = feed'[c][i]
  BY DEF FromOrder
<1>a. /\ order \in Seq(MessageEnvelope) /\ taken \in 0..Len(order) /\ taken' \in Nat
      /\ feed[c] \in Seq(MessageEnvelope)
  BY FeedTypes DEF TypeOK
<1>b. taken <= taken' /\ \A a \in 1..Len(order) : order'[a] = order[a]
  BY FeedSteps
<1>1. ASSUME i \in DOMAIN feed[c], feed'[c][i] = feed[c][i]
      PROVE  \E a \in 1..taken' : order'[a] = feed'[c][i]
  <2>1. PICK a \in 1..taken : order[a] = feed[c][i]
    BY <1>1 DEF FromOrder
  <2> QED
    BY <1>a, <1>b, <1>1, <2>1
<1>2. CASE feed'[c] = feed[c]
  BY <1>1, <1>2
<1>3. CASE Handed(c)
  <2>1. CASE i = Len(feed[c]) + 1
    <3>1. taken \in 1..taken' /\ order'[taken] = feed'[c][i]
      BY <1>a, <1>b, <1>3, <2>1 DEF Handed
    <3> QED
      BY <3>1
  <2>2. CASE i # Len(feed[c]) + 1
    BY <1>a, <1>1, <1>3, <2>2 DEF Handed
  <2> QED
    BY <2>1, <2>2
<1>4. CASE Shortened(c)
  BY <1>a, <1>1, <1>4 DEF Shortened
<1> QED
  BY <1>2, <1>3, <1>4, FeedSteps

\* What is on its way to a subscriber who stays arrives, or still is.
Flying(c, m) ==
  \/ \E i \in taken + 1 .. Len(order) : order[i] = m
  \/ delivering /\ order[taken] = m /\ c \in todo

LEMMA Flies ==
  ASSUME TypeOK, Delivery, [Next]_feedVars, NEW c \in Clients, NEW m \in MessageEnvelope,
         c \in members[m.ch], c \in members'[m.ch], c \notin cut', Flying(c, m)
  PROVE  Flying(c, m)' \/ m \in Told(c)'
<1>a. /\ order \in Seq(MessageEnvelope) /\ taken \in 0..Len(order)
      /\ feed \in [Clients -> Seq(MessageEnvelope)]
      /\ members \in [Channels -> SUBSET Clients]
      /\ m.ch \in Channels
  BY DEF TypeOK, MessageEnvelope
<1>1. ASSUME NEW d \in Clients, NEW ch \in Channels, Join(d, ch) PROVE Flying(c, m)'
  BY <1>a, <1>1 DEF Join, Meanwhile, Flying
<1>2. ASSUME NEW d \in Clients, NEW ch \in Channels, Leave(d, ch) PROVE Flying(c, m)'
  <2>1. UNCHANGED <<order, taken, delivering>>
    BY <1>2 DEF Leave
  <2>2. d # c \/ ch # m.ch
    BY <1>a, <1>2 DEF Leave
  <2>3. order[taken] = m /\ c \in todo => c \in todo'
    BY <1>2, <2>2 DEF Leave, Meanwhile
  <2> QED
    BY <2>1, <2>3 DEF Flying
<1>3. ASSUME NEW d \in Clients, Depart(d) PROVE Flying(c, m)'
  BY <1>3 DEF Depart, Flying
<1>4. ASSUME NEW x \in MessageEnvelope, Publish(x) PROVE Flying(c, m)'
  <2>1. /\ \A i \in 1..Len(order) : order'[i] = order[i]
        /\ Len(order') = Len(order) + 1
        /\ UNCHANGED <<taken, delivering, todo>>
    BY <1>a, <1>4 DEF Publish
  <2>2. delivering => taken > 0
    BY DEF Delivery
  <2> QED
    BY <1>a, <2>1, <2>2 DEF Flying
<1>5. CASE Take
  <2>1. PICK i \in taken + 1 .. Len(order) : order[i] = m
    BY <1>5 DEF Flying, Take
  <2>2. /\ taken' = taken + 1 /\ delivering' = TRUE /\ order' = order
        /\ todo' = members[order[taken + 1].ch]
    BY <1>5 DEF Take
  <2>3. CASE i = taken + 1
    BY <1>a, <2>1, <2>2, <2>3 DEF Flying
  <2>4. CASE i # taken + 1
    BY <1>a, <2>1, <2>2, <2>4 DEF Flying
  <2> QED
    BY <2>3, <2>4
<1>6. ASSUME NEW d \in Clients, Deliver(d) PROVE Flying(c, m)' \/ m \in Told(c)'
  <2>1. UNCHANGED <<order, taken, delivering, cut>> /\ todo' = todo \ {d}
    BY <1>6 DEF Deliver
  <2>2. CASE delivering /\ order[taken] = m /\ c = d
    <3>1. feed'[c] = Append(feed[c], m)
      BY <1>a, <1>6, <2>1, <2>2 DEF Deliver
    <3>2. Len(feed[c]) + 1 \in DOMAIN feed'[c] /\ feed'[c][Len(feed[c]) + 1] = m
      BY <1>a, <3>1
    <3> QED
      BY <3>2 DEF Told
  <2>3. CASE ~(delivering /\ order[taken] = m /\ c = d)
    BY <2>1, <2>3 DEF Flying
  <2> QED
    BY <2>2, <2>3
<1>7. CASE Done \/ Stick \/ Halt
  BY <1>7 DEF Done, Stick, Halt, Flying
<1>8. ASSUME NEW d \in Clients, Cut(d) PROVE Flying(c, m)'
  BY <1>8 DEF Cut, Flying
<1>9. CASE UNCHANGED feedVars
  BY <1>9 DEF feedVars, Flying
<1> QED
  BY <1>1, <1>2, <1>3, <1>4, <1>5, <1>6, <1>7, <1>8, <1>9 DEF Next, HubStep

-----------------------------------------------------------------------------
(* The readers.                                                            *)

Busy == {"check", "subscribe", "stamp", "insert", "publish", "before", "query", "reply"}

\* A reader that handles a request has one; one that stores or publishes a
\* message is the one that stamped it.
Work ==
  \A c \in Clients :
    /\ reader[c] \in Busy => request[c] \in Request
    /\ reader[c] \in {"insert", "publish"} =>
         request[c].id \in Messages /\ sender[request[c].id] = c
    /\ reader[c] = "reply" => result[c] \in Page

LEMMA MessageTypes ==
  ASSUME Work, NEW c \in Clients, reader[c] \in {"insert", "publish"}
  PROVE  /\ Message(c) \in MessageEnvelope
         /\ Message(c).id = request[c].id /\ Message(c).ch = request[c].ch
         /\ request[c].ch \in Channels
         /\ request[c].id \in Messages /\ sender[request[c].id] = c
BY DEF Work, Busy, Request, Message, MessageEnvelope

LEMMA StepsOfTheHub ==
  ASSUME Work, [ChatNext]_vars
  PROVE  [Next]_feedVars
<1>1. ASSUME NEW c \in Clients, Subscribe(c) PROVE [Next]_feedVars
  <2>1. request[c].ch \in Channels
    BY <1>1 DEF Subscribe, Work, Busy, Request
  <2> QED
    BY <1>1, <2>1 DEF Subscribe, Next
<1>2. ASSUME NEW c \in Clients, PublishStored(c) PROVE [Next]_feedVars
  <2>1. Message(c) \in MessageEnvelope
    BY <1>2, MessageTypes DEF PublishStored
  <2> QED
    BY <1>2, <2>1 DEF PublishStored, Next
<1>3. ASSUME NEW c \in Clients, NEW ch \in Channels, Unsubscribe(c, ch) PROVE [Next]_feedVars
  BY <1>3 DEF Unsubscribe, Next
<1>4. ASSUME NEW c \in Clients, Forget(c) PROVE [Next]_feedVars
  BY <1>4 DEF Forget, Next
<1>5. CASE HubRuns
  BY <1>5 DEF HubRuns, Next
<1>6. CASE Administrate
  BY <1>6 DEF Administrate, Change, CreateChannel, UpdateChannel, ClearChannelMessages,
              DeleteChannels, AddGroupMember, RemoveGroupMember, CreateGroup, DeleteGroup
<1>7. ASSUME NEW c \in Clients, Check(c) \/ Insert(c) \/ ReadBefore(c) \/ Query(c) \/ Answer(c) \/ Fail(c)
      PROVE  [Next]_feedVars
  BY <1>7 DEF Check, CheckWith, Granted, Insert, ReadBefore, Query, Answer, Fail
<1>8. ASSUME NEW c \in Clients, NEW id \in Messages, Stamp(c, id) PROVE [Next]_feedVars
  BY <1>8 DEF Stamp
<1>9. ASSUME NEW c \in Clients, NEW op, NEW ch, NEW id, Receive(c, op, ch, id) PROVE [Next]_feedVars
  BY <1>9 DEF Receive
<1>10. ASSUME NEW c \in Clients, ReadFails(c) PROVE [Next]_feedVars
  BY <1>10 DEF ReadFails
<1>11. CASE UNCHANGED vars
  BY <1>11 DEF vars
<1> QED
  BY <1>1, <1>2, <1>3, <1>4, <1>5, <1>6, <1>7, <1>8, <1>9, <1>10, <1>11 DEF ChatNext, Handle

\* The types of what is not the hub's.
RestOK ==
  /\ rows \in [Channels -> Lists \cup {None}]
  /\ groups \in [Groups -> (SUBSET Clients) \cup {None}]
  /\ deleted \in SUBSET (Channels \cup Groups)
  /\ stored \in SUBSET MessageEnvelope
  /\ stamp \in [Messages -> Nat]
  /\ sender \in [Messages -> Clients \cup {None}]
  /\ clock \in Times
  /\ earlier \in [Messages -> SUBSET Messages]
  /\ setBack \in SUBSET Messages
  /\ reader \in [Clients -> ReaderStates]
  /\ request \in [Clients -> Request \cup {None}]
  /\ row \in [Clients -> Lists \cup {None}]
  /\ result \in [Clients -> Page \cup {None}]
  /\ shown \in [Clients -> [Channels -> Page \cup {None}]]
  /\ requests \in [Clients -> 0..MaxRequests]
  /\ changes \in 0..MaxChanges

LEMMA AdministrateTypes == RestOK /\ Administrate => RestOK'
<1> SUFFICES ASSUME RestOK, Administrate PROVE RestOK'
  OBVIOUS
<1>g. ASSUME NEW g \in Groups, groups[g] # None PROVE groups[g] \in SUBSET Clients
  <2>1. groups \in [Groups -> (SUBSET Clients) \cup {None}]
    BY DEF RestOK
  <2>2. groups[g] \in (SUBSET Clients) \cup {None}
    BY <2>1
  <2> QED
    BY <1>g, <2>2
<1>h. ASSUME NEW g \in Groups, NEW C \in (SUBSET Clients) \cup {None},
             groups' = [groups EXCEPT ![g] = C]
      PROVE  groups' \in [Groups -> (SUBSET Clients) \cup {None}]
  <2> DEFINE S == (SUBSET Clients) \cup {None}
  <2>1. groups \in [Groups -> S] /\ C \in S
    BY DEF RestOK
  <2> HIDE DEF S
  <2>2. groups' \in [Groups -> S]
    BY <1>h, <2>1
  <2> QED
    BY <2>2 DEF S
<1> USE ListsAssumption, BoundAssumption DEF RestOK, Change, clockVars, readerVars, workVars
<1>1. ASSUME NEW ch \in Channels, CreateChannel(ch) PROVE RestOK'
  BY <1>1 DEF CreateChannel
<1>2. ASSUME NEW ch \in Channels, NEW lists \in Lists, UpdateChannel(ch, lists) PROVE RestOK'
  BY <1>2 DEF UpdateChannel
<1>3. ASSUME NEW ch \in Channels, ClearChannelMessages(ch) PROVE RestOK'
  BY <1>3 DEF ClearChannelMessages
<1>4. ASSUME NEW S \in SUBSET Channels, DeleteChannels(S) PROVE RestOK'
  BY <1>4 DEF DeleteChannels
<1>5. ASSUME NEW g \in Groups, groups[g] # None, NEW C \in SUBSET Clients,
             groups' = [groups EXCEPT ![g] = C],
             Change, UNCHANGED <<rows, deleted, stored>>
      PROVE  RestOK'
  <2>1. groups' \in [Groups -> (SUBSET Clients) \cup {None}]
    BY <1>5, <1>h
  <2> QED
    BY <1>5, <2>1
<1>6. ASSUME NEW g \in Groups, NEW c \in Clients, AddGroupMember(g, c) PROVE RestOK'
  <2>1. groups[g] \in SUBSET Clients
    BY <1>6, <1>g DEF AddGroupMember
  <2> QED
    BY <1>5, <1>6, <2>1 DEF AddGroupMember
<1>7. ASSUME NEW g \in Groups, NEW c \in Clients, RemoveGroupMember(g, c) PROVE RestOK'
  <2>1. groups[g] \in SUBSET Clients
    BY <1>7, <1>g DEF RemoveGroupMember
  <2> QED
    BY <1>5, <1>7, <2>1 DEF RemoveGroupMember
<1>8. ASSUME NEW g \in Groups, CreateGroup(g) PROVE RestOK'
  BY <1>8 DEF CreateGroup
<1>9. ASSUME NEW g \in Groups, DeleteGroup(g) PROVE RestOK'
  <2>1. groups' \in [Groups -> (SUBSET Clients) \cup {None}]
    BY <1>9, <1>h DEF DeleteGroup
  <2>2. deleted' \in SUBSET (Channels \cup Groups)
    BY <1>9 DEF DeleteGroup
  <2> QED
    BY <1>9, <2>1, <2>2 DEF DeleteGroup
<1> QED
  BY <1>1, <1>2, <1>3, <1>4, <1>6, <1>7, <1>8, <1>9 DEF Administrate

\* What the query is answered: what was fetched, or, if that was more than the
\* limit, all of it but an oldest.
Answered(F, limit, P, more) ==
  \/ /\ ~more /\ P = F
     /\ Cardinality(F) <= limit
  \/ /\ more
     /\ Cardinality(F) > limit
     /\ \E m \in F : P = F \ {m} /\ \A p \in F : stamp[m] <= stamp[p]

LEMMA QueryPages ==
  ASSUME RestOK, NEW c \in Clients, Query(c)
  PROVE  \E limit \in Nat \ {0}, F \in SUBSET Messages, P \in SUBSET Messages, more \in BOOLEAN :
           /\ F \in Newest(Eligible(c), limit + 1)
           /\ P \subseteq F /\ F \subseteq Eligible(c)
           /\ Answered(F, limit, P, more)
           /\ result' = [result EXCEPT ![c] = [ids |-> P, more |-> more]]
<1>1. PICK asked \in 0..PageLimit + 1 : \E F \in Fetched(c, Limit(asked)) :
        \/ /\ Cardinality(F) <= Limit(asked)
           /\ result' = [result EXCEPT ![c] = [ids |-> F, more |-> FALSE]]
        \/ /\ Cardinality(F) > Limit(asked)
           /\ \E P \in WithoutOldest(F) :
                result' = [result EXCEPT ![c] = [ids |-> P, more |-> TRUE]]
  BY DEF Query
<1>2. PICK F \in Fetched(c, Limit(asked)) :
        \/ /\ Cardinality(F) <= Limit(asked)
           /\ result' = [result EXCEPT ![c] = [ids |-> F, more |-> FALSE]]
        \/ /\ Cardinality(F) > Limit(asked)
           /\ \E P \in WithoutOldest(F) :
                result' = [result EXCEPT ![c] = [ids |-> P, more |-> TRUE]]
  BY <1>1
<1>3. Limit(asked) \in Nat \ {0}
  BY BoundAssumption DEF Limit
<1>4. Eligible(c) \subseteq Messages
  BY DEF Eligible, RestOK, MessageEnvelope
<1>5. F \in Newest(Eligible(c), Limit(asked) + 1) /\ F \subseteq Eligible(c) /\ F \in SUBSET Messages
  BY <1>4 DEF Fetched, Newest
<1>6. CASE Cardinality(F) <= Limit(asked) /\ result' = [result EXCEPT ![c] = [ids |-> F, more |-> FALSE]]
  <2>1. Answered(F, Limit(asked), F, FALSE)
    BY <1>6 DEF Answered
  <2> QED
    BY <1>3, <1>5, <1>6, <2>1
<1>7. ASSUME Cardinality(F) > Limit(asked), NEW P \in WithoutOldest(F),
             result' = [result EXCEPT ![c] = [ids |-> P, more |-> TRUE]]
      PROVE  \E limit \in Nat \ {0}, G \in SUBSET Messages, Q \in SUBSET Messages, more \in BOOLEAN :
               /\ G \in Newest(Eligible(c), limit + 1)
               /\ Q \subseteq G /\ G \subseteq Eligible(c)
               /\ Answered(G, limit, Q, more)
               /\ result' = [result EXCEPT ![c] = [ids |-> Q, more |-> more]]
  <2>1. Answered(F, Limit(asked), P, TRUE) /\ P \subseteq F
    BY <1>7 DEF Answered, WithoutOldest
  <2>2. P \in SUBSET Messages
    BY <1>5, <2>1
  <2> QED
    BY <1>3, <1>5, <1>7, <2>1, <2>2
<1> QED
  BY <1>2, <1>6, <1>7

LEMMA HandleTypes ==
  ASSUME RestOK, Work, NEW c \in Clients, Handle(c)
  PROVE  RestOK'
<1>a. /\ reader[c] \in Busy => request[c] \in Request
      /\ reader[c] = "reply" => result[c] \in Page
  BY DEF Work
<1> USE DEF RestOK, workVars, boundVars, dbVars, clockVars
<1>b. ASSUME NEW s \in ReaderStates, Goto(c, s) PROVE reader' \in [Clients -> ReaderStates]
  BY <1>b DEF Goto
<1>c. ASSUME Return(c)
      PROVE  /\ reader' \in [Clients -> ReaderStates]
             /\ request' \in [Clients -> Request \cup {None}]
             /\ row' \in [Clients -> Lists \cup {None}]
             /\ result' \in [Clients -> Page \cup {None}]
  BY <1>c DEF Return, Goto, ReaderStates
<1>1. CASE Check(c)
  <2>1. PICK userGroups \in SUBSET GroupsOf(c) :
          IF CanAccess(c, userGroups, row[c])
            THEN /\ Goto(c, CASE request[c].op = "subscribe" -> "subscribe"
                              [] request[c].op = "send"      -> "stamp"
                              [] request[c].op = "history"   ->
                                   IF request[c].id = None THEN "query" ELSE "before")
                 /\ UNCHANGED <<workVars>>
            ELSE Return(c)
    BY <1>1 DEF Check, CheckWith, Granted
  <2>2. CASE Return(c)
    BY <1>1, <1>c, <2>2 DEF Check, CheckWith, Granted
  <2>3. CASE UNCHANGED workVars /\ ~Return(c)
    <3>1. request[c].op \in {"subscribe", "send", "history"}
      BY <1>1, <1>a DEF Check, CheckWith, Granted, Busy, Request
    <3>2. \E s \in ReaderStates : Goto(c, s)
      BY <2>1, <2>3, <3>1 DEF ReaderStates
    <3> QED
      BY <1>1, <1>b, <2>3, <3>2 DEF Check, CheckWith, Granted
  <2> QED
    BY <2>1, <2>2, <2>3
<1>2. CASE Subscribe(c) \/ PublishStored(c) \/ Fail(c)
  BY <1>c, <1>2 DEF Subscribe, PublishStored, Fail
<1>3. ASSUME NEW id \in Messages, Stamp(c, id) PROVE RestOK'
  <2>1. [request[c] EXCEPT !.id = id] \in Request
    BY <1>a, <1>3 DEF Stamp, Busy, Request
  <2>2. request' \in [Clients -> Request \cup {None}]
    BY <1>3, <2>1 DEF Stamp
  <2>3. /\ clock' \in Times /\ stamp' \in [Messages -> Nat]
        /\ earlier' \in [Messages -> SUBSET Messages] /\ setBack' \in SUBSET Messages
    BY <1>3, TimesAssumption DEF Stamp, ReadClock
  <2>4. reader' \in [Clients -> ReaderStates]
    BY <1>3, <1>b DEF Stamp, ReaderStates
  <2>5. sender' \in [Messages -> Clients \cup {None}]
    BY <1>3 DEF Stamp
  <2> QED
    BY <1>3, <2>2, <2>3, <2>4, <2>5 DEF Stamp
<1>4. CASE Insert(c)
  <2>1. Message(c) \in MessageEnvelope
    BY <1>4, MessageTypes DEF Insert
  <2>2. reader' \in [Clients -> ReaderStates]
    BY <1>4, <1>b DEF Insert, ReaderStates
  <2> QED
    BY <1>4, <2>1, <2>2 DEF Insert
<1>5. CASE ReadBefore(c)
  <2>1. reader' \in [Clients -> ReaderStates]
    BY <1>5, <1>b DEF ReadBefore, ReaderStates
  <2> QED
    BY <1>5, <2>1 DEF ReadBefore
<1>6. CASE Query(c)
  <2>1. reader' \in [Clients -> ReaderStates]
    BY <1>6, <1>b DEF Query, ReaderStates
  <2>2. \E P \in SUBSET Messages, more \in BOOLEAN :
          result' = [result EXCEPT ![c] = [ids |-> P, more |-> more]]
    BY <1>6, QueryPages
  <2>3. result' \in [Clients -> Page \cup {None}]
    BY <2>2 DEF Page
  <2> QED
    BY <1>6, <2>1, <2>3 DEF Query
<1>7. CASE Answer(c)
  <2>1. request[c].ch \in Channels /\ result[c] \in Page
    BY <1>a, <1>7 DEF Answer, Busy, Request
  <2>2. shown' = shown \/ shown' = [shown EXCEPT ![c] = [@ EXCEPT ![request[c].ch] = result[c]]]
    BY <1>7 DEF Answer
  <2>3. [shown[c] EXCEPT ![request[c].ch] = result[c]] \in [Channels -> Page \cup {None}]
    BY <2>1
  <2>4. shown' \in [Clients -> [Channels -> Page \cup {None}]]
    BY <2>2, <2>3
  <2> QED
    BY <1>7, <1>c, <2>4 DEF Answer
<1> QED
  BY <1>1, <1>2, <1>3, <1>4, <1>5, <1>6, <1>7 DEF Handle

LEMMA RestNext == RestOK /\ Work /\ [ChatNext]_vars => RestOK'
<1> SUFFICES ASSUME RestOK, Work, [ChatNext]_vars PROVE RestOK'
  OBVIOUS
<1> USE DEF RestOK, workVars, boundVars, readerVars, dbVars, clockVars
<1>1. CASE HubRuns
  BY <1>1 DEF HubRuns
<1>2. CASE Administrate
  BY <1>2, AdministrateTypes
<1>3. ASSUME NEW c \in Clients, Handle(c) PROVE RestOK'
  BY <1>3, HandleTypes
<1>4. ASSUME NEW c \in Clients, NEW ch \in Channels, NEW op \in {"subscribe", "send", "history"},
             NEW id \in Messages \cup {None}, Receive(c, op, ch, id)
      PROVE  RestOK'
  <2>1. [op |-> op, ch |-> ch, id |-> id] \in Request
    BY DEF Request
  <2>2. /\ request' \in [Clients -> Request \cup {None}]
        /\ row' \in [Clients -> Lists \cup {None}]
        /\ requests' \in [Clients -> 0..MaxRequests]
        /\ reader' \in [Clients -> ReaderStates]
    BY <1>4, <2>1, BoundAssumption DEF Receive, Goto, ReaderStates
  <2> QED
    BY <1>4, <2>2 DEF Receive
<1>5. ASSUME NEW c \in Clients, NEW ch \in Channels, Unsubscribe(c, ch) PROVE RestOK'
  BY <1>5, BoundAssumption DEF Unsubscribe
<1>6. ASSUME NEW c \in Clients, ReadFails(c) PROVE RestOK'
  BY <1>6 DEF ReadFails, Goto, ReaderStates
<1>7. ASSUME NEW c \in Clients, Forget(c) PROVE RestOK'
  BY <1>7 DEF Forget, Goto, ReaderStates
<1>8. CASE UNCHANGED vars
  BY <1>8 DEF vars
<1> QED
  BY <1>1, <1>2, <1>3, <1>4, <1>5, <1>6, <1>7, <1>8 DEF ChatNext

LEMMA WorkNext == RestOK /\ Work /\ [ChatNext]_vars => Work'
<1> SUFFICES ASSUME RestOK, Work, [ChatNext]_vars PROVE Work'
  OBVIOUS
<1>a. /\ DOMAIN reader = Clients /\ DOMAIN request = Clients /\ DOMAIN result = Clients
      /\ DOMAIN sender = Messages /\ None \notin Clients
  BY ListsAssumption DEF RestOK
<1> USE DEF Work, Busy, workVars, boundVars, readerVars, dbVars, clockVars, Goto
<1>1. CASE HubRuns
  BY <1>1 DEF HubRuns
<1>2. CASE Administrate
  BY <1>2 DEF Administrate, Change, CreateChannel, UpdateChannel, ClearChannelMessages,
              DeleteChannels, AddGroupMember, RemoveGroupMember, CreateGroup, DeleteGroup
<1>3. ASSUME NEW c \in Clients, Return(c), UNCHANGED sender PROVE Work'
  BY <1>a, <1>3 DEF Return
<1>4. ASSUME NEW c \in Clients, Check(c) PROVE Work'
  <2>1. request[c].op \in {"subscribe", "send", "history"}
    BY <1>4 DEF Check, CheckWith, Granted, Request
  <2>2. CASE Return(c)
    BY <1>3, <1>4, <2>2 DEF Check, CheckWith, Granted
  <2>3. CASE ~Return(c)
    <3>1. UNCHANGED <<request, result, sender>>
      BY <1>4, <2>3 DEF Check, CheckWith, Granted
    <3>2. \E s \in {"subscribe", "stamp", "query", "before"} :
            reader' = [reader EXCEPT ![c] = s]
      BY <1>4, <2>1, <2>3 DEF Check, CheckWith, Granted
    <3> QED
      BY <1>4, <1>a, <3>1, <3>2 DEF Check, CheckWith, Granted
  <2> QED
    BY <2>2, <2>3
<1>5. ASSUME NEW c \in Clients, Subscribe(c) \/ PublishStored(c) \/ Fail(c) \/ Answer(c) PROVE Work'
  BY <1>3, <1>5 DEF Subscribe, PublishStored, Fail, Answer
<1>6. ASSUME NEW c \in Clients, NEW id \in Messages, Stamp(c, id) PROVE Work'
  <2>1. [request[c] EXCEPT !.id = id] \in Request /\ [request[c] EXCEPT !.id = id].id = id
    BY <1>6 DEF Stamp, Request
  <2>2. \A d \in Clients : reader[d] \in {"insert", "publish"} => request[d].id # id
    BY <1>a, <1>6 DEF Stamp
  <2> QED
    BY <1>a, <1>6, <2>1, <2>2 DEF Stamp
<1>7. ASSUME NEW c \in Clients, Insert(c) \/ ReadBefore(c) PROVE Work'
  BY <1>a, <1>7 DEF Insert, ReadBefore
<1>8. ASSUME NEW c \in Clients, Query(c) PROVE Work'
  <2>1. \E P \in SUBSET Messages, more \in BOOLEAN :
          result' = [result EXCEPT ![c] = [ids |-> P, more |-> more]]
    BY <1>8, QueryPages
  <2> QED
    BY <1>a, <1>8, <2>1 DEF Query, Page
<1>9. ASSUME NEW c \in Clients, NEW ch \in Channels, NEW op \in {"subscribe", "send", "history"},
             NEW id \in Messages \cup {None}, Receive(c, op, ch, id)
      PROVE  Work'
  <2>1. [op |-> op, ch |-> ch, id |-> id] \in Request
    BY DEF Request
  <2> QED
    BY <1>a, <1>9, <2>1 DEF Receive
<1>10. ASSUME NEW c \in Clients, NEW ch \in Channels, Unsubscribe(c, ch) PROVE Work'
  BY <1>10 DEF Unsubscribe
<1>11. ASSUME NEW c \in Clients, ReadFails(c) \/ Forget(c) PROVE Work'
  BY <1>a, <1>11 DEF ReadFails, Forget
<1>12. CASE UNCHANGED vars
  BY <1>12 DEF vars
<1> QED
  BY <1>1, <1>2, <1>4, <1>5, <1>6, <1>7, <1>8, <1>9, <1>10, <1>11, <1>12 DEF ChatNext, Handle

-----------------------------------------------------------------------------
(* What a step may change of the messages, the pages and the requests.     *)

\* Only a message that is given its time has the clock read.
LEMMA ClockSteps ==
  ASSUME [ChatNext]_vars
  PROVE  UNCHANGED clockVars \/ \E c \in Clients, x \in Messages : Stamp(c, x)
<1>1. CASE HubRuns
  BY <1>1 DEF HubRuns
<1>2. CASE Administrate
  BY <1>2 DEF Administrate, Change, CreateChannel, UpdateChannel, ClearChannelMessages,
              DeleteChannels, AddGroupMember, RemoveGroupMember, CreateGroup, DeleteGroup
<1>3. ASSUME NEW c \in Clients, Check(c) \/ Subscribe(c) \/ Insert(c) \/ PublishStored(c) \/ Fail(c)
      PROVE  UNCHANGED clockVars
  BY <1>3 DEF Check, CheckWith, Granted, Subscribe, Insert, PublishStored, Fail
<1>4. ASSUME NEW c \in Clients, ReadBefore(c) \/ Query(c) \/ Answer(c)
      PROVE  UNCHANGED clockVars
  BY <1>4 DEF ReadBefore, Query, Answer
<1>5. ASSUME NEW c \in Clients, NEW ch, NEW op, NEW x,
             Receive(c, op, ch, x) \/ Unsubscribe(c, ch) \/ ReadFails(c) \/ Forget(c)
      PROVE  UNCHANGED clockVars
  BY <1>5 DEF Receive, Unsubscribe, ReadFails, Forget
<1>6. CASE UNCHANGED vars
  BY <1>6 DEF vars
<1> QED
  BY <1>1, <1>2, <1>3, <1>4, <1>5, <1>6 DEF ChatNext, Handle

LEMMA StampsStay ==
  ASSUME RestOK, [ChatNext]_vars, NEW id \in Messages, sender[id] # None
  PROVE  /\ sender'[id] = sender[id] /\ stamp'[id] = stamp[id]
         /\ earlier'[id] = earlier[id] /\ setBack \subseteq setBack'
<1>1. CASE UNCHANGED clockVars
  BY <1>1 DEF clockVars
<1>2. ASSUME NEW c \in Clients, NEW x \in Messages, Stamp(c, x)
      PROVE  /\ sender'[id] = sender[id] /\ stamp'[id] = stamp[id]
             /\ earlier'[id] = earlier[id] /\ setBack \subseteq setBack'
  BY <1>2 DEF Stamp, ReadClock, RestOK
<1> QED
  BY <1>1, <1>2, ClockSteps

LEMMA StoredSteps ==
  ASSUME [ChatNext]_vars
  PROVE  stored' \subseteq stored \/ \E c \in Clients : Insert(c)
<1> USE DEF clockVars, dbVars, readerVars, boundVars, workVars
<1>1. CASE HubRuns
  BY <1>1 DEF HubRuns
<1>2. CASE Administrate
  BY <1>2 DEF Administrate, Change, CreateChannel, UpdateChannel, ClearChannelMessages,
              DeleteChannels, AddGroupMember, RemoveGroupMember, CreateGroup, DeleteGroup
<1>3. ASSUME NEW c \in Clients, NEW x \in Messages, Stamp(c, x)
      PROVE  UNCHANGED stored
  BY <1>3 DEF Stamp
<1>4. ASSUME NEW c \in Clients, Check(c) \/ Subscribe(c) \/ PublishStored(c) \/ Fail(c)
      PROVE  UNCHANGED stored
  BY <1>4 DEF Check, CheckWith, Granted, Subscribe, PublishStored, Fail
<1>5. ASSUME NEW c \in Clients, ReadBefore(c) \/ Query(c) \/ Answer(c)
      PROVE  UNCHANGED stored
  BY <1>5 DEF ReadBefore, Query, Answer
<1>6. ASSUME NEW c \in Clients, NEW ch, NEW op, NEW x,
             Receive(c, op, ch, x) \/ Unsubscribe(c, ch) \/ ReadFails(c) \/ Forget(c)
      PROVE  UNCHANGED stored
  BY <1>6 DEF Receive, Unsubscribe, ReadFails, Forget
<1>7. CASE UNCHANGED vars
  BY <1>7 DEF vars
<1> QED
  BY <1>1, <1>2, <1>3, <1>4, <1>5, <1>6, <1>7 DEF ChatNext, Handle

LEMMA OrderSteps ==
  ASSUME [ChatNext]_vars
  PROVE  UNCHANGED order \/ \E c \in Clients : PublishStored(c)
<1> USE DEF feedVars
<1>1. CASE HubRuns
  BY <1>1 DEF HubRuns, HubStep, Take, Deliver, Done, Stick, Halt, Cut
<1>2. CASE Administrate
  BY <1>2 DEF Administrate, Change, CreateChannel, UpdateChannel, ClearChannelMessages,
              DeleteChannels, AddGroupMember, RemoveGroupMember, CreateGroup, DeleteGroup
<1>3. ASSUME NEW c \in Clients, NEW x \in Messages, Stamp(c, x)
      PROVE  UNCHANGED order
  BY <1>3 DEF Stamp
<1>4. ASSUME NEW c \in Clients, Check(c) \/ Subscribe(c) \/ Insert(c) \/ Fail(c)
      PROVE  UNCHANGED order
  BY <1>4 DEF Check, CheckWith, Granted, Subscribe, Join, Insert, Fail
<1>5. ASSUME NEW c \in Clients, ReadBefore(c) \/ Query(c) \/ Answer(c)
      PROVE  UNCHANGED order
  BY <1>5 DEF ReadBefore, Query, Answer
<1>6. ASSUME NEW c \in Clients, NEW ch, NEW op, NEW x,
             Receive(c, op, ch, x) \/ Unsubscribe(c, ch) \/ ReadFails(c) \/ Forget(c)
      PROVE  UNCHANGED order
  BY <1>6 DEF Receive, Unsubscribe, Leave, ReadFails, Forget, Depart
<1>7. CASE UNCHANGED vars
  BY <1>7 DEF vars
<1> QED
  BY <1>1, <1>2, <1>3, <1>4, <1>5, <1>6, <1>7 DEF ChatNext, Handle

\* A reader at work goes on with the request it has: the page to be answered
\* is the one that was queried, and a message leaves "publish" by being
\* published.
LEMMA RequestSteps ==
  ASSUME RestOK, Work, [ChatNext]_vars, NEW c \in Clients
  PROVE  /\ reader'[c] = "reply" =>
              \/ Query(c)
              \/ reader[c] = "reply" /\ result'[c] = result[c] /\ request'[c] = request[c]
         /\ reader[c] = "publish" =>
              \/ PublishStored(c)
              \/ reader'[c] = "publish" /\ request'[c] = request[c]
         /\ reader'[c] \in {"insert", "publish"} =>
              \/ \E id \in Messages : Stamp(c, id) /\ request'[c].id = id
              \/ reader[c] \in {"insert", "publish"} /\ request'[c] = request[c]
<1> DEFINE Same == /\ reader'[c] = reader[c] /\ request'[c] = request[c]
                   /\ result'[c] = result[c]
           Goal == /\ reader'[c] = "reply" =>
                        \/ Query(c)
                        \/ reader[c] = "reply" /\ result'[c] = result[c] /\ request'[c] = request[c]
                   /\ reader[c] = "publish" =>
                        \/ PublishStored(c)
                        \/ reader'[c] = "publish" /\ request'[c] = request[c]
                   /\ reader'[c] \in {"insert", "publish"} =>
                        \/ \E id \in Messages : Stamp(c, id) /\ request'[c].id = id
                        \/ reader[c] \in {"insert", "publish"} /\ request'[c] = request[c]
<1> SUFFICES Goal
  OBVIOUS
<1>a. /\ DOMAIN reader = Clients /\ DOMAIN request = Clients /\ DOMAIN result = Clients
      /\ reader[c] \in Busy => request[c] \in Request
  BY DEF RestOK, Work
<1>s. ASSUME Same PROVE Goal
  BY <1>s
<1> USE <1>a DEF readerVars, boundVars, workVars, Goto, Return
<1>1. CASE HubRuns
  BY <1>1, <1>s DEF HubRuns
<1>2. CASE Administrate
  BY <1>2, <1>s DEF Administrate, Change, CreateChannel, UpdateChannel, ClearChannelMessages,
              DeleteChannels, AddGroupMember, RemoveGroupMember, CreateGroup, DeleteGroup
<1>3. ASSUME NEW d \in Clients, NEW x \in Messages, Stamp(d, x) PROVE Goal
  <2>1. CASE d = c
    <3>1. request'[c].id = x /\ reader'[c] = "insert" /\ reader[c] = "stamp"
      BY <1>3, <2>1 DEF Stamp, Busy, Request
    <3> QED
      BY <1>3, <2>1, <3>1
  <2>2. CASE d # c
    BY <1>3, <1>s, <2>2 DEF Stamp
  <2> QED
    BY <2>1, <2>2
<1>4. ASSUME NEW d \in Clients, Check(d) PROVE Goal
  <2>1. CASE d = c
    <3>1. CASE Return(c)
      BY <1>4, <2>1, <3>1 DEF Check, CheckWith, Granted
    <3>2. CASE ~Return(c)
      <4>1. request[c].op \in {"subscribe", "send", "history"}
        BY <1>4, <2>1 DEF Check, CheckWith, Granted, Busy, Request
      <4>2. \E s \in {"subscribe", "stamp", "query", "before"} :
              reader' = [reader EXCEPT ![c] = s]
        BY <1>4, <2>1, <3>2, <4>1 DEF Check, CheckWith, Granted
      <4> QED
        BY <1>4, <2>1, <4>2 DEF Check, CheckWith, Granted
    <3> QED
      BY <3>1, <3>2
  <2>2. CASE d # c
    <3>1. Same
      BY <1>4, <2>2 DEF Check, CheckWith, Granted
    <3> QED
      BY <3>1, <1>s
  <2> QED
    BY <2>1, <2>2
<1>5. ASSUME NEW d \in Clients, Subscribe(d) \/ Insert(d) \/ PublishStored(d) PROVE Goal
  <2>1. CASE d = c
    BY <1>5, <2>1 DEF Subscribe, Insert, PublishStored
  <2>2. CASE d # c
    BY <1>5, <1>s, <2>2 DEF Subscribe, Insert, PublishStored
  <2> QED
    BY <2>1, <2>2
<1>6. ASSUME NEW d \in Clients, ReadBefore(d) \/ Query(d) \/ Answer(d) \/ Fail(d) PROVE Goal
  <2>1. CASE d = c
    BY <1>6, <2>1 DEF ReadBefore, Query, Answer, Fail
  <2>2. CASE d # c
    BY <1>6, <1>s, <2>2 DEF ReadBefore, Query, Answer, Fail
  <2> QED
    BY <2>1, <2>2
<1>7. ASSUME NEW d \in Clients, NEW ch, NEW op, NEW x,
             Receive(d, op, ch, x) \/ Unsubscribe(d, ch) \/ ReadFails(d) \/ Forget(d)
      PROVE  Goal
  <2>1. CASE d = c
    BY <1>7, <2>1 DEF Receive, Unsubscribe, ReadFails, Forget
  <2>2. CASE d # c
    BY <1>7, <1>s, <2>2 DEF Receive, Unsubscribe, ReadFails, Forget
  <2> QED
    BY <2>1, <2>2
<1>8. CASE UNCHANGED vars
  BY <1>8, <1>s DEF vars
<1> QED
  BY <1>1, <1>2, <1>3, <1>4, <1>5, <1>6, <1>7, <1>8 DEF ChatNext, Handle

\* A page is remembered only for a channel the peer is subscribed to.
ShownHold ==
  \A c \in Clients, ch \in Channels : shown[c][ch] # None => c \in members[ch]

LEMMA PageSteps ==
  ASSUME TypeOK, RestOK, Work, ShownHold, [ChatNext]_vars,
         NEW c \in Clients, NEW ch \in Channels, shown'[c][ch] # None
  PROVE  /\ c \in members[ch] /\ c \in members'[ch]
         /\ \/ shown'[c][ch] = shown[c][ch]
            \/ /\ Answer(c)
               /\ shown'[c][ch] = result[c]
               /\ ch = request[c].ch
               /\ request[c].id = None
<1> DEFINE Kept == /\ c \in members[ch] /\ c \in members'[ch]
                   /\ shown'[c][ch] = shown[c][ch]
           Given == /\ c \in members[ch] /\ c \in members'[ch]
                    /\ Answer(c)
                    /\ shown'[c][ch] = result[c]
                    /\ ch = request[c].ch
                    /\ request[c].id = None
<1> SUFFICES Kept \/ Given
  OBVIOUS
<1>a. /\ members \in [Channels -> SUBSET Clients] /\ shown \in [Clients -> [Channels -> Page \cup {None}]]
      /\ shown[c][ch] # None => c \in members[ch]
  BY DEF TypeOK, RestOK, ShownHold
<1>b. ASSUME UNCHANGED <<shown, members>> PROVE Kept
  BY <1>a, <1>b
<1> USE DEF readerVars, boundVars, workVars, feedVars
<1>1. CASE HubRuns
  <2>1. UNCHANGED <<shown, members>>
    BY <1>1 DEF HubRuns, HubStep, Take, Deliver, Done, Stick, Halt, Cut
  <2> QED
    BY <1>b, <2>1
<1>2. CASE Administrate
  BY <1>2, <1>b DEF Administrate, Change, CreateChannel, UpdateChannel, ClearChannelMessages,
              DeleteChannels, AddGroupMember, RemoveGroupMember, CreateGroup, DeleteGroup
<1>3. ASSUME NEW d \in Clients, Check(d) \/ Insert(d) \/ Fail(d) \/ ReadBefore(d) \/ Query(d)
      PROVE  Kept
  BY <1>3, <1>b DEF Check, CheckWith, Granted, Insert, Fail, ReadBefore, Query
<1>4. ASSUME NEW d \in Clients, NEW x \in Messages, Stamp(d, x) PROVE Kept
  BY <1>4, <1>b DEF Stamp
<1>5. ASSUME NEW d \in Clients, PublishStored(d) PROVE Kept
  BY <1>5, <1>b DEF PublishStored, Publish
<1>6. ASSUME NEW d \in Clients, Subscribe(d) PROVE Kept
  <2>1. request[d].ch \in Channels
    BY <1>6 DEF Subscribe, Work, Busy, Request
  <2>2. members' = [members EXCEPT ![request[d].ch] = @ \cup {d}] /\ UNCHANGED shown
    BY <1>6 DEF Subscribe, Join
  <2> QED
    BY <1>a, <2>1, <2>2
<1>7. ASSUME NEW d \in Clients, NEW x \in Channels, Unsubscribe(d, x) PROVE Kept
  <2>1. /\ members' = [members EXCEPT ![x] = @ \ {d}]
        /\ shown' = [shown EXCEPT ![d] = [@ EXCEPT ![x] = None]]
    BY <1>7 DEF Unsubscribe, Leave
  <2>2. shown'[c][ch] = shown[c][ch] /\ ~(d = c /\ x = ch)
    BY <1>a, <2>1
  <2> QED
    BY <1>a, <2>1, <2>2
<1>8. ASSUME NEW d \in Clients, Answer(d) PROVE Kept \/ Given
  <2>1. UNCHANGED members
    BY <1>8 DEF Answer
  <2>2. CASE shown' = shown
    BY <1>b, <2>1, <2>2
  <2>3. CASE shown' # shown
    <3>1. /\ shown' = [shown EXCEPT ![d] = [@ EXCEPT ![request[d].ch] = result[d]]]
          /\ d \in members[request[d].ch]
          /\ request[d].id = None
      BY <1>8, <2>3 DEF Answer
    <3>2. CASE d = c /\ request[d].ch = ch
      BY <1>a, <1>8, <2>1, <3>1, <3>2
    <3>3. CASE ~(d = c /\ request[d].ch = ch)
      <4>1. shown'[c][ch] = shown[c][ch]
        BY <1>a, <3>1, <3>3
      <4> QED
        BY <1>a, <2>1, <4>1
    <3> QED
      BY <3>2, <3>3
  <2> QED
    BY <2>2, <2>3
<1>9. ASSUME NEW d \in Clients, NEW x, NEW op, NEW id, Receive(d, op, x, id) \/ ReadFails(d)
      PROVE  Kept
  BY <1>9, <1>b DEF Receive, ReadFails
<1>10. ASSUME NEW d \in Clients, Forget(d) PROVE Kept
  <2>1. /\ members' = [x \in Channels |-> members[x] \ {d}]
        /\ shown' = [shown EXCEPT ![d] = [x \in Channels |-> None]]
    BY <1>10 DEF Forget, Depart
  <2>2. d # c
    BY <1>a, <2>1
  <2> QED
    BY <1>a, <2>1, <2>2
<1>11. CASE UNCHANGED vars
  BY <1>11, <1>b DEF vars
<1> QED
  BY <1>1, <1>2, <1>3, <1>4, <1>5, <1>6, <1>7, <1>8, <1>9, <1>10, <1>11 DEF ChatNext, Handle

\* Who waits for a page does not subscribe.
LEMMA MemberSteps ==
  ASSUME TypeOK, Work, [ChatNext]_vars,
         NEW c \in Clients, NEW ch \in Channels, reader[c] = "reply", c \in members'[ch]
  PROVE  c \in members[ch]
<1>a. members \in [Channels -> SUBSET Clients]
  BY DEF TypeOK
<1> USE DEF readerVars, boundVars, workVars, feedVars
<1>1. CASE HubRuns
  BY <1>1 DEF HubRuns, HubStep, Take, Deliver, Done, Stick, Halt, Cut
<1>2. CASE Administrate
  BY <1>2 DEF Administrate, Change, CreateChannel, UpdateChannel, ClearChannelMessages,
              DeleteChannels, AddGroupMember, RemoveGroupMember, CreateGroup, DeleteGroup
<1>3. ASSUME NEW d \in Clients, Check(d) \/ Insert(d) \/ Fail(d) \/ ReadBefore(d) \/ Query(d) \/ Answer(d)
      PROVE  UNCHANGED members
  BY <1>3 DEF Check, CheckWith, Granted, Insert, Fail, ReadBefore, Query, Answer
<1>4. ASSUME NEW d \in Clients, NEW x, NEW op, NEW id,
             Stamp(d, id) \/ Receive(d, op, x, id) \/ ReadFails(d) \/ PublishStored(d)
      PROVE  UNCHANGED members
  BY <1>4 DEF Stamp, Receive, ReadFails, PublishStored, Publish
<1>5. ASSUME NEW d \in Clients, Subscribe(d) PROVE c \in members[ch]
  <2>1. request[d].ch \in Channels /\ d # c
    BY <1>5 DEF Subscribe, Work, Busy, Request
  <2> QED
    BY <1>a, <1>5, <2>1 DEF Subscribe, Join
<1>6. ASSUME NEW d \in Clients, NEW x \in Channels, Unsubscribe(d, x) PROVE c \in members[ch]
  BY <1>a, <1>6 DEF Unsubscribe, Leave
<1>7. ASSUME NEW d \in Clients, Forget(d) PROVE c \in members[ch]
  BY <1>a, <1>7 DEF Forget, Depart
<1>8. CASE UNCHANGED vars
  BY <1>8 DEF vars
<1> QED
  BY <1>1, <1>2, <1>3, <1>4, <1>5, <1>6, <1>7, <1>8 DEF ChatNext, Handle

-----------------------------------------------------------------------------
(* The invariant.                                                          *)

\* Whatever is stored, published or in a page was sent by somebody.
Sent(id) == sender[id] # None

Senders ==
  /\ \A m \in stored : Sent(m.id)
  /\ \A i \in DOMAIN order : Sent(order[i].id)
  /\ \A c \in Clients : reader[c] = "reply" => \A p \in result[c].ids : Sent(p)
  /\ \A c \in Clients, ch \in Channels :
       shown[c][ch] # None => \A p \in shown[c][ch].ids : Sent(p)

\* A message with a later time than the clock now shows was given it before the
\* clock was set back.
ClockFollows ==
  /\ \A m \in setBack : Sent(m)
  /\ \A x \in Messages : Sent(x) =>
       stamp[x] <= clock \/ \E m \in setBack : x \in earlier[m]

\* A sender's messages are published in the order they are sent in, and the one
\* it is about to publish comes after them.
OrderOfSenders ==
  /\ \A a, b \in DOMAIN order :
       a < b /\ sender[order[a].id] = sender[order[b].id] =>
         InOrder(order[a].id, order[b].id)
  /\ \A c \in Clients : reader[c] \in {"insert", "publish"} =>
       \A a \in DOMAIN order :
         sender[order[a].id] = c => InOrder(order[a].id, request[c].id)

\* What is stored of ch is in the page, before it, told or on its way to c.
Covered(c, ch, page) ==
  \A m \in stored : m.ch = ch =>
    \/ m.id \in page.ids
    \/ BeforePage(m, page)
    \/ m \in Told(c)
    \/ InFlight(c, m)

\* A page that waits to be answered to a subscriber leaves no gap either.
NoGapToCome ==
  \A c \in Clients \ cut :
    reader[c] = "reply" /\ request[c].id = None /\ c \in members[request[c].ch] =>
      Covered(c, request[c].ch, result[c])

IInv ==
  /\ TypeOK /\ RestOK
  /\ Delivery
  /\ FromOrder
  /\ Work
  /\ ShownHold
  /\ Senders
  /\ ClockFollows
  /\ OrderOfSenders
  /\ SendersKeepTheirOrder
  /\ IsFiniteSet(stored)
  /\ NoGapToCome
  /\ NoGap
  /\ DeletedChannelsKeepNothing

LEMMA InitialState == ChatInit => IInv
<1> SUFFICES ASSUME ChatInit PROVE IInv
  OBVIOUS
<1>1. TypeOK
  <2>1. order \in Seq(MessageEnvelope) /\ Len(order) = 0
    BY DEF ChatInit, Init
  <2>2. feed \in [Clients -> Seq(MessageEnvelope)]
    BY DEF ChatInit, Init
  <2>3. members \in [Channels -> SUBSET Clients]
    BY DEF ChatInit, Init
  <2>4. taken \in 0..Len(order) /\ todo \in SUBSET Clients /\ cut \in SUBSET Clients
    BY <2>1 DEF ChatInit, Init
  <2>5. delivering \in BOOLEAN /\ stuck \in BOOLEAN /\ up \in BOOLEAN
    BY DEF ChatInit, Init
  <2> QED
    BY <2>1, <2>2, <2>3, <2>4, <2>5 DEF TypeOK
<1>2. RestOK
  <2>1. /\ sender \in [Messages -> Clients \cup {None}] /\ stamp \in [Messages -> Nat]
        /\ clock \in Times
        /\ earlier \in [Messages -> SUBSET Messages] /\ setBack \in SUBSET Messages
        /\ reader \in [Clients -> ReaderStates]
        /\ request \in [Clients -> Request \cup {None}]
        /\ row \in [Clients -> Lists \cup {None}]
        /\ result \in [Clients -> Page \cup {None}]
    BY DEF ChatInit, ReaderStates
  <2>2. shown \in [Clients -> [Channels -> Page \cup {None}]]
    BY DEF ChatInit
  <2>3. requests \in [Clients -> 0..MaxRequests] /\ changes \in 0..MaxChanges
    BY BoundAssumption DEF ChatInit
  <2> QED
    BY <2>1, <2>2, <2>3 DEF ChatInit, RestOK
<1>3. /\ Delivery /\ FromOrder /\ Work /\ ShownHold
      /\ Senders /\ ClockFollows /\ OrderOfSenders /\ SendersKeepTheirOrder
      /\ NoGapToCome /\ NoGap /\ DeletedChannelsKeepNothing
  <2> USE DEF ChatInit, Init
  <2>1. Delivery /\ FromOrder
    BY DEF Delivery, FromOrder
  <2>2. Work /\ ShownHold
    BY DEF Work, Busy, ShownHold
  <2>3. Senders /\ ClockFollows
    BY DEF Senders, ClockFollows, Sent
  <2>4. OrderOfSenders
    BY DEF OrderOfSenders
  <2>5. SendersKeepTheirOrder
    BY DEF SendersKeepTheirOrder
  <2>6. NoGapToCome /\ NoGap /\ DeletedChannelsKeepNothing
    BY DEF NoGapToCome, NoGap, DeletedChannelsKeepNothing
  <2> QED
    BY <2>1, <2>2, <2>3, <2>4, <2>5, <2>6
<1>4. IsFiniteSet(stored)
  BY FS_EmptySet DEF ChatInit
<1> QED
  BY <1>1, <1>2, <1>3, <1>4 DEF IInv

LEMMA SentStays ==
  ASSUME RestOK, [ChatNext]_vars, NEW id \in Messages, Sent(id)
  PROVE  Sent(id)'
BY StampsStay DEF Sent

\* What the query returns was stored.
LEMMA QueriedWereSent ==
  ASSUME RestOK, Work, Senders, NEW c \in Clients, Query(c)
  PROVE  \A p \in result'[c].ids : p \in Messages /\ Sent(p)
<1>1. PICK P \in SUBSET Messages, more \in BOOLEAN :
        /\ P \subseteq Eligible(c)
        /\ result' = [result EXCEPT ![c] = [ids |-> P, more |-> more]]
  BY QueryPages
<1>2. result'[c].ids = P
  BY <1>1 DEF RestOK
<1>3. P \subseteq Eligible(c) /\ P \subseteq Messages
  BY <1>1
<1>4. \A p \in Eligible(c) : Sent(p)
  BY DEF Eligible, Senders
<1> QED
  BY <1>2, <1>3, <1>4

LEMMA SendersNext ==
  TypeOK /\ RestOK /\ Work /\ ShownHold /\ Senders /\ [ChatNext]_vars => Senders'
<1> SUFFICES ASSUME TypeOK, RestOK, Work, ShownHold, Senders, [ChatNext]_vars PROVE Senders'
  OBVIOUS
<1>a. /\ stored \in SUBSET MessageEnvelope /\ order \in Seq(MessageEnvelope)
      /\ \A m \in MessageEnvelope : m.id \in Messages
      /\ None \notin Clients
  BY ListsAssumption DEF TypeOK, RestOK, MessageEnvelope
<1>1. ASSUME NEW c \in Clients, Insert(c) \/ PublishStored(c)
      PROVE  Message(c) \in MessageEnvelope /\ Sent(Message(c).id)
  BY <1>1, <1>a, MessageTypes DEF Insert, PublishStored, Sent
<1>2. ASSUME NEW m \in stored' PROVE Sent(m.id)'
  <2>1. CASE m \in stored
    BY <1>a, <2>1, SentStays DEF Senders
  <2>2. CASE m \notin stored
    <3>1. PICK c \in Clients : Insert(c)
      BY <2>2, StoredSteps
    <3>2. m = Message(c)
      BY <2>2, <3>1 DEF Insert
    <3> QED
      BY <1>1, <1>a, <3>1, <3>2, SentStays
  <2> QED
    BY <2>1, <2>2
<1>3. ASSUME NEW i \in DOMAIN order' PROVE Sent(order[i].id)'
  <2>1. CASE UNCHANGED order
    <3>1. i \in DOMAIN order /\ order'[i] = order[i] /\ order[i] \in MessageEnvelope
      BY <1>a, <2>1
    <3> QED
      BY <1>a, <3>1, SentStays DEF Senders
  <2>2. ASSUME NEW c \in Clients, PublishStored(c) PROVE Sent(order[i].id)'
    <3>1. order' = Append(order, Message(c))
      BY <2>2 DEF PublishStored, Publish
    <3>2. CASE i = Len(order) + 1
      <4>1. order'[i] = Message(c)
        BY <1>a, <3>1, <3>2
      <4> QED
        BY <1>1, <1>a, <2>2, <4>1, SentStays
    <3>3. CASE i # Len(order) + 1
      <4>1. i \in DOMAIN order /\ order'[i] = order[i] /\ order[i] \in MessageEnvelope
        BY <1>a, <3>1, <3>3
      <4> QED
        BY <1>a, <4>1, SentStays DEF Senders
    <3> QED
      BY <3>2, <3>3
  <2> QED
    BY <2>1, <2>2, OrderSteps
<1>4. ASSUME NEW c \in Clients, reader'[c] = "reply", NEW p \in result'[c].ids PROVE Sent(p)'
  <2>1. CASE Query(c)
    BY <1>4, <2>1, QueriedWereSent, SentStays
  <2>2. CASE reader[c] = "reply" /\ result'[c] = result[c]
    <3>1. Sent(p) /\ p \in Messages
      BY <1>4, <2>2 DEF Senders, Work, Page
    <3> QED
      BY <3>1, SentStays
  <2> QED
    BY <1>4, <2>1, <2>2, RequestSteps
<1>5. ASSUME NEW c \in Clients, NEW ch \in Channels, shown'[c][ch] # None,
             NEW p \in shown'[c][ch].ids
      PROVE  Sent(p)'
  <2>1. CASE shown'[c][ch] = shown[c][ch]
    <3>1. shown[c][ch] \in Page /\ shown[c][ch] # None
      BY <1>5, <2>1 DEF RestOK
    <3>2. Sent(p) /\ p \in Messages
      BY <1>5, <2>1, <3>1 DEF Senders, Page
    <3> QED
      BY <3>2, SentStays
  <2>2. CASE Answer(c) /\ shown'[c][ch] = result[c]
    <3>1. reader[c] = "reply"
      BY <2>2 DEF Answer
    <3>2. Sent(p) /\ p \in Messages
      BY <1>5, <2>2, <3>1 DEF Senders, Work, Page
    <3> QED
      BY <3>2, SentStays
  <2> QED
    BY <1>5, <2>1, <2>2, PageSteps
<1> QED
  BY <1>2, <1>3, <1>4, <1>5 DEF Senders

LEMMA ClockFollowsNext ==
  RestOK /\ ClockFollows /\ [ChatNext]_vars => ClockFollows'
<1> SUFFICES ASSUME RestOK, ClockFollows, [ChatNext]_vars PROVE ClockFollows'
  OBVIOUS
<1>1. CASE UNCHANGED clockVars
  BY <1>1 DEF ClockFollows, clockVars, Sent
<1>2. ASSUME NEW c \in Clients, NEW id \in Messages, Stamp(c, id) PROVE ClockFollows'
  <2>a. /\ sender \in [Messages -> Clients \cup {None}] /\ sender' = [sender EXCEPT ![id] = c]
        /\ sender[id] = None /\ None \notin Clients
        /\ stamp \in [Messages -> Nat] /\ stamp' = [stamp EXCEPT ![id] = clock']
        /\ earlier' = [earlier EXCEPT ![id] = {m \in Messages : sender[m] # None}]
        /\ DOMAIN earlier = Messages /\ setBack \subseteq Messages
        /\ setBack' = setBack \cup {m \in {id} : clock' < clock}
        /\ clock \in Nat /\ clock' \in Nat
    BY <1>2, ListsAssumption, TimesAssumption DEF Stamp, ReadClock, RestOK
  <2>1. ASSUME NEW m \in setBack' PROVE Sent(m)'
    BY <2>a, <2>1 DEF ClockFollows, Sent
  <2>2. ASSUME NEW x \in Messages, Sent(x)'
        PROVE  stamp'[x] <= clock' \/ \E m \in setBack' : x \in earlier'[m]
    <3>1. CASE x = id
      BY <2>a, <3>1
    <3>2. CASE x # id
      <4>1. Sent(x) /\ stamp'[x] = stamp[x] /\ stamp[x] \in Nat
        BY <2>a, <2>2, <3>2 DEF Sent
      <4>2. CASE clock' < clock
        <5>1. id \in setBack' /\ x \in earlier'[id]
          BY <2>a, <4>1, <4>2 DEF Sent
        <5> QED
          BY <5>1
      <4>3. CASE ~(clock' < clock) /\ stamp[x] <= clock
        BY <2>a, <4>1, <4>3
      <4>4. ASSUME NEW m \in setBack, x \in earlier[m]
            PROVE  m \in setBack' /\ x \in earlier'[m]
        BY <2>a, <4>4 DEF ClockFollows, Sent
      <4> QED
        BY <4>1, <4>2, <4>3, <4>4 DEF ClockFollows
    <3> QED
      BY <3>1, <3>2
  <2> QED
    BY <2>1, <2>2 DEF ClockFollows
<1> QED
  BY <1>1, <1>2, ClockSteps

\* What is in order stays so.
LEMMA InOrderStays ==
  ASSUME RestOK, ClockFollows, [ChatNext]_vars,
         NEW x \in Messages, NEW y \in Messages, Sent(x), Sent(y), InOrder(x, y)
  PROVE  InOrder(x, y)'
<1>1. /\ stamp'[x] = stamp[x] /\ stamp'[y] = stamp[y]
      /\ earlier'[y] = earlier[y] /\ setBack \subseteq setBack'
  BY StampsStay DEF Sent
<1>2. ASSUME NEW m \in setBack \cap ({y} \cup earlier[y]), x \in earlier[m]
      PROVE  m \in setBack' \cap ({y} \cup earlier'[y]) /\ x \in earlier'[m]
  <2>1. m \in Messages /\ Sent(m)
    BY DEF RestOK, ClockFollows
  <2>2. earlier'[m] = earlier[m]
    BY <2>1, StampsStay DEF Sent
  <2> QED
    BY <1>1, <1>2, <2>2
<1> QED
  BY <1>1, <1>2 DEF InOrder, SetBackBetween

\* The message that is given its time comes after all there were.
LEMMA StampedLast ==
  ASSUME RestOK, ClockFollows, [ChatNext]_vars,
         NEW c \in Clients, NEW id \in Messages, Stamp(c, id),
         NEW x \in Messages, Sent(x)
  PROVE  InOrder(x, id)'
<1>a. /\ sender[id] = None /\ sender' = [sender EXCEPT ![id] = c] /\ DOMAIN sender = Messages
      /\ stamp'[id] = clock'
      /\ earlier'[id] = {m \in Messages : sender[m] # None}
      /\ setBack' \subseteq Messages
  BY DEF Stamp, ReadClock, RestOK
<1>1. ClockFollows' /\ Sent(x)'
  BY ClockFollowsNext, StampsStay DEF Sent
<1>2. x \in earlier'[id]
  BY <1>a DEF Sent
<1>3. ASSUME NEW m \in setBack', x \in earlier'[m] PROVE m \in {id} \cup earlier'[id]
  BY <1>a, <1>1, <1>3 DEF ClockFollows, Sent
<1> QED
  BY <1>a, <1>1, <1>2, <1>3 DEF InOrder, SetBackBetween, ClockFollows

LEMMA OrderOfSendersNext ==
  TypeOK /\ RestOK /\ Work /\ Senders /\ ClockFollows /\ OrderOfSenders /\ [ChatNext]_vars
  => OrderOfSenders'
<1> SUFFICES ASSUME TypeOK, RestOK, Work, Senders, ClockFollows, OrderOfSenders, [ChatNext]_vars
             PROVE  OrderOfSenders'
  OBVIOUS
<1>a. /\ order \in Seq(MessageEnvelope)
      /\ \A m \in MessageEnvelope : m.id \in Messages
      /\ None \notin Clients
  BY ListsAssumption DEF TypeOK, RestOK, MessageEnvelope
<1>b. \A i \in DOMAIN order :
        /\ order[i].id \in Messages /\ Sent(order[i].id)
        /\ sender'[order[i].id] = sender[order[i].id]
  BY <1>a, StampsStay DEF Senders, Sent
<1>c. ASSUME NEW c \in Clients, reader[c] \in {"insert", "publish"}
      PROVE  /\ request[c].id \in Messages /\ sender[request[c].id] = c
             /\ sender'[request[c].id] = c /\ Sent(request[c].id)
  BY <1>a, <1>c, StampsStay DEF Work, Sent
<1>1. ASSUME NEW a \in DOMAIN order', NEW b \in DOMAIN order', a < b,
             sender'[order'[a].id] = sender'[order'[b].id]
      PROVE  InOrder(order[a].id, order[b].id)'
  <2>1. CASE UNCHANGED order
    <3>1. InOrder(order[a].id, order[b].id)
      BY <1>b, <1>1, <2>1 DEF OrderOfSenders
    <3> QED
      BY <1>b, <2>1, <3>1, InOrderStays DEF InOrder, SetBackBetween
  <2>2. ASSUME NEW c \in Clients, PublishStored(c)
        PROVE  InOrder(order[a].id, order[b].id)'
    <3>1. order' = Append(order, Message(c)) /\ reader[c] = "publish"
      BY <2>2 DEF PublishStored, Publish
    <3>2. Message(c).id = request[c].id /\ Message(c) \in MessageEnvelope
      BY <3>1, MessageTypes
    <3>3. a \in DOMAIN order /\ order'[a] = order[a]
      BY <1>a, <1>1, <3>1, <3>2
    <3>4. CASE b = Len(order) + 1
      <4>1. order'[b] = Message(c)
        BY <1>a, <3>1, <3>2, <3>4
      <4>2. sender[order[a].id] = c
        BY <1>b, <1>c, <1>1, <3>1, <3>2, <3>3, <4>1
      <4>3. InOrder(order[a].id, request[c].id)
        BY <3>1, <3>3, <4>2 DEF OrderOfSenders
      <4> QED
        BY <1>b, <1>c, <3>1, <3>2, <3>3, <4>1, <4>3, InOrderStays DEF InOrder, SetBackBetween
    <3>5. CASE b # Len(order) + 1
      <4>1. b \in DOMAIN order /\ order'[b] = order[b]
        BY <1>a, <1>1, <3>1, <3>2, <3>5
      <4>2. InOrder(order[a].id, order[b].id)
        BY <1>b, <1>1, <3>3, <4>1 DEF OrderOfSenders
      <4> QED
        BY <1>b, <3>3, <4>1, <4>2, InOrderStays DEF InOrder, SetBackBetween
    <3> QED
      BY <3>4, <3>5
  <2> QED
    BY <2>1, <2>2, OrderSteps
<1>2. ASSUME NEW c \in Clients, reader'[c] \in {"insert", "publish"},
             NEW a \in DOMAIN order', sender'[order'[a].id] = c
      PROVE  InOrder(order[a].id, request[c].id)'
  <2>1. ASSUME NEW id \in Messages, Stamp(c, id), request'[c].id = id
        PROVE  InOrder(order[a].id, request[c].id)'
    <3>1. order' = order /\ a \in DOMAIN order
      BY <2>1 DEF Stamp, feedVars
    <3> QED
      BY <1>b, <2>1, <3>1, StampedLast DEF InOrder, SetBackBetween
  <2>2. CASE reader[c] \in {"insert", "publish"} /\ request'[c] = request[c]
    <3>1. CASE UNCHANGED order
      <4>1. InOrder(order[a].id, request[c].id)
        BY <1>b, <1>2, <2>2, <3>1 DEF OrderOfSenders
      <4> QED
        BY <1>b, <1>c, <2>2, <3>1, <4>1, InOrderStays DEF InOrder, SetBackBetween
    <3>2. ASSUME NEW d \in Clients, PublishStored(d)
          PROVE  InOrder(order[a].id, request[c].id)'
      <4>1. order' = Append(order, Message(d)) /\ reader[d] = "publish"
        BY <3>2 DEF PublishStored, Publish
      <4>2. Message(d).id = request[d].id /\ Message(d) \in MessageEnvelope
        BY <4>1, MessageTypes
      <4>3. reader'[d] = "idle"
        BY <3>2 DEF PublishStored, Return, Goto, RestOK
      <4>4. d # c
        BY <1>2, <4>3
      <4>5. a \in DOMAIN order /\ order'[a] = order[a]
        <5>1. CASE a = Len(order) + 1
          <6>1. order'[a] = Message(d)
            BY <1>a, <4>1, <4>2, <5>1
          <6> QED
            BY <1>c, <1>2, <4>1, <4>2, <4>4, <6>1
        <5>2. CASE a # Len(order) + 1
          BY <1>a, <1>2, <4>1, <4>2, <5>2
        <5> QED
          BY <5>1, <5>2
      <4>6. InOrder(order[a].id, request[c].id)
        BY <1>b, <1>2, <2>2, <4>5 DEF OrderOfSenders
      <4> QED
        BY <1>b, <1>c, <2>2, <4>5, <4>6, InOrderStays DEF InOrder, SetBackBetween
    <3> QED
      BY <3>1, <3>2, OrderSteps
  <2> QED
    BY <1>2, <2>1, <2>2, RequestSteps
<1> QED
  BY <1>1, <1>2 DEF OrderOfSenders

LEMMA FeedOrderNext ==
  /\ TypeOK /\ RestOK /\ Delivery /\ Work /\ FromOrder /\ Senders /\ ClockFollows
  /\ OrderOfSenders /\ SendersKeepTheirOrder /\ [ChatNext]_vars
  => SendersKeepTheirOrder'
<1> SUFFICES ASSUME TypeOK, RestOK, Delivery, Work, FromOrder, Senders,
                    ClockFollows, OrderOfSenders, SendersKeepTheirOrder, [ChatNext]_vars,
                    NEW c \in Clients, NEW i \in DOMAIN feed'[c], NEW j \in DOMAIN feed'[c],
                    i < j, sender'[feed'[c][i].id] = sender'[feed'[c][j].id]
             PROVE  (feed[c][i].id = feed[c][j].id \/ InOrder(feed[c][i].id, feed[c][j].id))'
  BY DEF SendersKeepTheirOrder
<1>a. /\ order \in Seq(MessageEnvelope) /\ taken \in 0..Len(order)
      /\ feed[c] \in Seq(MessageEnvelope)
      /\ \A m \in MessageEnvelope : m.id \in Messages
  BY DEF TypeOK, RestOK, MessageEnvelope
<1>b. \A a \in DOMAIN order :
        /\ order[a].id \in Messages /\ Sent(order[a].id)
        /\ sender'[order[a].id] = sender[order[a].id]
  BY <1>a, StampsStay DEF Senders, Sent
<1>c. \A k \in DOMAIN feed[c] : \E a \in DOMAIN order : a <= taken /\ order[a] = feed[c][k]
  BY <1>a DEF FromOrder
<1>1. ASSUME i \in DOMAIN feed[c], j \in DOMAIN feed[c],
             feed'[c][i] = feed[c][i], feed'[c][j] = feed[c][j]
      PROVE  (feed[c][i].id = feed[c][j].id \/ InOrder(feed[c][i].id, feed[c][j].id))'
  <2>1. feed[c][i].id = feed[c][j].id \/ InOrder(feed[c][i].id, feed[c][j].id)
    BY <1>b, <1>c, <1>1 DEF SendersKeepTheirOrder
  <2>2. CASE feed[c][i].id = feed[c][j].id
    BY <1>1, <2>2
  <2>3. CASE InOrder(feed[c][i].id, feed[c][j].id)
    BY <1>b, <1>c, <1>1, <2>3, InOrderStays DEF InOrder, SetBackBetween
  <2> QED
    BY <2>1, <2>2, <2>3
<1>2. CASE feed'[c] = feed[c]
  BY <1>1, <1>2
<1>3. CASE Handed(c)
  <2>1. CASE j = Len(feed[c]) + 1
    <3>1. /\ feed'[c][j] = order[taken] /\ taken \in DOMAIN order
          /\ i \in DOMAIN feed[c] /\ feed'[c][i] = feed[c][i]
      BY <1>a, <1>3, <2>1 DEF Handed
    <3>2. PICK a \in DOMAIN order : a <= taken /\ order[a] = feed[c][i]
      BY <1>c, <3>1
    <3>3. sender[order[a].id] = sender[order[taken].id]
      BY <1>b, <3>1, <3>2
    <3>4. CASE a = taken
      BY <3>1, <3>2, <3>4
    <3>5. CASE a # taken
      <4>1. a < taken
        BY <1>a, <3>2, <3>5
      <4>2. InOrder(order[a].id, order[taken].id)
        BY <3>1, <3>2, <3>3, <4>1 DEF OrderOfSenders
      <4> QED
        BY <1>b, <3>1, <3>2, <4>2, InOrderStays DEF InOrder, SetBackBetween
    <3> QED
      BY <3>4, <3>5
  <2>2. CASE j # Len(feed[c]) + 1
    <3>1. /\ j \in DOMAIN feed[c] /\ feed'[c][j] = feed[c][j]
          /\ i \in DOMAIN feed[c] /\ feed'[c][i] = feed[c][i]
      BY <1>a, <1>3, <2>2 DEF Handed
    <3> QED
      BY <1>1, <3>1
  <2> QED
    BY <2>1, <2>2
<1>4. CASE Shortened(c)
  <2>1. i \in 1..Len(feed'[c]) /\ j \in 1..Len(feed'[c]) /\ Len(feed'[c]) \in Nat
    BY <1>4 DEF Shortened
  <2>2. i \in 1..Len(feed[c]) /\ j \in 1..Len(feed[c]) /\ Len(feed'[c]) <= Len(feed[c])
    BY <1>a, <1>4, <2>1 DEF Shortened
  <2>3. /\ j \in DOMAIN feed[c] /\ feed'[c][j] = feed[c][j]
        /\ i \in DOMAIN feed[c] /\ feed'[c][i] = feed[c][i]
    BY <1>a, <1>4, <2>1, <2>2 DEF Shortened
  <2> QED
    BY <1>1, <2>3
<1> QED
  BY <1>2, <1>3, <1>4, StepsOfTheHub, FeedSteps

-----------------------------------------------------------------------------
(* No gap.                                                                 *)

LEMMA FiniteNext == RestOK /\ IsFiniteSet(stored) /\ [ChatNext]_vars => IsFiniteSet(stored)'
<1> SUFFICES ASSUME RestOK, IsFiniteSet(stored), [ChatNext]_vars PROVE IsFiniteSet(stored')
  OBVIOUS
<1>1. CASE stored' \subseteq stored
  BY <1>1, FS_Subset
<1>2. ASSUME NEW c \in Clients, Insert(c) PROVE IsFiniteSet(stored')
  BY <1>2, FS_AddElement DEF Insert
<1> QED
  BY <1>1, <1>2, StoredSteps

LEMMA DeletedNext ==
  RestOK /\ Work /\ DeletedChannelsKeepNothing /\ [ChatNext]_vars => DeletedChannelsKeepNothing'
<1> SUFFICES ASSUME RestOK, Work, DeletedChannelsKeepNothing, [ChatNext]_vars,
                    NEW m \in stored'
             PROVE  rows'[m.ch] # None
  BY DEF DeletedChannelsKeepNothing
<1>a. /\ None \notin Lists /\ NoLists \in Lists
      /\ rows \in [Channels -> Lists \cup {None}]
      /\ m \in stored => m.ch \in Channels /\ rows[m.ch] # None
  BY ListsAssumption DEF RestOK, MessageEnvelope, DeletedChannelsKeepNothing
<1> USE DEF clockVars, dbVars, readerVars, boundVars, workVars
<1>0. ASSUME UNCHANGED rows, stored' \subseteq stored PROVE rows'[m.ch] # None
  BY <1>a, <1>0
<1>1. CASE HubRuns
  BY <1>0, <1>1 DEF HubRuns
<1>2. ASSUME NEW ch \in Channels, CreateChannel(ch) \/ ClearChannelMessages(ch)
      PROVE  rows'[m.ch] # None
  BY <1>a, <1>2 DEF CreateChannel, ClearChannelMessages
<1>3. ASSUME NEW ch \in Channels, NEW lists \in Lists, UpdateChannel(ch, lists)
      PROVE  rows'[m.ch] # None
  BY <1>a, <1>3 DEF UpdateChannel
<1>4. ASSUME NEW S \in SUBSET Channels, DeleteChannels(S) PROVE rows'[m.ch] # None
  BY <1>a, <1>4 DEF DeleteChannels
<1>5. ASSUME NEW g \in Groups, NEW c \in Clients,
             AddGroupMember(g, c) \/ RemoveGroupMember(g, c) \/ CreateGroup(g) \/ DeleteGroup(g)
      PROVE  rows'[m.ch] # None
  BY <1>0, <1>5 DEF AddGroupMember, RemoveGroupMember, CreateGroup, DeleteGroup
<1>6. ASSUME NEW g \in Groups, CreateGroup(g) \/ DeleteGroup(g)
      PROVE  rows'[m.ch] # None
  BY <1>0, <1>6 DEF CreateGroup, DeleteGroup
<1>7. ASSUME NEW c \in Clients, Insert(c) PROVE rows'[m.ch] # None
  <2>1. Message(c).ch = request[c].ch
    BY <1>7, MessageTypes DEF Insert
  <2> QED
    BY <1>a, <1>7, <2>1 DEF Insert
<1>8. ASSUME NEW c \in Clients, NEW x \in Messages, Stamp(c, x) PROVE rows'[m.ch] # None
  BY <1>0, <1>8 DEF Stamp
<1>9. ASSUME NEW c \in Clients, Check(c) \/ Subscribe(c) \/ PublishStored(c) \/ Fail(c)
      PROVE  rows'[m.ch] # None
  BY <1>0, <1>9 DEF Check, CheckWith, Granted, Subscribe, PublishStored, Fail
<1>10. ASSUME NEW c \in Clients, ReadBefore(c) \/ Query(c) \/ Answer(c)
      PROVE  rows'[m.ch] # None
  BY <1>0, <1>10 DEF ReadBefore, Query, Answer
<1>11. ASSUME NEW c \in Clients, NEW ch, NEW op, NEW x,
              Receive(c, op, ch, x) \/ Unsubscribe(c, ch) \/ ReadFails(c) \/ Forget(c)
       PROVE  rows'[m.ch] # None
  BY <1>0, <1>11 DEF Receive, Unsubscribe, ReadFails, Forget
<1>12. CASE UNCHANGED vars
  BY <1>0, <1>12 DEF vars
<1> QED
  BY <1>1, <1>2, <1>3, <1>4, <1>5, <1>6, <1>7, <1>8, <1>9, <1>10, <1>11, <1>12
     DEF ChatNext, Handle, Administrate

\* The page of a query without "before" leaves out only older messages, and
\* says so.
LEMMA QueryCovers ==
  ASSUME RestOK, Work, IsFiniteSet(stored), NEW c \in Clients, Query(c), request[c].id = None
  PROVE  Covered(c, request[c].ch, result[c])'
<1>1. PICK limit \in Nat \ {0}, F \in SUBSET Messages, P \in SUBSET Messages, more \in BOOLEAN :
        /\ F \in Newest(Eligible(c), limit + 1)
        /\ P \subseteq F /\ F \subseteq Eligible(c)
        /\ Answered(F, limit, P, more)
        /\ result' = [result EXCEPT ![c] = [ids |-> P, more |-> more]]
  BY QueryPages
<1>2. result'[c].ids = P /\ result'[c].more = more
  BY <1>1 DEF RestOK
<1>3. UNCHANGED <<stored, stamp, request>>
  BY DEF Query, dbVars, clockVars
<1>4. IsFiniteSet(Eligible(c))
  <2> DEFINE X == {x \in stored : /\ x.ch = request[c].ch
                                  /\ request[c].id # None => stamp[x.id] < stamp[request[c].id]}
             f == [x \in X |-> x.id]
  <2>1. IsFiniteSet(X)
    BY FS_Subset
  <2>2. f \in Surjection(X, Eligible(c))
    BY DEF Surjection, Eligible
  <2> QED
    BY <2>1, <2>2, FS_Surjection
<1>5. ASSUME NEW m \in stored, m.ch = request[c].ch, m.id \notin P
      PROVE  more /\ \A p \in P : stamp[m.id] <= stamp[p]
  <2>1. m.id \in Eligible(c) /\ m.id \in Messages
    BY <1>5 DEF Eligible, RestOK, MessageEnvelope
  <2>2. CASE m.id \in F
    BY <1>1, <1>5, <2>2 DEF Answered
  <2>3. CASE m.id \notin F
    <3>1. /\ Cardinality(F) = IF Cardinality(Eligible(c)) < limit + 1 THEN Cardinality(Eligible(c))
                              ELSE limit + 1
          /\ \A p \in F, x \in Eligible(c) \ F : stamp[p] >= stamp[x]
      BY <1>1 DEF Newest
    <3>2. Cardinality(F) # Cardinality(Eligible(c)) /\ Cardinality(Eligible(c)) \in Nat
      BY <1>1, <1>4, <2>1, <2>3, FS_Subset, FS_CardinalityType
    <3>3. Cardinality(F) > limit /\ ~(Cardinality(F) <= limit)
      BY <3>1, <3>2
    <3>4. more
      BY <1>1, <3>3 DEF Answered
    <3>5. \A x \in Messages : stamp[x] \in Nat
      BY DEF RestOK
    <3> QED
      BY <1>1, <2>1, <2>3, <3>1, <3>4, <3>5
  <2> QED
    BY <2>2, <2>3
<1>6. ASSUME NEW m \in stored', m.ch = request'[c].ch
      PROVE  m.id \in result'[c].ids \/ BeforePage(m, result[c])'
  BY <1>2, <1>3, <1>5, <1>6 DEF BeforePage
<1> QED
  BY <1>6 DEF Covered

\* A page that leaves no gap goes on doing so, as long as the peer stays
\* subscribed.
LEMMA CoveredNext ==
  ASSUME TypeOK, RestOK, Delivery, Work, Senders, [ChatNext]_vars,
         NEW c \in Clients, c \notin cut', NEW ch \in Channels,
         c \in members[ch], c \in members'[ch],
         NEW page \in Page, \A p \in page.ids : Sent(p),
         Covered(c, ch, page)
  PROVE  Covered(c, ch, page)'
<1>a. /\ stored \in SUBSET MessageEnvelope
      /\ \A m \in MessageEnvelope : m.id \in Messages
      /\ order \in Seq(MessageEnvelope) /\ taken \in 0..Len(order)
      /\ feed[c] \in Seq(MessageEnvelope)
  BY DEF RestOK, TypeOK, MessageEnvelope
<1>b. [Next]_feedVars
  BY StepsOfTheHub
<1>1. Told(c) \subseteq Told(c)'
  <2>1. feed'[c] = feed[c] \/ Handed(c)
    BY <1>b, FeedSteps DEF Shortened
  <2>2. CASE feed'[c] = feed[c]
    BY <2>2 DEF Told
  <2>3. CASE Handed(c)
    <3>1. \A i \in DOMAIN feed[c] : i \in DOMAIN feed'[c] /\ feed'[c][i] = feed[c][i]
      BY <1>a, <2>3 DEF Handed
    <3> QED
      BY <3>1 DEF Told
  <2> QED
    BY <2>1, <2>2, <2>3
<1>2. ASSUME NEW m \in stored, m.ch = ch, BeforePage(m, page) PROVE BeforePage(m, page)'
  <2>1. \A p \in page.ids : stamp'[p] = stamp[p]
    BY StampsStay DEF Page, Sent
  <2>2. stamp'[m.id] = stamp[m.id]
    BY <1>a, StampsStay DEF Senders, Sent
  <2> QED
    BY <1>2, <2>1, <2>2 DEF BeforePage
<1>3. ASSUME NEW m \in stored, m.ch = ch, InFlight(c, m)
      PROVE  InFlight(c, m)' \/ m \in Told(c)'
  <2>1. CASE Flying(c, m)
    <3>1. Flying(c, m)' \/ m \in Told(c)'
      BY <1>3, <1>a, <1>b, <2>1, Flies
    <3> QED
      BY <3>1 DEF Flying, InFlight
  <2>2. ASSUME NEW d \in Clients, reader[d] = "publish", Message(d) = m
        PROVE  InFlight(c, m)'
    <3>1. CASE reader'[d] = "publish" /\ request'[d] = request[d]
      <4>1. Message(d)' = m
        BY <2>2, <3>1 DEF Message
      <4> QED
        BY <3>1, <4>1 DEF InFlight
    <3>2. CASE PublishStored(d)
      <4>1. order' = Append(order, m) /\ taken' = taken
        BY <2>2, <3>2 DEF PublishStored, Publish
      <4>2. m \in MessageEnvelope
        BY <1>a
      <4>3. Len(order) + 1 \in taken' + 1 .. Len(order') /\ order'[Len(order) + 1] = m
        BY <1>a, <4>1, <4>2
      <4> QED
        BY <4>3 DEF InFlight
    <3> QED
      BY <2>2, <3>1, <3>2, RequestSteps
  <2> QED
    BY <1>3, <2>1, <2>2 DEF InFlight, Flying
<1>4. ASSUME NEW m \in stored', m \notin stored PROVE InFlight(c, m)'
  <2>1. PICK d \in Clients : Insert(d)
    BY <1>4, StoredSteps
  <2>2. m = Message(d) /\ UNCHANGED request
    BY <1>4, <2>1 DEF Insert, workVars
  <2>3. Message(d)' = m
    BY <2>2 DEF Message
  <2>4. reader'[d] = "publish"
    BY <2>1 DEF Insert, Goto, RestOK
  <2> QED
    BY <2>3, <2>4 DEF InFlight
<1> QED
  BY <1>1, <1>2, <1>3, <1>4 DEF Covered

LEMMA CutStays == [Next]_feedVars => cut \subseteq cut'
BY DEF Next, HubStep, Take, Done, Deliver, Stick, Halt, Publish, Join, Leave, Depart, Cut, feedVars

LEMMA NoGapToComeNext ==
  /\ TypeOK /\ RestOK /\ Delivery /\ Work /\ Senders /\ IsFiniteSet(stored)
  /\ NoGapToCome /\ [ChatNext]_vars
  => NoGapToCome'
<1> SUFFICES ASSUME TypeOK, RestOK, Delivery, Work, Senders, IsFiniteSet(stored),
                    NoGapToCome, [ChatNext]_vars,
                    NEW c \in Clients, c \notin cut', reader'[c] = "reply",
                    request'[c].id = None, c \in members'[request'[c].ch]
             PROVE  Covered(c, request[c].ch, result[c])'
  BY DEF NoGapToCome
<1>1. CASE Query(c)
  <2>1. UNCHANGED request
    BY <1>1 DEF Query
  <2> QED
    BY <1>1, <2>1, QueryCovers
<1>2. CASE reader[c] = "reply" /\ result'[c] = result[c] /\ request'[c] = request[c]
  <2>1. PICK page \in Page : page = result[c]
    BY <1>2 DEF Work
  <2>2. PICK ch \in Channels : ch = request[c].ch
    BY <1>2 DEF Work, Busy, Request
  <2>3. c \in members[ch] /\ c \in members'[ch] /\ c \notin cut
    BY <1>2, <2>2, MemberSteps, StepsOfTheHub, CutStays
  <2>4. Covered(c, ch, page)
    BY <1>2, <2>1, <2>2, <2>3 DEF NoGapToCome
  <2>5. \A p \in page.ids : Sent(p)
    BY <1>2, <2>1 DEF Senders
  <2>6. Covered(c, ch, page)'
    BY <2>3, <2>4, <2>5, CoveredNext
  <2>7. ch = request'[c].ch /\ page = result'[c]
    BY <1>2, <2>1, <2>2
  <2> QED
    BY <2>6, <2>7
<1> QED
  BY <1>1, <1>2, RequestSteps

LEMMA NoGapNext ==
  /\ TypeOK /\ RestOK /\ Delivery /\ Work /\ ShownHold /\ Senders
  /\ NoGapToCome /\ NoGap /\ [ChatNext]_vars
  => NoGap'
<1> SUFFICES ASSUME TypeOK, RestOK, Delivery, Work, ShownHold, Senders,
                    NoGapToCome, NoGap, [ChatNext]_vars,
                    NEW c \in Clients, c \notin cut', NEW ch \in Channels,
                    c \in members'[ch], shown'[c][ch] # None
             PROVE  Covered(c, ch, shown[c][ch])'
  BY DEF NoGap, Covered
<1>1. c \in members[ch] /\ c \notin cut
  BY PageSteps, StepsOfTheHub, CutStays
<1>2. ASSUME NEW page \in Page, page = shown'[c][ch], Covered(c, ch, page),
             \A p \in page.ids : Sent(p)
      PROVE  Covered(c, ch, shown[c][ch])'
  <2>1. Covered(c, ch, page)'
    BY <1>1, <1>2, CoveredNext
  <2> QED
    BY <1>2, <2>1
<1>3. CASE shown'[c][ch] = shown[c][ch]
  <2>1. shown[c][ch] # None
    BY <1>3
  <2>2. PICK page \in Page : page = shown[c][ch]
    BY <2>1 DEF RestOK
  <2>3. Covered(c, ch, page)
    BY <1>1, <2>1, <2>2 DEF NoGap, Covered
  <2>4. \A p \in page.ids : Sent(p)
    BY <2>1, <2>2 DEF Senders
  <2> QED
    BY <1>2, <1>3, <2>2, <2>3, <2>4
<1>4. CASE Answer(c) /\ shown'[c][ch] = result[c] /\ ch = request[c].ch /\ request[c].id = None
  <2>1. reader[c] = "reply"
    BY <1>4 DEF Answer
  <2>2. PICK page \in Page : page = result[c]
    BY <2>1 DEF Work
  <2>3. Covered(c, ch, page)
    BY <1>1, <1>4, <2>1, <2>2 DEF NoGapToCome
  <2>4. \A p \in page.ids : Sent(p)
    BY <2>1, <2>2 DEF Senders
  <2> QED
    BY <1>2, <1>4, <2>2, <2>3, <2>4
<1> QED
  BY <1>3, <1>4, PageSteps

LEMMA Inductive == ChatSpec => []IInv
<1>1. IInv /\ [ChatNext]_vars => IInv'
  <2> SUFFICES ASSUME IInv, [ChatNext]_vars PROVE IInv'
    OBVIOUS
  <2> USE DEF IInv
  <2>1. TypeOK' /\ Delivery' /\ FromOrder'
    BY StepsOfTheHub, FeedTypes, FromOrderNext
  <2>2. RestOK' /\ Work'
    BY RestNext, WorkNext
  <2>3. ShownHold'
    <3> SUFFICES ASSUME NEW c \in Clients, NEW ch \in Channels, shown'[c][ch] # None
                 PROVE  c \in members'[ch]
      BY DEF ShownHold
    <3> QED
      BY PageSteps
  <2>4. Senders'
    BY SendersNext
  <2>5. ClockFollows' /\ OrderOfSenders' /\ SendersKeepTheirOrder'
    BY ClockFollowsNext, OrderOfSendersNext, FeedOrderNext
  <2>6. IsFiniteSet(stored)' /\ DeletedChannelsKeepNothing'
    BY FiniteNext, DeletedNext
  <2>7. NoGapToCome' /\ NoGap'
    BY NoGapToComeNext, NoGapNext
  <2> QED
    BY <2>1, <2>2, <2>3, <2>4, <2>5, <2>6, <2>7
<1> QED
  BY <1>1, InitialState, PTL DEF ChatSpec

-----------------------------------------------------------------------------
(* What becomes of a message.                                              *)

\* A message that is being stored or published was not published before: the
\* hub is never handed a message twice.
PostedOnce ==
  \A c \in Clients : reader[c] \in {"insert", "publish"} => ~Published(request[c].id)

\* A step that neither takes a message in hand nor goes on with one.
Aside ==
  /\ UNCHANGED <<sender, order>>
  /\ stored' \subseteq stored
  /\ \A c \in Clients, state \in {"insert", "publish"} :
       /\ reader'[c] = state <=> reader[c] = state
       /\ reader[c] = state => request'[c] = request[c]

LEMMA PostingSteps ==
  ASSUME RestOK, Work, [ChatNext]_vars
  PROVE  \/ \E c \in Clients :
              \/ \E id \in Messages : Stamp(c, id)
              \/ Insert(c)
              \/ PublishStored(c)
              \/ Fail(c) /\ reader[c] = "insert"
         \/ Aside
<1> DEFINE Same == UNCHANGED <<sender, order, reader, request>> /\ stored' \subseteq stored
<1>a. /\ DOMAIN reader = Clients /\ DOMAIN request = Clients
      /\ \A c \in Clients : reader[c] \in Busy => request[c] \in Request
  BY DEF RestOK, Work
<1>s. Same => Aside
  BY DEF Aside
<1> HIDE DEF Same
<1>m. ASSUME NEW d \in Clients, NEW state,
             UNCHANGED <<sender, order, stored>>,
             reader[d] \notin {"insert", "publish"}, state \notin {"insert", "publish"},
             reader' = [reader EXCEPT ![d] = state],
             \A c \in Clients : c # d => request'[c] = request[c]
      PROVE  Aside
  BY <1>a, <1>m DEF Aside
<1> USE DEF clockVars, dbVars, readerVars, boundVars, workVars, feedVars
<1>1. CASE HubRuns
  <2>1. UNCHANGED order
    BY <1>1 DEF HubRuns, HubStep, Take, Deliver, Done, Stick, Halt, Cut
  <2> QED
    BY <1>1, <1>s, <2>1 DEF HubRuns, Same
<1>2. CASE Administrate
  <2>1. UNCHANGED <<sender, order, reader, request>>
    BY <1>2 DEF Administrate, Change, CreateChannel, UpdateChannel, ClearChannelMessages,
                DeleteChannels, AddGroupMember, RemoveGroupMember, CreateGroup, DeleteGroup
  <2>2. stored' \subseteq stored
    BY <1>2 DEF Administrate, CreateChannel, UpdateChannel, ClearChannelMessages,
                DeleteChannels, AddGroupMember, RemoveGroupMember, CreateGroup, DeleteGroup
  <2> QED
    BY <1>s, <2>1, <2>2 DEF Same
<1>3. ASSUME NEW d \in Clients, Check(d) PROVE Aside
  <2>1. UNCHANGED <<sender, order, stored>> /\ reader[d] = "check"
    BY <1>3 DEF Check, CheckWith
  <2>2. CASE Return(d)
    BY <1>a, <1>m, <2>1, <2>2 DEF Return, Goto
  <2>3. CASE ~Return(d)
    <3>1. reader' = [reader EXCEPT ![d] = Granted(d)] /\ UNCHANGED request
      BY <1>3, <2>3 DEF Check, CheckWith, Goto
    <3>2. request[d].op \in {"subscribe", "send", "history"}
      BY <1>a, <2>1 DEF Busy, Request
    <3>3. Granted(d) \notin {"insert", "publish"}
      BY <3>2 DEF Granted
    <3> QED
      BY <1>m, <2>1, <3>1, <3>3
  <2> QED
    BY <2>2, <2>3
<1>4. ASSUME NEW d \in Clients, Subscribe(d) PROVE Aside
  <2>1. /\ UNCHANGED <<sender, order, stored>> /\ reader[d] = "subscribe"
        /\ reader' = [reader EXCEPT ![d] = "idle"]
        /\ \A c \in Clients : c # d => request'[c] = request[c]
    BY <1>a, <1>4 DEF Subscribe, Join, Return, Goto
  <2> QED
    BY <1>m, <2>1
<1>5. ASSUME NEW d \in Clients, ReadBefore(d) \/ Query(d) \/ Answer(d) PROVE Aside
  <2>1. /\ UNCHANGED <<sender, order, stored>> /\ reader[d] \in {"before", "query", "reply"}
        /\ \E state \in {"query", "reply", "idle"} : reader' = [reader EXCEPT ![d] = state]
        /\ \A c \in Clients : c # d => request'[c] = request[c]
    BY <1>a, <1>5 DEF ReadBefore, Query, Answer, Return, Goto
  <2> QED
    BY <1>m, <2>1
<1>6. ASSUME NEW d \in Clients, Fail(d), reader[d] # "insert" PROVE Aside
  <2>1. /\ UNCHANGED <<sender, order, stored>> /\ reader[d] \in {"before", "query"}
        /\ reader' = [reader EXCEPT ![d] = "idle"]
        /\ \A c \in Clients : c # d => request'[c] = request[c]
    BY <1>a, <1>6 DEF Fail, Return, Goto
  <2> QED
    BY <1>m, <2>1
<1>7. ASSUME NEW d \in Clients, NEW ch, NEW op, NEW x,
             Receive(d, op, ch, x) \/ ReadFails(d) \/ Forget(d)
      PROVE  Aside
  <2>1. /\ UNCHANGED <<sender, order, stored>> /\ reader[d] \in {"idle", "leaving"}
        /\ \E state \in {"check", "leaving", "gone"} : reader' = [reader EXCEPT ![d] = state]
        /\ \A c \in Clients : c # d => request'[c] = request[c]
    BY <1>a, <1>7 DEF Receive, ReadFails, Forget, Depart, Goto
  <2> QED
    BY <1>m, <2>1
<1>8. ASSUME NEW d \in Clients, NEW ch, Unsubscribe(d, ch) PROVE Aside
  BY <1>8, <1>s DEF Unsubscribe, Leave, Same
<1>9. CASE UNCHANGED vars
  BY <1>9, <1>s DEF vars, Same
<1> QED
  BY <1>1, <1>2, <1>3, <1>4, <1>5, <1>6, <1>7, <1>8, <1>9 DEF ChatNext, Handle

\* Only one reader has a message in hand, the one that stamped it.
LEMMA OneHand ==
  ASSUME Work, NEW c \in Clients, reader[c] \in {"insert", "publish"},
         NEW d \in Clients, reader[d] \in {"insert", "publish"},
         request[c].id = request[d].id
  PROVE  c = d
BY DEF Work

LEMMA PostedOnceNext == IInv /\ PostedOnce /\ [ChatNext]_vars => PostedOnce'
<1> SUFFICES ASSUME IInv, PostedOnce, [ChatNext]_vars,
                    NEW c \in Clients, reader'[c] \in {"insert", "publish"}
             PROVE  ~Published(request[c].id)'
  BY DEF PostedOnce
<1>a. RestOK /\ Work /\ Senders /\ order \in Seq(MessageEnvelope)
  BY DEF IInv, TypeOK
<1>1. CASE \E id \in Messages : Stamp(c, id) /\ request'[c].id = id
  <2>1. PICK id \in Messages : Stamp(c, id) /\ request'[c].id = id
    BY <1>1
  <2>2. sender[id] = None /\ order' = order
    BY <2>1 DEF Stamp, feedVars
  <2> QED
    BY <1>a, <2>1, <2>2 DEF Published, Senders, Sent
<1>2. CASE reader[c] \in {"insert", "publish"} /\ request'[c] = request[c]
  <2>1. ~Published(request[c].id)
    BY <1>2 DEF PostedOnce
  <2>2. CASE UNCHANGED order
    BY <1>2, <2>1, <2>2 DEF Published
  <2>3. ASSUME NEW d \in Clients, PublishStored(d) PROVE ~Published(request[c].id)'
    <3>1. c # d
      BY <1>a, <2>3 DEF PublishStored, Return, Goto, RestOK
    <3>2. reader[d] = "publish" /\ order' = Append(order, Message(d)) /\ Message(d).id = request[d].id
      BY <2>3 DEF PublishStored, Publish, Message
    <3>3. request[c].id # request[d].id
      BY <1>2, <1>a, <3>1, <3>2, OneHand
    <3> QED
      BY <1>2, <1>a, <2>1, <3>2, <3>3 DEF Published
  <2> QED
    BY <2>2, <2>3, OrderSteps
<1> QED
  BY <1>1, <1>2, <1>a, RequestSteps

LEMMA PostedOnceHolds == ChatSpec => [](IInv /\ PostedOnce)
<1>1. ChatInit => PostedOnce
  BY DEF ChatInit, PostedOnce
<1>2. IInv /\ PostedOnce /\ [ChatNext]_vars => PostedOnce'
  BY PostedOnceNext
<1> QED
  BY <1>1, <1>2, Inductive, PTL DEF ChatSpec

\* How far a message has come, by what it depends on.
LEMMA LifeOf ==
  ASSUME NEW id \in Messages
  PROVE  /\ sender[id] = None => Life[id] = "new"
         /\ sender[id] # None /\ Published(id) => Life[id] = "published"
         /\ sender[id] # None /\ ~Published(id) /\ InHand("publish", id) => Life[id] = "stored"
         /\ sender[id] # None /\ ~Published(id) /\ ~InHand("publish", id) =>
              Life[id] = IF InHand("insert", id) THEN "timed" ELSE "lost"
BY DEF Life

LEMMA LifeStays ==
  ASSUME NEW id \in Messages,
         sender'[id] = sender[id],
         Published(id)' <=> Published(id),
         InHand("publish", id)' <=> InHand("publish", id),
         InHand("insert", id)' <=> InHand("insert", id)
  PROVE  Life'[id] = Life[id]
BY DEF Life

LEMMA LifeBecomes ==
  ASSUME NEW m \in Messages, NEW from, NEW to,
         Life[m] = from, Life'[m] = to,
         \A id \in Messages : id # m => Life'[id] = Life[id]
  PROVE  Posts!Becomes(m, from, to)
<1>1. DOMAIN Life = Messages /\ Life = [id \in Messages |-> Life[id]]
  BY DEF Life
<1>2. DOMAIN Life' = Messages /\ Life' = [id \in Messages |-> Life'[id]]
  BY DEF Life
<1> HIDE DEF Life
<1>3. Life' = [Life EXCEPT ![m] = to]
  BY <1>1, <1>2
<1> QED
  BY <1>3 DEF Posts!Becomes

\* The reader that has m in hand, alone, moves: nothing becomes of the others.
LEMMA OthersStay ==
  ASSUME RestOK, Work, NEW c \in Clients, NEW m \in Messages,
         \A d \in Clients : d # c => reader'[d] = reader[d] /\ request'[d] = request[d],
         reader[c] \in {"insert", "publish"} => request[c].id = m,
         reader'[c] \in {"insert", "publish"} => request'[c].id = m,
         NEW id \in Messages, id # m,
         sender'[id] = sender[id],
         Published(id)' <=> Published(id)
  PROVE  Life'[id] = Life[id]
<1>1. ASSUME NEW state \in {"insert", "publish"}
      PROVE  InHand(state, id)' <=> InHand(state, id)
  BY <1>1 DEF InHand
<1> QED
  BY <1>1, LifeStays

LEMMA StampTimes ==
  ASSUME IInv, NEW c \in Clients, NEW m \in Messages, Stamp(c, m)
  PROVE  Posts!Time(m)
<1>a. RestOK /\ Work /\ Senders /\ None \notin Clients
  BY ListsAssumption DEF IInv
<1>b. /\ reader[c] = "stamp" /\ reader' = [reader EXCEPT ![c] = "insert"]
      /\ request[c] \in Request
      /\ request' = [request EXCEPT ![c] = [@ EXCEPT !.id = m]]
      /\ sender[m] = None /\ sender' = [sender EXCEPT ![m] = c]
      /\ UNCHANGED <<order, stored>>
  BY <1>a DEF Stamp, Goto, Work, Busy, feedVars, dbVars
<1>c. /\ reader'[c] = "insert" /\ request'[c].id = m /\ sender'[m] = c
      /\ \A d \in Clients : d # c => reader'[d] = reader[d] /\ request'[d] = request[d]
      /\ \A id \in Messages : id # m => sender'[id] = sender[id]
  BY <1>a, <1>b DEF RestOK, Request
<1>1. Life[m] = "new"
  BY <1>b, LifeOf
<1>2. Life'[m] = "timed"
  <2>1. ~Published(m)'
    BY <1>a, <1>b DEF Published, Senders, Sent
  <2>2. ~InHand("publish", m)'
    BY <1>a, <1>b, <1>c DEF InHand, Work
  <2>3. InHand("insert", m)'
    BY <1>c DEF InHand
  <2> QED
    BY <1>a, <1>c, <2>1, <2>2, <2>3 DEF Life
<1>3. ASSUME NEW id \in Messages, id # m PROVE Life'[id] = Life[id]
  <2>1. Published(id)' <=> Published(id)
    BY <1>b DEF Published
  <2> QED
    BY <1>a, <1>b, <1>c, <1>3, <2>1, OthersStay
<1>4. Posts!Becomes(m, "new", "timed")
  BY <1>1, <1>2, <1>3, LifeBecomes
<1> QED
  BY <1>4, <1>b DEF Posts!Time

\* Where the reader that has a message in hand stands, and the others do not.
LEMMA HandOf ==
  ASSUME Work, NEW c \in Clients, reader[c] \in {"insert", "publish"},
         NEW state \in {"insert", "publish"}
  PROVE  InHand(state, request[c].id) <=> reader[c] = state
<1>1. ASSUME NEW d \in Clients, reader[d] = state, request[d].id = request[c].id PROVE d = c
  BY <1>1, OneHand
<1> QED
  BY <1>1 DEF InHand

LEMMA InsertStores ==
  ASSUME IInv, IInv', PostedOnce, PostedOnce', NEW c \in Clients, Insert(c)
  PROVE  Posts!Store(request[c].id, request[c].ch)
<1> DEFINE m == request[c].id
<1>a. RestOK /\ Work /\ Work' /\ m \in Messages /\ sender[m] = c /\ None \notin Clients
  BY MessageTypes, ListsAssumption DEF IInv, Insert
<1>b. /\ reader[c] = "insert" /\ reader' = [reader EXCEPT ![c] = "publish"]
      /\ UNCHANGED <<request, sender, order>>
      /\ stored' = stored \cup {[ch |-> request[c].ch, id |-> m]}
  BY DEF Insert, Goto, feedVars, clockVars, workVars, Message
<1>c. reader'[c] = "publish" /\ \A d \in Clients : d # c => reader'[d] = reader[d]
  BY <1>a, <1>b DEF RestOK
<1>d. ~Published(m) /\ ~Published(m)'
  BY <1>b DEF PostedOnce, Published
<1>1. Life[m] = "timed"
  BY <1>a, <1>b, <1>d, HandOf, LifeOf
<1>2. Life'[m] = "stored"
  <2>1. InHand("publish", m)'
    BY <1>b, <1>c DEF InHand
  <2> QED
    BY <1>a, <1>b, <1>d, <2>1 DEF Life
<1>3. ASSUME NEW id \in Messages, id # m PROVE Life'[id] = Life[id]
  <2>1. Published(id)' <=> Published(id)
    BY <1>b DEF Published
  <2> QED
    BY <1>a, <1>b, <1>c, <1>3, <2>1, OthersStay
<1>4. Posts!Becomes(m, "timed", "stored")
  BY <1>a, <1>1, <1>2, <1>3, LifeBecomes
<1> QED
  BY <1>4, <1>b DEF Posts!Store

LEMMA PublishPublishes ==
  ASSUME IInv, PostedOnce, NEW c \in Clients, PublishStored(c)
  PROVE  Posts!Publish(request[c].id)
<1>m. PICK m \in Messages : m = request[c].id
  BY MessageTypes DEF IInv, PublishStored
<1>a. RestOK /\ Work /\ m = request[c].id /\ sender[m] = c /\ None \notin Clients /\ Message(c).id = m
  BY <1>m, MessageTypes, ListsAssumption DEF IInv, PublishStored
<1>b. /\ reader[c] = "publish" /\ reader' = [reader EXCEPT ![c] = "idle"]
      /\ request' = [request EXCEPT ![c] = None]
      /\ UNCHANGED <<sender, stored>>
      /\ order \in Seq(MessageEnvelope) /\ order' = Append(order, Message(c))
  BY DEF PublishStored, Publish, Return, Goto, clockVars, dbVars, IInv, TypeOK
<1>c. /\ reader'[c] = "idle"
      /\ \A d \in Clients : d # c => reader'[d] = reader[d] /\ request'[d] = request[d]
  BY <1>a, <1>b DEF RestOK
<1>1. Life[m] = "stored"
  BY <1>a, <1>b, HandOf, LifeOf DEF PostedOnce
<1>2. Life'[m] = "published"
  <2>1. Published(m)'
    <3>1. Len(order) + 1 \in DOMAIN order' /\ order'[Len(order) + 1] = Message(c)
      BY <1>b
    <3> QED
      BY <1>a, <3>1 DEF Published
  <2> QED
    BY <1>a, <1>b, <2>1 DEF Life
<1>3. ASSUME NEW id \in Messages, id # m PROVE Life'[id] = Life[id]
  <2>1. Published(id)' <=> Published(id)
    BY <1>a, <1>b, <1>3 DEF Published
  <2> QED
    BY <1>a, <1>b, <1>c, <1>3, <2>1, OthersStay
<1>4. Posts!Becomes(m, "stored", "published")
  BY <1>a, <1>1, <1>2, <1>3, LifeBecomes
<1> QED
  BY <1>4, <1>a, <1>b DEF Posts!Publish

LEMMA FailGivesUp ==
  ASSUME IInv, PostedOnce, NEW c \in Clients, Fail(c), reader[c] = "insert"
  PROVE  Posts!GiveUp(request[c].id)
<1>m. PICK m \in Messages : m = request[c].id
  BY MessageTypes DEF IInv
<1>a. RestOK /\ Work /\ m = request[c].id /\ sender[m] = c /\ None \notin Clients
  BY <1>m, MessageTypes, ListsAssumption DEF IInv
<1>b. /\ reader' = [reader EXCEPT ![c] = "idle"]
      /\ request' = [request EXCEPT ![c] = None]
      /\ UNCHANGED <<sender, stored, order>>
  BY DEF Fail, Return, Goto, clockVars, dbVars, feedVars
<1>c. /\ reader'[c] = "idle"
      /\ \A d \in Clients : d # c => reader'[d] = reader[d] /\ request'[d] = request[d]
  BY <1>a, <1>b DEF RestOK
<1>d. ~Published(m) /\ ~Published(m)'
  BY <1>a, <1>b DEF PostedOnce, Published
<1>1. Life[m] = "timed"
  BY <1>a, <1>d, HandOf, LifeOf
<1>2. Life'[m] = "lost"
  <2>1. ASSUME NEW d \in Clients, reader'[d] \in {"insert", "publish"} PROVE request'[d].id # m
    BY <1>a, <1>c, <2>1, OneHand
  <2>2. ~InHand("publish", m)' /\ ~InHand("insert", m)'
    BY <2>1 DEF InHand
  <2> QED
    BY <1>a, <1>b, <1>d, <2>2 DEF Life
<1>3. ASSUME NEW id \in Messages, id # m PROVE Life'[id] = Life[id]
  <2>1. Published(id)' <=> Published(id)
    BY <1>b DEF Published
  <2> QED
    BY <1>a, <1>b, <1>c, <1>3, <2>1, OthersStay
<1>4. Posts!Becomes(m, "timed", "lost")
  BY <1>a, <1>1, <1>2, <1>3, LifeBecomes
<1> QED
  BY <1>4, <1>a, <1>b DEF Posts!GiveUp

LEMMA AsideDeletes == Aside => Posts!Delete
<1> SUFFICES ASSUME Aside PROVE Life' = Life
  BY DEF Aside, Posts!Delete
<1>1. ASSUME NEW id \in Messages PROVE Life'[id] = Life[id]
  <2>1. Published(id)' <=> Published(id)
    BY DEF Aside, Published
  <2>2. ASSUME NEW state \in {"insert", "publish"}
        PROVE  InHand(state, id)' <=> InHand(state, id)
    BY DEF Aside, InHand
  <2> QED
    BY <2>1, <2>2, LifeStays DEF Aside
<1>2. Life = [id \in Messages |-> Life[id]] /\ Life' = [id \in Messages |-> Life'[id]]
  BY DEF Life
<1> HIDE DEF Life
<1> QED
  BY <1>1, <1>2

-----------------------------------------------------------------------------
\* The handlers, the database and the hub keep to their types, whatever
\* requests are made and whatever administrators change.
THEOREM ServerTypes == ChatSpec => []ChatTypeOK
<1>1. IInv => ChatTypeOK
  BY DEF IInv, RestOK, ChatTypeOK
<1> QED
  BY <1>1, Inductive, PTL

\* A subscriber who has been answered the history misses nothing of the
\* channel (handleSubscribe, handleGetHistory, handleSendMessage).
THEOREM SubscribersMissNothing == ChatSpec => []NoGap
<1>1. IInv => NoGap
  BY DEF IInv
<1> QED
  BY <1>1, Inductive, PTL

\* Every peer is told the messages of a sender in the order they were sent in,
\* and the history has them in this order unless the wall clock was set back
\* between them (CreateMessage's time.Now, then hub.Broadcast).
THEOREM OrderOfASender == ChatSpec => []SendersKeepTheirOrder
<1>1. IInv => SendersKeepTheirOrder
  BY DEF IInv
<1> QED
  BY <1>1, Inductive, PTL

\* No message outlives its channel (CreateMessage, DeleteChannel,
\* DeleteCategory).
THEOREM NoOrphans == ChatSpec => []DeletedChannelsKeepNothing
<1>1. IInv => DeletedChannelsKeepNothing
  BY DEF IInv
<1> QED
  BY <1>1, Inductive, PTL

\* A message a peer sends is given its time, stored and broadcast once each and
\* in this order, and once it is stored it is not given up (handleSendMessage,
\* CreateMessage, hub.Broadcast).
THEOREM ServerImplementsPosting == ChatSpec => ImplementsPosting
<1>1. ChatInit => Posts!Init
  <2> SUFFICES ASSUME ChatInit PROVE Life = [m \in Messages |-> "new"]
    BY DEF ChatInit, Posts!Init
  <2> QED
    BY DEF Life, ChatInit
<1>2. /\ IInv /\ PostedOnce /\ (IInv /\ PostedOnce)' /\ [ChatNext]_vars
      => [Posts!Next]_<<Life, stored>>
  <2> SUFFICES ASSUME IInv, PostedOnce, IInv', PostedOnce', [ChatNext]_vars
               PROVE  Posts!Next
    OBVIOUS
  <2>1. ASSUME NEW c \in Clients, NEW id \in Messages, Stamp(c, id) PROVE Posts!Next
    BY <2>1, StampTimes DEF Posts!Next
  <2>2. ASSUME NEW c \in Clients, Insert(c) PROVE Posts!Next
    BY <2>2, InsertStores, MessageTypes DEF Insert, IInv, Posts!Next
  <2>3. ASSUME NEW c \in Clients, PublishStored(c) PROVE Posts!Next
    BY <2>3, PublishPublishes, MessageTypes DEF PublishStored, IInv, Posts!Next
  <2>4. ASSUME NEW c \in Clients, Fail(c), reader[c] = "insert" PROVE Posts!Next
    BY <2>4, FailGivesUp, MessageTypes DEF IInv, Posts!Next
  <2>5. CASE Aside
    BY <2>5, AsideDeletes DEF Posts!Next
  <2> QED
    BY <2>1, <2>2, <2>3, <2>4, <2>5, PostingSteps DEF IInv
<1> QED
  BY <1>1, <1>2, PostedOnceHolds, PTL DEF ChatSpec, ImplementsPosting, Posts!Spec

=============================================================================
