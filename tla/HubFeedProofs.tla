--------------------------- MODULE HubFeedProofs ---------------------------
(***************************************************************************)
(* Proofs about the messages that go through the hub, for any number of    *)
(* connections, channels and messages and any buffer sizes: every peer     *)
(* gets messages in the order in which they were broadcast, and the hub    *)
(* implements Feed.                                                        *)
(***************************************************************************)
EXTENDS HubProofs

-----------------------------------------------------------------------------
(* The inductive invariant.                                                *)

\* How many of the messages broadcast the hub has taken.
Taken == Len(order) - Len(broadcast)

\* No two messages have the same id, broadcast or about to be.
OrderInv ==
  /\ \A i, j \in DOMAIN order : order[i].id = order[j].id => i = j
  /\ \A c \in Clients : reader[c] = "broadcasting" =>
       /\ \A i \in DOMAIN order : order[i].id # arg[c].id
       /\ \A d \in Clients : reader[d] = "broadcasting" /\ arg[d].id = arg[c].id => d = c

\* The queue is the end of what was broadcast, and what the hub has in hand is
\* the message before it.
QueueInv ==
  /\ Len(broadcast) <= Len(order)
  /\ \A k \in DOMAIN broadcast : broadcast[k] = order[Taken + k]
  /\ hub \in {"deliver", "blocked"} =>
       msg \in MessageEnvelope /\ Taken \in DOMAIN order /\ msg = order[Taken]
  /\ hub \notin {"deliver", "blocked"} => msg = None
  /\ iter # None => msg # None /\ iter = msg.ch

\* The messages in the send channel q, in order, are those of s that r does
\* not have yet.
Pending(q, r, s) ==
  \E f \in [1..(Len(s) - Len(r)) -> DOMAIN q] :
    /\ \A i, j \in DOMAIN f : i < j => f[i] < f[j]
    /\ \A p \in DOMAIN q : q[p] \in MessageEnvelope => \E i \in DOMAIN f : f[i] = p
    /\ \A i \in DOMAIN f : q[f[i]] \in MessageEnvelope /\ s[Len(r) + i] = q[f[i]]

\* r is how s begins.
Begins(r, s) ==
  /\ Len(r) <= Len(s)
  /\ \A i \in DOMAIN r : r[i] = s[i]

\* What a peer got and what waits for it is what was put on its send channel.
StreamInv ==
  \A c \in Clients :
    /\ Begins(received[c], sent[c])
    /\ writer[c] # "stopped" => Pending(send[c], received[c], sent[c])
    /\ writer[c] = "stopped" => sent[c] = received[c]
    /\ reader[c] \in {"none", "register"} => writer[c] = "none"

\* What was put on a send channel was taken before, and in that order.
SentInv ==
  \A c \in Clients :
    /\ \A i \in DOMAIN sent[c] : \E k \in 1..Taken : sent[c][i] = order[k]
    /\ \A i, j \in DOMAIN sent[c] : \A k, l \in DOMAIN order :
         i < j /\ sent[c][i] = order[k] /\ sent[c][j] = order[l] => k <= l

FeedInv == IInv /\ OrderInv /\ QueueInv /\ StreamInv /\ SentInv

-----------------------------------------------------------------------------
(* The send channel.                                                       *)

\* A message put on the send channel waits there behind the others.
LEMMA PutMessage ==
  ASSUME NEW q \in Seq(Envelope), NEW r \in Seq(MessageEnvelope), NEW s \in Seq(MessageEnvelope),
         NEW e \in MessageEnvelope, Len(r) <= Len(s), Pending(q, r, s)
  PROVE  Pending(Append(q, e), r, Append(s, e))
<1> DEFINE n == Len(s) - Len(r)
           p == Len(q) + 1
<1>1. PICK f \in [1..n -> DOMAIN q] :
        /\ \A i, j \in DOMAIN f : i < j => f[i] < f[j]
        /\ \A x \in DOMAIN q : q[x] \in MessageEnvelope => \E i \in DOMAIN f : f[i] = x
        /\ \A i \in DOMAIN f : q[f[i]] \in MessageEnvelope /\ s[Len(r) + i] = q[f[i]]
  BY DEF Pending
<1> DEFINE g == [i \in 1..(n + 1) |-> IF i \in 1..n THEN f[i] ELSE p]
<1>2. /\ n \in Nat /\ Len(q) \in Nat /\ Len(s) \in Nat /\ Len(r) \in Nat
      /\ DOMAIN q = 1..Len(q) /\ DOMAIN f = 1..n
      /\ \A i \in 1..n : f[i] \in 1..Len(q)
  <2>1. n \in Nat /\ Len(q) \in Nat /\ Len(s) \in Nat /\ Len(r) \in Nat
    BY LenProperties
  <2>2. DOMAIN q = 1..Len(q)
    BY LenProperties
  <2> QED
    BY <2>1, <2>2
<1>3. /\ Append(q, e) \in Seq(Envelope) /\ Len(Append(q, e)) = p
      /\ DOMAIN Append(q, e) = 1..p
      /\ Append(q, e)[p] = e
      /\ \A x \in 1..Len(q) : Append(q, e)[x] = q[x]
  BY AppendProperties DEF Envelope
<1>4. /\ Len(Append(s, e)) = Len(s) + 1
      /\ Append(s, e)[Len(s) + 1] = e
      /\ \A x \in 1..Len(s) : Append(s, e)[x] = s[x]
  BY AppendProperties
<1>5. /\ g \in [1..(n + 1) -> 1..p]
      /\ DOMAIN g = 1..(n + 1)
      /\ g[n + 1] = p
      /\ \A i \in 1..n : g[i] = f[i]
  BY <1>2
<1>6. /\ Len(r) + (n + 1) = Len(s) + 1
      /\ \A i \in 1..n : Len(r) + i \in 1..Len(s)
      /\ \A i \in 1..(n + 1) : i = n + 1 \/ i \in 1..n
      /\ p \in Nat /\ \A x \in 1..Len(q) : x < p
  <2>1. Len(r) + (n + 1) = Len(s) + 1
    BY <1>2
  <2>2. \A i \in 1..n : Len(r) + i \in 1..Len(s)
    BY <1>2
  <2>3. \A i \in 1..(n + 1) : i = n + 1 \/ i \in 1..n
    <3> HIDE DEF n
    <3> QED
      BY <1>2
  <2>4. p \in Nat /\ \A x \in 1..Len(q) : x < p
    BY <1>2
  <2> QED
    BY <2>1, <2>2, <2>3, <2>4
<1>10. Len(Append(s, e)) - Len(r) = n + 1
  BY <1>2, <1>4
<1> HIDE DEF g, n
<1>7. \A i, j \in DOMAIN g : i < j => g[i] < g[j]
  <2> SUFFICES ASSUME NEW i \in 1..(n + 1), NEW j \in 1..(n + 1), i < j
               PROVE  g[i] < g[j]
    BY <1>5
  <2>1. i \in 1..n
    BY <1>2
  <2>2. CASE j = n + 1
    BY <2>1, <2>2, <1>2, <1>5, <1>6
  <2>3. CASE j \in 1..n
    BY <2>1, <2>3, <1>1, <1>2, <1>5
  <2> QED
    BY <2>2, <2>3, <1>6
<1>8. \A x \in 1..p :
        Append(q, e)[x] \in MessageEnvelope => \E i \in DOMAIN g : g[i] = x
  <2> SUFFICES ASSUME NEW x \in 1..p, Append(q, e)[x] \in MessageEnvelope
               PROVE  \E i \in DOMAIN g : g[i] = x
    OBVIOUS
  <2>1. CASE x = p
    BY <2>1, <1>2, <1>5
  <2>2. CASE x \in 1..Len(q)
    <3>1. PICK i \in 1..n : f[i] = x
      BY <2>2, <1>1, <1>2, <1>3
    <3> QED
      BY <3>1, <1>2, <1>5
  <2> QED
    BY <2>1, <2>2, <1>2
<1>9. \A i \in 1..(n + 1) : /\ Append(q, e)[g[i]] \in MessageEnvelope
                            /\ Append(s, e)[Len(r) + i] = Append(q, e)[g[i]]
  <2> SUFFICES ASSUME NEW i \in 1..(n + 1)
               PROVE  /\ Append(q, e)[g[i]] \in MessageEnvelope
                      /\ Append(s, e)[Len(r) + i] = Append(q, e)[g[i]]
    OBVIOUS
  <2>1. CASE i = n + 1
    BY <2>1, <1>3, <1>4, <1>5, <1>6
  <2>2. CASE i \in 1..n
    <3>1. f[i] \in 1..Len(q)
      BY <2>2, <1>2
    <3>2. q[f[i]] \in MessageEnvelope /\ s[Len(r) + i] = q[f[i]]
      BY <2>2, <1>1, <1>2
    <3> QED
      BY <2>2, <3>1, <3>2, <1>3, <1>4, <1>5, <1>6
  <2> QED
    BY <2>1, <2>2, <1>6
<1> QED
  BY <1>3, <1>5, <1>7, <1>8, <1>9, <1>10 DEF Pending

\* Another envelope put there changes nothing for the messages.
LEMMA PutReply ==
  ASSUME NEW q \in Seq(Envelope), NEW r \in Seq(MessageEnvelope), NEW s \in Seq(MessageEnvelope),
         NEW e \in Replies, Pending(q, r, s)
  PROVE  Pending(Append(q, e), r, s)
<1>1. PICK f \in [1..(Len(s) - Len(r)) -> DOMAIN q] :
        /\ \A i, j \in DOMAIN f : i < j => f[i] < f[j]
        /\ \A x \in DOMAIN q : q[x] \in MessageEnvelope => \E i \in DOMAIN f : f[i] = x
        /\ \A i \in DOMAIN f : q[f[i]] \in MessageEnvelope /\ s[Len(r) + i] = q[f[i]]
  BY DEF Pending
<1>2. Len(q) \in Nat /\ DOMAIN q = 1..Len(q)
  BY LenProperties
<1>3. /\ DOMAIN Append(q, e) = 1..(Len(q) + 1)
      /\ Append(q, e)[Len(q) + 1] = e
      /\ \A x \in 1..Len(q) : Append(q, e)[x] = q[x]
  BY AppendProperties DEF Envelope
<1>4. e \notin MessageEnvelope
  BY ReplyAssumption
<1>5. f \in [1..(Len(s) - Len(r)) -> DOMAIN Append(q, e)]
  BY <1>2, <1>3
<1>6. \A x \in DOMAIN Append(q, e) :
        Append(q, e)[x] \in MessageEnvelope => \E i \in DOMAIN f : f[i] = x
  BY <1>1, <1>2, <1>3, <1>4
<1>7. \A i \in DOMAIN f : /\ Append(q, e)[f[i]] \in MessageEnvelope
                          /\ s[Len(r) + i] = Append(q, e)[f[i]]
  BY <1>1, <1>2, <1>3
<1> QED
  BY <1>1, <1>5, <1>6, <1>7 DEF Pending

\* The first envelope, if it is a message, is the next one the peer does not
\* have.
LEMMA GetMessage ==
  ASSUME NEW q \in Seq(Envelope), NEW r \in Seq(MessageEnvelope), NEW s \in Seq(MessageEnvelope),
         q # <<>>, Head(q) \in MessageEnvelope, Begins(r, s), Pending(q, r, s)
  PROVE  Begins(Append(r, Head(q)), s) /\ Pending(Tail(q), Append(r, Head(q)), s)
<1> DEFINE n == Len(s) - Len(r)
           e == Head(q)
<1>1. PICK f \in [1..n -> DOMAIN q] :
        /\ \A i, j \in DOMAIN f : i < j => f[i] < f[j]
        /\ \A x \in DOMAIN q : q[x] \in MessageEnvelope => \E i \in DOMAIN f : f[i] = x
        /\ \A i \in DOMAIN f : q[f[i]] \in MessageEnvelope /\ s[Len(r) + i] = q[f[i]]
  BY DEF Pending
<1>2. /\ n \in Nat /\ Len(q) \in Nat /\ Len(s) \in Nat /\ Len(r) \in Nat
      /\ DOMAIN q = 1..Len(q) /\ DOMAIN f = 1..n /\ DOMAIN r = 1..Len(r)
      /\ \A i \in 1..n : f[i] \in 1..Len(q)
  <2>1. n \in Nat /\ Len(q) \in Nat /\ Len(s) \in Nat /\ Len(r) \in Nat
    BY LenProperties DEF Begins
  <2>2. DOMAIN q = 1..Len(q) /\ DOMAIN r = 1..Len(r)
    BY LenProperties
  <2> QED
    BY <2>1, <2>2
<1>3. /\ Len(q) > 0 /\ e = q[1]
      /\ DOMAIN Tail(q) = 1..(Len(q) - 1)
      /\ \A x \in 1..(Len(q) - 1) : Tail(q)[x] = q[x + 1]
  BY HeadTailProperties, EmptySeq, LenProperties
<1>4. /\ Len(Append(r, e)) = Len(r) + 1
      /\ DOMAIN Append(r, e) = 1..(Len(r) + 1)
      /\ Append(r, e)[Len(r) + 1] = e
      /\ \A x \in 1..Len(r) : Append(r, e)[x] = r[x]
  BY AppendProperties
<1>5. n > 0 /\ f[1] = 1
  <2>1. PICK i \in 1..n : f[i] = 1
    BY <1>1, <1>2, <1>3
  <2>2. i = 1 \/ f[1] < f[i]
    BY <2>1, <1>1, <1>2
  <2>3. f[1] \in 1..Len(q)
    BY <2>1, <1>2
  <2> QED
    BY <2>1, <2>2, <2>3, <1>2
<1>6. s[Len(r) + 1] = e
  BY <1>1, <1>2, <1>3, <1>5
<1>7. Begins(Append(r, e), s)
  BY <1>2, <1>4, <1>5, <1>6 DEF Begins
<1>8. \A i \in 1..(n - 1) : i + 1 \in 1..n /\ f[i + 1] \in 2..Len(q)
  <2> SUFFICES ASSUME NEW i \in 1..(n - 1)
               PROVE  i + 1 \in 1..n /\ f[i + 1] \in 2..Len(q)
    OBVIOUS
  <2>1. i + 1 \in 1..n /\ 1 < i + 1 /\ 1 \in 1..n
    BY <1>2
  <2>2. f[1] < f[i + 1] /\ f[i + 1] \in 1..Len(q)
    BY <2>1, <1>1, <1>2
  <2> QED
    BY <2>1, <2>2, <1>2, <1>5
<1> DEFINE g == [i \in 1..(n - 1) |-> f[i + 1] - 1]
<1>9. /\ g \in [1..(n - 1) -> 1..(Len(q) - 1)]
      /\ DOMAIN g = 1..(n - 1)
      /\ \A i \in 1..(n - 1) : g[i] = f[i + 1] - 1
  <2>1. \A i \in 1..(n - 1) : f[i + 1] - 1 \in 1..(Len(q) - 1)
    BY <1>2, <1>8
  <2> QED
    BY <2>1
<1>10. Len(s) - Len(Append(r, e)) = n - 1
  BY <1>2, <1>4
<1> HIDE DEF g
<1>11. \A i, j \in DOMAIN g : i < j => g[i] < g[j]
  <2> SUFFICES ASSUME NEW i \in 1..(n - 1), NEW j \in 1..(n - 1), i < j
               PROVE  g[i] < g[j]
    BY <1>9
  <2>1. f[i + 1] < f[j + 1]
    BY <1>1, <1>2, <1>8
  <2> QED
    BY <2>1, <1>2, <1>8, <1>9
<1>12. \A x \in DOMAIN Tail(q) : Tail(q)[x] \in MessageEnvelope => \E i \in DOMAIN g : g[i] = x
  <2> SUFFICES ASSUME NEW x \in 1..(Len(q) - 1), q[x + 1] \in MessageEnvelope
               PROVE  \E i \in DOMAIN g : g[i] = x
    BY <1>3
  <2>0. x + 1 \in 1..Len(q)
    BY <1>2
  <2>1. PICK i \in 1..n : f[i] = x + 1
    BY <2>0, <1>1, <1>2
  <2>2. i - 1 \in 1..(n - 1) /\ (i - 1) + 1 = i
    BY <2>1, <1>2, <1>5
  <2>3. g[i - 1] = x
    BY <2>1, <2>2, <1>9
  <2> QED
    BY <2>2, <2>3, <1>9
<1>13. \A i \in DOMAIN g : /\ Tail(q)[g[i]] \in MessageEnvelope
                           /\ s[Len(Append(r, e)) + i] = Tail(q)[g[i]]
  <2> SUFFICES ASSUME NEW i \in 1..(n - 1)
               PROVE  /\ Tail(q)[g[i]] \in MessageEnvelope
                      /\ s[Len(Append(r, e)) + i] = Tail(q)[g[i]]
    BY <1>9
  <2>1. g[i] \in 1..(Len(q) - 1) /\ g[i] + 1 = f[i + 1]
    BY <1>2, <1>8, <1>9
  <2>2. Tail(q)[g[i]] = q[f[i + 1]]
    BY <2>1, <1>3
  <2>3. q[f[i + 1]] \in MessageEnvelope /\ s[Len(r) + (i + 1)] = q[f[i + 1]]
    BY <1>1, <1>2, <1>8
  <2>4. Len(Append(r, e)) + i = Len(r) + (i + 1)
    BY <1>2, <1>4
  <2> QED
    BY <2>2, <2>3, <2>4
<1>14. Pending(Tail(q), Append(r, e), s)
  BY <1>3, <1>9, <1>10, <1>11, <1>12, <1>13 DEF Pending
<1> QED
  BY <1>7, <1>14

\* If it is none, the messages behind it wait on.
LEMMA GetReply ==
  ASSUME NEW q \in Seq(Envelope), NEW r \in Seq(MessageEnvelope), NEW s \in Seq(MessageEnvelope),
         q # <<>>, Head(q) \notin MessageEnvelope, Pending(q, r, s)
  PROVE  Pending(Tail(q), r, s)
<1> DEFINE n == Len(s) - Len(r)
<1>1. PICK f \in [1..n -> DOMAIN q] :
        /\ \A i, j \in DOMAIN f : i < j => f[i] < f[j]
        /\ \A x \in DOMAIN q : q[x] \in MessageEnvelope => \E i \in DOMAIN f : f[i] = x
        /\ \A i \in DOMAIN f : q[f[i]] \in MessageEnvelope /\ s[Len(r) + i] = q[f[i]]
  BY DEF Pending
<1>2. Len(q) \in Nat /\ DOMAIN q = 1..Len(q) /\ DOMAIN f = 1..n
      /\ \A i \in 1..n : f[i] \in 1..Len(q)
  BY LenProperties
<1>3. /\ Len(q) > 0 /\ Head(q) = q[1]
      /\ DOMAIN Tail(q) = 1..(Len(q) - 1)
      /\ \A x \in 1..(Len(q) - 1) : Tail(q)[x] = q[x + 1]
  BY HeadTailProperties, EmptySeq, LenProperties
<1>4. \A i \in 1..n : f[i] \in 2..Len(q)
  <2> SUFFICES ASSUME NEW i \in 1..n
               PROVE  f[i] \in 2..Len(q)
    OBVIOUS
  <2>1. f[i] # 1 /\ f[i] \in 1..Len(q)
    BY <1>1, <1>2, <1>3
  <2> QED
    BY <2>1, <1>2
<1> DEFINE g == [i \in 1..n |-> f[i] - 1]
<1>5. /\ g \in [1..n -> 1..(Len(q) - 1)]
      /\ DOMAIN g = 1..n
      /\ \A i \in 1..n : g[i] = f[i] - 1
  BY <1>2, <1>4
<1> HIDE DEF g
<1>6. \A i, j \in DOMAIN g : i < j => g[i] < g[j]
  <2> SUFFICES ASSUME NEW i \in 1..n, NEW j \in 1..n, i < j
               PROVE  g[i] < g[j]
    BY <1>5
  <2>1. f[i] < f[j]
    BY <1>1, <1>2
  <2> QED
    BY <2>1, <1>2, <1>4, <1>5
<1>7. \A x \in DOMAIN Tail(q) : Tail(q)[x] \in MessageEnvelope => \E i \in DOMAIN g : g[i] = x
  <2> SUFFICES ASSUME NEW x \in 1..(Len(q) - 1), q[x + 1] \in MessageEnvelope
               PROVE  \E i \in DOMAIN g : g[i] = x
    BY <1>3
  <2>0. x + 1 \in 1..Len(q)
    BY <1>2
  <2>1. PICK i \in 1..n : f[i] = x + 1
    BY <2>0, <1>1, <1>2
  <2> QED
    BY <2>1, <1>5
<1>8. \A i \in DOMAIN g : /\ Tail(q)[g[i]] \in MessageEnvelope
                          /\ s[Len(r) + i] = Tail(q)[g[i]]
  <2> SUFFICES ASSUME NEW i \in 1..n
               PROVE  /\ Tail(q)[g[i]] \in MessageEnvelope
                      /\ s[Len(r) + i] = Tail(q)[g[i]]
    BY <1>5
  <2>1. g[i] \in 1..(Len(q) - 1) /\ g[i] + 1 = f[i]
    BY <1>2, <1>4, <1>5
  <2>2. Tail(q)[g[i]] = q[f[i]]
    BY <2>1, <1>3
  <2> QED
    BY <2>2, <1>1, <1>2
<1> QED
  BY <1>3, <1>5, <1>6, <1>7, <1>8 DEF Pending

-----------------------------------------------------------------------------
(* The steps keep it.                                                      *)

\* Ids stay apart.
LEMMA OrderStep ==
  ASSUME TypeOK, RegistersOK, OrderInv, Next
  PROVE  OrderInv'
<1> USE DEF TypeOK, RegistersOK, OrderInv, hubVars, readerVars, pumpVars
<1>1. CASE HubAdd
  BY <1>1 DEF HubAdd
<1>2. CASE HubRemove
  BY <1>2 DEF HubRemove
<1>3. CASE HubCleanup
  BY <1>3 DEF HubCleanup
<1>4. CASE HubTake
  BY <1>4 DEF HubTake
<1>5. CASE HubDone
  BY <1>5 DEF HubDone
<1>6. ASSUME NEW c \in Clients, HubRegister(c)
      PROVE  OrderInv'
  BY <1>6 DEF HubRegister
<1>7. ASSUME NEW c \in Clients, HubUnregister(c)
      PROVE  OrderInv'
  BY <1>7 DEF HubUnregister
<1>8. ASSUME NEW c \in Clients, HubDeliver(c)
      PROVE  OrderInv'
  BY <1>8 DEF HubDeliver, TrySend, HasRoom
<1>9. ASSUME NEW c \in Clients, Connect(c)
      PROVE  OrderInv'
  BY <1>9 DEF Connect
<1>10. ASSUME NEW c \in Clients, NEW ch \in Channels, Subscribe(c, ch)
      PROVE  OrderInv'
  BY <1>10 DEF Subscribe, Request, JoinChannel, MapWritten
<1>11. ASSUME NEW c \in Clients, SubscribeDone(c)
      PROVE  OrderInv'
  BY <1>11 DEF SubscribeDone, Resume
<1>12. ASSUME NEW c \in Clients, NEW ch \in Channels, Unsubscribe(c, ch)
      PROVE  OrderInv'
  BY <1>12 DEF Unsubscribe, Request, LeaveChannel, MapWritten
<1>13. ASSUME NEW c \in Clients, UnsubscribeDone(c)
      PROVE  OrderInv'
  BY <1>13 DEF UnsubscribeDone, Resume
<1>14. ASSUME NEW c \in Clients, NEW m \in MessageEnvelope, SendMessage(c, m)
      PROVE  OrderInv'
  <2>1. /\ \A i \in DOMAIN order : order[i].id # m.id
        /\ \A d \in Clients : reader[d] = "broadcasting" => arg[d].id # m.id
    BY <1>14 DEF SendMessage, Fresh
  <2> QED
    BY <1>14, <2>1 DEF SendMessage, Request
<1>15. ASSUME NEW c \in Clients, Broadcast(c)
      PROVE  OrderInv'
  <2>1. /\ arg[c] \in MessageEnvelope
        /\ order' = Append(order, arg[c])
        /\ \A i \in DOMAIN order : order[i].id # arg[c].id
        /\ \A d \in Clients : reader'[d] = "broadcasting" =>
             d # c /\ reader[d] = "broadcasting" /\ arg'[d] = arg[d]
    BY <1>15 DEF Broadcast, Resume
  <2>2. /\ DOMAIN order' = 1..(Len(order) + 1) /\ DOMAIN order = 1..Len(order)
        /\ Len(order) \in Nat
        /\ order'[Len(order) + 1] = arg[c]
        /\ \A i \in 1..Len(order) : order'[i] = order[i]
    BY <2>1, AppendProperties, LenProperties
  <2>3. \A i \in DOMAIN order' : i \in DOMAIN order \/ i = Len(order) + 1
    <3> HIDE DEF TypeOK, RegistersOK, OrderInv
    <3>1. \A n \in Nat : \A i \in 1..(n + 1) : i \in 1..n \/ i = n + 1
      OBVIOUS
    <3> QED
      BY <2>2, <3>1
  <2>4. \A i, j \in DOMAIN order' : order'[i].id = order'[j].id => i = j
    BY <2>1, <2>2, <2>3
  <2>5. \A d \in Clients : reader'[d] = "broadcasting" =>
          \A i \in DOMAIN order' : order'[i].id # arg'[d].id
    BY <1>15, <2>1, <2>2, <2>3 DEF Broadcast
  <2>6. \A d1, d2 \in Clients :
          /\ reader'[d1] = "broadcasting" /\ reader'[d2] = "broadcasting"
          /\ arg'[d1].id = arg'[d2].id
          => d1 = d2
    BY <2>1
  <2> QED
    BY <2>4, <2>5, <2>6
<1>16. ASSUME NEW c \in Clients, NEW e \in Replies, Reply(c, e)
      PROVE  OrderInv'
  BY <1>16 DEF Reply, Request, TrySend, HasRoom
<1>17. ASSUME NEW c \in Clients, ReadFails(c)
      PROVE  OrderInv'
  BY <1>17 DEF ReadFails
<1>18. ASSUME NEW c \in Clients, ReaderExits(c)
      PROVE  OrderInv'
  BY <1>18 DEF ReaderExits
<1>19. ASSUME NEW c \in Clients, WriteOk(c)
      PROVE  OrderInv'
  BY <1>19 DEF WriteOk
<1>20. ASSUME NEW c \in Clients, WriteFails(c)
      PROVE  OrderInv'
  BY <1>20 DEF WriteFails, WriterStops
<1>21. ASSUME NEW c \in Clients, PingFails(c)
      PROVE  OrderInv'
  BY <1>21 DEF PingFails, WriterStops
<1>22. ASSUME NEW c \in Clients, WriterSeesClose(c)
      PROVE  OrderInv'
  BY <1>22 DEF WriterSeesClose, WriterStops
<1>23. ASSUME NEW c \in Clients, NEW e \in Replies, Greet(c, e)
      PROVE  OrderInv'
  BY <1>23 DEF Greet, TrySend, HasRoom
<1>24. ASSUME NEW c \in Clients, GreetFails(c)
      PROVE  OrderInv'
  BY <1>24 DEF GreetFails
<1>25. ASSUME NEW c \in Clients, NEW e \in Replies, SendList(c, e)
      PROVE  OrderInv'
  BY <1>25 DEF SendList, TrySend, HasRoom
<1> QED
  BY <1>1, <1>2, <1>3, <1>4, <1>5, <1>6, <1>7, <1>8, <1>9, <1>10, <1>11, <1>12, <1>13,
     <1>14, <1>15, <1>16, <1>17, <1>18, <1>19, <1>20, <1>21, <1>22, <1>23, <1>24, <1>25
  DEF Next, HubLoop, HubStep, ReaderStep, PumpStep

\* The queue goes on where the hub is.
LEMMA QueueStep ==
  ASSUME TypeOK, RegistersOK, QueueInv, Next
  PROVE  QueueInv'
<1> USE DEF TypeOK, RegistersOK, QueueInv, Taken, hubVars, readerVars, pumpVars
<1>1. CASE HubAdd
  BY <1>1 DEF HubAdd
<1>2. CASE HubRemove
  BY <1>2 DEF HubRemove
<1>3. CASE HubCleanup
  BY <1>3 DEF HubCleanup
<1>4. CASE HubTake
  <2>1. /\ Head(broadcast) = broadcast[1] /\ Len(broadcast) \in Nat /\ Len(broadcast) > 0
        /\ Len(order) \in Nat /\ DOMAIN order = 1..Len(order)
        /\ Len(Tail(broadcast)) = Len(broadcast) - 1
        /\ DOMAIN Tail(broadcast) = 1..(Len(broadcast) - 1)
        /\ DOMAIN broadcast = 1..Len(broadcast)
        /\ \A k \in 1..(Len(broadcast) - 1) : Tail(broadcast)[k] = broadcast[k + 1]
    BY <1>4, HeadTailProperties, LenProperties, EmptySeq DEF HubTake
  <2>2. Head(broadcast) = order[Taken + 1] /\ Taken' = Taken + 1 /\ Taken' \in DOMAIN order'
    <3>1. 1 \in DOMAIN broadcast
      BY <2>1
    <3>2. broadcast[1] = order[Taken + 1]
      BY <3>1
    <3>3. order' = order /\ broadcast' = Tail(broadcast)
      BY <1>4 DEF HubTake
    <3>4. Len(broadcast) <= Len(order)
      OBVIOUS
    <3> HIDE DEF TypeOK, RegistersOK, QueueInv
    <3>5. Len(order') = Len(order) /\ Len(broadcast') = Len(broadcast) - 1
      BY <2>1, <3>3
    <3>6. Taken' = Taken + 1
      BY <2>1, <3>5
    <3>7. Taken + 1 \in 1..Len(order)
      BY <2>1, <3>4
    <3> QED
      BY <2>1, <3>2, <3>3, <3>6, <3>7
  <2>3. \A k \in DOMAIN broadcast' : broadcast'[k] = order'[Taken' + k]
    <3>0. order' = order /\ broadcast' = Tail(broadcast)
      BY <1>4 DEF HubTake
    <3> SUFFICES ASSUME NEW k \in DOMAIN broadcast'
                 PROVE  broadcast'[k] = order'[Taken' + k]
      OBVIOUS
    <3>4. k \in 1..(Len(broadcast) - 1)
      BY <2>1, <3>0
    <3>1. k + 1 \in DOMAIN broadcast /\ Taken' + k = Taken + (k + 1)
      <4>1. k + 1 \in DOMAIN broadcast
        BY <2>1, <3>4
      <4>2. Taken \in Int
        BY <2>1
      <4> HIDE DEF Taken
      <4> QED
        BY <2>2, <3>4, <4>1, <4>2
    <3>2. broadcast[k + 1] = order[Taken + (k + 1)]
      BY <3>1
    <3>3. Tail(broadcast)[k] = broadcast[k + 1]
      BY <2>1, <3>4
    <3> QED
      BY <3>0, <3>1, <3>2, <3>3
  <2>4. Len(broadcast') <= Len(order')
    BY <1>4, <2>1 DEF HubTake
  <2>5. /\ hub' = "deliver" /\ msg' = Head(broadcast) /\ msg' \in MessageEnvelope
        /\ iter' \in {None, msg'.ch} /\ msg' = order'[Taken']
    BY <1>4, <2>2, HeadTyped DEF HubTake
  <2> QED
    BY <2>2, <2>3, <2>4, <2>5, NoneAssumption
<1>5. CASE HubDone
  BY <1>5 DEF HubDone
<1>6. ASSUME NEW c \in Clients, HubRegister(c)
      PROVE  QueueInv'
  BY <1>6 DEF HubRegister
<1>7. ASSUME NEW c \in Clients, HubUnregister(c)
      PROVE  QueueInv'
  BY <1>7 DEF HubUnregister
<1>8. ASSUME NEW c \in Clients, HubDeliver(c)
      PROVE  QueueInv'
  BY <1>8 DEF HubDeliver, TrySend, HasRoom
<1>9. ASSUME NEW c \in Clients, Connect(c)
      PROVE  QueueInv'
  BY <1>9 DEF Connect
<1>10. ASSUME NEW c \in Clients, NEW ch \in Channels, Subscribe(c, ch)
      PROVE  QueueInv'
  BY <1>10 DEF Subscribe, Request, JoinChannel, MapWritten
<1>11. ASSUME NEW c \in Clients, SubscribeDone(c)
      PROVE  QueueInv'
  BY <1>11 DEF SubscribeDone, Resume
<1>12. ASSUME NEW c \in Clients, NEW ch \in Channels, Unsubscribe(c, ch)
      PROVE  QueueInv'
  BY <1>12 DEF Unsubscribe, Request, LeaveChannel, MapWritten
<1>13. ASSUME NEW c \in Clients, UnsubscribeDone(c)
      PROVE  QueueInv'
  BY <1>13 DEF UnsubscribeDone, Resume
<1>14. ASSUME NEW c \in Clients, NEW m \in MessageEnvelope, SendMessage(c, m)
      PROVE  QueueInv'
  BY <1>14 DEF SendMessage, Request
<1>15. ASSUME NEW c \in Clients, Broadcast(c)
      PROVE  QueueInv'
  <2>1. /\ arg[c] \in MessageEnvelope
        /\ broadcast' = Append(broadcast, arg[c])
        /\ order' = Append(order, arg[c])
    BY <1>15 DEF Broadcast
  <2>2. /\ Len(broadcast) \in Nat /\ Len(order) \in Nat
        /\ Len(broadcast') = Len(broadcast) + 1 /\ Len(order') = Len(order) + 1
        /\ DOMAIN broadcast' = 1..(Len(broadcast) + 1) /\ DOMAIN broadcast = 1..Len(broadcast)
        /\ DOMAIN order' = 1..(Len(order) + 1) /\ DOMAIN order = 1..Len(order)
        /\ broadcast'[Len(broadcast) + 1] = arg[c] /\ order'[Len(order) + 1] = arg[c]
        /\ \A k \in 1..Len(broadcast) : broadcast'[k] = broadcast[k]
        /\ \A k \in 1..Len(order) : order'[k] = order[k]
    BY <2>1, AppendProperties, LenProperties
  <2>3. Taken' = Taken /\ Len(broadcast') <= Len(order')
    BY <2>2
  <2>4. \A k \in DOMAIN broadcast' : broadcast'[k] = order'[Taken + k]
    <3> SUFFICES ASSUME NEW k \in 1..(Len(broadcast) + 1)
                 PROVE  broadcast'[k] = order'[Taken + k]
      BY <2>2
    <3>1. CASE k = Len(broadcast) + 1
      BY <3>1, <2>2
    <3>2. CASE k \in 1..Len(broadcast)
      <4>1. Taken + k \in 1..Len(order)
        BY <3>2, <2>2
      <4> QED
        BY <3>2, <4>1, <2>2
    <3> QED
      BY <3>1, <3>2, <2>2
  <2>5. Taken \in DOMAIN order => Taken \in DOMAIN order' /\ order'[Taken] = order[Taken]
    <3> HIDE DEF TypeOK, RegistersOK, QueueInv, Taken
    <3> QED
      BY <2>2
  <2>6. hub' = hub /\ msg' = msg /\ iter' = iter
    BY <1>15 DEF Broadcast
  <2>7. hub' \in {"deliver", "blocked"} =>
          msg' \in MessageEnvelope /\ Taken' \in DOMAIN order' /\ msg' = order'[Taken']
    BY <2>3, <2>5, <2>6
  <2>8. \A k \in DOMAIN broadcast' : broadcast'[k] = order'[Taken' + k]
    BY <2>3, <2>4
  <2> HIDE DEF Taken
  <2> QED
    BY <2>3, <2>6, <2>7, <2>8
<1>16. ASSUME NEW c \in Clients, NEW e \in Replies, Reply(c, e)
      PROVE  QueueInv'
  BY <1>16 DEF Reply, Request, TrySend, HasRoom
<1>17. ASSUME NEW c \in Clients, ReadFails(c)
      PROVE  QueueInv'
  BY <1>17 DEF ReadFails
<1>18. ASSUME NEW c \in Clients, ReaderExits(c)
      PROVE  QueueInv'
  BY <1>18 DEF ReaderExits
<1>19. ASSUME NEW c \in Clients, WriteOk(c)
      PROVE  QueueInv'
  BY <1>19 DEF WriteOk
<1>20. ASSUME NEW c \in Clients, WriteFails(c)
      PROVE  QueueInv'
  BY <1>20 DEF WriteFails, WriterStops
<1>21. ASSUME NEW c \in Clients, PingFails(c)
      PROVE  QueueInv'
  BY <1>21 DEF PingFails, WriterStops
<1>22. ASSUME NEW c \in Clients, WriterSeesClose(c)
      PROVE  QueueInv'
  BY <1>22 DEF WriterSeesClose, WriterStops
<1>23. ASSUME NEW c \in Clients, NEW e \in Replies, Greet(c, e)
      PROVE  QueueInv'
  BY <1>23 DEF Greet, TrySend, HasRoom
<1>24. ASSUME NEW c \in Clients, GreetFails(c)
      PROVE  QueueInv'
  BY <1>24 DEF GreetFails
<1>25. ASSUME NEW c \in Clients, NEW e \in Replies, SendList(c, e)
      PROVE  QueueInv'
  BY <1>25 DEF SendList, TrySend, HasRoom
<1> QED
  BY <1>1, <1>2, <1>3, <1>4, <1>5, <1>6, <1>7, <1>8, <1>9, <1>10, <1>11, <1>12, <1>13,
     <1>14, <1>15, <1>16, <1>17, <1>18, <1>19, <1>20, <1>21, <1>22, <1>23, <1>24, <1>25
  DEF Next, HubLoop, HubStep, ReaderStep, PumpStep

\* A message that finds room begins what the peer gets no later than before.
LEMMA BeginsStep ==
  ASSUME NEW r \in Seq(MessageEnvelope), NEW s \in Seq(MessageEnvelope), NEW e \in MessageEnvelope,
         Begins(r, s)
  PROVE  Begins(r, Append(s, e))
<1>1. /\ Len(r) \in Nat /\ Len(s) \in Nat /\ DOMAIN r = 1..Len(r)
      /\ Len(Append(s, e)) = Len(s) + 1
      /\ \A i \in 1..Len(s) : Append(s, e)[i] = s[i]
  BY AppendProperties, LenProperties
<1>2. Len(r) <= Len(s) /\ \A i \in 1..Len(r) : r[i] = s[i]
  BY <1>1 DEF Begins
<1>3. \A i \in 1..Len(r) : i \in 1..Len(s)
  BY <1>1, <1>2
<1>4. Len(r) <= Len(s) + 1
  BY <1>1, <1>2
<1> QED
  BY <1>1, <1>2, <1>3, <1>4 DEF Begins

\* A send leaves the streams whole, whatever it finds.
LEMMA TrySendStream ==
  ASSUME TypeOK, StreamInv, NEW c \in Clients, NEW e \in Envelope, NEW who \in Faults,
         TrySend(c, e, who), UNCHANGED <<writer, received>>,
         \A d \in Clients : reader'[d] \in {"none", "register"} => reader[d] \in {"none", "register"}
  PROVE  StreamInv'
<1>1. CASE send' = send /\ sent' = sent
  BY <1>1 DEF StreamInv
<1>2. CASE c \notin closed /\ HasRoom(c)
  <2>1. /\ send' = [send EXCEPT ![c] = Append(send[c], e)]
        /\ sent' = IF e \in MessageEnvelope /\ writer[c] # "stopped"
                     THEN [sent EXCEPT ![c] = Append(sent[c], e)] ELSE sent
    BY <1>2 DEF TrySend
  <2>2. /\ send[c] \in Seq(Envelope) /\ received[c] \in Seq(MessageEnvelope)
        /\ sent[c] \in Seq(MessageEnvelope)
        /\ send' \in [Clients -> Seq(Envelope)]
    BY TrySendTyped DEF TypeOK
  <2>3. /\ Begins(received[c], sent[c])
        /\ writer[c] # "stopped" => Pending(send[c], received[c], sent[c])
        /\ writer[c] = "stopped" => sent[c] = received[c]
    BY DEF StreamInv
  <2>4. /\ Begins(received[c], sent'[c])
        /\ writer[c] # "stopped" => Pending(send'[c], received[c], sent'[c])
        /\ writer[c] = "stopped" => sent'[c] = received[c]
    <3>1. send'[c] = Append(send[c], e)
      BY <2>1 DEF TypeOK
    <3>2. CASE writer[c] = "stopped"
      BY <2>1, <2>3, <3>2
    <3>3. CASE writer[c] # "stopped" /\ e \in MessageEnvelope
      <4>1. sent'[c] = Append(sent[c], e)
        BY <2>1, <3>3 DEF TypeOK
      <4>2. Len(received[c]) <= Len(sent[c])
        BY <2>3 DEF Begins
      <4>3. Pending(Append(send[c], e), received[c], Append(sent[c], e))
        BY <2>2, <2>3, <3>3, <4>2, PutMessage
      <4>4. Begins(received[c], Append(sent[c], e))
        BY <2>2, <2>3, <3>3, BeginsStep
      <4> QED
        BY <3>1, <3>3, <4>1, <4>3, <4>4
    <3>4. CASE writer[c] # "stopped" /\ e \notin MessageEnvelope
      <4>1. sent' = sent /\ e \in Replies
        BY <2>1, <3>4 DEF Envelope
      <4>2. Pending(Append(send[c], e), received[c], sent[c])
        BY <2>2, <2>3, <3>4, <4>1, PutReply
      <4> QED
        BY <2>3, <3>1, <3>4, <4>1, <4>2
    <3> QED
      BY <3>2, <3>3, <3>4
  <2>5. \A d \in Clients \ {c} : send'[d] = send[d] /\ sent'[d] = sent[d]
    BY <2>1 DEF TypeOK
  <2>6. ASSUME NEW d \in Clients
        PROVE  /\ Begins(received'[d], sent'[d])
               /\ writer'[d] # "stopped" => Pending(send'[d], received'[d], sent'[d])
               /\ writer'[d] = "stopped" => sent'[d] = received'[d]
               /\ reader'[d] \in {"none", "register"} => writer'[d] = "none"
    <3>1. CASE d = c
      BY <2>4, <3>1 DEF StreamInv
    <3>2. CASE d # c
      BY <2>5, <3>2 DEF StreamInv
    <3> QED
      BY <3>1, <3>2
  <2> QED
    BY <2>6 DEF StreamInv
<1> QED
  BY <1>1, <1>2 DEF TrySend

\* A writer that stops leaves the peer what it got.
LEMMA StopStream ==
  ASSUME TypeOK, StreamInv, NEW c \in Clients, WriterStops(c), writer[c] = "running",
         UNCHANGED <<received, reader>>,
         \A d \in Clients \ {c} : send'[d] = send[d]
  PROVE  StreamInv'
<1> SUFFICES ASSUME NEW d \in Clients
             PROVE  /\ Begins(received'[d], sent'[d])
                    /\ writer'[d] # "stopped" => Pending(send'[d], received'[d], sent'[d])
                    /\ writer'[d] = "stopped" => sent'[d] = received'[d]
                    /\ reader'[d] \in {"none", "register"} => writer'[d] = "none"
  BY DEF StreamInv
<1>1. CASE d = c
  <2>1. sent'[c] = received[c] /\ writer'[c] = "stopped"
    BY DEF WriterStops, TypeOK
  <2>2. Len(received[c]) \in Nat
    BY LenProperties DEF TypeOK
  <2>3. Begins(received[c], sent'[c])
    BY <2>1, <2>2 DEF Begins
  <2>4. reader[c] \notin {"none", "register"}
    BY DEF StreamInv
  <2> QED
    BY <1>1, <2>1, <2>3, <2>4
<1>2. CASE d # c
  BY <1>2 DEF StreamInv, WriterStops, TypeOK
<1> QED
  BY <1>1, <1>2

\* Peers get what was put on their send channels.
LEMMA StreamStep ==
  ASSUME TypeOK, RegistersOK, StreamInv, Next
  PROVE  StreamInv'
<1> USE DEF hubVars, readerVars, pumpVars
<1>1. CASE HubAdd
  BY <1>1 DEF HubAdd, StreamInv, TypeOK
<1>2. CASE HubRemove
  BY <1>2 DEF HubRemove, StreamInv, TypeOK
<1>3. CASE HubCleanup
  BY <1>3 DEF HubCleanup, StreamInv, TypeOK
<1>4. CASE HubTake
  BY <1>4 DEF HubTake, StreamInv, TypeOK
<1>5. CASE HubDone
  BY <1>5 DEF HubDone, StreamInv, TypeOK
<1>6. ASSUME NEW c \in Clients, HubRegister(c)
      PROVE  StreamInv'
  BY <1>6 DEF HubRegister, StreamInv, TypeOK
<1>7. ASSUME NEW c \in Clients, HubUnregister(c)
      PROVE  StreamInv'
  BY <1>7 DEF HubUnregister, StreamInv, TypeOK
<1>8. ASSUME NEW c \in Clients, HubDeliver(c)
      PROVE  StreamInv'
  <2>1. CASE c \in closed \/ HasRoom(c)
    <3>1. TrySend(c, msg, "hub") /\ msg \in Envelope /\ "hub" \in Faults
      BY <1>8, <2>1 DEF HubDeliver, Envelope, RegistersOK, Faults
    <3> QED
      BY <1>8, <3>1, TrySendStream DEF HubDeliver
  <2>2. CASE ~(c \in closed \/ HasRoom(c))
    BY <1>8, <2>2 DEF HubDeliver, StreamInv
  <2> QED
    BY <2>1, <2>2
<1>9. ASSUME NEW c \in Clients, Connect(c)
      PROVE  StreamInv'
  BY <1>9 DEF Connect, StreamInv, TypeOK
<1>10. ASSUME NEW c \in Clients, NEW ch \in Channels, Subscribe(c, ch)
      PROVE  StreamInv'
  BY <1>10 DEF Subscribe, Request, JoinChannel, MapWritten, StreamInv, TypeOK
<1>11. ASSUME NEW c \in Clients, SubscribeDone(c)
      PROVE  StreamInv'
  BY <1>11 DEF SubscribeDone, Resume, StreamInv, TypeOK
<1>12. ASSUME NEW c \in Clients, NEW ch \in Channels, Unsubscribe(c, ch)
      PROVE  StreamInv'
  BY <1>12 DEF Unsubscribe, Request, LeaveChannel, MapWritten, StreamInv, TypeOK
<1>13. ASSUME NEW c \in Clients, UnsubscribeDone(c)
      PROVE  StreamInv'
  BY <1>13 DEF UnsubscribeDone, Resume, StreamInv, TypeOK
<1>14. ASSUME NEW c \in Clients, NEW m \in MessageEnvelope, SendMessage(c, m)
      PROVE  StreamInv'
  BY <1>14 DEF SendMessage, Request, StreamInv, TypeOK
<1>15. ASSUME NEW c \in Clients, Broadcast(c)
      PROVE  StreamInv'
  BY <1>15 DEF Broadcast, Resume, StreamInv, TypeOK
<1>16. ASSUME NEW c \in Clients, NEW e \in Replies, Reply(c, e)
      PROVE  StreamInv'
  <2>1. TrySend(c, e, "reader") /\ e \in Envelope /\ "reader" \in Faults
    BY <1>16 DEF Reply, Envelope, Faults
  <2>2. \A d \in Clients : reader'[d] \in {"none", "register"} => reader[d] \in {"none", "register"}
    BY <1>16 DEF Reply, Request, TypeOK
  <2> QED
    BY <1>16, <2>1, <2>2, TrySendStream DEF Reply
<1>17. ASSUME NEW c \in Clients, ReadFails(c)
      PROVE  StreamInv'
  BY <1>17 DEF ReadFails, StreamInv, TypeOK
<1>18. ASSUME NEW c \in Clients, ReaderExits(c)
      PROVE  StreamInv'
  BY <1>18 DEF ReaderExits, StreamInv, TypeOK
<1>19. ASSUME NEW c \in Clients, WriteOk(c)
      PROVE  StreamInv'
  <2>1. /\ writer[c] = "running" /\ send[c] # <<>> /\ send[c] \in Seq(Envelope)
        /\ received[c] \in Seq(MessageEnvelope) /\ sent[c] \in Seq(MessageEnvelope)
        /\ Begins(received[c], sent[c]) /\ Pending(send[c], received[c], sent[c])
        /\ send'[c] = Tail(send[c]) /\ UNCHANGED <<writer, sent, reader>>
    BY <1>19 DEF WriteOk, TypeOK, StreamInv
  <2>2. Begins(received'[c], sent[c]) /\ Pending(send'[c], received'[c], sent[c])
    <3>1. CASE Head(send[c]) \in MessageEnvelope
      <4>1. received'[c] = Append(received[c], Head(send[c]))
        BY <1>19, <3>1 DEF WriteOk, TypeOK
      <4> QED
        BY <2>1, <3>1, <4>1, GetMessage
    <3>2. CASE Head(send[c]) \notin MessageEnvelope
      <4>1. received' = received
        BY <1>19, <3>2 DEF WriteOk
      <4> QED
        BY <2>1, <3>2, <4>1, GetReply
    <3> QED
      BY <3>1, <3>2
  <2>3. \A d \in Clients \ {c} : send'[d] = send[d] /\ received'[d] = received[d]
    BY <1>19 DEF WriteOk, TypeOK
  <2>4. ASSUME NEW d \in Clients
        PROVE  /\ Begins(received'[d], sent'[d])
               /\ writer'[d] # "stopped" => Pending(send'[d], received'[d], sent'[d])
               /\ writer'[d] = "stopped" => sent'[d] = received'[d]
               /\ reader'[d] \in {"none", "register"} => writer'[d] = "none"
    <3>1. CASE d = c
      BY <2>1, <2>2, <3>1 DEF StreamInv
    <3>2. CASE d # c
      BY <2>1, <2>3, <3>2 DEF StreamInv
    <3> QED
      BY <3>1, <3>2
  <2> QED
    BY <2>4 DEF StreamInv
<1>20. ASSUME NEW c \in Clients, WriteFails(c)
      PROVE  StreamInv'
  BY <1>20, StopStream DEF WriteFails, TypeOK
<1>21. ASSUME NEW c \in Clients, PingFails(c)
      PROVE  StreamInv'
  BY <1>21, StopStream DEF PingFails, TypeOK
<1>22. ASSUME NEW c \in Clients, WriterSeesClose(c)
      PROVE  StreamInv'
  BY <1>22, StopStream DEF WriterSeesClose, TypeOK
<1>23. ASSUME NEW c \in Clients, NEW e \in Replies, Greet(c, e)
      PROVE  StreamInv'
  <2>1. TrySend(c, e, "greeter") /\ e \in Envelope /\ "greeter" \in Faults
    BY <1>23 DEF Greet, Envelope, Faults
  <2> QED
    BY <1>23, <2>1, TrySendStream DEF Greet
<1>24. ASSUME NEW c \in Clients, GreetFails(c)
      PROVE  StreamInv'
  BY <1>24 DEF GreetFails, StreamInv, TypeOK
<1>25. ASSUME NEW c \in Clients, NEW e \in Replies, SendList(c, e)
      PROVE  StreamInv'
  <2>1. TrySend(c, e, fault) /\ e \in Envelope /\ fault \in Faults
    BY <1>25 DEF SendList, Envelope, TypeOK
  <2>2. UNCHANGED <<writer, received, reader>>
    BY <1>25 DEF SendList, readerVars
  <2> QED
    BY <2>1, <2>2, TrySendStream
<1> QED
  BY <1>1, <1>2, <1>3, <1>4, <1>5, <1>6, <1>7, <1>8, <1>9, <1>10, <1>11, <1>12, <1>13,
     <1>14, <1>15, <1>16, <1>17, <1>18, <1>19, <1>20, <1>21, <1>22, <1>23, <1>24, <1>25
  DEF Next, HubLoop, HubStep, ReaderStep, PumpStep

\* A peer's stream grows by what the hub has just taken.
LEMMA SentAppend ==
  ASSUME TypeOK, OrderInv, QueueInv, SentInv, NEW c \in Clients, hub = "deliver",
         UNCHANGED <<order, broadcast>>, sent' = [sent EXCEPT ![c] = Append(sent[c], msg)]
  PROVE  SentInv'
<1> DEFINE s == sent[c]
           t == Append(s, msg)
<1>1. /\ msg \in MessageEnvelope /\ Taken \in DOMAIN order /\ msg = order[Taken]
      /\ Taken' = Taken
  BY DEF QueueInv, Taken
<1>2. /\ s \in Seq(MessageEnvelope) /\ Len(s) \in Nat /\ DOMAIN s = 1..Len(s)
      /\ DOMAIN order = 1..Len(order) /\ Len(order) \in Nat
  BY LenProperties DEF TypeOK
<1>3. /\ DOMAIN t = 1..(Len(s) + 1)
      /\ t[Len(s) + 1] = msg
      /\ \A i \in 1..Len(s) : t[i] = s[i]
  BY <1>1, <1>2, AppendProperties
<1>4. \A k, l \in DOMAIN order : order[k] = order[l] => k = l
  BY DEF OrderInv
<1>5. /\ \A i \in DOMAIN s : \E k \in 1..Taken : s[i] = order[k]
      /\ \A i, j \in DOMAIN s : \A k, l \in DOMAIN order :
           i < j /\ s[i] = order[k] /\ s[j] = order[l] => k <= l
  BY DEF SentInv
<1>6. Taken \in 1..Len(order) /\ \A k \in 1..Taken : k \in DOMAIN order
  BY <1>1, <1>2
<1>7. \A i \in DOMAIN t : i \in DOMAIN s \/ i = Len(s) + 1
  BY <1>2, <1>3
<1> HIDE DEF t, s, Taken
<1>8. \A i \in DOMAIN t : \E k \in 1..Taken : t[i] = order[k]
  <2> SUFFICES ASSUME NEW i \in DOMAIN t
               PROVE  \E k \in 1..Taken : t[i] = order[k]
    OBVIOUS
  <2>1. CASE i \in DOMAIN s
    BY <2>1, <1>2, <1>3, <1>5
  <2>2. CASE i = Len(s) + 1
    BY <2>2, <1>1, <1>3, <1>6
  <2> QED
    BY <2>1, <2>2, <1>7
<1>9. \A i, j \in DOMAIN t : \A k, l \in DOMAIN order :
        i < j /\ t[i] = order[k] /\ t[j] = order[l] => k <= l
  <2> SUFFICES ASSUME NEW i \in DOMAIN t, NEW j \in DOMAIN t,
                      NEW k \in DOMAIN order, NEW l \in DOMAIN order,
                      i < j, t[i] = order[k], t[j] = order[l]
               PROVE  k <= l
    OBVIOUS
  <2>1. i \in DOMAIN s
    BY <1>2, <1>3
  <2>2. CASE j \in DOMAIN s
    BY <2>1, <2>2, <1>2, <1>3, <1>5
  <2>3. CASE j = Len(s) + 1
    <3>1. l = Taken
      BY <2>3, <1>1, <1>3, <1>4
    <3>2. PICK m \in 1..Taken : s[i] = order[m]
      BY <2>1, <1>5
    <3>3. m = k
      BY <2>1, <3>2, <1>2, <1>3, <1>4, <1>6
    <3> QED
      BY <3>1, <3>2, <3>3, <1>2, <1>6
  <2> QED
    BY <2>2, <2>3, <1>7
<1>10. sent'[c] = t /\ \A d \in Clients \ {c} : sent'[d] = sent[d]
  BY DEF TypeOK, t, s
<1> QED
  <2> SUFFICES ASSUME NEW d \in Clients
               PROVE  /\ \A i \in DOMAIN sent'[d] : \E k \in 1..Taken' : sent'[d][i] = order'[k]
                      /\ \A i, j \in DOMAIN sent'[d] : \A k, l \in DOMAIN order' :
                           i < j /\ sent'[d][i] = order'[k] /\ sent'[d][j] = order'[l] => k <= l
    BY DEF SentInv
  <2>1. CASE d = c
    BY <2>1, <1>1, <1>8, <1>9, <1>10
  <2>2. CASE d # c
    BY <2>2, <1>1, <1>10 DEF SentInv
  <2> QED
    BY <2>1, <2>2

\* Nothing is sent that the hub has not taken, and the order is kept when more
\* is broadcast or taken.
LEMMA SentLater ==
  ASSUME TypeOK, SentInv, QueueInv, UNCHANGED sent, Taken' \in Nat, Taken <= Taken',
         Len(order) <= Len(order'), \A k \in DOMAIN order : order'[k] = order[k],
         order' \in Seq(MessageEnvelope),
         \A k \in DOMAIN order' \ DOMAIN order : \A l \in DOMAIN order : order'[k] # order[l]
  PROVE  SentInv'
<1>1. /\ DOMAIN order = 1..Len(order) /\ Len(order) \in Nat
      /\ DOMAIN order' = 1..Len(order') /\ Len(order') \in Nat
      /\ Len(broadcast) \in Nat /\ Len(broadcast) <= Len(order)
  BY LenProperties DEF TypeOK, QueueInv
<1>2. Taken \in Nat /\ Taken <= Len(order)
  BY <1>1 DEF Taken
<1>3. \A k \in 1..Taken : k \in DOMAIN order /\ k \in 1..Taken'
  <2> HIDE DEF Taken
  <2> QED
    BY <1>1, <1>2
<1> SUFFICES ASSUME NEW d \in Clients
             PROVE  /\ \A i \in DOMAIN sent[d] : \E k \in 1..Taken' : sent[d][i] = order'[k]
                    /\ \A i, j \in DOMAIN sent[d] : \A k, l \in DOMAIN order' :
                         i < j /\ sent[d][i] = order'[k] /\ sent[d][j] = order'[l] => k <= l
  BY DEF SentInv
<1>4. \A i \in DOMAIN sent[d] : \E k \in 1..Taken : sent[d][i] = order[k]
  BY DEF SentInv
<1>5. \A i \in DOMAIN sent[d] : \E k \in 1..Taken' : sent[d][i] = order'[k]
  BY <1>3, <1>4
<1>6. \A i \in DOMAIN sent[d] : \A k \in DOMAIN order' :
        sent[d][i] = order'[k] => k \in DOMAIN order /\ sent[d][i] = order[k]
  BY <1>3, <1>4
<1> QED
  BY <1>5, <1>6 DEF SentInv

\* A stream cut short is still in order.
LEMMA SentCut ==
  ASSUME TypeOK, StreamInv, SentInv, NEW c \in Clients, UNCHANGED <<order, broadcast>>,
         sent' = [sent EXCEPT ![c] = received[c]]
  PROVE  SentInv'
<1>1. Taken' = Taken
  BY DEF Taken
<1>2. sent'[c] = received[c] /\ \A d \in Clients \ {c} : sent'[d] = sent[d]
  BY DEF TypeOK
<1>3. \A i \in DOMAIN received[c] : i \in DOMAIN sent[c] /\ received[c][i] = sent[c][i]
  <2>1. /\ DOMAIN received[c] = 1..Len(received[c]) /\ Len(received[c]) \in Nat
        /\ DOMAIN sent[c] = 1..Len(sent[c]) /\ Len(sent[c]) \in Nat
    BY LenProperties DEF TypeOK
  <2>2. Len(received[c]) <= Len(sent[c])
    BY DEF StreamInv, Begins
  <2>3. \A i \in DOMAIN received[c] : received[c][i] = sent[c][i]
    BY DEF StreamInv, Begins
  <2> QED
    BY <2>1, <2>2, <2>3
<1> SUFFICES ASSUME NEW d \in Clients
             PROVE  /\ \A i \in DOMAIN sent'[d] : \E k \in 1..Taken : sent'[d][i] = order[k]
                    /\ \A i, j \in DOMAIN sent'[d] : \A k, l \in DOMAIN order :
                         i < j /\ sent'[d][i] = order[k] /\ sent'[d][j] = order[l] => k <= l
  BY <1>1 DEF SentInv
<1>4. \A i \in DOMAIN sent'[d] : i \in DOMAIN sent[d] /\ sent'[d][i] = sent[d][i]
  BY <1>2, <1>3
<1> QED
  BY <1>4 DEF SentInv

\* Streams follow the order of the broadcast.
LEMMA SentStep ==
  ASSUME TypeOK, RegistersOK, OrderInv, QueueInv, StreamInv, SentInv, Next
  PROVE  SentInv'
<1> USE DEF hubVars, readerVars, pumpVars
<1>1. CASE HubAdd
  BY <1>1 DEF HubAdd, SentInv, Taken
<1>2. CASE HubRemove
  BY <1>2 DEF HubRemove, SentInv, Taken
<1>3. CASE HubCleanup
  BY <1>3 DEF HubCleanup, SentInv, Taken
<1>4. CASE HubTake
  <2>1. /\ broadcast' = Tail(broadcast) /\ order' = order /\ sent' = sent
        /\ broadcast # <<>> /\ Len(order) \in Nat
        /\ Len(broadcast) \in Nat /\ Len(broadcast) <= Len(order)
    BY <1>4, LenProperties DEF HubTake, TypeOK, QueueInv
  <2>2. Len(broadcast') = Len(broadcast) - 1
    BY <2>1, HeadTailProperties DEF TypeOK
  <2>3. Taken' \in Nat /\ Taken <= Taken'
    BY <2>1, <2>2 DEF Taken
  <2> QED
    BY <2>1, <2>3, SentLater DEF TypeOK
<1>5. CASE HubDone
  BY <1>5 DEF HubDone, SentInv, Taken
<1>6. ASSUME NEW c \in Clients, HubRegister(c)
      PROVE  SentInv'
  BY <1>6 DEF HubRegister, SentInv, Taken
<1>7. ASSUME NEW c \in Clients, HubUnregister(c)
      PROVE  SentInv'
  BY <1>7 DEF HubUnregister, SentInv, Taken
<1>8. ASSUME NEW c \in Clients, HubDeliver(c)
      PROVE  SentInv'
  <2>1. hub = "deliver" /\ UNCHANGED <<order, broadcast>>
    BY <1>8 DEF HubDeliver
  <2>2. sent' = sent \/ sent' = [sent EXCEPT ![c] = Append(sent[c], msg)]
    BY <1>8 DEF HubDeliver, TrySend
  <2>3. CASE sent' = sent
    BY <2>1, <2>3 DEF SentInv, Taken
  <2>4. CASE sent' = [sent EXCEPT ![c] = Append(sent[c], msg)]
    BY <2>1, <2>4, SentAppend
  <2> QED
    BY <2>2, <2>3, <2>4
<1>9. ASSUME NEW c \in Clients, Connect(c)
      PROVE  SentInv'
  BY <1>9 DEF Connect, SentInv, Taken
<1>10. ASSUME NEW c \in Clients, NEW ch \in Channels, Subscribe(c, ch)
      PROVE  SentInv'
  BY <1>10 DEF Subscribe, Request, JoinChannel, MapWritten, SentInv, Taken
<1>11. ASSUME NEW c \in Clients, SubscribeDone(c)
      PROVE  SentInv'
  BY <1>11 DEF SubscribeDone, Resume, SentInv, Taken
<1>12. ASSUME NEW c \in Clients, NEW ch \in Channels, Unsubscribe(c, ch)
      PROVE  SentInv'
  BY <1>12 DEF Unsubscribe, Request, LeaveChannel, MapWritten, SentInv, Taken
<1>13. ASSUME NEW c \in Clients, UnsubscribeDone(c)
      PROVE  SentInv'
  BY <1>13 DEF UnsubscribeDone, Resume, SentInv, Taken
<1>14. ASSUME NEW c \in Clients, NEW m \in MessageEnvelope, SendMessage(c, m)
      PROVE  SentInv'
  BY <1>14 DEF SendMessage, Request, SentInv, Taken
<1>15. ASSUME NEW c \in Clients, Broadcast(c)
      PROVE  SentInv'
  <2>1. /\ arg[c] \in MessageEnvelope
        /\ broadcast' = Append(broadcast, arg[c])
        /\ order' = Append(order, arg[c])
        /\ \A i \in DOMAIN order : order[i] # arg[c]
        /\ sent' = sent
    BY <1>15 DEF Broadcast, RegistersOK, OrderInv
  <2>2. /\ Len(broadcast) \in Nat /\ Len(order) \in Nat /\ Len(broadcast) <= Len(order)
        /\ Len(broadcast') = Len(broadcast) + 1 /\ Len(order') = Len(order) + 1
        /\ DOMAIN order' = 1..(Len(order) + 1) /\ DOMAIN order = 1..Len(order)
        /\ order'[Len(order) + 1] = arg[c]
        /\ \A k \in 1..Len(order) : order'[k] = order[k]
        /\ order' \in Seq(MessageEnvelope)
    BY <2>1, AppendProperties, LenProperties DEF TypeOK, QueueInv
  <2>3. Taken' = Taken /\ Taken \in Nat
    BY <2>2 DEF Taken
  <2>4. \A k \in DOMAIN order' \ DOMAIN order : k = Len(order) + 1
    BY <2>2
  <2>5. Taken' \in Nat /\ Taken <= Taken' /\ Len(order) <= Len(order')
    <3>1. Len(order) <= Len(order')
      BY <2>2
    <3> HIDE DEF Taken
    <3> QED
      BY <2>3, <3>1
  <2> QED
    BY <2>1, <2>2, <2>4, <2>5, SentLater
<1>16. ASSUME NEW c \in Clients, NEW e \in Replies, Reply(c, e)
      PROVE  SentInv'
  <2>1. e \notin MessageEnvelope
    BY ReplyAssumption
  <2> QED
    BY <1>16, <2>1 DEF Reply, TrySend, SentInv, Taken
<1>17. ASSUME NEW c \in Clients, ReadFails(c)
      PROVE  SentInv'
  BY <1>17 DEF ReadFails, SentInv, Taken
<1>18. ASSUME NEW c \in Clients, ReaderExits(c)
      PROVE  SentInv'
  BY <1>18 DEF ReaderExits, SentInv, Taken
<1>19. ASSUME NEW c \in Clients, WriteOk(c)
      PROVE  SentInv'
  BY <1>19 DEF WriteOk, SentInv, Taken
<1>20. ASSUME NEW c \in Clients, WriteFails(c)
      PROVE  SentInv'
  BY <1>20, SentCut DEF WriteFails, WriterStops
<1>21. ASSUME NEW c \in Clients, PingFails(c)
      PROVE  SentInv'
  BY <1>21, SentCut DEF PingFails, WriterStops
<1>22. ASSUME NEW c \in Clients, WriterSeesClose(c)
      PROVE  SentInv'
  BY <1>22, SentCut DEF WriterSeesClose, WriterStops
<1>23. ASSUME NEW c \in Clients, NEW e \in Replies, Greet(c, e)
      PROVE  SentInv'
  <2>1. e \notin MessageEnvelope
    BY ReplyAssumption
  <2> QED
    BY <1>23, <2>1 DEF Greet, TrySend, SentInv, Taken
<1>24. ASSUME NEW c \in Clients, GreetFails(c)
      PROVE  SentInv'
  BY <1>24 DEF GreetFails, SentInv, Taken
<1>25. ASSUME NEW c \in Clients, NEW e \in Replies, SendList(c, e)
      PROVE  SentInv'
  <2>1. e \notin MessageEnvelope
    BY ReplyAssumption
  <2> QED
    BY <1>25, <2>1 DEF SendList, TrySend, SentInv, Taken
<1> QED
  BY <1>1, <1>2, <1>3, <1>4, <1>5, <1>6, <1>7, <1>8, <1>9, <1>10, <1>11, <1>12, <1>13,
     <1>14, <1>15, <1>16, <1>17, <1>18, <1>19, <1>20, <1>21, <1>22, <1>23, <1>24, <1>25
  DEF Next, HubLoop, HubStep, ReaderStep, PumpStep
-----------------------------------------------------------------------------
(* The invariant.                                                          *)

\* Nothing has been broadcast yet.
LEMMA InitFeedInv == Init => FeedInv
<1> SUFFICES ASSUME Init PROVE FeedInv
  OBVIOUS
<1>1. IInv
  BY InitIInv
<1> USE DEF Init
<1>2. OrderInv
  BY DEF OrderInv
<1>3. QueueInv
  BY EmptySeq DEF QueueInv, Taken
<1>4. ASSUME NEW c \in Clients
      PROVE  Begins(received[c], sent[c]) /\ Pending(send[c], received[c], sent[c])
  <2>1. /\ received[c] = <<>> /\ sent[c] = <<>> /\ send[c] = <<>>
        /\ Len(<<>>) = 0 /\ DOMAIN <<>> = {}
    BY EmptySeq
  <2>2. Begins(<<>>, <<>>)
    BY <2>1 DEF Begins
  <2>3. Pending(<<>>, <<>>, <<>>)
    <3> DEFINE f == [i \in 1..0 |-> i]
    <3>1. f \in [1..(Len(<<>>) - Len(<<>>)) -> DOMAIN <<>>] /\ DOMAIN f = {}
      BY <2>1
    <3> HIDE DEF f
    <3> QED
      BY <2>1, <3>1 DEF Pending
  <2> QED
    BY <2>1, <2>2, <2>3
<1>5. StreamInv
  BY <1>4 DEF StreamInv
<1>6. SentInv
  BY EmptySeq DEF SentInv
<1> QED
  BY <1>1, <1>2, <1>3, <1>5, <1>6 DEF FeedInv

\* A step, or none, keeps the invariant.
LEMMA NextFeedInv == FeedInv /\ [Next]_vars => FeedInv'
<1> SUFFICES ASSUME FeedInv, [Next]_vars PROVE FeedInv'
  OBVIOUS
<1>1. IInv'
  BY NextIInv DEF FeedInv
<1>2. CASE Next
  BY <1>1, <1>2, OrderStep, QueueStep, StreamStep, SentStep DEF FeedInv, IInv
<1>3. CASE UNCHANGED vars
  BY <1>1, <1>3
  DEF FeedInv, vars, hubVars, readerVars, pumpVars, OrderInv, QueueInv, StreamInv, SentInv, Taken
<1> QED
  BY <1>2, <1>3

\* Messages keep their place from Hub.broadcast to the peers.
THEOREM FeedInductive == Spec => []FeedInv
BY InitFeedInv, NextFeedInv, PTL DEF Spec

\* Every peer gets messages in the order in which they were broadcast.
THEOREM OneOrderForAll == Spec => []StreamsFollowBroadcastOrder
<1>1. FeedInv => StreamsFollowBroadcastOrder
  <2> SUFFICES ASSUME FeedInv, NEW c \in Clients
               PROVE  /\ Len(received[c]) <= Len(sent[c])
                      /\ \A i \in DOMAIN received[c] : received[c][i] = sent[c][i]
                      /\ \A i, j \in DOMAIN sent[c] :
                           i < j => Position(sent[c][i]) <= Position(sent[c][j])
    BY DEF StreamsFollowBroadcastOrder
  <2>1. Begins(received[c], sent[c])
    BY DEF FeedInv, StreamInv
  <2>2. /\ DOMAIN order = 1..Len(order) /\ Len(order) \in Nat
        /\ Len(broadcast) \in Nat /\ Len(broadcast) <= Len(order)
    BY LenProperties DEF FeedInv, IInv, TypeOK, QueueInv
  <2>3. \A k \in 1..Taken : k \in DOMAIN order
    BY <2>2 DEF Taken
  <2>4. \A i \in DOMAIN sent[c] :
          Position(sent[c][i]) \in DOMAIN order /\ sent[c][i] = order[Position(sent[c][i])]
    <3> SUFFICES ASSUME NEW i \in DOMAIN sent[c]
                 PROVE  Position(sent[c][i]) \in DOMAIN order
                        /\ sent[c][i] = order[Position(sent[c][i])]
      OBVIOUS
    <3>1. \E k \in DOMAIN order : order[k] = sent[c][i]
      BY <2>3 DEF FeedInv, SentInv
    <3> QED
      BY <3>1 DEF Position
  <2>5. ASSUME NEW i \in DOMAIN sent[c], NEW j \in DOMAIN sent[c], i < j
        PROVE  Position(sent[c][i]) <= Position(sent[c][j])
    BY <2>4, <2>5 DEF FeedInv, SentInv
  <2> QED
    BY <2>1, <2>5 DEF Begins
<1> QED
  BY <1>1, FeedInductive, PTL

-----------------------------------------------------------------------------
(* The hub implements Feed.                                                *)

\* Nothing that Feed speaks of happens.
LEMMA Silent ==
  ASSUME UNCHANGED <<members, order, broadcast, msg, todo, sent, fault>>,
         hub # "blocked", hub' # "blocked",
         \A c \in Clients : writer'[c] = "stopped" <=> writer[c] = "stopped"
  PROVE  UNCHANGED AbstractHub!feedVars
<1>1. {c \in Clients : writer'[c] = "stopped"} = {c \in Clients : writer[c] = "stopped"}
  OBVIOUS
<1> QED
  BY <1>1 DEF AbstractHub!feedVars

\* Nor does it when only writers and readers move while the hub is stuck.
LEMMA SilentAside ==
  ASSUME UNCHANGED <<members, order, broadcast, msg, todo, sent, fault, hub, cur>>,
         \A c \in Clients : writer'[c] = "stopped" <=> writer[c] = "stopped"
  PROVE  UNCHANGED AbstractHub!feedVars
<1>1. {c \in Clients : writer'[c] = "stopped"} = {c \in Clients : writer[c] = "stopped"}
  OBVIOUS
<1> QED
  BY <1>1 DEF AbstractHub!feedVars

\* What a peer got is how its stream begins, as a sequence.
LEMMA BeginsIsCut ==
  ASSUME NEW r \in Seq(MessageEnvelope), NEW s \in Seq(MessageEnvelope), Begins(r, s)
  PROVE  Len(r) \in 0..Len(s) /\ r = SubSeq(s, 1, Len(r))
<1>1. /\ Len(r) \in Nat /\ Len(s) \in Nat /\ Len(r) <= Len(s)
      /\ DOMAIN r = 1..Len(r) /\ DOMAIN s = 1..Len(s)
      /\ \A i \in 1..Len(r) : r[i] = s[i]
  BY LenProperties DEF Begins
<1>2. /\ SubSeq(s, 1, Len(r)) \in Seq(MessageEnvelope)
      /\ Len(SubSeq(s, 1, Len(r))) = Len(r)
      /\ \A i \in 1..Len(r) : SubSeq(s, 1, Len(r))[i] = s[i]
  <2>1. \A i \in 1..Len(r) : s[i] \in MessageEnvelope
    BY <1>1
  <2> QED
    BY <1>1, <2>1, SubSeqProperties
<1>3. r = SubSeq(s, 1, Len(r))
  BY <1>1, <1>2, SeqEqual
<1> QED
  BY <1>1, <1>3

\* A writer that stops is a connection that is cut.
LEMMA StopIsCut ==
  ASSUME FeedInv, NEW c \in Clients, fault = "none", writer[c] = "running", WriterStops(c),
         UNCHANGED <<hubVars, readerVars, received, fault>>
  PROVE  AbstractHub!Cut(c)
<1>1. /\ received[c] \in Seq(MessageEnvelope) /\ sent[c] \in Seq(MessageEnvelope)
      /\ Begins(received[c], sent[c])
  BY DEF FeedInv, IInv, TypeOK, StreamInv
<1>2. Len(received[c]) \in 0..Len(sent[c]) /\ received[c] = SubSeq(sent[c], 1, Len(received[c]))
  BY <1>1, BeginsIsCut
<1>3. sent' = [sent EXCEPT ![c] = SubSeq(sent[c], 1, Len(received[c]))]
  BY <1>2 DEF WriterStops
<1>4. \E n \in 0..Len(sent[c]) : sent' = [sent EXCEPT ![c] = SubSeq(sent[c], 1, n)]
  BY <1>2, <1>3
<1>5. {d \in Clients : writer'[d] = "stopped"} = {d \in Clients : writer[d] = "stopped"} \cup {c}
  BY DEF WriterStops, FeedInv, IInv, TypeOK
<1>6. c \notin {d \in Clients : writer[d] = "stopped"}
  OBVIOUS
<1> QED
  BY <1>4, <1>5, <1>6 DEF AbstractHub!Cut, hubVars

\* Every step of the hub and its connections is one of Feed's, or none.
LEMMA StepImplements ==
  ASSUME FeedInv, FeedInv', Next
  PROVE  AbstractHub!Next \/ UNCHANGED AbstractHub!feedVars
<1>0. /\ fault = "none" /\ TypeOK /\ RegistersOK /\ MembershipInv /\ RegistrationInv /\ HubInv
      /\ OrderInv /\ QueueInv /\ StreamInv /\ QueueInv'
  BY DEF Next, FeedInv, IInv
<1>1. CASE HubAdd
  BY <1>1, <1>0, Silent DEF HubAdd, TypeOK, StreamInv, hubVars, readerVars, pumpVars
<1>2. CASE HubRemove
  BY <1>2, <1>0, Silent DEF HubRemove, TypeOK, StreamInv, hubVars, readerVars, pumpVars
<1>3. CASE HubCleanup
  <2>1. cur \in Clients /\ msg = None /\ Departed(cur) /\ hub = "cleanup" /\ hub' = "select"
    BY <1>3, <1>0 DEF HubCleanup, RegistersOK, QueueInv, HubInv
  <2>2. \A ch \in Channels : cur \in members[ch] => ch \in subs[cur]
    BY <2>1, <1>0 DEF MembershipInv, Expected, Departed
  <2>3. members' = [ch \in Channels |-> members[ch] \ {cur}]
    BY <1>3, <2>2 DEF HubCleanup
  <2>4. AbstractHub!Depart(cur)
    BY <1>3, <2>1, <2>3, <1>0 DEF AbstractHub!Depart, HubCleanup, readerVars, pumpVars
  <2> QED
    BY <2>1, <2>4 DEF AbstractHub!Next
<1>4. CASE HubTake
  <2>1. /\ hub = "select" /\ hub' = "deliver" /\ msg = None
        /\ broadcast' = Tail(broadcast) /\ order' = order /\ broadcast # <<>>
    BY <1>4, <1>0 DEF HubTake, QueueInv
  <2>2. /\ msg' \in MessageEnvelope /\ msg' = order'[Taken'] /\ msg' # None
        /\ todo' = members[msg'.ch]
    BY <1>4, <2>1, <1>0, NoneAssumption DEF HubTake, QueueInv
  <2>3. /\ Len(order) \in Nat /\ Len(broadcast) \in Nat /\ Len(broadcast) > 0
        /\ Len(broadcast') = Len(broadcast) - 1
    BY <2>1, <1>0, HeadTailProperties, LenProperties, EmptySeq DEF TypeOK
  <2>4. Taken' = Taken + 1 /\ Taken < Len(order)
    BY <2>1, <2>3 DEF Taken
  <2>5. AbstractHub!Take
    BY <1>4, <2>1, <2>2, <2>4, <1>0 DEF AbstractHub!Take, HubTake, Taken, readerVars, pumpVars
  <2> QED
    BY <2>5 DEF AbstractHub!Next, AbstractHub!HubStep
<1>5. CASE HubDone
  <2>1. hub = "deliver" /\ hub' = "select" /\ msg # None /\ msg' = None /\ todo = {}
    BY <1>5, <1>0, NoneAssumption DEF HubDone, QueueInv
  <2>2. AbstractHub!Done
    BY <1>5, <2>1, <1>0 DEF AbstractHub!Done, HubDone, readerVars, pumpVars
  <2> QED
    BY <2>2 DEF AbstractHub!Next, AbstractHub!HubStep
<1>6. ASSUME NEW c \in Clients, HubRegister(c)
      PROVE  AbstractHub!Next \/ UNCHANGED AbstractHub!feedVars
  BY <1>6, <1>0, Silent DEF HubRegister, TypeOK, StreamInv, hubVars, readerVars, pumpVars
<1>7. ASSUME NEW c \in Clients, HubUnregister(c)
      PROVE  AbstractHub!Next \/ UNCHANGED AbstractHub!feedVars
  BY <1>7, <1>0, Silent DEF HubUnregister, TypeOK, StreamInv, hubVars, readerVars, pumpVars
<1>8. ASSUME NEW c \in Clients, HubDeliver(c)
      PROVE  AbstractHub!Next \/ UNCHANGED AbstractHub!feedVars
  <2>1. /\ hub = "deliver" /\ c \in todo /\ c \notin closed /\ todo' = todo \ {c}
        /\ msg \in MessageEnvelope /\ msg # None /\ msg = order[Taken] /\ msg' = msg
        /\ UNCHANGED <<members, order, broadcast, writer>>
    BY <1>8, <1>0, NoneAssumption DEF HubDeliver, QueueInv, HubInv
  <2>2. CASE HasRoom(c)
    <3>1. /\ UNCHANGED <<hub, fault>>
          /\ sent' = IF writer[c] = "stopped" THEN sent
                     ELSE [sent EXCEPT ![c] = Append(sent[c], order[Taken])]
      BY <1>8, <2>1, <2>2 DEF HubDeliver, TrySend
    <3>2. c \in {d \in Clients : writer[d] = "stopped"} <=> writer[c] = "stopped"
      OBVIOUS
    <3>3. AbstractHub!Deliver(c)
      BY <2>1, <3>1, <3>2, <1>0 DEF AbstractHub!Deliver, Taken
    <3> QED
      BY <3>3 DEF AbstractHub!Next, AbstractHub!HubStep
  <2>3. CASE ~HasRoom(c)
    <3>1. hub' = "blocked" /\ cur' = c /\ UNCHANGED <<sent, fault>>
      BY <1>8, <2>1, <2>3 DEF HubDeliver
    <3>2. todo' \cup {c} = todo
      BY <2>1
    <3>3. AbstractHub!Stick
      BY <2>1, <3>1, <3>2, <1>0 DEF AbstractHub!Stick
    <3> QED
      BY <3>3 DEF AbstractHub!Next
  <2> QED
    BY <2>2, <2>3
<1>9. ASSUME NEW c \in Clients, Connect(c)
      PROVE  AbstractHub!Next \/ UNCHANGED AbstractHub!feedVars
  BY <1>9, <1>0, SilentAside DEF Connect, hubVars, readerVars, pumpVars
<1>10. ASSUME NEW c \in Clients, NEW ch \in Channels, Subscribe(c, ch)
      PROVE  AbstractHub!Next \/ UNCHANGED AbstractHub!feedVars
  <2>1. /\ UNCHANGED <<broadcast, hub, cur, msg, order, sent, writer>>
        /\ members' = [members EXCEPT ![ch] = @ \cup {c}]
    BY <1>10 DEF Subscribe, JoinChannel, pumpVars
  <2>2. \/ UNCHANGED <<todo, fault>>
        \/ hub = "deliver" /\ iter = ch /\ todo' \in {todo, IF c \in members[ch] THEN todo ELSE todo \cup {c}}
    BY <1>10 DEF Subscribe, JoinChannel, MapWritten
  <2>3. ASSUME UNCHANGED <<todo, fault>>
        PROVE  AbstractHub!Join(c, ch)
    BY <2>1, <2>3, <1>0 DEF AbstractHub!Join, AbstractHub!Meanwhile
  <2>4. ASSUME hub = "deliver" /\ iter = ch /\ todo' \in {todo, IF c \in members[ch] THEN todo ELSE todo \cup {c}}
        PROVE  AbstractHub!Join(c, ch)
    <3>1. msg # None /\ order[Taken].ch = ch
      BY <2>4, <1>0, NoneAssumption DEF QueueInv
    <3>2. (fault' = "none") \in {fault = "none", FALSE}
      BY <1>0
    <3> QED
      BY <2>1, <2>4, <3>1, <3>2, <1>0 DEF AbstractHub!Join, AbstractHub!Meanwhile, Taken
  <2>5. AbstractHub!Join(c, ch)
    BY <2>2, <2>3, <2>4
  <2> QED
    BY <2>5 DEF AbstractHub!Next
<1>11. ASSUME NEW c \in Clients, SubscribeDone(c)
      PROVE  AbstractHub!Next \/ UNCHANGED AbstractHub!feedVars
  BY <1>11, <1>0, SilentAside DEF SubscribeDone, Resume, hubVars, readerVars, pumpVars
<1>12. ASSUME NEW c \in Clients, NEW ch \in Channels, Unsubscribe(c, ch)
      PROVE  AbstractHub!Next \/ UNCHANGED AbstractHub!feedVars
  <2>1. /\ UNCHANGED <<broadcast, hub, cur, msg, order, sent, writer>>
        /\ members' = [members EXCEPT ![ch] = @ \ {c}]
    BY <1>12 DEF Unsubscribe, LeaveChannel, pumpVars
  <2>2. \/ UNCHANGED <<todo, fault>>
        \/ hub = "deliver" /\ iter = ch /\ todo' \in {todo, todo \ {c}}
    BY <1>12 DEF Unsubscribe, LeaveChannel, MapWritten
  <2>3. ASSUME UNCHANGED <<todo, fault>>
        PROVE  AbstractHub!Leave(c, ch)
    BY <2>1, <2>3, <1>0 DEF AbstractHub!Leave, AbstractHub!Meanwhile
  <2>4. ASSUME hub = "deliver" /\ iter = ch /\ todo' \in {todo, todo \ {c}}
        PROVE  AbstractHub!Leave(c, ch)
    <3>1. msg # None /\ order[Taken].ch = ch
      BY <2>4, <1>0, NoneAssumption DEF QueueInv
    <3>2. (fault' = "none") \in {fault = "none", FALSE}
      BY <1>0
    <3> QED
      BY <2>1, <2>4, <3>1, <3>2, <1>0 DEF AbstractHub!Leave, AbstractHub!Meanwhile, Taken
  <2>5. AbstractHub!Leave(c, ch)
    BY <2>2, <2>3, <2>4
  <2> QED
    BY <2>5 DEF AbstractHub!Next
<1>13. ASSUME NEW c \in Clients, UnsubscribeDone(c)
      PROVE  AbstractHub!Next \/ UNCHANGED AbstractHub!feedVars
  BY <1>13, <1>0, SilentAside DEF UnsubscribeDone, Resume, hubVars, readerVars, pumpVars
<1>14. ASSUME NEW c \in Clients, NEW m \in MessageEnvelope, SendMessage(c, m)
      PROVE  AbstractHub!Next \/ UNCHANGED AbstractHub!feedVars
  BY <1>14, <1>0, SilentAside DEF SendMessage, Request, hubVars, readerVars, pumpVars
<1>15. ASSUME NEW c \in Clients, Broadcast(c)
      PROVE  AbstractHub!Next \/ UNCHANGED AbstractHub!feedVars
  <2>1. /\ arg[c] \in MessageEnvelope
        /\ broadcast' = Append(broadcast, arg[c])
        /\ order' = Append(order, arg[c])
        /\ \A i \in DOMAIN order : order[i].id # arg[c].id
        /\ UNCHANGED <<members, hub, cur, msg, todo, sent, writer, fault>>
    BY <1>15, <1>0 DEF Broadcast, RegistersOK, OrderInv, pumpVars
  <2>2. /\ Len(broadcast) \in Nat /\ Len(order) \in Nat
        /\ Len(broadcast') = Len(broadcast) + 1 /\ Len(order') = Len(order) + 1
    BY <2>1, <1>0, AppendProperties, LenProperties DEF TypeOK
  <2>3. Len(order') - Len(broadcast') = Len(order) - Len(broadcast)
    BY <2>2
  <2>4. AbstractHub!Publish(arg[c])
    BY <2>1, <2>3, <1>0 DEF AbstractHub!Publish
  <2>5. arg[c] \in AbstractHub!MessageEnvelope
    BY <2>1 DEF AbstractHub!MessageEnvelope, MessageEnvelope
  <2> QED
    BY <2>4, <2>5 DEF AbstractHub!Next
<1>16. ASSUME NEW c \in Clients, NEW e \in Replies, Reply(c, e)
      PROVE  AbstractHub!Next \/ UNCHANGED AbstractHub!feedVars
  <2>1. c \notin closed /\ e \notin MessageEnvelope
    BY <1>16, <1>0, ReplyAssumption DEF Reply, Request, RegistrationInv, Departed
  <2>2. UNCHANGED <<hubVars, sent, writer, fault>>
    BY <1>16, <2>1 DEF Reply, TrySend
  <2> QED
    BY <2>2, SilentAside DEF hubVars
<1>17. ASSUME NEW c \in Clients, ReadFails(c)
      PROVE  AbstractHub!Next \/ UNCHANGED AbstractHub!feedVars
  BY <1>17, <1>0, SilentAside DEF ReadFails, hubVars, readerVars, pumpVars
<1>18. ASSUME NEW c \in Clients, ReaderExits(c)
      PROVE  AbstractHub!Next \/ UNCHANGED AbstractHub!feedVars
  BY <1>18, <1>0, SilentAside DEF ReaderExits, hubVars, readerVars, pumpVars
<1>19. ASSUME NEW c \in Clients, WriteOk(c)
      PROVE  AbstractHub!Next \/ UNCHANGED AbstractHub!feedVars
  BY <1>19, <1>0, SilentAside DEF WriteOk, hubVars, readerVars, pumpVars
<1>20. ASSUME NEW c \in Clients, WriteFails(c)
      PROVE  AbstractHub!Next \/ UNCHANGED AbstractHub!feedVars
  <2>1. AbstractHub!Cut(c)
    BY <1>20, <1>0, StopIsCut DEF WriteFails
  <2> QED
    BY <2>1 DEF AbstractHub!Next
<1>21. ASSUME NEW c \in Clients, PingFails(c)
      PROVE  AbstractHub!Next \/ UNCHANGED AbstractHub!feedVars
  <2>1. AbstractHub!Cut(c)
    BY <1>21, <1>0, StopIsCut DEF PingFails
  <2> QED
    BY <2>1 DEF AbstractHub!Next
<1>22. ASSUME NEW c \in Clients, WriterSeesClose(c)
      PROVE  AbstractHub!Next \/ UNCHANGED AbstractHub!feedVars
  <2>1. AbstractHub!Cut(c)
    BY <1>22, <1>0, StopIsCut DEF WriterSeesClose
  <2> QED
    BY <2>1 DEF AbstractHub!Next
<1>23. ASSUME NEW c \in Clients, NEW e \in Replies, Greet(c, e)
      PROVE  AbstractHub!Next \/ UNCHANGED AbstractHub!feedVars
  <2>1. e \notin MessageEnvelope
    BY ReplyAssumption
  <2>2. UNCHANGED <<hubVars, sent, writer>>
    BY <1>23, <2>1 DEF Greet, TrySend
  <2>3. CASE c \in closed
    <3>1. fault' = "greeter"
      BY <1>23, <2>3 DEF Greet, TrySend
    <3>2. AbstractHub!Halt
      BY <2>2, <3>1, <1>0 DEF AbstractHub!Halt, hubVars
    <3> QED
      BY <3>2 DEF AbstractHub!Next
  <2>4. CASE c \notin closed
    <3>1. fault' = fault
      BY <1>23, <2>4 DEF Greet, TrySend
    <3> QED
      BY <2>2, <3>1, SilentAside DEF hubVars
  <2> QED
    BY <2>3, <2>4
<1>24. ASSUME NEW c \in Clients, GreetFails(c)
      PROVE  AbstractHub!Next \/ UNCHANGED AbstractHub!feedVars
  BY <1>24, <1>0, SilentAside DEF GreetFails, hubVars, readerVars, pumpVars
<1>25. ASSUME NEW c \in Clients, NEW e \in Replies, SendList(c, e)
      PROVE  AbstractHub!Next \/ UNCHANGED AbstractHub!feedVars
  <2>1. e \notin MessageEnvelope
    BY ReplyAssumption
  <2>2. UNCHANGED <<hubVars, sent, writer, fault>>
    BY <1>25, <2>1 DEF SendList, TrySend
  <2> QED
    BY <2>2, SilentAside DEF hubVars
<1> QED
  BY <1>1, <1>2, <1>3, <1>4, <1>5, <1>6, <1>7, <1>8, <1>9, <1>10, <1>11, <1>12, <1>13,
     <1>14, <1>15, <1>16, <1>17, <1>18, <1>19, <1>20, <1>21, <1>22, <1>23, <1>24, <1>25
  DEF Next, HubLoop, HubStep, ReaderStep, PumpStep

\* The hub and the goroutines of its connections implement Feed: messages are
\* handed out one after the other in the order they were published, each to
\* those subscribed when the hub took it, and a connection that fails has got a
\* prefix of what it was to get.
THEOREM HubImplementsFeed == Spec => ImplementsFeed
<1>1. Init => AbstractHub!Init
  <2> SUFFICES ASSUME Init PROVE AbstractHub!Init
    OBVIOUS
  <2>1. Len(order) - Len(broadcast) = 0
    BY EmptySeq DEF Init
  <2> QED
    BY <2>1 DEF Init, AbstractHub!Init
<1>2. FeedInv /\ FeedInv' /\ [Next]_vars => [AbstractHub!Next]_AbstractHub!feedVars
  <2> SUFFICES ASSUME FeedInv, FeedInv', [Next]_vars
               PROVE  AbstractHub!Next \/ UNCHANGED AbstractHub!feedVars
    OBVIOUS
  <2>1. CASE Next
    BY <2>1, StepImplements
  <2>2. CASE UNCHANGED vars
    BY <2>2, SilentAside DEF vars, hubVars, pumpVars
  <2> QED
    BY <2>1, <2>2
<1> QED
  BY <1>1, <1>2, FeedInductive, PTL DEF Spec, ImplementsFeed, AbstractHub!Spec

=============================================================================
