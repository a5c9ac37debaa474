---------------------------- MODULE PagesProofs ----------------------------
(***************************************************************************)
(* Proofs about Pages, for any number of pages, channels, messages and     *)
(* requests, and any size of a page of history: a page misses no message,  *)
(* and shows none twice, unless one of the named exceptions happened to    *)
(* it.                                                                     *)
(***************************************************************************)
EXTENDS Pages, FiniteSetTheorems, SequenceTheorems, TLAPS

-----------------------------------------------------------------------------
(* What is on its way.                                                     *)

IsMessage(x) == x.op = "message"
IsHistory(x) == x.op = "history"

\* An answer to b itself, about the channel it shows.
IsOwn(b, h) == IsHistory(h) /\ h.ch = current[b] /\ h.by = b

\* A request of b for history of the channel it shows.
Asks(b, r) == r.op = "get_history" /\ r.ch = current[b]

\* What is broadcast was stored.  An answer is about messages of its channel,
\* before the time it was asked for.
ItemsInOrder ==
  /\ \A m \in fresh : place[m] # None
  /\ \A b \in Browsers : \A x \in ToSet(Coming(b)) :
       /\ IsMessage(x) => place[x.id] # None
       /\ IsHistory(x) =>
            /\ \A m \in x.found : place[m] = x.ch /\ (x.before # None => m < x.before)
            /\ x.ids = Newest(x.found)
            /\ x.more = (x.ids # x.found)

SubscribeTo(ch) == [op |-> "subscribe", ch |-> ch]
HistoryOf(ch, id) == [op |-> "get_history", ch |-> ch, before |-> id]

\* A page subscribes right before it asks for its first history.
AskedOf(b) ==
  \A i \in 1..Len(asked[b]) :
    LET r == asked[b][i]
    IN  r.op = "subscribe" =>
          i < Len(asked[b]) /\ asked[b][i+1] = HistoryOf(r.ch, None)

AskedInOrder == \A b \in Browsers : AskedOf(b)

-----------------------------------------------------------------------------
(* Nothing is missed.                                                      *)

Good(b) == current[b] # None /\ "missed" \notin excuse[b]

StaySubscribed ==
  \A b \in Browsers : Good(b) =>
    \/ current[b] \in subscribed
    \/ SubscribeTo(current[b]) \in ToSet(asked[b])

\* A first page finds what any answer before it found.
AnswersGrow ==
  \A b \in Browsers : \A i, j \in 1..Len(Coming(b)) :
    LET h == Coming(b)[i]
        k == Coming(b)[j]
    IN  i < j /\ IsHistory(h) /\ IsHistory(k) /\ h.ch = k.ch /\ k.before = None =>
          h.found \subseteq k.found

\* A message may overtake the answer that the reader has in hand, but no other.
OneOvertaken ==
  \A b \in Browsers : \A j, k \in 1..Len(Coming(b)) :
    LET h == Coming(b)[k]
    IN  j < k /\ IsHistory(Coming(b)[j]) /\ IsHistory(h) /\ h.before = None =>
          /\ Good(b) /\ h.ch = current[b] =>
               \A m \in ToSet(shown[b]) : place[m] = h.ch => m \in h.found
          /\ \A i \in 1..(j-1) :
               LET x == Coming(b)[i]
               IN  IsMessage(x) /\ place[x.id] = h.ch => x.id \in h.found

FirstAwaited(b) ==
  \/ \E r \in ToSet(asked[b]) : Asks(b, r) /\ r.before = None
  \/ \E h \in ToSet(Coming(b)) : IsOwn(b, h) /\ h.before = None

OnlyFirstAwaited(b) ==
  /\ \A r \in ToSet(asked[b]) : Asks(b, r) => r.before = None
  /\ \A h \in ToSet(Coming(b)) : IsOwn(b, h) => h.before = None

\* Older messages are asked for once the first page is there.
FirstComesFirst ==
  \A b \in Browsers : Good(b) /\ (FirstAwaited(b) \/ oldest[b] = None) => OnlyFirstAwaited(b)

\* m will come to b.
WillCome(b, m) ==
  \/ m \in fresh
  \/ HistoryOf(current[b], None) \in ToSet(asked[b])
  \/ [op |-> "message", id |-> m] \in ToSet(Coming(b))
  \/ \E h \in ToSet(Coming(b)) : IsOwn(b, h) /\ h.before = None /\ m \in h.found

\* m is in whatever b asked for.
Findable(b, m) ==
  /\ \A r \in ToSet(asked[b]) : Asks(b, r) /\ r.before # None => m < r.before
  /\ \A h \in ToSet(Coming(b)) :
       IsHistory(h) /\ h.ch = current[b] /\ (h.by = b \/ h.before = None) => m \in h.found

\* m is older than what b shows, and the button will bring it, whatever
\* answers come first.
Older(b, m) == more[b] /\ oldest[b] # None /\ m < oldest[b]
Reachable(b, m) == Older(b, m) /\ Findable(b, m)

NothingMissed ==
  \A b \in Browsers : Good(b) =>
    \A m \in Messages : place[m] = current[b] =>
      WillCome(b, m) \/ m \in ToSet(shown[b]) \/ Reachable(b, m)

-----------------------------------------------------------------------------
(* Nothing is shown twice.                                                 *)

Fine(b) == current[b] # None /\ "repeated" \notin excuse[b]

\* b waits for one answer at most, about what is before its oldest message.
AwaitsOne(b) ==
  /\ \A i, j \in 1..Len(asked[b]) : Asks(b, asked[b][i]) /\ Asks(b, asked[b][j]) => i = j
  /\ \A i, j \in 1..Len(Coming(b)) : IsOwn(b, Coming(b)[i]) /\ IsOwn(b, Coming(b)[j]) => i = j
  /\ \A r \in ToSet(asked[b]), h \in ToSet(Coming(b)) : ~(Asks(b, r) /\ IsOwn(b, h))
  /\ \A r \in ToSet(asked[b]) : Asks(b, r) => r.before = oldest[b]
  /\ \A h \in ToSet(Coming(b)) : IsOwn(b, h) => h.before = oldest[b]

OneAwaited == \A b \in Browsers : Fine(b) => AwaitsOne(b)

\* A message is broadcast once.
BroadcastOnce ==
  \A b \in Browsers :
    /\ \A i, j \in 1..Len(Coming(b)) :
         LET x == Coming(b)[i]
             y == Coming(b)[j]
         IN  IsMessage(x) /\ IsMessage(y) /\ x.id = y.id => i = j
    /\ \A x \in ToSet(Coming(b)) : IsMessage(x) => x.id \notin fresh

\* m will not be broadcast to b any more.
Past(b, m) == m \notin fresh /\ [op |-> "message", id |-> m] \notin ToSet(Coming(b))

\* What is to come is not on the page yet.
ShownPast(b) ==
  \A m \in ToSet(shown[b]) : Past(b, m) /\ (oldest[b] # None => m >= oldest[b])

\* What is coming to b after an answer to b is not in it.
AnswersPast(b) ==
  \A i \in 1..Len(Coming(b)) : IsOwn(b, Coming(b)[i]) =>
    /\ Coming(b)[i].ids \cap fresh = {}
    /\ \A j \in 1..Len(Coming(b)) :
         j > i /\ IsMessage(Coming(b)[j]) => Coming(b)[j].id \notin Coming(b)[i].ids

ComesOnce == \A b \in Browsers : Fine(b) => ShownPast(b) /\ AnswersPast(b)

IInv ==
  /\ TypeOK
  /\ ItemsInOrder /\ AskedInOrder
  /\ StaySubscribed /\ AnswersGrow /\ OneOvertaken /\ FirstComesFirst /\ NothingMissed
  /\ OneAwaited /\ BroadcastOnce /\ ComesOnce /\ MessagesShownOnce

-----------------------------------------------------------------------------
(* Pages of history.                                                       *)

\* What is before m is before whatever comes after m.
LEMMA BeforeGrows ==
  ASSUME NEW S \in SUBSET Nat, NEW m \in S, NEW l \in S, m < l
  PROVE  /\ {x \in S : x < m} \in SUBSET {x \in S : x < l}
         /\ m \in {x \in S : x < l}
         /\ m \notin {x \in S : x < m}
<1>1. m \in Nat /\ l \in Nat /\ \A x \in S : x \in Nat
  OBVIOUS
<1>2. \A x \in S : x < m => x < l
  BY <1>1
<1>3. ~ (m < m)
  BY <1>1
<1> QED
  BY <1>2, <1>3

\* There is one message at every place in the order of time.
LEMMA RankExists ==
  ASSUME NEW S \in SUBSET Nat, IsFiniteSet(S), NEW k \in 0..(Cardinality(S) - 1)
  PROVE  \E m \in S : Cardinality({x \in S : x < m}) = k
<1> DEFINE Before(m) == {x \in S : x < m}
           f == [m \in S |-> Cardinality(Before(m))]
           n == Cardinality(S)
           T == (0..(n - 1)) \ {k}
<1>1. n \in Nat
  BY FS_CardinalityType
<1>2. \A m \in S : IsFiniteSet(Before(m)) /\ f[m] \in 0..(n - 1)
  <2> SUFFICES ASSUME NEW m \in S
               PROVE  IsFiniteSet(Before(m)) /\ f[m] \in 0..(n - 1)
    OBVIOUS
  <2>1. Before(m) \in SUBSET S /\ m \notin Before(m)
    OBVIOUS
  <2>2. /\ IsFiniteSet(Before(m))
        /\ Cardinality(Before(m)) <= n
        /\ n = Cardinality(Before(m)) => S = Before(m)
    BY <2>1, FS_Subset
  <2>3. Cardinality(Before(m)) \in Nat /\ Cardinality(Before(m)) # n
    BY <2>1, <2>2, FS_CardinalityType
  <2>4. f[m] = Cardinality(Before(m))
    OBVIOUS
  <2> HIDE DEF f, n
  <2> QED
    BY <2>2, <2>3, <2>4, <1>1
<1>3. \A m, l \in S : m < l => f[m] < f[l]
  <2> SUFFICES ASSUME NEW m \in S, NEW l \in S, m < l
               PROVE  f[m] < f[l]
    OBVIOUS
  <2>1. Before(m) \in SUBSET Before(l) /\ m \in Before(l) /\ m \notin Before(m)
    BY BeforeGrows
  <2>2. /\ Cardinality(Before(m)) <= Cardinality(Before(l))
        /\ Cardinality(Before(l)) = Cardinality(Before(m)) => Before(l) = Before(m)
    BY <2>1, <1>2, FS_Subset
  <2>3. f[m] = Cardinality(Before(m)) /\ f[l] = Cardinality(Before(l))
    OBVIOUS
  <2>4. f[m] \in Nat /\ f[l] \in Nat /\ f[m] # f[l] /\ f[m] <= f[l]
    <3> HIDE DEF f
    <3> QED
      BY <2>1, <2>2, <2>3, <1>1, <1>2
  <2> HIDE DEF f
  <2> QED
    BY <2>4
<1>4. SUFFICES ASSUME \A m \in S : f[m] # k PROVE FALSE
  OBVIOUS
<1>5. IsFiniteSet(T) /\ Cardinality(T) < n
  <2>1. IsFiniteSet(0..(n - 1)) /\ Cardinality(0..(n - 1)) = n
    BY <1>1, FS_Interval
  <2>2. k \in 0..(n - 1)
    OBVIOUS
  <2>3. IsFiniteSet(T) /\ Cardinality(T) = n - 1
    BY <2>1, <2>2, FS_RemoveElement
  <2> HIDE DEF T, n
  <2> QED
    BY <2>3, <1>1
<1>6. f \in [S -> T]
  BY <1>2, <1>4
<1>9. S \in SUBSET Nat
  OBVIOUS
<1> HIDE DEF f, T
<1>7. PICK x, y \in S : x # y /\ f[x] = f[y]
  BY <1>5, <1>6, FS_PigeonHole
<1> HIDE DEF n, Before
<1>8. f[x] \in Nat /\ f[y] \in Nat
  BY <1>2, <1>1
<1> QED
  BY <1>3, <1>7, <1>8, <1>9

\* Sorted lists each message of a page once, the oldest first.
LEMMA SortedPage ==
  ASSUME NEW S \in SUBSET Nat, IsFiniteSet(S)
  PROVE  /\ Sorted(S) \in Seq(S)
         /\ ToSet(Sorted(S)) = S
         /\ IsInjective(Sorted(S))
         /\ S # {} => /\ Sorted(S) # <<>>
                      /\ Head(Sorted(S)) \in S
                      /\ \A m \in S : Head(Sorted(S)) <= m
<1> DEFINE Rank(m) == Cardinality({x \in S : x < m})
           n == Cardinality(S)
           s == Sorted(S)
<1>1. n \in Nat
  BY FS_CardinalityType
<1>2. \A i \in 1..n : s[i] \in S /\ Rank(s[i]) = i - 1
  <2> SUFFICES ASSUME NEW i \in 1..n
               PROVE  s[i] \in S /\ Rank(s[i]) = i - 1
    OBVIOUS
  <2>1. i - 1 \in 0..(n - 1)
    BY <1>1
  <2>2. \E m \in S : Rank(m) = i - 1
    BY <2>1, RankExists
  <2>3. s[i] = CHOOSE m \in S : Rank(m) = i - 1
    BY DEF Sorted
  <2> HIDE DEF Rank, s
  <2> QED
    BY <2>2, <2>3
<1>3. s \in Seq(S) /\ Len(s) = n /\ DOMAIN s = 1..n
  <2>1. s = [i \in 1..n |-> CHOOSE m \in S : Rank(m) = i - 1]
    BY DEF Sorted
  <2>2. s \in [1..n -> S]
    <3> HIDE DEF Rank
    <3> QED
      BY <2>1, <1>2
  <2> HIDE DEF s, n
  <2> QED
    BY <2>2, <1>1
<1>4. \A m \in S : Rank(m) \in Nat /\ Rank(m) + 1 \in 1..n
  <2> SUFFICES ASSUME NEW m \in S
               PROVE  Rank(m) \in Nat /\ Rank(m) + 1 \in 1..n
    OBVIOUS
  <2>1. {x \in S : x < m} \in SUBSET S /\ m \notin {x \in S : x < m}
    OBVIOUS
  <2>2. /\ IsFiniteSet({x \in S : x < m})
        /\ Rank(m) <= n
        /\ n = Rank(m) => S = {x \in S : x < m}
    BY <2>1, FS_Subset
  <2>3. Rank(m) \in Nat /\ Rank(m) # n
    BY <2>1, <2>2, FS_CardinalityType
  <2> HIDE DEF Rank, n
  <2> QED
    BY <2>2, <2>3, <1>1
<1>5. \A m, l \in S : m < l => Rank(m) < Rank(l)
  <2> SUFFICES ASSUME NEW m \in S, NEW l \in S, m < l
               PROVE  Rank(m) < Rank(l)
    OBVIOUS
  <2>1. /\ {x \in S : x < m} \in SUBSET {x \in S : x < l}
        /\ m \in {x \in S : x < l} /\ m \notin {x \in S : x < m}
    BY BeforeGrows
  <2>2. IsFiniteSet({x \in S : x < l})
    BY FS_Subset
  <2>3. /\ Rank(m) <= Rank(l)
        /\ Rank(l) = Rank(m) => {x \in S : x < l} = {x \in S : x < m}
    BY <2>1, <2>2, FS_Subset
  <2>4. Rank(m) \in Nat /\ Rank(l) \in Nat /\ Rank(m) # Rank(l)
    BY <2>1, <2>3, <1>4
  <2> HIDE DEF Rank
  <2> QED
    BY <2>3, <2>4
<1>10. \A m \in S : m \in Nat
  OBVIOUS
<1> HIDE DEF Rank, s, n
<1>6. \A m \in S : s[Rank(m) + 1] = m
  <2> SUFFICES ASSUME NEW m \in S
               PROVE  s[Rank(m) + 1] = m
    OBVIOUS
  <2>1. Rank(m) + 1 \in 1..n /\ Rank(m) \in Nat
    BY <1>4
  <2>2. s[Rank(m) + 1] \in S /\ Rank(s[Rank(m) + 1]) = Rank(m)
    BY <2>1, <1>2
  <2>3. /\ ~ (s[Rank(m) + 1] < m)
        /\ ~ (m < s[Rank(m) + 1])
    <3>1. ~ (Rank(m) < Rank(m))
      BY <2>1
    <3> QED
      BY <3>1, <2>2, <1>5
  <2>4. m \in Nat /\ s[Rank(m) + 1] \in Nat
    BY <2>2, <1>10
  <2> QED
    BY <2>3, <2>4
<1>7. ToSet(s) = S
  <2>1. ToSet(s) = {s[i] : i \in 1..n}
    BY <1>3 DEF ToSet
  <2> QED
    BY <2>1, <1>2, <1>4, <1>6
<1>8. IsInjective(s)
  <2>1. \A i, j \in 1..n : s[i] = s[j] => i = j
    BY <1>1, <1>2
  <2> QED
    BY <2>1, <1>3 DEF IsInjective
<1>9. ASSUME S # {}
      PROVE  s # <<>> /\ Head(s) \in S /\ \A m \in S : Head(s) <= m
  <2>1. n # 0
    BY <1>9, FS_EmptySet DEF n
  <2>2. 1 \in 1..n /\ s # <<>> /\ Head(s) = s[1]
    BY <2>1, <1>1, <1>3
  <2>3. s[1] \in S /\ Rank(s[1]) = 0
    BY <2>2, <1>2
  <2>4. \A m \in S : ~ (m < s[1])
    <3>1. \A m \in S : ~ (Rank(m) < 0)
      BY <1>4
    <3> QED
      BY <3>1, <2>3, <1>5
  <2>5. s[1] \in Nat
    BY <2>3, <1>10
  <2>6. \A m \in S : s[1] <= m
    BY <2>4, <2>5, <1>10
  <2> QED
    BY <2>2, <2>3, <2>6
<1> QED
  BY <1>3, <1>7, <1>8, <1>9 DEF s

\* A page that does not hold all holds some, and what it does not is older.
LEMMA NewestFirst ==
  ASSUME NEW S \in SUBSET Messages
  PROVE  /\ Newest(S) \subseteq S
         /\ IsFiniteSet(S) /\ IsFiniteSet(Newest(S))
         /\ S # {} => Newest(S) # {}
         /\ \A m \in S \ Newest(S), x \in Newest(S) : m < x
<1>1. S \in SUBSET Nat /\ IsFiniteSet(S)
  BY MessagesAssumption, FS_Subset
<1>2. PageLimit \in Nat /\ PageLimit > 0
  BY BoundAssumption
<1>3. Newest(S) \in SUBSET S
  BY DEF Newest
<1>4. IsFiniteSet(Newest(S))
  BY <1>1, <1>3, FS_Subset
<1> DEFINE After(m) == {x \in S : x > m}
<1>5. \A m \in S : IsFiniteSet(After(m)) /\ Cardinality(After(m)) \in Nat
  BY <1>1, FS_Subset, FS_CardinalityType
<1>6. ASSUME S # {} PROVE Newest(S) # {}
  <2> DEFINE n == Cardinality(S)
  <2>1. n \in Nat /\ n # 0
    BY <1>6, <1>1, FS_CardinalityType, FS_EmptySet
  <2>2. n - 1 \in 0..(n - 1)
    BY <2>1
  <2>3. PICK m \in S : Cardinality({x \in S : x < m}) = n - 1
    BY <2>2, <1>1, RankExists
  <2>4. After(m) = {}
    <3> SUFFICES ASSUME NEW y \in S, y > m PROVE FALSE
      OBVIOUS
    <3>1. /\ IsFiniteSet(S \ {m}) /\ Cardinality(S \ {m}) = n - 1
      BY <1>1, FS_RemoveElement
    <3>2. {x \in S : x < m} \in SUBSET (S \ {m})
      BY <1>1
    <3>3. S \ {m} = {x \in S : x < m}
      BY <3>1, <3>2, <2>3, FS_Subset
    <3> QED
      BY <3>3, <1>1
  <2>5. Cardinality(After(m)) = 0
    BY <2>4, FS_EmptySet
  <2> QED
    BY <2>5, <1>2 DEF Newest
<1>7. ASSUME NEW m \in S \ Newest(S), NEW x \in Newest(S) PROVE m < x
  <2>1. ~ (Cardinality(After(m)) < PageLimit)
    BY DEF Newest
  <2>2. x \in S /\ Cardinality(After(x)) < PageLimit
    BY DEF Newest
  <2>3. ASSUME x <= m PROVE FALSE
    <3>1. \A y \in S : y \in Nat
      BY <1>1
    <3>3. \A y \in S : y > m => y > x
      BY <3>1, <2>2, <2>3
    <3>4. After(m) \in SUBSET After(x)
      BY <3>3
    <3>2. Cardinality(After(m)) <= Cardinality(After(x))
      BY <3>4, <2>2, <1>5, FS_Subset
    <3> HIDE DEF After
    <3> QED
      BY <3>2, <2>1, <2>2, <1>2, <1>5
  <2> QED
    BY <2>2, <2>3, <1>1
<1> QED
  BY <1>1, <1>3, <1>4, <1>6, <1>7

-----------------------------------------------------------------------------
(* Queues.                                                                 *)

Item == Message \cup History

LEMMA ItemTypes ==
  /\ \A x \in Item : IsMessage(x) => x \in Message /\ x.id \in Messages
  /\ \A x \in Item : IsHistory(x) => x \in History
  /\ \A x \in Item : IsMessage(x) => ~ IsHistory(x)
BY DEF Item, Message, History, IsMessage, IsHistory

\* The queues of a page hold what they may hold.
LEMMA QueueTypes ==
  ASSUME TypeOK, NEW b \in Browsers
  PROVE  /\ inbox[b] \in Seq(Item)
         /\ Coming(b) \in Seq(Item)
         /\ asked[b] \in Seq(Request)
         /\ page # None => page \in History
<1>1. inbox[b] \in Seq(Item) /\ asked[b] \in Seq(Request)
  BY DEF TypeOK, Item
<1>2. page # None => page \in Item /\ page \in History
  BY DEF TypeOK, Item
<1>3. page # None => Append(inbox[b], page) \in Seq(Item)
  BY <1>1, <1>2, AppendProperties
<1> QED
  BY <1>1, <1>2, <1>3 DEF Coming

\* What a sequence has is what it has at its places.
LEMMA Places ==
  ASSUME NEW S, NEW q \in Seq(S)
  PROVE  /\ Len(q) \in Nat /\ DOMAIN q = 1..Len(q)
         /\ \A i \in 1..Len(q) : q[i] \in S
         /\ \A x \in ToSet(q) : x \in S /\ \E i \in 1..Len(q) : q[i] = x
         /\ \A i \in 1..Len(q) : q[i] \in ToSet(q)
<1>1. Len(q) \in Nat /\ DOMAIN q = 1..Len(q) /\ \A i \in 1..Len(q) : q[i] \in S
  OBVIOUS
<1>2. ToSet(q) = {q[i] : i \in 1..Len(q)}
  BY <1>1 DEF ToSet
<1> QED
  BY <1>1, <1>2

\* Where the elements of a queue are when one is added, taken, or several added.
LEMMA PlacesAppend ==
  ASSUME NEW S, NEW q \in Seq(S), NEW e \in S
  PROVE  /\ Append(q, e) \in Seq(S)
         /\ Len(Append(q, e)) = Len(q) + 1
         /\ \A i \in 1..Len(q) : Append(q, e)[i] = q[i]
         /\ Append(q, e)[Len(q) + 1] = e
         /\ ToSet(Append(q, e)) = ToSet(q) \cup {e}
<1>1. /\ Append(q, e) \in Seq(S)
      /\ Len(Append(q, e)) = Len(q) + 1
      /\ \A i \in 1..Len(q) : Append(q, e)[i] = q[i]
      /\ Append(q, e)[Len(q) + 1] = e
  OBVIOUS
<1>2. /\ DOMAIN q = 1..Len(q) /\ Len(q) \in Nat
      /\ DOMAIN Append(q, e) = 1..(Len(q) + 1)
  BY <1>1
<1>3. ToSet(Append(q, e)) = {Append(q, e)[i] : i \in 1..(Len(q) + 1)}
  BY <1>2 DEF ToSet
<1>4. ToSet(q) = {q[i] : i \in 1..Len(q)}
  BY <1>2 DEF ToSet
<1>5. \A i \in 1..(Len(q) + 1) : i \in 1..Len(q) \/ i = Len(q) + 1
  BY <1>2
<1>6. (1..Len(q)) \subseteq 1..(Len(q) + 1) /\ Len(q) + 1 \in 1..(Len(q) + 1)
  BY <1>2
<1>7. ToSet(Append(q, e)) \subseteq ToSet(q) \cup {e}
  BY <1>1, <1>3, <1>4, <1>5
<1>8. ToSet(q) \cup {e} \subseteq ToSet(Append(q, e))
  BY <1>1, <1>3, <1>4, <1>6
<1> QED
  BY <1>1, <1>7, <1>8

LEMMA PlacesTail ==
  ASSUME NEW S, NEW q \in Seq(S), q # <<>>
  PROVE  /\ Tail(q) \in Seq(S)
         /\ Len(Tail(q)) = Len(q) - 1
         /\ 1 \in 1..Len(q) /\ Head(q) = q[1]
         /\ \A i \in 1..Len(Tail(q)) : i + 1 \in 1..Len(q) /\ Tail(q)[i] = q[i + 1]
         /\ \A x \in ToSet(q) : x = Head(q) \/ x \in ToSet(Tail(q))
         /\ \A x \in ToSet(Tail(q)) : x \in ToSet(q)
<1>1. /\ Tail(q) \in Seq(S)
      /\ Len(Tail(q)) = Len(q) - 1
      /\ 1 \in 1..Len(q) /\ Head(q) = q[1]
      /\ \A i \in 1..Len(Tail(q)) : i + 1 \in 1..Len(q) /\ Tail(q)[i] = q[i + 1]
  OBVIOUS
<1>2. \A i \in 1..Len(q) : i = 1 \/ (i - 1 \in 1..Len(Tail(q)) /\ Tail(q)[i - 1] = q[i])
  BY <1>1
<1>5. /\ \A x \in ToSet(q) : \E i \in 1..Len(q) : q[i] = x
      /\ \A i \in 1..Len(q) : q[i] \in ToSet(q)
  BY Places
<1>7. Tail(q) \in Seq(S)
  BY <1>1
<1>6. /\ \A x \in ToSet(Tail(q)) : \E i \in 1..Len(Tail(q)) : Tail(q)[i] = x
      /\ \A i \in 1..Len(Tail(q)) : Tail(q)[i] \in ToSet(Tail(q))
  <2> DEFINE t == Tail(q)
  <2>1. t \in Seq(S)
    BY <1>7
  <2> HIDE DEF t
  <2>2. /\ \A x \in ToSet(t) : \E i \in 1..Len(t) : t[i] = x
        /\ \A i \in 1..Len(t) : t[i] \in ToSet(t)
    BY <2>1, Places
  <2> QED
    BY <2>2 DEF t
<1>3. \A x \in ToSet(q) : x = Head(q) \/ x \in ToSet(Tail(q))
  <2> SUFFICES ASSUME NEW x \in ToSet(q), x # Head(q) PROVE x \in ToSet(Tail(q))
    OBVIOUS
  <2>1. PICK i \in 1..Len(q) : q[i] = x
    BY <1>5
  <2>2. i - 1 \in 1..Len(Tail(q)) /\ Tail(q)[i - 1] = x
    BY <2>1, <1>1, <1>2
  <2> QED
    BY <2>2, <1>6
<1>4. \A x \in ToSet(Tail(q)) : x \in ToSet(q)
  BY <1>1, <1>5, <1>6
<1> QED
  BY <1>1, <1>3, <1>4

LEMMA PlacesConcat ==
  ASSUME NEW S, NEW q \in Seq(S), NEW r \in Seq(S)
  PROVE  /\ q \o r \in Seq(S)
         /\ Len(q \o r) = Len(q) + Len(r)
         /\ \A i \in 1..Len(q) : (q \o r)[i] = q[i]
         /\ \A i \in 1..Len(r) : (q \o r)[Len(q) + i] = r[i]
         /\ ToSet(q \o r) = ToSet(q) \cup ToSet(r)
<1>1. /\ q \o r \in Seq(S)
      /\ Len(q \o r) = Len(q) + Len(r)
      /\ \A i \in 1..Len(q) : (q \o r)[i] = q[i]
      /\ \A i \in 1..Len(r) : (q \o r)[Len(q) + i] = r[i]
  OBVIOUS
<1>2. Len(q) \in Nat /\ Len(r) \in Nat
  OBVIOUS
<1>3. \A i \in 1..Len(q \o r) :
        i \in 1..Len(q) \/ (i - Len(q) \in 1..Len(r) /\ i = Len(q) + (i - Len(q)))
  BY <1>1, <1>2
<1>8. /\ \A x \in ToSet(q) : \E i \in 1..Len(q) : q[i] = x
      /\ \A i \in 1..Len(q) : q[i] \in ToSet(q)
  BY Places
<1>9. /\ \A x \in ToSet(r) : \E i \in 1..Len(r) : r[i] = x
      /\ \A i \in 1..Len(r) : r[i] \in ToSet(r)
  BY Places
<1>11. q \o r \in Seq(S)
  BY <1>1
<1>10. /\ \A x \in ToSet(q \o r) : \E i \in 1..Len(q \o r) : (q \o r)[i] = x
       /\ \A i \in 1..Len(q \o r) : (q \o r)[i] \in ToSet(q \o r)
  <2> DEFINE t == q \o r
  <2>1. t \in Seq(S)
    BY <1>11
  <2> HIDE DEF t
  <2>2. /\ \A x \in ToSet(t) : \E i \in 1..Len(t) : t[i] = x
        /\ \A i \in 1..Len(t) : t[i] \in ToSet(t)
    BY <2>1, Places
  <2> QED
    BY <2>2 DEF t
<1>4. ASSUME NEW x \in ToSet(q \o r) PROVE x \in ToSet(q) \cup ToSet(r)
  <2>1. PICK i \in 1..Len(q \o r) : (q \o r)[i] = x
    BY <1>10
  <2>2. CASE i \in 1..Len(q)
    BY <2>1, <2>2, <1>1, <1>8
  <2>3. CASE i - Len(q) \in 1..Len(r) /\ i = Len(q) + (i - Len(q))
    <3>1. (q \o r)[Len(q) + (i - Len(q))] = r[i - Len(q)]
      BY <2>3, <1>1
    <3> QED
      BY <3>1, <2>1, <2>3, <1>9
  <2> QED
    BY <2>1, <2>2, <2>3, <1>3
<1>5. \A i \in 1..Len(q) : i \in 1..Len(q \o r)
  BY <1>1, <1>2
<1>6. \A i \in 1..Len(r) : Len(q) + i \in 1..Len(q \o r)
  BY <1>1, <1>2
<1>7. ToSet(q) \cup ToSet(r) \subseteq ToSet(q \o r)
  <2>1. ASSUME NEW x \in ToSet(q) PROVE x \in ToSet(q \o r)
    BY <1>1, <1>5, <1>8, <1>10
  <2>2. ASSUME NEW x \in ToSet(r) PROVE x \in ToSet(q \o r)
    <3>1. PICK i \in 1..Len(r) : r[i] = x
      BY <1>9
    <3> QED
      BY <3>1, <1>1, <1>6, <1>10
  <2> QED
    BY <2>1, <2>2
<1> QED
  BY <1>1, <1>4, <1>7

-----------------------------------------------------------------------------
(* What a step does to a page.                                             *)

\* Nothing is added to what is coming to b; what came first may be gone, or
\* what would come last.
Fewer(b) ==
  \E d \in 0..1 : \A i \in 1..Len(Coming(b)') :
    i + d \in 1..Len(Coming(b)) /\ Coming(b)'[i] = Coming(b)[i + d]

\* x is put behind all that is coming to b but an answer in hand.
Slipped(b, x) ==
  \E p \in Len(Coming(b))..(Len(Coming(b)) + 1) :
    /\ p >= 1
    /\ Len(Coming(b)') = Len(Coming(b)) + 1
    /\ Coming(b)'[p] = x
    /\ \A i \in 1..Len(Coming(b)) : i < p => Coming(b)'[i] = Coming(b)[i]
    /\ p = Len(Coming(b)) => Coming(b)'[p + 1] = Coming(b)[p] /\ IsHistory(Coming(b)[p])

\* b shows what it showed.
ViewKept(b) ==
  /\ current'[b] = current[b] /\ oldest'[b] = oldest[b]
  /\ more'[b] = more[b] /\ shown'[b] = shown[b]
  /\ excuse[b] \subseteq excuse'[b]

\* What comes to b may be lost, but not unnoticed.
Undisturbed(b) ==
  /\ ViewKept(b)
  /\ asked'[b] = asked[b]
  /\ UNCHANGED <<place, fresh>>
  /\ Fewer(b)
  /\ \/ "missed" \in excuse'[b]
     \/ \A x \in ToSet(Coming(b)) :
          x \in ToSet(Coming(b)') \/ (IsHistory(x) /\ x.ch # current[b])

\* A request of b is taken, but no history of it is queried unless it is refused.
Served(b) ==
  /\ ViewKept(b)
  /\ asked[b] # <<>> /\ asked'[b] = Tail(asked[b])
  /\ UNCHANGED <<place, fresh>>
  /\ Coming(b)' = Coming(b)
  /\ Head(asked[b]).op = "get_history" => "missed" \in excuse'[b]

LEMMA Unmoved ==
  ASSUME NEW b \in Browsers, UNCHANGED <<inbox, page>>
  PROVE  Coming(b)' = Coming(b)
BY DEF Coming

LEMMA KeptIsFewer ==
  ASSUME TypeOK, NEW b \in Browsers, Coming(b)' = Coming(b)
  PROVE  Fewer(b)
<1>1. Len(Coming(b)) \in Nat
  BY QueueTypes, Places
<1>2. \A i \in 1..Len(Coming(b)) : i + 0 = i
  BY <1>1
<1>3. 0 \in 0..1
  OBVIOUS
<1> QED
  BY <1>2, <1>3 DEF Fewer

LEMMA TailIsFewer ==
  ASSUME TypeOK, NEW b \in Browsers, Coming(b) # <<>>, Coming(b)' = Tail(Coming(b))
  PROVE  Fewer(b)
<1>1. \A i \in 1..Len(Tail(Coming(b))) :
        i + 1 \in 1..Len(Coming(b)) /\ Tail(Coming(b))[i] = Coming(b)[i + 1]
  BY QueueTypes, PlacesTail
<1>2. 1 \in 0..1
  OBVIOUS
<1> QED
  BY <1>1, <1>2 DEF Fewer

\* What is left was there.
LEMMA FewerItems ==
  ASSUME TypeOK, TypeOK', NEW b \in Browsers, Fewer(b)
  PROVE  \A x \in ToSet(Coming(b)') : x \in ToSet(Coming(b))
<1>1. Coming(b) \in Seq(Item)
  BY QueueTypes
<1>2. Coming(b)' \in Seq(Item)
  <2>1. (inbox[b] \in Seq(Item) /\ (page # None => page \in Item))'
    BY DEF TypeOK, Item
  <2>2. page' # None => Append(inbox'[b], page') \in Seq(Item)
    BY <2>1, AppendProperties
  <2> QED
    BY <2>1, <2>2 DEF Coming
<1>3. PICK d \in 0..1 : \A i \in 1..Len(Coming(b)') :
        i + d \in 1..Len(Coming(b)) /\ Coming(b)'[i] = Coming(b)[i + d]
  BY DEF Fewer
<1>4. \A i \in 1..Len(Coming(b)) : Coming(b)[i] \in ToSet(Coming(b))
  BY <1>1, Places
<1>5. \A x \in ToSet(Coming(b)') : \E i \in 1..Len(Coming(b)') : Coming(b)'[i] = x
  <2> DEFINE t == Coming(b)'
  <2> HIDE DEF t
  <2>1. t \in Seq(Item)
    BY <1>2 DEF t
  <2>2. \A x \in ToSet(t) : \E i \in 1..Len(t) : t[i] = x
    BY <2>1, Places
  <2>3. ToSet(Coming(b)') = ToSet(t)
    BY DEF t
  <2> QED
    BY <2>2, <2>3 DEF t
<1> QED
  BY <1>3, <1>4, <1>5

\* An answer that leaves the reader stays the last that is coming.
LEMMA AnswerKeeps ==
  ASSUME TypeOK, Answer, NEW b \in Browsers
  PROVE  Coming(b)' = Coming(b)
BY DEF Answer, Sent, Coming, TypeOK

\* Taking from the inbox of a page takes the first that is coming to it only.
LEMMA ReceiveTakes ==
  ASSUME TypeOK, NEW a \in Browsers, inbox[a] # <<>>,
         inbox' = [inbox EXCEPT ![a] = Tail(@)], page' = page
  PROVE  /\ Coming(a) # <<>>
         /\ Head(Coming(a)) = Head(inbox[a])
         /\ Coming(a)' = Tail(Coming(a))
         /\ \A b \in Browsers \ {a} : Coming(b)' = Coming(b)
<1>1. inbox'[a] = Tail(inbox[a]) /\ \A b \in Browsers \ {a} : inbox'[b] = inbox[b]
  BY DEF TypeOK
<1>2. \A b \in Browsers \ {a} : Coming(b)' = Coming(b)
  BY <1>1 DEF Coming
<1>3. CASE page = None
  BY <1>1, <1>2, <1>3 DEF Coming
<1>4. CASE page # None
  <2>1. inbox[a] \in Seq(Item) /\ page \in Item
    BY <1>4, QueueTypes DEF Item
  <2>2. /\ Append(inbox[a], page) # <<>>
        /\ Head(Append(inbox[a], page)) = Head(inbox[a])
        /\ Tail(Append(inbox[a], page)) = Append(Tail(inbox[a]), page)
    BY <2>1
  <2> QED
    BY <1>1, <1>2, <1>4, <2>2 DEF Coming
<1> QED
  BY <1>3, <1>4

\* A connection that is replaced takes along the answer in hand.
LEMMA ReconnectCuts ==
  ASSUME TypeOK, page' = None, UNCHANGED inbox, NEW b \in Browsers
  PROVE  Fewer(b)
<1>1. Coming(b)' = inbox[b]
  BY DEF Coming
<1>2. inbox[b] \in Seq(Item) /\ Len(inbox[b]) \in Nat
  BY QueueTypes, Places
<1>3. CASE page = None
  BY <1>1, <1>3, KeptIsFewer DEF Coming
<1>4. CASE page # None
  <2>1. page \in Item
    BY <1>4, QueueTypes DEF Item
  <2>2. /\ Len(Coming(b)) = Len(inbox[b]) + 1
        /\ \A i \in 1..Len(inbox[b]) : Coming(b)[i] = inbox[b][i]
    BY <1>2, <1>4, <2>1, PlacesAppend DEF Coming
  <2>3. \A i \in 1..Len(inbox[b]) :
          i + 0 \in 1..Len(Coming(b)) /\ inbox[b][i] = Coming(b)[i + 0]
    BY <1>2, <2>2
  <2>4. 0 \in 0..1
    OBVIOUS
  <2> QED
    BY <1>1, <2>3, <2>4 DEF Fewer
<1> QED
  BY <1>3, <1>4

\* A query puts its answer behind all that is coming to any page.
LEMMA QueryAdds ==
  ASSUME TypeOK, NEW a \in Browsers, Query(a), NEW b \in Browsers
  PROVE  LET r == Head(asked[a])
         IN  /\ page' = [op |-> "history", ch |-> r.ch, ids |-> Newest(Eligible(r)),
                         more |-> Newest(Eligible(r)) # Eligible(r),
                         by |-> a, before |-> r.before, found |-> Eligible(r)]
             /\ r \in Request /\ r.op = "get_history"
             /\ page' \in History
             /\ Coming(b)' = Append(Coming(b), page')
<1> DEFINE r == Head(asked[a])
<1>1. asked[a] # <<>> /\ asked[a] \in Seq(Request) /\ r.op = "get_history" /\ page = None
      /\ inbox' = inbox
  BY DEF Query, Take, TypeOK
<1>2. r \in Request
  BY <1>1
<1>3. page' = [op |-> "history", ch |-> r.ch, ids |-> Newest(Eligible(r)),
               more |-> Newest(Eligible(r)) # Eligible(r),
               by |-> a, before |-> r.before, found |-> Eligible(r)]
  BY DEF Query
<1>4. r.ch \in Channels /\ r.before \in Messages \cup {None}
  BY <1>1, <1>2 DEF Request
<1>5. Eligible(r) \in SUBSET Messages /\ Newest(Eligible(r)) \in SUBSET Messages
  BY DEF Eligible, Newest
<1>6. page' \in History
  BY <1>3, <1>4, <1>5 DEF History
<1>7. page' # None
  BY <1>6, NoneAssumption
<1> QED
  BY <1>1, <1>2, <1>3, <1>6, <1>7 DEF Coming

\* A broadcast may overtake the answer in hand, and nothing else.
LEMMA PublishSlips ==
  ASSUME TypeOK, NEW m \in Messages, Publish(m), NEW b \in Browsers
  PROVE  LET x == [op |-> "message", id |-> m]
         IN  /\ place[m] \in subscribed =>
                  Slipped(b, x) /\ ToSet(Coming(b)') = ToSet(Coming(b)) \cup {x}
             /\ place[m] \notin subscribed => Coming(b)' = Coming(b)
<1> DEFINE x == [op |-> "message", id |-> m]
           q == inbox[b]
<1>1. q \in Seq(Item) /\ x \in Item
  BY QueueTypes DEF Item, Message
<1>2. page' = page
  BY DEF Publish
<1>3. ASSUME place[m] \notin subscribed PROVE Coming(b)' = Coming(b)
  BY <1>2, <1>3 DEF Publish, Coming
<1>4. ASSUME place[m] \in subscribed
      PROVE  Slipped(b, x) /\ ToSet(Coming(b)') = ToSet(Coming(b)) \cup {x}
  <2>1. inbox'[b] = Append(q, x)
    BY <1>4 DEF Publish, Sent
  <2>2. /\ Append(q, x) \in Seq(Item) /\ Len(q) \in Nat
        /\ Len(Append(q, x)) = Len(q) + 1
        /\ \A i \in 1..Len(q) : Append(q, x)[i] = q[i]
        /\ Append(q, x)[Len(q) + 1] = x
        /\ ToSet(Append(q, x)) = ToSet(q) \cup {x}
    BY <1>1, PlacesAppend, Places
  <2>3. CASE page = None
    <3>1. Coming(b) = q /\ Coming(b)' = Append(q, x)
      BY <2>1, <2>3, <1>2 DEF Coming
    <3>2. Len(q) + 1 \in Len(q)..(Len(q) + 1) /\ Len(q) + 1 >= 1 /\ Len(q) + 1 # Len(q)
      BY <2>2
    <3> HIDE DEF x, q
    <3> QED
      BY <3>1, <3>2, <2>2 DEF Slipped
  <2>4. CASE page # None
    <3>1. page \in Item /\ IsHistory(page)
      BY <2>4, QueueTypes DEF Item, History, IsHistory
    <3>2. Coming(b) = Append(q, page) /\ Coming(b)' = Append(Append(q, x), page)
      BY <2>1, <2>4, <1>2 DEF Coming
    <3>3. /\ Len(Append(q, page)) = Len(q) + 1
          /\ \A i \in 1..Len(q) : Append(q, page)[i] = q[i]
          /\ Append(q, page)[Len(q) + 1] = page
          /\ ToSet(Append(q, page)) = ToSet(q) \cup {page}
      BY <1>1, <3>1, PlacesAppend
    <3> DEFINE t == Append(q, x)
    <3> HIDE DEF t, x, q
    <3>4. /\ t \in Seq(Item) /\ Len(q) \in Nat
          /\ Len(t) = Len(q) + 1
          /\ \A i \in 1..Len(q) : t[i] = q[i]
          /\ t[Len(q) + 1] = x
          /\ ToSet(t) = ToSet(q) \cup {x}
      BY <2>2 DEF t
    <3>5. /\ Len(Append(t, page)) = Len(t) + 1
          /\ \A i \in 1..Len(t) : Append(t, page)[i] = t[i]
          /\ Append(t, page)[Len(t) + 1] = page
          /\ ToSet(Append(t, page)) = ToSet(t) \cup {page}
      BY <3>1, <3>4, PlacesAppend
    <3>6. Coming(b)' = Append(t, page)
      BY <3>2 DEF t
    <3>7. ToSet(Append(t, page)) = ToSet(Append(q, page)) \cup {x}
      BY <3>3, <3>4, <3>5
    <3>8. LET p == Len(q) + 1
          IN  /\ p \in Len(Append(q, page))..(Len(Append(q, page)) + 1) /\ p >= 1
              /\ Len(Append(t, page)) = Len(Append(q, page)) + 1
              /\ Append(t, page)[p] = x
              /\ \A i \in 1..Len(Append(q, page)) :
                   i < p => Append(t, page)[i] = Append(q, page)[i]
              /\ Append(t, page)[p + 1] = Append(q, page)[p]
              /\ IsHistory(Append(q, page)[p])
      <4>1. Len(q) + 1 \in 1..Len(t)
        BY <3>4
      <4>2. \A i \in 1..(Len(q) + 1) : i < Len(q) + 1 => i \in 1..Len(q) /\ i \in 1..Len(t)
        BY <3>4
      <4>3. Len(q) + 1 \in (Len(q) + 1)..(Len(q) + 1 + 1) /\ Len(q) + 1 >= 1
        BY <3>4
      <4> QED
        BY <4>1, <4>2, <4>3, <3>1, <3>3, <3>4, <3>5
    <3> QED
      BY <3>2, <3>6, <3>7, <3>8 DEF Slipped
  <2> QED
    BY <2>3, <2>4
<1> QED
  BY <1>3, <1>4

\* The page b acts.
Acts(b) ==
  \/ \E ch \in Channels : SelectChannel(b, ch)
  \/ GoBackToChannels(b) \/ SelectServer(b) \/ LoadMoreMessages(b)
  \/ \E item \in ToSet(inbox[b]) :
       AppendMessage(b, item) \/ RenderHistory(b, item) \/ PrependHistory(b, item)

LEMMA StillUndisturbed ==
  ASSUME TypeOK, NEW b \in Browsers, ViewKept(b), asked'[b] = asked[b],
         UNCHANGED <<place, fresh>>, Coming(b)' = Coming(b)
  PROVE  Undisturbed(b)
BY KeptIsFewer DEF Undisturbed

\* What another page does.
LEMMA OthersAct ==
  ASSUME TypeOK, NEW a \in Browsers, Acts(a), NEW b \in Browsers, a # b
  PROVE  Undisturbed(b)
<1>1. ASSUME NEW ch \in Channels, SelectChannel(a, ch) PROVE Undisturbed(b)
  <2>1. ViewKept(b) /\ asked'[b] = asked[b] /\ UNCHANGED <<place, fresh, inbox, page>>
    BY <1>1 DEF SelectChannel, Show, Click, serverVars, ViewKept, TypeOK
  <2> QED
    BY <2>1, Unmoved, StillUndisturbed
<1>2. ASSUME GoBackToChannels(a) PROVE Undisturbed(b)
  <2>1. ViewKept(b) /\ asked'[b] = asked[b] /\ UNCHANGED <<place, fresh, inbox, page>>
    BY <1>2 DEF GoBackToChannels, Click, serverVars, ViewKept, TypeOK
  <2> QED
    BY <2>1, Unmoved, StillUndisturbed
<1>3. ASSUME SelectServer(a) PROVE Undisturbed(b)
  <2>1. ViewKept(b) /\ asked'[b] = asked[b] /\ UNCHANGED <<place, fresh, inbox, page>>
    BY <1>3 DEF SelectServer, Click, serverVars, ViewKept, TypeOK
  <2> QED
    BY <2>1, Unmoved, StillUndisturbed
<1>4. ASSUME LoadMoreMessages(a) PROVE Undisturbed(b)
  <2>1. ViewKept(b) /\ asked'[b] = asked[b] /\ UNCHANGED <<place, fresh, inbox, page>>
    BY <1>4 DEF LoadMoreMessages, Click, serverVars, viewVars, ViewKept, TypeOK
  <2> QED
    BY <2>1, Unmoved, StillUndisturbed
<1>5. ASSUME NEW item \in ToSet(inbox[a]), Receive(a, item)
      PROVE  Coming(b)' = Coming(b) /\ asked'[b] = asked[b] /\ UNCHANGED <<place, fresh>>
             /\ current'[b] = current[b]
  BY <1>5, ReceiveTakes DEF Receive, serverVars
<1>6. ASSUME NEW item \in ToSet(inbox[a]), AppendMessage(a, item) PROVE Undisturbed(b)
  <2>1. Receive(a, item) /\ oldest' = oldest /\ more' = more
    BY <1>6 DEF AppendMessage
  <2>2. shown'[b] = shown[b] /\ excuse[b] \subseteq excuse'[b]
    BY <1>6 DEF AppendMessage, Excused, TypeOK
  <2> QED
    BY <2>1, <2>2, <1>5, StillUndisturbed DEF ViewKept
<1>7. ASSUME NEW item \in ToSet(inbox[a]), RenderHistory(a, item) PROVE Undisturbed(b)
  <2>1. Receive(a, item)
    BY <1>7 DEF RenderHistory
  <2>2. /\ shown'[b] = shown[b] /\ excuse[b] \subseteq excuse'[b]
        /\ oldest'[b] = oldest[b] /\ more'[b] = more[b]
    BY <1>7 DEF RenderHistory, TypeOK
  <2> QED
    BY <2>1, <2>2, <1>5, StillUndisturbed DEF ViewKept
<1>8. ASSUME NEW item \in ToSet(inbox[a]), PrependHistory(a, item) PROVE Undisturbed(b)
  <2>1. Receive(a, item)
    BY <1>8 DEF PrependHistory
  <2>2. /\ shown'[b] = shown[b] /\ excuse[b] \subseteq excuse'[b]
        /\ oldest'[b] = oldest[b] /\ more'[b] = more[b]
    BY <1>8 DEF PrependHistory, TypeOK
  <2> QED
    BY <2>1, <2>2, <1>5, StillUndisturbed DEF ViewKept
<1> QED
  BY <1>1, <1>2, <1>3, <1>4, <1>6, <1>7, <1>8 DEF Acts

\* The reader takes a request.
LEMMA Takes ==
  ASSUME TypeOK, NEW a \in Browsers, Subscribe(a) \/ Unsubscribe(a) \/ Refuse(a),
         NEW b \in Browsers
  PROVE  (a # b => Undisturbed(b)) /\ (a = b => Served(b))
<1>1. /\ asked[a] # <<>> /\ asked' = [asked EXCEPT ![a] = Tail(@)]
      /\ UNCHANGED <<place, fresh, inbox, page, current, oldest, more, shown>>
  BY DEF Subscribe, Unsubscribe, Refuse, Take, viewVars
<1>2. excuse[b] \subseteq excuse'[b]
  BY DEF Subscribe, Unsubscribe, Refuse, Excused, TypeOK
<1>3. a = b /\ Head(asked[a]).op = "get_history" => "missed" \in excuse'[b]
  BY DEF Subscribe, Unsubscribe, Refuse, Take, Excused, TypeOK
<1>4. ViewKept(b) /\ Coming(b)' = Coming(b)
  BY <1>1, <1>2, Unmoved DEF ViewKept
<1>5. a # b => asked'[b] = asked[b]
  BY <1>1 DEF TypeOK
<1>6. a = b => asked'[b] = Tail(asked[b])
  BY <1>1 DEF TypeOK
<1> QED
  BY <1>1, <1>3, <1>4, <1>5, <1>6, StillUndisturbed DEF Served

\* Something is lost on its way, or is not for b.
LEMMA Skips ==
  ASSUME TypeOK, NEW a \in Browsers,
         Lose(a) \/ \E item \in ToSet(inbox[a]) : IgnoreHistory(a, item),
         NEW b \in Browsers
  PROVE  Undisturbed(b)
<1>1. /\ inbox[a] # <<>> /\ inbox' = [inbox EXCEPT ![a] = Tail(@)]
      /\ UNCHANGED <<place, fresh, page, current, oldest, more, shown, asked>>
  BY DEF Lose, IgnoreHistory, Receive, serverVars, viewVars
<1>2. excuse[b] \subseteq excuse'[b]
  BY DEF Lose, IgnoreHistory, Excused, TypeOK
<1>3. /\ Coming(a) # <<>> /\ Head(Coming(a)) = Head(inbox[a])
      /\ Coming(a)' = Tail(Coming(a))
      /\ \A d \in Browsers \ {a} : Coming(d)' = Coming(d)
  BY <1>1, ReceiveTakes
<1>4. ViewKept(b)
  BY <1>1, <1>2 DEF ViewKept
<1>5. CASE a # b
  BY <1>1, <1>3, <1>4, <1>5, StillUndisturbed
<1>6. CASE a = b
  <2>1. Fewer(b)
    BY <1>3, <1>6, TailIsFewer
  <2>2. "missed" \in excuse'[b] \/ (IsHistory(Head(Coming(b))) /\ Head(Coming(b)).ch # current[b])
    BY <1>3, <1>6 DEF Lose, IgnoreHistory, Receive, Excused, TypeOK, IsHistory
  <2>3. \A x \in ToSet(Coming(b)) : x = Head(Coming(b)) \/ x \in ToSet(Tail(Coming(b)))
    BY <1>3, <1>6, QueueTypes, PlacesTail
  <2> QED
    BY <1>1, <1>3, <1>4, <1>6, <2>1, <2>2, <2>3 DEF Undisturbed
<1> QED
  BY <1>5, <1>6

\* All there is to happen, seen from b.
LEMMA Steps ==
  ASSUME TypeOK, [Next]_vars, NEW b \in Browsers
  PROVE  \/ Undisturbed(b)
         \/ Served(b)
         \/ \E a \in Browsers : Query(a)
         \/ \E m \in Messages, ch \in Channels : Post(m, ch)
         \/ \E m \in Messages : Publish(m)
         \/ Acts(b)
<1>1. CASE UNCHANGED vars
  <2>1. ViewKept(b) /\ asked'[b] = asked[b] /\ UNCHANGED <<place, fresh, inbox, page>>
    BY <1>1 DEF vars, serverVars, viewVars, ViewKept
  <2> QED
    BY <2>1, Unmoved, StillUndisturbed
<1>2. ASSUME NEW a \in Browsers, Acts(a) PROVE Acts(b) \/ Undisturbed(b)
  BY <1>2, OthersAct
<1>3. ASSUME NEW a \in Browsers, Subscribe(a) \/ Unsubscribe(a) \/ Refuse(a)
      PROVE  Undisturbed(b) \/ Served(b)
  BY <1>3, Takes
<1>4. ASSUME NEW a \in Browsers,
             Lose(a) \/ \E item \in ToSet(inbox[a]) : IgnoreHistory(a, item)
      PROVE  Undisturbed(b)
  BY <1>4, Skips
<1>5. ASSUME Answer PROVE Undisturbed(b)
  <2>1. ViewKept(b) /\ asked'[b] = asked[b] /\ UNCHANGED <<place, fresh>>
    BY <1>5 DEF Answer, viewVars, ViewKept
  <2> QED
    BY <2>1, <1>5, AnswerKeeps, StillUndisturbed
<1>6. ASSUME Reconnect PROVE Undisturbed(b)
  <2>1. /\ ViewKept(b) /\ asked'[b] = asked[b] /\ UNCHANGED <<place, fresh, inbox>>
        /\ page' = None /\ "missed" \in excuse'[b]
    BY <1>6 DEF Reconnect, viewVars, ViewKept, Excused, TypeOK
  <2> QED
    BY <2>1, ReconnectCuts DEF Undisturbed
<1> QED
  BY <1>1, <1>2, <1>3, <1>4, <1>5, <1>6 DEF Next, Acts

-----------------------------------------------------------------------------
(* Types.                                                                  *)

Stored == {m \in Messages : place[m] # None}

\* What an answer in order tells about itself.
LEMMA AnswerFacts ==
  ASSUME TypeOK, ItemsInOrder, NEW b \in Browsers, NEW h \in ToSet(Coming(b)), IsHistory(h)
  PROVE  /\ h \in History
         /\ h.ids \in SUBSET Nat /\ IsFiniteSet(h.ids)
         /\ h.ids \subseteq h.found /\ h.found \subseteq Messages
         /\ \A m \in h.found : place[m] = h.ch /\ (h.before # None => m < h.before)
         /\ h.more => h.ids # {}
         /\ \A m \in h.found \ h.ids : h.more /\ \A x \in h.ids : m < x
         /\ h.found \subseteq Stored
<1>1. h \in Item
  BY QueueTypes, Places
<1>2. h \in History
  BY <1>1, ItemTypes
<1>3. /\ h.found \in SUBSET Messages /\ h.ch \in Channels
  BY <1>2 DEF History
<1>4. /\ \A m \in h.found : place[m] = h.ch /\ (h.before # None => m < h.before)
      /\ h.ids = Newest(h.found)
      /\ h.more = (h.ids # h.found)
  BY DEF ItemsInOrder
<1>5. /\ Newest(h.found) \subseteq h.found
      /\ IsFiniteSet(Newest(h.found))
      /\ h.found # {} => Newest(h.found) # {}
      /\ \A m \in h.found \ Newest(h.found), x \in Newest(h.found) : m < x
  BY <1>3, NewestFirst
<1>6. h.found \subseteq Stored
  BY <1>3, <1>4, NoneAssumption DEF Stored
<1> QED
  BY <1>2, <1>3, <1>4, <1>5, <1>6, MessagesAssumption

\* What is first in the inbox is first of what is coming.
LEMMA InboxFirst ==
  ASSUME TypeOK, NEW b \in Browsers, inbox[b] # <<>>
  PROVE  /\ Head(inbox[b]) \in ToSet(inbox[b])
         /\ Head(inbox[b]) \in ToSet(Coming(b))
         /\ Head(inbox[b]) \in Item
         /\ Tail(inbox[b]) \in Seq(Item)
<1>1. inbox[b] \in Seq(Item) /\ 1 \in 1..Len(inbox[b]) /\ Head(inbox[b]) = inbox[b][1]
      /\ Tail(inbox[b]) \in Seq(Item)
  BY QueueTypes, PlacesTail
<1>2. Head(inbox[b]) \in ToSet(inbox[b]) /\ Head(inbox[b]) \in Item
  BY <1>1, Places
<1>3. page # None => page \in Item
  BY QueueTypes DEF Item
<1>4. page # None => ToSet(Append(inbox[b], page)) = ToSet(inbox[b]) \cup {page}
  BY <1>1, <1>3, PlacesAppend
<1> QED
  BY <1>1, <1>2, <1>4 DEF Coming

\* The oldest message of a page becomes the oldest shown.
LEMMA OldestOfPage ==
  ASSUME TypeOK, ItemsInOrder, NEW b \in Browsers, NEW h \in ToSet(Coming(b)), IsHistory(h),
         NEW o \in Messages \cup {None}
  PROVE  /\ OldestOf(h, o) \in Messages \cup {None}
         /\ h.ids = {} => OldestOf(h, o) = o
         /\ h.ids # {} => OldestOf(h, o) \in h.ids /\ \A m \in h.ids : OldestOf(h, o) <= m
<1>1. h.ids \in SUBSET Nat /\ IsFiniteSet(h.ids) /\ h.ids \subseteq Messages
  BY AnswerFacts
<1>2. h.ids # {} => Head(Sorted(h.ids)) \in h.ids /\ \A m \in h.ids : Head(Sorted(h.ids)) <= m
  BY <1>1, SortedPage
<1> QED
  BY <1>1, <1>2 DEF OldestOf

\* The requests a page puts together are requests.
LEMMA RequestTypes ==
  ASSUME TypeOK, NEW ch \in Channels, NEW id \in Messages \cup {None}, NEW b \in Browsers
  PROVE  /\ GetHistory(ch, id) \in Seq(Request) /\ Len(GetHistory(ch, id)) = 1
         /\ GetHistory(ch, id)[1] = [op |-> "get_history", ch |-> ch, before |-> id]
         /\ Join(ch) \in Seq(Request) /\ Len(Join(ch)) = 1
         /\ Join(ch)[1] = [op |-> "subscribe", ch |-> ch]
         /\ Leave(b) \in Seq(Request)
         /\ \A i \in 1..Len(Leave(b)) :
              Leave(b)[i] = [op |-> "unsubscribe", ch |-> current[b]]
<1>1. /\ [op |-> "get_history", ch |-> ch, before |-> id] \in Request
      /\ [op |-> "subscribe", ch |-> ch] \in Request
  BY DEF Request
<1>2. current[b] # None => [op |-> "unsubscribe", ch |-> current[b]] \in Request
  BY DEF Request, TypeOK
<1>3. /\ GetHistory(ch, id) \in Seq(Request) /\ Len(GetHistory(ch, id)) = 1
      /\ GetHistory(ch, id)[1] = [op |-> "get_history", ch |-> ch, before |-> id]
  BY <1>1 DEF GetHistory
<1>4. /\ Join(ch) \in Seq(Request) /\ Len(Join(ch)) = 1
      /\ Join(ch)[1] = [op |-> "subscribe", ch |-> ch]
  BY <1>1 DEF Join
<1>5. CASE current[b] = None
  <2>1. Leave(b) = <<>>
    BY <1>5 DEF Leave
  <2> QED
    BY <1>3, <1>4, <2>1
<1>6. CASE current[b] # None
  <2>1. Leave(b) = <<[op |-> "unsubscribe", ch |-> current[b]]>>
    BY <1>6 DEF Leave
  <2>2. /\ Leave(b) \in Seq(Request)
        /\ Len(Leave(b)) = 1
        /\ Leave(b)[1] = [op |-> "unsubscribe", ch |-> current[b]]
    BY <2>1, <1>2, <1>6
  <2>3. \A i \in 1..Len(Leave(b)) : i = 1
    BY <2>2
  <2> QED
    BY <1>3, <1>4, <2>2, <2>3
<1> QED
  BY <1>5, <1>6

LEMMA TypeInit == Init => TypeOK
<1> SUFFICES ASSUME Init PROVE TypeOK
  OBVIOUS
<1>1. <<>> \in Seq(Request) /\ <<>> \in Seq(Message \cup History)
      /\ <<>> \in Seq({m \in Messages : place[m] # None})
  OBVIOUS
<1>2. 0 \in 0..MaxClicks /\ 0 \in 0..MaxFaults
  BY BoundAssumption
<1> QED
  BY <1>1, <1>2 DEF Init, TypeOK

\* All but the pages and what is asked of the server.
ServerTypes ==
  /\ place \in [Messages -> Channels \cup {None}]
  /\ fresh \in SUBSET Messages
  /\ subscribed \in SUBSET Channels
  /\ page \in History \cup {None}
  /\ inbox \in [Browsers -> Seq(Message \cup History)]
  /\ clicks \in 0..MaxClicks
  /\ faults \in 0..MaxFaults

PageTypes ==
  /\ asked \in [Browsers -> Seq(Request)]
  /\ current \in [Browsers -> Channels \cup {None}]
  /\ oldest \in [Browsers -> Messages \cup {None}]
  /\ more \in [Browsers -> BOOLEAN]
  /\ \A b \in Browsers : more[b] => oldest[b] # None
  /\ shown \in [Browsers -> Seq({m \in Messages : place[m] # None})]
  /\ excuse \in [Browsers -> SUBSET {"missed", "repeated"}]

LEMMA TypeParts == TypeOK <=> ServerTypes /\ PageTypes
BY DEF TypeOK, ServerTypes, PageTypes

LEMMA ServerTypesNext == TypeOK /\ [Next]_vars => ServerTypes'
<1> SUFFICES ASSUME TypeOK, [Next]_vars PROVE ServerTypes'
  OBVIOUS
<1> USE DEF ServerTypes, TypeOK
<1>1. ASSUME NEW b \in Browsers, Acts(b) PROVE ServerTypes'
  <2>1. Click => ServerTypes'
    BY BoundAssumption DEF Click, serverVars
  <2>2. ASSUME NEW item \in ToSet(inbox[b]), Receive(b, item) PROVE ServerTypes'
    <3>1. Tail(inbox[b]) \in Seq(Message \cup History)
      BY <2>2, InboxFirst DEF Receive, Item
    <3> QED
      BY <2>2, <3>1 DEF Receive, serverVars, boundVars
  <2> QED
    BY <1>1, <2>1, <2>2 DEF Acts, SelectChannel, Show, GoBackToChannels, SelectServer,
       LoadMoreMessages, AppendMessage, RenderHistory, PrependHistory
<1>2. ASSUME NEW b \in Browsers, Subscribe(b) PROVE ServerTypes'
  <2>1. Head(asked[b]) \in Request
    BY <1>2 DEF Subscribe, Take
  <2>2. Head(asked[b]).ch \in Channels
    BY <2>1, <1>2 DEF Subscribe, Take, Request
  <2> QED
    BY <1>2, <2>2 DEF Subscribe, Take, boundVars
<1>3. ASSUME NEW b \in Browsers, Unsubscribe(b) PROVE ServerTypes'
  BY <1>3 DEF Unsubscribe, Take, boundVars
<1>4. ASSUME NEW b \in Browsers, Refuse(b) PROVE ServerTypes'
  BY <1>4, BoundAssumption DEF Refuse, Take, Fault
<1>5. ASSUME NEW b \in Browsers, Query(b) PROVE ServerTypes'
  <2>1. page' \in History
    BY <1>5, QueryAdds
  <2> QED
    BY <1>5, <2>1 DEF Query, Take, boundVars
<1>6. ASSUME NEW b \in Browsers, Lose(b) PROVE ServerTypes'
  <2>1. Tail(inbox[b]) \in Seq(Message \cup History)
    BY <1>6, InboxFirst DEF Lose, Item
  <2> QED
    BY <1>6, <2>1, BoundAssumption DEF Lose, Fault, serverVars
<1>7. ASSUME NEW b \in Browsers, NEW item \in ToSet(inbox[b]), IgnoreHistory(b, item)
      PROVE  ServerTypes'
  <2>1. Tail(inbox[b]) \in Seq(Message \cup History)
    BY <1>7, InboxFirst DEF IgnoreHistory, Receive, Item
  <2> QED
    BY <1>7, <2>1 DEF IgnoreHistory, Receive, serverVars, boundVars
<1>8. ASSUME NEW m \in Messages, NEW ch \in Channels, Post(m, ch) PROVE ServerTypes'
  BY <1>8 DEF Post, boundVars
<1>9. ASSUME NEW x \in Item, Sent(x) PROVE inbox' \in [Browsers -> Seq(Message \cup History)]
  <2>1. \A b \in Browsers : Append(inbox[b], x) \in Seq(Message \cup History)
    BY AppendProperties DEF Item
  <2> QED
    BY <1>9, <2>1 DEF Sent
<1>10. ASSUME NEW m \in Messages, Publish(m) PROVE ServerTypes'
  <2>1. [op |-> "message", id |-> m] \in Item
    BY DEF Item, Message
  <2>2. inbox' \in [Browsers -> Seq(Message \cup History)]
    BY <1>10, <2>1, <1>9 DEF Publish
  <2> QED
    BY <1>10, <2>2 DEF Publish, boundVars
<1>11. ASSUME Answer PROVE ServerTypes'
  <2>1. page \in Item
    BY <1>11 DEF Answer, Item
  <2>2. inbox' \in [Browsers -> Seq(Message \cup History)]
    BY <1>11, <2>1, <1>9 DEF Answer
  <2> QED
    BY <1>11, <2>2 DEF Answer, boundVars
<1>12. ASSUME Reconnect PROVE ServerTypes'
  BY <1>12, BoundAssumption DEF Reconnect, Fault
<1>13. CASE UNCHANGED vars
  BY <1>13 DEF vars, serverVars, boundVars
<1> QED
  BY <1>1, <1>2, <1>3, <1>4, <1>5, <1>6, <1>7, <1>8, <1>10, <1>11, <1>12, <1>13 DEF Next, Acts

\* Messages stay where they are.
LEMMA StoredStay ==
  ASSUME TypeOK, [Next]_vars
  PROVE  \A m \in Messages : place[m] # None => place'[m] = place[m]
<1> USE DEF TypeOK
<1>1. ASSUME NEW b \in Browsers, Acts(b) PROVE place' = place
  BY <1>1 DEF Acts, SelectChannel, Show, Click, GoBackToChannels, SelectServer,
     LoadMoreMessages, AppendMessage, RenderHistory, PrependHistory, Receive, serverVars
<1>2. ASSUME NEW b \in Browsers,
             Subscribe(b) \/ Unsubscribe(b) \/ Refuse(b) \/ Query(b)
      PROVE  place' = place
  BY <1>2 DEF Subscribe, Unsubscribe, Refuse, Query, Take
<1>3. ASSUME NEW b \in Browsers, Lose(b) \/ \E item \in ToSet(inbox[b]) : IgnoreHistory(b, item)
      PROVE  place' = place
  BY <1>3 DEF Lose, IgnoreHistory, Receive, serverVars
<1>4. ASSUME NEW m \in Messages, NEW ch \in Channels, Post(m, ch)
      PROVE  \A x \in Messages : place[x] # None => place'[x] = place[x]
  BY <1>4 DEF Post
<1>5. ASSUME NEW m \in Messages, Publish(m) PROVE place' = place
  BY <1>5 DEF Publish
<1>6. Answer \/ Reconnect => place' = place
  BY DEF Answer, Reconnect
<1>7. UNCHANGED vars => place' = place
  BY DEF vars, serverVars
<1> QED
  BY <1>1, <1>2, <1>3, <1>4, <1>5, <1>6, <1>7 DEF Next, Acts

\* Nothing that is stored goes away.
LEMMA StoredGrows ==
  ASSUME TypeOK, [Next]_vars
  PROVE  Stored \subseteq Stored'
<1>1. \A m \in Messages : place[m] # None => place'[m] = place[m]
  BY StoredStay
<1> QED
  BY <1>1 DEF Stored

\* A page that keeps what it shows, while messages are stored.
LEMMA ShownTypes ==
  ASSUME TypeOK, [Next]_vars, NEW s \in Seq(Stored)
  PROVE  s \in Seq({m \in Messages : place'[m] # None})
<1>1. Stored \subseteq {m \in Messages : place'[m] # None}
  BY StoredGrows DEF Stored
<1>2. \A i \in 1..Len(s) : s[i] \in Stored
  OBVIOUS
<1> QED
  BY <1>1, <1>2

LEMMA PageTypesNext == TypeOK /\ ItemsInOrder /\ [Next]_vars => PageTypes'
<1> SUFFICES ASSUME TypeOK, ItemsInOrder, [Next]_vars PROVE PageTypes'
  OBVIOUS
<1>0. PageTypes /\ shown \in [Browsers -> Seq(Stored)]
  BY TypeParts DEF PageTypes, Stored
<1>1. ASSUME UNCHANGED shown PROVE shown' \in [Browsers -> Seq({m \in Messages : place'[m] # None})]
  BY <1>0, <1>1, ShownTypes
<1>2. ASSUME NEW b \in Browsers, NEW s \in Seq(Stored), shown' = [shown EXCEPT ![b] = s]
      PROVE  shown' \in [Browsers -> Seq({m \in Messages : place'[m] # None})]
  BY <1>0, <1>2, ShownTypes
<1>3. ASSUME NEW b \in Browsers, NEW ch \in Channels, SelectChannel(b, ch) PROVE PageTypes'
  <2>1. asked[b] \o Leave(b) \o Join(ch) \o GetHistory(ch, None) \in Seq(Request)
    <3>1. asked[b] \in Seq(Request)
      BY <1>0 DEF PageTypes
    <3>2. Leave(b) \in Seq(Request) /\ Join(ch) \in Seq(Request)
          /\ GetHistory(ch, None) \in Seq(Request)
      BY RequestTypes
    <3>3. asked[b] \o Leave(b) \in Seq(Request)
      BY <3>1, <3>2, ConcatProperties
    <3>4. asked[b] \o Leave(b) \o Join(ch) \in Seq(Request)
      BY <3>2, <3>3, ConcatProperties
    <3> QED
      BY <3>2, <3>4, ConcatProperties
  <2>2. shown' \in [Browsers -> Seq({m \in Messages : place'[m] # None})]
    <3>1. shown' = [shown EXCEPT ![b] = <<>>]
      BY <1>3 DEF SelectChannel, Show
    <3>2. <<>> \in Seq(Stored)
      OBVIOUS
    <3> QED
      BY <1>2, <3>1, <3>2
  <2>3. /\ asked' = [asked EXCEPT ![b] = asked[b] \o Leave(b) \o Join(ch) \o GetHistory(ch, None)]
        /\ more' = [more EXCEPT ![b] = FALSE]
        /\ current' = [current EXCEPT ![b] = ch]
        /\ oldest' = [oldest EXCEPT ![b] = None]
    BY <1>3 DEF SelectChannel, Show
  <2>4. excuse' \in [Browsers -> SUBSET {"missed", "repeated"}]
    BY <1>0, <1>3 DEF SelectChannel, Show, PageTypes
  <2> HIDE DEF Show
  <2>5. /\ asked' \in [Browsers -> Seq(Request)]
        /\ current' \in [Browsers -> Channels \cup {None}]
        /\ oldest' \in [Browsers -> Messages \cup {None}]
        /\ more' \in [Browsers -> BOOLEAN]
        /\ \A d \in Browsers : more'[d] => oldest'[d] # None
    BY <1>0, <2>1, <2>3 DEF PageTypes
  <2> QED
    BY <2>2, <2>4, <2>5 DEF PageTypes
<1>4. ASSUME NEW b \in Browsers, GoBackToChannels(b) PROVE PageTypes'
  <2>1. asked[b] \o Leave(b) \in Seq(Request)
    <3>1. current[b] \in Channels
      BY <1>0, <1>4 DEF GoBackToChannels, PageTypes
    <3> QED
      BY <1>0, <3>1, RequestTypes, ConcatProperties DEF PageTypes
  <2> QED
    BY <1>0, <1>1, <1>4, <2>1 DEF GoBackToChannels, PageTypes
<1>5. ASSUME NEW b \in Browsers, SelectServer(b) PROVE PageTypes'
  BY <1>0, <1>1, <1>5 DEF SelectServer, PageTypes
<1>6. ASSUME NEW b \in Browsers, LoadMoreMessages(b) PROVE PageTypes'
  <2>1. asked[b] \o GetHistory(current[b], oldest[b]) \in Seq(Request)
    <3>1. current[b] \in Channels /\ oldest[b] \in Messages \cup {None}
      BY <1>0, <1>6 DEF LoadMoreMessages, PageTypes
    <3> QED
      BY <1>0, <3>1, RequestTypes, ConcatProperties DEF PageTypes
  <2>2. excuse' \in [Browsers -> SUBSET {"missed", "repeated"}]
    BY <1>0, <1>6 DEF LoadMoreMessages, PageTypes
  <2>3. shown' \in [Browsers -> Seq({m \in Messages : place'[m] # None})]
    BY <1>1, <1>6 DEF LoadMoreMessages, viewVars
  <2>4. asked' \in [Browsers -> Seq(Request)]
    BY <1>0, <1>6, <2>1 DEF LoadMoreMessages, PageTypes
  <2>5. UNCHANGED <<current, oldest, more>>
    BY <1>6 DEF LoadMoreMessages, viewVars
  <2> QED
    BY <1>0, <2>2, <2>3, <2>4, <2>5 DEF PageTypes
<1>7. ASSUME NEW b \in Browsers, Take(b, Head(asked[b]).op),
             excuse' \in [Browsers -> SUBSET {"missed", "repeated"}]
      PROVE  PageTypes'
  <2>1. Tail(asked[b]) \in Seq(Request)
    BY <1>0, <1>7 DEF Take, PageTypes
  <2> QED
    BY <1>0, <1>1, <1>7, <2>1 DEF Take, viewVars, PageTypes
<1>8. ASSUME NEW b \in Browsers, Subscribe(b) PROVE PageTypes'
  BY <1>0, <1>7, <1>8 DEF Subscribe, Take, PageTypes
<1>9. ASSUME NEW b \in Browsers, Unsubscribe(b) PROVE PageTypes'
  BY <1>0, <1>7, <1>9 DEF Unsubscribe, Take, PageTypes, Excused
<1>10. ASSUME NEW b \in Browsers, Query(b) PROVE PageTypes'
  BY <1>0, <1>7, <1>10 DEF Query, Take, PageTypes, Excused
<1>11. ASSUME NEW b \in Browsers, Refuse(b) PROVE PageTypes'
  BY <1>0, <1>7, <1>11 DEF Refuse, Take, PageTypes, Excused
<1>12. ASSUME UNCHANGED <<asked, current, oldest, more, shown>>,
              excuse' \in [Browsers -> SUBSET {"missed", "repeated"}]
       PROVE  PageTypes'
  BY <1>0, <1>1, <1>12 DEF PageTypes
<1>13. ASSUME NEW b \in Browsers, Lose(b) PROVE PageTypes'
  BY <1>0, <1>12, <1>13 DEF Lose, viewVars, PageTypes, Excused
<1>14. ASSUME NEW b \in Browsers, NEW i \in ToSet(inbox[b]), AppendMessage(b, i) PROVE PageTypes'
  <2>1. /\ inbox[b] # <<>> /\ i = Head(inbox[b]) /\ IsMessage(i)
        /\ UNCHANGED <<asked, current, oldest, more>>
    BY <1>14 DEF AppendMessage, Receive, IsMessage
  <2>2. i.id \in Stored
    BY <2>1, InboxFirst, ItemTypes DEF ItemsInOrder, Stored
  <2>3. Append(shown[b], i.id) \in Seq(Stored)
    BY <1>0, <2>2, AppendProperties
  <2>4. shown' \in [Browsers -> Seq({m \in Messages : place'[m] # None})]
    BY <1>1, <1>2, <1>14, <2>3 DEF AppendMessage
  <2>5. excuse' \in [Browsers -> SUBSET {"missed", "repeated"}]
    BY <1>0, <1>14 DEF AppendMessage, Excused, PageTypes
  <2> QED
    BY <1>0, <2>1, <2>4, <2>5 DEF PageTypes
<1>15. ASSUME NEW b \in Browsers, NEW h \in ToSet(inbox[b]), Receive(b, h), IsHistory(h)
       PROVE  /\ UNCHANGED <<asked, current>>
              /\ Sorted(h.ids) \in Seq(Stored)
              /\ \A o \in Messages \cup {None} :
                   /\ OldestOf(h, o) \in Messages \cup {None}
                   /\ h.more => OldestOf(h, o) # None
              /\ h.more \in BOOLEAN
  <2>1. h \in ToSet(Coming(b)) /\ UNCHANGED <<asked, current>>
    BY <1>15, InboxFirst DEF Receive
  <2>2. /\ h.ids \in SUBSET Nat /\ IsFiniteSet(h.ids) /\ h.ids \subseteq Stored
        /\ h.more => h.ids # {}
        /\ h \in History /\ h.ids \subseteq Messages
    BY <1>15, <2>1, AnswerFacts
  <2>3. Sorted(h.ids) \in Seq(h.ids)
    BY <2>2, SortedPage
  <2>4. \A s \in Seq(h.ids) : s \in Seq(Stored)
    BY <2>2
  <2>5. \A o \in Messages \cup {None} :
          /\ OldestOf(h, o) \in Messages \cup {None}
          /\ h.ids # {} => OldestOf(h, o) \in h.ids
    BY <1>15, <2>1, OldestOfPage
  <2>6. h.more \in BOOLEAN
    BY <2>2 DEF History
  <2> QED
    BY <2>1, <2>2, <2>3, <2>4, <2>5, <2>6, NoneAssumption
<1>16. ASSUME NEW b \in Browsers, NEW h \in ToSet(inbox[b]), RenderHistory(b, h) PROVE PageTypes'
  <2>1. /\ UNCHANGED <<asked, current>>
        /\ Sorted(h.ids) \in Seq(Stored)
        /\ OldestOf(h, None) \in Messages \cup {None}
        /\ h.more => OldestOf(h, None) # None
        /\ h.more \in BOOLEAN
    BY <1>15, <1>16 DEF RenderHistory, IsHistory
  <2>2. shown' \in [Browsers -> Seq({m \in Messages : place'[m] # None})]
    BY <1>2, <1>16, <2>1 DEF RenderHistory
  <2>3. /\ oldest' = [oldest EXCEPT ![b] = OldestOf(h, None)]
        /\ more' = [more EXCEPT ![b] = h.more]
    BY <1>16 DEF RenderHistory
  <2>4. excuse' \in [Browsers -> SUBSET {"missed", "repeated"}]
    BY <1>0, <1>16 DEF RenderHistory, Confused, PageTypes
  <2>5. /\ oldest' \in [Browsers -> Messages \cup {None}]
        /\ more' \in [Browsers -> BOOLEAN]
        /\ \A d \in Browsers : more'[d] => oldest'[d] # None
    BY <1>0, <2>1, <2>3 DEF PageTypes
  <2> QED
    BY <1>0, <2>1, <2>2, <2>4, <2>5 DEF PageTypes
<1>17. ASSUME NEW b \in Browsers, NEW h \in ToSet(inbox[b]), PrependHistory(b, h) PROVE PageTypes'
  <2>0. oldest[b] \in Messages \cup {None}
    BY <1>0 DEF PageTypes
  <2>1. /\ UNCHANGED <<asked, current>>
        /\ Sorted(h.ids) \in Seq(Stored)
        /\ OldestOf(h, oldest[b]) \in Messages \cup {None}
        /\ h.more => OldestOf(h, oldest[b]) # None
        /\ h.more \in BOOLEAN
    BY <1>15, <1>17, <2>0 DEF PrependHistory, IsHistory
  <2>6. Sorted(h.ids) \o shown[b] \in Seq(Stored)
    BY <1>0, <2>1, ConcatProperties
  <2>2. shown' \in [Browsers -> Seq({m \in Messages : place'[m] # None})]
    BY <1>2, <1>17, <2>6 DEF PrependHistory
  <2>3. /\ oldest' = [oldest EXCEPT ![b] = OldestOf(h, oldest[b])]
        /\ more' = [more EXCEPT ![b] = h.more]
    BY <1>17 DEF PrependHistory
  <2>4. excuse' \in [Browsers -> SUBSET {"missed", "repeated"}]
    BY <1>0, <1>17 DEF PrependHistory, Confused, PageTypes
  <2>5. /\ oldest' \in [Browsers -> Messages \cup {None}]
        /\ more' \in [Browsers -> BOOLEAN]
        /\ \A d \in Browsers : more'[d] => oldest'[d] # None
    BY <1>0, <2>1, <2>3 DEF PageTypes
  <2> QED
    BY <1>0, <2>1, <2>2, <2>4, <2>5 DEF PageTypes
<1>18. ASSUME NEW b \in Browsers, NEW h \in ToSet(inbox[b]), IgnoreHistory(b, h) PROVE PageTypes'
  BY <1>0, <1>12, <1>18 DEF IgnoreHistory, Receive, PageTypes
<1>19. ASSUME NEW m \in Messages, NEW ch \in Channels, Post(m, ch) PROVE PageTypes'
  BY <1>0, <1>12, <1>19 DEF Post, viewVars, PageTypes
<1>20. ASSUME NEW m \in Messages, Publish(m) PROVE PageTypes'
  BY <1>0, <1>12, <1>20 DEF Publish, viewVars, PageTypes
<1>21. ASSUME Answer PROVE PageTypes'
  BY <1>0, <1>12, <1>21 DEF Answer, viewVars, PageTypes
<1>22. ASSUME Reconnect PROVE PageTypes'
  BY <1>0, <1>12, <1>22 DEF Reconnect, viewVars, PageTypes, Excused
<1>23. CASE UNCHANGED vars
  BY <1>0, <1>12, <1>23 DEF vars, viewVars, PageTypes
<1> QED
  BY <1>3, <1>4, <1>5, <1>6, <1>8, <1>9, <1>10, <1>11, <1>13, <1>14, <1>16, <1>17, <1>18,
     <1>19, <1>20, <1>21, <1>22, <1>23 DEF Next

LEMMA TypeNext == TypeOK /\ ItemsInOrder /\ [Next]_vars => TypeOK'
<1>1. (TypeOK <=> ServerTypes /\ PageTypes)'
  BY DEF TypeOK, ServerTypes, PageTypes
<1> QED
  BY <1>1, ServerTypesNext, PageTypesNext

-----------------------------------------------------------------------------
(* What is on its way is in order.                                         *)

\* Places and elements of the queues, after a step and before.
LEMMA NextQueues ==
  ASSUME TypeOK', NEW b \in Browsers
  PROVE  /\ Coming(b)' \in Seq(Item) /\ Len(Coming(b)') \in Nat
         /\ \A i \in 1..Len(Coming(b)') : Coming(b)'[i] \in Item
         /\ \A x \in ToSet(Coming(b)') : x \in Item /\ \E i \in 1..Len(Coming(b)') : Coming(b)'[i] = x
         /\ \A i \in 1..Len(Coming(b)') : Coming(b)'[i] \in ToSet(Coming(b)')
<1>1. Coming(b)' \in Seq(Item)
  <2>1. (inbox[b] \in Seq(Item) /\ (page # None => page \in Item))'
    BY DEF TypeOK, Item
  <2>2. page' # None => Append(inbox'[b], page') \in Seq(Item)
    BY <2>1, AppendProperties
  <2> QED
    BY <2>1, <2>2 DEF Coming
<1> DEFINE t == Coming(b)'
<1> HIDE DEF t
<1>2. t \in Seq(Item)
  BY <1>1 DEF t
<1>3. /\ Len(t) \in Nat
      /\ \A i \in 1..Len(t) : t[i] \in Item
      /\ \A x \in ToSet(t) : x \in Item /\ \E i \in 1..Len(t) : t[i] = x
      /\ \A i \in 1..Len(t) : t[i] \in ToSet(t)
  BY <1>2, Places
<1>4. ToSet(Coming(b)') = ToSet(t)
  BY DEF t
<1> QED
  BY <1>1, <1>3, <1>4 DEF t

LEMMA Queues ==
  ASSUME TypeOK, NEW b \in Browsers
  PROVE  /\ Coming(b) \in Seq(Item) /\ Len(Coming(b)) \in Nat
         /\ \A i \in 1..Len(Coming(b)) : Coming(b)[i] \in Item
         /\ \A x \in ToSet(Coming(b)) : x \in Item /\ \E i \in 1..Len(Coming(b)) : Coming(b)[i] = x
         /\ \A i \in 1..Len(Coming(b)) : Coming(b)[i] \in ToSet(Coming(b))
BY QueueTypes, Places

\* Pages do not add to what is coming.
LEMMA ActsFewer ==
  ASSUME TypeOK, NEW b \in Browsers, Acts(b)
  PROVE  Fewer(b)
<1>1. ASSUME Click PROVE Fewer(b)
  BY <1>1, Unmoved, KeptIsFewer DEF Click, serverVars
<1>2. ASSUME NEW item \in ToSet(inbox[b]), Receive(b, item) PROVE Fewer(b)
  BY <1>2, ReceiveTakes, TailIsFewer DEF Receive, serverVars
<1> QED
  BY <1>1, <1>2 DEF Acts, SelectChannel, Show, GoBackToChannels, SelectServer, LoadMoreMessages,
     AppendMessage, RenderHistory, PrependHistory

\* What is coming was coming, is the answer that was made, or was published.
LEMMA NewItems ==
  ASSUME TypeOK, TypeOK', [Next]_vars, NEW b \in Browsers, NEW x \in ToSet(Coming(b)')
  PROVE  \/ x \in ToSet(Coming(b))
         \/ \E a \in Browsers : Query(a) /\ x = page'
         \/ \E m \in Messages : Publish(m) /\ x = [op |-> "message", id |-> m]
<1>1. CASE Undisturbed(b)
  BY <1>1, FewerItems DEF Undisturbed
<1>2. CASE Served(b)
  BY <1>2 DEF Served
<1>3. ASSUME NEW a \in Browsers, Query(a) PROVE x \in ToSet(Coming(b)) \/ x = page'
  <2>1. page' \in Item /\ Coming(b)' = Append(Coming(b), page')
    BY <1>3, QueryAdds DEF Item
  <2>2. ToSet(Append(Coming(b), page')) = ToSet(Coming(b)) \cup {page'}
    BY <2>1, QueueTypes, PlacesAppend
  <2> QED
    BY <2>1, <2>2
<1>4. ASSUME NEW m \in Messages, NEW ch \in Channels, Post(m, ch) PROVE x \in ToSet(Coming(b))
  BY <1>4, Unmoved DEF Post
<1>5. ASSUME NEW m \in Messages, Publish(m)
      PROVE  x \in ToSet(Coming(b)) \/ x = [op |-> "message", id |-> m]
  <2>1. /\ place[m] \in subscribed =>
             ToSet(Coming(b)') = ToSet(Coming(b)) \cup {[op |-> "message", id |-> m]}
        /\ place[m] \notin subscribed => Coming(b)' = Coming(b)
    BY <1>5, PublishSlips
  <2> QED
    BY <2>1
<1>6. CASE Acts(b)
  BY <1>6, ActsFewer, FewerItems
<1> QED
  BY <1>1, <1>2, <1>3, <1>4, <1>5, <1>6, Steps

\* Messages become fresh when they are stored, and are until they are broadcast.
LEMMA FreshNext ==
  ASSUME TypeOK, [Next]_vars
  PROVE  /\ \A m \in fresh' : m \in fresh \/ \E ch \in Channels : Post(m, ch)
         /\ \A m \in fresh : m \in fresh' \/ Publish(m)
<1>1. ASSUME NEW b \in Browsers, Acts(b) PROVE fresh' = fresh
  BY <1>1 DEF Acts, SelectChannel, Show, Click, GoBackToChannels, SelectServer,
     LoadMoreMessages, AppendMessage, RenderHistory, PrependHistory, Receive, serverVars
<1>2. ASSUME NEW b \in Browsers,
             Subscribe(b) \/ Unsubscribe(b) \/ Refuse(b) \/ Query(b)
      PROVE  fresh' = fresh
  BY <1>2 DEF Subscribe, Unsubscribe, Refuse, Query, Take
<1>3. ASSUME NEW b \in Browsers,
             Lose(b) \/ \E item \in ToSet(inbox[b]) : IgnoreHistory(b, item)
      PROVE  fresh' = fresh
  BY <1>3 DEF Lose, IgnoreHistory, Receive, serverVars
<1>4. ASSUME NEW x \in Messages, NEW ch \in Channels, Post(x, ch)
      PROVE  fresh' = fresh \cup {x}
  BY <1>4 DEF Post
<1>5. ASSUME NEW x \in Messages, Publish(x) PROVE fresh' = fresh \ {x}
  BY <1>5 DEF Publish
<1>6. Answer \/ Reconnect => fresh' = fresh
  BY DEF Answer, Reconnect
<1>7. UNCHANGED vars => fresh' = fresh
  BY DEF vars, serverVars
<1> QED
  BY <1>1, <1>2, <1>3, <1>4, <1>5, <1>6, <1>7 DEF Next, Acts

LEMMA ItemsInit == Init => ItemsInOrder
<1> SUFFICES ASSUME Init PROVE ItemsInOrder
  OBVIOUS
<1>1. \A b \in Browsers : Coming(b) = <<>> /\ ToSet(Coming(b)) = {}
  BY DEF Init, Coming, ToSet
<1> QED
  BY <1>1 DEF Init, ItemsInOrder

LEMMA ItemsNext == TypeOK /\ TypeOK' /\ ItemsInOrder /\ [Next]_vars => ItemsInOrder'
<1> SUFFICES ASSUME TypeOK, TypeOK', ItemsInOrder, [Next]_vars PROVE ItemsInOrder'
  OBVIOUS
<1>1. \A m \in Messages : place[m] # None => place'[m] = place[m]
  BY StoredStay
<1>2. ASSUME NEW m \in fresh' PROVE place'[m] # None
  <2>0. m \in Messages
    BY DEF TypeOK
  <2>1. m \in fresh \/ \E ch \in Channels : Post(m, ch)
    BY <1>2, FreshNext
  <2>2. CASE m \in fresh
    BY <2>0, <2>2, <1>1 DEF ItemsInOrder
  <2>3. ASSUME NEW ch \in Channels, Post(m, ch) PROVE place'[m] # None
    BY <2>0, <2>3, NoneAssumption DEF Post, TypeOK
  <2> QED
    BY <2>1, <2>2, <2>3
<1> DEFINE Good1(x) ==
             /\ IsMessage(x) => place'[x.id] # None
             /\ IsHistory(x) =>
                  /\ \A m \in x.found : place'[m] = x.ch /\ (x.before # None => m < x.before)
                  /\ x.ids = Newest(x.found)
                  /\ x.more = (x.ids # x.found)
<1>3. ASSUME NEW b \in Browsers, NEW x \in ToSet(Coming(b)') PROVE Good1(x)
  <2>1. CASE x \in ToSet(Coming(b))
    <3>1. ASSUME IsMessage(x) PROVE place'[x.id] # None
      <4>1. x.id \in Messages
        BY <2>1, <3>1, Queues, ItemTypes
      <4> QED
        BY <4>1, <2>1, <3>1, <1>1 DEF ItemsInOrder
    <3>2. ASSUME IsHistory(x)
          PROVE  /\ \A m \in x.found : place'[m] = x.ch /\ (x.before # None => m < x.before)
                 /\ x.ids = Newest(x.found)
                 /\ x.more = (x.ids # x.found)
      <4>1. /\ \A m \in x.found : place[m] = x.ch /\ (x.before # None => m < x.before)
            /\ x.ids = Newest(x.found)
            /\ x.more = (x.ids # x.found)
        BY <2>1, <3>2 DEF ItemsInOrder
      <4>2. \A m \in x.found : m \in Messages /\ place[m] # None
        BY <2>1, <3>2, AnswerFacts DEF Stored
      <4> QED
        BY <4>1, <4>2, <1>1
    <3> QED
      BY <3>1, <3>2
  <2>2. ASSUME NEW a \in Browsers, Query(a), x = page' PROVE Good1(x)
    <3> DEFINE r == Head(asked[a])
    <3>1. /\ x = [op |-> "history", ch |-> r.ch, ids |-> Newest(Eligible(r)),
                  more |-> Newest(Eligible(r)) # Eligible(r),
                  by |-> a, before |-> r.before, found |-> Eligible(r)]
      BY <2>2, QueryAdds
    <3>2. place' = place
      BY <2>2 DEF Query, Take
    <3>3. \A m \in Eligible(r) : place[m] = r.ch /\ (r.before # None => m < r.before)
      BY DEF Eligible
    <3> HIDE DEF r
    <3> QED
      BY <3>1, <3>2, <3>3 DEF IsMessage, IsHistory
  <2>3. ASSUME NEW m \in Messages, Publish(m), x = [op |-> "message", id |-> m] PROVE Good1(x)
    <3>1. m \in fresh
      BY <2>3 DEF Publish
    <3> QED
      BY <3>1, <2>3, <1>1 DEF ItemsInOrder, IsMessage, IsHistory
  <2> QED
    BY <2>1, <2>2, <2>3, NewItems
<1> QED
  BY <1>2, <1>3 DEF ItemsInOrder

-----------------------------------------------------------------------------
(* What a page asks.                                                       *)

\* A page that selects a channel asks for three things at most, in this order.
LEMMA SelectAsks ==
  ASSUME TypeOK, NEW b \in Browsers, NEW ch \in Channels, SelectChannel(b, ch)
  PROVE  LET n == Len(asked[b])
             q == asked'[b]
         IN  /\ n \in Nat
             /\ \E l \in 0..1 :
                  /\ Len(q) = n + l + 2
                  /\ \A i \in 1..n : q[i] = asked[b][i]
                  /\ \A i \in 1..l : q[n + i] = [op |-> "unsubscribe", ch |-> current[b]]
                  /\ q[n + l + 1] = SubscribeTo(ch)
                  /\ q[n + l + 2] = HistoryOf(ch, None)
             /\ \A x \in ToSet(q) :
                  \/ x \in ToSet(asked[b])
                  \/ x = [op |-> "unsubscribe", ch |-> current[b]]
                  \/ x = SubscribeTo(ch)
                  \/ x = HistoryOf(ch, None)
             /\ SubscribeTo(ch) \in ToSet(q) /\ HistoryOf(ch, None) \in ToSet(q)
<1> DEFINE a == asked[b]
           u == Leave(b)
           j == Join(ch)
           g == GetHistory(ch, None)
<1>1. asked'[b] = a \o u \o j \o g
  BY DEF SelectChannel, TypeOK
<1>2. /\ a \in Seq(Request) /\ u \in Seq(Request) /\ j \in Seq(Request) /\ g \in Seq(Request)
      /\ Len(j) = 1 /\ Len(g) = 1
      /\ j[1] = SubscribeTo(ch)
      /\ g[1] = HistoryOf(ch, None)
      /\ \A i \in 1..Len(u) : u[i] = [op |-> "unsubscribe", ch |-> current[b]]
  BY QueueTypes, RequestTypes DEF SubscribeTo, HistoryOf
<1>3. Len(u) \in 0..1
  BY DEF Leave
<1> HIDE DEF a, u, j, g
<1>14. a \in Seq(Request) /\ u \in Seq(Request)
  BY <1>2
<1>15. j \in Seq(Request)
  BY <1>2
<1>16. g \in Seq(Request)
  BY <1>2
<1> DEFINE U == [op |-> "unsubscribe", ch |-> current[b]]
           S == SubscribeTo(ch)
           G == HistoryOf(ch, None)
<1> HIDE DEF U, S, G
<1>4. /\ Len(a) \in Nat
      /\ \A x \in ToSet(u) : x = U
      /\ \A x \in ToSet(j) : x = S
      /\ \A x \in ToSet(g) : x = G
      /\ S \in ToSet(j) /\ G \in ToSet(g)
  <2>1. Len(a) \in Nat
    BY <1>14, Places
  <2>2. /\ \A x \in ToSet(u) : \E i \in 1..Len(u) : u[i] = x
    BY <1>14, Places
  <2>3. /\ \A x \in ToSet(j) : \E i \in 1..Len(j) : j[i] = x
        /\ \A i \in 1..Len(j) : j[i] \in ToSet(j)
    BY <1>15, Places
  <2>4. /\ \A x \in ToSet(g) : \E i \in 1..Len(g) : g[i] = x
        /\ \A i \in 1..Len(g) : g[i] \in ToSet(g)
    BY <1>16, Places
  <2>5. 1 \in 1..1 /\ \A i \in 1..1 : i = 1
    OBVIOUS
  <2> QED
    BY <2>1, <2>2, <2>3, <2>4, <2>5, <1>2 DEF U, S, G
<1>5. /\ a \o u \in Seq(Request) /\ Len(a \o u) = Len(a) + Len(u)
      /\ \A i \in 1..Len(a) : (a \o u)[i] = a[i]
      /\ \A i \in 1..Len(u) : (a \o u)[Len(a) + i] = u[i]
      /\ ToSet(a \o u) = ToSet(a) \cup ToSet(u)
  BY <1>14, PlacesConcat
<1> DEFINE v == a \o u
<1>6. /\ v \in Seq(Request) /\ Len(v) = Len(a) + Len(u)
      /\ \A i \in 1..Len(a) : v[i] = a[i]
      /\ \A i \in 1..Len(u) : v[Len(a) + i] = u[i]
      /\ ToSet(v) = ToSet(a) \cup ToSet(u)
      /\ asked'[b] = v \o j \o g
  BY <1>1, <1>5
<1> HIDE DEF v
<1>7. /\ v \o j \in Seq(Request) /\ Len(v \o j) = Len(v) + Len(j)
      /\ \A i \in 1..Len(v) : (v \o j)[i] = v[i]
      /\ \A i \in 1..Len(j) : (v \o j)[Len(v) + i] = j[i]
      /\ ToSet(v \o j) = ToSet(v) \cup ToSet(j)
  <2>1. v \in Seq(Request)
    BY <1>6
  <2> QED
    BY <2>1, <1>15, PlacesConcat
<1> DEFINE w == v \o j
<1>8. /\ w \in Seq(Request) /\ Len(w) = Len(a) + Len(u) + 1
      /\ \A i \in 1..Len(v) : w[i] = v[i]
      /\ w[Len(v) + 1] = j[1]
      /\ ToSet(w) = ToSet(a) \cup ToSet(u) \cup ToSet(j)
      /\ asked'[b] = w \o g
  BY <1>2, <1>4, <1>6, <1>7
<1> HIDE DEF w
<1>9. /\ Len(w \o g) = Len(w) + Len(g)
      /\ \A i \in 1..Len(w) : (w \o g)[i] = w[i]
      /\ \A i \in 1..Len(g) : (w \o g)[Len(w) + i] = g[i]
      /\ ToSet(w \o g) = ToSet(w) \cup ToSet(g)
  <2>1. w \in Seq(Request)
    BY <1>8
  <2> QED
    BY <2>1, <1>16, PlacesConcat
<1> DEFINE q == asked'[b]
<1>10. /\ Len(q) = Len(w) + 1
       /\ \A i \in 1..Len(w) : q[i] = w[i]
       /\ q[Len(w) + 1] = g[1]
       /\ ToSet(q) = ToSet(a) \cup ToSet(u) \cup ToSet(j) \cup ToSet(g)
  BY <1>2, <1>8, <1>9
<1> HIDE DEF q
<1>11. /\ \A i \in 1..Len(a) : i \in 1..Len(v) /\ i \in 1..Len(w)
       /\ \A i \in 1..Len(u) : Len(a) + i \in 1..Len(v) /\ Len(a) + i \in 1..Len(w)
       /\ Len(v) + 1 \in 1..Len(w)
  BY <1>3, <1>4, <1>6, <1>8
<1>12. /\ Len(q) = Len(a) + Len(u) + 2
       /\ \A i \in 1..Len(a) : q[i] = a[i]
       /\ \A i \in 1..Len(u) : q[Len(a) + i] = U
       /\ q[Len(a) + Len(u) + 1] = S
       /\ q[Len(a) + Len(u) + 2] = G
  <2>1. Len(q) = Len(a) + Len(u) + 2
    BY <1>3, <1>4, <1>8, <1>10
  <2>2. \A i \in 1..Len(a) : q[i] = a[i]
    BY <1>6, <1>8, <1>10, <1>11
  <2>3. \A i \in 1..Len(u) : q[Len(a) + i] = U
    BY <1>2, <1>6, <1>8, <1>10, <1>11 DEF U
  <2>4. q[Len(v) + 1] = S
    BY <1>2, <1>8, <1>10, <1>11 DEF S
  <2>5. q[Len(w) + 1] = G
    BY <1>2, <1>10 DEF G
  <2>6. Len(v) + 1 = Len(a) + Len(u) + 1 /\ Len(w) + 1 = Len(a) + Len(u) + 2
    BY <1>3, <1>4, <1>6, <1>8
  <2> QED
    BY <2>1, <2>2, <2>3, <2>4, <2>5, <2>6
<1>13. /\ \A x \in ToSet(q) : x \in ToSet(a) \/ x = U \/ x = S \/ x = G
       /\ S \in ToSet(q) /\ G \in ToSet(q)
  BY <1>4, <1>10
<1> QED
  BY <1>3, <1>4, <1>12, <1>13 DEF a, q, U, S, G

\* What is asked when older messages are loaded.
LEMMA LoadAsks ==
  ASSUME TypeOK, NEW b \in Browsers, LoadMoreMessages(b)
  PROVE  LET n == Len(asked[b])
             q == asked'[b]
         IN  /\ n \in Nat /\ Len(q) = n + 1
             /\ \A i \in 1..n : q[i] = asked[b][i]
             /\ q[n + 1] = HistoryOf(current[b], oldest[b])
             /\ ToSet(q) = ToSet(asked[b]) \cup {HistoryOf(current[b], oldest[b])}
             /\ current[b] \in Channels /\ oldest[b] \in Messages
<1> DEFINE a == asked[b]
           g == GetHistory(current[b], oldest[b])
<1>1. asked'[b] = a \o g /\ current[b] \in Channels /\ oldest[b] \in Messages
  BY DEF LoadMoreMessages, TypeOK
<1>2. /\ a \in Seq(Request) /\ g \in Seq(Request) /\ Len(g) = 1
      /\ g[1] = HistoryOf(current[b], oldest[b])
  <2>1. a \in Seq(Request)
    BY QueueTypes
  <2>2. oldest[b] \in Messages \cup {None}
    BY <1>1
  <2>3. /\ g \in Seq(Request) /\ Len(g) = 1
        /\ g[1] = [op |-> "get_history", ch |-> current[b], before |-> oldest[b]]
    BY <1>1, <2>2, RequestTypes
  <2> QED
    BY <2>1, <2>3 DEF HistoryOf
<1> HIDE DEF a, g
<1>7. a \in Seq(Request)
  BY <1>2
<1>8. g \in Seq(Request)
  BY <1>2
<1> DEFINE G == HistoryOf(current[b], oldest[b])
<1> HIDE DEF G
<1>3. Len(a) \in Nat
  BY <1>7, Places
<1>4. ToSet(g) = {G}
  <2>1. /\ \A x \in ToSet(g) : \E i \in 1..Len(g) : g[i] = x
        /\ \A i \in 1..Len(g) : g[i] \in ToSet(g)
    BY <1>8, Places
  <2>2. 1 \in 1..1 /\ \A i \in 1..1 : i = 1
    OBVIOUS
  <2> QED
    BY <2>1, <2>2, <1>2 DEF G
<1>5. /\ Len(a \o g) = Len(a) + Len(g)
      /\ \A i \in 1..Len(a) : (a \o g)[i] = a[i]
      /\ \A i \in 1..Len(g) : (a \o g)[Len(a) + i] = g[i]
      /\ ToSet(a \o g) = ToSet(a) \cup ToSet(g)
  BY <1>7, <1>8, PlacesConcat
<1>6. (a \o g)[Len(a) + 1] = G
  BY <1>2, <1>5 DEF G
<1> QED
  BY <1>1, <1>2, <1>3, <1>4, <1>5, <1>6 DEF a, G

\* What others do takes the first request at most.
LEMMA AskedShrinks ==
  ASSUME TypeOK, [Next]_vars, NEW b \in Browsers, ~ Acts(b)
  PROVE  /\ ViewKept(b)
         /\ \/ asked'[b] = asked[b]
            \/ asked[b] # <<>> /\ asked'[b] = Tail(asked[b])
<1>1. CASE Undisturbed(b)
  BY <1>1 DEF Undisturbed
<1>2. CASE Served(b)
  BY <1>2 DEF Served
<1>3. ASSUME NEW a \in Browsers, Query(a)
      PROVE  /\ ViewKept(b)
             /\ \/ asked'[b] = asked[b]
                \/ asked[b] # <<>> /\ asked'[b] = Tail(asked[b])
  BY <1>3 DEF Query, Take, viewVars, Excused, ViewKept, TypeOK
<1>4. ASSUME NEW m \in Messages, NEW ch \in Channels, Post(m, ch)
      PROVE  ViewKept(b) /\ asked'[b] = asked[b]
  BY <1>4 DEF Post, viewVars, ViewKept
<1>5. ASSUME NEW m \in Messages, Publish(m) PROVE ViewKept(b) /\ asked'[b] = asked[b]
  BY <1>5 DEF Publish, viewVars, ViewKept
<1> QED
  BY <1>1, <1>2, <1>3, <1>4, <1>5, Steps

LEMMA AskedNext == TypeOK /\ AskedInOrder /\ [Next]_vars => AskedInOrder'
<1> SUFFICES ASSUME TypeOK, AskedInOrder, [Next]_vars, NEW b \in Browsers PROVE AskedOf(b)'
  BY DEF AskedInOrder
<1> DEFINE q == asked[b]
           n == Len(q)
<1>0. /\ q \in Seq(Request) /\ n \in Nat /\ \A i \in 1..n : q[i] \in Request
  BY QueueTypes, Places
<1>1. \A i \in 1..n :
        q[i].op = "subscribe" => i < n /\ q[i+1] = HistoryOf(q[i].ch, None)
  BY DEF AskedInOrder, AskedOf
<1>2. ASSUME asked'[b] = asked[b] PROVE AskedOf(b)'
  BY <1>1, <1>2 DEF AskedOf
<1>3. ASSUME q # <<>>, asked'[b] = Tail(q) PROVE AskedOf(b)'
  <2> DEFINE t == Tail(q)
  <2>1. /\ Len(t) = n - 1 /\ n >= 1
        /\ \A i \in 1..Len(t) : i + 1 \in 1..n /\ t[i] = q[i + 1]
    BY <1>0, <1>3, PlacesTail
  <2> HIDE DEF t, q, n
  <2>2. ASSUME NEW i \in 1..Len(t), t[i].op = "subscribe"
        PROVE  i < Len(t) /\ t[i+1] = HistoryOf(t[i].ch, None)
    <3>1. i + 1 \in 1..n /\ t[i] = q[i + 1] /\ i \in Nat
      BY <2>1, <1>0
    <3>2. i + 1 < n /\ q[i + 1 + 1] = HistoryOf(t[i].ch, None)
      BY <3>1, <2>2, <1>1
    <3>3. i + 1 \in 1..Len(t)
      BY <3>1, <3>2, <2>1, <1>0
    <3> QED
      BY <3>1, <3>2, <3>3, <2>1, <1>0
  <2>4. asked'[b] = t
    BY <1>3 DEF t
  <2> QED
    BY <2>2, <2>4 DEF AskedOf
<1>4. ASSUME NEW ch \in Channels, SelectChannel(b, ch) PROVE AskedOf(b)'
  <2> DEFINE s == asked'[b]
             U == [op |-> "unsubscribe", ch |-> current[b]]
  <2>1. PICK l \in 0..1 :
          /\ Len(s) = n + l + 2
          /\ \A i \in 1..n : s[i] = q[i]
          /\ \A i \in 1..l : s[n + i] = U
          /\ s[n + l + 1] = SubscribeTo(ch)
          /\ s[n + l + 2] = HistoryOf(ch, None)
    BY <1>4, SelectAsks
  <2>3. /\ U.op = "unsubscribe" /\ SubscribeTo(ch).op = "subscribe" /\ SubscribeTo(ch).ch = ch
        /\ HistoryOf(ch, None).op = "get_history"
    BY DEF SubscribeTo, HistoryOf
  <2> HIDE DEF s, q, n, U
  <2>4. \A i \in 1..Len(s) :
          \/ i \in 1..n
          \/ i - n \in 1..l /\ i = n + (i - n)
          \/ i = n + l + 1 \/ i = n + l + 2
    BY <2>1, <1>0
  <2>5. ASSUME NEW i \in 1..Len(s), s[i].op = "subscribe"
        PROVE  i < Len(s) /\ s[i+1] = HistoryOf(s[i].ch, None)
    <3>1. CASE i \in 1..n
      <4>1. s[i] = q[i] /\ i < n /\ q[i + 1] = HistoryOf(s[i].ch, None)
        BY <3>1, <2>1, <2>5, <1>1
      <4>2. i + 1 \in 1..n /\ i < Len(s)
        BY <4>1, <3>1, <2>1, <1>0
      <4> QED
        BY <4>1, <4>2, <2>1
    <3>2. CASE i - n \in 1..l /\ i = n + (i - n)
      <4>1. s[n + (i - n)] = U
        BY <3>2, <2>1
      <4> QED
        BY <4>1, <3>2, <2>3, <2>5
    <3>3. CASE i = n + l + 1
      <4>1. i + 1 = n + l + 2 /\ i < Len(s)
        BY <3>3, <2>1, <1>0
      <4> QED
        BY <4>1, <3>3, <2>1, <2>3
    <3>4. CASE i = n + l + 2
      BY <3>4, <2>1, <2>3, <2>5
    <3> QED
      BY <3>1, <3>2, <3>3, <3>4, <2>4
  <2> QED
    BY <2>5 DEF AskedOf, s
<1>5. ASSUME GoBackToChannels(b) PROVE AskedOf(b)'
  <2>1. asked'[b] = q \o Leave(b) /\ current'[b] = None /\ current[b] \in Channels
    BY <1>5 DEF GoBackToChannels, TypeOK
  <2>2. /\ Leave(b) = <<[op |-> "unsubscribe", ch |-> current[b]]>>
        /\ [op |-> "unsubscribe", ch |-> current[b]] \in Request
    BY <2>1, NoneAssumption DEF Leave, Request
  <2> DEFINE U == [op |-> "unsubscribe", ch |-> current[b]]
             s == q \o Leave(b)
  <2>3. U.op # "subscribe" /\ U.ch # None /\ U \in Request
    BY <2>1, <2>2, NoneAssumption
  <2>4. s = Append(q, U)
    BY <2>2, <1>0
  <2> HIDE DEF U, s, n
  <2>5. /\ Len(s) = Len(q) + 1 /\ \A i \in 1..Len(q) : s[i] = q[i]
        /\ s[Len(q) + 1] = U
    BY <2>3, <2>4, <1>0, PlacesAppend
  <2> HIDE DEF q
  <2>7. n = Len(q) /\ n \in Nat
    BY <1>0 DEF n
  <2>8. ASSUME NEW i \in 1..Len(s), s[i].op = "subscribe"
        PROVE  i < Len(s) /\ s[i+1] = HistoryOf(s[i].ch, None)
    <3>1. i # n + 1
      BY <2>3, <2>5, <2>7, <2>8
    <3>2. i \in 1..n
      BY <3>1, <2>5, <2>7
    <3>3. s[i] = q[i] /\ i < n /\ q[i + 1] = HistoryOf(s[i].ch, None)
      BY <3>2, <2>5, <2>7, <2>8, <1>1
    <3>4. i + 1 \in 1..n /\ i < Len(s)
      BY <3>2, <3>3, <2>5, <2>7
    <3> QED
      BY <3>3, <3>4, <2>5, <2>7
  <2>10. asked'[b] = s /\ current'[b] = None
    BY <2>1 DEF s
  <2> QED
    BY <2>8, <2>10 DEF AskedOf
<1>6. ASSUME SelectServer(b) PROVE AskedOf(b)'
  BY <1>2, <1>6 DEF SelectServer
<1>7. ASSUME LoadMoreMessages(b) PROVE AskedOf(b)'
  <2> DEFINE s == asked'[b]
             G == HistoryOf(current[b], oldest[b])
  <2>1. Len(s) = n + 1 /\ (\A i \in 1..n : s[i] = q[i]) /\ s[n + 1] = G
    BY <1>7, LoadAsks
  <2>2. G.op = "get_history"
    BY DEF HistoryOf
  <2> HIDE DEF s, q, n, G
  <2>4. ASSUME NEW i \in 1..Len(s), s[i].op # "get_history" PROVE i \in 1..n /\ s[i] = q[i]
    BY <2>1, <2>2, <2>4, <1>0
  <2>5. ASSUME NEW i \in 1..Len(s), s[i].op = "subscribe"
        PROVE  i < Len(s) /\ s[i+1] = HistoryOf(s[i].ch, None)
    <3>1. i \in 1..n /\ s[i] = q[i]
      BY <2>4, <2>5
    <3>2. i < n /\ q[i + 1] = HistoryOf(s[i].ch, None)
      BY <3>1, <2>5, <1>1
    <3>3. i + 1 \in 1..n /\ i < Len(s)
      BY <3>1, <3>2, <2>1, <1>0
    <3> QED
      BY <3>2, <3>3, <2>1
  <2> QED
    BY <2>5 DEF AskedOf, s
<1>8. ASSUME NEW item \in ToSet(inbox[b]), Receive(b, item) PROVE AskedOf(b)'
  <2>1. asked' = asked /\ current' = current
    BY <1>8 DEF Receive
  <2> QED
    BY <2>1, <1>2
<1> HIDE DEF q, n
<1> QED
  <2>1. CASE Acts(b)
    BY <2>1, <1>4, <1>5, <1>6, <1>7, <1>8 DEF Acts, AppendMessage, RenderHistory, PrependHistory
  <2>2. CASE ~ Acts(b)
    BY <2>2, <1>2, <1>3, AskedShrinks DEF ViewKept, q
  <2> QED
    BY <2>1, <2>2


-----------------------------------------------------------------------------
(* Where what is on its way was before.                                    *)

\* f tells where everything that is coming was; 0, that it was not.
Traced(b, f) ==
  /\ \A i \in 1..Len(Coming(b)') : f[i] # 0 => Coming(b)'[i] = Coming(b)[f[i]]
  /\ \A i, j \in 1..Len(Coming(b)') : i < j /\ f[i] # 0 /\ f[j] # 0 => f[i] < f[j]
  /\ \A i \in 1..Len(Coming(b)') : f[i] = 0 =>
       \/ \E a \in Browsers : Query(a) /\ Coming(b)'[i] = page' /\ i = Len(Coming(b)')
       \/ /\ \E m \in Messages : Publish(m) /\ Coming(b)'[i] = [op |-> "message", id |-> m]
          /\ \A j \in 1..Len(Coming(b)') : j > i => j = i + 1 /\ IsHistory(Coming(b)'[j])

\* Each kind of change of what is coming has such a trace, and so every step has.
LEMMA FewerIsTraced ==
  ASSUME TypeOK, TypeOK', NEW b \in Browsers, Fewer(b)
  PROVE  \E f \in [1..Len(Coming(b)') -> 0..Len(Coming(b))] : Traced(b, f)
<1>1. PICK d \in 0..1 : \A i \in 1..Len(Coming(b)') :
        i + d \in 1..Len(Coming(b)) /\ Coming(b)'[i] = Coming(b)[i + d]
  BY DEF Fewer
<1>2. Len(Coming(b)') \in Nat /\ Len(Coming(b)) \in Nat
  BY NextQueues, Queues
<1> DEFINE t == Coming(b)'
           q == Coming(b)
           f == [i \in 1..Len(t) |-> i + d]
<1> HIDE DEF t, q
<1>3. Len(t) \in Nat /\ Len(q) \in Nat
      /\ \A i \in 1..Len(t) : i + d \in 1..Len(q) /\ t[i] = q[i + d]
  BY <1>1, <1>2 DEF t, q
<1>4. f \in [1..Len(t) -> 0..Len(q)]
  BY <1>3
<1>5. \A i \in 1..Len(t) : f[i] # 0 /\ t[i] = q[f[i]]
  BY <1>3
<1>6. \A i, j \in 1..Len(t) : i < j => f[i] < f[j]
  BY <1>3
<1> HIDE DEF f
<1> QED
  BY <1>4, <1>5, <1>6 DEF Traced, t, q

LEMMA SlippedIsTraced ==
  ASSUME TypeOK, TypeOK', NEW b \in Browsers, NEW m \in Messages, Publish(m),
         Slipped(b, [op |-> "message", id |-> m])
  PROVE  \E f \in [1..Len(Coming(b)') -> 0..Len(Coming(b))] : Traced(b, f)
<1> DEFINE x == [op |-> "message", id |-> m]
<1>1. PICK p \in Len(Coming(b))..(Len(Coming(b)) + 1) :
    /\ p >= 1
    /\ Len(Coming(b)') = Len(Coming(b)) + 1
    /\ Coming(b)'[p] = x
    /\ \A i \in 1..Len(Coming(b)) : i < p => Coming(b)'[i] = Coming(b)[i]
    /\ p = Len(Coming(b)) => Coming(b)'[p + 1] = Coming(b)[p] /\ IsHistory(Coming(b)[p])
  BY DEF Slipped
<1>2. Len(Coming(b)') \in Nat /\ Len(Coming(b)) \in Nat
  BY NextQueues, Queues
<1> DEFINE t == Coming(b)'
           q == Coming(b)
           f == [i \in 1..Len(t) |-> IF i < p THEN i ELSE IF i = p THEN 0 ELSE i - 1]
<1> HIDE DEF t, q, x
<1>3. /\ Len(t) \in Nat /\ Len(q) \in Nat /\ p \in Nat /\ p >= 1
      /\ p = Len(q) \/ p = Len(q) + 1
      /\ Len(t) = Len(q) + 1
      /\ t[p] = x
      /\ \A i \in 1..Len(q) : i < p => t[i] = q[i]
      /\ p = Len(q) => t[p + 1] = q[p] /\ IsHistory(q[p])
  BY <1>1, <1>2 DEF t, q
<1>4. f \in [1..Len(t) -> 0..Len(q)]
  BY <1>3
<1>5. \A i \in 1..Len(t) : i > p => i = p + 1 /\ p = Len(q) /\ i = Len(t)
  BY <1>3
<1>6. \A i \in 1..Len(t) : f[i] # 0 => t[i] = q[f[i]]
  <2> SUFFICES ASSUME NEW i \in 1..Len(t), f[i] # 0 PROVE t[i] = q[f[i]]
    OBVIOUS
  <2>1. CASE i < p
    BY <2>1, <1>3
  <2>2. CASE i > p
    BY <2>2, <1>3, <1>5
  <2> QED
    BY <2>1, <2>2, <1>3
<1>7. \A i, j \in 1..Len(t) : i < j /\ f[i] # 0 /\ f[j] # 0 => f[i] < f[j]
  BY <1>3
<1>8. \A i \in 1..Len(t) : f[i] = 0 => i = p
  BY <1>3
<1>9. \A i \in 1..Len(t) : i > p => IsHistory(t[i])
  BY <1>3, <1>5
<1> HIDE DEF f
<1>10. \A i \in 1..Len(t) : f[i] = 0 =>
         t[i] = x /\ \A j \in 1..Len(t) : j > i => j = i + 1 /\ IsHistory(t[j])
  BY <1>3, <1>5, <1>8, <1>9
<1> QED
  BY <1>4, <1>6, <1>7, <1>10 DEF Traced, t, q, x

LEMMA AppendIsTraced ==
  ASSUME TypeOK, TypeOK', NEW b \in Browsers, NEW a \in Browsers, Query(a)
  PROVE  \E f \in [1..Len(Coming(b)') -> 0..Len(Coming(b))] : Traced(b, f)
<1> DEFINE t == Coming(b)'
           q == Coming(b)
           f == [i \in 1..Len(t) |-> IF i = Len(t) THEN 0 ELSE i]
<1>1. page' \in Item /\ t = Append(q, page') /\ q \in Seq(Item)
  BY QueryAdds, Queues DEF Item
<1> HIDE DEF q
<1>5. q \in Seq(Item)
  BY <1>1
<1>2. /\ Len(Append(q, page')) = Len(q) + 1 /\ Len(q) \in Nat
      /\ \A i \in 1..Len(q) : Append(q, page')[i] = q[i]
      /\ Append(q, page')[Len(q) + 1] = page'
  BY <1>1, <1>5, PlacesAppend, Places
<1> HIDE DEF t
<1>3. /\ Len(t) = Len(q) + 1 /\ Len(q) \in Nat
      /\ \A i \in 1..Len(q) : t[i] = q[i]
      /\ t[Len(q) + 1] = page'
  BY <1>1, <1>2
<1>4. f \in [1..Len(t) -> 0..Len(q)]
  BY <1>3
<1>6. \A i \in 1..Len(t) : f[i] # 0 => t[i] = q[f[i]]
  BY <1>3
<1>7. \A i, j \in 1..Len(t) : i < j /\ f[i] # 0 /\ f[j] # 0 => f[i] < f[j]
  BY <1>3
<1>8. \A i \in 1..Len(t) : f[i] = 0 => i = Len(t) /\ t[i] = page'
  BY <1>3
<1> HIDE DEF f
<1> QED
  BY <1>4, <1>6, <1>7, <1>8 DEF Traced, t, q

LEMMA Trace ==
  ASSUME TypeOK, TypeOK', [Next]_vars, NEW b \in Browsers
  PROVE  \E f \in [1..Len(Coming(b)') -> 0..Len(Coming(b))] : Traced(b, f)
<1>1. CASE Fewer(b)
  BY <1>1, FewerIsTraced
<1>2. CASE Undisturbed(b) \/ Acts(b)
  BY <1>1, <1>2, ActsFewer DEF Undisturbed
<1>3. Coming(b)' = Coming(b) => Fewer(b)
  BY KeptIsFewer
<1>4. CASE Served(b)
  BY <1>1, <1>3, <1>4 DEF Served
<1>5. ASSUME NEW m \in Messages, NEW ch \in Channels, Post(m, ch) PROVE Fewer(b)
  BY <1>3, <1>5, Unmoved DEF Post
<1>6. ASSUME NEW m \in Messages, Publish(m)
      PROVE  \E f \in [1..Len(Coming(b)') -> 0..Len(Coming(b))] : Traced(b, f)
  <2>1. /\ place[m] \in subscribed => Slipped(b, [op |-> "message", id |-> m])
        /\ place[m] \notin subscribed => Coming(b)' = Coming(b)
    BY <1>6, PublishSlips
  <2> QED
    BY <2>1, <1>1, <1>3, <1>6, SlippedIsTraced
<1>7. ASSUME NEW a \in Browsers, Query(a)
      PROVE  \E f \in [1..Len(Coming(b)') -> 0..Len(Coming(b))] : Traced(b, f)
  BY <1>7, AppendIsTraced
<1> QED
  BY <1>1, <1>2, <1>4, <1>5, <1>6, <1>7, Steps

-----------------------------------------------------------------------------
(* Nothing is shown twice.                                                 *)

\* What is new among what is coming to b, in order.
LEMMA NewPlaces ==
  ASSUME TypeOK, TypeOK', [Next]_vars, NEW b \in Browsers,
         NEW f \in [1..Len(Coming(b)') -> 0..Len(Coming(b))], Traced(b, f),
         NEW i \in 1..Len(Coming(b)'), f[i] = 0
  PROVE  /\ IsHistory(Coming(b)'[i]) =>
              \E a \in Browsers : Query(a) /\ Coming(b)'[i] = page' /\ i = Len(Coming(b)')
         /\ IsMessage(Coming(b)'[i]) =>
              /\ \E m \in Messages : Publish(m) /\ Coming(b)'[i] = [op |-> "message", id |-> m]
              /\ \A j \in 1..Len(Coming(b)') : j > i => j = i + 1 /\ IsHistory(Coming(b)'[j])
<1>1. \/ \E a \in Browsers : Query(a) /\ Coming(b)'[i] = page' /\ i = Len(Coming(b)')
      \/ /\ \E m \in Messages : Publish(m) /\ Coming(b)'[i] = [op |-> "message", id |-> m]
         /\ \A j \in 1..Len(Coming(b)') : j > i => j = i + 1 /\ IsHistory(Coming(b)'[j])
  BY DEF Traced
<1>2. ASSUME NEW a \in Browsers, Query(a) PROVE page' \in History
  BY <1>2, QueryAdds
<1>3. \A x \in History : ~ IsMessage(x)
  BY DEF History, IsMessage
<1>4. \A m : ~ IsHistory([op |-> "message", id |-> m])
  BY DEF IsHistory
<1> QED
  BY <1>1, <1>2, <1>3, <1>4

\* What was coming before keeps its order.
LEMMA OldPlaces ==
  ASSUME TypeOK, TypeOK', NEW b \in Browsers,
         NEW f \in [1..Len(Coming(b)') -> 0..Len(Coming(b))], Traced(b, f)
  PROVE  /\ \A i \in 1..Len(Coming(b)') : f[i] # 0 =>
              f[i] \in 1..Len(Coming(b)) /\ Coming(b)'[i] = Coming(b)[f[i]]
         /\ \A i, j \in 1..Len(Coming(b)') : i < j /\ f[i] # 0 /\ f[j] # 0 => f[i] < f[j]
         /\ \A i, j \in 1..Len(Coming(b)') : f[i] # 0 /\ f[i] = f[j] => i = j
<1>1. Len(Coming(b)') \in Nat /\ Len(Coming(b)) \in Nat
  BY NextQueues, Queues
<1>2. \A i \in 1..Len(Coming(b)') : f[i] # 0 => f[i] \in 1..Len(Coming(b))
  BY <1>1
<1>3. \A i, j \in 1..Len(Coming(b)') : i < j /\ f[i] # 0 /\ f[j] # 0 => f[i] < f[j]
  BY DEF Traced
<1>4. \A i, j \in 1..Len(Coming(b)') : f[i] # 0 /\ f[i] = f[j] => i = j
  <2> SUFFICES ASSUME NEW i \in 1..Len(Coming(b)'), NEW j \in 1..Len(Coming(b)'),
                      f[i] # 0, f[i] = f[j]
               PROVE  i = j
    OBVIOUS
  <2>1. ~ (i < j) /\ ~ (j < i)
    BY <1>1, <1>2, <1>3
  <2> QED
    BY <2>1, <1>1
<1> QED
  BY <1>2, <1>3, <1>4 DEF Traced

LEMMA BroadcastInit == Init => BroadcastOnce
<1> SUFFICES ASSUME Init PROVE BroadcastOnce
  OBVIOUS
<1>1. \A b \in Browsers : Coming(b) = <<>> /\ ToSet(Coming(b)) = {}
  BY DEF Init, Coming, ToSet
<1> QED
  BY <1>1 DEF BroadcastOnce

LEMMA BroadcastNext ==
  ASSUME TypeOK, TypeOK', ItemsInOrder, BroadcastOnce, [Next]_vars
  PROVE  BroadcastOnce'
<1> SUFFICES ASSUME NEW b \in Browsers
             PROVE  /\ \A i, j \in 1..Len(Coming(b)') :
                         LET x == Coming(b)'[i]
                             y == Coming(b)'[j]
                         IN  IsMessage(x) /\ IsMessage(y) /\ x.id = y.id => i = j
                    /\ \A x \in ToSet(Coming(b)') : IsMessage(x) => x.id \notin fresh'
  BY DEF BroadcastOnce
<1>1. ASSUME NEW x \in ToSet(Coming(b)'), IsMessage(x) PROVE x.id \notin fresh'
  <2>1. CASE x \in ToSet(Coming(b))
    <3>1. x.id \notin fresh /\ place[x.id] # None
      BY <2>1, <1>1 DEF BroadcastOnce, ItemsInOrder
    <3>2. \A ch \in Channels : ~ Post(x.id, ch)
      BY <3>1 DEF Post
    <3> QED
      BY <3>1, <3>2, FreshNext
  <2>2. ASSUME NEW a \in Browsers, Query(a), x = page' PROVE FALSE
    BY <2>2, <1>1, QueryAdds DEF History, IsMessage
  <2>3. ASSUME NEW m \in Messages, Publish(m), x = [op |-> "message", id |-> m]
        PROVE  x.id \notin fresh'
    BY <2>3 DEF Publish
  <2> QED
    BY <2>1, <2>2, <2>3, NewItems
<1>2. ASSUME NEW i \in 1..Len(Coming(b)'), NEW j \in 1..Len(Coming(b)'), i < j,
             IsMessage(Coming(b)'[i]), IsMessage(Coming(b)'[j]),
             Coming(b)'[i].id = Coming(b)'[j].id
      PROVE  FALSE
  <2>1. PICK f \in [1..Len(Coming(b)') -> 0..Len(Coming(b))] : Traced(b, f)
    BY Trace
  <2>2. /\ f[i] # 0 => f[i] \in 1..Len(Coming(b)) /\ Coming(b)'[i] = Coming(b)[f[i]]
        /\ f[j] # 0 => f[j] \in 1..Len(Coming(b)) /\ Coming(b)'[j] = Coming(b)[f[j]]
        /\ f[i] # 0 /\ f[i] = f[j] => i = j
    BY <2>1, OldPlaces
  <2>3. f[i] # 0
    <3>1. IsMessage(Coming(b)'[j]) /\ ~ IsHistory(Coming(b)'[j])
      BY <1>2 DEF IsMessage, IsHistory
    <3> QED
      BY <1>2, <2>1, <3>1, NewPlaces
  <2>4. Len(Coming(b)') \in Nat
    BY NextQueues
  <2>5. f[j] = 0
    BY <1>2, <2>2, <2>3, <2>4 DEF BroadcastOnce
  <2>6. PICK m \in Messages : Publish(m) /\ Coming(b)'[j] = [op |-> "message", id |-> m]
    BY <1>2, <2>1, <2>5, NewPlaces
  <2>7. m \in fresh /\ Coming(b)'[j].id = m
    BY <2>6 DEF Publish
  <2>8. Coming(b)[f[i]] \in ToSet(Coming(b))
    BY <2>2, <2>3, Queues
  <2> QED
    BY <1>2, <2>2, <2>3, <2>7, <2>8 DEF BroadcastOnce
<1>3. Len(Coming(b)') \in Nat
  BY NextQueues
<1>4. \A i, j \in 1..Len(Coming(b)') : i < j \/ j < i \/ i = j
  BY <1>3
<1> QED
  BY <1>1, <1>2, <1>4

\* The requests of b that are left.
FewerAsked(b) ==
  \E d \in 0..1 : \A i \in 1..Len(asked'[b]) :
    i + d \in 1..Len(asked[b]) /\ asked'[b][i] = asked[b][i + d]

\* Places and elements of the requests, after a step and before.
LEMMA NextAsked ==
  ASSUME TypeOK', NEW b \in Browsers
  PROVE  /\ Len(asked'[b]) \in Nat
         /\ \A i \in 1..Len(asked'[b]) : asked'[b][i] \in Request
         /\ \A x \in ToSet(asked'[b]) :
              x \in Request /\ \E i \in 1..Len(asked'[b]) : asked'[b][i] = x
         /\ \A i \in 1..Len(asked'[b]) : asked'[b][i] \in ToSet(asked'[b])
<1>1. asked'[b] \in Seq(Request)
  BY DEF TypeOK
<1> DEFINE t == asked'[b]
<1> HIDE DEF t
<1>2. t \in Seq(Request)
  BY <1>1 DEF t
<1>3. /\ Len(t) \in Nat
      /\ \A i \in 1..Len(t) : t[i] \in Request
      /\ \A x \in ToSet(t) : x \in Request /\ \E i \in 1..Len(t) : t[i] = x
      /\ \A i \in 1..Len(t) : t[i] \in ToSet(t)
  BY <1>2, Places
<1> QED
  BY <1>3 DEF t

LEMMA Requests ==
  ASSUME TypeOK, NEW b \in Browsers
  PROVE  /\ Len(asked[b]) \in Nat
         /\ \A i \in 1..Len(asked[b]) : asked[b][i] \in Request
         /\ \A x \in ToSet(asked[b]) :
              x \in Request /\ \E i \in 1..Len(asked[b]) : asked[b][i] = x
         /\ \A i \in 1..Len(asked[b]) : asked[b][i] \in ToSet(asked[b])
BY QueueTypes, Places

\* Requests taken, or left alone, are no more than before.
LEMMA TailIsFewerAsked ==
  ASSUME TypeOK, NEW b \in Browsers, asked[b] # <<>>, asked'[b] = Tail(asked[b])
  PROVE  FewerAsked(b)
<1>1. \A i \in 1..Len(Tail(asked[b])) :
        i + 1 \in 1..Len(asked[b]) /\ Tail(asked[b])[i] = asked[b][i + 1]
  BY QueueTypes, PlacesTail
<1>2. 1 \in 0..1
  OBVIOUS
<1> QED
  BY <1>1, <1>2 DEF FewerAsked

LEMMA KeptIsFewerAsked ==
  ASSUME TypeOK, NEW b \in Browsers, asked'[b] = asked[b]
  PROVE  FewerAsked(b)
<1>1. Len(asked[b]) \in Nat
  BY Requests
<1>2. \A i \in 1..Len(asked[b]) : i + 0 = i
  BY <1>1
<1>3. 0 \in 0..1
  OBVIOUS
<1> QED
  BY <1>2, <1>3 DEF FewerAsked

LEMMA FewerAskedFacts ==
  ASSUME TypeOK, TypeOK', NEW b \in Browsers, FewerAsked(b)
  PROVE  \A x \in ToSet(asked'[b]) : x \in ToSet(asked[b])
<1>1. PICK d \in 0..1 : \A i \in 1..Len(asked'[b]) :
        i + d \in 1..Len(asked[b]) /\ asked'[b][i] = asked[b][i + d]
  BY DEF FewerAsked
<1>2. \A i \in 1..Len(asked[b]) : asked[b][i] \in ToSet(asked[b])
  BY Requests
<1>3. \A x \in ToSet(asked'[b]) : \E i \in 1..Len(asked'[b]) : asked'[b][i] = x
  BY NextAsked
<1> QED
  BY <1>1, <1>2, <1>3

\* No history of the channel b shows is added to what is coming to it for itself.
NoOwnAdded(b) ==
  \E f \in [1..Len(Coming(b)') -> 0..Len(Coming(b))] :
    /\ Traced(b, f)
    /\ \A i \in 1..Len(Coming(b)') : f[i] = 0 => ~ IsOwn(b, Coming(b)'[i])

\* A page that asks nothing new and gets no answer still awaits one at most.
LEMMA AwaitsOneShrinks ==
  ASSUME TypeOK, TypeOK', NEW b \in Browsers, AwaitsOne(b),
         current'[b] = current[b], oldest'[b] = oldest[b], FewerAsked(b), NoOwnAdded(b)
  PROVE  AwaitsOne(b)'
<1> DEFINE q == asked'[b]
           t == Coming(b)'
<1>1. PICK f \in [1..Len(t) -> 0..Len(Coming(b))] :
        /\ Traced(b, f)
        /\ \A i \in 1..Len(t) : f[i] = 0 => ~ IsOwn(b, t[i])
  BY DEF NoOwnAdded
<1>2. /\ \A i \in 1..Len(t) : IsOwn(b, t[i]) =>
           f[i] \in 1..Len(Coming(b)) /\ t[i] = Coming(b)[f[i]] /\ f[i] # 0
      /\ \A i, j \in 1..Len(t) : f[i] # 0 /\ f[i] = f[j] => i = j
  BY <1>1, OldPlaces
<1>3. /\ \A r : Asks(b, r)' <=> Asks(b, r)
      /\ \A h : IsOwn(b, h)' <=> IsOwn(b, h)
  BY DEF Asks, IsOwn, IsHistory
<1>4. PICK d \in 0..1 : \A i \in 1..Len(q) :
        i + d \in 1..Len(asked[b]) /\ q[i] = asked[b][i + d]
  BY DEF FewerAsked
<1>5. \A i, j \in 1..Len(q) : Asks(b, q[i]) /\ Asks(b, q[j]) => i = j
  <2> SUFFICES ASSUME NEW i \in 1..Len(q), NEW j \in 1..Len(q), Asks(b, q[i]), Asks(b, q[j])
               PROVE  i = j
    OBVIOUS
  <2>1. i + d = j + d
    BY <1>4 DEF AwaitsOne
  <2>2. Len(q) \in Nat
    BY NextAsked
  <2> QED
    BY <2>1, <2>2
<1>6. \A i, j \in 1..Len(t) : IsOwn(b, t[i]) /\ IsOwn(b, t[j]) => i = j
  BY <1>2 DEF AwaitsOne
<1>7. \A r \in ToSet(q) : r \in ToSet(asked[b])
  BY FewerAskedFacts
<1>8. \A h \in ToSet(t) : IsOwn(b, h) => h \in ToSet(Coming(b))
  BY <1>2, Queues, NextQueues
<1> QED
  BY <1>3, <1>5, <1>6, <1>7, <1>8 DEF AwaitsOne

\* Only a query for the channel b shows adds an answer to b.
LEMMA OwnAdded ==
  ASSUME TypeOK, TypeOK', [Next]_vars, NEW b \in Browsers,
         ~ (Query(b) /\ Asks(b, Head(asked[b])))
  PROVE  NoOwnAdded(b)
<1>1. PICK f \in [1..Len(Coming(b)') -> 0..Len(Coming(b))] : Traced(b, f)
  BY Trace
<1>2. ASSUME NEW i \in 1..Len(Coming(b)'), f[i] = 0, IsOwn(b, Coming(b)'[i]) PROVE FALSE
  <2>1. PICK a \in Browsers : Query(a) /\ Coming(b)'[i] = page'
    BY <1>1, <1>2, NewPlaces DEF IsOwn
  <2>2. page'.by = a /\ page'.ch = Head(asked[a]).ch /\ Head(asked[a]).op = "get_history"
    BY <2>1, QueryAdds
  <2>3. a = b
    BY <2>1, <2>2, <1>2 DEF IsOwn
  <2> QED
    BY <2>1, <2>2, <2>3, <1>2 DEF IsOwn, Asks
<1> QED
  BY <1>1, <1>2 DEF NoOwnAdded

\* What b still waits for.
LEMMA AwaitedFacts ==
  ASSUME NEW b \in Browsers, NEW ch
  PROVE  /\ \A r \in ToSet(asked[b]) :
              r.op = "get_history" /\ r.ch = ch => r.before \in Awaited(b, ch)
         /\ \A h \in ToSet(Coming(b)) :
              h.op = "history" /\ h.by = b /\ h.ch = ch => h.before \in Awaited(b, ch)
BY DEF Awaited

\* Selecting, loading and querying one at a time leaves one answer awaited.
LEMMA AwaitsOneSelect ==
  ASSUME TypeOK, TypeOK', [Next]_vars, NEW b \in Browsers, NEW ch \in Channels,
         SelectChannel(b, ch), Awaited(b, ch) = {}
  PROVE  AwaitsOne(b)'
<1> DEFINE s == asked'[b]
           q == asked[b]
           n == Len(q)
           U == [op |-> "unsubscribe", ch |-> current[b]]
           AsksCh(r) == r.op = "get_history" /\ r.ch = ch
<1>1. PICK l \in 0..1 :
        /\ Len(s) = n + l + 2
        /\ \A i \in 1..n : s[i] = q[i]
        /\ \A i \in 1..l : s[n + i] = U
        /\ s[n + l + 1] = SubscribeTo(ch)
        /\ s[n + l + 2] = HistoryOf(ch, None)
  BY SelectAsks
<1>2. \A x \in ToSet(s) : x \in ToSet(q) \/ x = U \/ x = SubscribeTo(ch) \/ x = HistoryOf(ch, None)
  BY SelectAsks
<1>3. /\ current'[b] = ch /\ oldest'[b] = None
      /\ Coming(b)' = Coming(b)
  BY Unmoved DEF SelectChannel, Show, Click, serverVars, TypeOK
<1>4. /\ ~ AsksCh(U) /\ ~ AsksCh(SubscribeTo(ch))
      /\ HistoryOf(ch, None).before = None
  BY DEF SubscribeTo, HistoryOf
<1>5. /\ \A r \in ToSet(q) : ~ AsksCh(r)
      /\ \A h \in ToSet(Coming(b)) : ~ (IsHistory(h) /\ h.ch = ch /\ h.by = b)
  BY AwaitedFacts DEF IsHistory
<1>6. n \in Nat /\ \A i \in 1..n : q[i] \in ToSet(q)
  BY Requests
<1>7. \A i \in 1..Len(Coming(b)) : Coming(b)[i] \in ToSet(Coming(b))
  BY Queues
<1> HIDE DEF s, q, n, U, AsksCh
<1>10. ASSUME NEW i \in 1..Len(s), AsksCh(s[i]) PROVE i = n + l + 2
  <2>1. i \in 1..n \/ (i - n \in 1..l /\ i = n + (i - n)) \/ i = n + l + 1 \/ i = n + l + 2
    BY <1>1, <1>6
  <2>2. i \notin 1..n
    BY <1>1, <1>5, <1>6, <1>10
  <2>3. ~ (i - n \in 1..l /\ i = n + (i - n))
    BY <1>1, <1>4, <1>10
  <2>4. i # n + l + 1
    BY <1>1, <1>4, <1>10
  <2> QED
    BY <2>1, <2>2, <2>3, <2>4
<1>11. \A r \in ToSet(s) : AsksCh(r) => r.before = None
  BY <1>2, <1>4, <1>5
<1>12. \A i, j \in 1..Len(s) : AsksCh(s[i]) /\ AsksCh(s[j]) => i = j
  BY <1>10
<1> QED
  BY <1>3, <1>5, <1>7, <1>11, <1>12 DEF AwaitsOne, Asks, AsksCh, IsOwn, IsHistory, s

LEMMA AwaitsOneLoad ==
  ASSUME TypeOK, TypeOK', [Next]_vars, NEW b \in Browsers,
         LoadMoreMessages(b), Awaited(b, current[b]) = {}
  PROVE  AwaitsOne(b)'
<1> DEFINE s == asked'[b]
           q == asked[b]
           n == Len(q)
           G == HistoryOf(current[b], oldest[b])
<1>1. /\ n \in Nat /\ Len(s) = n + 1
      /\ \A i \in 1..n : s[i] = q[i]
      /\ s[n + 1] = G
      /\ ToSet(s) = ToSet(q) \cup {G}
  BY LoadAsks
<1>2. /\ current' = current /\ oldest' = oldest
      /\ Coming(b)' = Coming(b)
  BY Unmoved DEF LoadMoreMessages, Click, serverVars, viewVars
<1>3. G.before = oldest[b]
  BY DEF HistoryOf
<1>4. /\ \A r \in ToSet(q) : ~ Asks(b, r)
      /\ \A h \in ToSet(Coming(b)) : ~ IsOwn(b, h)
  BY AwaitedFacts DEF Asks, IsOwn, IsHistory
<1>5. /\ \A i \in 1..n : q[i] \in ToSet(q)
      /\ \A i \in 1..Len(Coming(b)) : Coming(b)[i] \in ToSet(Coming(b))
  BY Requests, Queues
<1> HIDE DEF s, q, n, G
<1>7. \A i \in 1..Len(s) : Asks(b, s[i]) => i = n + 1
  <2> SUFFICES ASSUME NEW i \in 1..Len(s), Asks(b, s[i]), i # n + 1 PROVE FALSE
    OBVIOUS
  <2>1. i \in 1..n
    BY <1>1
  <2> QED
    BY <2>1, <1>1, <1>4, <1>5
<1>8. \A i, j \in 1..Len(s) : Asks(b, s[i]) /\ Asks(b, s[j]) => i = j
  BY <1>7
<1>9. \A r \in ToSet(s) : Asks(b, r) => r.before = oldest[b]
  BY <1>1, <1>3, <1>4
<1> QED
  BY <1>2, <1>4, <1>5, <1>8, <1>9 DEF AwaitsOne, Asks, IsOwn, IsHistory, s

LEMMA AwaitsOneQuery ==
  ASSUME TypeOK, TypeOK', NEW b \in Browsers,
         Query(b), Asks(b, Head(asked[b])), AwaitsOne(b)
  PROVE  AwaitsOne(b)'
<1> DEFINE s == Tail(asked[b])
           r == Head(asked[b])
           k == Len(Coming(b))
           t == Coming(b)'
<1>1. /\ asked[b] # <<>> /\ asked'[b] = s /\ current'[b] = current[b] /\ oldest'[b] = oldest[b]
  BY DEF Query, Take, viewVars, TypeOK
<1>2. /\ Len(asked[b]) \in Nat /\ r = asked[b][1] /\ 1 \in 1..Len(asked[b])
      /\ \A i \in 1..Len(s) : i + 1 \in 1..Len(asked[b]) /\ s[i] = asked[b][i + 1]
      /\ r \in ToSet(asked[b]) /\ s \in Seq(Request)
  <2>1. asked[b] \in Seq(Request)
    BY QueueTypes
  <2> QED
    BY <1>1, <2>1, PlacesTail, Places
<1>3. \A x \in ToSet(s) : \E i \in 1..Len(s) : s[i] = x
  <2>1. asked'[b] = s
    BY <1>1
  <2> QED
    BY <2>1, NextAsked
<1>4. page'.before = r.before /\ t = Append(Coming(b), page') /\ page' \in Item
  BY QueryAdds DEF Item
<1>5. /\ k \in Nat /\ Len(Append(Coming(b), page')) = k + 1
      /\ \A i \in 1..k : Append(Coming(b), page')[i] = Coming(b)[i]
      /\ ToSet(Append(Coming(b), page')) = ToSet(Coming(b)) \cup {page'}
  BY <1>4, Queues, PlacesAppend
<1>6. Len(s) \in Nat
  <2>1. s \in Seq(Request)
    BY <1>2
  <2> QED
    BY <2>1, Places
<1> HIDE DEF s, r, k, t
<1>7. /\ Len(t) = k + 1 /\ \A i \in 1..k : t[i] = Coming(b)[i]
      /\ ToSet(t) = ToSet(Coming(b)) \cup {page'}
  BY <1>4, <1>5
<1>8. \A i \in 1..Len(s) : ~ Asks(b, s[i])
  <2> SUFFICES ASSUME NEW i \in 1..Len(s), Asks(b, s[i]) PROVE FALSE
    OBVIOUS
  <2>1. i + 1 = 1
    BY <1>2 DEF AwaitsOne, r
  <2> QED
    BY <2>1, <1>6
<1>9. \A h \in ToSet(Coming(b)) : ~ IsOwn(b, h)
  BY <1>2 DEF AwaitsOne, r
<1>10. r.before = oldest[b]
  BY <1>2 DEF AwaitsOne, r
<1>11. \A i \in 1..Len(t) : IsOwn(b, t[i]) => i = k + 1
  <2> SUFFICES ASSUME NEW i \in 1..Len(t), IsOwn(b, t[i]), i # k + 1 PROVE FALSE
    OBVIOUS
  <2>1. i \in 1..k
    BY <1>5, <1>7
  <2>2. t[i] \in ToSet(Coming(b))
    BY <2>1, <1>7, Queues DEF k
  <2> QED
    BY <2>2, <1>9
<1>12. \A h \in ToSet(t) : IsOwn(b, h) => h.before = oldest[b]
  BY <1>4, <1>7, <1>9, <1>10
<1>13. \A x \in ToSet(s) : ~ Asks(b, x)
  BY <1>3, <1>8
<1>14. \A i, j \in 1..Len(t) : IsOwn(b, t[i]) /\ IsOwn(b, t[j]) => i = j
  BY <1>11
<1> QED
  BY <1>1, <1>8, <1>12, <1>13, <1>14 DEF AwaitsOne, Asks, IsOwn, IsHistory, t

\* An answer that is not confused is the one b waits for.
LEMMA AwaitsOneAnswer ==
  ASSUME TypeOK, TypeOK', NEW b \in Browsers, AwaitsOne(b), NEW h \in ToSet(inbox[b]),
         Receive(b, h), IsOwn(b, h)
  PROVE  /\ h \in ToSet(Coming(b))
         /\ \A r \in ToSet(asked[b]) : ~ Asks(b, r)
         /\ \A x \in ToSet(Coming(b)') : ~ IsOwn(b, x)
         /\ AwaitsOne(b)'
<1>1. /\ Coming(b) # <<>> /\ h = Head(Coming(b)) /\ Coming(b)' = Tail(Coming(b))
      /\ asked' = asked /\ current' = current
  BY ReceiveTakes DEF Receive, serverVars
<1>2. /\ Len(Coming(b)) \in Nat /\ h = Coming(b)[1] /\ 1 \in 1..Len(Coming(b))
      /\ \A i \in 1..Len(Coming(b)') :
           i + 1 \in 1..Len(Coming(b)) /\ Coming(b)'[i] = Coming(b)[i + 1]
      /\ h \in ToSet(Coming(b))
  <2>1. Coming(b) \in Seq(Item)
    BY Queues
  <2> QED
    BY <1>1, <2>1, PlacesTail, Places
<1>3. \A i \in 1..Len(Coming(b)') : ~ IsOwn(b, Coming(b)'[i])
  <2> SUFFICES ASSUME NEW i \in 1..Len(Coming(b)'), IsOwn(b, Coming(b)'[i]) PROVE FALSE
    OBVIOUS
  <2>1. i + 1 = 1
    BY <1>2 DEF AwaitsOne
  <2>2. Len(Coming(b)') \in Nat
    BY NextQueues
  <2> QED
    BY <2>1, <2>2
<1>4. \A x \in ToSet(Coming(b)') : ~ IsOwn(b, x)
  BY <1>3, NextQueues
<1>5. \A r \in ToSet(asked[b]) : ~ Asks(b, r)
  BY <1>2 DEF AwaitsOne
<1>6. \A i \in 1..Len(asked[b]) : ~ Asks(b, asked[b][i])
  BY <1>5, Requests
<1> QED
  BY <1>1, <1>2, <1>3, <1>4, <1>5, <1>6 DEF AwaitsOne, Asks, IsOwn, IsHistory

LEMMA AwaitedInit == Init => OneAwaited
BY DEF Init, OneAwaited, Fine

LEMMA AwaitedNext ==
  ASSUME TypeOK, TypeOK', OneAwaited, [Next]_vars
  PROVE  OneAwaited'
<1> SUFFICES ASSUME NEW b \in Browsers, Fine(b)' PROVE AwaitsOne(b)'
  BY DEF OneAwaited
<1>0. current'[b] # None /\ "repeated" \notin excuse'[b]
  BY DEF Fine
<1>1. ASSUME ViewKept(b) PROVE AwaitsOne(b)
  BY <1>0, <1>1 DEF ViewKept, Fine, OneAwaited
<1>2. CASE Query(b) /\ Asks(b, Head(asked[b]))
  <2>1. ViewKept(b)
    BY <1>2 DEF Query, Take, viewVars, Excused, ViewKept, TypeOK
  <2> QED
    BY <2>1, <1>1, <1>2, AwaitsOneQuery
<1>3. CASE ~ Acts(b) /\ ~ (Query(b) /\ Asks(b, Head(asked[b])))
  <2>1. ViewKept(b) /\ FewerAsked(b)
    BY <1>3, AskedShrinks, TailIsFewerAsked, KeptIsFewerAsked
  <2> QED
    BY <2>1, <1>1, <1>3, OwnAdded, AwaitsOneShrinks DEF ViewKept
<1>4. ASSUME NEW ch \in Channels, SelectChannel(b, ch) PROVE AwaitsOne(b)'
  <2>1. Awaited(b, ch) = {}
    BY <1>0, <1>4 DEF SelectChannel, Show, TypeOK
  <2> QED
    BY <1>4, <2>1, AwaitsOneSelect
<1>5. ~ GoBackToChannels(b) /\ ~ SelectServer(b)
  BY <1>0 DEF GoBackToChannels, SelectServer, TypeOK
<1>6. ASSUME LoadMoreMessages(b) PROVE AwaitsOne(b)'
  <2>1. Awaited(b, current[b]) = {}
    BY <1>0, <1>6 DEF LoadMoreMessages, TypeOK
  <2> QED
    BY <1>6, <2>1, AwaitsOneLoad
<1>7. ASSUME NEW item \in ToSet(inbox[b]), AppendMessage(b, item) PROVE AwaitsOne(b)'
  <2>1. /\ asked' = asked /\ current' = current /\ oldest' = oldest /\ excuse[b] \subseteq excuse'[b]
    BY <1>7 DEF AppendMessage, Receive, Excused, TypeOK
  <2>2. AwaitsOne(b)
    BY <1>0, <2>1 DEF Fine, OneAwaited
  <2>3. ~ Query(b)
    BY <1>7 DEF AppendMessage, Receive, Query, Take, TypeOK
  <2> QED
    BY <2>1, <2>2, <2>3, OwnAdded, AwaitsOneShrinks, KeptIsFewerAsked
<1>8. ASSUME NEW h \in ToSet(inbox[b]), Receive(b, h), IsHistory(h), h.ch = current[b],
             excuse[b] \cup Confused(b, h) \subseteq excuse'[b]
      PROVE  AwaitsOne(b)'
  <2>1. /\ current' = current
    BY <1>8 DEF Receive
  <2>2. Confused(b, h) = {}
    BY <1>0, <1>8 DEF Confused
  <2>3. IsOwn(b, h)
    BY <1>8, <2>2 DEF Confused, IsOwn
  <2>4. AwaitsOne(b)
    BY <1>0, <1>8, <2>1 DEF Fine, OneAwaited
  <2> QED
    BY <1>8, <2>3, <2>4, AwaitsOneAnswer
<1>9. ASSUME NEW h \in ToSet(inbox[b]), RenderHistory(b, h) PROVE AwaitsOne(b)'
  <2>1. excuse[b] \cup Confused(b, h) \subseteq excuse'[b]
    BY <1>9 DEF RenderHistory, TypeOK
  <2> QED
    BY <1>8, <1>9, <2>1 DEF RenderHistory, IsHistory
<1>10. ASSUME NEW h \in ToSet(inbox[b]), PrependHistory(b, h) PROVE AwaitsOne(b)'
  <2>1. excuse[b] \cup Confused(b, h) \subseteq excuse'[b]
    BY <1>10 DEF PrependHistory, TypeOK
  <2> QED
    BY <1>8, <1>10, <2>1 DEF PrependHistory, IsHistory
<1> QED
  BY <1>2, <1>3, <1>4, <1>5, <1>6, <1>7, <1>9, <1>10 DEF Acts

\* A message that will not come any more does not come later.
LEMMA PastStays ==
  ASSUME TypeOK, TypeOK', [Next]_vars, NEW b \in Browsers, NEW m \in Stored, Past(b, m)
  PROVE  Past(b, m)'
<1> DEFINE x == [op |-> "message", id |-> m]
<1>1. m \notin fresh'
  <2>1. \A ch \in Channels : ~ Post(m, ch)
    BY DEF Post, Stored
  <2> QED
    BY <2>1, FreshNext DEF Past
<1>2. x \notin ToSet(Coming(b)')
  <2> SUFFICES ASSUME x \in ToSet(Coming(b)') PROVE FALSE
    OBVIOUS
  <2>1. x \notin ToSet(Coming(b))
    BY DEF Past
  <2>2. ASSUME NEW a \in Browsers, Query(a), x = page' PROVE FALSE
    BY <2>2, QueryAdds DEF History
  <2>3. ASSUME NEW l \in Messages, Publish(l), x = [op |-> "message", id |-> l] PROVE FALSE
    BY <2>3 DEF Publish, Past
  <2> QED
    BY <2>1, <2>2, <2>3, NewItems
<1> QED
  BY <1>1, <1>2 DEF Past

\* No message of an answer to b is broadcast after it.
LEMMA AnswersPastNext ==
  ASSUME TypeOK, TypeOK', ItemsInOrder, [Next]_vars, NEW b \in Browsers,
         AnswersPast(b), "repeated" \notin excuse'[b], current'[b] = current[b]
  PROVE  AnswersPast(b)'
<1> DEFINE t == Coming(b)'
           q == Coming(b)
<1>1. PICK f \in [1..Len(t) -> 0..Len(q)] : Traced(b, f)
  BY Trace
<1>2. Len(t) \in Nat /\ Len(q) \in Nat
  BY Queues, NextQueues
<1>3. ASSUME NEW i \in 1..Len(t), IsOwn(b, t[i]), f[i] # 0
      PROVE  /\ t[i].ids \cap fresh' = {}
             /\ \A j \in 1..Len(t) : j > i /\ IsMessage(t[j]) => t[j].id \notin t[i].ids
  <2>1. f[i] \in 1..Len(q) /\ t[i] = q[f[i]]
    BY <1>1, <1>3, OldPlaces
  <2>2. /\ q[f[i]].ids \cap fresh = {}
        /\ \A j \in 1..Len(q) : j > f[i] /\ IsMessage(q[j]) => q[j].id \notin q[f[i]].ids
    BY <1>3, <2>1 DEF AnswersPast
  <2>3. q[f[i]].ids \subseteq Stored
    BY <1>3, <2>1, Queues, AnswerFacts DEF IsOwn
  <2>4. \A m \in Stored, ch \in Channels : ~ Post(m, ch)
    BY DEF Stored, Post
  <2>5. t[i].ids \cap fresh' = {}
    BY <2>1, <2>2, <2>3, <2>4, FreshNext
  <2>6. ASSUME NEW j \in 1..Len(t), j > i, IsMessage(t[j]) PROVE t[j].id \notin t[i].ids
    <3>1. CASE f[j] # 0
      <4>1. f[j] \in 1..Len(q) /\ t[j] = q[f[j]] /\ f[i] < f[j]
        BY <1>1, <1>3, <2>6, <3>1, OldPlaces
      <4> QED
        BY <4>1, <2>1, <2>2, <2>6, <1>2
    <3>2. CASE f[j] = 0
      <4>1. PICK m \in Messages : Publish(m) /\ t[j] = [op |-> "message", id |-> m]
        BY <1>1, <2>6, <3>2, NewPlaces
      <4>2. m \in fresh /\ t[j].id = m
        BY <4>1 DEF Publish
      <4> QED
        BY <4>2, <2>1, <2>2
    <3> QED
      BY <3>1, <3>2
  <2> QED
    BY <2>5, <2>6
<1>4. ASSUME NEW i \in 1..Len(t), IsOwn(b, t[i]), f[i] = 0
      PROVE  t[i].ids \cap fresh' = {} /\ i = Len(t)
  <2>1. PICK a \in Browsers : Query(a) /\ t[i] = page' /\ i = Len(t)
    BY <1>1, <1>4, NewPlaces DEF IsOwn
  <2>2. page'.by = a /\ page'.ids = Newest(Eligible(Head(asked[a])))
    BY <2>1, QueryAdds
  <2>3. a = b
    BY <2>1, <2>2, <1>4 DEF IsOwn
  <2>4. page'.ids \cap fresh = {}
    BY <2>1, <2>2, <2>3 DEF Query, Excused, TypeOK
  <2>5. fresh' = fresh
    BY <2>1 DEF Query, Take
  <2> QED
    BY <2>1, <2>4, <2>5
<1>5. \A i \in 1..Len(t) : IsOwn(b, t[i]) =>
        /\ t[i].ids \cap fresh' = {}
        /\ \A j \in 1..Len(t) : j > i /\ IsMessage(t[j]) => t[j].id \notin t[i].ids
  BY <1>2, <1>3, <1>4
<1> QED
  BY <1>5 DEF AnswersPast, IsOwn, IsHistory, IsMessage

\* What receiving does to the rest of what is coming.
LEMMA ReceiveFirst ==
  ASSUME TypeOK, NEW b \in Browsers, NEW x \in ToSet(inbox[b]), Receive(b, x)
  PROVE  /\ x \in ToSet(Coming(b)) /\ x \in Item
         /\ Len(Coming(b)) \in Nat /\ 1 \in 1..Len(Coming(b)) /\ x = Coming(b)[1]
         /\ Len(Coming(b)') = Len(Coming(b)) - 1
         /\ \A i \in 1..Len(Coming(b)') :
              i + 1 \in 1..Len(Coming(b)) /\ Coming(b)'[i] = Coming(b)[i + 1]
         /\ UNCHANGED <<place, fresh, asked, current>>
<1>1. /\ Coming(b) # <<>> /\ x = Head(Coming(b)) /\ Coming(b)' = Tail(Coming(b))
      /\ UNCHANGED <<place, fresh, asked, current>>
  BY ReceiveTakes DEF Receive, serverVars
<1>2. Coming(b) \in Seq(Item)
  BY Queues
<1> QED
  BY <1>1, <1>2, PlacesTail, Places

\* What b is sent now is not sent again.
LEMMA PastMessage ==
  ASSUME TypeOK, TypeOK', BroadcastOnce, NEW b \in Browsers, NEW x \in ToSet(inbox[b]),
         Receive(b, x), IsMessage(x)
  PROVE  Past(b, x.id)'
<1>1. /\ x \in ToSet(Coming(b)) /\ x = Coming(b)[1] /\ 1 \in 1..Len(Coming(b))
      /\ \A i \in 1..Len(Coming(b)') :
           i + 1 \in 1..Len(Coming(b)) /\ Coming(b)'[i] = Coming(b)[i + 1]
      /\ fresh' = fresh
  BY ReceiveFirst
<1>2. x.id \notin fresh
  BY <1>1 DEF BroadcastOnce
<1>3. ASSUME NEW i \in 1..Len(Coming(b)'), Coming(b)'[i] = [op |-> "message", id |-> x.id]
      PROVE  FALSE
  <2>1. IsMessage(Coming(b)[i + 1]) /\ Coming(b)[i + 1].id = x.id
    BY <1>1, <1>3 DEF IsMessage
  <2>2. i + 1 = 1
    BY <2>1, <1>1 DEF BroadcastOnce
  <2>3. Len(Coming(b)') \in Nat
    BY NextQueues
  <2> QED
    BY <2>2, <2>3
<1> QED
  BY <1>1, <1>2, <1>3, NextQueues DEF Past

\* The messages of an answer that b receives do not come any more.
LEMMA PastAnswer ==
  ASSUME TypeOK, TypeOK', NEW b \in Browsers, AnswersPast(b), NEW h \in ToSet(inbox[b]),
         Receive(b, h), IsOwn(b, h)
  PROVE  \A m \in h.ids : Past(b, m)'
<1>1. /\ h = Coming(b)[1] /\ 1 \in 1..Len(Coming(b)) /\ Len(Coming(b)) \in Nat
      /\ \A i \in 1..Len(Coming(b)') :
           i + 1 \in 1..Len(Coming(b)) /\ Coming(b)'[i] = Coming(b)[i + 1]
      /\ fresh' = fresh
  BY ReceiveFirst
<1>2. /\ h.ids \cap fresh = {}
      /\ \A j \in 1..Len(Coming(b)) : j > 1 /\ IsMessage(Coming(b)[j]) => Coming(b)[j].id \notin h.ids
  BY <1>1 DEF AnswersPast
<1>3. ASSUME NEW m \in h.ids, NEW i \in 1..Len(Coming(b)'),
             Coming(b)'[i] = [op |-> "message", id |-> m]
      PROVE  FALSE
  <2>1. i + 1 \in 1..Len(Coming(b)) /\ IsMessage(Coming(b)[i + 1]) /\ Coming(b)[i + 1].id = m
    BY <1>1, <1>3 DEF IsMessage
  <2>2. i \in Nat /\ i >= 1
    BY <1>1, NextQueues
  <2> QED
    BY <2>1, <2>2, <1>2, <1>3
<1> QED
  BY <1>1, <1>2, <1>3, NextQueues DEF Past

\* What a page shows after one more message, or more messages in front.
LEMMA ShownMore ==
  ASSUME TypeOK, NEW b \in Browsers
  PROVE  /\ shown[b] \in Seq(Stored) /\ ToSet(shown[b]) \subseteq Stored
         /\ \A m \in Stored :
              /\ ToSet(Append(shown[b], m)) = ToSet(shown[b]) \cup {m}
              /\ IsInjective(shown[b]) /\ m \notin ToSet(shown[b]) =>
                   IsInjective(Append(shown[b], m))
         /\ \A s \in Seq(Stored) :
              /\ ToSet(s \o shown[b]) = ToSet(s) \cup ToSet(shown[b])
              /\ IsInjective(shown[b]) /\ IsInjective(s) /\ ToSet(s) \cap ToSet(shown[b]) = {} =>
                   IsInjective(s \o shown[b])
<1> DEFINE q == shown[b]
<1>1. q \in Seq(Stored)
  BY DEF TypeOK, Stored
<1> HIDE DEF q
<1>2. /\ Len(q) \in Nat /\ DOMAIN q = 1..Len(q) /\ ToSet(q) \subseteq Stored
      /\ \A i \in 1..Len(q) : q[i] \in ToSet(q)
  BY <1>1, Places
<1>3. ASSUME NEW m \in Stored
      PROVE  /\ ToSet(Append(q, m)) = ToSet(q) \cup {m}
             /\ IsInjective(q) /\ m \notin ToSet(q) => IsInjective(Append(q, m))
  <2>1. /\ ToSet(Append(q, m)) = ToSet(q) \cup {m}
        /\ Len(Append(q, m)) = Len(q) + 1
        /\ \A i \in 1..Len(q) : Append(q, m)[i] = q[i]
        /\ Append(q, m)[Len(q) + 1] = m
        /\ Append(q, m) \in Seq(Stored)
    BY <1>1, PlacesAppend
  <2> DEFINE t == Append(q, m)
  <2>2. DOMAIN t = 1..(Len(q) + 1)
    BY <2>1
  <2>3. /\ \A i \in 1..Len(q) : t[i] = q[i]
        /\ t[Len(q) + 1] = m
    BY <2>1
  <2> HIDE DEF t
  <2>4. ASSUME IsInjective(q), m \notin ToSet(q),
               NEW i \in DOMAIN t, NEW j \in DOMAIN t, i # j
        PROVE  t[i] # t[j]
    <3>1. (i \in 1..Len(q) \/ i = Len(q) + 1) /\ (j \in 1..Len(q) \/ j = Len(q) + 1)
      BY <1>2, <2>2
    <3> QED
      BY <3>1, <2>3, <2>4, <1>2 DEF IsInjective
  <2> QED
    BY <2>1, <2>4 DEF IsInjective, t
<1>4. ASSUME NEW s \in Seq(Stored)
      PROVE  /\ ToSet(s \o q) = ToSet(s) \cup ToSet(q)
             /\ IsInjective(q) /\ IsInjective(s) /\ ToSet(s) \cap ToSet(q) = {} =>
                  IsInjective(s \o q)
  <2>1. /\ ToSet(s \o q) = ToSet(s) \cup ToSet(q)
        /\ Len(s \o q) = Len(s) + Len(q)
        /\ \A i \in 1..Len(s) : (s \o q)[i] = s[i]
        /\ \A i \in 1..Len(q) : (s \o q)[Len(s) + i] = q[i]
        /\ s \o q \in Seq(Stored)
    BY <1>1, PlacesConcat
  <2>2. /\ Len(s) \in Nat /\ DOMAIN s = 1..Len(s)
        /\ \A i \in 1..Len(s) : s[i] \in ToSet(s)
    BY Places
  <2> DEFINE t == s \o q
  <2>3. DOMAIN t = 1..(Len(s) + Len(q))
    BY <2>1
  <2>4. /\ \A i \in 1..Len(s) : t[i] = s[i]
        /\ \A i \in 1..Len(q) : t[Len(s) + i] = q[i]
    BY <2>1
  <2> HIDE DEF t
  <2>5. ASSUME NEW i \in DOMAIN t
        PROVE  \/ i \in 1..Len(s) /\ t[i] = s[i]
               \/ i - Len(s) \in 1..Len(q) /\ t[i] = q[i - Len(s)]
    <3>1. i \in 1..Len(s) \/ (i - Len(s) \in 1..Len(q) /\ i = Len(s) + (i - Len(s)))
      BY <1>2, <2>2, <2>3
    <3> QED
      BY <3>1, <2>4
  <2>6. ASSUME IsInjective(q), IsInjective(s), ToSet(s) \cap ToSet(q) = {},
               NEW i \in DOMAIN t, NEW j \in DOMAIN t, t[i] = t[j]
        PROVE  i = j
    <3>1. CASE i \in 1..Len(s) /\ j \in 1..Len(s)
      BY <3>1, <2>2, <2>4, <2>6 DEF IsInjective
    <3>2. ASSUME i - Len(s) \in 1..Len(q), j - Len(s) \in 1..Len(q),
                 t[i] = q[i - Len(s)], t[j] = q[j - Len(s)]
          PROVE  i = j
      <4>1. i - Len(s) = j - Len(s)
        BY <3>2, <1>2, <2>6 DEF IsInjective
      <4> QED
        BY <4>1, <1>2, <2>2, <2>3
    <3>3. \A x \in ToSet(s), y \in ToSet(q) : x # y
      BY <2>6
    <3> QED
      BY <3>1, <3>2, <3>3, <2>2, <2>5, <2>6, <1>2
  <2> QED
    BY <2>1, <2>6 DEF IsInjective, t
<1> QED
  BY <1>1, <1>2, <1>3, <1>4 DEF q

\* What happens to b while it shows a channel.
LEMMA Shows ==
  ASSUME TypeOK, [Next]_vars, NEW b \in Browsers, current'[b] # None
  PROVE  \/ \E ch \in Channels : SelectChannel(b, ch)
         \/ /\ current'[b] = current[b] /\ excuse[b] \subseteq excuse'[b]
            /\ \/ oldest'[b] = oldest[b] /\ more'[b] = more[b] /\ shown'[b] = shown[b]
               \/ \E x \in ToSet(inbox[b]) :
                    AppendMessage(b, x) \/ RenderHistory(b, x) \/ PrependHistory(b, x)
<1>1. CASE ~ Acts(b)
  BY <1>1, AskedShrinks DEF ViewKept
<1>2. ~ GoBackToChannels(b) /\ ~ SelectServer(b)
  BY DEF GoBackToChannels, SelectServer, TypeOK
<1>3. CASE LoadMoreMessages(b)
  <2>1. UNCHANGED viewVars /\ excuse[b] \subseteq excuse'[b]
    BY <1>3 DEF LoadMoreMessages, TypeOK
  <2> QED
    BY <2>1 DEF viewVars
<1>4. ASSUME NEW x \in ToSet(inbox[b]),
             AppendMessage(b, x) \/ RenderHistory(b, x) \/ PrependHistory(b, x)
      PROVE  current'[b] = current[b] /\ excuse[b] \subseteq excuse'[b]
  BY <1>4 DEF AppendMessage, RenderHistory, PrependHistory, Receive, Excused, TypeOK
<1> QED
  BY <1>1, <1>2, <1>3, <1>4 DEF Acts

\* A page starts without messages, and excused if it still waits.
LEMMA SelectShows ==
  ASSUME TypeOK, NEW b \in Browsers, NEW ch \in Channels, SelectChannel(b, ch)
  PROVE  /\ current'[b] = ch /\ oldest'[b] = None /\ more'[b] = FALSE /\ shown'[b] = <<>>
         /\ Coming(b)' = Coming(b) /\ UNCHANGED <<place, fresh, subscribed, page>>
         /\ "repeated" \notin excuse'[b] \/ "missed" \notin excuse'[b] => Awaited(b, ch) = {}
BY Unmoved DEF SelectChannel, Show, Click, serverVars, TypeOK

LEMMA OnceInit == Init => ComesOnce /\ MessagesShownOnce
BY DEF Init, ComesOnce, Fine, MessagesShownOnce

LEMMA OnceNext ==
  ASSUME TypeOK, TypeOK', ItemsInOrder, OneAwaited, BroadcastOnce, ComesOnce, MessagesShownOnce,
         [Next]_vars
  PROVE  ComesOnce' /\ MessagesShownOnce'
<1> SUFFICES ASSUME NEW b \in Browsers, Fine(b)'
             PROVE  ShownPast(b)' /\ AnswersPast(b)' /\ IsInjective(shown'[b])
  BY DEF ComesOnce, MessagesShownOnce, Fine
<1>1. current'[b] # None /\ "repeated" \notin excuse'[b]
  BY DEF Fine
<1>2. ASSUME NEW ch \in Channels, SelectChannel(b, ch)
      PROVE  ShownPast(b)' /\ AnswersPast(b)' /\ IsInjective(shown'[b])
  <2>1. /\ current'[b] = ch /\ shown'[b] = <<>> /\ Coming(b)' = Coming(b) /\ Awaited(b, ch) = {}
    BY <1>1, <1>2, SelectShows
  <2>2. \A h \in ToSet(Coming(b)) : ~ (h.op = "history" /\ h.by = b /\ h.ch = ch)
    BY <2>1, AwaitedFacts
  <2>3. \A i \in 1..Len(Coming(b)) : Coming(b)[i] \in ToSet(Coming(b))
    BY Queues
  <2>4. AnswersPast(b)'
    BY <2>1, <2>2, <2>3 DEF AnswersPast, IsOwn, IsHistory
  <2>5. ToSet(shown'[b]) = {} /\ IsInjective(shown'[b])
    BY <2>1 DEF ToSet, IsInjective
  <2> QED
    BY <2>4, <2>5 DEF ShownPast
<1>3. CASE current'[b] = current[b] /\ excuse[b] \subseteq excuse'[b]
  <2>1. Fine(b)
    BY <1>1, <1>3 DEF Fine
  <2>2. /\ ShownPast(b) /\ AnswersPast(b) /\ IsInjective(shown[b])
        /\ AwaitsOne(b)
    BY <2>1 DEF ComesOnce, MessagesShownOnce, OneAwaited, Fine
  <2>3. AnswersPast(b)'
    BY <1>1, <1>3, <2>2, AnswersPastNext
  <2>4. /\ ToSet(shown[b]) \subseteq Stored /\ Stored \subseteq Nat
        /\ shown[b] \in Seq(Stored)
    BY ShownMore, MessagesAssumption DEF Stored
  <2>5. \A m \in ToSet(shown[b]) : Past(b, m)'
    BY <2>2, <2>4, PastStays DEF ShownPast
  <2>6. CASE oldest'[b] = oldest[b] /\ shown'[b] = shown[b]
    <3>1. ShownPast(b)'
      BY <2>2, <2>5, <2>6 DEF ShownPast
    <3> QED
      BY <2>2, <2>3, <2>6, <3>1
  <2>7. ASSUME NEW x \in ToSet(inbox[b]), AppendMessage(b, x)
        PROVE  ShownPast(b)' /\ IsInjective(shown'[b])
    <3>1. Receive(b, x) /\ IsMessage(x) /\ oldest' = oldest
      BY <2>7 DEF AppendMessage, IsMessage
    <3>2. Past(b, x.id)' /\ x \in ToSet(Coming(b)) /\ x \in Item
      BY <3>1, PastMessage, ReceiveFirst
    <3>3. x.id \in Stored /\ x = [op |-> "message", id |-> x.id] /\ x.id \in Nat
      <4>1. x \in Message /\ x.id \in Messages
        BY <3>1, <3>2, ItemTypes
      <4> QED
        BY <3>1, <3>2, <4>1, MessagesAssumption DEF ItemsInOrder, Stored, Message
    <3>4. CASE place[x.id] # current[b]
      <4>1. shown' = shown
        BY <2>7, <3>4 DEF AppendMessage
      <4> QED
        BY <2>6, <3>1, <4>1
    <3>5. CASE place[x.id] = current[b]
      <4>1. /\ shown'[b] = Append(shown[b], x.id)
            /\ oldest[b] # None => ~ (x.id < oldest[b])
        BY <1>1, <2>7, <3>5 DEF AppendMessage, Excused, TypeOK
      <4>2. x.id \notin ToSet(shown[b])
        BY <2>2, <3>2, <3>3 DEF ShownPast, Past
      <4>3. /\ ToSet(Append(shown[b], x.id)) = ToSet(shown[b]) \cup {x.id}
            /\ IsInjective(Append(shown[b], x.id))
        BY <2>2, <3>3, <4>2, ShownMore
      <4>4. oldest[b] # None => oldest[b] \in Nat /\ x.id >= oldest[b]
        BY <3>3, <4>1, MessagesAssumption DEF TypeOK
      <4>5. \A m \in ToSet(shown'[b]) : Past(b, m)' /\ (oldest'[b] # None => m >= oldest'[b])
        BY <2>2, <2>5, <3>1, <3>2, <4>1, <4>3, <4>4 DEF ShownPast
      <4> QED
        BY <4>1, <4>3, <4>5 DEF ShownPast
    <3> QED
      BY <3>4, <3>5
  <2>8. ASSUME NEW h \in ToSet(inbox[b]), Receive(b, h), IsHistory(h), h.ch = current[b],
               Confused(b, h) = {}
        PROVE  /\ h \in ToSet(Coming(b)) /\ h.before = oldest[b]
               /\ \A m \in h.ids : Past(b, m)'
               /\ h.ids \subseteq Stored
               /\ Sorted(h.ids) \in Seq(Stored) /\ ToSet(Sorted(h.ids)) = h.ids
               /\ IsInjective(Sorted(h.ids))
               /\ \A m \in h.ids : h.before # None => m < h.before
    <3>1. IsOwn(b, h)
      BY <2>8 DEF Confused, IsOwn
    <3>2. h \in ToSet(Coming(b))
      BY <2>8, ReceiveFirst
    <3>3. h.before = oldest[b]
      BY <2>2, <3>1, <3>2 DEF AwaitsOne
    <3>4. \A m \in h.ids : Past(b, m)'
      BY <2>2, <2>8, <3>1, PastAnswer
    <3>5. /\ h.ids \in SUBSET Nat /\ IsFiniteSet(h.ids) /\ h.ids \subseteq Stored
          /\ \A m \in h.ids : h.before # None => m < h.before
      BY <2>8, <3>2, AnswerFacts
    <3>6. /\ Sorted(h.ids) \in Seq(h.ids) /\ ToSet(Sorted(h.ids)) = h.ids
          /\ IsInjective(Sorted(h.ids))
      BY <3>5, SortedPage
    <3>7. \A s \in Seq(h.ids) : s \in Seq(Stored)
      BY <3>5
    <3> QED
      BY <3>2, <3>3, <3>4, <3>5, <3>6, <3>7
  <2>9. ASSUME NEW h \in ToSet(inbox[b]), RenderHistory(b, h)
        PROVE  ShownPast(b)' /\ IsInjective(shown'[b])
    <3>1. /\ Receive(b, h) /\ IsHistory(h) /\ h.ch = current[b] /\ Confused(b, h) = {}
          /\ shown'[b] = Sorted(h.ids) /\ oldest'[b] = OldestOf(h, None)
      BY <1>1, <2>9 DEF RenderHistory, IsHistory, TypeOK, Confused
    <3>2. /\ h \in ToSet(Coming(b)) /\ ToSet(Sorted(h.ids)) = h.ids
          /\ \A m \in h.ids : Past(b, m)'
          /\ IsInjective(Sorted(h.ids)) /\ h.ids \subseteq Nat
      BY <2>4, <2>8, <3>1
    <3>3. /\ h.ids # {} => OldestOf(h, None) \in h.ids /\ \A m \in h.ids : OldestOf(h, None) <= m
      BY <3>1, <3>2, OldestOfPage
    <3>4. \A m \in ToSet(shown'[b]) : Past(b, m)' /\ (oldest'[b] # None => m >= oldest'[b])
      BY <3>1, <3>2, <3>3
    <3> QED
      BY <3>1, <3>2, <3>4 DEF ShownPast
  <2>10. ASSUME NEW h \in ToSet(inbox[b]), PrependHistory(b, h)
         PROVE  ShownPast(b)' /\ IsInjective(shown'[b])
    <3>1. /\ Receive(b, h) /\ IsHistory(h) /\ h.ch = current[b] /\ Confused(b, h) = {}
          /\ oldest[b] # None
          /\ shown'[b] = Sorted(h.ids) \o shown[b] /\ oldest'[b] = OldestOf(h, oldest[b])
      BY <1>1, <2>10 DEF PrependHistory, IsHistory, TypeOK, Confused
    <3>2. /\ h \in ToSet(Coming(b)) /\ ToSet(Sorted(h.ids)) = h.ids
          /\ \A m \in h.ids : Past(b, m)' /\ m < oldest[b]
          /\ IsInjective(Sorted(h.ids)) /\ h.ids \subseteq Nat
          /\ Sorted(h.ids) \in Seq(Stored)
      BY <2>4, <2>8, <3>1
    <3>3. oldest[b] \in Nat /\ oldest[b] \in Messages \cup {None}
      BY <3>1, MessagesAssumption DEF TypeOK
    <3>4. /\ h.ids # {} => OldestOf(h, oldest[b]) \in h.ids
                           /\ \A m \in h.ids : OldestOf(h, oldest[b]) <= m
          /\ h.ids = {} => OldestOf(h, oldest[b]) = oldest[b]
      BY <3>1, <3>2, <3>3, OldestOfPage
    <3>5. \A m \in ToSet(shown[b]) : m \in Nat /\ m >= oldest[b]
      BY <2>2, <2>4, <3>1 DEF ShownPast
    <3>6. ToSet(Sorted(h.ids)) \cap ToSet(shown[b]) = {}
      BY <3>2, <3>3, <3>5
    <3>7. /\ ToSet(shown'[b]) = h.ids \cup ToSet(shown[b])
          /\ IsInjective(shown'[b])
      BY <2>2, <3>1, <3>2, <3>6, ShownMore
    <3>8. \A m \in h.ids \cup ToSet(shown[b]) : m >= oldest'[b]
      BY <3>1, <3>2, <3>3, <3>4, <3>5
    <3>9. \A m \in ToSet(shown'[b]) : Past(b, m)' /\ (oldest'[b] # None => m >= oldest'[b])
      BY <2>5, <3>2, <3>7, <3>8
    <3> QED
      BY <3>7, <3>9 DEF ShownPast
  <2>11. \/ oldest'[b] = oldest[b] /\ shown'[b] = shown[b]
         \/ \E x \in ToSet(inbox[b]) :
              AppendMessage(b, x) \/ RenderHistory(b, x) \/ PrependHistory(b, x)
         \/ \E ch \in Channels : SelectChannel(b, ch)
    BY <1>1, Shows
  <2> QED
    BY <1>2, <2>3, <2>6, <2>7, <2>9, <2>10, <2>11
<1> QED
  BY <1>1, <1>2, <1>3, Shows

-----------------------------------------------------------------------------
(* Nothing is missed: what is asked for.                                   *)

\* Requests wait until they are taken.
LEMMA Taken ==
  ASSUME TypeOK, [Next]_vars, NEW b \in Browsers, NEW r \in ToSet(asked[b])
  PROVE  \/ r \in ToSet(asked'[b])
         \/ /\ asked[b] # <<>> /\ r = Head(asked[b])
            /\ Subscribe(b) \/ Unsubscribe(b) \/ Query(b) \/ Refuse(b)
<1>1. asked[b] \in Seq(Request)
  BY QueueTypes
<1>2. ASSUME NEW a \in Browsers, Subscribe(a) \/ Unsubscribe(a) \/ Query(a) \/ Refuse(a)
      PROVE  \/ r \in ToSet(asked'[b])
             \/ asked[b] # <<>> /\ r = Head(asked[b]) /\ a = b
  <2>1. asked[a] # <<>> /\ asked' = [asked EXCEPT ![a] = Tail(@)]
    BY <1>2 DEF Subscribe, Unsubscribe, Query, Refuse, Take
  <2>2. CASE a # b
    BY <2>1, <2>2 DEF TypeOK
  <2>3. CASE a = b
    <3>1. asked'[b] = Tail(asked[b]) /\ asked[b] # <<>>
      BY <2>1, <2>3 DEF TypeOK
    <3>2. r = Head(asked[b]) \/ r \in ToSet(Tail(asked[b]))
      BY <1>1, <3>1, PlacesTail
    <3> QED
      BY <2>3, <3>1, <3>2
  <2> QED
    BY <2>2, <2>3
<1>3. ASSUME asked'[b] = asked[b] PROVE r \in ToSet(asked'[b])
  BY <1>3
<1>4. ASSUME NEW a \in Browsers, NEW s, asked' = [asked EXCEPT ![a] = @ \o s], s \in Seq(Request)
      PROVE  r \in ToSet(asked'[b])
  <2>1. CASE a # b
    BY <1>3, <1>4, <2>1 DEF TypeOK
  <2>2. CASE a = b
    <3>1. asked'[b] = asked[b] \o s
      BY <1>4, <2>2 DEF TypeOK
    <3>2. ToSet(asked[b] \o s) = ToSet(asked[b]) \cup ToSet(s)
      BY <1>1, <1>4, PlacesConcat
    <3> QED
      BY <3>1, <3>2
  <2> QED
    BY <2>1, <2>2
<1>5. ASSUME NEW a \in Browsers, NEW ch \in Channels, SelectChannel(a, ch)
      PROVE  r \in ToSet(asked'[b])
  <2>1. CASE a # b
    BY <1>3, <1>5, <2>1 DEF SelectChannel, TypeOK
  <2>2. CASE a = b
    <3> DEFINE q == asked[b]
               s == asked'[b]
    <3>1. PICK l \in 0..1 : Len(s) = Len(q) + l + 2 /\ \A i \in 1..Len(q) : s[i] = q[i]
      BY <1>5, <2>2, SelectAsks
    <3>2. Len(q) \in Nat /\ \A x \in ToSet(q) : \E i \in 1..Len(q) : q[i] = x
      BY Requests
    <3>3. asked'[b] \in Seq(Request)
      <4>1. GetHistory(ch, None) \in Seq(Request) /\ Join(ch) \in Seq(Request)
            /\ Leave(b) \in Seq(Request)
        BY RequestTypes
      <4>2. asked'[b] = asked[b] \o Leave(b) \o Join(ch) \o GetHistory(ch, None)
        BY <1>5, <2>2 DEF SelectChannel, TypeOK
      <4> HIDE DEF q, s
      <4>3. asked[b] \o Leave(b) \in Seq(Request)
        BY <1>1, <4>1, ConcatProperties
      <4>4. (asked[b] \o Leave(b)) \o Join(ch) \in Seq(Request)
        BY <4>3, <4>1, ConcatProperties
      <4> QED
        BY <4>1, <4>2, <4>4, ConcatProperties
    <3> HIDE DEF q, s
    <3>4. s \in Seq(Request)
      BY <3>3 DEF s
    <3>5. \A i \in 1..Len(s) : s[i] \in ToSet(s)
      BY <3>4, Places
    <3>6. PICK i \in 1..Len(q) : q[i] = r
      BY <3>2 DEF q
    <3>7. i \in 1..Len(s)
      BY <3>1, <3>2
    <3> QED
      BY <3>1, <3>5, <3>6, <3>7 DEF s
  <2> QED
    BY <2>1, <2>2
<1>6. ASSUME NEW a \in Browsers, GoBackToChannels(a) PROVE r \in ToSet(asked'[b])
  <2>1. current[a] \in Channels
    BY <1>6 DEF GoBackToChannels, TypeOK
  <2>2. Leave(a) = <<[op |-> "unsubscribe", ch |-> current[a]]>>
    BY <1>6 DEF GoBackToChannels, Leave
  <2>3. [op |-> "unsubscribe", ch |-> current[a]] \in Request
    BY <2>1 DEF Request
  <2>4. Leave(a) \in Seq(Request)
    BY <2>2, <2>3
  <2> QED
    BY <1>4, <1>6, <2>4 DEF GoBackToChannels
<1>7. ASSUME NEW a \in Browsers, SelectServer(a) PROVE r \in ToSet(asked'[b])
  BY <1>3, <1>7 DEF SelectServer
<1>8. ASSUME NEW a \in Browsers, LoadMoreMessages(a) PROVE r \in ToSet(asked'[b])
  <2>1. current[a] \in Channels /\ oldest[a] \in Messages
    BY <1>8 DEF LoadMoreMessages, TypeOK
  <2>2. GetHistory(current[a], oldest[a]) \in Seq(Request)
    BY <2>1 DEF GetHistory, Request
  <2> QED
    BY <1>4, <1>8, <2>2 DEF LoadMoreMessages
<1>9. ASSUME NEW a \in Browsers,
             \/ Lose(a)
             \/ \E x \in ToSet(inbox[a]) : \/ AppendMessage(a, x) \/ IgnoreHistory(a, x)
                                           \/ RenderHistory(a, x) \/ PrependHistory(a, x)
      PROVE  r \in ToSet(asked'[b])
  BY <1>3, <1>9 DEF Lose, AppendMessage, IgnoreHistory, RenderHistory, PrependHistory, Receive
<1>10. ASSUME NEW m \in Messages, Publish(m) \/ \E ch \in Channels : Post(m, ch)
       PROVE  r \in ToSet(asked'[b])
  BY <1>3, <1>10 DEF Publish, Post
<1>11. Answer \/ Reconnect => r \in ToSet(asked'[b])
  BY <1>3 DEF Answer, Reconnect
<1>12. UNCHANGED vars => r \in ToSet(asked'[b])
  BY <1>3 DEF vars
<1> QED
  BY <1>2, <1>5, <1>6, <1>7, <1>8, <1>9, <1>10, <1>11, <1>12 DEF Next

\* The connection stays subscribed until a page leaves the channel, or it is replaced.
LEMMA SubscribedStay ==
  ASSUME TypeOK, [Next]_vars, NEW ch \in subscribed
  PROVE  \/ ch \in subscribed'
         \/ Reconnect
         \/ \E a \in Browsers : Unsubscribe(a) /\ Head(asked[a]).ch = ch
<1>1. ASSUME NEW b \in Browsers, Acts(b) PROVE subscribed' = subscribed
  BY <1>1 DEF Acts, SelectChannel, Show, Click, GoBackToChannels, SelectServer,
     LoadMoreMessages, AppendMessage, RenderHistory, PrependHistory, Receive, serverVars
<1>2. ASSUME NEW b \in Browsers, Query(b) \/ Refuse(b) PROVE subscribed' = subscribed
  BY <1>2 DEF Query, Refuse
<1>3. ASSUME NEW b \in Browsers, Subscribe(b) PROVE ch \in subscribed'
  BY <1>3 DEF Subscribe
<1>4. ASSUME NEW b \in Browsers, Unsubscribe(b)
      PROVE  ch \in subscribed' \/ Head(asked[b]).ch = ch
  BY <1>4 DEF Unsubscribe
<1>5. ASSUME NEW b \in Browsers, Lose(b) \/ \E x \in ToSet(inbox[b]) : IgnoreHistory(b, x)
      PROVE  subscribed' = subscribed
  BY <1>5 DEF Lose, IgnoreHistory, Receive, serverVars
<1>6. ASSUME NEW m \in Messages, Publish(m) \/ \E c \in Channels : Post(m, c)
      PROVE  subscribed' = subscribed
  BY <1>6 DEF Publish, Post
<1>7. Answer => subscribed' = subscribed
  BY DEF Answer
<1>8. UNCHANGED vars => subscribed' = subscribed
  BY DEF vars, serverVars
<1> QED
  BY <1>1, <1>2, <1>3, <1>4, <1>5, <1>6, <1>7, <1>8 DEF Next, Acts

LEMMA StayInit == Init => StaySubscribed
BY DEF Init, StaySubscribed, Good

LEMMA StayNext ==
  ASSUME TypeOK, StaySubscribed, [Next]_vars
  PROVE  StaySubscribed'
<1> SUFFICES ASSUME NEW b \in Browsers, current'[b] # None, "missed" \notin excuse'[b]
             PROVE  \/ current'[b] \in subscribed'
                    \/ SubscribeTo(current'[b]) \in ToSet(asked'[b])
  BY DEF StaySubscribed, Good
<1>1. ASSUME NEW ch \in Channels, SelectChannel(b, ch)
      PROVE  SubscribeTo(current'[b]) \in ToSet(asked'[b])
  BY <1>1, SelectAsks, SelectShows
<1>2. CASE current'[b] = current[b] /\ excuse[b] \subseteq excuse'[b]
  <2> DEFINE ch == current[b]
             r == SubscribeTo(ch)
  <2>1. ch \in subscribed \/ r \in ToSet(asked[b])
    BY <1>2 DEF StaySubscribed, Good
  <2>2. r.op = "subscribe" /\ r.ch = ch
    BY DEF SubscribeTo
  <2>3. ASSUME r \in ToSet(asked[b]) PROVE ch \in subscribed' \/ r \in ToSet(asked'[b])
    <3>1. CASE r = Head(asked[b]) /\ Subscribe(b)
      BY <2>2, <3>1 DEF Subscribe
    <3>2. ~ (r = Head(asked[b]) /\ (Unsubscribe(b) \/ Query(b)))
      BY <2>2 DEF Unsubscribe, Query, Take
    <3>3. ~ (r = Head(asked[b]) /\ Refuse(b))
      BY <2>2 DEF Refuse, Excused, TypeOK
    <3> QED
      BY <2>3, <3>1, <3>2, <3>3, Taken
  <2>4. ~ Reconnect
    BY DEF Reconnect, Excused, TypeOK
  <2>5. ASSUME NEW a \in Browsers, Unsubscribe(a), Head(asked[a]).ch = ch
        PROVE  r \in ToSet(asked[b])
    <3>1. b \notin Deserted(ch)
      BY <2>5 DEF Unsubscribe, Excused, TypeOK
    <3> QED
      BY <3>1 DEF Deserted, SubscribeTo
  <2> HIDE DEF r, ch
  <2>6. ch \in subscribed' \/ r \in ToSet(asked'[b])
    BY <2>1, <2>3, <2>4, <2>5, SubscribedStay
  <2> QED
    BY <2>6, <1>2 DEF r, ch
<1> QED
  BY <1>1, <1>2, Shows

-----------------------------------------------------------------------------
(* Nothing is missed: answers.                                             *)

\* An answer that is made now finds what there is.
LEMMA QueryFinds ==
  ASSUME TypeOK, NEW a \in Browsers, Query(a)
  PROVE  /\ page'.by = a /\ page'.ch = Head(asked[a]).ch /\ page'.before = Head(asked[a]).before
         /\ IsHistory(page') /\ place' = place /\ fresh' = fresh
         /\ page'.before = None =>
              \A m \in Messages : place[m] = page'.ch => m \in page'.found
<1> DEFINE r == Head(asked[a])
<1>1. page' = [op |-> "history", ch |-> r.ch, ids |-> Newest(Eligible(r)),
               more |-> Newest(Eligible(r)) # Eligible(r),
               by |-> a, before |-> r.before, found |-> Eligible(r)]
  BY QueryAdds
<1>2. r.before = None => \A m \in Messages : place[m] = r.ch => m \in Eligible(r)
  BY DEF Eligible
<1>3. place' = place /\ fresh' = fresh
  BY DEF Query, Take
<1> HIDE DEF r
<1>4. /\ page'.by = a /\ page'.ch = r.ch /\ page'.before = r.before /\ page'.found = Eligible(r)
      /\ IsHistory(page')
  BY <1>1 DEF IsHistory
<1> QED
  BY <1>2, <1>3, <1>4 DEF r

LEMMA GrowInit == Init => AnswersGrow /\ OneOvertaken
<1> SUFFICES ASSUME Init PROVE AnswersGrow /\ OneOvertaken
  OBVIOUS
<1>1. \A b \in Browsers : Coming(b) = <<>>
  BY DEF Init, Coming
<1> QED
  BY <1>1 DEF AnswersGrow, OneOvertaken

LEMMA GrowNext ==
  ASSUME TypeOK, TypeOK', ItemsInOrder, AnswersGrow, [Next]_vars
  PROVE  AnswersGrow'
<1> SUFFICES ASSUME NEW b \in Browsers,
                    NEW i \in 1..Len(Coming(b)'), NEW j \in 1..Len(Coming(b)'), i < j,
                    IsHistory(Coming(b)'[i]), IsHistory(Coming(b)'[j]),
                    Coming(b)'[i].ch = Coming(b)'[j].ch, Coming(b)'[j].before = None
             PROVE  Coming(b)'[i].found \subseteq Coming(b)'[j].found
  BY DEF AnswersGrow, IsHistory
<1> DEFINE t == Coming(b)'
           q == Coming(b)
<1>1. PICK f \in [1..Len(t) -> 0..Len(q)] : Traced(b, f)
  BY Trace
<1>2. Len(t) \in Nat /\ Len(q) \in Nat
  BY Queues, NextQueues
<1>3. f[i] # 0
  BY <1>1, <1>2, NewPlaces
<1>4. f[i] \in 1..Len(q) /\ t[i] = q[f[i]]
  BY <1>1, <1>3, OldPlaces
<1>5. CASE f[j] # 0
  <2>1. f[j] \in 1..Len(q) /\ t[j] = q[f[j]] /\ f[i] < f[j]
    BY <1>1, <1>3, <1>5, OldPlaces
  <2> QED
    BY <1>4, <2>1 DEF AnswersGrow
<1>6. CASE f[j] = 0
  <2>1. PICK a \in Browsers : Query(a) /\ t[j] = page'
    BY <1>1, <1>6, NewPlaces
  <2>2. \A m \in Messages : place[m] = t[j].ch => m \in t[j].found
    BY <2>1, QueryFinds
  <2>3. t[i] \in ToSet(q)
    BY <1>4, Queues
  <2>4. t[i].found \subseteq Messages /\ \A m \in t[i].found : place[m] = t[i].ch
    BY <2>3, AnswerFacts
  <2> QED
    BY <2>2, <2>4
<1> QED
  BY <1>5, <1>6

\* What b shows after an answer, it showed before, or it is in the answer.
LEMMA ShowsNext ==
  ASSUME TypeOK, ItemsInOrder, [Next]_vars, NEW b \in Browsers, NEW m \in ToSet(shown'[b])
  PROVE  \/ m \in ToSet(shown[b])
         \/ \E x \in ToSet(inbox[b]) :
              Receive(b, x) /\ IsMessage(x) /\ x.id = m /\ place[m] = current[b]
         \/ \E x \in ToSet(inbox[b]) :
              Receive(b, x) /\ IsHistory(x) /\ x.ch = current[b] /\ m \in x.found
<1>1. CASE ~ Acts(b)
  BY <1>1, AskedShrinks DEF ViewKept
<1>2. ASSUME NEW ch \in Channels, SelectChannel(b, ch) PROVE FALSE
  <2>1. shown'[b] = <<>>
    BY <1>2, SelectShows
  <2> QED
    BY <2>1 DEF ToSet
<1>3. CASE GoBackToChannels(b) \/ SelectServer(b) \/ LoadMoreMessages(b)
  BY <1>3 DEF GoBackToChannels, SelectServer, LoadMoreMessages, viewVars
<1>4. ASSUME NEW x \in ToSet(inbox[b]), AppendMessage(b, x)
      PROVE  \/ m \in ToSet(shown[b])
             \/ Receive(b, x) /\ IsMessage(x) /\ x.id = m /\ place[m] = current[b]
  <2>1. Receive(b, x) /\ IsMessage(x)
    BY <1>4 DEF AppendMessage, IsMessage
  <2>2. x.id \in Stored
    <3>1. x \in Item /\ x \in ToSet(Coming(b))
      BY <2>1, ReceiveFirst
    <3>2. x.id \in Messages
      BY <2>1, <3>1, ItemTypes
    <3> QED
      BY <2>1, <3>1, <3>2 DEF ItemsInOrder, Stored
  <2>3. \/ shown'[b] = shown[b]
        \/ shown'[b] = Append(shown[b], x.id) /\ place[x.id] = current[b]
    BY <1>4 DEF AppendMessage, TypeOK
  <2>4. ToSet(Append(shown[b], x.id)) = ToSet(shown[b]) \cup {x.id}
    BY <2>2, ShownMore
  <2> QED
    BY <2>1, <2>3, <2>4
<1>5. ASSUME NEW x \in ToSet(inbox[b]), RenderHistory(b, x) \/ PrependHistory(b, x)
      PROVE  \/ m \in ToSet(shown[b])
             \/ Receive(b, x) /\ IsHistory(x) /\ x.ch = current[b] /\ m \in x.found
  <2>1. Receive(b, x) /\ IsHistory(x) /\ x.ch = current[b]
    BY <1>5 DEF RenderHistory, PrependHistory, IsHistory
  <2>2. /\ x.ids \in SUBSET Nat /\ IsFiniteSet(x.ids) /\ x.ids \subseteq x.found
        /\ x.ids \subseteq Stored
    BY <2>1, ReceiveFirst, AnswerFacts
  <2>3. Sorted(x.ids) \in Seq(x.ids) /\ ToSet(Sorted(x.ids)) = x.ids
    BY <2>2, SortedPage
  <2>4. Sorted(x.ids) \in Seq(Stored)
    <3>1. \A s \in Seq(x.ids) : s \in Seq(Stored)
      BY <2>2
    <3> QED
      BY <3>1, <2>3
  <2>5. ToSet(Sorted(x.ids) \o shown[b]) = x.ids \cup ToSet(shown[b])
    BY <2>3, <2>4, ShownMore
  <2>6. shown'[b] = Sorted(x.ids) \/ shown'[b] = Sorted(x.ids) \o shown[b]
    BY <1>5 DEF RenderHistory, PrependHistory, TypeOK
  <2> QED
    BY <2>1, <2>2, <2>3, <2>5, <2>6
<1> QED
  BY <1>1, <1>2, <1>3, <1>4, <1>5 DEF Acts

LEMMA OvertakenNext ==
  ASSUME TypeOK, TypeOK', ItemsInOrder, AnswersGrow, OneOvertaken, [Next]_vars
  PROVE  OneOvertaken'
<1> SUFFICES ASSUME NEW b \in Browsers,
                    NEW j \in 1..Len(Coming(b)'), NEW k \in 1..Len(Coming(b)'), j < k,
                    IsHistory(Coming(b)'[j]), IsHistory(Coming(b)'[k]),
                    Coming(b)'[k].before = None
             PROVE  LET h == Coming(b)'[k]
                    IN  /\ Good(b)' /\ h.ch = current'[b] =>
                             \A m \in ToSet(shown'[b]) : place'[m] = h.ch => m \in h.found
                        /\ \A i \in 1..(j-1) :
                             LET x == Coming(b)'[i]
                             IN  IsMessage(x) /\ place'[x.id] = h.ch => x.id \in h.found
  BY DEF OneOvertaken, IsHistory, IsMessage
<1> DEFINE t == Coming(b)'
           q == Coming(b)
           h == t[k]
<1>1. PICK f \in [1..Len(t) -> 0..Len(q)] : Traced(b, f)
  BY Trace
<1>2. Len(t) \in Nat /\ Len(q) \in Nat
  BY Queues, NextQueues
<1>3. \A m \in Messages : place[m] # None => place'[m] = place[m]
  BY StoredStay
<1>4. \A m \in ToSet(shown'[b]) : m \in Messages
  <2>1. shown'[b] \in Seq(Stored')
    BY DEF TypeOK, Stored
  <2> DEFINE s == shown'[b]
             S == Stored'
  <2>2. S \subseteq Messages
    BY DEF Stored
  <2> HIDE DEF s, S
  <2>3. s \in Seq(S)
    BY <2>1 DEF s, S
  <2>4. \A m \in ToSet(s) : m \in S
    BY <2>3, Places
  <2> QED
    BY <2>2, <2>4 DEF s
<1>5. \A i \in 1..(j-1) : i \in 1..Len(t) /\ i < j /\ (IsMessage(t[i]) => t[i].id \in Messages)
  <2>1. \A i \in 1..(j-1) : i \in 1..Len(t) /\ i < j
    BY <1>2
  <2> QED
    BY <2>1, NextQueues, ItemTypes
<1>6. CASE f[k] = 0
  <2>1. PICK a \in Browsers : Query(a) /\ t[k] = page'
    BY <1>1, <1>6, NewPlaces
  <2>2. \A m \in Messages : place'[m] = h.ch => m \in h.found
    BY <2>1, QueryFinds
  <2> QED
    BY <2>2, <1>4, <1>5
<1>7. CASE f[k] # 0
  <2>1. f[k] \in 1..Len(q) /\ h = q[f[k]]
    BY <1>1, <1>7, OldPlaces
  <2>2. f[j] # 0
    BY <1>1, <1>2, NewPlaces
  <2>3. f[j] \in 1..Len(q) /\ t[j] = q[f[j]] /\ f[j] < f[k]
    BY <1>1, <1>7, <2>2, OldPlaces
  <2>4. /\ Good(b) /\ h.ch = current[b] =>
             \A m \in ToSet(shown[b]) : place[m] = h.ch => m \in h.found
        /\ \A i \in 1..(f[j]-1) :
             IsMessage(q[i]) /\ place[q[i].id] = h.ch => q[i].id \in h.found
    BY <2>1, <2>3 DEF OneOvertaken
  <2>5. ASSUME NEW i \in 1..(j-1), IsMessage(t[i]), place'[t[i].id] = h.ch
        PROVE  t[i].id \in h.found
    <3>1. f[i] # 0
      <4>1. i \in 1..Len(t) /\ i < j /\ i < k
        BY <1>2, <1>5
      <4>2. f[i] = 0 => \A l \in 1..Len(t) : l > i => l = i + 1
        BY <1>1, <2>5, <4>1, NewPlaces
      <4> QED
        BY <4>1, <4>2, <1>2
    <3>2. f[i] \in 1..Len(q) /\ t[i] = q[f[i]] /\ f[i] < f[j]
      BY <1>1, <1>5, <2>2, <3>1, OldPlaces
    <3>3. f[i] \in 1..(f[j]-1)
      BY <3>2, <2>3, <1>2
    <3>4. place[t[i].id] # None
      BY <3>2, <2>5, Queues DEF ItemsInOrder
    <3> QED
      BY <2>4, <2>5, <3>2, <3>3, <3>4, <1>3, <1>5
  <2>6. ASSUME Good(b)', h.ch = current'[b], NEW m \in ToSet(shown'[b]), place'[m] = h.ch
        PROVE  m \in h.found
    <3>1. CASE \E ch \in Channels : SelectChannel(b, ch)
      <4>1. shown'[b] = <<>>
        BY <3>1, SelectShows
      <4> QED
        BY <4>1, <2>6 DEF ToSet
    <3>2. CASE current'[b] = current[b] /\ excuse[b] \subseteq excuse'[b]
      <4>1. Good(b) /\ h.ch = current[b]
        BY <2>6, <3>2 DEF Good
      <4>2. CASE m \in ToSet(shown[b])
        <5>1. place[m] = h.ch
          <6>1. m \in Stored
            BY <4>2, ShownMore
          <6> QED
            BY <6>1, <1>3, <2>6 DEF Stored
        <5> QED
          BY <2>4, <4>1, <4>2, <5>1
      <4>3. ASSUME NEW x \in ToSet(inbox[b]), Receive(b, x), IsMessage(x), x.id = m,
                   place[m] = current[b]
            PROVE  m \in h.found
        <5>1. x = q[1]
          BY <4>3, ReceiveFirst
        <5>2. f[j] # 1
          BY <2>3, <4>3, <5>1 DEF IsMessage, IsHistory
        <5>3. 1 \in 1..(f[j]-1)
          BY <2>3, <5>2, <1>2
        <5> QED
          BY <2>4, <4>1, <4>3, <5>1, <5>3
      <4>4. ASSUME NEW x \in ToSet(inbox[b]), Receive(b, x), IsHistory(x), x.ch = current[b],
                   m \in x.found
            PROVE  m \in h.found
        <5>1. x = q[1] /\ 1 \in 1..Len(q)
          BY <4>4, ReceiveFirst
        <5>2. 1 < f[k]
          BY <2>3, <2>1, <1>2
        <5> QED
          BY <2>1, <4>1, <4>4, <5>1, <5>2 DEF AnswersGrow
      <4> QED
        BY <4>2, <4>3, <4>4, ShowsNext
    <3>3. current'[b] # None
      BY <2>6 DEF Good
    <3> QED
      BY <3>1, <3>2, <3>3, Shows
  <2> QED
    BY <2>5, <2>6
<1> QED
  BY <1>6, <1>7

\* Where the requests of a page come from.
LEMMA AskedNew ==
  ASSUME TypeOK, TypeOK', [Next]_vars, NEW b \in Browsers, NEW r \in ToSet(asked'[b])
  PROVE  \/ r \in ToSet(asked[b])
         \/ \E ch \in Channels : SelectChannel(b, ch)
         \/ GoBackToChannels(b)
         \/ LoadMoreMessages(b) /\ r = HistoryOf(current[b], oldest[b])
<1>1. CASE ~ Acts(b)
  BY <1>1, AskedShrinks, TailIsFewerAsked, FewerAskedFacts
<1>2. CASE LoadMoreMessages(b)
  BY <1>2, LoadAsks
<1>3. CASE SelectServer(b)
  BY <1>3 DEF SelectServer
<1>4. ASSUME NEW x \in ToSet(inbox[b]), Receive(b, x) PROVE r \in ToSet(asked[b])
  BY <1>4 DEF Receive
<1> QED
  BY <1>1, <1>2, <1>3, <1>4 DEF Acts, AppendMessage, RenderHistory, PrependHistory

\* An answer to b is made for its first request.
LEMMA OwnNew ==
  ASSUME TypeOK, TypeOK', [Next]_vars, NEW b \in Browsers, NEW h \in ToSet(Coming(b)'),
         IsHistory(h)
  PROVE  \/ h \in ToSet(Coming(b))
         \/ \E a \in Browsers :
              /\ Query(a) /\ h = page' /\ h.by = a
              /\ Head(asked[a]) \in ToSet(asked[a])
              /\ Head(asked[a]).op = "get_history"
              /\ Head(asked[a]).ch = h.ch /\ Head(asked[a]).before = h.before
<1>1. ASSUME NEW a \in Browsers, Query(a), h = page'
      PROVE  /\ h.by = a
             /\ Head(asked[a]) \in ToSet(asked[a])
             /\ Head(asked[a]).op = "get_history"
             /\ Head(asked[a]).ch = h.ch /\ Head(asked[a]).before = h.before
  <2>1. asked[a] # <<>> /\ Head(asked[a]).op = "get_history"
    BY <1>1 DEF Query, Take
  <2>2. asked[a] \in Seq(Request)
    BY QueueTypes
  <2>3. Head(asked[a]) \in ToSet(asked[a])
    BY <2>1, <2>2, PlacesTail, Places
  <2> QED
    BY <1>1, <2>1, <2>3, QueryFinds
<1>2. \A m : h # [op |-> "message", id |-> m]
  BY DEF IsHistory
<1> QED
  BY <1>1, <1>2, NewItems

LEMMA FirstInit == Init => FirstComesFirst
BY DEF Init, FirstComesFirst, Good

LEMMA FirstNext ==
  ASSUME TypeOK, TypeOK', ItemsInOrder, FirstComesFirst, [Next]_vars
  PROVE  FirstComesFirst'
<1> SUFFICES ASSUME NEW b \in Browsers, current'[b] # None, "missed" \notin excuse'[b],
                    FirstAwaited(b)' \/ oldest'[b] = None
             PROVE  OnlyFirstAwaited(b)'
  BY DEF FirstComesFirst, Good
<1>1. ASSUME NEW ch \in Channels, SelectChannel(b, ch) PROVE OnlyFirstAwaited(b)'
  <2>1. current'[b] = ch /\ Coming(b)' = Coming(b) /\ Awaited(b, ch) = {}
    BY <1>1, SelectShows
  <2>2. /\ \A r \in ToSet(asked[b]) : ~ (r.op = "get_history" /\ r.ch = ch)
        /\ \A h \in ToSet(Coming(b)) : ~ (h.op = "history" /\ h.by = b /\ h.ch = ch)
    BY <2>1, AwaitedFacts
  <2>3. \A r \in ToSet(asked'[b]) :
          \/ r \in ToSet(asked[b])
          \/ r = [op |-> "unsubscribe", ch |-> current[b]]
          \/ r = SubscribeTo(ch)
          \/ r = HistoryOf(ch, None)
    BY <1>1, SelectAsks
  <2>4. \A r \in ToSet(asked'[b]) : r.op = "get_history" /\ r.ch = ch => r.before = None
    BY <2>2, <2>3 DEF SubscribeTo, HistoryOf
  <2> QED
    BY <2>1, <2>2, <2>4 DEF OnlyFirstAwaited, Asks, IsOwn, IsHistory
<1>2. CASE current'[b] = current[b] /\ excuse[b] \subseteq excuse'[b]
           /\ ~ \E ch \in Channels : SelectChannel(b, ch)
  <2>1. Good(b)
    BY <1>2 DEF Good
  <2>2. ~ GoBackToChannels(b)
    BY DEF GoBackToChannels, TypeOK
  <2>3. CASE LoadMoreMessages(b)
    <3>1. /\ None \notin Awaited(b, current[b]) /\ oldest[b] # None /\ oldest'[b] = oldest[b]
      BY <2>3 DEF LoadMoreMessages, viewVars, TypeOK
    <3>2. Coming(b)' = Coming(b)
      BY <2>3, Unmoved DEF LoadMoreMessages, Click, serverVars
    <3>3. /\ \A r \in ToSet(asked[b]) : r.op = "get_history" /\ r.ch = current[b] => r.before # None
          /\ \A h \in ToSet(Coming(b)) :
               h.op = "history" /\ h.by = b /\ h.ch = current[b] => h.before # None
      <4>1. /\ \A r \in ToSet(asked[b]) :
                 r.op = "get_history" /\ r.ch = current[b] => r.before \in Awaited(b, current[b])
            /\ \A h \in ToSet(Coming(b)) :
                 h.op = "history" /\ h.by = b /\ h.ch = current[b] =>
                   h.before \in Awaited(b, current[b])
        BY AwaitedFacts
      <4> QED
        BY <3>1, <4>1
    <3>4. \A r \in ToSet(asked'[b]) : r \in ToSet(asked[b]) \/ r.before # None
      <4>1. ToSet(asked'[b]) = ToSet(asked[b]) \cup {HistoryOf(current[b], oldest[b])}
        BY <2>3, LoadAsks
      <4>2. HistoryOf(current[b], oldest[b]).before = oldest[b]
        BY DEF HistoryOf
      <4> QED
        BY <3>1, <4>1, <4>2
    <3>5. ~ FirstAwaited(b)'
      BY <1>2, <3>2, <3>3, <3>4 DEF FirstAwaited, Asks, IsOwn, IsHistory
    <3> QED
      BY <3>1, <3>5
  <2>4. CASE ~ LoadMoreMessages(b)
    <3>1. \A r \in ToSet(asked'[b]) : r \in ToSet(asked[b])
      BY <1>2, <2>2, <2>4, AskedNew
    <3>2. \A h \in ToSet(Coming(b)') : IsHistory(h) /\ h.by = b =>
            \/ h \in ToSet(Coming(b))
            \/ \E r \in ToSet(asked[b]) :
                 r.op = "get_history" /\ r.ch = h.ch /\ r.before = h.before
      BY OwnNew
    <3>3. FirstAwaited(b)' => FirstAwaited(b)
      BY <1>2, <3>1, <3>2 DEF FirstAwaited, Asks, IsOwn, IsHistory
    <3>4. oldest'[b] = None => oldest[b] = None
      <4>1. ASSUME NEW x \in ToSet(inbox[b]), AppendMessage(b, x) PROVE oldest' = oldest
        BY <4>1 DEF AppendMessage
      <4>2. ASSUME NEW x \in ToSet(inbox[b]), RenderHistory(b, x) PROVE oldest[b] = None
        BY <4>2 DEF RenderHistory
      <4>3. ASSUME NEW x \in ToSet(inbox[b]), PrependHistory(b, x) PROVE oldest'[b] # None
        <5>1. /\ oldest[b] # None /\ oldest'[b] = OldestOf(x, oldest[b])
              /\ Receive(b, x) /\ IsHistory(x) /\ oldest[b] \in Messages \cup {None}
          BY <4>3 DEF PrependHistory, IsHistory, TypeOK
        <5>2. x \in ToSet(Coming(b))
          BY <5>1, ReceiveFirst
        <5>3. /\ x.ids = {} => OldestOf(x, oldest[b]) = oldest[b]
              /\ x.ids # {} => OldestOf(x, oldest[b]) \in x.ids
              /\ x.ids \subseteq Messages
          BY <5>1, <5>2, OldestOfPage, AnswerFacts
        <5> QED
          BY <5>1, <5>3, NoneAssumption
      <4> QED
        BY <1>2, <4>1, <4>2, <4>3, Shows
    <3>5. OnlyFirstAwaited(b)
      BY <2>1, <3>3, <3>4 DEF FirstComesFirst
    <3> QED
      BY <1>2, <3>1, <3>2, <3>5 DEF OnlyFirstAwaited, Asks, IsOwn, IsHistory
  <2> QED
    BY <2>3, <2>4
<1> QED
  BY <1>1, <1>2, Shows

-----------------------------------------------------------------------------
(* Nothing is missed.                                                      *)

\* What is coming to b stays, until b takes it.
LEMMA ItemStays ==
  ASSUME TypeOK, [Next]_vars, NEW b \in Browsers, NEW x \in ToSet(Coming(b)),
         "missed" \notin excuse'[b], IsHistory(x) => x.ch = current[b]
  PROVE  \/ x \in ToSet(Coming(b)')
         \/ x \in ToSet(inbox[b])
            /\ (AppendMessage(b, x) \/ RenderHistory(b, x) \/ PrependHistory(b, x))
<1>1. ASSUME Coming(b)' = Coming(b) PROVE x \in ToSet(Coming(b)')
  BY <1>1
<1>2. CASE Undisturbed(b)
  BY <1>2 DEF Undisturbed
<1>3. CASE Served(b)
  BY <1>1, <1>3 DEF Served
<1>4. ASSUME NEW a \in Browsers, Query(a) PROVE x \in ToSet(Coming(b)')
  <2>1. page' \in Item /\ Coming(b)' = Append(Coming(b), page')
    BY <1>4, QueryAdds DEF Item
  <2>2. ToSet(Append(Coming(b), page')) = ToSet(Coming(b)) \cup {page'}
    BY <2>1, QueueTypes, PlacesAppend
  <2> QED
    BY <2>1, <2>2
<1>5. ASSUME NEW m \in Messages, NEW ch \in Channels, Post(m, ch) PROVE x \in ToSet(Coming(b)')
  BY <1>1, <1>5, Unmoved DEF Post
<1>6. ASSUME NEW m \in Messages, Publish(m) PROVE x \in ToSet(Coming(b)')
  <2>1. /\ place[m] \in subscribed =>
             ToSet(Coming(b)') = ToSet(Coming(b)) \cup {[op |-> "message", id |-> m]}
        /\ place[m] \notin subscribed => Coming(b)' = Coming(b)
    BY <1>6, PublishSlips
  <2> QED
    BY <2>1
<1>7. ASSUME Click PROVE x \in ToSet(Coming(b)')
  BY <1>1, <1>7, Unmoved DEF Click, serverVars
<1>8. ASSUME NEW y \in ToSet(inbox[b]), Receive(b, y) PROVE x \in ToSet(Coming(b)') \/ x = y
  <2>1. Coming(b) # <<>> /\ y = Head(Coming(b)) /\ Coming(b)' = Tail(Coming(b))
    BY <1>8, ReceiveTakes DEF Receive, serverVars
  <2>2. Coming(b) \in Seq(Item)
    BY Queues
  <2> QED
    BY <2>1, <2>2, PlacesTail
<1>9. CASE Acts(b)
  BY <1>7, <1>8, <1>9 DEF Acts, SelectChannel, Show, GoBackToChannels, SelectServer,
     LoadMoreMessages, AppendMessage, RenderHistory, PrependHistory
<1> QED
  BY <1>2, <1>3, <1>4, <1>5, <1>6, <1>9, Steps

\* What an answer found is shown, or is older than what is shown.
LEMMA Answered ==
  ASSUME TypeOK, TypeOK', ItemsInOrder, [Next]_vars, NEW b \in Browsers,
         NEW h \in ToSet(inbox[b]), RenderHistory(b, h) \/ PrependHistory(b, h),
         NEW m \in Messages
  PROVE  /\ h \in ToSet(Coming(b)) /\ Receive(b, h) /\ IsHistory(h) /\ h.ch = current[b]
         /\ m \in h.ids => m \in ToSet(shown'[b])
         /\ m \in h.found => m \in ToSet(shown'[b]) \/
              Older(b, m)'
         /\ h.more /\ (\A x \in h.ids : m < x) =>
              Older(b, m)'
         /\ PrependHistory(b, h) => \A x \in ToSet(shown[b]) : x \in ToSet(shown'[b])
<1>1. Receive(b, h) /\ IsHistory(h) /\ h.ch = current[b]
  BY DEF RenderHistory, PrependHistory, IsHistory
<1>2. h \in ToSet(Coming(b))
  BY <1>1, ReceiveFirst
<1>3. /\ h.ids \in SUBSET Nat /\ IsFiniteSet(h.ids) /\ h.ids \subseteq Stored
      /\ h.ids \subseteq Messages
      /\ h.more => h.ids # {}
      /\ \A l \in h.found \ h.ids : h.more /\ \A x \in h.ids : l < x
  BY <1>1, <1>2, AnswerFacts
<1>4. Sorted(h.ids) \in Seq(h.ids) /\ ToSet(Sorted(h.ids)) = h.ids
  BY <1>3, SortedPage
<1>5. Sorted(h.ids) \in Seq(Stored)
  <2>1. \A s \in Seq(h.ids) : s \in Seq(Stored)
    BY <1>3
  <2> QED
    BY <2>1, <1>4
<1>6. ToSet(Sorted(h.ids) \o shown[b]) = h.ids \cup ToSet(shown[b])
  BY <1>4, <1>5, ShownMore
<1>7. /\ shown'[b] = Sorted(h.ids) \/ shown'[b] = Sorted(h.ids) \o shown[b]
      /\ PrependHistory(b, h) => shown'[b] = Sorted(h.ids) \o shown[b]
      /\ more'[b] = h.more /\ oldest'[b] = OldestOf(h, oldest[b])
      /\ oldest[b] \in Messages \cup {None}
  BY DEF RenderHistory, PrependHistory, TypeOK
<1>8. h.ids # {} => OldestOf(h, oldest[b]) \in h.ids
  BY <1>1, <1>2, <1>7, OldestOfPage
<1>9. h.more /\ (\A x \in h.ids : m < x) => Older(b, m)'
  BY <1>3, <1>7, <1>8, NoneAssumption DEF Older
<1>10. m \in h.ids => m \in ToSet(shown'[b])
  BY <1>4, <1>6, <1>7
<1>11. PrependHistory(b, h) => \A x \in ToSet(shown[b]) : x \in ToSet(shown'[b])
  BY <1>6, <1>7
<1>12. m \in h.found => m \in ToSet(shown'[b]) \/
         Older(b, m)'
  BY <1>3, <1>9, <1>10
<1> QED
  BY <1>1, <1>2, <1>9, <1>10, <1>11, <1>12

\* What a page has asked for stays in what it asked for.
LEMMA FindableNext ==
  ASSUME TypeOK, TypeOK', [Next]_vars, NEW b \in Browsers, NEW m \in Messages,
         place[m] = current[b], current'[b] = current[b], current[b] # None,
         ~ \E ch \in Channels : SelectChannel(b, ch),
         LoadMoreMessages(b) => m < oldest[b],
         Findable(b, m)
  PROVE  Findable(b, m)'
<1>1. ASSUME NEW r \in ToSet(asked'[b]), Asks(b, r), r.before # None PROVE m < r.before
  <2>1. ~ GoBackToChannels(b)
    BY DEF GoBackToChannels, TypeOK
  <2>2. HistoryOf(current[b], oldest[b]).before = oldest[b]
    BY DEF HistoryOf
  <2> QED
    BY <1>1, <2>1, <2>2, AskedNew DEF Findable
<1>2. ASSUME NEW h \in ToSet(Coming(b)'), IsHistory(h), h.ch = current[b],
             h.by = b \/ h.before = None
      PROVE  m \in h.found
  <2>1. CASE h \in ToSet(Coming(b))
    BY <1>2, <2>1 DEF Findable
  <2>2. ASSUME NEW a \in Browsers, Query(a), h = page', h.by = a,
               Head(asked[a]) \in ToSet(asked[a]), Head(asked[a]).op = "get_history",
               Head(asked[a]).ch = h.ch, Head(asked[a]).before = h.before
        PROVE  m \in h.found
    <3>1. CASE h.before = None
      BY <1>2, <2>2, <3>1, QueryFinds
    <3>2. CASE h.before # None
      <4>1. a = b /\ Asks(b, Head(asked[b]))
        BY <1>2, <2>2, <3>2 DEF Asks
      <4>2. m < h.before
        BY <2>2, <3>2, <4>1 DEF Findable
      <4>3. h.found = Eligible(Head(asked[a]))
        BY <2>2, QueryAdds
      <4> QED
        BY <1>2, <2>2, <4>2, <4>3 DEF Eligible
    <3> QED
      BY <3>1, <3>2
  <2> QED
    BY <1>2, <2>1, <2>2, OwnNew
<1> QED
  BY <1>1, <1>2 DEF Findable, Asks, IsHistory

\* Every message was stored before, or is stored now.
LEMMA PlaceNext ==
  ASSUME TypeOK, [Next]_vars, NEW m \in Messages
  PROVE  place'[m] = place[m] \/ m \in fresh'
<1> USE DEF TypeOK
<1>1. ASSUME NEW b \in Browsers, Acts(b) PROVE place' = place
  BY <1>1 DEF Acts, SelectChannel, Show, Click, GoBackToChannels, SelectServer,
     LoadMoreMessages, AppendMessage, RenderHistory, PrependHistory, Receive, serverVars
<1>2. ASSUME NEW b \in Browsers,
             Subscribe(b) \/ Unsubscribe(b) \/ Refuse(b) \/ Query(b)
      PROVE  place' = place
  BY <1>2 DEF Subscribe, Unsubscribe, Refuse, Query, Take
<1>3. ASSUME NEW b \in Browsers, Lose(b) \/ \E item \in ToSet(inbox[b]) : IgnoreHistory(b, item)
      PROVE  place' = place
  BY <1>3 DEF Lose, IgnoreHistory, Receive, serverVars
<1>4. ASSUME NEW x \in Messages, NEW ch \in Channels, Post(x, ch)
      PROVE  place'[m] = place[m] \/ m \in fresh'
  BY <1>4 DEF Post
<1>5. ASSUME NEW x \in Messages, Publish(x) PROVE place' = place
  BY <1>5 DEF Publish
<1>6. Answer \/ Reconnect => place' = place
  BY DEF Answer, Reconnect
<1>7. UNCHANGED vars => place' = place
  BY DEF vars, serverVars
<1> QED
  BY <1>1, <1>2, <1>3, <1>4, <1>5, <1>6, <1>7 DEF Next, Acts

LEMMA MissedInit == Init => NothingMissed
BY DEF Init, NothingMissed, Good

\* A first page that b is sent, and what it showed before.
LEMMA FirstPage ==
  ASSUME TypeOK, TypeOK', ItemsInOrder, AnswersGrow, OneOvertaken, FirstComesFirst,
         [Next]_vars, NEW b \in Browsers, Good(b), "missed" \notin excuse'[b],
         NEW h \in ToSet(inbox[b]), RenderHistory(b, h) \/ PrependHistory(b, h),
         NEW m \in Messages, place[m] = current[b],
         \/ m \in h.found /\ h.before = None /\ h.by = b
         \/ m \in ToSet(shown[b])
         \/ Reachable(b, m)
  PROVE  m \in ToSet(shown'[b]) \/ Reachable(b, m)'
<1>1. /\ h \in ToSet(Coming(b)) /\ Receive(b, h) /\ IsHistory(h) /\ h.ch = current[b]
      /\ m \in h.ids => m \in ToSet(shown'[b])
      /\ m \in h.found => m \in ToSet(shown'[b]) \/ Older(b, m)'
      /\ h.more /\ (\A x \in h.ids : m < x) => Older(b, m)'
      /\ PrependHistory(b, h) => \A x \in ToSet(shown[b]) : x \in ToSet(shown'[b])
  BY Answered
<1>2. /\ Len(Coming(b)) \in Nat /\ 1 \in 1..Len(Coming(b)) /\ h = Coming(b)[1]
      /\ \A i \in 1..Len(Coming(b)') :
           i + 1 \in 1..Len(Coming(b)) /\ Coming(b)'[i] = Coming(b)[i + 1]
      /\ asked' = asked /\ current' = current
  BY <1>1, ReceiveFirst
<1>3. \A x \in ToSet(Coming(b)') :
        \E k \in 1..Len(Coming(b)) : k > 1 /\ x = Coming(b)[k]
  <2>1. \A x \in ToSet(Coming(b)') : \E i \in 1..Len(Coming(b)') : Coming(b)'[i] = x
    BY NextQueues
  <2>2. \A i \in 1..Len(Coming(b)') : i + 1 > 1
    BY NextQueues
  <2> QED
    BY <2>1, <2>2, <1>2
<1>4. h.by = b \/ h.before = None
  <2>1. Confused(b, h) \subseteq excuse'[b]
    BY DEF RenderHistory, PrependHistory, TypeOK
  <2> QED
    BY <2>1 DEF Confused
<1>5. CASE m \in h.found /\ h.before = None /\ h.by = b
  <2>1. OnlyFirstAwaited(b)
    <3>1. FirstAwaited(b)
      BY <1>1, <1>5 DEF FirstAwaited, IsOwn
    <3> QED
      BY <3>1 DEF FirstComesFirst
  <2>2. ASSUME NEW x \in ToSet(Coming(b)'), IsHistory(x), x.ch = current[b],
               x.by = b \/ x.before = None
        PROVE  m \in x.found
    <3>1. PICK k \in 1..Len(Coming(b)) : k > 1 /\ x = Coming(b)[k]
      BY <1>3
    <3>2. x \in ToSet(Coming(b))
      BY <3>1, Queues
    <3>3. x.before = None
      BY <2>1, <2>2, <3>2 DEF OnlyFirstAwaited, IsOwn
    <3>4. h.found \subseteq x.found
      BY <1>1, <1>2, <2>2, <3>1, <3>3 DEF AnswersGrow
    <3> QED
      BY <3>4, <1>5
  <2>3. Findable(b, m)'
    BY <1>2, <2>1, <2>2 DEF Findable, OnlyFirstAwaited, Asks, IsHistory
  <2> QED
    BY <1>1, <1>5, <2>3 DEF Reachable
<1>6. CASE m \in ToSet(shown[b]) /\ ~ PrependHistory(b, h)
  <2>1. RenderHistory(b, h) /\ oldest[b] = None /\ Replaced(b, h) \subseteq {}
    <3>1. RenderHistory(b, h)
      BY <1>6
    <3> QED
      BY <3>1 DEF RenderHistory, TypeOK
  <2>2. OnlyFirstAwaited(b)
    BY <2>1 DEF FirstComesFirst
  <2>3. CASE m \notin h.ids
    <3>1. h.more /\ \A x \in h.ids : ~ (x < m)
      BY <1>6, <2>1, <2>3 DEF Replaced
    <3>2. \A x \in h.ids : x \in Nat /\ x # m
      BY <1>1, <2>3, AnswerFacts
    <3>3. m \in Nat
      BY MessagesAssumption
    <3>4. \A x \in h.ids : m < x
      BY <3>1, <3>2, <3>3
    <3>5. Older(b, m)'
      BY <1>1, <3>1, <3>4
    <3>6. ASSUME NEW x \in ToSet(Coming(b)'), IsHistory(x), x.ch = current[b],
                 x.by = b \/ x.before = None
          PROVE  m \in x.found
      <4>1. PICK k \in 1..Len(Coming(b)) : k > 1 /\ x = Coming(b)[k]
        BY <1>3
      <4>2. x \in ToSet(Coming(b))
        BY <4>1, Queues
      <4>3. x.before = None
        BY <2>2, <3>6, <4>2 DEF OnlyFirstAwaited, IsOwn
      <4>4. \A l \in ToSet(shown[b]) : place[l] = x.ch => l \in x.found
        BY <1>1, <1>2, <3>6, <4>1, <4>3 DEF OneOvertaken
      <4> QED
        BY <1>6, <3>6, <4>4
    <3>7. Findable(b, m)'
      BY <1>2, <2>2, <3>6 DEF Findable, OnlyFirstAwaited, Asks, IsHistory
    <3> QED
      BY <3>5, <3>7 DEF Reachable
  <2> QED
    BY <1>1, <2>3
<1>7. CASE Reachable(b, m)
  <2>1. m \in h.found
    BY <1>1, <1>4, <1>7 DEF Reachable, Findable
  <2>2. \A x \in ToSet(Coming(b)') : x \in ToSet(Coming(b))
    BY <1>3, Queues
  <2>3. Findable(b, m)'
    BY <1>2, <1>7, <2>2 DEF Reachable, Findable, Asks, IsHistory
  <2> QED
    BY <1>1, <2>1, <2>3 DEF Reachable
<1> QED
  BY <1>1, <1>5, <1>6, <1>7

\* What was to come does come, or is still to come.
LEMMA ComesNext ==
  ASSUME TypeOK, TypeOK', ItemsInOrder, AskedInOrder, StaySubscribed, AnswersGrow, OneOvertaken,
         FirstComesFirst, [Next]_vars, NEW b \in Browsers, Good(b),
         current'[b] = current[b], "missed" \notin excuse'[b],
         NEW m \in Messages, place[m] = current[b], WillCome(b, m)
  PROVE  WillCome(b, m)' \/ m \in ToSet(shown'[b]) \/ Reachable(b, m)'
<1> DEFINE M == [op |-> "message", id |-> m]
           G == HistoryOf(current[b], None)
<1>1. /\ m \in fresh' => WillCome(b, m)'
      /\ G \in ToSet(asked'[b]) => WillCome(b, m)'
      /\ M \in ToSet(Coming(b)') => WillCome(b, m)'
      /\ \A h \in ToSet(Coming(b)') :
           IsHistory(h) /\ h.ch = current[b] /\ h.by = b /\ h.before = None /\ m \in h.found =>
             WillCome(b, m)'
  BY DEF WillCome, IsOwn, IsHistory
<1>2. CASE m \in fresh
  <2>1. CASE Publish(m)
    <3>1. CASE current[b] \in subscribed
      <4>1. ToSet(Coming(b)') = ToSet(Coming(b)) \cup {M}
        BY <2>1, <3>1, PublishSlips
      <4> QED
        BY <1>1, <4>1
    <3>2. CASE SubscribeTo(current[b]) \in ToSet(asked[b])
      <4>1. PICK i \in 1..Len(asked[b]) : asked[b][i] = SubscribeTo(current[b])
        BY <3>2, Requests
      <4>2. /\ i < Len(asked[b])
            /\ asked[b][i+1] = G
        BY <4>1 DEF AskedInOrder, AskedOf, SubscribeTo
      <4>3. G \in ToSet(asked[b])
        <5>1. Len(asked[b]) \in Nat /\ \A j \in 1..Len(asked[b]) : asked[b][j] \in ToSet(asked[b])
          BY Requests
        <5>2. i + 1 \in 1..Len(asked[b])
          BY <4>2, <5>1
        <5> QED
          BY <4>2, <5>1, <5>2
      <4>4. asked' = asked
        BY <2>1 DEF Publish
      <4> QED
        BY <1>1, <4>3, <4>4
    <3> QED
      BY <3>1, <3>2 DEF StaySubscribed
  <2> QED
    BY <1>1, <1>2, <2>1, FreshNext
<1>3. CASE G \in ToSet(asked[b])
  <2>1. G.op = "get_history" /\ G.ch = current[b] /\ G.before = None
    BY DEF HistoryOf
  <2>2. ~ (G = Head(asked[b]) /\ (Subscribe(b) \/ Unsubscribe(b)))
    BY <2>1 DEF Subscribe, Unsubscribe, Take
  <2>3. ~ (G = Head(asked[b]) /\ Refuse(b))
    BY <2>1 DEF Refuse, Excused, TypeOK
  <2>4. CASE G = Head(asked[b]) /\ Query(b)
    <3>1. /\ page'.by = b /\ page'.ch = current[b] /\ page'.before = None
          /\ IsHistory(page') /\ m \in page'.found
      BY <2>1, <2>4, QueryFinds
    <3>2. page' \in Item /\ Coming(b)' = Append(Coming(b), page')
      BY <2>4, QueryAdds DEF Item
    <3>3. ToSet(Append(Coming(b), page')) = ToSet(Coming(b)) \cup {page'}
      BY <3>2, QueueTypes, PlacesAppend
    <3>4. page' \in ToSet(Coming(b)')
      BY <3>2, <3>3
    <3> QED
      BY <1>1, <3>1, <3>4
  <2> HIDE DEF G
  <2> QED
    BY <1>1, <1>3, <2>2, <2>3, <2>4, Taken
<1>4. CASE M \in ToSet(Coming(b))
  <2>1. ~ IsHistory(M)
    BY DEF IsHistory
  <2>2. ~ RenderHistory(b, M) /\ ~ PrependHistory(b, M)
    BY DEF RenderHistory, PrependHistory
  <2>3. CASE M \in ToSet(inbox[b]) /\ AppendMessage(b, M)
    <3>1. M.id = m
      OBVIOUS
    <3>2. shown'[b] = Append(shown[b], m)
      BY <2>3, <3>1 DEF AppendMessage, TypeOK
    <3>3. m \in Stored
      BY <1>4, NoneAssumption DEF ItemsInOrder, IsMessage, Stored
    <3>4. ToSet(Append(shown[b], m)) = ToSet(shown[b]) \cup {m}
      BY <3>3, ShownMore
    <3> QED
      BY <3>2, <3>4
  <2> HIDE DEF M
  <2> QED
    BY <1>1, <1>4, <2>1, <2>2, <2>3, ItemStays
<1>5. ASSUME NEW h \in ToSet(Coming(b)), IsOwn(b, h), h.before = None, m \in h.found
      PROVE  WillCome(b, m)' \/ m \in ToSet(shown'[b]) \/ Reachable(b, m)'
  <2>1. IsHistory(h) /\ h.ch = current[b] /\ h.by = b
    BY <1>5 DEF IsOwn
  <2>2. ~ AppendMessage(b, h)
    BY <2>1 DEF IsHistory, AppendMessage
  <2>3. CASE h \in ToSet(inbox[b]) /\ (RenderHistory(b, h) \/ PrependHistory(b, h))
    BY <1>5, <2>1, <2>3, FirstPage
  <2> QED
    BY <1>1, <1>5, <2>1, <2>2, <2>3, ItemStays
<1> QED
  BY <1>2, <1>3, <1>4, <1>5 DEF WillCome

LEMMA MissedNext ==
  ASSUME TypeOK, TypeOK', ItemsInOrder, AskedInOrder, StaySubscribed, AnswersGrow, OneOvertaken,
         FirstComesFirst, NothingMissed, [Next]_vars
  PROVE  NothingMissed'
<1> SUFFICES ASSUME NEW b \in Browsers, current'[b] # None, "missed" \notin excuse'[b],
                    NEW m \in Messages, place'[m] = current'[b]
             PROVE  WillCome(b, m)' \/ m \in ToSet(shown'[b]) \/ Reachable(b, m)'
  BY DEF NothingMissed, Good
<1>1. ASSUME NEW ch \in Channels, SelectChannel(b, ch) PROVE WillCome(b, m)'
  <2>1. HistoryOf(ch, None) \in ToSet(asked'[b]) /\ current'[b] = ch
    BY <1>1, SelectAsks, SelectShows
  <2> QED
    BY <2>1 DEF WillCome
<1>2. CASE m \in fresh'
  BY <1>2 DEF WillCome
<1>3. CASE /\ current'[b] = current[b] /\ excuse[b] \subseteq excuse'[b]
           /\ ~ \E ch \in Channels : SelectChannel(b, ch)
           /\ place'[m] = place[m]
  <2>1. Good(b) /\ place[m] = current[b]
    BY <1>3 DEF Good
  <2>2. CASE WillCome(b, m)
    BY <1>3, <2>1, <2>2, ComesNext
  <2>3. ASSUME NEW h \in ToSet(inbox[b]), RenderHistory(b, h) \/ PrependHistory(b, h),
               m \in ToSet(shown[b]) \/ Reachable(b, m)
        PROVE  m \in ToSet(shown'[b]) \/ Reachable(b, m)'
    BY <2>1, <2>3, FirstPage
  <2>4. ASSUME NEW x \in ToSet(inbox[b]), AppendMessage(b, x)
        PROVE  /\ oldest'[b] = oldest[b] /\ more'[b] = more[b]
               /\ m \in ToSet(shown[b]) => m \in ToSet(shown'[b])
    <3>1. Receive(b, x) /\ IsMessage(x) /\ oldest' = oldest /\ more' = more
      BY <2>4 DEF AppendMessage, IsMessage
    <3>2. x.id \in Stored
      <4>1. x \in Item /\ x \in ToSet(Coming(b))
        BY <3>1, ReceiveFirst
      <4>2. x.id \in Messages
        BY <3>1, <4>1, ItemTypes
      <4> QED
        BY <3>1, <4>1, <4>2 DEF ItemsInOrder, Stored
    <3>3. shown'[b] = shown[b] \/ shown'[b] = Append(shown[b], x.id)
      BY <2>4 DEF AppendMessage, TypeOK
    <3>4. ToSet(Append(shown[b], x.id)) = ToSet(shown[b]) \cup {x.id}
      BY <3>2, ShownMore
    <3> QED
      BY <3>1, <3>3, <3>4
  <2>5. CASE m \in ToSet(shown[b])
    BY <1>3, <2>3, <2>4, <2>5, Shows
  <2>6. CASE Reachable(b, m)
    <3>1. LoadMoreMessages(b) => m < oldest[b]
      BY <2>6 DEF Reachable, Older
    <3>2. Findable(b, m)'
      BY <1>3, <2>1, <2>6, <3>1, FindableNext DEF Reachable
    <3>3. Older(b, m)' \/ \E h \in ToSet(inbox[b]) : RenderHistory(b, h) \/ PrependHistory(b, h)
      BY <1>3, <2>4, <2>6, Shows DEF Reachable, Older
    <3> QED
      BY <2>3, <2>6, <3>2, <3>3 DEF Reachable
  <2> QED
    BY <2>1, <2>2, <2>5, <2>6 DEF NothingMissed
<1> QED
  BY <1>1, <1>2, <1>3, PlaceNext, Shows

-----------------------------------------------------------------------------
(* The theorems.                                                           *)

LEMMA AskedInit == Init => AskedInOrder
<1> SUFFICES ASSUME Init PROVE AskedInOrder
  OBVIOUS
<1>1. \A b \in Browsers : asked[b] = <<>>
  BY DEF Init
<1> QED
  BY <1>1 DEF AskedInOrder, AskedOf

\* The parts together.
LEMMA InductiveInit == Init => IInv
BY TypeInit, ItemsInit, AskedInit, StayInit, GrowInit, FirstInit, MissedInit,
   AwaitedInit, BroadcastInit, OnceInit DEF IInv

LEMMA InductiveNext == IInv /\ [Next]_vars => IInv'
<1> SUFFICES ASSUME IInv, [Next]_vars PROVE IInv'
  OBVIOUS
<1> USE DEF IInv
<1>1. TypeOK'
  BY TypeNext
<1>2. ItemsInOrder' /\ AskedInOrder'
  BY <1>1, ItemsNext, AskedNext
<1>3. StaySubscribed' /\ AnswersGrow' /\ OneOvertaken' /\ FirstComesFirst'
  BY <1>1, StayNext, GrowNext, OvertakenNext, FirstNext
<1>4. NothingMissed'
  BY <1>1, MissedNext
<1>5. OneAwaited' /\ BroadcastOnce'
  BY <1>1, AwaitedNext, BroadcastNext
<1>6. ComesOnce' /\ MessagesShownOnce'
  BY <1>1, OnceNext
<1> QED
  BY <1>1, <1>2, <1>3, <1>4, <1>5, <1>6

LEMMA Inductive == Spec => []IInv
<1>1. Init => IInv
  BY InductiveInit
<1>2. IInv /\ [Next]_vars => IInv'
  BY InductiveNext
<1> QED
  BY <1>1, <1>2, PTL DEF Spec

\* The state of the server, of the queues and of every page has its type: in
\* particular a button for older messages always has a message to go on from,
\* and a page shows messages that are stored (selectChannel and
\* prependHistory, index.html 556-624).
THEOREM PagesTypes == Spec => []TypeOK
<1>1. IInv => TypeOK
  BY DEF IInv
<1> QED
  BY <1>1, Inductive, PTL

\* A page that waits for nothing shows every message of its channel that was
\* broadcast, down to where its button goes on, unless one of the exceptions
\* PagesMissNothing names happened to it since the channel was selected: for
\* any number of pages that share the connection, of requests under way and of
\* faults, and any length of a page of history (selectChannel, handleMessage,
\* renderHistory and prependHistory, index.html 463-624).
THEOREM NothingIsMissed == Spec => []PagesMissNothing
<1>1. IInv => PagesMissNothing
  <2> SUFFICES ASSUME IInv, NEW b \in Browsers, Quiet(b), current[b] # None,
                      "missed" \notin excuse[b],
                      NEW m \in Messages \ fresh, place[m] = current[b]
               PROVE  m \in ToSet(shown[b]) \/ (more[b] /\ oldest[b] # None /\ m < oldest[b])
    BY DEF PagesMissNothing
  <2>1. WillCome(b, m) \/ m \in ToSet(shown[b]) \/ Reachable(b, m)
    BY DEF IInv, NothingMissed, Good
  <2>2. ToSet(asked[b]) = {} /\ ToSet(inbox[b]) = {}
    BY DEF Quiet, ToSet
  <2>3. \A x \in ToSet(Coming(b)) : page # None /\ x = page
    <3>1. CASE page = None
      BY <2>2, <3>1 DEF Coming
    <3>2. CASE page # None
      <4>1. inbox[b] \in Seq(Item) /\ page \in Item
        BY <3>2, QueueTypes DEF IInv, Item
      <4>2. ToSet(Append(inbox[b], page)) = ToSet(inbox[b]) \cup {page}
        BY <4>1, PlacesAppend
      <4> QED
        BY <2>2, <3>2, <4>2 DEF Coming
    <3> QED
      BY <3>1, <3>2
  <2>4. page # None => IsHistory(page) /\ page.by # b
    BY QueueTypes DEF IInv, Quiet, History, IsHistory
  <2>5. ~ WillCome(b, m)
    BY <2>2, <2>3, <2>4 DEF WillCome, IsOwn, IsHistory
  <2> QED
    BY <2>1, <2>5 DEF Reachable, Older
<1> QED
  BY <1>1, Inductive, PTL

\* No message is on a page twice, unless one of the exceptions that
\* MessagesShownOnce names happened to the page (handleMessage, index.html
\* 463-476, and prependHistory, 600-624).
THEOREM NothingTwice == Spec => []MessagesShownOnce
<1>1. IInv => MessagesShownOnce
  BY DEF IInv
<1> QED
  BY <1>1, Inductive, PTL

-----------------------------------------------------------------------------
(* What a page asks from.                                                  *)

\* A page that shows a channel shows the message it would ask from.
OldestIsShown ==
  \A b \in Browsers :
    current[b] # None /\ oldest[b] # None => oldest[b] \in ToSet(shown[b])

LEMMA OldestShownInit == Init => OldestIsShown
BY DEF Init, OldestIsShown

LEMMA OldestShownNext ==
  ASSUME TypeOK, TypeOK', ItemsInOrder, OldestIsShown, [Next]_vars
  PROVE  OldestIsShown'
<1> SUFFICES ASSUME NEW b \in Browsers, current'[b] # None, oldest'[b] # None
             PROVE  oldest'[b] \in ToSet(shown'[b])
  BY DEF OldestIsShown
<1>1. ASSUME NEW ch \in Channels, SelectChannel(b, ch) PROVE FALSE
  BY <1>1, SelectShows
<1>2. /\ current'[b] = current[b]
      /\ \/ oldest'[b] = oldest[b] /\ shown'[b] = shown[b]
         \/ \E x \in ToSet(inbox[b]) :
              AppendMessage(b, x) \/ RenderHistory(b, x) \/ PrependHistory(b, x)
  BY <1>1, Shows
<1>3. oldest[b] # None => oldest[b] \in ToSet(shown[b])
  BY <1>2 DEF OldestIsShown
<1>4. ASSUME NEW x \in ToSet(inbox[b]), AppendMessage(b, x)
      PROVE  oldest'[b] \in ToSet(shown'[b])
  <2>1. Receive(b, x) /\ IsMessage(x) /\ oldest'[b] = oldest[b]
    BY <1>4 DEF AppendMessage, IsMessage
  <2>2. x \in Item /\ x \in ToSet(Coming(b))
    BY <2>1, ReceiveFirst
  <2>3. x.id \in Stored
    <3>1. x.id \in Messages
      BY <2>1, <2>2, ItemTypes
    <3> QED
      BY <2>1, <2>2, <3>1 DEF ItemsInOrder, Stored
  <2>4. shown'[b] = shown[b] \/ shown'[b] = Append(shown[b], x.id)
    BY <1>4 DEF AppendMessage, TypeOK
  <2>5. ToSet(Append(shown[b], x.id)) = ToSet(shown[b]) \cup {x.id}
    BY <2>3, ShownMore
  <2> QED
    BY <1>3, <2>1, <2>4, <2>5
<1>5. ASSUME NEW h \in ToSet(inbox[b]), RenderHistory(b, h) \/ PrependHistory(b, h)
      PROVE  oldest'[b] \in ToSet(shown'[b])
  <2>1. Receive(b, h) /\ IsHistory(h)
    BY <1>5 DEF RenderHistory, PrependHistory, IsHistory
  <2>2. /\ h.ids \in SUBSET Nat /\ IsFiniteSet(h.ids) /\ h.ids \subseteq Stored
        /\ Sorted(h.ids) \in Seq(h.ids) /\ ToSet(Sorted(h.ids)) = h.ids
        /\ h.ids # {} => Head(Sorted(h.ids)) \in h.ids
    BY <2>1, ReceiveFirst, AnswerFacts, SortedPage
  <2>3. Sorted(h.ids) \in Seq(Stored)
    BY <2>2
  <2>4. ToSet(Sorted(h.ids) \o shown[b]) = h.ids \cup ToSet(shown[b])
    BY <2>2, <2>3, ShownMore
  <2>5. CASE RenderHistory(b, h)
    <3>1. shown'[b] = Sorted(h.ids) /\ oldest'[b] = OldestOf(h, None)
      BY <2>5 DEF RenderHistory, TypeOK
    <3> QED
      BY <2>2, <3>1 DEF OldestOf
  <2>6. CASE PrependHistory(b, h)
    <3>1. /\ shown'[b] = Sorted(h.ids) \o shown[b] /\ oldest'[b] = OldestOf(h, oldest[b])
          /\ oldest[b] # None
      BY <2>6 DEF PrependHistory, TypeOK
    <3> QED
      BY <1>3, <2>2, <2>4, <3>1 DEF OldestOf
  <2> QED
    BY <1>5, <2>5, <2>6
<1> QED
  BY <1>2, <1>3, <1>4, <1>5

\* What a page would ask from is the oldest message it shows, unless one of
\* the exceptions of MessagesShownOnce happened to it: nothing it shows comes
\* again with the next page (loadMoreMessages, index.html 596-608).
THEOREM OlderPagesFollow == Spec => []AsksBeforeTheOldest
<1>1. IInv /\ OldestIsShown /\ [Next]_vars => OldestIsShown'
  <2> SUFFICES ASSUME IInv, OldestIsShown, [Next]_vars PROVE OldestIsShown'
    OBVIOUS
  <2>1. TypeOK'
    BY InductiveNext DEF IInv
  <2> QED
    BY <2>1, OldestShownNext DEF IInv
<1>2. IInv /\ OldestIsShown => AsksBeforeTheOldest
  <2> SUFFICES ASSUME IInv, OldestIsShown, NEW b \in Browsers, Fine(b), oldest[b] # None
               PROVE  oldest[b] \in ToSet(shown[b]) /\ \A m \in ToSet(shown[b]) : oldest[b] <= m
    BY DEF AsksBeforeTheOldest, Fine
  <2>1. oldest[b] \in ToSet(shown[b])
    BY DEF OldestIsShown, Fine
  <2>2. /\ oldest[b] \in Nat
        /\ ToSet(shown[b]) \subseteq Nat
    BY MessagesAssumption, ShownMore DEF IInv, TypeOK, Stored
  <2>3. \A m \in ToSet(shown[b]) : m >= oldest[b]
    BY DEF IInv, ComesOnce, ShownPast
  <2> QED
    BY <2>1, <2>2, <2>3
<1> QED
  BY <1>1, <1>2, OldestShownInit, Inductive, PTL DEF Spec

=============================================================================
