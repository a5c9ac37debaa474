--------------------------- MODULE ClientUIProofs ---------------------------
(***************************************************************************)
(* Proofs about ClientUI, for any number of browsers, any capacity of the  *)
(* queue and any number of items.                                          *)
(***************************************************************************)
EXTENDS ClientUI, Integers, TLAPS

-----------------------------------------------------------------------------
\* The loop and the handlers write only when they have something to write.
LoopInOrder ==
  /\ loop # "deliver" => todo = {}
  /\ loop # "wait" => taken > 0
  /\ todo \subseteq uiClients
  /\ \A b \in Browsers :
       /\ "loop" \in writing[b] => b \in todo
       /\ "handler" \in writing[b] => handler[b] \in Writes

\* Before it registers and after it was forgotten a browser is not in the map;
\* in between it is, unless its socket has failed.  What it has received is
\* followed while the socket is open.
Outside == {"none", "register", "closing", "gone"}

MapInOrder ==
  \A b \in Browsers :
    /\ handler[b] \in Outside => b \notin uiClients
    /\ handler[b] \notin Outside /\ sock[b] = "open" => b \in uiClients
    /\ handler[b] \in {"none", "register"} \/ sock[b] # "open" => got[b] = <<>>
    /\ handler[b] = "none" <=> sock[b] = "none"

\* The last item a browser received is the last the loop is done with.
FeedInOrder ==
  \A b \in uiClients :
    sock[b] = "open" /\ got[b] # <<>> => got[b][Len(got[b])] = DoneWith(b)

\* Nothing in the queue is newer than what the server has told.
LogInOrder == \A p \in 1..Len(log) : log[p] <= version

\* A browser that was sent its state is sent what is newer.
StateRead == {"states", "reading", "rlock", "lookup", "calling", "error"}

Has(b, p) == \E i \in 1..Len(got[b]) : got[b][i] = p

StateFollowed ==
  \A b \in Browsers :
    handler[b] \in StateRead /\ sock[b] = "open" =>
      \A p \in 1..DoneWith(b) : log[p] > snap[b] => Has(b, p)

IInv ==
  /\ TypeOK
  /\ LoopInOrder
  /\ MapInOrder
  /\ FeedInOrder
  /\ ItemsWithoutGaps
  /\ LogInOrder
  /\ StateFollowed

-----------------------------------------------------------------------------
LEMMA InitialState == Init => IInv
<1> SUFFICES ASSUME Init PROVE IInv
  OBVIOUS
<1>1. TypeOK
  <2>1. log \in Seq(0..MaxVersion) /\ Len(log) = 0
    BY DEF Init
  <2>2. got \in [Browsers -> Seq(Nat)]
    BY DEF Init
  <2>3. "none" \in HandlerStates
    BY DEF HandlerStates
  <2>4. taken \in 0..Len(log) /\ Len(log) - taken <= QueueCap
    BY <2>1, BoundsAssumption DEF Init
  <2>5. /\ handler \in [Browsers -> HandlerStates]
        /\ writing \in [Browsers -> SUBSET {"loop", "handler"}]
        /\ sock \in [Browsers -> {"none", "open", "mixed", "gone", "closed"}]
        /\ snap \in [Browsers -> 0..MaxVersion]
        /\ shown \in [Browsers -> 0..MaxVersion]
    BY <2>3, BoundsAssumption DEF Init
  <2>6. /\ uiClients \in SUBSET Browsers /\ todo \in SUBSET Browsers
        /\ loop \in {"wait", "lock", "deliver"} /\ source \in {"reading", "push", "gone"}
        /\ fault \in {"none", "concurrent_write", "map_race"}
    BY DEF Init
  <2>7. version \in 0..MaxVersion
    BY BoundsAssumption DEF Init
  <2>8. dropped \in BOOLEAN
    BY DEF Init
  <2> QED
    BY <2>1, <2>2, <2>4, <2>5, <2>6, <2>7, <2>8 DEF TypeOK
<1>2. LoopInOrder /\ MapInOrder /\ FeedInOrder
  BY DEF Init, LoopInOrder, MapInOrder, FeedInOrder, Outside
<1>3. ItemsWithoutGaps /\ LogInOrder
  BY DEF Init, ItemsWithoutGaps, LogInOrder
<1>4. StateFollowed
  BY DEF Init, StateFollowed, StateRead
<1> QED
  BY <1>1, <1>2, <1>3, <1>4 DEF IInv

LEMMA OfferAppends ==
  ASSUME TypeOK, NEW item \in 0..MaxVersion, Offer(item)
  PROVE  /\ log' \in Seq(0..MaxVersion)
         /\ UNCHANGED taken
         /\ taken' \in 0..Len(log') /\ Len(log') - taken' <= QueueCap
         /\ dropped' \in BOOLEAN
         /\ Len(log) <= Len(log')
         /\ \A p \in 1..Len(log) : log'[p] = log[p]
         /\ \A p \in 1..Len(log') : p \notin 1..Len(log) => log'[p] = item
<1> USE BoundsAssumption DEF TypeOK
<1>1. CASE UNCHANGED <<log, taken>> /\ dropped' \in BOOLEAN
  BY <1>1
<1>2. CASE log' = Append(log, item) /\ Len(log) - taken < QueueCap
  <2>1. /\ log' \in Seq(0..MaxVersion)
        /\ Len(log') = Len(log) + 1
        /\ \A p \in 1..Len(log) : log'[p] = log[p]
        /\ log'[Len(log) + 1] = item
    BY <1>2
  <2>2. UNCHANGED <<taken, dropped>>
    BY <1>2 DEF Offer
  <2> QED
    BY <1>2, <2>1, <2>2
<1> QED
  BY <1>1, <1>2 DEF Offer

\* Whoever writes is the loop or a handler.
Writers == SUBSET {"loop", "handler"}

LEMMA WritersTyped ==
  ASSUME NEW f \in [Browsers -> Writers], NEW b \in Browsers, NEW w \in Writers
  PROVE  [f EXCEPT ![b] = w] \in [Browsers -> Writers]
OBVIOUS

\* A browser that is not followed any more has received nothing.
LEMMA LoseTyped ==
  ASSUME TypeOK, NEW b \in Browsers, NEW how \in {"mixed", "gone", "closed"}, Lose(b, how)
  PROVE  /\ sock' \in [Browsers -> {"none", "open", "mixed", "gone", "closed"}]
         /\ snap' \in [Browsers -> 0..MaxVersion]
         /\ shown' \in [Browsers -> 0..MaxVersion]
         /\ got' \in [Browsers -> Seq(Nat)]
<1>1. 0 \in 0..MaxVersion
  BY BoundsAssumption
<1>2. <<>> \in Seq(Nat)
  OBVIOUS
<1> QED
  BY <1>1, <1>2 DEF TypeOK, Lose

LEMMA TypeNext == TypeOK /\ LoopInOrder /\ [Next]_vars => TypeOK'
<1> SUFFICES ASSUME TypeOK, LoopInOrder, [Next]_vars PROVE TypeOK'
  OBVIOUS
<1> USE BoundsAssumption
    DEF TypeOK, HandlerStates, Writes, InitialWrites, queueVars, loopVars, viewVars,
        handlerVars, sourceVars, restVars
<1>1. CASE Told \/ Disconnect
  BY <1>1 DEF Told, Disconnect
<1>2. CASE PushUpdate
  BY <1>2, OfferAppends DEF PushUpdate
<1>3. CASE Take \/ Lock
  BY <1>3 DEF Take, Lock
<1>4. CASE EndDelivery
  BY <1>4 DEF EndDelivery
<1>5. ASSUME NEW b \in Browsers, Accept(b) PROVE TypeOK'
  BY <1>5 DEF Accept, Move
<1>6. ASSUME NEW b \in Browsers, Register(b) PROVE TypeOK'
  BY <1>6 DEF Register, Move
<1>7. ASSUME NEW b \in Browsers, ReadState(b) PROVE TypeOK'
  BY <1>7 DEF ReadState, Move
<1>8. ASSUME NEW b \in Browsers, BeginAnswer(b) \/ BeginWrite(b) PROVE TypeOK'
  <2>1. PICK who \in {"loop", "handler"} : Begin(b, who)
    BY <1>8 DEF BeginAnswer, BeginWrite
  <2>2. writing' \in [Browsers -> SUBSET {"loop", "handler"}]
    <3>1. writing \in [Browsers -> Writers] /\ writing[b] \cup {who} \in Writers
      BY DEF Writers
    <3>2. writing' = [writing EXCEPT ![b] = writing[b] \cup {who}]
      BY <2>1 DEF Begin
    <3> QED
      BY <3>1, <3>2, WritersTyped DEF Writers
  <2>4. UNCHANGED <<restVars, uiClients, handler>>
    BY <2>1 DEF Begin
  <2>3. UNCHANGED <<sock, viewVars>> \/ Lose(b, "mixed")
    BY <2>1 DEF Begin
  <2> QED
    BY <2>2, <2>3, <2>4, LoseTyped
<1>13. ASSUME NEW b \in Browsers, Overlap(b) PROVE TypeOK'
  <2>1. CASE Crash("concurrent_write")
    BY <2>1 DEF Crash
  <2>2. CASE ~ Crash("concurrent_write")
    <3>1. writing' = [writing EXCEPT ![b] = {"loop"}] /\ handler' = [handler EXCEPT ![b] = "panicked"]
      BY <1>13, <2>2 DEF Overlap, Move
    <3>2. writing' \in [Browsers -> SUBSET {"loop", "handler"}]
      BY <3>1
    <3>3. UNCHANGED <<restVars, uiClients, sock, viewVars>>
      BY <1>13, <2>2 DEF Overlap
    <3> QED
      BY <3>1, <3>2, <3>3
  <2> QED
    BY <2>1, <2>2
<1>9. ASSUME NEW b \in Browsers, EndAnswer(b) PROVE TypeOK'
  <2>1. handler[b] \in Writes
    BY <1>9 DEF EndAnswer, LoopInOrder
  <2> QED
    BY <1>9, <2>1 DEF EndAnswer, Move, After
<1>10. ASSUME NEW b \in Browsers, Request(b) \/ Lookup(b) \/ EndLookup(b) \/ ReadFails(b)
       PROVE  TypeOK'
  BY <1>10 DEF Request, Lookup, EndLookup, ReadFails, Move
<1>11. ASSUME NEW b \in Browsers, Return(b) PROVE TypeOK'
  <2>1. CASE UNCHANGED queueVars
    BY <1>11, <2>1 DEF Return, Move
  <2>2. CASE Offer(0)
    <3>1. /\ log' \in Seq(0..MaxVersion)
          /\ taken' \in 0..Len(log') /\ Len(log') - taken' <= QueueCap
          /\ dropped' \in BOOLEAN
      <4>1. 0 \in 0..MaxVersion
        OBVIOUS
      <4> HIDE DEF TypeOK
      <4> QED
        BY <2>2, <4>1, OfferAppends
    <3> QED
      BY <1>11, <3>1 DEF Return, Move
  <2> QED
    BY <1>11, <2>1, <2>2 DEF Return
<1>12. ASSUME NEW b \in Browsers, Forget(b) \/ Close(b) \/ PeerLeaves(b) PROVE TypeOK'
  <2>1. CASE Forget(b)
    BY <2>1 DEF Forget, Move
  <2>2. CASE Close(b)
    <3>1. Lose(b, "closed") /\ handler' = [handler EXCEPT ![b] = "gone"]
      BY <2>2 DEF Close, Move
    <3>2. UNCHANGED <<restVars, uiClients, writing>>
      BY <2>2 DEF Close
    <3> QED
      BY <3>1, <3>2, LoseTyped
  <2>3. CASE PeerLeaves(b)
    <3>1. Lose(b, "gone") /\ UNCHANGED <<restVars, uiClients, handler, writing>>
      BY <2>3 DEF PeerLeaves
    <3> QED
      BY <3>1, LoseTyped
  <2> QED
    BY <1>12, <2>1, <2>2, <2>3
<1>14. ASSUME NEW b \in Browsers, EndWrite(b) PROVE TypeOK'
  <2>1. taken \in 1..Len(log)
    BY <1>14 DEF EndWrite, LoopInOrder
  <2>2. log[taken] \in 0..MaxVersion
    BY <2>1
  <2>3. got' \in [Browsers -> Seq(Nat)] /\ shown' \in [Browsers -> 0..MaxVersion]
    <3>1. CASE sock[b] = "open"
      <4>1. Append(got[b], taken) \in Seq(Nat)
        BY <2>1
      <4>2. got' = [got EXCEPT ![b] = Append(@, taken)]
        BY <1>14, <3>1 DEF EndWrite
      <4>3. shown' = shown \/ shown' = [shown EXCEPT ![b] = log[taken]]
        BY <1>14, <3>1 DEF EndWrite
      <4> QED
        BY <2>2, <4>1, <4>2, <4>3
    <3>2. CASE sock[b] # "open"
      BY <1>14, <3>2 DEF EndWrite
    <3> QED
      BY <3>1, <3>2
  <2>4. writing' \in [Browsers -> SUBSET {"loop", "handler"}] /\ todo' \in SUBSET Browsers
    BY <1>14 DEF EndWrite
  <2>5. UNCHANGED <<queueVars, loop, uiClients, handler, sock, snap, sourceVars, fault>>
    BY <1>14 DEF EndWrite
  <2> QED
    BY <2>3, <2>4, <2>5
<1>15. ASSUME NEW b \in Browsers, FailWrite(b) PROVE TypeOK'
  <2>1. CASE Crash("map_race")
    BY <2>1 DEF Crash
  <2>2. CASE ~ Crash("map_race")
    <3>1. writing' \in [Browsers -> SUBSET {"loop", "handler"}]
      <4>1. writing \in [Browsers -> Writers] /\ writing[b] \ {"loop"} \in Writers
        BY DEF Writers
      <4>2. writing' = [writing EXCEPT ![b] = writing[b] \ {"loop"}]
        BY <1>15, <2>2 DEF FailWrite
      <4> QED
        BY <4>1, <4>2, WritersTyped DEF Writers
    <3>2. /\ sock' \in [Browsers -> {"none", "open", "mixed", "gone", "closed"}]
          /\ uiClients' \in SUBSET Browsers /\ todo' \in SUBSET Browsers
      BY <1>15, <2>2 DEF FailWrite
    <3>3. UNCHANGED <<queueVars, loop, handler, viewVars, sourceVars, fault>>
      BY <1>15, <2>2 DEF FailWrite
    <3> QED
      BY <3>1, <3>2, <3>3
  <2> QED
    BY <2>1, <2>2
<1>16. CASE UNCHANGED vars
  BY <1>16 DEF vars
<1> QED
  BY <1>1, <1>2, <1>3, <1>4, <1>5, <1>6, <1>7, <1>8, <1>9, <1>10, <1>11, <1>12, <1>13,
     <1>14, <1>15, <1>16
     DEF Next, Starting, Serving, Leaving, Writing

LEMMA LoopNext == TypeOK /\ LoopInOrder /\ [Next]_vars => LoopInOrder'
<1> SUFFICES ASSUME TypeOK, LoopInOrder, [Next]_vars PROVE LoopInOrder'
  OBVIOUS
<1>a. /\ handler \in [Browsers -> HandlerStates]
      /\ writing \in [Browsers -> SUBSET {"loop", "handler"}]
      /\ taken \in Nat
      /\ todo \in SUBSET Browsers
  BY DEF TypeOK
<1> USE <1>a
    DEF LoopInOrder, Writes, InitialWrites, queueVars, loopVars, viewVars, handlerVars,
        sourceVars, restVars
<1>1. CASE Told \/ PushUpdate \/ Disconnect \/ EndDelivery
  BY <1>1 DEF Told, PushUpdate, Disconnect, Offer, EndDelivery
<1>2. CASE Take \/ Lock
  BY <1>2 DEF Take, Lock
<1>3. ASSUME NEW b \in Browsers, Accept(b) \/ Register(b) \/ ReadState(b) PROVE LoopInOrder'
  BY <1>3 DEF Accept, Register, ReadState, CanLock, Move
<1>4. ASSUME NEW b \in Browsers, BeginAnswer(b) \/ BeginWrite(b) PROVE LoopInOrder'
  BY <1>4 DEF BeginAnswer, BeginWrite, Begin
<1>5. ASSUME NEW b \in Browsers, EndAnswer(b) PROVE LoopInOrder'
  BY <1>5 DEF EndAnswer, Move
<1>6. ASSUME NEW b \in Browsers, Request(b) \/ Lookup(b) \/ EndLookup(b) \/ ReadFails(b)
      PROVE  LoopInOrder'
  BY <1>6 DEF Request, Lookup, EndLookup, ReadFails, Move
<1>7. ASSUME NEW b \in Browsers, Return(b) PROVE LoopInOrder'
  BY <1>7 DEF Return, Move, Offer
<1>8. ASSUME NEW b \in Browsers, Forget(b) \/ Close(b) \/ PeerLeaves(b) PROVE LoopInOrder'
  BY <1>8 DEF Forget, Close, PeerLeaves, Lose, CanLock, Move
<1>9. ASSUME NEW b \in Browsers, Overlap(b) PROVE LoopInOrder'
  BY <1>9 DEF Overlap, Move, Crash
<1>10. ASSUME NEW b \in Browsers, EndWrite(b) \/ FailWrite(b) PROVE LoopInOrder'
  BY <1>10 DEF EndWrite, FailWrite, Crash
<1>11. CASE UNCHANGED vars
  BY <1>11 DEF vars
<1> QED
  BY <1>1, <1>2, <1>3, <1>4, <1>5, <1>6, <1>7, <1>8, <1>9, <1>10, <1>11
     DEF Next, Starting, Serving, Leaving, Writing

LEMMA MapNext == TypeOK /\ LoopInOrder /\ MapInOrder /\ [Next]_vars => MapInOrder'
<1> SUFFICES ASSUME TypeOK, LoopInOrder, MapInOrder, [Next]_vars PROVE MapInOrder'
  OBVIOUS
<1>a. /\ DOMAIN handler = Browsers
      /\ DOMAIN got = Browsers
      /\ sock \in [Browsers -> {"none", "open", "mixed", "gone", "closed"}]
      /\ uiClients \in SUBSET Browsers
      /\ \A b \in Browsers : "handler" \in writing[b] => handler[b] \in Writes
      /\ \A b \in Browsers : "loop" \in writing[b] => b \in uiClients
  BY DEF TypeOK, LoopInOrder
<1> USE <1>a
    DEF MapInOrder, Outside, Writes, InitialWrites, queueVars, loopVars, viewVars,
        handlerVars, sourceVars, restVars
<1>1. CASE Told \/ PushUpdate \/ Disconnect \/ EndDelivery \/ Take \/ Lock
  BY <1>1 DEF Told, PushUpdate, Disconnect, Offer, EndDelivery, Take, Lock
<1>2. ASSUME NEW b \in Browsers, Accept(b) \/ Register(b) \/ ReadState(b) PROVE MapInOrder'
  BY <1>2 DEF Accept, Register, ReadState, Move
<1>3. ASSUME NEW b \in Browsers, BeginAnswer(b) \/ BeginWrite(b) PROVE MapInOrder'
  BY <1>3 DEF BeginAnswer, BeginWrite, Begin, Lose
<1>4. ASSUME NEW b \in Browsers, EndAnswer(b) PROVE MapInOrder'
  BY <1>4 DEF EndAnswer, After, Move
<1>5. ASSUME NEW b \in Browsers, Request(b) \/ Lookup(b) \/ EndLookup(b) \/ ReadFails(b)
      PROVE  MapInOrder'
  BY <1>5 DEF Request, Lookup, EndLookup, ReadFails, Move
<1>6. ASSUME NEW b \in Browsers, Return(b) PROVE MapInOrder'
  BY <1>6 DEF Return, Move
<1>7. ASSUME NEW b \in Browsers, Forget(b) \/ Close(b) \/ PeerLeaves(b) PROVE MapInOrder'
  BY <1>7 DEF Forget, Close, PeerLeaves, Lose, Move
<1>8. ASSUME NEW b \in Browsers, Overlap(b) PROVE MapInOrder'
  BY <1>8 DEF Overlap, Move, Crash
<1>9. ASSUME NEW b \in Browsers, EndWrite(b) PROVE MapInOrder'
  <2>1. b \in uiClients /\ handler[b] \notin Outside
    BY <1>9 DEF EndWrite
  <2> QED
    BY <1>9, <2>1 DEF EndWrite
<1>10. ASSUME NEW b \in Browsers, FailWrite(b) PROVE MapInOrder'
  BY <1>10 DEF FailWrite, Crash
<1>11. CASE UNCHANGED vars
  BY <1>11 DEF vars
<1> QED
  BY <1>1, <1>2, <1>3, <1>4, <1>5, <1>6, <1>7, <1>8, <1>9, <1>10, <1>11
     DEF Next, Starting, Serving, Leaving, Writing

\* What a step does to what b received and to how far the loop is with it.
Keeps(b) ==
  /\ got'[b] = got[b]
  /\ sock'[b] = "open" /\ b \in uiClients' /\ got[b] # <<>> =>
       b \in uiClients /\ sock[b] = "open"
  /\ sock'[b] = "open" /\ sock[b] = "open" /\ b \in uiClients => DoneWith(b)' = DoneWith(b)

Loses(b) == got'[b] = <<>> /\ sock'[b] # "open"

Gets(b) ==
  /\ got'[b] = Append(got[b], taken)
  /\ b \in uiClients /\ sock[b] = "open"
  /\ DoneWith(b) = taken - 1
  /\ DoneWith(b)' = taken

LEMMA Received ==
  ASSUME TypeOK, LoopInOrder, MapInOrder, [Next]_vars, NEW b \in Browsers
  PROVE  Keeps(b) \/ Gets(b) \/ Loses(b)
<1>a. /\ DOMAIN got = Browsers
      /\ sock \in [Browsers -> {"none", "open", "mixed", "gone", "closed"}]
      /\ taken \in Nat
      /\ loop # "deliver" => todo = {}
      /\ b \in todo => b \in uiClients
      /\ "loop" \in writing[b] => b \in todo
      /\ handler[b] \in {"none", "register"} => b \notin uiClients /\ got[b] = <<>>
  BY DEF TypeOK, LoopInOrder, MapInOrder, Outside
<1>b. ASSUME UNCHANGED <<got, sock>>, Begun' = Begun, b \in todo => taken' = taken,
             b \in uiClients' => b \in uiClients,
             b \in uiClients => (b \in todo' <=> b \in todo)
      PROVE  Keeps(b)
  BY <1>b DEF Keeps, DoneWith
<1>c. taken' = taken /\ loop' = loop => Begun' = Begun
  BY DEF Begun
<1>d. ASSUME UNCHANGED <<taken, loop, todo, uiClients>>, got'[b] = got[b], sock'[b] = sock[b]
      PROVE  Keeps(b)
  BY <1>c, <1>d DEF Keeps, DoneWith
<1>e. ASSUME NEW o \in Browsers, NEW how \in {"mixed", "gone", "closed"}, Lose(o, how),
             UNCHANGED <<taken, loop, todo, uiClients>>
      PROVE  Keeps(b) \/ Loses(b)
  <2>1. CASE o = b
    BY <1>a, <1>e, <2>1 DEF Lose, Loses
  <2>2. CASE o # b
    BY <1>a, <1>d, <1>e, <2>2 DEF Lose
  <2> QED
    BY <2>1, <2>2
<1> USE DEF queueVars, loopVars, viewVars, handlerVars, sourceVars, restVars
<1>1. CASE Told \/ PushUpdate \/ Disconnect \/ EndDelivery
  BY <1>1, <1>b DEF Told, PushUpdate, Disconnect, Offer, EndDelivery, Begun
<1>2. CASE Take
  BY <1>a, <1>2, <1>b DEF Take, Begun
<1>13. CASE Lock
  BY <1>a, <1>13 DEF Lock, Keeps, DoneWith, Begun
<1>3. ASSUME NEW o \in Browsers, Accept(o) PROVE Keeps(b)
  BY <1>a, <1>3 DEF Accept, Keeps, DoneWith, Begun
<1>4. ASSUME NEW o \in Browsers, Register(o) PROVE Keeps(b)
  <2>1. CASE o = b
    BY <1>a, <1>4, <2>1 DEF Register, Keeps, DoneWith, Begun
  <2>2. CASE o # b
    BY <1>4, <1>b, <1>c, <2>2 DEF Register
  <2> QED
    BY <2>1, <2>2
<1>5. ASSUME NEW o \in Browsers, ReadState(o) \/ EndAnswer(o) \/ Overlap(o) PROVE Keeps(b)
  BY <1>5, <1>b, <1>c DEF ReadState, EndAnswer, Overlap, Crash
<1>6. ASSUME NEW o \in Browsers, Request(o) \/ Lookup(o) \/ EndLookup(o) \/ ReadFails(o) \/ Return(o)
      PROVE  Keeps(b)
  BY <1>6, <1>b, <1>c DEF Request, Lookup, EndLookup, ReadFails, Return, Offer
<1>7. ASSUME NEW o \in Browsers, Forget(o) PROVE Keeps(b)
  BY <1>7, <1>b, <1>c DEF Forget
<1>8. ASSUME NEW o \in Browsers, Close(o) \/ PeerLeaves(o) PROVE Keeps(b) \/ Loses(b)
  BY <1>e, <1>8 DEF Close, PeerLeaves
<1>9. ASSUME NEW o \in Browsers, BeginAnswer(o) \/ BeginWrite(o) PROVE Keeps(b) \/ Loses(b)
  <2>1. CASE Lose(o, "mixed")
    BY <1>e, <1>9, <2>1 DEF BeginAnswer, BeginWrite, Begin
  <2>2. CASE UNCHANGED <<sock, viewVars>>
    BY <1>d, <1>9, <2>2 DEF BeginAnswer, BeginWrite, Begin
  <2> QED
    BY <1>9, <2>1, <2>2 DEF BeginAnswer, BeginWrite, Begin
<1>10. ASSUME NEW o \in Browsers, EndWrite(o) PROVE Keeps(b) \/ Gets(b)
  <2>1. CASE o # b
    BY <1>a, <1>10, <2>1 DEF EndWrite, Keeps, DoneWith, Begun
  <2>2. CASE o = b /\ sock[b] = "open"
    BY <1>a, <1>10, <2>2 DEF EndWrite, Gets, DoneWith, Begun
  <2>3. CASE o = b /\ sock[b] # "open"
    BY <1>a, <1>10, <2>3 DEF EndWrite, Keeps
  <2> QED
    BY <2>1, <2>2, <2>3
<1>11. ASSUME NEW o \in Browsers, FailWrite(o) PROVE Keeps(b)
  <2>1. CASE o # b
    BY <1>a, <1>11, <2>1 DEF FailWrite, Crash, Keeps, DoneWith, Begun
  <2>2. CASE o = b
    BY <1>a, <1>11, <2>2 DEF FailWrite, Crash, Keeps, DoneWith, Begun
  <2> QED
    BY <2>1, <2>2
<1>12. CASE UNCHANGED vars
  BY <1>12, <1>b, <1>c DEF vars
<1> QED
  BY <1>1, <1>2, <1>3, <1>4, <1>5, <1>6, <1>7, <1>8, <1>9, <1>10, <1>11, <1>12, <1>13
     DEF Next, Starting, Serving, Leaving, Writing

LEMMA FeedNext ==
  TypeOK /\ LoopInOrder /\ MapInOrder /\ FeedInOrder /\ [Next]_vars => FeedInOrder'
<1> SUFFICES ASSUME TypeOK, LoopInOrder, MapInOrder, FeedInOrder, [Next]_vars,
                    NEW b \in uiClients', sock'[b] = "open", got'[b] # <<>>
             PROVE  got'[b][Len(got'[b])] = DoneWith(b)'
  BY DEF FeedInOrder
<1>1. b \in Browsers
  BY TypeNext DEF TypeOK
<1>2. CASE Keeps(b)
  BY <1>2 DEF Keeps, FeedInOrder
<1>3. CASE Gets(b)
  BY <1>1, <1>3 DEF Gets, TypeOK
<1> QED
  BY <1>1, <1>2, <1>3, Received DEF Loses

LEMMA GapsNext ==
  TypeOK /\ LoopInOrder /\ MapInOrder /\ FeedInOrder /\ ItemsWithoutGaps /\ [Next]_vars =>
    ItemsWithoutGaps'
<1> SUFFICES ASSUME TypeOK, LoopInOrder, MapInOrder, FeedInOrder, ItemsWithoutGaps, [Next]_vars,
                    NEW b \in Browsers, NEW i \in 1..Len(got'[b]) - 1
             PROVE  got'[b][i + 1] = got'[b][i] + 1
  BY DEF ItemsWithoutGaps
<1>1. got[b] \in Seq(Nat) /\ taken \in Nat
  BY DEF TypeOK
<1>2. CASE Keeps(b)
  BY <1>2 DEF Keeps, ItemsWithoutGaps
<1>3. CASE Gets(b) /\ i < Len(got[b])
  <2>1. i \in 1..Len(got[b]) - 1
    BY <1>1, <1>3
  <2>2. got[b][i + 1] = got[b][i] + 1
    BY <2>1 DEF ItemsWithoutGaps
  <2>3. got'[b][i] = got[b][i] /\ got'[b][i + 1] = got[b][i + 1]
    BY <1>1, <1>3, <2>1 DEF Gets
  <2> QED
    BY <2>2, <2>3
<1>4. CASE Gets(b) /\ i >= Len(got[b])
  <2>1. i = Len(got[b]) /\ got[b] # <<>>
    BY <1>1, <1>4 DEF Gets
  <2>2. got[b][i] = taken - 1
    BY <1>4, <2>1 DEF Gets, FeedInOrder
  <2>3. got'[b][i] = got[b][i] /\ got'[b][i + 1] = taken
    BY <1>1, <1>4, <2>1 DEF Gets
  <2> QED
    BY <1>1, <2>2, <2>3
<1>5. CASE Loses(b)
  BY <1>5 DEF Loses
<1> QED
  BY <1>1, <1>2, <1>3, <1>4, <1>5, Received

\* The queue's history only grows, by items no newer than what was told.
LEMMA LogGrows ==
  ASSUME TypeOK, LogInOrder, [Next]_vars
  PROVE  /\ version <= version'
         /\ Len(log) <= Len(log')
         /\ \A p \in 1..Len(log) : log'[p] = log[p]
         /\ \A p \in 1..Len(log') : log'[p] <= version'
<1> DEFINE Grown == /\ version <= version'
                    /\ Len(log) <= Len(log')
                    /\ \A p \in 1..Len(log) : log'[p] = log[p]
                    /\ \A p \in 1..Len(log') : log'[p] <= version'
<1>a. log \in Seq(0..MaxVersion) /\ version \in 0..MaxVersion /\ MaxVersion \in Nat
  BY BoundsAssumption DEF TypeOK
<1>b. ASSUME UNCHANGED log, version <= version', version' \in Nat PROVE Grown
  BY <1>a, <1>b DEF LogInOrder
<1>c. ASSUME NEW item \in 0..MaxVersion, Offer(item), UNCHANGED version, item <= version
      PROVE  Grown
  <2>1. /\ Len(log) <= Len(log') /\ log' \in Seq(0..MaxVersion)
        /\ \A p \in 1..Len(log) : log'[p] = log[p]
        /\ \A p \in 1..Len(log') : p \notin 1..Len(log) => log'[p] = item
    BY <1>c, OfferAppends
  <2>2. ASSUME NEW p \in 1..Len(log') PROVE log'[p] <= version'
    BY <1>c, <2>1, <2>2 DEF LogInOrder
  <2> QED
    BY <1>a, <1>c, <2>1, <2>2
<1> SUFFICES Grown
  OBVIOUS
<1> HIDE DEF Grown
<1> USE DEF queueVars, restVars
<1>1. CASE Told \/ Disconnect
  BY <1>a, <1>b, <1>1 DEF Told, Disconnect
<1>2. CASE PushUpdate
  BY <1>a, <1>c, <1>2 DEF PushUpdate
<1>3. CASE Take \/ Lock \/ EndDelivery
  BY <1>a, <1>b, <1>3 DEF Take, Lock, EndDelivery, sourceVars
<1>4. ASSUME NEW b \in Browsers, Starting(b) PROVE Grown
  BY <1>a, <1>b, <1>4
     DEF Starting, Accept, Register, ReadState, BeginAnswer, Begin, EndAnswer, Overlap, Crash,
         sourceVars
<1>5. ASSUME NEW b \in Browsers, Return(b) PROVE Grown
  BY <1>a, <1>b, <1>c, <1>5 DEF Return, sourceVars
<1>6. ASSUME NEW b \in Browsers, Request(b) \/ Lookup(b) \/ EndLookup(b) \/ Leaving(b) PROVE Grown
  BY <1>a, <1>b, <1>6
     DEF Request, Lookup, EndLookup, Leaving, ReadFails, Forget, Close, sourceVars
<1>7. ASSUME NEW b \in Browsers, Writing(b) \/ PeerLeaves(b) PROVE Grown
  BY <1>a, <1>b, <1>7
     DEF Writing, BeginWrite, Begin, EndWrite, FailWrite, PeerLeaves, Crash, sourceVars
<1>8. CASE UNCHANGED vars
  BY <1>a, <1>b, <1>8 DEF vars, sourceVars
<1> QED
  BY <1>1, <1>2, <1>3, <1>4, <1>5, <1>6, <1>7, <1>8 DEF Next, Serving, Grown

LEMMA LogNext == TypeOK /\ LogInOrder /\ [Next]_vars => LogInOrder'
BY LogGrows DEF LogInOrder

\* A browser's state is that of its initial state, or is read by this step.
LEMMA StateReadOnce ==
  ASSUME TypeOK, LoopInOrder, [Next]_vars, NEW b \in Browsers,
         handler'[b] \in StateRead, sock'[b] = "open"
  PROVE  \/ handler[b] \in StateRead /\ sock[b] = "open" /\ snap'[b] = snap[b]
         \/ snap'[b] = version' /\ version' = version
<1>a. /\ DOMAIN handler = Browsers /\ DOMAIN snap = Browsers /\ DOMAIN sock = Browsers
      /\ "handler" \in writing[b] => handler[b] \in Writes
  BY DEF TypeOK, LoopInOrder
<1> DEFINE Same == /\ handler[b] \in StateRead /\ sock[b] = "open"
                   /\ snap'[b] = snap[b]
<1> USE <1>a DEF queueVars, loopVars, viewVars, handlerVars, sourceVars, restVars, Move, StateRead
<1>1. CASE Told \/ PushUpdate \/ Disconnect \/ Take \/ Lock \/ EndDelivery
  BY <1>1 DEF Told, PushUpdate, Disconnect, Take, Lock, EndDelivery
<1>2. ASSUME NEW o \in Browsers, Accept(o) \/ Register(o) PROVE Same
  BY <1>2 DEF Accept, Register
<1>3. ASSUME NEW o \in Browsers, ReadState(o) PROVE Same \/ (snap'[b] = version' /\ version' = version)
  BY <1>3 DEF ReadState
<1>4. ASSUME NEW o \in Browsers, BeginAnswer(o) \/ Overlap(o) PROVE Same
  BY <1>4 DEF BeginAnswer, Begin, Lose, Overlap, Crash, Writes, InitialWrites
<1>5. ASSUME NEW o \in Browsers, EndAnswer(o) PROVE Same
  BY <1>5 DEF EndAnswer, After, Writes, InitialWrites
<1>6. ASSUME NEW o \in Browsers, Serving(o) \/ Leaving(o) PROVE Same
  BY <1>6 DEF Serving, Request, Lookup, EndLookup, Return, Leaving, ReadFails, Forget, Close, Lose
<1>7. ASSUME NEW o \in Browsers, Writing(o) \/ PeerLeaves(o) PROVE Same
  BY <1>7 DEF Writing, BeginWrite, Begin, EndWrite, FailWrite, PeerLeaves, Lose, Crash
<1>8. CASE UNCHANGED vars
  BY <1>8 DEF vars
<1> QED
  BY <1>1, <1>2, <1>3, <1>4, <1>5, <1>6, <1>7, <1>8 DEF Next, Starting

LEMMA StateNext ==
  TypeOK /\ LoopInOrder /\ MapInOrder /\ LogInOrder /\ StateFollowed /\ [Next]_vars =>
    StateFollowed'
<1> SUFFICES ASSUME TypeOK, LoopInOrder, MapInOrder, LogInOrder, StateFollowed, [Next]_vars,
                    NEW b \in Browsers, handler'[b] \in StateRead, sock'[b] = "open",
                    NEW p \in 1..DoneWith(b)', log'[p] > snap'[b]
             PROVE  Has(b, p)'
  BY DEF StateFollowed
<1>1. TypeOK'
  BY TypeNext
<1>2. /\ DoneWith(b) \in Int /\ DoneWith(b) <= Len(log)
      /\ DoneWith(b)' \in Int /\ DoneWith(b)' <= Len(log')
      /\ got[b] \in Seq(Nat) /\ taken \in 0..Len(log)
  BY <1>1 DEF TypeOK, DoneWith, Begun
<1>3. CASE Keeps(b) /\ handler[b] \in StateRead /\ sock[b] = "open" /\ snap'[b] = snap[b]
  <2>1. b \in uiClients
    BY <1>3 DEF MapInOrder, StateRead, Outside
  <2>2. DoneWith(b)' = DoneWith(b) /\ got'[b] = got[b]
    BY <1>3, <2>1 DEF Keeps
  <2>3. log'[p] = log[p]
    BY <1>2, <2>2, LogGrows
  <2>4. Has(b, p)
    BY <1>3, <2>2, <2>3 DEF StateFollowed
  <2> QED
    BY <2>2, <2>4 DEF Has
<1>4. CASE Gets(b) /\ handler[b] \in StateRead /\ sock[b] = "open" /\ snap'[b] = snap[b]
  <2>1. CASE p = taken
    <3>1. /\ Len(got[b]) + 1 \in 1..Len(got'[b])
          /\ got'[b][Len(got[b]) + 1] = p
      BY <1>2, <1>4, <2>1 DEF Gets
    <3> QED
      BY <3>1 DEF Has
  <2>2. CASE p # taken
    <3>1. p \in 1..DoneWith(b)
      BY <1>2, <1>4, <2>2 DEF Gets
    <3>2. log'[p] = log[p]
      BY <1>2, <3>1, LogGrows
    <3>3. PICK i \in 1..Len(got[b]) : got[b][i] = p
      BY <1>4, <3>1, <3>2 DEF StateFollowed, Has
    <3>4. i \in 1..Len(got'[b]) /\ got'[b][i] = p
      BY <1>2, <1>4, <3>3 DEF Gets
    <3> QED
      BY <3>4 DEF Has
  <2> QED
    BY <2>1, <2>2
<1>5. CASE snap'[b] = version'
  <2>1. p \in 1..Len(log') /\ log'[p] <= version'
    BY <1>2, LogGrows
  <2>2. log' \in Seq(0..MaxVersion) /\ version' \in 0..MaxVersion
    BY <1>1 DEF TypeOK
  <2>3. log'[p] \in Nat /\ version' \in Nat
    BY <2>1, <2>2, BoundsAssumption
  <2> QED
    BY <1>5, <2>1, <2>3
<1> QED
  BY <1>3, <1>4, <1>5, Received, StateReadOnce DEF Loses

LEMMA Inductive == Spec => []IInv
<1>1. IInv /\ [Next]_vars => IInv'
  BY TypeNext, LoopNext, MapNext, FeedNext, GapsNext, LogNext, StateNext DEF IInv
<1> QED
  BY <1>1, InitialState, PTL DEF Spec

-----------------------------------------------------------------------------
\* The hub of the browsers is always in a state its types allow; the queue
\* never holds more than its capacity.
THEOREM UITypes == Spec => []TypeOK
<1>1. IInv => TypeOK
  BY DEF IInv
<1> QED
  BY <1>1, Inductive, PTL

\* Browsers receive the queue's items without gaps and in order
\* (runBroadcast).
THEOREM FeedHasNoGaps == Spec => []ItemsWithoutGaps
<1>1. IInv => ItemsWithoutGaps
  BY DEF IInv
<1> QED
  BY <1>1, Inductive, PTL

\* Nothing falls between a browser's initial state and its feed
\* (HandleWebSocket registers it before the state is read).
THEOREM NothingFallsBetween == Spec => []NothingMissedAfterState
<1>1. IInv => NothingMissedAfterState
  BY DEF IInv, StateFollowed, NothingMissedAfterState, StateRead, Has
<1> QED
  BY <1>1, Inductive, PTL

\* A browser whose goroutine has ended is not in the map any more
\* (handleUIMessages).
THEOREM MapForgets == Spec => []EndedAreForgotten
<1>1. IInv => EndedAreForgotten
  BY DEF IInv, MapInOrder, Outside, EndedAreForgotten
<1> QED
  BY <1>1, Inductive, PTL

-----------------------------------------------------------------------------
(* The loop implements Feed.                                               *)

\* A browser whose stream is not followed any more.
Down == {"mixed", "gone", "closed"}

\* What the abstract loop looks at does not change.
LEMMA SilentAside ==
  ASSUME TypeOK, UNCHANGED <<uiClients, log, Begun, todo, got, fault>>,
         loop' = "deliver" <=> loop = "deliver",
         \A b \in Browsers : sock'[b] \in Down <=> sock[b] \in Down
  PROVE  UNCHANGED AbstractLoop!feedVars
<1>1. {b \in Browsers : sock'[b] \in Down} = {b \in Browsers : sock[b] \in Down}
  OBVIOUS
<1>2. UNCHANGED <<Offered, [b \in Browsers |-> FeedOf(b)]>>
  BY DEF Offered, FeedOf
<1> QED
  BY <1>1, <1>2 DEF AbstractLoop!feedVars, Down

LEMMA BegunAside == UNCHANGED <<taken, loop>> => UNCHANGED Begun
BY DEF Begun

\* An item that finds room is published, one that does not is a stutter.
LEMMA OfferPublishes ==
  ASSUME TypeOK, fault = "none", NEW item \in 0..MaxVersion, Offer(item),
         UNCHANGED <<uiClients, loop, todo, got, sock, fault>>
  PROVE  AbstractLoop!Next \/ UNCHANGED AbstractLoop!feedVars
<1>1. CASE UNCHANGED log
  BY <1>1, SilentAside, BegunAside DEF Offer
<1>2. CASE log' = Append(log, item) /\ UNCHANGED taken
  <2>1. Len(log) \in Nat /\ Len(log') = Len(log) + 1 /\ Len(log) < MaxItems
    BY <1>2 DEF TypeOK, Offer
  <2> DEFINE m == Item(Len(log) + 1)
  <2>2. m \in AbstractLoop!MessageEnvelope
    BY <2>1, BoundsAssumption DEF AbstractLoop!MessageEnvelope, Item
  <2>3. \A i \in DOMAIN Offered : Offered[i].id # m.id
    BY <2>1 DEF Offered, Item
  <2>4. Offered' = Append(Offered, m)
    BY <2>1 DEF Offered, Item
  <2>5. UNCHANGED [b \in Browsers |-> FeedOf(b)]
    BY <1>2 DEF FeedOf
  <2>6. AbstractLoop!Publish(m)
    BY <1>2, <2>3, <2>4, <2>5, BegunAside DEF AbstractLoop!Publish
  <2> QED
    BY <2>2, <2>6 DEF AbstractLoop!Next
<1> QED
  BY <1>1, <1>2 DEF Offer

\* The end of a write hands the item over, unless the browser has left.
LEMMA WriteDelivers ==
  ASSUME TypeOK, LoopInOrder, MapInOrder, fault = "none", NEW b \in Browsers, EndWrite(b)
  PROVE  AbstractLoop!Deliver(b)
<1>1. b \in todo /\ b \in uiClients /\ todo' = todo \ {b}
  BY DEF EndWrite, LoopInOrder
<1>2. sock[b] \in {"open", "mixed", "gone"}
  BY <1>1 DEF EndWrite, MapInOrder, Outside, TypeOK
<1>3. UNCHANGED <<uiClients, log, taken, loop, sock, fault>>
  BY DEF EndWrite, queueVars
<1>4. taken \in 1..Len(log) /\ loop = "deliver" /\ Begun = taken /\ UNCHANGED Begun
  BY <1>1, <1>3, BegunAside DEF LoopInOrder, TypeOK, Begun
<1>5. [d \in Browsers |-> FeedOf(d)]' =
        IF b \in {d \in Browsers : sock[d] \in {"mixed", "gone", "closed"}}
          THEN [d \in Browsers |-> FeedOf(d)]
          ELSE [[d \in Browsers |-> FeedOf(d)] EXCEPT ![b] = Append(@, Offered[taken])]
  <2>1. CASE sock[b] = "open"
    <3>1. got' = [got EXCEPT ![b] = Append(@, taken)]
      BY <2>1 DEF EndWrite
    <3>2. Offered[taken] = Item(taken)
      BY <1>4 DEF Offered
    <3>3. FeedOf(b)' = Append(FeedOf(b), Item(taken))
      <4>1. got \in [Browsers -> Seq(Nat)] /\ taken \in Nat
        BY <1>4 DEF TypeOK
      <4>2. got'[b] = Append(got[b], taken)
        BY <3>1, <4>1
      <4> QED
        BY <4>1, <4>2 DEF FeedOf, Item
    <3>4. \A d \in Browsers \ {b} : FeedOf(d)' = FeedOf(d)
      BY <3>1 DEF FeedOf, TypeOK
    <3> QED
      BY <2>1, <3>2, <3>3, <3>4
  <2>2. CASE sock[b] \in {"mixed", "gone"}
    BY <2>2 DEF EndWrite, FeedOf
  <2> QED
    BY <1>2, <2>1, <2>2
<1> QED
  BY <1>1, <1>3, <1>4, <1>5 DEF AbstractLoop!Deliver, Offered

\* A browser that leaves, is closed or has its frames mixed is cut off.
LEMMA LoseIsCut ==
  ASSUME TypeOK, MapInOrder, fault = "none", NEW b \in Browsers, NEW how \in Down, Lose(b, how),
         UNCHANGED <<uiClients, log, taken, loop, todo, fault>>
  PROVE  AbstractLoop!Next \/ UNCHANGED AbstractLoop!feedVars
<1>1. CASE sock[b] \in Down
  <2>1. got' = got
    <3>1. got[b] = <<>> /\ got \in [Browsers -> Seq(Nat)]
      BY <1>1 DEF MapInOrder, TypeOK, Down
    <3> QED
      BY <3>1 DEF Lose
  <2>2. \A d \in Browsers : sock'[d] \in Down <=> sock[d] \in Down
    BY <1>1 DEF Lose, TypeOK
  <2> QED
    BY <2>1, <2>2, SilentAside, BegunAside
<1>2. CASE sock[b] \notin Down
  <2>1. {d \in Browsers : sock'[d] \in {"mixed", "gone", "closed"}} =
          {d \in Browsers : sock[d] \in {"mixed", "gone", "closed"}} \cup {b}
    BY DEF TypeOK, Lose, Down
  <2> DEFINE f == [d \in Browsers |-> FeedOf(d)]
  <2>2. Len(f[b]) \in Nat /\ f' = [f EXCEPT ![b] = SubSeq(@, 1, 0)]
    <3>1. got[b] \in Seq(Nat) /\ Len(got[b]) \in Nat
      BY DEF TypeOK
    <3>2. f[b] = FeedOf(b) /\ Len(FeedOf(b)) = Len(got[b])
      BY <3>1 DEF FeedOf
    <3>3. SubSeq(FeedOf(b), 1, 0) = <<>>
      BY <3>1, <3>2 DEF FeedOf
    <3>4. FeedOf(b)' = <<>> /\ \A d \in Browsers \ {b} : FeedOf(d)' = FeedOf(d)
      BY DEF FeedOf, Lose, TypeOK
    <3> QED
      BY <3>1, <3>2, <3>3, <3>4
  <2>3. \E n \in 0..Len(f[b]) : f' = [f EXCEPT ![b] = SubSeq(@, 1, n)]
    <3> HIDE DEF f
    <3>1. 0 \in 0..Len(f[b])
      BY <2>2
    <3> QED
      BY <2>2, <3>1
  <2>4. AbstractLoop!Cut(b)
    BY <1>2, <2>1, <2>3, BegunAside DEF AbstractLoop!Cut, Offered, Down
  <2> QED
    BY <2>4 DEF AbstractLoop!Next
<1> QED
  BY <1>1, <1>2

\* A panic that net/http does not recover ends the process.
LEMMA CrashHalts ==
  ASSUME fault = "none", NEW what \in {"concurrent_write", "map_race"}, Crash(what)
  PROVE  AbstractLoop!Next
<1>1. AbstractLoop!Halt
  BY DEF AbstractLoop!Halt, Crash, queueVars, loopVars, handlerVars, viewVars, Offered, FeedOf, Begun
<1> QED
  BY <1>1 DEF AbstractLoop!Next

LEMMA StepImplements ==
  ASSUME TypeOK, LoopInOrder, MapInOrder, Next
  PROVE  AbstractLoop!Next \/ UNCHANGED AbstractLoop!feedVars
<1> USE DEF queueVars, loopVars, viewVars, handlerVars, sourceVars, restVars
<1>0. fault = "none"
  BY DEF Next
<1>1. CASE Told \/ Disconnect
  BY <1>1, SilentAside, BegunAside DEF Told, Disconnect
<1>2. CASE PushUpdate
  <2>1. version \in 0..MaxVersion /\ Offer(version)
    BY <1>2 DEF PushUpdate, TypeOK
  <2> QED
    BY <1>0, <1>2, <2>1, OfferPublishes DEF PushUpdate
<1>3. CASE Take
  <2>1. Begun' = Begun
    BY <1>3 DEF Take, Begun, TypeOK
  <2> QED
    BY <1>3, <2>1, SilentAside DEF Take
<1>16. CASE Lock
  <2>1. /\ Begun' = Begun + 1 /\ Begun' = taken /\ taken \in 1..Len(log) /\ Begun \in Nat
        /\ Begun < Len(Offered)
    BY <1>16 DEF Lock, Begun, TypeOK, LoopInOrder, Offered
  <2>2. Offered[Begun'].ch = "ui"
    BY <2>1 DEF Offered, Item
  <2>3. AbstractLoop!Take
    BY <1>0, <1>16, <2>1, <2>2 DEF Lock, AbstractLoop!Take, Offered, FeedOf
  <2> QED
    BY <2>3 DEF AbstractLoop!Next, AbstractLoop!HubStep
<1>4. CASE EndDelivery
  <2>1. AbstractLoop!Done
    BY <1>0, <1>4 DEF EndDelivery, AbstractLoop!Done, Offered, FeedOf, Begun
  <2> QED
    BY <2>1 DEF AbstractLoop!Next, AbstractLoop!HubStep
<1>5. ASSUME NEW b \in Browsers, Accept(b)
      PROVE  AbstractLoop!Next \/ UNCHANGED AbstractLoop!feedVars
  <2>1. sock[b] \notin Down
    BY <1>5 DEF Accept, MapInOrder, Down
  <2>2. \A d \in Browsers : sock'[d] \in Down <=> sock[d] \in Down
    BY <1>5, <2>1 DEF Accept, TypeOK, Down
  <2> QED
    BY <1>5, <2>2, SilentAside, BegunAside DEF Accept
<1>6. ASSUME NEW b \in Browsers, Register(b)
      PROVE  AbstractLoop!Next \/ UNCHANGED AbstractLoop!feedVars
  <2>1. AbstractLoop!Join(b, "ui")
    BY <1>0, <1>6, BegunAside
    DEF Register, CanLock, AbstractLoop!Join, AbstractLoop!Meanwhile, Offered, FeedOf
  <2> QED
    BY <2>1 DEF AbstractLoop!Next
<1>7. ASSUME NEW b \in Browsers, ReadState(b) \/ EndAnswer(b)
      PROVE  AbstractLoop!Next \/ UNCHANGED AbstractLoop!feedVars
  BY <1>7, SilentAside, BegunAside DEF ReadState, EndAnswer
<1>8. ASSUME NEW b \in Browsers, Overlap(b)
      PROVE  AbstractLoop!Next \/ UNCHANGED AbstractLoop!feedVars
  <2>1. CASE UNCHANGED <<restVars, uiClients, sock, viewVars>>
    BY <2>1, SilentAside, BegunAside
  <2>2. CASE Crash("concurrent_write")
    BY <1>0, <2>2, CrashHalts
  <2> QED
    BY <1>8, <2>1, <2>2 DEF Overlap
<1>9. ASSUME NEW b \in Browsers, Request(b) \/ Lookup(b) \/ EndLookup(b) \/ ReadFails(b)
      PROVE  AbstractLoop!Next \/ UNCHANGED AbstractLoop!feedVars
  BY <1>9, SilentAside, BegunAside DEF Request, Lookup, EndLookup, ReadFails
<1>10. ASSUME NEW b \in Browsers, Return(b)
       PROVE  AbstractLoop!Next \/ UNCHANGED AbstractLoop!feedVars
  <2>1. CASE UNCHANGED queueVars
    BY <1>10, <2>1, SilentAside, BegunAside DEF Return
  <2>2. CASE Offer(0)
    BY <1>0, <1>10, <2>2, OfferPublishes, BoundsAssumption DEF Return
  <2> QED
    BY <1>10, <2>1, <2>2 DEF Return
<1>11. ASSUME NEW b \in Browsers, Forget(b)
       PROVE  AbstractLoop!Next \/ UNCHANGED AbstractLoop!feedVars
  <2>1. AbstractLoop!Leave(b, "ui")
    BY <1>0, <1>11, BegunAside
    DEF Forget, CanLock, AbstractLoop!Leave, AbstractLoop!Meanwhile, Offered, FeedOf
  <2> QED
    BY <2>1 DEF AbstractLoop!Next
<1>12. ASSUME NEW b \in Browsers, Close(b) \/ PeerLeaves(b)
       PROVE  AbstractLoop!Next \/ UNCHANGED AbstractLoop!feedVars
  BY <1>0, <1>12, LoseIsCut DEF Close, PeerLeaves, Down
<1>13. ASSUME NEW b \in Browsers, BeginAnswer(b) \/ BeginWrite(b)
       PROVE  AbstractLoop!Next \/ UNCHANGED AbstractLoop!feedVars
  <2>1. UNCHANGED <<restVars, uiClients, handler>>
    BY <1>13 DEF BeginAnswer, BeginWrite, Begin
  <2>2. CASE UNCHANGED <<sock, viewVars>>
    BY <2>1, <2>2, SilentAside, BegunAside
  <2>3. CASE Lose(b, "mixed")
    BY <1>0, <2>1, <2>3, LoseIsCut DEF Down
  <2> QED
    BY <1>13, <2>2, <2>3 DEF BeginAnswer, BeginWrite, Begin
<1>14. ASSUME NEW b \in Browsers, EndWrite(b)
       PROVE  AbstractLoop!Next \/ UNCHANGED AbstractLoop!feedVars
  BY <1>0, <1>14, WriteDelivers DEF AbstractLoop!Next, AbstractLoop!HubStep
<1>15. ASSUME NEW b \in Browsers, FailWrite(b)
       PROVE  AbstractLoop!Next \/ UNCHANGED AbstractLoop!feedVars
  <2>1. CASE Crash("map_race")
    BY <1>0, <2>1, CrashHalts
  <2>2. CASE ~ Crash("map_race")
    <3>1. /\ todo' = todo \ {b}
          /\ uiClients' = uiClients \ {b}
          /\ UNCHANGED <<queueVars, loop, viewVars, fault>>
          /\ b \in todo
      BY <1>15, <2>2 DEF FailWrite, LoopInOrder
    <3>2. {d \in Browsers : sock'[d] \in {"mixed", "gone", "closed"}} =
            {d \in Browsers : sock[d] \in {"mixed", "gone", "closed"}}
      BY <1>15, <2>2 DEF FailWrite, TypeOK
    <3>3. loop = "deliver" /\ taken \in 1..Len(log) /\ Begun = taken /\ Begun' = Begun
      BY <3>1 DEF LoopInOrder, TypeOK, Begun
    <3>4. Offered[Begun].ch = "ui"
      BY <3>3 DEF Offered, Item
    <3>5. AbstractLoop!Leave(b, "ui")
      BY <1>0, <3>1, <3>2, <3>3, <3>4
      DEF AbstractLoop!Leave, AbstractLoop!Meanwhile, Offered, FeedOf
    <3> QED
      BY <3>5 DEF AbstractLoop!Next
  <2> QED
    BY <2>1, <2>2
<1> QED
  BY <1>1, <1>2, <1>3, <1>4, <1>5, <1>6, <1>7, <1>8, <1>9, <1>10, <1>11, <1>12, <1>13,
     <1>14, <1>15, <1>16
     DEF Next, Starting, Serving, Leaving, Writing

\* The loop and the goroutines of the browsers implement Feed, the promise of
\* the server's hub: one order, each item for those registered when the loop
\* had the lock, and a browser that fails or leaves gets nothing more (runBroadcast).
THEOREM LoopImplementsFeed == Spec => ImplementsFeed
<1>1. Init => AbstractLoop!Init
  BY DEF Init, AbstractLoop!Init, Offered, FeedOf, Begun
<1>2. IInv /\ [Next]_vars => [AbstractLoop!Next]_AbstractLoop!feedVars
  <2> SUFFICES ASSUME IInv, [Next]_vars
               PROVE  AbstractLoop!Next \/ UNCHANGED AbstractLoop!feedVars
    OBVIOUS
  <2>1. CASE Next
    BY <2>1, StepImplements DEF IInv
  <2>2. CASE UNCHANGED vars
    BY <2>2, SilentAside, BegunAside
    DEF IInv, vars, restVars, queueVars, loopVars, viewVars, handlerVars, sourceVars
  <2> QED
    BY <2>1, <2>2
<1> QED
  BY <1>1, <1>2, Inductive, PTL DEF Spec, ImplementsFeed, AbstractLoop!Spec

=============================================================================
