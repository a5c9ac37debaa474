------------------------------ MODULE ClientUI ------------------------------
(***************************************************************************)
(* The browsers of one client (client/handlers.go): the queue of broadcast *)
(* items, the loop that writes each item to every browser (runBroadcast),  *)
(* and for each browser the goroutine that registers it, sends it the      *)
(* initial state and then answers its requests (HandleWebSocket,           *)
(* handleUIMessages).  What servers tell comes from the reader of one of   *)
(* Aggregator's connections.                                               *)
(*                                                                         *)
(* A browser is one websocket.  A write to it has a beginning and an end.  *)
(* The writes of two goroutines may overlap: their frames are mixed, and   *)
(* the websocket library, which looks for this as best it can, may make    *)
(* one of them panic.  A panic ends the process, except in the goroutine   *)
(* of an HTTP request, which net/http recovers: there it ends the          *)
(* goroutine and leaves the browser registered and unread.                 *)
(***************************************************************************)
EXTENDS Naturals, Sequences, FiniteSets

CONSTANTS
  Browsers,    \* websockets of browsers, each accepted once
  Stallers,    \* those that may stop reading without leaving
  QueueCap,    \* capacity of ClientHandler.broadcast (256 in the code)
  MaxVersion,  \* bound: times the server tells its channels
  MaxItems     \* bound: items ever put on the queue

ASSUME BoundsAssumption ==
  /\ QueueCap \in Nat \ {0}
  /\ MaxVersion \in Nat
  /\ MaxItems \in Nat

VARIABLES
  uiClients,  \* ClientHandler.uiClients
  log,        \* all items put on the queue: versions told, 0 a list of servers
  taken,      \* how many of them the loop has taken; the rest is the queue
  loop,       \* where runBroadcast is: "lock" with an item in hand, it waits for
              \* the read lock it delivers under
  todo,       \* browsers the loop has still to write the item to
  handler,    \* where the goroutine of each browser is
  writing,    \* who is writing to each browser: the loop, its handler, or both
  sock,       \* the socket of each browser; "gone": its peer has left; "mixed":
              \* writes to it overlapped, what it gets is not followed any more
  version,    \* what the server has told, counted
  source,     \* where the reader of the server's connection is; "gone": the
              \* connection is not in the aggregator's map any more
  snap,       \* the version told when each browser's initial state was read
  shown,      \* the version each browser shows
  got,        \* which items each browser received, in order
  dropped,    \* some item found the queue full
  fault       \* what ended the process

queueVars   == <<log, taken, dropped>>
loopVars    == <<loop, todo>>
viewVars    == <<snap, shown, got>>
handlerVars == <<uiClients, handler, writing, sock, viewVars>>
sourceVars  == <<version, source>>
restVars    == <<queueVars, loopVars, sourceVars, fault>>
vars        == <<restVars, handlerVars>>

-----------------------------------------------------------------------------
\* A goroutine that writes is in one of these, up to the states that of the
\* browser's HTTP request.
InitialWrites == {"identity", "servers", "states"}
Writes == InitialWrites \cup {"error"}
HandlerStates == Writes \cup {"none", "register", "read", "reading", "rlock",
                              "lookup", "calling", "forget", "closing", "gone",
                              "panicked"}

TypeOK ==
  /\ uiClients \in SUBSET Browsers
  /\ log \in Seq(0..MaxVersion)
  /\ taken \in 0..Len(log) /\ Len(log) - taken <= QueueCap
  /\ loop \in {"wait", "lock", "deliver"}
  /\ todo \in SUBSET Browsers
  /\ handler \in [Browsers -> HandlerStates]
  /\ writing \in [Browsers -> SUBSET {"loop", "handler"}]
  /\ sock \in [Browsers -> {"none", "open", "mixed", "gone", "closed"}]
  /\ version \in 0..MaxVersion
  /\ source \in {"reading", "push", "gone"}
  /\ snap \in [Browsers -> 0..MaxVersion]
  /\ shown \in [Browsers -> 0..MaxVersion]
  /\ got \in [Browsers -> Seq(Nat)]
  /\ dropped \in BOOLEAN
  /\ fault \in {"none", "concurrent_write", "map_race"}

Init ==
  /\ uiClients = {}
  /\ log = <<>>
  /\ taken = 0
  /\ loop = "wait"
  /\ todo = {}
  /\ handler = [b \in Browsers |-> "none"]
  /\ writing = [b \in Browsers |-> {}]
  /\ sock = [b \in Browsers |-> "none"]
  /\ version = 0
  /\ source = "reading"
  /\ snap = [b \in Browsers |-> 0]
  /\ shown = [b \in Browsers |-> 0]
  /\ got = [b \in Browsers |-> <<>>]
  /\ dropped = FALSE
  /\ fault = "none"

-----------------------------------------------------------------------------
(* uiMu.  The loop holds it for reading all through a delivery, lookups    *)
(* for a step; those who wait to write keep new readers out.               *)

CanLock == loop # "deliver" /\ \A b \in Browsers : handler[b] # "lookup"

CanRLock == CanLock \/ \A b \in Browsers : handler[b] \notin {"register", "forget"}

\* (Mutant: the queue is taken to have room.)
OfferRegardless(item) ==
  /\ Len(log) < MaxItems
  /\ log' = Append(log, item)
  /\ UNCHANGED <<taken, dropped>>

\* broadcastToUI: an item that finds the queue full is dropped.
Offer(item) ==
  /\ Len(log) < MaxItems
  /\ IF Len(log) - taken < QueueCap
     THEN log' = Append(log, item) /\ UNCHANGED dropped
     ELSE dropped' = TRUE /\ UNCHANGED log
  /\ UNCHANGED taken

Crash(what) ==
  /\ fault' = what
  /\ UNCHANGED <<queueVars, loopVars, handlerVars, sourceVars>>

-----------------------------------------------------------------------------
(* The server's connection: handleMessage stores the channel list, then    *)
(* calls back to have it shown.                                            *)

Told ==
  /\ source = "reading"
  /\ version < MaxVersion
  /\ version' = version + 1
  /\ source' = "push"
  /\ UNCHANGED <<queueVars, loopVars, handlerVars, fault>>

PushUpdate ==
  /\ source = "push"
  /\ Offer(version)
  /\ source' = "reading"
  /\ UNCHANGED <<loopVars, handlerVars, version, fault>>

\* The aggregator takes the connection out of its map (Aggregator).  What its
\* reader has in hand or gets still is not shown: the callback looks the
\* connection up and returns.
Disconnect ==
  /\ source \in {"reading", "push"}
  /\ source' = "gone"
  /\ UNCHANGED <<queueVars, loopVars, handlerVars, version, fault>>

-----------------------------------------------------------------------------
(* runBroadcast.                                                           *)

\* The item leaves its place in the queue.
Take ==
  /\ loop = "wait"
  /\ taken < Len(log)
  /\ taken' = taken + 1
  /\ loop' = "lock"
  /\ UNCHANGED <<log, dropped, todo, handlerVars, sourceVars, fault>>

\* The loop has the lock, and ranges over the browsers of the moment.
Lock ==
  /\ loop = "lock"
  /\ CanRLock
  /\ loop' = "deliver"
  /\ todo' = uiClients
  /\ UNCHANGED <<queueVars, handlerVars, sourceVars, fault>>

\* What b shows and has received is followed as long as its socket is open.
Lose(b, how) ==
  /\ sock' = [sock EXCEPT ![b] = how]
  /\ snap' = [snap EXCEPT ![b] = 0]
  /\ shown' = [shown EXCEPT ![b] = 0]
  /\ got' = [got EXCEPT ![b] = <<>>]

\* who begins to write to b, whoever else does.
Begin(b, who) ==
  /\ who \notin writing[b]
  /\ writing' = [writing EXCEPT ![b] = @ \cup {who}]
  /\ IF writing[b] # {} /\ sock[b] = "open" THEN Lose(b, "mixed")
     ELSE UNCHANGED <<sock, viewVars>>
  /\ UNCHANGED <<restVars, uiClients, handler>>

BeginWrite(b) ==
  /\ b \in todo
  /\ \A o \in Browsers : "loop" \notin writing[o]
  /\ Begin(b, "loop")

\* The item went out; a browser that has left does not get it.
EndWrite(b) ==
  /\ "loop" \in writing[b]
  /\ sock[b] # "closed"
  /\ writing' = [writing EXCEPT ![b] = @ \ {"loop"}]
  /\ todo' = todo \ {b}
  /\ IF sock[b] = "open"
     THEN /\ got' = [got EXCEPT ![b] = Append(@, taken)]
          /\ shown' = IF log[taken] = 0 THEN shown
                      ELSE [shown EXCEPT ![b] = log[taken]]
     ELSE UNCHANGED <<got, shown>>
  /\ UNCHANGED <<queueVars, loop, uiClients, handler, sock, snap, sourceVars, fault>>

\* (Mutant: after a failed write the loop gives the item up for the others.)
FailAll(b) ==
  /\ "loop" \in writing[b]
  /\ sock[b] \in {"gone", "closed"}
  /\ writing' = [writing EXCEPT ![b] = @ \ {"loop"}]
  /\ todo' = {}
  /\ sock' = [sock EXCEPT ![b] = "closed"]
  /\ uiClients' = uiClients \ {b}
  /\ UNCHANGED <<queueVars, loop, handler, viewVars, sourceVars, fault>>

\* (Mutant: the loop tries the same browser again.)
FailRetry(b) ==
  /\ "loop" \in writing[b]
  /\ sock[b] \in {"gone", "closed"}
  /\ writing' = [writing EXCEPT ![b] = @ \ {"loop"}]
  /\ UNCHANGED <<restVars, uiClients, handler, sock, viewVars>>

\* A failed write: the loop deletes the browser from the map it holds the
\* read lock of.  The runtime may catch another goroutine reading the map.
FailWrite(b) ==
  /\ "loop" \in writing[b]
  /\ sock[b] \in {"gone", "closed"}
  /\ \/ /\ writing' = [writing EXCEPT ![b] = @ \ {"loop"}]
        /\ todo' = todo \ {b}
        /\ sock' = [sock EXCEPT ![b] = "closed"]
        /\ uiClients' = uiClients \ {b}
        /\ UNCHANGED <<queueVars, loop, handler, viewVars, sourceVars, fault>>
     \/ /\ \E o \in Browsers : handler[o] = "lookup"
        /\ Crash("map_race")

EndDelivery ==
  /\ loop = "deliver"
  /\ todo = {}
  /\ loop' = "wait"
  /\ UNCHANGED <<queueVars, todo, handlerVars, sourceVars, fault>>

-----------------------------------------------------------------------------
(* HandleWebSocket and sendInitialState.                                   *)

Move(b, s) == handler' = [handler EXCEPT ![b] = s]

Accept(b) ==
  /\ handler[b] = "none"
  /\ Move(b, "register")
  /\ sock' = [sock EXCEPT ![b] = "open"]
  /\ UNCHANGED <<restVars, uiClients, writing, viewVars>>

\* A browser whose user was not identified is not sent an identity.
Register(b) ==
  /\ handler[b] = "register"
  /\ CanLock
  /\ uiClients' = uiClients \cup {b}
  /\ Move(b, "identity") \/ Move(b, "servers")
  /\ UNCHANGED <<restVars, writing, sock, viewVars>>

\* (Mutant: the states are those from before the browser was registered.)
ReadStateEarlier(b) ==
  /\ handler[b] = "read"
  /\ \E v \in 0..version : snap' = [snap EXCEPT ![b] = v]
  /\ Move(b, "states")
  /\ UNCHANGED <<restVars, uiClients, writing, sock, shown, got>>

\* The state of the connection is read, to be written; there is nothing to
\* write of one that is not in the map.
ReadState(b) ==
  /\ handler[b] = "read"
  /\ snap' = IF sock[b] = "open" THEN [snap EXCEPT ![b] = version] ELSE snap
  /\ Move(b, IF source = "gone" THEN "reading" ELSE "states")
  /\ UNCHANGED <<restVars, uiClients, writing, sock, shown, got>>

BeginAnswer(b) ==
  /\ handler[b] \in Writes
  /\ Begin(b, "handler")

\* The library notices that two write, and one of them panics.
Overlap(b) ==
  /\ writing[b] = {"loop", "handler"}
  /\ \/ Crash("concurrent_write")
     \/ /\ handler[b] \in InitialWrites
        /\ Move(b, "panicked")
        /\ writing' = [writing EXCEPT ![b] = {"loop"}]
        /\ UNCHANGED <<restVars, uiClients, sock, viewVars>>

\* What follows each answer; whether it could be written is not looked at.
After == [identity |-> "servers", servers |-> "read", states |-> "reading",
          error |-> "reading"]

EndAnswer(b) ==
  /\ "handler" \in writing[b]
  /\ writing' = [writing EXCEPT ![b] = @ \ {"handler"}]
  /\ Move(b, After[handler[b]])
  /\ shown' = IF handler[b] = "states" /\ sock[b] = "open"
              THEN [shown EXCEPT ![b] = snap[b]] ELSE shown
  /\ UNCHANGED <<restVars, uiClients, sock, snap, got>>

-----------------------------------------------------------------------------
(* handleUIMessages.  A request to send a message first looks up who the   *)
(* browser's user is; all then call the aggregator, which may not return   *)
(* (Aggregator).                                                           *)

Request(b) ==
  /\ handler[b] = "reading"
  /\ Move(b, "rlock") \/ Move(b, "calling")
  /\ UNCHANGED <<restVars, uiClients, writing, sock, viewVars>>

Lookup(b) ==
  /\ handler[b] = "rlock"
  /\ CanRLock
  /\ Move(b, "lookup")
  /\ UNCHANGED <<restVars, uiClients, writing, sock, viewVars>>

EndLookup(b) ==
  /\ handler[b] = "lookup"
  /\ Move(b, "calling")
  /\ UNCHANGED <<restVars, uiClients, writing, sock, viewVars>>

\* The call is done, or failed, or has connected another server.
Return(b) ==
  /\ handler[b] = "calling"
  /\ \/ Move(b, "reading") /\ UNCHANGED queueVars
     \/ Move(b, "error") /\ UNCHANGED queueVars
     \/ Move(b, "reading") /\ Offer(0)
  /\ UNCHANGED <<loopVars, uiClients, writing, sock, viewVars, sourceVars, fault>>

ReadFails(b) ==
  /\ handler[b] = "reading"
  /\ Move(b, "forget")
  /\ UNCHANGED <<restVars, uiClients, writing, sock, viewVars>>

\* (Mutant: the browser is left in the map.)
ForgetNothing(b) ==
  /\ handler[b] = "forget"
  /\ Move(b, "closing")
  /\ UNCHANGED <<restVars, uiClients, writing, sock, viewVars>>

Forget(b) ==
  /\ handler[b] = "forget"
  /\ CanLock
  /\ uiClients' = uiClients \ {b}
  /\ Move(b, "closing")
  /\ UNCHANGED <<restVars, writing, sock, viewVars>>

Close(b) ==
  /\ handler[b] = "closing"
  /\ Lose(b, "closed")
  /\ Move(b, "gone")
  /\ UNCHANGED <<restVars, uiClients, writing>>

\* The page is closed, cannot make sense of a frame, or the network loses it.
PeerLeaves(b) ==
  /\ sock[b] \in {"open", "mixed"}
  /\ Lose(b, "gone")
  /\ UNCHANGED <<restVars, uiClients, handler, writing>>

-----------------------------------------------------------------------------
Starting(b) ==
  Accept(b) \/ Register(b) \/ ReadState(b) \/ BeginAnswer(b) \/ EndAnswer(b) \/ Overlap(b)
Serving(b)  == Request(b) \/ Lookup(b) \/ EndLookup(b) \/ Return(b)
Leaving(b)  == ReadFails(b) \/ Forget(b) \/ Close(b)
Writing(b)  == BeginWrite(b) \/ EndWrite(b) \/ FailWrite(b)

\* Nothing happens after the process has ended.
Next ==
  /\ fault = "none"
  /\ \/ Told \/ PushUpdate \/ Disconnect \/ Take \/ Lock \/ EndDelivery
     \/ \E b \in Browsers :
          Starting(b) \/ Serving(b) \/ Leaving(b) \/ Writing(b) \/ PeerLeaves(b)

Spec == Init /\ [][Next]_vars

\* A write to a browser that reads, or that has left, ends; nothing makes one
\* to a browser that stalls end.
Reads(b) == b \notin Stallers \/ sock[b] \in {"gone", "closed"}

\* Goroutines that can go on do, but a call of the aggregator need not return.
\* Locks are granted in turn.
Fairness ==
  /\ WF_vars(fault = "none" /\ (Take \/ EndDelivery))
  /\ SF_vars(fault = "none" /\ Lock)
  /\ WF_vars(fault = "none" /\ \E b \in Browsers : BeginWrite(b))
  /\ \A b \in Browsers :
       /\ WF_vars(fault = "none" /\ Reads(b) /\ (EndWrite(b) \/ FailWrite(b)))
       /\ WF_vars(fault = "none" /\ Reads(b) /\ EndAnswer(b))
       /\ WF_vars(fault = "none" /\ (ReadState(b) \/ BeginAnswer(b) \/ EndLookup(b) \/ Close(b)))
       /\ SF_vars(fault = "none" /\ (Register(b) \/ Lookup(b) \/ Forget(b)))
       /\ SF_vars(fault = "none" /\ sock[b] \in {"gone", "closed"} /\ ReadFails(b))

FairSpec == Spec /\ Fairness

-----------------------------------------------------------------------------
\* From the first one on, a browser receives every item of the queue, each
\* once and in the order of the queue, whoever else registers, leaves or
\* fails meanwhile (runBroadcast 88-100), until another goroutine's write to
\* it overlaps.
ItemsWithoutGaps ==
  \A b \in Browsers : \A i \in 1..Len(got[b]) - 1 : got[b][i + 1] = got[b][i] + 1

\* The items whose delivery has begun.
Begun == IF loop = "lock" THEN taken - 1 ELSE taken

\* Nothing falls between a browser's initial state and its feed: what was
\* told after the state was read, and not dropped, has been written to it
\* once the loop is done with the item (HandleWebSocket 146-156).
DoneWith(b) == IF b \in todo THEN taken - 1 ELSE Begun

NothingMissedAfterState ==
  \A b \in Browsers :
    handler[b] \in {"states", "reading", "calling"} /\ sock[b] = "open" =>
      \A p \in 1..DoneWith(b) :
        log[p] > snap[b] => \E i \in 1..Len(got[b]) : got[b][i] = p

\* A browser whose goroutine has ended is not in the map any more
\* (handleUIMessages 187-192).
EndedAreForgotten == \A b \in Browsers : handler[b] = "gone" => b \notin uiClients

\* When everything that was told has been delivered and nothing was dropped,
\* the browsers show the current state of the connection ("Send current
\* connection states", handlers.go 175).
StatesAreCurrent ==
  fault = "none" /\ ~dropped /\ source = "reading" /\ loop = "wait" /\ taken = Len(log) =>
    \A b \in Browsers :
      handler[b] = "reading" /\ sock[b] = "open" => shown[b] = version

\* A browser that left is forgotten, unless its goroutine waits for a call of
\* the aggregator, or panicked.
LeaversAreForgotten ==
  \A b \in Browsers :
    sock[b] \in {"gone", "closed"} ~>
      fault # "none" \/ b \notin uiClients \/ handler[b] \in {"calling", "panicked"}

-----------------------------------------------------------------------------
(* The browsers are one channel of a feed, and the loop is its hub.        *)

Item(p)   == [ch |-> "ui", id |-> p]
Offered   == [p \in 1..Len(log) |-> Item(p)]
FeedOf(b) == [i \in 1..Len(got[b]) |-> Item(got[b][i])]

AbstractLoop == INSTANCE Feed WITH
  Clients    <- Browsers,
  Channels   <- {"ui"},
  Messages   <- 1..MaxItems,
  members    <- [ch \in {"ui"} |-> uiClients],
  order      <- Offered,
  taken      <- Begun,
  delivering <- loop = "deliver",
  feed       <- [b \in Browsers |-> FeedOf(b)],
  cut        <- {b \in Browsers : sock[b] \in {"mixed", "gone", "closed"}},
  stuck      <- FALSE,
  up         <- fault = "none"

\* runBroadcast gives browsers what the server's hub gives its peers: one
\* order, each item for those registered when the loop got the lock, and the
\* ones it deletes from the map while ranging over it, or whose frames were
\* mixed, get no more of it (88-100).
ImplementsFeed == AbstractLoop!Spec

\* And it gets through every item that found room, as long as nobody stalls.
ImplementsFairFeed == AbstractLoop!FairSpec
=============================================================================
