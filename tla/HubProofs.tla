----------------------------- MODULE HubProofs -----------------------------
(***************************************************************************)
(* Proofs about the hub, for any number of connections, channels, messages *)
(* and any buffer sizes: its type invariant and the three safety           *)
(* properties of the subscriptions.                                        *)
(***************************************************************************)
EXTENDS Hub, SequenceTheorems, TLAPS

-----------------------------------------------------------------------------
(* The inductive invariant.                                                *)

\* What the pending request, the hub's client and the hub's message are.
RegistersOK ==
  /\ \A c \in Clients :
       /\ reader[c] \in {"subscribing", "unsubscribing"} => arg[c] \in Channels
       /\ reader[c] = "broadcasting" => arg[c] \in MessageEnvelope
  /\ hub \in {"add", "remove", "cleanup"} => cur \in Clients
  /\ hub = "deliver" => msg \in MessageEnvelope

\* The reader of c has handed c over to the hub for the last time.
Departed(c) == reader[c] \in {"closing", "done"}

\* The hub is between taking c from h.unregister and the end of its cleanup.
Removing(c) == hub \in {"remove", "cleanup"} /\ cur = c

\* Whether the code's control state makes c a subscriber of ch.
Expected(c, ch) ==
  \/ reader[c] \in {"reading", "broadcasting", "unregister"} /\ ch \in subs[c]
  \/ reader[c] = "subscribing" /\ (ch \in subs[c] \/ ch = arg[c])
  \/ reader[c] = "unsubscribing" /\ ch \in subs[c] /\ ch # arg[c]
  \/ Departed(c) /\ Removing(c) /\ ch \in subs[c]

MembershipInv ==
  \A c \in Clients, ch \in Channels : c \in members[ch] <=> Expected(c, ch)

\* A client is registered from the hub's add until its removal.
RegistrationInv ==
  \A c \in Clients :
    /\ reader[c] \in {"none", "register"} => subs[c] = {}
    /\ c \in closed => Departed(c)
    /\ reader[c] \notin {"none", "register"} /\ ~Departed(c)
         => c \in clients \/ (hub = "add" /\ cur = c)

HubInv ==
  /\ hub \in {"remove", "cleanup"} => Departed(cur)
  /\ hub = "deliver" => todo \cap closed = {}

FaultInv == LoopAndReadersFindOpen

IInv ==
  /\ TypeOK
  /\ RegistersOK
  /\ MembershipInv
  /\ RegistrationInv
  /\ HubInv
  /\ FaultInv

-----------------------------------------------------------------------------
(* The buffered channels.                                                  *)

\* A send puts an element in a channel that has room for it.
LEMMA PutTyped ==
  ASSUME NEW S, NEW s \in Seq(S), NEW e \in S, NEW cap \in Nat, Len(s) < cap
  PROVE  Append(s, e) \in Seq(S) /\ Len(Append(s, e)) <= cap
BY AppendProperties, LenProperties

\* A receive takes an element off a channel that is not empty.
LEMMA TakeTyped ==
  ASSUME NEW S, NEW s \in Seq(S), s # <<>>, NEW cap \in Nat, Len(s) <= cap
  PROVE  Head(s) \in S /\ Tail(s) \in Seq(S) /\ Len(Tail(s)) <= cap
BY HeadTailProperties, LenProperties

\* Client.Send leaves every send channel within its capacity.
LEMMA TrySendTyped ==
  ASSUME TypeOK, NEW c \in Clients, NEW e \in Envelope, NEW who \in Faults,
         TrySend(c, e, who)
  PROVE  /\ send' \in [Clients -> Seq(Envelope)]
         /\ \A d \in Clients : Len(send'[d]) <= SendCap
         /\ sent' \in [Clients -> Seq(MessageEnvelope)]
         /\ fault' \in Faults
<1> USE CapAssumption DEF TypeOK, TrySend, HasRoom
<1>1. CASE c \in closed \/ ~HasRoom(c)
  BY <1>1
<1>2. CASE c \notin closed /\ HasRoom(c)
  <2>1. Append(send[c], e) \in Seq(Envelope) /\ Len(Append(send[c], e)) <= SendCap
    BY <1>2, PutTyped
  <2>2. send' = [send EXCEPT ![c] = Append(send[c], e)] /\ fault' = fault
    BY <1>2
  <2>3. sent' \in [Clients -> Seq(MessageEnvelope)]
    <3>1. CASE e \in MessageEnvelope /\ writer[c] # "stopped"
      <4>1. Append(sent[c], e) \in Seq(MessageEnvelope)
        BY <3>1, AppendProperties
      <4> QED
        BY <1>2, <3>1, <4>1
    <3>2. CASE ~(e \in MessageEnvelope /\ writer[c] # "stopped")
      BY <1>2, <3>2
    <3> QED
      BY <3>1, <3>2
  <2> QED
    BY <2>1, <2>2, <2>3
<1> QED
  BY <1>1, <1>2

\* Taking an envelope off the send channel of c.
LEMMA TakeSendTyped ==
  ASSUME TypeOK, NEW c \in Clients, send[c] # <<>>,
         send' = [send EXCEPT ![c] = Tail(@)]
  PROVE  /\ send' \in [Clients -> Seq(Envelope)]
         /\ \A d \in Clients : Len(send'[d]) <= SendCap
<1>1. Tail(send[c]) \in Seq(Envelope) /\ Len(Tail(send[c])) <= SendCap
  BY TakeTyped, CapAssumption DEF TypeOK
<1> QED
  BY <1>1 DEF TypeOK

\* The hub's next message names a channel.
LEMMA HeadTyped ==
  ASSUME TypeOK, broadcast # <<>>
  PROVE  /\ Head(broadcast) \in MessageEnvelope
         /\ Head(broadcast).ch \in Channels
         /\ Tail(broadcast) \in Seq(MessageEnvelope)
         /\ Len(Tail(broadcast)) <= BroadcastCap
<1>1. /\ Head(broadcast) \in MessageEnvelope
      /\ Tail(broadcast) \in Seq(MessageEnvelope)
      /\ Len(Tail(broadcast)) <= BroadcastCap
  BY TakeTyped, CapAssumption DEF TypeOK
<1> QED
  BY <1>1 DEF MessageEnvelope

-----------------------------------------------------------------------------
(* The steps keep it.                                                      *)

\* Requests and the hub's registers.
LEMMA RegistersStep ==
  ASSUME TypeOK, RegistersOK, Next
  PROVE  RegistersOK'
<1> USE DEF TypeOK, RegistersOK, hubVars, readerVars, pumpVars
<1>1. CASE HubAdd
  BY <1>1 DEF HubAdd
<1>2. CASE HubRemove
  BY <1>2 DEF HubRemove
<1>3. CASE HubCleanup
  BY <1>3 DEF HubCleanup
<1>4. CASE HubTake
  BY <1>4 DEF HubTake
<1>5. CASE HubDone
  BY <1>5 DEF HubDone
<1>6. ASSUME NEW c \in Clients, HubRegister(c)
      PROVE  RegistersOK'
  BY <1>6 DEF HubRegister
<1>7. ASSUME NEW c \in Clients, HubUnregister(c)
      PROVE  RegistersOK'
  BY <1>7 DEF HubUnregister
<1>8. ASSUME NEW c \in Clients, HubDeliver(c)
      PROVE  RegistersOK'
  BY <1>8 DEF HubDeliver, TrySend, HasRoom
<1>9. ASSUME NEW c \in Clients, Connect(c)
      PROVE  RegistersOK'
  BY <1>9 DEF Connect
<1>10. ASSUME NEW c \in Clients, NEW ch \in Channels, Subscribe(c, ch)
      PROVE  RegistersOK'
  BY <1>10 DEF Subscribe, Request, JoinChannel, MapWritten
<1>11. ASSUME NEW c \in Clients, SubscribeDone(c)
      PROVE  RegistersOK'
  BY <1>11 DEF SubscribeDone, Resume
<1>12. ASSUME NEW c \in Clients, NEW ch \in Channels, Unsubscribe(c, ch)
      PROVE  RegistersOK'
  BY <1>12 DEF Unsubscribe, Request, LeaveChannel, MapWritten
<1>13. ASSUME NEW c \in Clients, UnsubscribeDone(c)
      PROVE  RegistersOK'
  BY <1>13 DEF UnsubscribeDone, Resume
<1>14. ASSUME NEW c \in Clients, NEW m \in MessageEnvelope, SendMessage(c, m)
      PROVE  RegistersOK'
  BY <1>14 DEF SendMessage, Request
<1>15. ASSUME NEW c \in Clients, Broadcast(c)
      PROVE  RegistersOK'
  BY <1>15 DEF Broadcast, Resume
<1>16. ASSUME NEW c \in Clients, NEW e \in Replies, Reply(c, e)
      PROVE  RegistersOK'
  BY <1>16 DEF Reply, Request, TrySend, HasRoom
<1>17. ASSUME NEW c \in Clients, ReadFails(c)
      PROVE  RegistersOK'
  BY <1>17 DEF ReadFails
<1>18. ASSUME NEW c \in Clients, ReaderExits(c)
      PROVE  RegistersOK'
  BY <1>18 DEF ReaderExits
<1>19. ASSUME NEW c \in Clients, WriteOk(c)
      PROVE  RegistersOK'
  BY <1>19 DEF WriteOk
<1>20. ASSUME NEW c \in Clients, WriteFails(c)
      PROVE  RegistersOK'
  BY <1>20 DEF WriteFails, WriterStops
<1>21. ASSUME NEW c \in Clients, PingFails(c)
      PROVE  RegistersOK'
  BY <1>21 DEF PingFails, WriterStops
<1>22. ASSUME NEW c \in Clients, WriterSeesClose(c)
      PROVE  RegistersOK'
  BY <1>22 DEF WriterSeesClose, WriterStops
<1>23. ASSUME NEW c \in Clients, NEW e \in Replies, Greet(c, e)
      PROVE  RegistersOK'
  BY <1>23 DEF Greet, TrySend, HasRoom
<1>24. ASSUME NEW c \in Clients, GreetFails(c)
      PROVE  RegistersOK'
  BY <1>24 DEF GreetFails
<1>25. ASSUME NEW c \in Clients, NEW e \in Replies, SendList(c, e)
      PROVE  RegistersOK'
  BY <1>25 DEF SendList, TrySend, HasRoom
<1> QED
  BY <1>1, <1>2, <1>3, <1>4, <1>5, <1>6, <1>7, <1>8, <1>9, <1>10, <1>11, <1>12, <1>13,
     <1>14, <1>15, <1>16, <1>17, <1>18, <1>19, <1>20, <1>21, <1>22, <1>23, <1>24, <1>25
  DEF Next, HubLoop, HubStep, ReaderStep, PumpStep

\* The maps of the hub follow the control state of the readers.
LEMMA MembershipStep ==
  ASSUME TypeOK, RegistersOK, MembershipInv, RegistrationInv, HubInv, Next
  PROVE  MembershipInv'
<1> USE DEF TypeOK, RegistersOK, MembershipInv, RegistrationInv, HubInv, Expected, Departed, Removing, hubVars, readerVars, pumpVars
<1>1. CASE HubAdd
  BY <1>1 DEF HubAdd
<1>2. CASE HubRemove
  BY <1>2 DEF HubRemove
<1>3. CASE HubCleanup
  BY <1>3 DEF HubCleanup
<1>4. CASE HubTake
  BY <1>4 DEF HubTake
<1>5. CASE HubDone
  BY <1>5 DEF HubDone
<1>6. ASSUME NEW c \in Clients, HubRegister(c)
      PROVE  MembershipInv'
  BY <1>6 DEF HubRegister
<1>7. ASSUME NEW c \in Clients, HubUnregister(c)
      PROVE  MembershipInv'
  BY <1>7 DEF HubUnregister
<1>8. ASSUME NEW c \in Clients, HubDeliver(c)
      PROVE  MembershipInv'
  BY <1>8 DEF HubDeliver, TrySend, HasRoom
<1>9. ASSUME NEW c \in Clients, Connect(c)
      PROVE  MembershipInv'
  BY <1>9 DEF Connect
<1>10. ASSUME NEW c \in Clients, NEW ch \in Channels, Subscribe(c, ch)
      PROVE  MembershipInv'
  BY <1>10 DEF Subscribe, Request, JoinChannel, MapWritten
<1>11. ASSUME NEW c \in Clients, SubscribeDone(c)
      PROVE  MembershipInv'
  BY <1>11 DEF SubscribeDone, Resume
<1>12. ASSUME NEW c \in Clients, NEW ch \in Channels, Unsubscribe(c, ch)
      PROVE  MembershipInv'
  BY <1>12 DEF Unsubscribe, Request, LeaveChannel, MapWritten
<1>13. ASSUME NEW c \in Clients, UnsubscribeDone(c)
      PROVE  MembershipInv'
  BY <1>13 DEF UnsubscribeDone, Resume
<1>14. ASSUME NEW c \in Clients, NEW m \in MessageEnvelope, SendMessage(c, m)
      PROVE  MembershipInv'
  BY <1>14 DEF SendMessage, Request
<1>15. ASSUME NEW c \in Clients, Broadcast(c)
      PROVE  MembershipInv'
  BY <1>15 DEF Broadcast, Resume
<1>16. ASSUME NEW c \in Clients, NEW e \in Replies, Reply(c, e)
      PROVE  MembershipInv'
  BY <1>16 DEF Reply, Request, TrySend, HasRoom
<1>17. ASSUME NEW c \in Clients, ReadFails(c)
      PROVE  MembershipInv'
  BY <1>17 DEF ReadFails
<1>18. ASSUME NEW c \in Clients, ReaderExits(c)
      PROVE  MembershipInv'
  BY <1>18 DEF ReaderExits
<1>19. ASSUME NEW c \in Clients, WriteOk(c)
      PROVE  MembershipInv'
  BY <1>19 DEF WriteOk
<1>20. ASSUME NEW c \in Clients, WriteFails(c)
      PROVE  MembershipInv'
  BY <1>20 DEF WriteFails, WriterStops
<1>21. ASSUME NEW c \in Clients, PingFails(c)
      PROVE  MembershipInv'
  BY <1>21 DEF PingFails, WriterStops
<1>22. ASSUME NEW c \in Clients, WriterSeesClose(c)
      PROVE  MembershipInv'
  BY <1>22 DEF WriterSeesClose, WriterStops
<1>23. ASSUME NEW c \in Clients, NEW e \in Replies, Greet(c, e)
      PROVE  MembershipInv'
  BY <1>23 DEF Greet, TrySend, HasRoom
<1>24. ASSUME NEW c \in Clients, GreetFails(c)
      PROVE  MembershipInv'
  BY <1>24 DEF GreetFails
<1>25. ASSUME NEW c \in Clients, NEW e \in Replies, SendList(c, e)
      PROVE  MembershipInv'
  BY <1>25 DEF SendList, TrySend, HasRoom
<1> QED
  BY <1>1, <1>2, <1>3, <1>4, <1>5, <1>6, <1>7, <1>8, <1>9, <1>10, <1>11, <1>12, <1>13,
     <1>14, <1>15, <1>16, <1>17, <1>18, <1>19, <1>20, <1>21, <1>22, <1>23, <1>24, <1>25
  DEF Next, HubLoop, HubStep, ReaderStep, PumpStep

\* Registered and closed follow the control state.
LEMMA RegistrationStep ==
  ASSUME TypeOK, RegistersOK, RegistrationInv, HubInv, Next
  PROVE  RegistrationInv'
<1> USE DEF TypeOK, RegistersOK, RegistrationInv, HubInv, Departed, hubVars, readerVars, pumpVars
<1>1. CASE HubAdd
  BY <1>1 DEF HubAdd
<1>2. CASE HubRemove
  BY <1>2 DEF HubRemove
<1>3. CASE HubCleanup
  BY <1>3 DEF HubCleanup
<1>4. CASE HubTake
  BY <1>4 DEF HubTake
<1>5. CASE HubDone
  BY <1>5 DEF HubDone
<1>6. ASSUME NEW c \in Clients, HubRegister(c)
      PROVE  RegistrationInv'
  BY <1>6 DEF HubRegister
<1>7. ASSUME NEW c \in Clients, HubUnregister(c)
      PROVE  RegistrationInv'
  BY <1>7 DEF HubUnregister
<1>8. ASSUME NEW c \in Clients, HubDeliver(c)
      PROVE  RegistrationInv'
  BY <1>8 DEF HubDeliver, TrySend, HasRoom
<1>9. ASSUME NEW c \in Clients, Connect(c)
      PROVE  RegistrationInv'
  BY <1>9 DEF Connect
<1>10. ASSUME NEW c \in Clients, NEW ch \in Channels, Subscribe(c, ch)
      PROVE  RegistrationInv'
  BY <1>10 DEF Subscribe, Request, JoinChannel, MapWritten
<1>11. ASSUME NEW c \in Clients, SubscribeDone(c)
      PROVE  RegistrationInv'
  BY <1>11 DEF SubscribeDone, Resume
<1>12. ASSUME NEW c \in Clients, NEW ch \in Channels, Unsubscribe(c, ch)
      PROVE  RegistrationInv'
  BY <1>12 DEF Unsubscribe, Request, LeaveChannel, MapWritten
<1>13. ASSUME NEW c \in Clients, UnsubscribeDone(c)
      PROVE  RegistrationInv'
  BY <1>13 DEF UnsubscribeDone, Resume
<1>14. ASSUME NEW c \in Clients, NEW m \in MessageEnvelope, SendMessage(c, m)
      PROVE  RegistrationInv'
  BY <1>14 DEF SendMessage, Request
<1>15. ASSUME NEW c \in Clients, Broadcast(c)
      PROVE  RegistrationInv'
  BY <1>15 DEF Broadcast, Resume
<1>16. ASSUME NEW c \in Clients, NEW e \in Replies, Reply(c, e)
      PROVE  RegistrationInv'
  BY <1>16 DEF Reply, Request, TrySend, HasRoom
<1>17. ASSUME NEW c \in Clients, ReadFails(c)
      PROVE  RegistrationInv'
  BY <1>17 DEF ReadFails
<1>18. ASSUME NEW c \in Clients, ReaderExits(c)
      PROVE  RegistrationInv'
  BY <1>18 DEF ReaderExits
<1>19. ASSUME NEW c \in Clients, WriteOk(c)
      PROVE  RegistrationInv'
  BY <1>19 DEF WriteOk
<1>20. ASSUME NEW c \in Clients, WriteFails(c)
      PROVE  RegistrationInv'
  BY <1>20 DEF WriteFails, WriterStops
<1>21. ASSUME NEW c \in Clients, PingFails(c)
      PROVE  RegistrationInv'
  BY <1>21 DEF PingFails, WriterStops
<1>22. ASSUME NEW c \in Clients, WriterSeesClose(c)
      PROVE  RegistrationInv'
  BY <1>22 DEF WriterSeesClose, WriterStops
<1>23. ASSUME NEW c \in Clients, NEW e \in Replies, Greet(c, e)
      PROVE  RegistrationInv'
  BY <1>23 DEF Greet, TrySend, HasRoom
<1>24. ASSUME NEW c \in Clients, GreetFails(c)
      PROVE  RegistrationInv'
  BY <1>24 DEF GreetFails
<1>25. ASSUME NEW c \in Clients, NEW e \in Replies, SendList(c, e)
      PROVE  RegistrationInv'
  BY <1>25 DEF SendList, TrySend, HasRoom
<1> QED
  BY <1>1, <1>2, <1>3, <1>4, <1>5, <1>6, <1>7, <1>8, <1>9, <1>10, <1>11, <1>12, <1>13,
     <1>14, <1>15, <1>16, <1>17, <1>18, <1>19, <1>20, <1>21, <1>22, <1>23, <1>24, <1>25
  DEF Next, HubLoop, HubStep, ReaderStep, PumpStep

\* The hub's loop ranges over open channels only.
LEMMA HubStepInv ==
  ASSUME TypeOK, RegistersOK, MembershipInv, RegistrationInv, HubInv, Next
  PROVE  HubInv'
<1> USE DEF TypeOK, RegistersOK, MembershipInv, RegistrationInv, HubInv, Expected, Departed, Removing, hubVars, readerVars, pumpVars
<1>1. CASE HubAdd
  BY <1>1 DEF HubAdd
<1>2. CASE HubRemove
  BY <1>2 DEF HubRemove
<1>3. CASE HubCleanup
  BY <1>3 DEF HubCleanup
<1>4. CASE HubTake
  BY <1>4, HeadTyped DEF HubTake
<1>5. CASE HubDone
  BY <1>5 DEF HubDone
<1>6. ASSUME NEW c \in Clients, HubRegister(c)
      PROVE  HubInv'
  BY <1>6 DEF HubRegister
<1>7. ASSUME NEW c \in Clients, HubUnregister(c)
      PROVE  HubInv'
  BY <1>7 DEF HubUnregister
<1>8. ASSUME NEW c \in Clients, HubDeliver(c)
      PROVE  HubInv'
  BY <1>8 DEF HubDeliver, TrySend, HasRoom
<1>9. ASSUME NEW c \in Clients, Connect(c)
      PROVE  HubInv'
  BY <1>9 DEF Connect
<1>10. ASSUME NEW c \in Clients, NEW ch \in Channels, Subscribe(c, ch)
      PROVE  HubInv'
  BY <1>10 DEF Subscribe, Request, JoinChannel, MapWritten
<1>11. ASSUME NEW c \in Clients, SubscribeDone(c)
      PROVE  HubInv'
  BY <1>11 DEF SubscribeDone, Resume
<1>12. ASSUME NEW c \in Clients, NEW ch \in Channels, Unsubscribe(c, ch)
      PROVE  HubInv'
  BY <1>12 DEF Unsubscribe, Request, LeaveChannel, MapWritten
<1>13. ASSUME NEW c \in Clients, UnsubscribeDone(c)
      PROVE  HubInv'
  BY <1>13 DEF UnsubscribeDone, Resume
<1>14. ASSUME NEW c \in Clients, NEW m \in MessageEnvelope, SendMessage(c, m)
      PROVE  HubInv'
  BY <1>14 DEF SendMessage, Request
<1>15. ASSUME NEW c \in Clients, Broadcast(c)
      PROVE  HubInv'
  BY <1>15 DEF Broadcast, Resume
<1>16. ASSUME NEW c \in Clients, NEW e \in Replies, Reply(c, e)
      PROVE  HubInv'
  BY <1>16 DEF Reply, Request, TrySend, HasRoom
<1>17. ASSUME NEW c \in Clients, ReadFails(c)
      PROVE  HubInv'
  BY <1>17 DEF ReadFails
<1>18. ASSUME NEW c \in Clients, ReaderExits(c)
      PROVE  HubInv'
  BY <1>18 DEF ReaderExits
<1>19. ASSUME NEW c \in Clients, WriteOk(c)
      PROVE  HubInv'
  BY <1>19 DEF WriteOk
<1>20. ASSUME NEW c \in Clients, WriteFails(c)
      PROVE  HubInv'
  BY <1>20 DEF WriteFails, WriterStops
<1>21. ASSUME NEW c \in Clients, PingFails(c)
      PROVE  HubInv'
  BY <1>21 DEF PingFails, WriterStops
<1>22. ASSUME NEW c \in Clients, WriterSeesClose(c)
      PROVE  HubInv'
  BY <1>22 DEF WriterSeesClose, WriterStops
<1>23. ASSUME NEW c \in Clients, NEW e \in Replies, Greet(c, e)
      PROVE  HubInv'
  BY <1>23 DEF Greet, TrySend, HasRoom
<1>24. ASSUME NEW c \in Clients, GreetFails(c)
      PROVE  HubInv'
  BY <1>24 DEF GreetFails
<1>25. ASSUME NEW c \in Clients, NEW e \in Replies, SendList(c, e)
      PROVE  HubInv'
  BY <1>25 DEF SendList, TrySend, HasRoom
<1> QED
  BY <1>1, <1>2, <1>3, <1>4, <1>5, <1>6, <1>7, <1>8, <1>9, <1>10, <1>11, <1>12, <1>13,
     <1>14, <1>15, <1>16, <1>17, <1>18, <1>19, <1>20, <1>21, <1>22, <1>23, <1>24, <1>25
  DEF Next, HubLoop, HubStep, ReaderStep, PumpStep

\* Sends by the hub and by the readers find the channel open.
LEMMA FaultStep ==
  ASSUME TypeOK, RegistersOK, RegistrationInv, HubInv, FaultInv, Next
  PROVE  FaultInv'
<1> USE DEF TypeOK, RegistersOK, RegistrationInv, HubInv, FaultInv, LoopAndReadersFindOpen, Departed, hubVars, readerVars, pumpVars
<1>1. CASE HubAdd
  BY <1>1 DEF HubAdd
<1>2. CASE HubRemove
  BY <1>2 DEF HubRemove
<1>3. CASE HubCleanup
  BY <1>3 DEF HubCleanup
<1>4. CASE HubTake
  BY <1>4 DEF HubTake
<1>5. CASE HubDone
  BY <1>5 DEF HubDone
<1>6. ASSUME NEW c \in Clients, HubRegister(c)
      PROVE  FaultInv'
  BY <1>6 DEF HubRegister
<1>7. ASSUME NEW c \in Clients, HubUnregister(c)
      PROVE  FaultInv'
  BY <1>7 DEF HubUnregister
<1>8. ASSUME NEW c \in Clients, HubDeliver(c)
      PROVE  FaultInv'
  BY <1>8 DEF HubDeliver, TrySend, HasRoom
<1>9. ASSUME NEW c \in Clients, Connect(c)
      PROVE  FaultInv'
  BY <1>9 DEF Connect
<1>10. ASSUME NEW c \in Clients, NEW ch \in Channels, Subscribe(c, ch)
      PROVE  FaultInv'
  BY <1>10 DEF Subscribe, Request, JoinChannel, MapWritten
<1>11. ASSUME NEW c \in Clients, SubscribeDone(c)
      PROVE  FaultInv'
  BY <1>11 DEF SubscribeDone, Resume
<1>12. ASSUME NEW c \in Clients, NEW ch \in Channels, Unsubscribe(c, ch)
      PROVE  FaultInv'
  BY <1>12 DEF Unsubscribe, Request, LeaveChannel, MapWritten
<1>13. ASSUME NEW c \in Clients, UnsubscribeDone(c)
      PROVE  FaultInv'
  BY <1>13 DEF UnsubscribeDone, Resume
<1>14. ASSUME NEW c \in Clients, NEW m \in MessageEnvelope, SendMessage(c, m)
      PROVE  FaultInv'
  BY <1>14 DEF SendMessage, Request
<1>15. ASSUME NEW c \in Clients, Broadcast(c)
      PROVE  FaultInv'
  BY <1>15 DEF Broadcast, Resume
<1>16. ASSUME NEW c \in Clients, NEW e \in Replies, Reply(c, e)
      PROVE  FaultInv'
  BY <1>16 DEF Reply, Request, TrySend, HasRoom
<1>17. ASSUME NEW c \in Clients, ReadFails(c)
      PROVE  FaultInv'
  BY <1>17 DEF ReadFails
<1>18. ASSUME NEW c \in Clients, ReaderExits(c)
      PROVE  FaultInv'
  BY <1>18 DEF ReaderExits
<1>19. ASSUME NEW c \in Clients, WriteOk(c)
      PROVE  FaultInv'
  BY <1>19 DEF WriteOk
<1>20. ASSUME NEW c \in Clients, WriteFails(c)
      PROVE  FaultInv'
  BY <1>20 DEF WriteFails, WriterStops
<1>21. ASSUME NEW c \in Clients, PingFails(c)
      PROVE  FaultInv'
  BY <1>21 DEF PingFails, WriterStops
<1>22. ASSUME NEW c \in Clients, WriterSeesClose(c)
      PROVE  FaultInv'
  BY <1>22 DEF WriterSeesClose, WriterStops
<1>23. ASSUME NEW c \in Clients, NEW e \in Replies, Greet(c, e)
      PROVE  FaultInv'
  BY <1>23 DEF Greet, TrySend, HasRoom
<1>24. ASSUME NEW c \in Clients, GreetFails(c)
      PROVE  FaultInv'
  BY <1>24 DEF GreetFails
<1>25. ASSUME NEW c \in Clients, NEW e \in Replies, SendList(c, e)
      PROVE  FaultInv'
  BY <1>25 DEF SendList, TrySend, HasRoom
<1> QED
  BY <1>1, <1>2, <1>3, <1>4, <1>5, <1>6, <1>7, <1>8, <1>9, <1>10, <1>11, <1>12, <1>13,
     <1>14, <1>15, <1>16, <1>17, <1>18, <1>19, <1>20, <1>21, <1>22, <1>23, <1>24, <1>25
  DEF Next, HubLoop, HubStep, ReaderStep, PumpStep

\* A request moves its reader on, within the bound on requests.
LEMMA RequestTyped ==
  ASSUME TypeOK, NEW c \in Clients, NEW state \in ReaderStates,
         NEW about \in Channels \cup MessageEnvelope \cup {None},
         Request(c, state, about)
  PROVE  /\ reader' \in [Clients -> ReaderStates]
         /\ arg' \in [Clients -> Channels \cup MessageEnvelope \cup {None}]
         /\ requests' \in [Clients -> Nat]
         /\ \A d \in Clients : requests'[d] <= MaxRequests[d]
<1>1. requests[c] + 1 \in Nat /\ requests[c] + 1 <= MaxRequests[c]
  <2>1. requests[c] \in Nat
    BY DEF TypeOK
  <2>2. MaxRequests[c] \in Nat
    BY CapAssumption
  <2>3. requests[c] < MaxRequests[c]
    BY DEF Request
  <2> QED
    BY <2>1, <2>2, <2>3
<1> QED
  BY <1>1 DEF TypeOK, Request

\* Types.
LEMMA TypeStep ==
  ASSUME TypeOK, RegistersOK, Next
  PROVE  TypeOK'
<1> USE DEF TypeOK, RegistersOK, hubVars, readerVars, pumpVars, HubStates, ReaderStates, WriterStates, GreeterStates, Faults
<1>1. CASE HubAdd
  BY <1>1 DEF HubAdd
<1>2. CASE HubRemove
  BY <1>2 DEF HubRemove
<1>3. CASE HubCleanup
  BY <1>3 DEF HubCleanup
<1>4. CASE HubTake
  BY <1>4, HeadTyped DEF HubTake
<1>5. CASE HubDone
  BY <1>5 DEF HubDone
<1>6. ASSUME NEW c \in Clients, HubRegister(c)
      PROVE  TypeOK'
  BY <1>6 DEF HubRegister
<1>7. ASSUME NEW c \in Clients, HubUnregister(c)
      PROVE  TypeOK'
  BY <1>7 DEF HubUnregister
<1>8. ASSUME NEW c \in Clients, HubDeliver(c)
      PROVE  TypeOK'
  <2>1. CASE c \in closed \/ HasRoom(c)
    <3>1. TrySend(c, msg, "hub") /\ msg \in Envelope
      BY <1>8, <2>1 DEF HubDeliver, Envelope
    <3>2. /\ send' \in [Clients -> Seq(Envelope)]
          /\ \A d \in Clients : Len(send'[d]) <= SendCap
          /\ sent' \in [Clients -> Seq(MessageEnvelope)]
          /\ fault' \in Faults
      BY <3>1, TrySendTyped
    <3> QED
      BY <1>8, <2>1, <3>2 DEF HubDeliver
  <2>2. CASE ~(c \in closed \/ HasRoom(c))
    BY <1>8, <2>2 DEF HubDeliver
  <2> QED
    BY <2>1, <2>2
<1>9. ASSUME NEW c \in Clients, Connect(c)
      PROVE  TypeOK'
  BY <1>9 DEF Connect
<1>10. ASSUME NEW c \in Clients, NEW ch \in Channels, Subscribe(c, ch)
      PROVE  TypeOK'
  <2>1. /\ reader' \in [Clients -> ReaderStates]
        /\ arg' \in [Clients -> Channels \cup MessageEnvelope \cup {None}]
        /\ requests' \in [Clients -> Nat]
        /\ \A d \in Clients : requests'[d] <= MaxRequests[d]
    BY <1>10, RequestTyped DEF Subscribe
  <2>2. /\ members' \in [Channels -> SUBSET Clients]
        /\ todo' \in SUBSET Clients
        /\ iter' \in Channels \cup {None}
        /\ fault' \in Faults
    BY <1>10 DEF Subscribe, JoinChannel, MapWritten
  <2> QED
    BY <1>10, <2>1, <2>2 DEF Subscribe
<1>11. ASSUME NEW c \in Clients, SubscribeDone(c)
      PROVE  TypeOK'
  BY <1>11 DEF SubscribeDone, Resume
<1>12. ASSUME NEW c \in Clients, NEW ch \in Channels, Unsubscribe(c, ch)
      PROVE  TypeOK'
  <2>1. /\ reader' \in [Clients -> ReaderStates]
        /\ arg' \in [Clients -> Channels \cup MessageEnvelope \cup {None}]
        /\ requests' \in [Clients -> Nat]
        /\ \A d \in Clients : requests'[d] <= MaxRequests[d]
    BY <1>12, RequestTyped DEF Unsubscribe
  <2>2. /\ members' \in [Channels -> SUBSET Clients]
        /\ todo' \in SUBSET Clients
        /\ iter' \in Channels \cup {None}
        /\ fault' \in Faults
    BY <1>12 DEF Unsubscribe, LeaveChannel, MapWritten
  <2> QED
    BY <1>12, <2>1, <2>2 DEF Unsubscribe
<1>13. ASSUME NEW c \in Clients, UnsubscribeDone(c)
      PROVE  TypeOK'
  BY <1>13 DEF UnsubscribeDone, Resume
<1>14. ASSUME NEW c \in Clients, NEW m \in MessageEnvelope, SendMessage(c, m)
      PROVE  TypeOK'
  BY <1>14, RequestTyped DEF SendMessage
<1>15. ASSUME NEW c \in Clients, Broadcast(c)
      PROVE  TypeOK'
  <2>1. arg[c] \in MessageEnvelope
    BY <1>15 DEF Broadcast
  <2>2. /\ broadcast' \in Seq(MessageEnvelope)
        /\ Len(broadcast') <= BroadcastCap
    BY <1>15, <2>1, PutTyped, CapAssumption DEF Broadcast
  <2>3. order' \in Seq(MessageEnvelope)
    BY <1>15, <2>1, AppendProperties DEF Broadcast
  <2> QED
    BY <1>15, <2>2, <2>3 DEF Broadcast, Resume
<1>16. ASSUME NEW c \in Clients, NEW e \in Replies, Reply(c, e)
      PROVE  TypeOK'
  <2>1. /\ reader' \in [Clients -> ReaderStates]
        /\ arg' \in [Clients -> Channels \cup MessageEnvelope \cup {None}]
        /\ requests' \in [Clients -> Nat]
        /\ \A d \in Clients : requests'[d] <= MaxRequests[d]
    BY <1>16, RequestTyped DEF Reply
  <2>2. /\ send' \in [Clients -> Seq(Envelope)]
        /\ \A d \in Clients : Len(send'[d]) <= SendCap
        /\ sent' \in [Clients -> Seq(MessageEnvelope)]
        /\ fault' \in Faults
    BY <1>16, TrySendTyped DEF Reply, Envelope
  <2> QED
    BY <1>16, <2>1, <2>2 DEF Reply
<1>17. ASSUME NEW c \in Clients, ReadFails(c)
      PROVE  TypeOK'
  BY <1>17 DEF ReadFails
<1>18. ASSUME NEW c \in Clients, ReaderExits(c)
      PROVE  TypeOK'
  BY <1>18 DEF ReaderExits
<1>19. ASSUME NEW c \in Clients, WriteOk(c)
      PROVE  TypeOK'
  <2>1. /\ send' \in [Clients -> Seq(Envelope)]
        /\ \A d \in Clients : Len(send'[d]) <= SendCap
    BY <1>19, TakeSendTyped DEF WriteOk
  <2>2. received' \in [Clients -> Seq(MessageEnvelope)]
    <3>1. CASE Head(send[c]) \in MessageEnvelope
      <4>1. Append(received[c], Head(send[c])) \in Seq(MessageEnvelope)
        BY <3>1, AppendProperties
      <4> QED
        BY <1>19, <3>1, <4>1 DEF WriteOk
    <3>2. CASE Head(send[c]) \notin MessageEnvelope
      BY <1>19, <3>2 DEF WriteOk
    <3> QED
      BY <3>1, <3>2
  <2> QED
    BY <1>19, <2>1, <2>2 DEF WriteOk
<1>20. ASSUME NEW c \in Clients, WriteFails(c)
      PROVE  TypeOK'
  BY <1>20, TakeSendTyped DEF WriteFails, WriterStops
<1>21. ASSUME NEW c \in Clients, PingFails(c)
      PROVE  TypeOK'
  BY <1>21 DEF PingFails, WriterStops
<1>22. ASSUME NEW c \in Clients, WriterSeesClose(c)
      PROVE  TypeOK'
  BY <1>22 DEF WriterSeesClose, WriterStops
<1>23. ASSUME NEW c \in Clients, NEW e \in Replies, Greet(c, e)
      PROVE  TypeOK'
  <2>1. /\ send' \in [Clients -> Seq(Envelope)]
        /\ \A d \in Clients : Len(send'[d]) <= SendCap
        /\ sent' \in [Clients -> Seq(MessageEnvelope)]
        /\ fault' \in Faults
    BY <1>23, TrySendTyped DEF Greet, Envelope
  <2> QED
    BY <1>23, <2>1 DEF Greet
<1>24. ASSUME NEW c \in Clients, GreetFails(c)
      PROVE  TypeOK'
  BY <1>24 DEF GreetFails
<1>25. ASSUME NEW c \in Clients, NEW e \in Replies, SendList(c, e)
      PROVE  TypeOK'
  <2>1. /\ send' \in [Clients -> Seq(Envelope)]
        /\ \A d \in Clients : Len(send'[d]) <= SendCap
        /\ sent' \in [Clients -> Seq(MessageEnvelope)]
        /\ fault' \in Faults
    BY <1>25, TrySendTyped DEF SendList, Envelope
  <2> QED
    BY <1>25, <2>1 DEF SendList
<1> QED
  BY <1>1, <1>2, <1>3, <1>4, <1>5, <1>6, <1>7, <1>8, <1>9, <1>10, <1>11, <1>12, <1>13,
     <1>14, <1>15, <1>16, <1>17, <1>18, <1>19, <1>20, <1>21, <1>22, <1>23, <1>24, <1>25
  DEF Next, HubLoop, HubStep, ReaderStep, PumpStep

-----------------------------------------------------------------------------
(* The theorems.                                                           *)

\* Nothing has happened yet.
LEMMA InitIInv == Init => IInv
<1> SUFFICES ASSUME Init PROVE IInv
  OBVIOUS
<1> USE DEF Init
<1>1. TypeOK
  BY CapAssumption, EmptySeq
  DEF TypeOK, HubStates, ReaderStates, WriterStates, GreeterStates, Faults
<1>2. RegistersOK
  BY DEF RegistersOK
<1>3. MembershipInv
  BY DEF MembershipInv, Expected, Departed, Removing
<1>4. RegistrationInv /\ HubInv /\ FaultInv
  BY DEF RegistrationInv, HubInv, FaultInv, LoopAndReadersFindOpen, Departed
<1> QED
  BY <1>1, <1>2, <1>3, <1>4 DEF IInv

\* A step, or none, keeps the invariant.
LEMMA NextIInv == IInv /\ [Next]_vars => IInv'
<1> SUFFICES ASSUME IInv, [Next]_vars PROVE IInv'
  OBVIOUS
<1>1. CASE Next
  BY <1>1, TypeStep, RegistersStep, MembershipStep, RegistrationStep, HubStepInv, FaultStep
  DEF IInv
<1>2. CASE UNCHANGED vars
  <2> USE <1>2 DEF IInv, vars, hubVars, readerVars, pumpVars
  <2>1. TypeOK'
    BY DEF TypeOK
  <2>2. RegistersOK'
    BY DEF RegistersOK
  <2>3. MembershipInv'
    BY DEF MembershipInv, Expected, Departed, Removing
  <2>4. (RegistrationInv /\ HubInv /\ FaultInv)'
    BY DEF RegistrationInv, HubInv, FaultInv, LoopAndReadersFindOpen, Departed
  <2> QED
    BY <2>1, <2>2, <2>3, <2>4
<1> QED
  BY <1>1, <1>2

\* The control state of the goroutines decides, at every moment, who is
\* registered, who is subscribed and who may still be sent to.
THEOREM Inductive == Spec => []IInv
BY InitIInv, NextIInv, PTL DEF Spec

\* Every buffer stays within its capacity and every variable in its set.
THEOREM TypeCorrect == Spec => []TypeOK
<1>1. IInv => TypeOK
  BY DEF IInv
<1> QED
  BY <1>1, Inductive, PTL

\* Hub.Run and the readers never send on a channel the hub has closed.
THEOREM SendsFindChannelOpen == Spec => []LoopAndReadersFindOpen
<1>1. IInv => LoopAndReadersFindOpen
  BY DEF IInv, FaultInv
<1> QED
  BY <1>1, Inductive, PTL

\* Whenever the hub selects, the channel maps hold registered clients only.
THEOREM NoTraceOfTheDeparted == Spec => []DepartedLeaveNoTrace
<1>1. IInv => DepartedLeaveNoTrace
  <2> SUFFICES ASSUME IInv, hub = "select", NEW ch \in Channels, NEW c \in members[ch]
               PROVE  c \in clients
    BY DEF DepartedLeaveNoTrace
  <2>1. c \in Clients
    BY DEF IInv, TypeOK
  <2>2. Expected(c, ch)
    BY <2>1 DEF IInv, MembershipInv
  <2>3. reader[c] \notin {"none", "register"} /\ ~Departed(c)
    BY <2>1, <2>2 DEF Expected, Departed, Removing, IInv, RegistrationInv
  <2> QED
    BY <2>1, <2>3 DEF IInv, RegistrationInv
<1> QED
  BY <1>1, Inductive, PTL

\* The hub's maps and the client's own list say the same between requests.
THEOREM SubscriptionsStayInStep == Spec => []SubscriptionsAgree
<1>1. IInv => SubscriptionsAgree
  <2> SUFFICES ASSUME IInv, NEW c \in Clients, reader[c] = "reading"
               PROVE  subs[c] = {ch \in Channels : c \in members[ch]}
    BY DEF SubscriptionsAgree
  <2>1. subs[c] \subseteq Channels
    BY DEF IInv, TypeOK
  <2>2. \A ch \in Channels : c \in members[ch] <=> ch \in subs[c]
    BY DEF IInv, MembershipInv, Expected, Departed
  <2> QED
    BY <2>1, <2>2
<1> QED
  BY <1>1, Inductive, PTL

=============================================================================
