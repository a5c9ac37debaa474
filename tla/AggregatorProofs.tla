-------------------------- MODULE AggregatorProofs --------------------------
(***************************************************************************)
(* Proofs about Aggregator, for any number of callers, hosts, connections  *)
(* and any capacity of the send channels.                                  *)
(***************************************************************************)
EXTENDS Aggregator, TLAPS

-----------------------------------------------------------------------------
(* The inductive invariant.  A connection is dialled, made by one caller,  *)
(* listed, taken off the map by one actor and closed by that actor, in     *)
(* this order; only its maker ever puts it in the map.                     *)

\* A connection that was not dialled has neither pumps nor a closed channel.
UndialledAreIdle ==
  \A c \in Conns :
    /\ sock[c] = "none" => at[c] = "none" /\ writer[c] = "none" /\ c \notin done
    /\ sock[c] # "none" => host[c] \in Hosts

TargetsAreHosts ==
  \A u \in Callers : at[u] \in Connecting => target[u] \in Hosts

\* The connection a caller is making is its own, and not being read yet.
Making(u) == at[u] \in {"register", "start"}

MadeByOne ==
  /\ \A u \in Callers : Making(u) =>
       /\ held[u] \in Conns
       /\ sock[held[u]] # "none"
       /\ host[held[u]] = target[u]
       /\ at[held[u]] = "none"
  /\ \A u, v \in Callers : Making(u) /\ Making(v) /\ held[u] = held[v] => u = v

\* Before it is registered nobody else has come across it.
NewAreUnknown ==
  \A u \in Callers : at[u] = "register" =>
    /\ held[u] \notin done
    /\ \A h \in Hosts : connections[h] # held[u]
    /\ \A a \in Actors : at[a] \in Closing => held[a] # held[u]

\* What the map lists is in use, and listed under its host.
ListedAreInUse ==
  \A h \in Hosts : connections[h] # None =>
    /\ sock[connections[h]] # "none"
    /\ host[connections[h]] = h
    /\ connections[h] \notin done
    /\ at[connections[h]] \notin {"gone"} \cup Closing
    /\ \A a \in Actors : at[a] \in Closing => held[a] # connections[h]

\* A connection is closed by one actor, which closes its done channel first.
ClosedByOne ==
  /\ \A a \in Actors : at[a] \in Closing =>
       /\ held[a] \in Conns
       /\ sock[held[a]] # "none"
       /\ at[a] = "close_done" => held[a] \notin done
       /\ at[a] = "close_conn" => held[a] \in done
  /\ \A a, b \in Actors :
       at[a] \in Closing /\ at[b] \in Closing /\ held[a] = held[b] => a = b

\* A caller waiting to send holds a connection.
PushersHoldOne == \A u \in Callers : at[u] = "push" => held[u] \in Conns

IInv ==
  /\ TypeOK
  /\ UndialledAreIdle
  /\ TargetsAreHosts
  /\ MadeByOne
  /\ NewAreUnknown
  /\ ListedAreInUse
  /\ ClosedByOne
  /\ PushersHoldOne

-----------------------------------------------------------------------------
LEMMA InitIInv == Init => IInv
  BY KindsAssumption, SendCapAssumption
  DEF Init, IInv, TypeOK, UndialledAreIdle, TargetsAreHosts, MadeByOne, Making,
      NewAreUnknown, ListedAreInUse, ClosedByOne, PushersHoldOne,
      Callers, Actors, CallerStates, ReaderStates, Reading, OnTheWay, Connecting, Closing

LEMMA StepIInv == IInv /\ [Next]_vars => IInv'
<1> SUFFICES ASSUME IInv, [Next]_vars PROVE IInv'
  OBVIOUS
<1> USE KindsAssumption, SendCapAssumption
    DEF IInv, TypeOK, UndialledAreIdle, TargetsAreHosts, MadeByOne, Making,
        NewAreUnknown, ListedAreInUse, ClosedByOne, PushersHoldOne,
        Callers, Actors, CallerStates, ReaderStates, Reading, OnTheWay, Connecting,
        Closing, mapVars, callerVars, rowVars, wireVars
<1>1. ASSUME NEW u \in Callers, NEW h \in Hosts, Check(u, h), todo' \in SUBSET Hosts
      PROVE  IInv'
  BY <1>1 DEF Check
<1>21. ASSUME Load PROVE IInv'
  BY <1>21 DEF Load
<1>22. ASSUME NEW h \in Hosts, ConnectNext(h) PROVE IInv'
  <2>1. CASE Check(Starter, h)
    BY <1>1, <1>22, <2>1 DEF ConnectNext
  <2>2. CASE UNCHANGED <<callerVars, name, wireVars>>
    BY <1>22, <2>2 DEF ConnectNext
  <2> QED
    BY <1>22, <2>1, <2>2 DEF ConnectNext
<1>23. ASSUME NEW u \in Callers, NEW h \in Hosts, Ask(u, h) PROVE IInv'
  BY <1>1, <1>23 DEF Ask
<1>2. ASSUME NEW u \in Callers, Enroll(u) PROVE IInv'
  BY <1>2 DEF Enroll
<1>3. ASSUME NEW u \in Callers, ConnectFails(u) PROVE IInv'
  BY <1>3 DEF ConnectFails
<1>4. ASSUME NEW u \in Callers, NEW c \in Conns, Dial(u, c) PROVE IInv'
  BY <1>4 DEF Dial, Fresh
<1>5. ASSUME NEW u \in Callers, Register(u) PROVE IInv'
  BY <1>5 DEF Register
<1>6. ASSUME NEW u \in Callers, Start(u) PROVE IInv'
  <2>1. PICK c \in Conns : c = held[u] /\ at[c] = "none" /\ sock[c] # "none"
    BY <1>6 DEF Start
  <2>2. u # c
    BY <2>1
  <2>3. /\ at' = [at EXCEPT ![u] = "idle", ![c] = "reading"]
        /\ held' = [held EXCEPT ![u] = None]
        /\ target' = [target EXCEPT ![u] = None]
        /\ writer' = [writer EXCEPT ![c] = "running"]
        /\ UNCHANGED <<mapVars, host, rowVars, done, sock, send>>
    BY <1>6, <2>1 DEF Start
  <2>4. TypeOK'
    <3>1. at' \in [Actors -> CallerStates \cup ReaderStates]
      BY <2>1, <2>3
    <3>2. \A v \in Callers : at'[v] \in CallerStates
      BY <2>1, <2>2, <2>3
    <3>3. \A d \in Conns : at'[d] \in ReaderStates
      BY <2>1, <2>2, <2>3
    <3> QED
      BY <2>1, <2>3, <3>1, <3>2, <3>3
  <2>5. UndialledAreIdle'
    BY <2>1, <2>2, <2>3
  <2>10. TargetsAreHosts'
    BY <2>1, <2>2, <2>3
  <2>11. PushersHoldOne'
    BY <2>1, <2>2, <2>3
  <2>6. MadeByOne'
    BY <1>6, <2>1, <2>2, <2>3 DEF Start
  <2>7. NewAreUnknown'
    BY <2>1, <2>2, <2>3
  <2>8. ListedAreInUse'
    BY <2>1, <2>2, <2>3
  <2>9. ClosedByOne'
    BY <2>1, <2>2, <2>3
  <2> QED
    BY <2>4, <2>5, <2>6, <2>7, <2>8, <2>9, <2>10, <2>11
<1>7. ASSUME NEW u \in Callers, Push(u) PROVE IInv'
  BY <1>7 DEF Push
<1>8. ASSUME NEW u \in Callers, NEW h \in Hosts, Request(u, h) PROVE IInv'
  BY <1>8 DEF Request
<1>9. ASSUME NEW u \in Callers, NEW h \in Hosts, Disconnect(u, h) PROVE IInv'
  BY <1>9 DEF Disconnect, Remove
<1>10. ASSUME NEW c \in Conns, AuthOK(c) PROVE IInv'
  BY <1>10 DEF AuthOK
<1>11. ASSUME NEW c \in Conns, Rename(c) PROVE IInv'
  BY <1>11 DEF Rename
<1>12. ASSUME NEW c \in Conns, ReadFails(c) PROVE IInv'
  BY <1>12 DEF ReadFails
<1>13. ASSUME NEW c \in Conns, Leave(c) PROVE IInv'
  <2>1. CASE Remove(c, host[c])
    <3>1. c \notin Callers /\ host[c] \in Hosts
      BY <1>13 DEF Leave
    <3>2. PICK d \in Conns : d = connections[host[c]]
      BY <2>1, <3>1 DEF Remove
    <3>3. /\ held' = [held EXCEPT ![c] = d]
          /\ connections' = [connections EXCEPT ![host[c]] = None]
          /\ at' = [at EXCEPT ![c] = "close_done"]
          /\ at[c] = "leaving"
          /\ UNCHANGED <<crossed, host, target, rowVars, wireVars>>
      BY <1>13, <2>1, <3>2 DEF Leave, Remove
    <3>4. TypeOK' /\ UndialledAreIdle' /\ TargetsAreHosts' /\ PushersHoldOne'
      BY <3>1, <3>2, <3>3
    <3>5. MadeByOne' /\ NewAreUnknown'
      BY <3>1, <3>2, <3>3
    <3>6. ListedAreInUse'
      BY <3>1, <3>2, <3>3
    <3>7. ClosedByOne'
      BY <3>1, <3>2, <3>3
    <3> QED
      BY <3>4, <3>5, <3>6, <3>7
  <2>2. CASE connections[host[c]] = None
    BY <1>13, <2>2 DEF Leave, Remove
  <2> QED
    BY <1>13, <2>1, <2>2 DEF Leave
<1>14. ASSUME NEW c \in Conns, Write(c) PROVE IInv'
  BY <1>14 DEF Write
<1>15. ASSUME NEW c \in Conns, WriteFails(c) PROVE IInv'
  <2>1. send' \in [Conns -> 0..SendCap]
    <3>1. CASE UNCHANGED send
      BY <3>1
    <3>2. CASE send[c] > 0 /\ send' = [send EXCEPT ![c] = @ - 1]
      <4>1. send[c] - 1 \in 0..SendCap
        BY <3>2
      <4> QED
        BY <3>2, <4>1
    <3> QED
      BY <1>15, <3>1, <3>2 DEF WriteFails
  <2>2. /\ writer' = [writer EXCEPT ![c] = "gone"]
        /\ sock' = [sock EXCEPT ![c] = "closed"]
        /\ sock[c] # "none"
        /\ UNCHANGED <<callerVars, rowVars, done>>
    BY <1>15 DEF WriteFails
  <2> QED
    BY <2>1, <2>2
<1>16. ASSUME NEW c \in Conns, Stop(c) PROVE IInv'
  BY <1>16 DEF Stop
<1>17. ASSUME NEW c \in Conns, Break(c) PROVE IInv'
  BY <1>17 DEF Break
<1>18. ASSUME NEW a \in Actors, CloseDone(a) PROVE IInv'
  BY <1>18 DEF CloseDone
<1>19. ASSUME NEW a \in Actors, CloseConn(a) PROVE IInv'
  BY <1>19 DEF CloseConn
<1>20. CASE UNCHANGED vars
  BY <1>20 DEF vars
<1> QED
  BY <1>1, <1>2, <1>3, <1>4, <1>5, <1>6, <1>7, <1>8, <1>9, <1>10, <1>11, <1>12,
     <1>13, <1>14, <1>15, <1>16, <1>17, <1>18, <1>19, <1>20, <1>21, <1>22, <1>23
  DEF Next, ConnectOn, BrowserNext, ConnNext

LEMMA SpecIInv == Spec => []IInv
  BY InitIInv, StepIInv, PTL DEF Spec

-----------------------------------------------------------------------------
\* The types of Aggregator's variables, whatever the callers do.
THEOREM AggregatorTypeCorrect == Spec => []TypeOK
<1>1. IInv => TypeOK
  BY DEF IInv
<1> QED
  BY <1>1, SpecIInv, PTL

\* Disconnect and the readers never close a done channel twice.
THEOREM DoneChannelsAreClosedOnce == Spec => []DoneClosedOnce
<1>1. IInv => DoneClosedOnce
  BY DEF IInv, ClosedByOne, DoneClosedOnce, Closing
<1> QED
  BY <1>1, SpecIInv, PTL

\* The map never has, or gets back, a connection whose reader has ended.
THEOREM TheDeadStayUnlisted == Spec => []DeadAreUnlisted
<1>1. IInv => DeadAreUnlisted
  BY KindsAssumption DEF IInv, TypeOK, ListedAreInUse, DeadAreUnlisted
<1> QED
  BY <1>1, SpecIInv, PTL

-----------------------------------------------------------------------------
(* A caller on its way has found no connection to its host, so what the    *)
(* map has for the host by now was registered meanwhile, and was crossed.  *)
(* Hence whatever a Register writes over was crossed, and every other      *)
(* connection stays listed until somebody closes it.                       *)

OnlyCrossedMeanwhile ==
  \A u \in Callers : at[u] \in OnTheWay => connections[target[u]] \in crossed \cup {None}

\* Read, or about to be read, and neither told to end nor being closed.
InUse(c) ==
  /\ c \notin done
  /\ \A a \in Actors : at[a] \in Closing => held[a] # c
  /\ \/ at[c] \in {"auth", "leaving"} \cup Reading
     \/ \E u \in Callers : at[u] = "start" /\ held[u] = c

InUseAreListed ==
  \A c \in Conns : InUse(c) => connections[host[c]] = c \/ c \in crossed

CrossInv == OnlyCrossedMeanwhile /\ InUseAreListed

LEMMA StepCrossInv ==
  IInv /\ CrossInv /\ [Next]_vars => CrossInv'
<1> SUFFICES ASSUME IInv, CrossInv, [Next]_vars PROVE CrossInv'
  OBVIOUS
<1> USE KindsAssumption
    DEF CrossInv, OnlyCrossedMeanwhile, InUseAreListed, InUse, IInv, TypeOK,
        UndialledAreIdle, TargetsAreHosts, MadeByOne, Making, NewAreUnknown,
        ListedAreInUse, ClosedByOne, Callers, Actors, CallerStates, ReaderStates,
        Reading, OnTheWay, Connecting, Closing, mapVars, callerVars, rowVars, wireVars
<1>1. ASSUME NEW u \in Callers, NEW h \in Hosts, Check(u, h) PROVE CrossInv'
  BY <1>1 DEF Check
<1>21. ASSUME Load PROVE CrossInv'
  BY <1>21 DEF Load
<1>22. ASSUME UNCHANGED <<callerVars, wireVars>> PROVE CrossInv'
  BY <1>22
<1>2. ASSUME NEW u \in Callers, Enroll(u) PROVE CrossInv'
  BY <1>2 DEF Enroll
<1>3. ASSUME NEW u \in Callers, ConnectFails(u) PROVE CrossInv'
  BY <1>3 DEF ConnectFails
<1>4. ASSUME NEW u \in Callers, NEW c \in Conns, Dial(u, c) PROVE CrossInv'
  BY <1>4 DEF Dial, Fresh
<1>5. ASSUME NEW u \in Callers, Register(u) PROVE CrossInv'
  BY <1>5 DEF Register
<1>6. ASSUME NEW u \in Callers, Start(u) PROVE CrossInv'
  <2>1. \A d \in Conns : InUse(d)' => InUse(d)
    BY <1>6 DEF Start
  <2>2. OnlyCrossedMeanwhile' /\ UNCHANGED <<mapVars, host>>
    BY <1>6 DEF Start
  <2> QED
    BY <2>1, <2>2
<1>7. ASSUME NEW u \in Callers, Push(u) PROVE CrossInv'
  <2>1. \A d \in Conns : InUse(d)' => InUse(d)
    BY <1>7 DEF Push
  <2>2. OnlyCrossedMeanwhile' /\ UNCHANGED <<mapVars, host>>
    BY <1>7 DEF Push
  <2> QED
    BY <2>1, <2>2
<1>8. ASSUME NEW u \in Callers, NEW h \in Hosts, Request(u, h) PROVE CrossInv'
  BY <1>8 DEF Request
<1>9. ASSUME NEW u \in Callers, NEW h \in Hosts, Disconnect(u, h) PROVE CrossInv'
  BY <1>9 DEF Disconnect, Remove
<1>10. ASSUME NEW c \in Conns, AuthOK(c) PROVE CrossInv'
  <2>1. \A d \in Conns : InUse(d)' => InUse(d)
    BY <1>10 DEF AuthOK
  <2>2. OnlyCrossedMeanwhile' /\ UNCHANGED <<mapVars, host>>
    BY <1>10 DEF AuthOK
  <2> QED
    BY <2>1, <2>2
<1>11. ASSUME NEW c \in Conns, Rename(c) PROVE CrossInv'
  BY <1>11 DEF Rename
<1>12. ASSUME NEW c \in Conns, ReadFails(c) PROVE CrossInv'
  BY <1>12 DEF ReadFails
<1>13. ASSUME NEW c \in Conns, Leave(c) PROVE CrossInv'
  <2>1. CASE Remove(c, host[c])
    <3>1. \A d \in Conns : InUse(d)' => InUse(d) /\ (host[d] # host[c] \/ d \in crossed)
      BY <1>13, <2>1 DEF Leave, Remove
    <3>2. OnlyCrossedMeanwhile'
      BY <1>13, <2>1 DEF Leave, Remove
    <3> QED
      BY <2>1, <3>1, <3>2 DEF Remove
  <2>2. CASE connections[host[c]] = None
    <3>1. \A d \in Conns : InUse(d)' => InUse(d)
      BY <1>13, <2>2 DEF Leave, Remove
    <3>2. OnlyCrossedMeanwhile' /\ UNCHANGED <<mapVars, host>>
      BY <1>13, <2>2 DEF Leave, Remove
    <3> QED
      BY <3>1, <3>2
  <2> QED
    BY <1>13, <2>1, <2>2 DEF Leave
<1>14. ASSUME NEW c \in Conns, Write(c) PROVE CrossInv'
  BY <1>14 DEF Write
<1>15. ASSUME NEW c \in Conns, WriteFails(c) PROVE CrossInv'
  BY <1>15 DEF WriteFails
<1>16. ASSUME NEW c \in Conns, Stop(c) PROVE CrossInv'
  BY <1>16 DEF Stop
<1>17. ASSUME NEW c \in Conns, Break(c) PROVE CrossInv'
  BY <1>17 DEF Break
<1>18. ASSUME NEW a \in Actors, CloseDone(a) PROVE CrossInv'
  BY <1>18 DEF CloseDone
<1>19. ASSUME NEW a \in Actors, CloseConn(a) PROVE CrossInv'
  BY <1>19 DEF CloseConn
<1>20. CASE UNCHANGED vars
  BY <1>20 DEF vars
<1> QED
  BY <1>1, <1>2, <1>3, <1>4, <1>5, <1>6, <1>7, <1>8, <1>9, <1>10, <1>11, <1>12,
     <1>13, <1>14, <1>15, <1>16, <1>17, <1>18, <1>19, <1>20, <1>21, <1>22
  DEF Next, ConnectOn, BrowserNext, ConnNext, Ask, ConnectNext

LEMMA SpecCrossInv == Spec => []CrossInv
<1>1. Init => CrossInv
  BY KindsAssumption
  DEF Init, CrossInv, OnlyCrossedMeanwhile, InUseAreListed, InUse, Callers, Actors,
      OnTheWay, Reading, Closing
<1> QED
  BY <1>1, StepCrossInv, SpecIInv, PTL DEF Spec

\* However many callers connect to a host at once: every connection being
\* read, and that nobody is closing, is in the map, or was registered while
\* another Connect to its host had found none.
THEOREM OnlyCrossedAreUnlisted == Spec => []UncrossedAreListed
<1>1. CrossInv => UncrossedAreListed
  BY DEF CrossInv, InUseAreListed, InUse, UncrossedAreListed, Active
<1> QED
  BY <1>1, SpecCrossInv, PTL

-----------------------------------------------------------------------------
(* The row of a host keeps the name the server gave on the connection the  *)
(* map has, because a Connect only enrolls a host that has none.           *)

LEMMA StepStoredNamesStay ==
  IInv /\ CrossInv /\ StoredNamesStay /\ [Next]_vars => StoredNamesStay'
<1> SUFFICES ASSUME IInv, CrossInv, StoredNamesStay, [Next]_vars PROVE StoredNamesStay'
  OBVIOUS
<1> USE KindsAssumption
    DEF StoredNamesStay, CrossInv, OnlyCrossedMeanwhile, IInv, TypeOK, TargetsAreHosts,
        MadeByOne, Making, ListedAreInUse, UndialledAreIdle, Callers, Actors,
        CallerStates, ReaderStates, Reading, OnTheWay, Connecting, Closing,
        mapVars, callerVars, rowVars, wireVars
<1>1. ASSUME NEW u \in Callers,
             \/ ConnectFails(u) \/ Push(u)
             \/ (\E h \in Hosts : Check(u, h) \/ Request(u, h))
      PROVE  StoredNamesStay'
  <2>1. /\ UNCHANGED <<connections, crossed, host, name>>
        /\ \A c \in Conns : at'[c] = at[c]
    BY <1>1 DEF Check, ConnectFails, Push, Request
  <2> QED
    BY <2>1
<1>2. ASSUME NEW u \in Callers, NEW c \in Conns, Dial(u, c) PROVE StoredNamesStay'
  BY <1>2 DEF Dial, Fresh
<1>3. ASSUME NEW u \in Callers, Enroll(u) PROVE StoredNamesStay'
  BY <1>3 DEF Enroll
<1>4. ASSUME NEW u \in Callers, Register(u) PROVE StoredNamesStay'
  BY <1>4 DEF Register
<1>5. ASSUME NEW u \in Callers, Start(u) PROVE StoredNamesStay'
  BY <1>5 DEF Start
<1>6. ASSUME NEW u \in Callers, NEW h \in Hosts, Disconnect(u, h) PROVE StoredNamesStay'
  BY <1>6 DEF Disconnect, Remove
<1>7. ASSUME NEW c \in Conns, AuthOK(c) \/ ReadFails(c) PROVE StoredNamesStay'
  BY <1>7 DEF AuthOK, ReadFails
<1>8. ASSUME NEW c \in Conns, Rename(c) PROVE StoredNamesStay'
  BY <1>8 DEF Rename
<1>9. ASSUME NEW c \in Conns, Leave(c) PROVE StoredNamesStay'
  BY <1>9 DEF Leave, Remove
<1>10. ASSUME NEW c \in Conns, Write(c) \/ WriteFails(c) \/ Stop(c) \/ Break(c)
       PROVE  StoredNamesStay'
  BY <1>10 DEF Write, WriteFails, Stop, Break
<1>11. ASSUME NEW a \in Actors, CloseDone(a) \/ CloseConn(a) PROVE StoredNamesStay'
  BY <1>11 DEF CloseDone, CloseConn
<1>12. ASSUME Load PROVE StoredNamesStay'
  BY <1>12 DEF Load
<1>13. ASSUME UNCHANGED <<callerVars, name>> PROVE StoredNamesStay'
  BY <1>13
<1> QED
  BY <1>1, <1>2, <1>3, <1>4, <1>5, <1>6, <1>7, <1>8, <1>9, <1>10, <1>11, <1>12, <1>13
  DEF Next, ConnectOn, BrowserNext, ConnNext, Ask, ConnectNext, vars

\* Once a server's own name is stored, only a Connect that crossed the
\* connection in use puts the host name back.
THEOREM OnlyCrossedAreMisnamed == Spec => []StoredNamesStay
<1>1. Init => StoredNamesStay
  BY KindsAssumption DEF Init, StoredNamesStay, Actors, Callers
<1> QED
  BY <1>1, StepStoredNamesStay, SpecIInv, SpecCrossInv, PTL DEF Spec

-----------------------------------------------------------------------------
(* The map of connections, seen from outside.                              *)

\* What a reader takes off the map is its own connection, or one whose host's
\* earlier connection, its own, was disconnected before, or crossed.
LEMMA LeaverTakesListed ==
  ASSUME IInv, CrossInv, NEW c \in Conns, Next,
         at[c] = "leaving", at'[c] = "close_done", held'[c] # c
  PROVE  c \in done \cup crossed \/ \E a \in Actors : at[a] \in Closing /\ held[a] = c
<1> USE KindsAssumption DEF Callers, Actors
<1>1. Remove(c, host[c])
  <2>1. \A u \in Callers : u # c
    OBVIOUS
  <2>2. /\ ~Load
        /\ \A h \in Hosts : ~ConnectNext(h)
        /\ \A u \in Callers : ~ConnectOn(u)
        /\ \A u \in Browsers : ~BrowserNext(u)
    BY <2>1 DEF IInv, TypeOK, Load, ConnectNext, ConnectOn, BrowserNext, Check, Ask,
           Enroll, ConnectFails, Register, Start, Push, Dial, Disconnect, Request,
           Remove, MadeByOne, Making, callerVars
  <2>3. \A a \in Actors : ~CloseDone(a) /\ ~CloseConn(a)
    BY DEF IInv, TypeOK, CloseDone, CloseConn
  <2>4. ASSUME NEW d \in Conns, ConnNext(d) PROVE d = c /\ Leave(c)
    <3>1. ~(Write(d) \/ WriteFails(d) \/ Stop(d) \/ Break(d))
      BY DEF Write, WriteFails, Stop, Break, callerVars
    <3>2. ~(AuthOK(d) \/ Rename(d) \/ ReadFails(d))
      BY DEF IInv, TypeOK, AuthOK, Rename, ReadFails
    <3>3. Leave(d)
      BY <2>4, <3>1, <3>2 DEF ConnNext
    <3> QED
      BY <3>3 DEF IInv, TypeOK, Leave, Remove
  <2>5. Leave(c)
    BY <2>2, <2>3, <2>4 DEF Next
  <2> QED
    BY <2>5 DEF IInv, TypeOK, Leave
<1>2. connections[host[c]] # c
  BY <1>1 DEF IInv, TypeOK, Remove
<1>3. c \in crossed \/ ~InUse(c)
  BY <1>2 DEF CrossInv, InUseAreListed
<1> QED
  BY <1>3 DEF InUse

\* A reader closes another connection than its own only when its own had been
\* disconnected by somebody else, or crossed by another Connect.
THEOREM ReadersCloseTheirOwn == Spec => LateReadersCloseSuccessors
<1>1. IInv /\ CrossInv /\ [Next]_vars =>
        [\A c \in Conns :
           at[c] = "leaving" /\ at'[c] = "close_done" /\ held'[c] # c =>
             \/ c \in done \cup crossed
             \/ \E a \in Actors : at[a] \in Closing /\ held[a] = c]_vars
  BY LeaverTakesListed
<1> QED
  BY <1>1, SpecIInv, SpecCrossInv, PTL DEF Spec, LateReadersCloseSuccessors

-----------------------------------------------------------------------------
(* The refinement.  Only Register, Remove and CloseDone show.              *)

slotVars == <<connections, Listed, crossed, Out, done>>

\* Who is about to register, and who is about to close a done channel.
LEMMA OthersStutter ==
  ASSUME IInv, UNCHANGED <<mapVars, done>>,
         \A c \in Conns : sock'[c] # "none" <=> sock[c] # "none",
         \A a \in Actors : at'[a] = "close_done" <=> at[a] = "close_done",
         \A u \in Callers : at'[u] = "register" <=> at[u] = "register",
         \A a \in Actors : at[a] \in {"register", "close_done"} => held'[a] = held[a]
  PROVE  UNCHANGED slotVars
<1>1. Listed' = Listed
  BY DEF Listed, Actors
<1>2. Out' = Out
  BY DEF Out
<1> QED
  BY <1>1, <1>2 DEF slotVars, mapVars

LEMMA RegisterOpens ==
  ASSUME IInv, CrossInv, NEW u \in Callers, Register(u)
  PROVE  Slots!Open(target[u], held[u]) /\ target[u] \in Hosts /\ held[u] \in Conns
<1> USE KindsAssumption DEF IInv, TypeOK, Callers, Actors
<1>1. /\ held[u] \in Conns /\ target[u] \in Hosts
      /\ sock[held[u]] # "none" /\ connections[target[u]] \in crossed \cup {None}
  BY DEF Register, MadeByOne, Making, CrossInv, OnlyCrossedMeanwhile, OnTheWay,
         TargetsAreHosts, Connecting
<1>2. held[u] \notin Listed
  BY DEF Register, Listed
<1>3. Listed' = Listed \cup {held[u]}
  <2>1. \A v \in Callers : at'[v] = "register" <=> at[v] = "register" /\ v # u
    BY DEF Register
  <2>2. \A v \in Callers : at[v] = "register" /\ held[v] = held[u] => v = u
    BY DEF Register, MadeByOne, Making
  <2> QED
    BY <1>1, <2>1, <2>2 DEF Register, Listed, wireVars
<1>4. Out' = Out
  <2>1. \A a \in Actors : at'[a] = "close_done" <=> at[a] = "close_done"
    BY DEF Register
  <2> QED
    BY <2>1 DEF Register, Out
<1>5. crossed' \in {crossed, crossed \cup {held[u]}}
  BY DEF Register
<1> QED
  BY <1>1, <1>2, <1>3, <1>4, <1>5 DEF Register, Slots!Open, wireVars

LEMMA RemoveCloses ==
  ASSUME IInv, NEW a \in Actors, NEW h \in Hosts, Remove(a, h),
         at[a] \notin {"register", "close_done"}
  PROVE  Slots!Close(h)
<1> USE DEF IInv, TypeOK
<1>1. Listed' = Listed
  BY DEF Remove, Listed, Actors, wireVars
<1>2. Out' = Out \cup {connections[h]}
  <2>1. \A b \in Actors : b # a => at'[b] = at[b] /\ held'[b] = held[b]
    BY DEF Remove
  <2>2. at'[a] = "close_done" /\ held'[a] = connections[h]
    BY DEF Remove
  <2> QED
    BY <2>1, <2>2 DEF Out
<1> QED
  BY <1>1, <1>2 DEF Remove, Slots!Close, wireVars

LEMMA CloseDoneRetires ==
  ASSUME IInv, NEW a \in Actors, CloseDone(a)
  PROVE  Slots!Retire(held[a]) /\ held[a] \in Conns
<1> USE DEF IInv, TypeOK
<1>1. /\ held[a] \in Conns /\ held[a] \notin done
      /\ \A b \in Actors : at[b] = "close_done" /\ held[b] = held[a] => b = a
  BY DEF CloseDone, ClosedByOne, Closing
<1>2. held[a] \in Out
  BY DEF CloseDone, Out
<1>3. Listed' = Listed
  BY DEF CloseDone, Listed, Actors
<1>4. Out' = Out \ {held[a]}
  <2>1. \A b \in Actors : at'[b] = "close_done" <=> at[b] = "close_done" /\ b # a
    BY DEF CloseDone
  <2> QED
    BY <1>1, <2>1 DEF CloseDone, Out
<1> QED
  BY <1>1, <1>2, <1>3, <1>4 DEF CloseDone, Slots!Retire, mapVars

LEMMA StepImplementsRegistry ==
  ASSUME IInv, CrossInv, [Next]_vars
  PROVE  [Slots!Next]_slotVars
<1> USE KindsAssumption DEF Actors
<1>1. ASSUME NEW u \in Callers, Register(u) PROVE Slots!Next
  BY <1>1, RegisterOpens DEF Slots!Next
<1>2. ASSUME NEW u \in Callers, NEW h \in Hosts, Disconnect(u, h) PROVE Slots!Next
  BY <1>2, RemoveCloses DEF Disconnect, Slots!Next
<1>3. ASSUME NEW a \in Actors, CloseDone(a) PROVE Slots!Next
  BY <1>3, CloseDoneRetires DEF Slots!Next
<1>4. ASSUME NEW c \in Conns, Leave(c) PROVE [Slots!Next]_slotVars
  <2>1. CASE Remove(c, host[c])
    <3>1. host[c] \in Hosts
      BY <1>4 DEF IInv, Leave, UndialledAreIdle
    <3> QED
      BY <1>4, <2>1, <3>1, RemoveCloses DEF Leave, Slots!Next
  <2>2. CASE ~Remove(c, host[c])
    BY <1>4, <2>2, OthersStutter DEF IInv, TypeOK, Leave, mapVars, wireVars
  <2> QED
    BY <2>1, <2>2
<1>5. ASSUME NEW u \in Callers, NEW c \in Conns, Dial(u, c) PROVE UNCHANGED slotVars
  <2>1. Listed' = Listed
    BY <1>5 DEF IInv, TypeOK, Dial, Fresh, Listed, Callers
  <2>2. Out' = Out
    BY <1>5 DEF IInv, TypeOK, Dial, Out, Callers
  <2> QED
    BY <1>5, <2>1, <2>2 DEF Dial, slotVars, mapVars
<1>6. ASSUME NEW u \in Callers,
             \/ Enroll(u) \/ ConnectFails(u) \/ Start(u) \/ Push(u)
             \/ (\E h \in Hosts : Check(u, h) \/ Request(u, h))
      PROVE  UNCHANGED slotVars
  BY <1>6, OthersStutter
  DEF IInv, TypeOK, Check, Enroll, ConnectFails, Start, Push, Request, MadeByOne,
      Making, Callers, Connecting, OnTheWay, mapVars, wireVars
<1>7. ASSUME Load PROVE UNCHANGED slotVars
  BY <1>7, OthersStutter DEF IInv, TypeOK, Load, Callers, wireVars
<1>8. ASSUME NEW c \in Conns, AuthOK(c) \/ Rename(c) \/ ReadFails(c)
      PROVE  UNCHANGED slotVars
  BY <1>8, OthersStutter
  DEF IInv, TypeOK, AuthOK, Rename, ReadFails, Reading, Callers, wireVars
<1>9. ASSUME NEW c \in Conns, Write(c) \/ WriteFails(c) \/ Stop(c) \/ Break(c)
      PROVE  UNCHANGED slotVars
  BY <1>9, OthersStutter
  DEF IInv, TypeOK, UndialledAreIdle, Write, WriteFails, Stop, Break, callerVars
<1>10. ASSUME NEW a \in Actors, CloseConn(a) PROVE UNCHANGED slotVars
  BY <1>10, OthersStutter
  DEF IInv, TypeOK, CloseConn, ClosedByOne, Closing, Callers
<1>11. ASSUME UNCHANGED <<callerVars, wireVars>> PROVE UNCHANGED slotVars
  BY <1>11 DEF callerVars, mapVars, wireVars, slotVars, Listed, Out
<1> QED
  BY <1>1, <1>2, <1>3, <1>4, <1>5, <1>6, <1>7, <1>8, <1>9, <1>10, <1>11
  DEF Next, ConnectOn, BrowserNext, ConnNext, Ask, ConnectNext, vars, Callers

\* The map of connections is a Registry however many callers connect at once:
\* one connection to a host at a time, listed once; only a crossed one is ever
\* written over; whatever is taken off the map is told to end, once.
THEOREM MapImplementsRegistry == Spec => ImplementsRegistry
<1>1. Init => Slots!Init
  BY KindsAssumption DEF Init, Slots!Init, Listed, Out, Actors, Callers
<1>2. IInv /\ CrossInv /\ [Next]_vars => [Slots!Next]_(Slots!vars)
  BY StepImplementsRegistry DEF slotVars, Slots!vars
<1> QED
  BY <1>1, <1>2, SpecIInv, SpecCrossInv, PTL DEF Spec, ImplementsRegistry, Slots!Spec
=============================================================================
