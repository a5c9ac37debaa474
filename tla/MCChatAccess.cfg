CONSTANTS
  Clients = {c1, c2}
  Channels = {ch1}
  Messages = {m1}
  Groups = {g}
  Lists <- MCLists
  PageLimit = 1
  Times = {0}
  MaxRequests = 1
  MaxChanges = 1
  None = None
SPECIFICATION AccessFairSpec
\* Every connection may be gone, or the server halted.
CHECK_DEADLOCK FALSE
INVARIANTS
  ActorsMayAct
  SubscribersMayRead
PROPERTIES
  SubscribersAreTold
