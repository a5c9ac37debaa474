CONSTANTS
  Clients = {c1}
  Channels = {ch1}
  Messages = {m1, m2}
  Replies = {reply}
  SendCap = 1
  BroadcastCap = 1
  MaxRequests <- Thrice
  None = None
SPECIFICATION FairSpec
PROPERTIES
  FullClientsAreDisconnected
CHECK_DEADLOCK FALSE
