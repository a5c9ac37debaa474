CONSTANTS
  Clients = {c1, c2}
  Channels = {ch1}
  Messages = {m1, m2, m3}
  Replies = {}
  SendCap = 1
  BroadcastCap = 1
  MaxRequests <- Uneven
  None = None
SPECIFICATION FairSpec
PROPERTIES
  LeaversAreTornDown
  SendersAreReleased
  ImplementsFairFeed
CHECK_DEADLOCK FALSE
