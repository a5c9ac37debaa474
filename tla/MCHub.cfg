CONSTANTS
  Clients = {c1, c2}
  Channels = {ch1}
  Messages = {m1, m2}
  Replies = {reply}
  SendCap = 1
  BroadcastCap = 2
  MaxRequests <- Twice
  None = None
SPECIFICATION Spec
SYMMETRY Symmetry
INVARIANTS
  TypeOK
  LoopAndReadersFindOpen
  DepartedLeaveNoTrace
  SubscriptionsAgree
  StreamsFollowBroadcastOrder
PROPERTIES
  ImplementsFeed
CHECK_DEADLOCK FALSE
