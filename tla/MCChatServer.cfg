CONSTANTS
  Clients = {c1, c2}
  Channels = {ch1}
  Messages = {m1, m2}
  Groups = {}
  Lists <- MCLists
  PageLimit = 1
  Times = {0, 1}
  MaxRequests = 2
  MaxChanges = 1
  None = None
SPECIFICATION ChatSpec
SYMMETRY Symmetry
INVARIANTS
  ChatTypeOK
  NoGap
  SendersKeepTheirOrder
  DeletedChannelsKeepNothing
PROPERTIES
  ImplementsPosting
CHECK_DEADLOCK FALSE
