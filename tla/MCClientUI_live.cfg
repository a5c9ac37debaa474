CONSTANTS
  b1 = b1
  b2 = b2
  Browsers = {b1, b2}
  Stallers = {}
  QueueCap = 1
  MaxVersion = 1
  MaxItems = 1
SPECIFICATION FairSpec
\* The process may end in a fault, and the bounds be reached.
CHECK_DEADLOCK FALSE
PROPERTIES
  LeaversAreForgotten
  ImplementsFairFeed
