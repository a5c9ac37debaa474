CONSTANTS
  b1 = b1
  b2 = b2
  Browsers = {b1, b2}
  Stallers = {b1, b2}
  QueueCap = 1
  MaxVersion = 1
  MaxItems = 3
SPECIFICATION Spec
\* The process may end in a fault, and the bounds be reached.
CHECK_DEADLOCK FALSE
SYMMETRY Symmetry
INVARIANTS
  TypeOK
  ItemsWithoutGaps
  NothingMissedAfterState
  EndedAreForgotten
PROPERTIES
  ImplementsFeed
