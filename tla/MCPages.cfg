CONSTANTS
  Browsers = {b1, b2}
  Channels = {ch1}
  Messages = {1, 2}
  PageLimit = 1
  MaxClicks = 3
  MaxFaults = 1
  None = None
SPECIFICATION Spec
\* The bounds are reached.
CHECK_DEADLOCK FALSE
SYMMETRY Symmetry
INVARIANTS
  TypeOK
  PagesMissNothing
  MessagesShownOnce
  AsksBeforeTheOldest
