CONSTANTS
  Browsers = {u1}
  Starter = starter
  Hosts = {h1}
  Conns = {1, 2}
  SendCap = 1
  None = None
SPECIFICATION FairSpec
\* Callers may all wait on a connection whose writer has ended.
CHECK_DEADLOCK FALSE
INVARIANTS
  TypeOK
  DoneClosedOnce
  DeadAreUnlisted
  UncrossedAreListed
  StoredNamesStay
PROPERTIES
  LateReadersCloseSuccessors
  ImplementsRegistry
  PumpsEndTogether
  RequestersAreServed
