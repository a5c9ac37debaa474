CONSTANTS
  Browsers = {u1}
  Starter = starter
  Hosts = {h1}
  Conns = {1, 2}
  SendCap = 1
  None = None
SPECIFICATION Spec
\* Callers may all wait on a connection whose writer has ended.
CHECK_DEADLOCK FALSE
INVARIANT
  AllActiveListed
