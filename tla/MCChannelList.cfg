CONSTANTS
  c1 = c1
  a1 = a1
  a2 = a2
  Clients = {c1}
  Admins = {a1, a2}
  Categories = {k1}
  Names = {n1}
  Channels = {ch1, ch2}
  Groups = {g}
  Lists <- MCLists
  MaxChanges = 2
  None = None
SPECIFICATION FairSpec
CHECK_DEADLOCK FALSE
INVARIANTS
  TypeOK
  SettledAreCurrent
PROPERTIES
  ListsCatchUp
