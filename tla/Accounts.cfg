CONSTANTS
  a = a
  b = b
  v = v
  s1 = s1
  s2 = s2
  Users = {a, b, v}
  Administrators = {a, b}
  Sessions = {s1, s2}
  NewAccounts <- MCNewAccounts
  Changes <- MCChanges
  MaxSecret = 1
  MaxCommits = 2
  MaxRequests = 2
  MaxVersion = 1
SPECIFICATION Spec
INVARIANTS
  LiveSessionsAreCurrent
PROPERTIES
  AdministratorRemains
  OnlyAdministratorsDecide
SYMMETRY MCSymmetry
CHECK_DEADLOCK FALSE
