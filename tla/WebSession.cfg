SPECIFICATION SessionSpec
CONSTANTS
  t1 = t1
  t2 = t2
  u1 = u1
  u2 = u2
  Nobody = Nobody
  Tabs <- TwoTabs
  Users <- TwoUsers
  Budget = 4
SYMMETRY Symmetry
INVARIANT
  SessionSafe
PROPERTIES
  WrittenAsShown
  LoginSettles
