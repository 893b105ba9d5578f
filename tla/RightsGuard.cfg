\* Two transactions over the rights of one scope.
SPECIFICATION Spec
CONSTANTS
  u1 = u1
  u2 = u2
  u3 = u3
  m1 = m1
  m2 = m2
  m3 = m3
  a1 = a1
  a2 = a2
  a3 = a3
  r = r
  full = full
  viewer = viewer
  Users = {u1, u2, u3}
  Members = {m1, m2, m3}
  Customs = {r}
  Assigns = {a1, a2, a3}
  Archetypes = {full, viewer}
  Full = full
  Rights = {"x", "y"}
  GrantsOf <- MCGrants
  Txns = {t1, t2}
  Programs <- MCPrograms
  Starts <- MCStarts
  None = None
  Absent = Absent
CHECK_DEADLOCK FALSE
INVARIANTS MarkedRoleUnused ToolRuns
PROPERTIES LastHolderStays NoEscalation RightsRaiseVersion
