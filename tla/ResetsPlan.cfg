SPECIFICATION Spec
CONSTANTS
  c1 = c1
  c2 = c2
  a1 = a1
  s1 = s1
  s2 = s2
  u1 = u1
  None = None
  Editor = Editor
  Credits = {c1, c2}
  Account <- OneAccount
  Expiry <- FirstExpires
  Schedulers = {s1}
  Users = {}
  MaxNow = 1
  MaxEntries = 1
  Environments <- PlanEnvironments
PROPERTIES ClaimsFreshPlan
