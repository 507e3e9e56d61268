SPECIFICATION Spec
CONSTANTS
  c1 = c1
  c2 = c2
  a1 = a1
  s1 = s1
  s2 = s2
  u1 = u1
  None = None
  Editor = Editor
  Credits = {c1, c2}
  Account <- OneAccount
  Expiry <- FirstExpires
  Schedulers = {s1, s2}
  Users = {u1}
  MaxNow = 1
  MaxEntries = 2
  Environments <- SafetyEnvironments
INVARIANTS TypeOK OneInDoubt SentIsClaimed
PROPERTIES ClaimKept
