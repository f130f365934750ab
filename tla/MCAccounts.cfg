\* Three requests and two Google calls of one known user and one new Google account.
SPECIFICATION Spec
CONSTANTS
  Requests = {r1, r2, r3}
  Calls = {c1, c2}
  Subs = {s0, s1}
  Known = u0
  KnownSub = s0
  Limit = 1
  Window = 2
  TokenLife = 2
  Margin = 1
  Lag = 1
  SessionLife = 2
  MaxTime = 2
  MaxGrants = 2
  None = none
  Faults = {"refused", "die", "bare"}
INVARIANTS CachedTokenIsGood DisconnectedIsForgotten AccountsInv 
SYMMETRY Interchangeable
CHECK_DEADLOCK FALSE
