SPECIFICATION Spec
CONSTANTS
  s1 = s1
  s2 = s2
  s3 = s3
  s4 = s4
  h0 = h0
  h1 = h1
  a1 = a1
  a2 = a2
  c1 = c1
  Server = {s1,s2}
  Client = {c1}
  Hash = {h0}
  Addr = {a1}
  ZeroHash = h0
  MaxAge = 3
  HashTTL = 1
  PeerTTL = 1
  PERIOD = 1
  Contact <- ContactPair
  Budget <- BudgetGet
  Ticking = FALSE
  Prompt = FALSE
INVARIANT AsksOthersFirst
CHECK_DEADLOCK FALSE
