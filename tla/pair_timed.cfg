SPECIFICATION FairSpec
CONSTANTS
  s1 = s1
  s2 = s2
  s3 = s3
  s4 = s4
  h0 = h0
  h1 = h1
  a1 = a1
  a2 = a2
  c1 = c1
  Server = {s1,s2}
  Client = {}
  Hash = {h0}
  Addr = {a1}
  ZeroHash = h0
  MaxAge = 6
  HashTTL = 2
  PeerTTL = 3
  PERIOD = 2
  Contact <- ContactPair
  Budget <- BudgetTime
  Ticking = TRUE
  Prompt = TRUE
PROPERTIES NoFalseDeath FreshIsKept DeadAreForgotten ObsoleteIsForgotten Quiesces
CHECK_DEADLOCK FALSE
