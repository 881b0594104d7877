SPECIFICATION Spec
CONSTANTS
  NULL = NULL
  DIVERGES = DIVERGES
  a1 = a1
  a2 = a2
  HASH_LENGTH = 2
  Text <- Seven
  Entry <- Entry7
  Addr = {a1}
  HashTTL = 0
  MaxAge = 1
INVARIANT EveryCallReturns
