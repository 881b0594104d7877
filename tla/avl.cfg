SPECIFICATION Spec
CONSTANTS
  NULL = NULL
  DIVERGES = DIVERGES
  a1 = a1
  a2 = a2
  HASH_LENGTH = 2
  Text <- Texts
  Entry <- Entry6
  Addr = {a1, a2}
  HashTTL = 0
  MaxAge = 1
INVARIANTS EachOnce EveryCallReturns TreeIsInOrder TextIsNumber
PROPERTY ImplementsMap
