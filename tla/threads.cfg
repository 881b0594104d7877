SPECIFICATION FairSpec
CONSTANTS
  s0 = s0  s1 = s1  s2 = s2  s3 = s3
  c1 = c1  c2 = c2  c3 = c3
  NULL = NULL
  Server = {s0, s1, s2}
  me = s0
  Cell = {c1, c2}
  PeerTTL = 0
  MaxAge = 1
INVARIANTS TypeOK MutualExclusion NoCircularWait EachPeerOnce GuardedIsSafe
PROPERTIES ImplementsPeers MessagesAreHandled Stops
