SPECIFICATION FairSpec
CONSTANTS
  Scope = {s1}
  Key = {k1, k2}
  Obj = {o1}
  Call = {c1, c2}
  Track = TRUE
  AutoPersist = TRUE
  Races = {"overlap", "evict", "rekey"}
  NoScope = NoScope
  NoKey = NoKey
  NoObj = NoObj
  NoProc = NoProc
INVARIANT LockMeansInside
PROPERTY CallsReturn
CHECK_DEADLOCK FALSE
