SPECIFICATION Spec
CONSTANTS
  Scope = {s1, s2}
  Key = {k1}
  Obj = {o1}
  Call = {c1, c2}
  Track = TRUE
  AutoPersist = TRUE
  Races = {"reenter"}
  NoScope = NoScope
  NoKey = NoKey
  NoObj = NoObj
  NoProc = NoProc
INVARIANT NeverWaitsForItself
