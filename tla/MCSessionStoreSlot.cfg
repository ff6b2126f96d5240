SPECIFICATION FairSpec
CONSTANTS
  Key = {k1}
  Type = {t1}
  Value = {v1, v2}
  Call = {c1, c2}
  Ref = {1, 2, 3}
  MaxTime = 2
  SlidingLimit = 1
  AbsoluteLimit = 1
  Sliding <- MCSliding
  Absolute <- MCAbsolute
  NoLimit = NoLimit
  NoRef = NoRef
  NoValue = NoValue
  NoSlot = NoSlot
  NoKey = NoKey
PROPERTIES SweepSparesLive BirthIsKept CallsReturn SomeCallReturns
