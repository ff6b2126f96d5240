SPECIFICATION Spec
CONSTANTS
  Key = {k1, k2}
  Type = {t1}
  Value = {v1}
  Call = {c1, c2}
  Ref = {1, 2, 3, 4}
  MaxTime = 2
  SlidingLimit = 1
  AbsoluteLimit = 1
  Sliding <- MCSliding
  Absolute <- MCAbsolute
  NoLimit = NoLimit
  NoRef = NoRef
  NoValue = NoValue
  NoSlot = NoSlot
  NoKey = NoKey
SYMMETRY Symmetry
INVARIANTS TypeOK SingleHome
PROPERTIES ValuesComeFromWriters ImplementsAtomicStore
