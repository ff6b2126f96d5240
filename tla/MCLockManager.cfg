SPECIFICATION Spec
CONSTANTS
  Name = {a, b}
  Thread = {t1, t2, t3}
  Late = FALSE
  NoName = NoName
SYMMETRY Symmetry
INVARIANTS TypeOK MutualExclusion IsLockedTells
CHECK_DEADLOCK FALSE
