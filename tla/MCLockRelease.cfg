SPECIFICATION Spec
CONSTANTS
  Name = {a}
  Thread = {t1, t2}
  Late = TRUE
  NoName = NoName
INVARIANT MutualExclusion
CHECK_DEADLOCK FALSE
