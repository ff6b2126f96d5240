SPECIFICATION FairSpec
CONSTANTS
  Comp = {c1, c2}
  NoComp = NoComp
  Call = {k1, k2}
INVARIANTS TypeOK OneTimer TimerHasOwner InitialisedMeansTimer StrandedIsArmed ConnectedIsAtRest
PROPERTIES ReloadsAreNeeded ActivityIsReported ComesBack
