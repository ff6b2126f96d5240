SPECIFICATION Spec
CONSTANTS
  Browser = {b1, b2}
  Scope = {s1, s2}
  Key = {k1, k2, k3}
  Item = {i1}
  NoKey = NoKey
  Same = Same
SYMMETRY Symmetry
INVARIANTS TypeOK SessionsAreApart NothingIsLost SignOutLeavesNothing SignedInHasOneKey ScopesShareTheSession
