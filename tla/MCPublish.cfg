SPECIFICATION Spec
CONSTANTS
  lib = lib
  app = app
  Project = {lib, app}
  Dep <- MCDep
  Order <- MCOrder
  Content = {c1, c2}
  Job = {j1, j2}
  MaxCommits = 3
  Fails = {"tag"}
SYMMETRY Symmetry
INVARIANTS TypeOK  PackagesFitTogether JobsDeliver
