\* Two checkouts, one of which comes and goes; no agent is named.
SPECIFICATION Spec
CONSTANTS
  Checkouts = {main, other}
  Main = main
  Clients = {cli}
  Tasks = {t1}
  DependsOn <- Independent
  Checks = {c1}
  Actors = {}
  User = user
  Leases = {l1, l2}
  Records = {r1}
  None = None
  MaxCalls = 2
INVARIANTS
  WorkIsExclusive
PROPERTIES
  LeasesEndForAReason
SYMMETRY IdSymmetry
