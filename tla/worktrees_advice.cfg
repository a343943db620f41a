\* One checkout and one request at a time.
SPECIFICATION Spec
CONSTANTS
  Checkouts = {main}
  Main = main
  Clients = {}
  Tasks = {t1}
  DependsOn <- Independent
  Checks = {c1}
  Actors = {agent}
  User = user
  Leases = {l1, l2}
  Records = {}
  None = None
  MaxCalls = 1
INVARIANTS
  AdviceCanBeFollowed
