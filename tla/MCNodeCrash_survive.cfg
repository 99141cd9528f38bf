SPECIFICATION FairCrashSpec
CONSTANTS
  None = None
  Torn = Torn
  w1 = w1
  w2 = w2
  w3 = w3
  l1 = l1
  l2 = l2
  l3 = l3
  Ports = {p1}
  Models = {m1, m2}
  Pids = {q1, q2, q3}
  Workers = {w1, w2}
  Launchers = {l1, l2}
  LauncherOf <- OwnLaunchers
  Duties <- SwapAndStop
  Env = {"exit", "unreadable"}
INVARIANTS
  StaleMarkersHaveDeadOwners
  ClaimMatchesProcess
PROPERTIES
  VerbsReturn
