SPECIFICATION SweptSpec
CONSTANTS
  None = None
  Torn = Torn
  l1 = l1
  w1 = w1
  w2 = w2
  w3 = w3
  Ports = {p1}
  Models = {m1, m2}
  Pids = {q1, q2}
  Workers = {w1, w2}
  Launchers = {l1}
  LauncherOf <- OneLauncher
  Duties <- Swept
  Env = {"exit", "disk", "unreadable", "denied"}
PROPERTIES
  DeadClaimsPruned
