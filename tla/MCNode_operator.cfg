SPECIFICATION Spec
CONSTANTS
  None = None
  Torn = Torn
  l1 = l1
  w1 = w1
  w2 = w2
  w3 = w3
  Ports = {p1, p2}
  Models = {m1, m2}
  Pids = {q1, q2, q3, q4}
  Workers = {w1, w2}
  Launchers = {l1}
  LauncherOf <- OneLauncher
  Duties <- WithCanceller
  Env = {"spawn", "preflight", "unreadable"}
SYMMETRY Symmetry
INVARIANTS
  TypeOK
  NoOrphan
  OneServerPerPort
  RunningIsConfigured
  Truthful
  OperatorInv
PROPERTIES
  ImplementsService
