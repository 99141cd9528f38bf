SPECIFICATION Spec
CONSTANTS
  None = None
  Torn = Torn
  l1 = l1
  w1 = w1
  w2 = w2
  w3 = w3
  Ports = {p1}
  Models = {m1, m2}
  Pids = {q1, q2, q3}
  Workers = {w1, w2, w3}
  Launchers = {l1}
  LauncherOf <- OneLauncher
  Duties <- Contenders
  Env = {"exit", "reuse"}
SYMMETRY Symmetry
INVARIANTS
  IInv
  NoLeak
PROPERTIES
  LaunchUndisturbed
  StrangersSpared
