SPECIFICATION AgentSpec
CONSTANTS
  None = None
  Torn = Torn
  w1 = w1
  t1 = t1
  t2 = t2
  s = s
  l1 = l1
  a = a
  Ports = {p1}
  Models = {m1}
  Pids = {q1, q2, q3}
  Workers = {w1, t1, t2, s}
  Launchers = {l1, a}
  LauncherOf <- OneAgent
  Duties <- StartAndStop
  Agent = a
  StopThreads = {t1, t2}
  Reaper = s
  Requests = {r1, r2}
  Env = {}
CONSTRAINT
  LaunchesSucceed
INVARIANTS
  StopsWhatItAccepted
