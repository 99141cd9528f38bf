SPECIFICATION FairRemoteSpec
CONSTANTS
  None = None
  cli = cli
  peer = peer
  Callers = {cli, peer}
  Threads = {t1, t2}
  Models = {m1, m2}
  Setting <- TwoCallers
  Control = 1
  Grace = 1
  Margin = 2
  Ready = 2
PROPERTIES
  NoFalseFailure
  CallsReturn
