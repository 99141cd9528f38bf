SPECIFICATION ConsoleSpec
CONSTANTS
    Models = {m1, m2, m3}
    Ports = {p1}
    Pids = {q1, q2}
    None = None
    MaxStarts = 2
    MaxFlags = 1
    MaxAbsent = 1
SYMMETRY ConsoleSymmetry
INVARIANTS
    OrphansReportedOnce
PROPERTIES
    StopHitsItsModel
    EvictsOnConsent
    OwnStartsAreSeen
CHECK_DEADLOCK FALSE
