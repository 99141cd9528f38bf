SPECIFICATION StoreSpec
CONSTANTS
  Nil = Nil
  Torn = Torn
  e1 = e1
  e2 = e2
  m1 = m1
  m2 = m2
  x = x
  c1 = c1
  c2 = c2
  Names = {m1, m2}
  Bodies = {x}
  Editors = {e1, e2}
  Procs = {c1, c2}
  ProcOf <- Separate
  Asked <- Editing
  Inodes = {1, 2, 3}
  Seeds <- Migratable
  Faults = {"disk", "crash"}
INVARIANTS
  ConfigIsWhole
  StoreSafe
PROPERTIES
  MigrationPreserves
  EditsAreLocal
