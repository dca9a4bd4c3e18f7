SPECIFICATION FairSpec
CONSTANTS
  a = a
  b = b
  c = c
  Nobody = Nobody
  Tasks = {a, b, c}
  Governed = {a, b}
  MaxConcurrent = 2
  Interventions = {"foreign_lock", "foreign_cancel", "run_task", "shutdown"}
  Foreign = {c}
  MaxRestarts = 1
CHECK_DEADLOCK FALSE
INVARIANTS
  TypeOK
  LocksMatchChains
  TargetExclusive
PROPERTIES
  LeaseEndsWithTask
  QueuedTasksMoveOn
