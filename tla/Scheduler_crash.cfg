SPECIFICATION Spec
CONSTANTS
  a = a
  b = b
  c = c
  Nobody = Nobody
  Tasks = {a, b, c}
  Governed = {a}
  MaxConcurrent = 1
  Interventions = {"foreign_lock"}
  Foreign = {a, b, c}
  MaxRestarts = 0
CHECK_DEADLOCK FALSE
INVARIANT LoopSurvives
