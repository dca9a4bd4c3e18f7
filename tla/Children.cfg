SPECIFICATION FairSpec
CONSTANTS
  e1 = e1  e2 = e2  a1 = a1  t = t
  Executors = {e1, e2}
  Acceptances = {a1}
  TimerFirst = {e1}
  TimerBlind = {e2}
  Tasks = {t}
  TaskOf <- MCTaskOf
  Pids = {1, 2}
  NoPid = NoPid
  NoRun = NoRun
  MaxDeaths = 1
  MaxUses = 1
INVARIANTS
  TypeOK
  SingleWriter
  CancelledIsReported
  OrphansAreDiscoverable
PROPERTY ChildrenAreBounded
CONSTRAINT InOrder
CHECK_DEADLOCK FALSE
