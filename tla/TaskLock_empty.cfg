SPECIFICATION Spec
CONSTANTS
  p1 = p1
  p2 = p2
  Procs = {p1, p2}
  Schedulers = {}
  Mortal = {}
  Slow = {}
INVARIANT MutualExclusion
