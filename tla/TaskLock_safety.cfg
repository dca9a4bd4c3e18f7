SPECIFICATION FairSpec
CONSTANTS
  p1 = p1
  p2 = p2
  p3 = p3
  Procs = {p1, p2, p3}
  Schedulers = {p1, p3}
  Mortal = {p1, p2}
  Slow = {p1, p2, p3}
INVARIANTS
  TypeOK
PROPERTIES
  OneOwner
  LockRecovers
  LossIsNoticed
