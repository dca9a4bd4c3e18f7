SPECIFICATION FairSpec
CONSTANTS
  r1 = r1
  r2 = r2
  r3 = r3
  p2 = p2
  p1 = p1
  Runs = {r1, r2, r3, p1, p2}
  Probes = {p1, p2}
  MaxParallel = 2
  Outcomes = {"SUCCESS", "TRANSIENT_FAULT", "RATE_LIMIT", "ACCOUNT_POLICY", "ENVIRONMENT_FAULT"}
  NoEvidence = NoEvidence
INVARIANTS
  TypeOK
  NoIdleSlotWhileWaiting
PROPERTIES
  SlotsTakenUnderPermit
  GatedRecovery
  EveryWaiterSettles
  ImplementsPool
