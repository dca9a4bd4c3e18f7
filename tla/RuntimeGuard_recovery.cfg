CONSTANTS
  r1 = r1  r2 = r2  r3 = r3  r4 = r4
  Runs = {r1, r2, r3, r4}
  Probes = {}
  NoEvidence = NoEvidence
  MaxParallel = 4
  Outcomes = {"SUCCESS", "RATE_LIMIT", "ACCOUNT_POLICY"}
SPECIFICATION Spec
INVARIANTS NoAutoRecovery
