SPECIFICATION FairSpec
CONSTANTS
  Drift = {d1, d2}
  Healthy = Healthy
  None = None
INVARIANT TypeOK
PROPERTY NotToldTwice
PROPERTY DriftIsReported
