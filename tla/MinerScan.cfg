\* Batches of two in a space of seven nonces, up to one whole turn; targets
\* and results of two limbs of three values
SPECIFICATION MsSpec
CONSTANTS
  NonceMod = 7
  throughput = 2
  MaxSpan = 7
  Base = 3
  NumLimbs = 2
  Jobs = {0, 1}
  NoJob = NoJob
INVARIANTS
  MsTypeOK
  NoRescan
  HalfTried
  ShareNotMissed
PROPERTY TrialSpec
\* a scan that has come round stops at the bound
CHECK_DEADLOCK FALSE
