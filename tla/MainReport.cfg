\* Reports while two shares are submitted and the hash total wraps
SPECIFICATION RepFairSpec
CONSTANTS
  w1 = w1
  blockA = blockA
  Works <- MCWorks
  WorkHash <- MCWorkHash
  NoWork = NoWork
  NoHash = NoHash
  Miners = {m1}
  Shares = {s1, s2}
  NoShare = NoShare
  SoloMine = FALSE
  SubmitEnabled = TRUE
  TotalMod = 3
  MaxBatches = 4
INVARIANTS
  RepTypeOK
  PostsExclusive
  CountersExact
  HashDeltaExact
PROPERTIES
  QuietReportExact
  LedgerSpec
  EveryShareSettles
