\* One pool miner from start to shutdown, two shares of one work
SPECIFICATION FairSpec
CONSTANTS
  w1 = w1
  w2 = w2
  blockA = blockA
  blockB = blockB
  Works <- OneWork
  WorkHash <- OneHash
  NoWork = NoWork
  NoHash = NoHash
  Miners = {m1}
  Shares = {s1, s2}
  NoShare = NoShare
  SoloMine = FALSE
  SubmitEnabled = TRUE
  CountMod = 3
  HasFullNode = FALSE
  BadReplies = {}
  CtrlCHandled = TRUE
  FirstDevices = {}
INVARIANT WaitsAreServed
PROPERTIES
  RejectionRedraws
  MiningGoesOn
  ShutdownCompletes
