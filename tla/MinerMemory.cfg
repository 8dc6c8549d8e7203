\* Two solo miner threads up to shutdown, two shares
SPECIFICATION MemSpec
CONSTANTS
  w1 = w1
  blockA = blockA
  Works <- OneWork
  WorkHash <- OneHash
  NoWork = NoWork
  NoHash = NoHash
  Miners = {m1, m2}
  Shares = {s1, s2}
  NoShare = NoShare
  SoloMine = TRUE
  SubmitEnabled = TRUE
  CountMod = 2
  HasFullNode = FALSE
  BadReplies = {}
  CtrlCHandled = TRUE
  FirstDevices = {}
  MainThread = MainThread
  NoThread = NoThread
  MaxBlocks = 2
SYMMETRY AllSymmetry
INVARIANTS
  SubmitHandleLive
  HandlesClosedAtExit
  OwnBlock
  BlocksFreed
