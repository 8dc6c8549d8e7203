\* What a pool miner resumes on after a rejection
SPECIFICATION Spec
CONSTANTS
  w1 = w1
  w2 = w2
  blockA = blockA
  blockB = blockB
  Works <- TwoWorks
  WorkHash <- TwoHashes
  NoWork = NoWork
  NoHash = NoHash
  Miners = {m1}
  Shares = {s1}
  NoShare = NoShare
  SoloMine = FALSE
  SubmitEnabled = TRUE
  CountMod = 2
  HasFullNode = FALSE
  BadReplies = {}
  CtrlCHandled = FALSE
  FirstDevices = {}
PROPERTY ResumesOnNewWork
