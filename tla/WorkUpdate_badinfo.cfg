\* A node whose reply to getBlockByNumber is not an object
SPECIFICATION UpdSpec
CONSTANTS
  w1 = w1
  w2 = w2
  w3 = w3
  blockA = blockA
  blockB = blockB
  Works <- MCWorks
  WorkHash <- MCWorkHash
  NoWork = NoWork
  NoHash = NoHash
  Miners = {m1}
  Shares = {s1}
  NoShare = NoShare
  SoloMine = TRUE
  SubmitEnabled = TRUE
  CountMod = 2
  HasFullNode = FALSE
  BadReplies = {"blocksInfo"}
INVARIANT UpdateThreadSurvives
CHECK_DEADLOCK FALSE
