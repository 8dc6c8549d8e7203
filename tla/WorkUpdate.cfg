\* The update thread of a pool miner, with replies of every kind
SPECIFICATION UpdFairSpec
CONSTANTS
  w1 = w1
  w2 = w2
  w3 = w3
  blockA = blockA
  blockB = blockB
  Works <- MCWorks
  WorkHash <- MCWorkHash
  NoWork = NoWork
  NoHash = NoHash
  Miners = {m1}
  Shares = {s1}
  NoShare = NoShare
  SoloMine = FALSE
  SubmitEnabled = TRUE
  CountMod = 3
  HasFullNode = TRUE
  BadReplies = {"getWork", "blocksInfo"}
INVARIANTS
  PublishedIsLastServed
PROPERTIES
  FreshWork
  UpdateStops
\* the thread may end, and the pool need not change its job again
CHECK_DEADLOCK FALSE
