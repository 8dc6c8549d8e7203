\* Three GPUs of two platforms, launches and edits of the file
SPECIFICATION StartSpec
CONSTANTS
  NumDevices = 3
  PlatformOf <- MCPlatformOf
  Urls = {local, pool}
  DefaultUrl = local
  NoUrl = NoUrl
  Rates = {r1s, r3s}
  DefaultRate = r3s
  BadRate = BadRate
  IdLists <- MCIdLists
  BadIds = BadIds
  CommandLines <- MCCommandLines
  Cuts = {0, 4}
  NotGiven = NotGiven
  NoFile = NoFile
  NoConfig = NoConfig
INVARIANTS
  StartTypeOK
  SourcesInTurn
  OneThreadPerDevice
  CreatedIsLoaded
  CutFileIgnored
