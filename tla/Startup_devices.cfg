\* A device that is not wanted shares its array with one that is
SPECIFICATION StartSpec
CONSTANTS
  NumDevices = 3
  PlatformOf <- MCPlatformOf
  Urls = {local, pool}
  DefaultUrl = local
  NoUrl = NoUrl
  Rates = {r3s}
  DefaultRate = r3s
  BadRate = BadRate
  IdLists <- MCIdLists
  BadIds = BadIds
  CommandLines <- MCCommandLines
  Cuts = {0, 4}
  NotGiven = NotGiven
  NoFile = NoFile
  NoConfig = NoConfig
INVARIANT DevicesReadLive
