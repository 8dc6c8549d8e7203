\* Two jobs, words of four bits, one batch after the other
SPECIFICATION FillSpec
CONSTANTS
  NumJobs = 2
  WordMod = 16
INVARIANTS
  RefsAreFilled
  ChainUnbroken
  FilledOnce
  AddressesOfSlice
