\* Warps as wide as a job, and half as wide
SPECIFICATION ItemSpec
CONSTANT Widths = {16, 32}
INVARIANTS
  ReadsThisOrNext
  MixesAsArgon2
  FirstBlocksAsArgon2
  HashesLastBlock
\* a job ends
CHECK_DEADLOCK FALSE
