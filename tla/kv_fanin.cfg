SPECIFICATION KvSpec
CONSTANTS
  Topologies <- MCDecodeDcp
  MaxPages = 4
INVARIANTS FaninMatchesReads
CHECK_DEADLOCK FALSE
