SPECIFICATION KvSpec
CONSTANTS
  Topologies <- MCDecodeDcp
  MaxPages = 6
INVARIANTS PulledRight
CHECK_DEADLOCK FALSE
