SPECIFICATION FleetSpec
CONSTANTS
  r1 = r1
  r2 = r2
  r3 = r3
  Request <- MCThree
  Role = "none"
  MaxNumSeqs = 2
  MaxModelLen = 4
  KvPool = 12
  MaxInFlight = 2
  PromptChunks <- MCPromptChunks
  MaxTokens <- MCTwoTokens
  StructuredOutput = {r3}
  RemotePrefill = {}
  RemoteDecode = {}
INVARIANTS TypeOK NoRequestLost BatchSeparated WithinCapacity
PROPERTIES OnePrefillPerBatch NoOvertaking RolesKept EveryRequestEnds
CHECK_DEADLOCK FALSE
