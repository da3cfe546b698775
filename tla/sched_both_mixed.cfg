SPECIFICATION Spec
CONSTANTS
  r1 = r1
  r2 = r2
  r3 = r3
  Request <- MCThree
  Role = "both"
  MaxNumSeqs = 2
  MaxModelLen = 4
  KvPool = 12
  MaxInFlight = 1
  PromptChunks <- MCPromptChunks
  MaxTokens <- MCTwoTokens
  StructuredOutput = {}
  RemotePrefill = {r1}
  RemoteDecode = {r2}
INVARIANTS BatchSeparated
CHECK_DEADLOCK FALSE
