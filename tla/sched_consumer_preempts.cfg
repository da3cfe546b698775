SPECIFICATION Spec
CONSTANTS
  r1 = r1
  r2 = r2
  r3 = r3
  Request <- MCThree
  Role = "consumer"
  MaxNumSeqs = 3
  MaxModelLen = 4
  KvPool = 8
  MaxInFlight = 1
  PromptChunks <- MCTwoChunks
  MaxTokens <- MCTwoTokens
  StructuredOutput = {}
  RemotePrefill = {r1, r2, r3}
  RemoteDecode = {}
PROPERTIES NoPreemption
CHECK_DEADLOCK FALSE
