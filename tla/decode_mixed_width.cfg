SPECIFICATION RunnerSpec
CONSTANTS
  a = a
  b = b
  c = c
  Item <- MCItems
  NumBlocks = 4
  Need <- MCNeed
  HoldTime = 2
  NoItem = NoItem
  r1 = r1
  r2 = r2
  Request <- MCRequests
  Prompt <- MCPrompt
  MaxTokens <- MCMaxTokens
  MaxModelLen = 15
  NumSpec = 2
  r3 = r3
  ReqId <- MCReqId
  PromptLen <- MCPromptLen
  OutputLimit <- MCOutputLimit
  ModelLen = 6
  MaxNumReqs = 2
  TpRank = {"rank0", "rank1"}
  OutputRank = "rank0"
  BlockSize = 2
  Window = 2
  Pmax = 2
  Engines <- MCEngines
INVARIANT BonusForEveryRow
CHECK_DEADLOCK FALSE
