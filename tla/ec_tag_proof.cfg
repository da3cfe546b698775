SPECIFICATION TransferSpec
CONSTANTS
  a = a
  b = b
  Item <- MCItems
  NumBlocks = 3
  Need <- MCNeed
  HoldTime = 1
  NoItem = NoItem
  Nothing = Nothing
  MaxLocators = 1
INVARIANT TagProvesEmbedding
CHECK_DEADLOCK FALSE
