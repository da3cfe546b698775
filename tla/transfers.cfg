SPECIFICATION TransfersSpec
CONSTANTS
  a = a
  b = b
  Item <- MCItems
  NumBlocks = 3
  Need <- MCNeed
  HoldTime = 1
  NoItem = NoItem
  Nothing = Nothing
  MaxLocators = 1
  Topologies <- MCTopologies
  MaxPages = 5
  Pulls <- MCPulls
INVARIANTS TransfersTypeOK ReceiptSound PulledRightButForTail GivenUpInTime WindowPulled
PROPERTIES DiesOnlyOfReuse TransfersEnd
CHECK_DEADLOCK FALSE
