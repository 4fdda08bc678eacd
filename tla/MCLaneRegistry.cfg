SPECIFICATION Spec
CONSTANTS
  VarintBase = 4
  Uint32 = 16
  Nil = Nil
  One = 10
  MaxLanes = 3
  Tx <- MCTx
  Msgs <- MCMsgs
  Readable <- MCReadable
  ValidBids <- MCValidBids
  Payer <- MCPayer
  Fee <- MCFee
  Funds <- MCFunds
  LaneChoices <- MCLaneChoices
INVARIANTS
  FeeMatchesLane
  BidsOnlyInMEVLane
  DistributionComplete
CHECK_DEADLOCK FALSE
