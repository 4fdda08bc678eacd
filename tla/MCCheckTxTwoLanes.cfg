CONSTANTS
  Tx <- MCTx
  Sender <- BidderPays
  Nonce <- MCNonce
  Priority <- MCPriority
  Size <- SmallSizes
  Gas <- MCGas
  GasModulus = 64
  Bundle <- MCBundle
  Timeout <- MCTimeout
  Match <- MCMatch
  MaxBlockSpace <- LimitedLanes
  Lanes <- MCLanes
  MEVLane = "mev"
  MaxTxs <- MCMaxTxs
  Accounts <- MCAccounts
  Invalid <- MCInvalid
  Malformed <- MCMalformed
  Undecodable <- MCUndecodable
  MinBidIncrement = 1
  ConsMaxBytes = 10
  ConsMaxGas = 10
  ReqMaxTxBytes = 9
  MaxHeight = 3
  Blocks <- MCBlocks
SPECIFICATION Spec
PROPERTIES
  ExecutedLeave
