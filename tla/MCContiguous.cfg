CONSTANTS
  Tx <- MCTx
  Sender <- MCSender
  Nonce <- MCNonce
  Size <- MCSize
  Gas <- MCGas
  GasModulus = 64
  Priority <- FlatPriority
  Match <- MCMatch
  MaxBlockSpace <- MCMaxBlockSpace
  Lanes <- MCLanes
  MEVLane = "mev"
  Bundle <- MCBundle
  Invalid <- MCInvalid
  Malformed <- MCMalformed
  Undecodable <- MCUndecodable
  Pooled <- MCPooled
  Accounts <- MCAccounts
  StartCtx <- MCStartCtx
  Heights = {2}
  ReqMaxTxBytes = 9
  ConsMaxBytes = 10
  ConsMaxGas = 10
  MayPanic = {}
  Foreign <- MCForeign
  MaxForeign = 4
SPECIFICATION Spec
CHECK_DEADLOCK FALSE
INVARIANT
  AcceptedBidsContiguous
