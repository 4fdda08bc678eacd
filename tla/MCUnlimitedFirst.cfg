CONSTANTS
  Tx <- MCTx
  Sender <- MCSender
  Nonce <- MCNonce
  Size <- MCSize
  Gas <- MCGas
  GasModulus = 64
  Priority <- FlatPriority
  Match <- UnlimitedFirstMatch
  MaxBlockSpace <- UnlimitedFirstSpace
  Lanes <- UnlimitedFirst
  MEVLane = "mev"
  Bundle <- MCBundle
  Invalid <- MCInvalid
  Malformed <- MCMalformed
  Undecodable <- MCUndecodable
  Pooled <- FewPooled
  Accounts <- MCAccounts
  StartCtx <- MCStartCtx
  Heights = {2}
  ReqMaxTxBytes = 9
  ConsMaxBytes = 10
  ConsMaxGas = 10
  MayPanic = {"mev", "default"}
  Foreign <- NoForeign
  MaxForeign = 4
SPECIFICATION FairSpec
CHECK_DEADLOCK FALSE
INVARIANTS
  WithinLimits
PROPERTY
  EventuallyAnswered
