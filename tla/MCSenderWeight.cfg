CONSTANTS
  Senders = {1, 2}
  Nonces = {0, 1, 2}
  Ids = {1}
  Priorities = {0, 1, 2}
  MaxTx = 0
  HasTxReplacement = FALSE
  SetKeepsKey = FALSE
  noSigner = noSigner
  Unsigned <- MCUnsigned
SPECIFICATION IterSpec
INVARIANT
  WeightIsFirstDifferent
