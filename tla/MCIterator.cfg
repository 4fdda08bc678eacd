CONSTANTS
  Senders = {1, 2, 3}
  Nonces = {0, 1}
  Ids = {1}
  Priorities = {0, 1, 2}
  MaxTx = 5
  HasTxReplacement = FALSE
  SetKeepsKey = FALSE
  noSigner = noSigner
  Unsigned <- MCUnsigned
SPECIFICATION IterSpec
INVARIANTS
  IteratorComplete
  IteratorNonceOrder
  IteratorGreedy
  IteratorBreaksTies
