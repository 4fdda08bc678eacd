CONSTANTS
  Senders = {1, 2}
  Nonces = {0, 1}
  Ids = {1, 2}
  Priorities = {0, 1, 2}
  MaxTx = 3
  HasTxReplacement = TRUE
  SetKeepsKey = TRUE
  noSigner = noSigner
  Unsigned <- MCUnsigned
SPECIFICATION Spec
INVARIANTS
  IndicesAgree
  CountsAgree
  WithinCapacity
PROPERTY
  TableSpec
