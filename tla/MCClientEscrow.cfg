SPECIFICATION Spec
CONSTANTS
  VarintBase = 8
  Uint32 = 16
  Nil = Nil
  Merges = FALSE
  DecOne = 5
  MaxFields = 3
  Addresses <- MCAddresses
  Authority <- MCAuthority
  GenesisParams <- MCGenesisParams
  BidFields <- MCBidFields
  UpdateFields <- MCUpdateFields
INVARIANT
  ClientToldEscrow
