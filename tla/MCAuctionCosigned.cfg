CONSTANTS
  Accounts <- MCAccounts
  Authority = "bob"
  Balances <- MCBalances
  Bids <- CosignedBids
  TopBids <- MCTopBids
  ParamValues <- MCParams
  Provider = "fixed"
  FixedAddress <- FixedVal
  Validators <- MCValidators
  MaxBundle = 3
SPECIFICATION Spec
PROPERTIES
  BidderTimeoutsMatch
