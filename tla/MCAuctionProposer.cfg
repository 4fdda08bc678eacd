CONSTANTS
  Accounts <- MCAccounts
  Authority = "bob"
  Balances <- MCBalances
  Bids <- MCBids
  TopBids <- MCTopBids
  ParamValues <- MCParams
  Provider = "proposer"
  FixedAddress <- FixedVal
  Validators <- MCValidators
  MaxBundle = 3
SPECIFICATION Spec
PROPERTIES
  BidSplit
