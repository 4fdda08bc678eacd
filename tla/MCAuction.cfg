CONSTANTS
  Accounts <- MCAccounts
  Authority = "bob"
  Balances <- MCBalances
  Bids <- MCBids
  TopBids <- MCTopBids
  ParamValues <- MCParams
  Provider = "fixed"
  FixedAddress <- FixedVal
  Validators <- MCValidators
  MaxBundle = 3
SPECIFICATION Spec
INVARIANTS
  BundleMatchesRule
PROPERTIES
  BidSplit
  OnlySharedFirstEscapes
