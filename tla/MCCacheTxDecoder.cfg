CONSTANTS
  h1 = h1
  h2 = h2
  h3 = h3
  h4 = h4
  h5 = h5
  h6 = h6
  NoHash = NoHash
  Hash <- MCHash
  Undecodable <- MCUndecodable
  MaxSize = 3
SPECIFICATION Spec
INVARIANTS
  RingMatchesCache
PROPERTY
  FifoSpec
