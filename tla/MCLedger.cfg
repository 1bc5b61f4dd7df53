SPECIFICATION Spec
CONSTANTS
  None = None
  k1 = k1
  k2 = k2
  stranger = stranger
  Issuers <- MCIssuers
  RequestKeys <- MCRequestKeys
  Inputs <- MCInputs
  Confirmations = 2
  RefundAfter = 3
  Postage = 2
INVARIANTS
  TypeOK
  FirstInChainWins
  EveryCandidateAccounted
  RejectionsHonest
  RefundedOnce
  InvariantHonest
PROPERTY
  KeepsPromise
