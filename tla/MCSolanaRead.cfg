SPECIFICATION Spec
CONSTANTS
  None = None
  Program = "sapling"
  FeeAccount = "fees"
  FeeOwner = "owner"
  ZecMint = "zec"
  Fees <- MCFees
  Day = 3
  Limit = 2
  MaxTxs = 3
  Exits = {9}
  Inputs <- MCInputs
  MaxLines = 5
  Talk = {None}
INVARIANTS
  TypeOK
  EachReadOnce
  ClassifiedByTheRules
PROPERTY
  ReadEnds
