SPECIFICATION MCSpec
CONSTANTS
  None = None
  Word = 2048
  Dust = 54
  GraceActions = 2
  OutputSize = 34
  MaxOpReturn = 83
  Inputs <- MCInputs
  Runs = {"r1", "r2"}
  Commands <- MCCommands
  Old = "old"
  Guarded = {"request"}
  IssuerPath = "issuer"
  Worth <- MCWorth
  Owner <- MCOwner
  NodeBranch = "nu6.3"
  MaxSequence = 65535
CHECK_DEADLOCK FALSE
INVARIANTS
  StamperTypeOK
  Conserves
  PaysItsFee
  LittleIsLost
  FailsOnlyShort
  AllFilesKept
  MinedAsPrinted
PROPERTY
  KeepsKeys
