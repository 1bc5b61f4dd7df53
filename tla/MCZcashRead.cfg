SPECIFICATION ScanSpec
CONSTANTS
  None = None
  t1 = t1
  t2 = t2
  Txids = {t1, t2}
  FromHeight = 2
  Confirmations = 2
  MaxReorg = 1
  Retries = 1
  MaxHeight = 4
  Kinds = {"stamps", "payouts"}
  Keys <- MCKeys
  Gap = 2
  Touches <- MCTouches
  Spends <- MCSpends
INVARIANTS
  ScanTypeOK
  StampsRead
  PayoutsRead
  FinalHeightsHold
PROPERTY
  ReadEnds
