SPECIFICATION Spec
CONSTANTS
  None = None
  old = old
  new = new
  ExitKeys <- MCExitKeys
  Inputs <- MCInputs
  Confirmations = 2
  RefundAfter = 3
INVARIANTS
  TypeOK
  AllOrNothing
  EarlierForwardWins
  JudgedByTheRules
  PooledOnce
  StatesHonest
