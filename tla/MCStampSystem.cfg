SPECIFICATION Spec
CONSTANTS
  None = None
  s1 = s1
  t1 = t1
  t2 = t2
  Requests = {s1}
  Stamps = {t1, t2}
  Issuers <- MCIssuers
  RequestKeys = {}
  Confirmations = 2
  RefundAfter = 2
  Postage = 1
  RunBlocks = 1
  Skew = 1
  MaxTime = 4
  MaxHeight = 4
  MaxUnread = 1
CHECK_DEADLOCK FALSE
INVARIANTS
  TypeOK
  LateStampHarmless
PROPERTY
  VerdictsAgree
