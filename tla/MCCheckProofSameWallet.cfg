SPECIFICATION Spec
CONSTANTS
  None = None
  k1 = k1
  k2 = k2
  stranger = stranger
  old = old
  new = new
  far = far
  gold = gold
  Signatures <- MCSignatures
  Hood = {"h1"}
  Tokens = {gold}
  CoinUnit = 3
  ZecUnit = 4
  MaxAmount = 4095
  LastTime = 2147483646
  Issuers <- MCIssuers
  RequestKeys <- MCRequestKeys
  ExitKeys <- MCExitKeys
  Hash <- MCHash
  Requests <- MCRequests
  Exits <- MCExits
  Wallets <- MCWallets
  GivenFor <- MCGivenFor
  Served <- MCServed
  Inputs <- MCSameWallet
  Worth = {3, 4, 8}
  Dust = 2
  MaxIndex = 3
  MaxAction = 2
  Confirmations = 2
  RefundAfter = 3
  Postage = 2
INVARIANT
  MadeIsAccepted
