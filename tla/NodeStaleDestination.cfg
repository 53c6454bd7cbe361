CONSTANTS
  MaxIndex = 3
  PoolSize = 2
  FundingMinConfirmations = 1
  MaxDepth = 1
  MaxReorgs = 0
  MaxDemos = 0
  o1 = o1
  o2 = o2
  o3 = o3
  c1 = c1
  d1 = d1
  dep1 = dep1
  dep2 = dep2
  pay = pay
  self = self
  rec1 = rec1
  rec2 = rec2
  rec3 = rec3
  Outpoint = {o1, d1}
  Owner <- MCOwner
  Creator <- MCCreator
  Amount <- MCAmount
  TxID = {self}
  TxFrom <- MCTxFrom
  TxInputs <- MCTxInputs
  TxChange <- MCTxChange
  TxTo <- MCTxTo
  Payments = {self}
  DepositTx = {dep1, dep2}
  MaxSats = 2
  MaxBalance = 2
  Stamp = {1}
  NoAddr = NoAddr
  NoTx = NoTx
SPECIFICATION NodeSpec
PROPERTIES
  PaysFreshAddress
