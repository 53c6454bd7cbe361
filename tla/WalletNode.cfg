CONSTANTS
  MaxIndex = 2
  PoolSize = 2
  FundingMinConfirmations = 2
  MaxDepth = 3
  MaxReorgs = 1
  MaxDemos = 2
  o1 = o1
  o2 = o2
  o3 = o3
  c1 = c1
  d1 = d1
  dep1 = dep1
  dep2 = dep2
  pay = pay
  self = self
  rec1 = rec1
  rec2 = rec2
  rec3 = rec3
  Outpoint = {o1, o2, c1}
  Owner <- MCOwner
  Creator <- MCCreator
  Amount <- MCAmount
  TxID = {pay}
  TxFrom <- MCTxFrom
  TxInputs <- MCTxInputs
  TxChange <- MCTxChange
  TxTo <- MCTxTo
  Payments = {pay}
  DepositTx = {dep1, dep2}
  MaxSats = 2
  MaxBalance = 2
  Stamp = {1, 2}
  NoAddr = NoAddr
  NoTx = NoTx
SPECIFICATION NodeSpec
INVARIANTS
  FundedIsBacked
  HistoryIsTrue
  StoredUntilSent
  GatesAreCurrent
PROPERTIES
  UsesIndex
