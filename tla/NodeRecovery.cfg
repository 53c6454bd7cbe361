CONSTANTS
  MaxIndex = 1
  PoolSize = 1
  FundingMinConfirmations = 1
  MaxDepth = 1
  MaxReorgs = 0
  MaxDemos = 0
  o1 = o1
  o2 = o2
  o3 = o3
  c1 = c1
  d1 = d1
  dep1 = dep1
  dep2 = dep2
  pay = pay
  self = self
  rec1 = rec1
  rec2 = rec2
  rec3 = rec3
  Outpoint = {o1, o2, o3}
  Owner <- MCOwner
  Creator <- MCCreator
  Amount <- MCAmount
  TxID = {pay, rec1, rec2, rec3}
  TxFrom <- MCTxFrom
  TxInputs <- MCTxInputs
  TxChange <- MCTxChange
  TxTo <- MCTxTo
  Payments = {pay}
  DepositTx = {dep1}
  MaxSats = 3
  MaxBalance = 3
  Stamp = {1}
  NoAddr = NoAddr
  NoTx = NoTx
SPECIFICATION NodeSpec
INVARIANT SignaturesNeverConflict
PROPERTIES MinedIsSettled
