CONSTANTS
  MaxIndex = 3
  o1 = o1
  o2 = o2
  o3 = o3
  pay = pay
  splitPay = splitPay
  sweep = sweep
  onward = onward
  Outpoint <- MCOutpoint
  Owner <- MCOwner
  TxID <- MCTxID
  TxFrom <- MCTxFrom
  TxInputs <- MCTxInputs
  TxChange <- MCTxChange
  DepositTx = {deposit}
  MaxSats = 1
  MaxBalance = 2
  Stamp = {1, 2}
  NoAddr = NoAddr
  NoTx = NoTx
SPECIFICATION Spec
INVARIANTS
  OneSpendPerKey
  ChangePromisedOnce
  ChangeNeverIncoming
  KeyKeptWhileNeeded
  NoRecoveryConflict
  IInv
PROPERTIES
  HistoryWriteOnce
  KeepsPromises
CHECK_DEADLOCK FALSE
