CONSTANTS
  MaxIndex = 3
  o1 = o1
  o2 = o2
  pay = pay
  payAll = payAll
  th1 = th1
  th2 = th2
  Thread = {th1, th2}
  NoThread = NoThread
  PoolSize = 1
  Outpoint <- MCOutpoint
  Owner <- MCOwner
  TxID <- MCTxID
  TxFrom <- MCTxFrom
  TxInputs <- MCTxInputs
  TxChange <- MCTxChange
  DepositTx = {}
  MaxSats = 1
  MaxBalance = 1
  Stamp = {}
  NoAddr = NoAddr
  NoTx = NoTx
SPECIFICATION SigningSpec
INVARIANTS
  SigningTypeOK
  GateStillHolds
  ConfirmsItsOwnSpend
  ReturnedIsStored
  PoolRefilled
PROPERTIES
  CallsReturn
