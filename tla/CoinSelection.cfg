CONSTANTS
  Coin <- MCCoin
  Amount <- MCAmount
  MaxInputs = 2
  ScriptLen = 34
  MaxInt64 = 70000000
  Sends = {1, 600, 1600, 9000, 15000, 45000}
  Rates = {1000, 2000, 10000}
SPECIFICATION CoinSpec
INVARIANTS
  FeeIsPaid
  FeeIsNotWasted
  CompleteWithoutDust
  RecoveryCanContinue
CHECK_DEADLOCK FALSE
