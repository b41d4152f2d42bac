SPECIFICATION Spec
CONSTANTS
  p1 = p1
  p2 = p2
  a1 = a1
  a2 = a2
  a3 = a3
  gas = gas
  none = none
  Payments <- MCPayments
  Attempts <- MCTwoAttempts
  Coins <- MCCoins
  None = none
  MaxVersion = 3
INVARIANT FailureRaises
CHECK_DEADLOCK FALSE
