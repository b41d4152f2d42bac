SPECIFICATION Spec
CONSTANTS
  b1 = b1
  b2 = b2
  alice = alice
  bob = bob
  coin = coin
  mine = mine
  none = none
  error = error
  emptypage = emptypage
  badaddress = badaddress
  badpayment = badpayment
  Builds <- MCTwoBuilds
  Blocking = TRUE
  Accounts <- MCAccounts
  BadAddress = badaddress
  Coins <- MCCoins
  Budgets <- MCBudgets
  Prices <- MCPrices
  RefPrices <- MCRefPrices
  Payments <- MCPayments
  BadPayment = badpayment
  DefaultBudget = 5
  MaxU64 = 8
  None = none
  Error = error
  EmptyPage = emptypage
  MaxEdits = 1
  MaxCalls = 1
  MaxVersion = 2
PROPERTY BuildIsAtomic
CHECK_DEADLOCK FALSE
