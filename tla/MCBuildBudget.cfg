SPECIFICATION Spec
CONSTANTS
  b1 = b1
  b2 = b2
  alice = alice
  bob = bob
  coin = coin
  mine = mine
  none = none
  error = error
  emptypage = emptypage
  badaddress = badaddress
  badpayment = badpayment
  Builds <- MCOneBuild
  Blocking = FALSE
  Accounts <- MCAccounts
  BadAddress = badaddress
  Coins <- MCCoins
  Budgets <- MCBudgets
  Prices <- MCPrices
  RefPrices <- MCRefPrices
  Payments <- MCPayments
  BadPayment = badpayment
  DefaultBudget = 5
  MaxU64 = 8
  None = none
  Error = error
  EmptyPage = emptypage
  MaxEdits = 2
  MaxCalls = 2
  MaxVersion = 2
INVARIANT ExplicitBudgetKept
CHECK_DEADLOCK FALSE
