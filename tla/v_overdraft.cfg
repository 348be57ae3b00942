SPECIFICATION FairPayments
CONSTANTS
  Requests = {1, 2, 3, 4, 5}
  Merchants = {"m1", "m2", "m3"}
  Payer <- MCPayer
  Amount <- MCAmount
  HasWallet = {"m1", "m2"}
  HasLimit = {"m1", "m3"}
  Balance0 <- MCBalance
  Limit <- MCLimit
  Used0 <- MCUsed
  MaxFailures = 0
  Nobody = Nobody
INVARIANT BalanceIsConserved
CHECK_DEADLOCK FALSE
