CONSTANTS
  a = a
  b = b
  c = c
  Accounts = {a, b, c}
  None = None
  Base = 10000
  MaxRecipients = 3
  MaxInt = 1000000000
  Sales <- SmallSales
  FeeRates = {0, 251, 10000}
  Treasuries <- Holder
SPECIFICATION Spec
CHECK_DEADLOCK FALSE
INVARIANTS SettlementExact LastAbsorbsDust SafePriceNeverOverflows ClaimsTellPayouts
PROPERTIES GlobalFeeSparesOpenSales
