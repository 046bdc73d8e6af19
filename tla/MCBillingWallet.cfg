SPECIFICATION Spec
CONSTANTS
  Intent = {t1}
  Topup = {t1}
  Card = {t1}
  Invoice = {k1}
  Session = {s1, s2}
  Amount = 2
  Price = 1
  InvoiceAmount = 2
  PackagePrice = 1
  PackageBytes = 1
  Rate = 1
  Unit = 2
  Deltas <- Debit
  SetTo = {0}
  None = none
  InitBalance = 1
  MaxManual = 1
  MaxApply = 1
  MaxMeter = 2
  MaxCrash = 1
CHECK_DEADLOCK FALSE
SYMMETRY Symmetry
INVARIANTS TypeOK BalanceIsLedgerSum UsageBilledOnce PaidInvoiceDebited
PROPERTY ChargesCovered
