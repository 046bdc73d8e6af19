SPECIFICATION Spec
CONSTANTS
  Intent = {p1, p2}
  Topup = {}
  Card = {p2}
  Invoice = {}
  Session = {s1, s2}
  Amount = 1
  Price = 1
  InvoiceAmount = 1
  PackagePrice = 1
  PackageBytes = 1
  Rate = 0
  Unit = 1
  Deltas = {}
  SetTo = {}
  None = none
  InitBalance = 1
  MaxManual = 0
  MaxApply = 2
  MaxMeter = 0
  MaxCrash = 1
CHECK_DEADLOCK FALSE
SYMMETRY Symmetry
INVARIANTS CompletedWasHanded TariffAfterGoods HandedWasPaid
PROPERTIES  ImplementsSettlement
