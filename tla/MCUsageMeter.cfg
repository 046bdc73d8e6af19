SPECIFICATION FairSpec
CONSTANTS
  Ticks = {t1, t2}
  Flush = f
  Limits = {0, 1}
  FirstLimit = 1
  MaxDelta = 1
  MaxBytes = 2
  MaxDisturb = 2
CHECK_DEADLOCK FALSE
INVARIANTS NoByteSkipped BilledOnce
PROPERTIES MeterKeepsLimit AllRead
