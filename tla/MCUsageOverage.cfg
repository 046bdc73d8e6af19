SPECIFICATION Spec
CONSTANTS
  Ticks = {t1}
  Flush = f
  Limits = {1}
  FirstLimit = 1
  MaxDelta = 0
  MaxBytes = 1
  MaxDisturb = 0
CHECK_DEADLOCK FALSE
INVARIANT OverageBeyondQuota
