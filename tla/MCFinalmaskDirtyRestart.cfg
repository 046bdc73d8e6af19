CONSTANTS
  Nodes = {n1, n2}
  Slots = {s1, s2, s3}
  Budget = 2
  MaxChange = 1
  MaxFault = 1
SPECIFICATION Spec
CHECK_DEADLOCK FALSE
PROPERTIES BootReloadsQueue
