CONSTANTS
  Nodes = {n1, n2}
  Slots = {s1, s2, s3}
  Budget = 2
  MaxChange = 3
  MaxFault = 2
SPECIFICATION Spec
CHECK_DEADLOCK FALSE
INVARIANTS TypeOK NothingForgotten
PROPERTIES Lands
