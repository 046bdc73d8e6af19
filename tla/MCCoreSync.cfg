CONSTANTS
  Users = {u1, s1}
  Reload = {s1}
  Reconciler = rec
  Health = health
  Workers = {w1}
  MaxChange = 2
  MaxEvent = 3
  MaxFault = 2
SPECIFICATION Spec
INVARIANTS TypeOK 
 
