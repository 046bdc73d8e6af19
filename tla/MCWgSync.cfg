CONSTANTS
  MaxUser = 2
  FirstUsers = 1
  Batch = 1
  MaxChange = 2
  MaxFault = 1
SPECIFICATION Spec
INVARIANTS TypeOK CursorMeansApplied
PROPERTIES PassesEnd Settles
