CONSTANTS
  FirstRow <- MCFirstRow
  Modifies <- MCModifies
  NextPlans <- MCNextPlans
  Plans <- MCPlans
  Null = Null
  NoPlan = NoPlan
  BadPlan = BadPlan
  MaxTime = 1
  MaxRequests = 2
  MaxDisturb = 2
SPECIFICATION FairSpec
INVARIANTS OffStaysOff WithinPackage
PROPERTIES RenewalExact Settles
