--------------------------- MODULE MCUserLifecycle ---------------------------
EXTENDS UserLifecycle

Body(status, limit, expire, hold, next) ==
  [status |-> status, limit |-> limit, expire |-> expire, hold |-> hold,
   timeout |-> IF hold > 0 THEN 1 ELSE Keep, next |-> next]
User(status, limit, expire, hold) ==
  [status |-> status, used |-> 0, overage |-> 0, limit |-> limit,
   expire |-> expire, hold |-> hold, timeout |-> 0, online |-> "never", capped |-> FALSE, next |-> NoPlan]

TopUp == [limit |-> 1, expire |-> 1, add |-> FALSE, either |-> TRUE]
Both == [limit |-> 0, expire |-> 0, add |-> TRUE, either |-> FALSE]
MCNextPlans == {TopUp, Both}
MCPlans == {[limit |-> 1, days |-> 1], [limit |-> 0, days |-> 0]}

\* A new user, one still on hold, one with an unlimited package and a next plan
\* queued, the same after an unlimited next plan (data_limit 0, not NULL), and one
\* suspended with its package spent.
MCFirstRow ==
  {User("active", 3, 1, 0),
   User("on_hold", 1, 0, 1),
   [User("active", Null, 1, 0) EXCEPT !.next = TopUp],
   [User("active", 0, 1, 0) EXCEPT !.next = TopUp],
   [User("disabled", 1, 0, 0) EXCEPT !.used = 1, !.capped = TRUE]}
MCModifies ==
  {Body("disabled", Keep, Keep, Keep, NoPlan),
   Body("limited", Keep, Keep, Keep, NoPlan),
   Body(Same, 1, Keep, Keep, Both),
   Body(Same, Keep, 2, Keep, TopUp),
   Body(Same, Keep, 0, Keep, BadPlan)}
==============================================================================
