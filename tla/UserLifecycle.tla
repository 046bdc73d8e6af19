---------------------------- MODULE UserLifecycle ----------------------------
(***************************************************************************)
(* The life of one users row: the review job (app/jobs/review_users.py),   *)
(* the quota and reseller-cap rules (app/quota.py), and the requests that  *)
(* edit, reset, renew and bulk-change users (app/db/crud.py,               *)
(* app/portal/__init__.py).                                                *)
(*                                                                         *)
(* Every one of them is an ORM session: it loads the row, computes on the  *)
(* loaded copy, and its commit writes the columns whose value it changed   *)
(* (Flush).  A load and a commit are two steps, so another session may     *)
(* commit in between.  The bill of the usage tick (module UsageMeter) is   *)
(* one step here; the live disconnect and restore that follow a commit are *)
(* the subject of CoreSync and Outbox.                                     *)
(***************************************************************************)
EXTENDS Integers, FiniteSets, FiniteSetsExt

CONSTANTS
  FirstRow,        \* the rows the user may be created with
  Modifies,        \* the UserModify bodies a request may carry
  NextPlans,       \* the next plans a body may carry: [limit, expire, add, either]
  Null,            \* no data_limit
  NoPlan,          \* no next plan
  BadPlan,         \* a next plan without data_limit: next_plans.data_limit is NOT NULL
  Plans,           \* the commercial plans on sale: [limit, days]
  MaxTime,         \* bound: clock ticks
  MaxRequests,     \* bound: operator and customer requests
  MaxDisturb       \* bound: bytes, connects, reseller changes and crashes together

Keep == -1         \* a field the body leaves out (numbers)
Same == "same"     \* a status the body leaves out

Statuses == {"active", "on_hold", "limited", "expired", "disabled"}

\* The columns the lifecycle turns on.
RowRecord ==
  [status : Statuses, used : Nat, overage : Nat, limit : Int \cup {Null},
   expire : Nat, hold : Nat, timeout : Nat, online : {"never", "old", "new"},
   capped : BOOLEAN, next : NextPlans \cup {NoPlan}]
Bodies ==
  [status : Statuses \cup {Same}, limit : Nat \cup {Keep}, expire : Nat \cup {Keep},
   hold : Nat \cup {Keep}, timeout : Nat \cup {Keep},
   next : NextPlans \cup {NoPlan, BadPlan}]

ASSUME LifecycleConstants ==
  /\ Null \notin Int
  /\ NoPlan \notin NextPlans /\ BadPlan \notin NextPlans /\ NoPlan # BadPlan
  /\ \A n \in NextPlans : /\ n.limit \in Int /\ n.expire \in Nat
                          /\ n.add \in BOOLEAN /\ n.either \in BOOLEAN
  /\ FirstRow \subseteq RowRecord
  /\ \A r \in FirstRow : r.limit # Null => r.limit <= 0 \/ r.used <= r.limit
  /\ Modifies \subseteq Bodies
  /\ \A m \in Modifies : m.status = "on_hold" => m.hold > 0 /\ m.expire <= 0
  /\ \A p \in Plans : p.limit \in Nat /\ p.days \in Nat
  /\ \A n \in {MaxTime, MaxRequests, MaxDisturb} : n \in Nat

VARIABLES
  now,             \* the clock
  row,             \* the users row as committed
  blocked,         \* the reseller is over its cap or cannot pay its usage
  req,             \* the request in flight
  rev,             \* the review job
  left,            \* what is left of MaxRequests and MaxDisturb
  off,             \* history: an operator's manual disable, and whether it still stands
  stale            \* history: a commit was computed on a row changed since its load

vars == <<now, row, blocked, req, rev, left, off, stale>>

NoCopy == [loaded |-> FALSE]
NoReq == [pc |-> "idle"]
NoReview == [pc |-> "idle", copy |-> NoCopy]
ReviewSteps == {"idle", "due", "limit", "holds", "hold", "timer",
                "limiteds", "limited", "caps", "cap"}

\* What became of an operator's manual disable.
Standing == {"no", "manual", "manual_while_capped", "bought_back"}

TypeOK ==
  /\ now \in 0..MaxTime
  /\ row \in RowRecord /\ blocked \in BOOLEAN
  /\ rev.pc \in ReviewSteps
  /\ req.pc \in {"idle", "edit", "reset", "resetall", "next", "plan", "apply"}
  /\ left.requests \in 0..MaxRequests /\ left.disturb \in 0..MaxDisturb
  /\ off \in Standing /\ stale \in BOOLEAN

------------------------------------------------------------------------------
(* The quota rules, on a row or on a loaded copy of it.                     *)

\* There is no package without a positive data_limit; NULL counts as zero except in
\* a sum.
Package(r) == IF r.limit = Null THEN 0 ELSE r.limit

\* quota_exhausted.
Exhausted(r) == Package(r) > 0 /\ r.used >= Package(r)
\* The review's own test, which takes a negative data_limit for a spent one.
OverLimit(r) == Package(r) # 0 /\ r.used >= Package(r)
Expired(r) == r.expire > 0 /\ r.expire <= now

\* remaining_traffic; nothing to count for an unlimited package.
Remaining(r) == IF Package(r) <= 0 THEN 0 ELSE Max({0, Package(r) - r.used})

\* Mutant: nobody is reactivated.
NeverReactivated(r) == r

\* reactivate_if_quota_available.
Reactivated(r) ==
  IF r.status = "limited" /\ ~Exhausted(r) /\ r.overage = 0
  THEN [r EXCEPT !.status = "active"] ELSE r

\* Mutant: only an overage is clamped to the new package.
RechargedUnclamped(r) ==
  IF r.overage = 0 \/ r.limit = Null THEN r
  ELSE [r EXCEPT !.used = Min({r.used + r.overage, Package(r)}),
                 !.overage = Max({0, r.used + r.overage - Package(r)})]

\* apply_overage_on_recharge, then the clamp of update_user.
Recharged(r) ==
  LET total == r.used + r.overage
  IN  IF r.limit = Null THEN [r EXCEPT !.used = total, !.overage = 0]
      ELSE [r EXCEPT !.used = Min({total, r.limit}),
                     !.overage = IF @ = 0 THEN 0 ELSE Max({0, total - r.limit})]

\* update_user_status: a user who is cut is also offline.
WithStatus(r, s) ==
  [r EXCEPT !.status = s,
            !.online = IF s \in {"disabled", "expired", "limited"} THEN "never" ELSE @]

------------------------------------------------------------------------------
(* What each request assigns to its loaded copy.                            *)

\* update_user: the explicit status first, and leaving on-hold clears the timer
\* unless the body sets it.
EditStatus(r, m) ==
  IF m.status = Same THEN r
  ELSE [WithStatus(r, m.status) EXCEPT
          !.hold = IF m.status # "on_hold" /\ m.hold = Keep THEN 0 ELSE @,
          !.timeout = IF m.status # "on_hold" /\ m.timeout = Keep THEN 0 ELSE @]

\* ... then the package: the status follows the quota unless the body set it or
\* the user is expired or disabled.
EditLimit(r, m) ==
  IF m.limit = Keep THEN r
  ELSE LET c == Recharged([r EXCEPT !.limit = IF m.limit = 0 THEN Null ELSE m.limit])
       IN  IF m.status # Same \/ c.status \in {"expired", "disabled"} THEN c
           ELSE IF Exhausted(c) THEN [c EXCEPT !.status = "limited"]
           ELSE IF c.status = "on_hold" THEN c
           ELSE [c EXCEPT !.status = "active"]

\* ... then the expiry, which moves only active and expired users.
EditExpire(r, m) ==
  IF m.expire = Keep THEN r
  ELSE LET c == [r EXCEPT !.expire = m.expire]
       IN  IF m.status # Same \/ c.status \notin {"active", "expired"} THEN c
           ELSE [c EXCEPT !.status = IF Expired(c) THEN "expired" ELSE "active"]

\* ... then the timer fields and the next plan (a body without one deletes it),
\* the edit time, and the reactivation unless the body forces "limited".
Edited(r, m) ==
  LET c == EditExpire(EditLimit(EditStatus(r, m), m), m)
      d == [c EXCEPT !.hold = IF m.hold = Keep THEN @ ELSE m.hold,
                     !.timeout = IF m.timeout = Keep THEN @ ELSE m.timeout,
                     !.next = m.next,
                     !.online = IF @ = "new" THEN "old" ELSE @]
  IN  IF m.status = "limited" /\ m.limit = Keep THEN d ELSE Reactivated(d)

\* reset_user_data_usage: an on-hold user becomes active too.
UsageReset(r) ==
  [r EXCEPT !.used = 0, !.overage = 0, !.next = NoPlan,
            !.status = IF @ \in {"expired", "disabled"} THEN @ ELSE "active"]

\* reset_all_users_data_usage.
UsageResetAll(r) ==
  [r EXCEPT !.used = 0, !.overage = 0, !.next = NoPlan,
            !.status = IF @ \in {"on_hold", "expired", "disabled"} THEN @ ELSE "active"]

\* reset_user_by_next: the carried-over remainder fails when data_limit is None,
\* and may be negative.
NextRaises(r) == ~r.next.add /\ r.limit = Null
TakeNext(r) ==
  [r EXCEPT !.used = 0, !.overage = 0, !.next = NoPlan, !.status = "active",
            !.limit = r.next.limit + (IF r.next.add THEN 0 ELSE r.limit - r.used),
            !.expire = IF r.next.expire = 0 THEN 0 ELSE now + r.next.expire]

\* Mutant: the package is computed after the reset.
RenewalLimitFull(r, p) == IF p.limit = 0 THEN 0 ELSE p.limit + Package(r)

\* compute_renewal_expire and compute_renewal_data_limit.
RenewalExpire(r, p) ==
  IF p.days = 0 THEN r.expire ELSE (IF r.expire > now THEN r.expire ELSE now) + p.days
RenewalLimit(r, p) ==
  IF p.limit = 0 \/ Package(r) <= 0 THEN p.limit ELSE p.limit + Remaining(r)

\* apply_plan_to_user: the body of its update_user.
PlanBody(expire, limit) ==
  [status |-> "active", limit |-> limit, expire |-> expire, hold |-> Keep,
   timeout |-> Keep, next |-> NoPlan]

------------------------------------------------------------------------------
(* Sessions.                                                                *)

\* A commit writes the columns that differ from what was loaded.
Flush(loaded, new) ==
  /\ row' = [f \in DOMAIN row |-> IF new[f] # loaded[f] THEN new[f] ELSE row[f]]
  /\ stale' = (stale \/ row # loaded)

\* An explicit decision of the operator about the user.
Decide(status) ==
  off' = CASE status = "disabled" /\ ~row.capped -> "manual"
           [] status = "disabled" /\ row.capped -> "manual_while_capped"
           [] status = Same -> off
           [] OTHER -> "no"
\* A plan bought for the user, in the portal by the customer itself too: nothing
\* asks whether an operator had disabled it.
Bought == off' = IF off = "no" THEN "no" ELSE "bought_back"

Disturb == left.disturb > 0 /\ left' = [left EXCEPT !.disturb = @ - 1]

\* A request reads the row.
Request(r) ==
  /\ req.pc = "idle" /\ left.requests > 0
  /\ left' = [left EXCEPT !.requests = @ - 1]
  /\ req' = r
  /\ UNCHANGED <<now, row, blocked, rev, off, stale>>

EndRequest == req' = NoReq /\ UNCHANGED <<now, blocked, rev, left>>

LoadEdit == \E m \in Modifies : Request([pc |-> "edit", copy |-> row, body |-> m])
\* The INSERT of a next plan without data_limit fails, and nothing is committed.
FlushEdit ==
  /\ req.pc = "edit"
  /\ \/ req.body.next = BadPlan /\ UNCHANGED <<row, stale, off>>
     \/ /\ req.body.next # BadPlan
        /\ Flush(req.copy, Edited(req.copy, req.body))
        /\ Decide(req.body.status)
  /\ EndRequest

\* The reset button, the portal and the periodic reset job (which takes active
\* and limited users only).
LoadReset == Request([pc |-> "reset", copy |-> row])
LoadResetAll == Request([pc |-> "resetall", copy |-> row])
FlushReset ==
  /\ req.pc \in {"reset", "resetall"}
  /\ Flush(req.copy, IF req.pc = "reset" THEN UsageReset(req.copy)
                                         ELSE UsageResetAll(req.copy))
  /\ UNCHANGED off
  /\ EndRequest

\* active_next_plan: a failing sum answers 500 and commits nothing.
LoadNext == row.next # NoPlan /\ Request([pc |-> "next", copy |-> row])
FlushNext ==
  /\ req.pc = "next"
  /\ \/ NextRaises(req.copy) /\ UNCHANGED <<row, stale, off>>
     \/ /\ ~NextRaises(req.copy)
        /\ Flush(req.copy, TakeNext(req.copy))
        /\ Decide("active")
  /\ EndRequest

\* apply_plan_to_user: the new package is computed on the loaded row, the usage is
\* reset in a commit of its own, then update_user applies the package.
LoadPlan ==
  \E p \in Plans :
    Request([pc |-> "plan", copy |-> row, plan |-> p, had |-> Remaining(row),
             body |-> PlanBody(RenewalExpire(row, p), RenewalLimit(row, p))])
PlanReset ==
  /\ req.pc = "plan"
  /\ \/ /\ req.copy.used > 0 \/ req.copy.overage > 0
        /\ Flush(req.copy, UsageReset(req.copy))
        /\ req' = [req EXCEPT !.pc = "apply", !.copy = row']
     \/ /\ req.copy.used = 0 /\ req.copy.overage = 0
        /\ req' = [req EXCEPT !.pc = "apply"]
        /\ UNCHANGED <<row, stale>>
  /\ UNCHANGED <<now, blocked, rev, left, off>>
PlanApply ==
  /\ req.pc = "apply"
  /\ Flush(req.copy, Edited(req.copy, req.body))
  /\ Bought
  /\ EndRequest

\* disable_all_active_users and activate_all_disabled_users: UPDATEs on the rows
\* as they are.
DisableAll ==
  /\ row.status \in {"active", "on_hold"}
  /\ row' = [row EXCEPT !.status = "disabled"]
  /\ Decide("disabled")
ActivateAll ==
  /\ row.status = "disabled"
  /\ row' = [row EXCEPT !.status =
        IF row.expire = 0 /\ row.hold > 0 /\ row.online = "never" THEN "on_hold" ELSE "active"]
  /\ Decide("active")
Bulk ==
  /\ req.pc = "idle" /\ left.requests > 0
  /\ left' = [left EXCEPT !.requests = @ - 1]
  /\ DisableAll \/ ActivateAll
  /\ UNCHANGED <<now, blocked, req, rev, stale>>

------------------------------------------------------------------------------
(* The review job.  Each scan takes the row if it matches its query, else    *)
(* the review goes on to the next scan.                                      *)

EndScan(pc) == rev' = [pc |-> pc, copy |-> NoCopy]
Quiet == UNCHANGED <<now, blocked, req, left, off>>
Skip(pc) == EndScan(pc) /\ UNCHANGED <<row, stale>> /\ Quiet

\* The review loads the row (or finds it does not match and goes on).
Scan(from, match, pc, skip) ==
  /\ rev.pc = from
  /\ rev' = IF match THEN [pc |-> pc, copy |-> row] ELSE [pc |-> skip, copy |-> NoCopy]
  /\ UNCHANGED <<row, stale>> /\ Quiet

Due(r) == r.status = "active" /\ (Exhausted(r) \/ Expired(r))
FiresNext(r) ==
  r.next # NoPlan /\ (r.next.either \/ (OverLimit(r) /\ Expired(r)))
HoldOver(r) == r.online = "new" \/ (r.timeout > 0 /\ r.timeout <= now)

\* enforce_usage_cap.
PastLimit(r) == Package(r) > 0 /\ r.used > Package(r)
UsageCapped(r) == [r EXCEPT !.used = r.limit]

ScanDue == Scan("idle", Due(row), "due", "holds")

\* A due user takes the next plan, or is limited, or expires.  An exception ends
\* the whole review.  limit_user_quota first caps the usage in a commit of its own.
ReviewDue ==
  LET c == rev.copy IN
  /\ rev.pc = "due"
  /\ \/ FiresNext(c) /\ NextRaises(c) /\ Skip("idle")
     \/ FiresNext(c) /\ ~NextRaises(c) /\ Flush(c, TakeNext(c)) /\ EndScan("holds") /\ Quiet
     \/ /\ ~FiresNext(c) /\ OverLimit(c)
        /\ IF PastLimit(c) THEN Flush(c, UsageCapped(c)) ELSE UNCHANGED <<row, stale>>
        /\ rev' = [pc |-> "limit", copy |-> IF PastLimit(c) THEN row' ELSE c]
        /\ Quiet
     \/ /\ ~FiresNext(c) /\ ~OverLimit(c)
        /\ Flush(c, WithStatus(c, "expired")) /\ EndScan("holds") /\ Quiet

\* limit_user_quota on the copy, read again when the cap was committed.
ReviewLimit ==
  LET c == rev.copy IN
  /\ rev.pc = "limit"
  /\ IF c.status = "active" /\ OverLimit(c)
     THEN Flush(c, WithStatus(c, "limited")) ELSE UNCHANGED <<row, stale>>
  /\ EndScan("holds") /\ Quiet

\* On-hold users who connected since the last edit, or whose timeout passed.  The
\* activation and the start of the timer are two commits.
ScanHold == Scan("holds", row.status = "on_hold" /\ HoldOver(row), "hold", "limiteds")
ReviewHold ==
  /\ rev.pc = "hold"
  /\ Flush(rev.copy, [rev.copy EXCEPT !.status = "active"])
  /\ rev' = [pc |-> "timer", copy |-> row']
  /\ Quiet
StartExpire ==
  LET c == rev.copy IN
  /\ rev.pc = "timer"
  /\ \/ c.hold = 0 /\ Skip("idle")
     \/ /\ c.hold > 0
        /\ Flush(c, [c EXCEPT !.expire = now + c.hold, !.hold = 0, !.timeout = 0])
        /\ EndScan("limiteds") /\ Quiet

ScanLimited == Scan("limiteds", row.status = "limited", "limited", "caps")
ReviewLimited ==
  LET c == rev.copy IN
  /\ rev.pc = "limited"
  /\ IF PastLimit(c) THEN Flush(c, UsageCapped(c))
     ELSE IF Reactivated(c) # c /\ Package(c) >= 0
          THEN Flush(c, Reactivated(c))
     ELSE UNCHANGED <<row, stale>>
  /\ EndScan("caps") /\ Quiet

\* enforce_reseller_traffic_caps, in a session of its own: the suspended set is
\* computed when the row is loaded.
Capped(c) ==
  IF blocked THEN [c EXCEPT !.status = "disabled", !.capped = TRUE]
  ELSE [c EXCEPT !.capped = FALSE, !.status = IF Exhausted(c) THEN "limited" ELSE "active"]
\* Mutant: every disabled user of a paid-up reseller is restored.
CapMatchAll == IF blocked THEN row.status = "active" ELSE row.status = "disabled"

CapMatch == IF blocked THEN row.status = "active" ELSE row.capped
ScanCaps ==
  /\ rev.pc = "caps"
  /\ rev' = IF CapMatch THEN [pc |-> "cap", copy |-> row, new |-> Capped(row)]
                        ELSE NoReview
  /\ UNCHANGED <<row, stale>> /\ Quiet
\* The commit happens only when some user was suspended or made active: a user put
\* back to limited is written only if another user of the pass is.
ReviewCap ==
  /\ rev.pc = "cap"
  /\ \/ Flush(rev.copy, rev.new)
     \/ rev.new.status = "limited" /\ UNCHANGED <<row, stale>>
  /\ EndScan("idle") /\ Quiet

------------------------------------------------------------------------------
(* The world: traffic, connections, the clock, the reseller, restarts.       *)

\* The bill of a byte: the package up to its limit, then the overage once the user is
\* no longer billable, which the byte that limits it sees already.
Transfer ==
  /\ Disturb
  /\ row' = IF row.status \in {"active", "on_hold"}
            THEN LET r == [row EXCEPT !.used = IF Exhausted(row) THEN @ ELSE @ + 1]
                 IN  IF r.status = "active" /\ Exhausted(r)
                     THEN [WithStatus(r, "limited") EXCEPT !.overage = @ + 1] ELSE r
            ELSE [row EXCEPT !.overage = @ + 1]
  /\ UNCHANGED <<now, blocked, req, rev, off, stale>>

Connect ==
  /\ Disturb /\ row.online # "new"
  /\ row' = [row EXCEPT !.online = "new"]
  /\ UNCHANGED <<now, blocked, req, rev, off, stale>>

Tick ==
  /\ now < MaxTime /\ now' = now + 1
  /\ UNCHANGED <<row, blocked, req, rev, left, off, stale>>

Reseller ==
  /\ Disturb /\ blocked' = ~blocked
  /\ UNCHANGED <<now, row, req, rev, off, stale>>

\* The process restarts: the review and the request are lost where they are.
Crash ==
  /\ Disturb /\ (rev.pc # "idle" \/ req.pc # "idle")
  /\ rev' = NoReview /\ req' = NoReq
  /\ UNCHANGED <<now, row, blocked, off, stale>>

------------------------------------------------------------------------------
Init ==
  /\ now = 0 /\ row \in FirstRow /\ blocked = FALSE
  /\ req = NoReq /\ rev = NoReview
  /\ left = [requests |-> MaxRequests, disturb |-> MaxDisturb]
  /\ off = "no" /\ stale = FALSE

RequestStep == FlushEdit \/ FlushReset \/ FlushNext \/ PlanReset \/ PlanApply
ReviewStep ==
  \/ ScanDue \/ ReviewDue \/ ReviewLimit \/ ScanHold \/ ReviewHold \/ StartExpire
  \/ ScanLimited \/ ReviewLimited \/ ScanCaps \/ ReviewCap
Next ==
  \/ LoadEdit \/ LoadReset \/ LoadResetAll \/ LoadNext \/ LoadPlan \/ Bulk
  \/ RequestStep \/ ReviewStep
  \/ Transfer \/ Connect \/ Tick \/ Reseller \/ Crash

\* The scheduler runs the review every few seconds on the leader; a request may
\* hang between its load and its commit for ever.
Spec == Init /\ [][Next]_vars
FairSpec == Spec /\ WF_vars(ReviewStep)

------------------------------------------------------------------------------
(* A manual disable holds: no automatic step, reset, recharge or next plan     *)
(* re-enables a user an operator disabled (unless the user was capped when     *)
(* disabled, a plan was bought for it since, be it by the disabled customer in *)
(* the portal, or a session committed over a row that changed under it).       *)
OffStaysOff == off = "manual" /\ ~stale => row.status = "disabled"

(* Nobody has used more than the package, through every order of edits,         *)
(* resets, next plans, renewals and bills (unless a session committed over a    *)
(* row that changed under it, which the review then repairs).                   *)
WithinPackage == ~stale /\ Package(row) > 0 => row.used <= Package(row)

(* A renewal that nobody interferes with leaves exactly the unused remainder    *)
(* plus the bought package, though the reset and the package are two commits    *)
(* and the remainder is computed before them (apply_plan_to_user).              *)
RenewalExact ==
  [][req.pc = "apply" /\ PlanApply /\ ~stale' =>
       IF req.plan.limit = 0 THEN row'.limit = Null /\ row'.status = "active"
       ELSE /\ Remaining(row') = req.plan.limit + req.had
            /\ row'.status = "active"]_vars

(* A review that raises on this row: every review ends here.                   *)
Poisoned ==
  \/ Due(row) /\ FiresNext(row) /\ NextRaises(row)
  \/ row.status = "on_hold" /\ HoldOver(row) /\ row.hold = 0

(* Nothing is left for the review to do: no served user is over its package,   *)
(* its time or its reseller's cap, no on-hold user who connected still waits,   *)
(* and nobody with an unspent package and no overage is kept limited.  A next    *)
(* plan may leave a negative package: the review limits such a user when it      *)
(* expires and never reactivates it.                                             *)
Settled ==
  /\ row.status = "active" => ~Exhausted(row) /\ ~Expired(row) /\ ~blocked
  /\ row.status = "on_hold" => ~HoldOver(row)
  /\ row.status = "limited" => Exhausted(row) \/ row.overage > 0 \/ Package(row) < 0
  /\ row.capped /\ ~blocked => Exhausted(row)

(* Once requests, traffic and the reseller are quiet, the review brings the     *)
(* row to rest and leaves it there, whatever interleaving of stale commits,     *)
(* crashes and clock ticks came before (unless an exception ends every review). *)
Settles == <>[](Settled \/ Poisoned)
==============================================================================
