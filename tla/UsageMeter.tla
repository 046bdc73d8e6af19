----------------------------- MODULE UsageMeter -----------------------------
(***************************************************************************)
(* Traffic metering of one user on one node (app/jobs/record_usages.py,    *)
(* app/usage_baselines.py, app/wireguard/finalmask_usage.py and the quota  *)
(* helpers of app/quota.py).                                               *)
(*                                                                         *)
(* The node's core keeps a cumulative byte counter.  Every tick reads it,  *)
(* turns it into a delta against the baseline (peek_deltas), and a bill    *)
(* thread charges the delta to the user, to the reseller and to the        *)
(* overage, and only then moves the baseline (commit_pending).  Collects   *)
(* are serialised by the tick lock and bills by the bill lock, but the     *)
(* next collect may run while a bill is still under way.  A Finalmask      *)
(* flush bills the same counter before a shard is replaced, outside both   *)
(* locks.  The users of a tick are charged row by row, so one user and a   *)
(* failure at any step stand for a batch that fails at any row; bytes are  *)
(* counted in units, the usage coefficient is 1.                           *)
(***************************************************************************)
EXTENDS Integers, FiniteSets, FiniteSetsExt

CONSTANTS
  Ticks,           \* slots for ticks in flight
  Flush,           \* the slot of the Finalmask flush
  Limits,          \* data limits an operator may set; 0 is unlimited
  FirstLimit,      \* the one the user starts with
  MaxDelta,        \* USAGE_MAX_DELTA_BYTES; 0 switches the check off
  MaxBytes,        \* bound: bytes the user transfers
  MaxDisturb       \* bound: flushes, operator edits, core restarts, late answers, failed
                   \* bills, worker crashes and failed Redis calls, all together

ASSUME UsageConstants ==
  /\ IsFiniteSet(Ticks) /\ Flush \notin Ticks
  /\ Limits \subseteq Nat /\ FirstLimit \in Limits
  /\ \A n \in {MaxDelta, MaxBytes, MaxDisturb} : n \in Nat

Slots == Ticks \cup {Flush}
Unknown == -1      \* no baseline: None in the code

VARIABLES
  counter,         \* the core's cumulative counter
  mem, redis,      \* the baseline: CumulativeByteTracker._last and its Redis copy
  user,            \* the users row
  edit,            \* the copy of it that a request or the review job is editing
  task,            \* the ticks and the flush in flight
  budget,          \* what is left of MaxDisturb
  sent,            \* history: bytes transferred
  tally            \* history: what became of them

vars == <<counter, mem, redis, user, edit, task, budget, sent, tally>>

\* Program counters of a task, in the order of the code.
Steps == {"idle", "read", "queued", "charge", "limit", "setlimited", "admin",
          "over", "overage", "commit"}
Billing == {"charge", "limit", "setlimited", "admin", "over", "overage", "commit"}

\* The records: a task, the users row, a row loaded into a session and what the
\* session makes of it, and what became of the bytes (nothing more is counted once
\* clean is lost).
Task(pc, total, delta, value, unsure, capped, seen) ==
  [pc |-> pc, total |-> total, delta |-> delta, value |-> value,
   unsure |-> unsure, capped |-> capped, seen |-> seen]
User(status, used, overage, limit) ==
  [status |-> status, used |-> used, overage |-> overage, limit |-> limit]
Edit(old, new) == [old |-> old, new |-> new]
History(charged, burn, settled, clean) ==
  [charged |-> IF clean THEN charged ELSE 0, burn |-> IF clean THEN burn ELSE 0,
   settled |-> settled, clean |-> clean]

Idle == Task("idle", 0, 0, 0, FALSE, FALSE, FALSE)

TypeOK ==
  /\ counter \in 0..MaxBytes
  /\ mem \in -1..MaxBytes /\ redis \in -1..MaxBytes
  /\ user.status \in {"active", "limited"}
  /\ {user.used, user.overage} \subseteq Nat /\ user.limit \in Limits
  /\ \A e \in edit : {e.new.used, e.new.overage} \subseteq Nat /\ e.new.limit \in Limits
  /\ \A s \in Slots :
        /\ task[s].pc \in Steps
        /\ {task[s].total, task[s].delta, task[s].value} \subseteq 0..MaxBytes
        /\ {task[s].unsure, task[s].capped, task[s].seen} \subseteq BOOLEAN
  /\ \A s \in Ticks : task[s].pc \in {"charge", "limit", "setlimited", "admin"} => task[s].delta > 0
  /\ sent \in 0..MaxBytes /\ budget \in 0..MaxDisturb

------------------------------------------------------------------------------
(* What the next collect would find.                                        *)

\* _load_last: the in-process value, else the Redis copy.
LoadLast == IF mem # Unknown THEN mem ELSE redis

\* Mutant: the reset test off by one.
DeltaResetAtEqual(last, total) ==
  CASE last = Unknown -> 0
    [] last # Unknown /\ total <= last -> total
    [] OTHER -> total - last

\* peek_deltas: a counter below its baseline was reset, its reading is the delta.
DeltaSince(last, total) ==
  CASE last = Unknown -> 0
    [] last # Unknown /\ total < last -> total
    [] OTHER -> total - last

Unread == DeltaSince(LoadLast, counter)

(* Unread after a step: the bytes a step takes out of reach of every later  *)
(* collect without billing them are given up.                               *)
UnreadAfter == DeltaSince(IF mem' # Unknown THEN mem' ELSE redis', counter')
GivenUp == Max({0, (sent' - sent) + Unread - UnreadAfter})

\* History: bytes charged to the user, as used traffic or as overage, charged to the
\* reseller (Admin.users_usage, which no step of the meter reads), and dealt with ...
Tally(charged, burn, settled) ==
  tally' = History(tally.charged + charged, tally.burn + burn, tally.settled + settled, tally.clean)
\* ... and steps after which bytes may be charged again.
Spoil(bad, settled) ==
  tally' = History(tally.charged, tally.burn, tally.settled + settled, tally.clean /\ ~bad)

Disturb == budget > 0 /\ budget' = budget - 1

\* _save_last: memory always, Redis when it can be reached.
SaveLast(total) ==
  /\ mem' = total
  /\ \/ redis' = total /\ UNCHANGED budget
     \/ Disturb /\ UNCHANGED redis

QuotaExhausted(u) == u.limit > 0 /\ u.used >= u.limit
Billable(u) == u.status = "active"

\* clamp_usage_delta against the row as read.
ClampDelta(u, delta) ==
  IF u.limit = 0 THEN delta ELSE Min({delta, Max({0, u.limit - u.used})})

\* Mutant: the UPDATE trusts the earlier clamp.
UnclampedUsed(u, value) == u.used + value

\* The CASE of the UPDATE, evaluated on the row as it now is.
ClampedUsed(u, value) ==
  IF u.limit > 0 /\ u.used + value > u.limit THEN u.limit ELSE u.used + value

InFlight(s) == task[s].pc # "idle"
Overlapping(s) == \E o \in Slots \ {s} : InFlight(o)

------------------------------------------------------------------------------
(* The user and the core.                                                   *)

\* The user transfers a byte: the core counts it (limited users may leak too).
Transfer ==
  /\ sent < MaxBytes
  /\ sent' = sent + 1
  /\ counter' = counter + 1
  /\ UNCHANGED <<mem, redis, user, task, budget, edit>>
  /\ Tally(0, 0, GivenUp)

\* A core restart, or a Finalmask shard replaced: the counter starts again, and
\* what the ticks in flight have read is no longer comparable with it.
CoreReset ==
  /\ Disturb /\ counter > 0
  /\ counter' = 0
  /\ task' = [s \in Slots |-> [task[s] EXCEPT !.unsure = InFlight(s)]]
  /\ UNCHANGED <<mem, redis, user, sent, edit>>
  /\ Tally(0, 0, GivenUp)

------------------------------------------------------------------------------
(* Collecting.                                                              *)

\* A tick takes the tick lock and reads the counters; a zero counter is not
\* reported (filter on value) and leaves nothing to do.
Read(s) ==
  /\ task[s].pc = "idle" /\ counter > 0
  /\ IF s = Flush THEN Disturb
     ELSE /\ \A t \in Ticks : task[t].pc # "read"
          /\ UNCHANGED budget
  /\ task' = [task EXCEPT ![s] = Task("read", counter, 0, 0, FALSE, FALSE, FALSE)]
  /\ UNCHANGED <<counter, mem, redis, user, sent, tally, edit>>

\* peek_deltas with a baseline that could be loaded.  A jump above the cap is
\* discarded and the baseline saved at once, in memory and in Redis.
Discarded(total) == MaxDelta > 0 /\ DeltaSince(LoadLast, total) > MaxDelta

PeekOutcome(s, last) ==
  LET total == task[s].total
      dropped == last # Unknown /\ Discarded(total)
  IN Task("queued", total, IF dropped THEN 0 ELSE DeltaSince(last, total), 0,
          task[s].unsure \/ last = Unknown, FALSE, FALSE)

\* A peek that overlaps another task may count that task's bytes again.
Peek(s) ==
  /\ s \in Ticks /\ task[s].pc = "read"
  /\ \/ \* the baseline is at hand (and cached): a discarded jump moves it now
        /\ task' = [task EXCEPT ![s] = PeekOutcome(s, LoadLast)]
        /\ IF Discarded(task[s].total)
           THEN /\ SaveLast(task[s].total)
                /\ Spoil(Overlapping(s), DeltaSince(LoadLast, task[s].total))
           ELSE /\ mem' = LoadLast
                /\ Spoil(Overlapping(s), 0)
                /\ UNCHANGED <<redis, budget>>
     \/ \* the answer is late for map_rpc: the reading is dropped, its baseline is
        \* already among those the tick commits
        /\ Disturb /\ ~Discarded(task[s].total)
        /\ mem' = LoadLast
        /\ task' = [task EXCEPT ![s] = Task("queued", @.total, 0, 0, TRUE, FALSE, FALSE)]
        /\ Spoil(Overlapping(s), 0)
        /\ UNCHANGED redis
     \/ \* Redis cannot be read and memory is empty: a first sighting
        /\ mem = Unknown /\ redis # Unknown /\ Disturb
        /\ task' = [task EXCEPT ![s] = PeekOutcome(s, Unknown)]
        /\ Spoil(Overlapping(s), 0)
        /\ UNCHANGED <<mem, redis>>
  /\ UNCHANGED <<counter, user, sent, edit>>

\* forget_group: the next reading is a first sighting, unless Redis kept a value,
\* the one just stored or, when that call failed as well, the one before it.
Forget(stored) ==
  /\ mem' = Unknown
  /\ \/ redis' = Unknown /\ UNCHANGED budget
     \/ Disturb /\ redis' \in {stored, redis}

\* flush_finalmask_node_stats before a shard is replaced: deltas() commits the
\* baseline before the bill, forget_node drops it.
FlushPeek ==
  LET s == Flush
      delta == IF Discarded(task[s].total) THEN 0 ELSE DeltaSince(LoadLast, task[s].total)
  IN /\ task[s].pc = "read"
     /\ Forget(task[s].total)
     /\ task' = [task EXCEPT ![s] =
          IF delta > 0
          THEN Task("queued", task[s].total, delta, 0, task[s].unsure, FALSE, FALSE) ELSE Idle]
     /\ Spoil(Overlapping(s) \/ redis' \notin {Unknown, task[s].total}, Max({0, Unread - delta}))
     /\ UNCHANGED <<counter, user, sent, edit>>

\* A flush that cannot read the node forgets the baseline all the same; a value
\* that is only in Redis is not among the keys it deletes, and a delete may fail.
FlushBlind ==
  /\ task[Flush].pc = "idle" /\ Disturb
  /\ mem' = Unknown
  /\ redis' = redis \/ (mem # Unknown /\ redis' = Unknown)
  /\ UNCHANGED <<counter, user, task, sent, edit>>
  /\ Spoil(redis' \notin {Unknown, LoadLast}, GivenUp)

------------------------------------------------------------------------------
(* Billing.                                                                 *)

\* Mutant: the lock is taken with the payload and again by its bill thread.
LockTakenTwice == \A t \in Ticks : task[t].pc \in {"idle", "read"}

\* _USAGE_BILL_LOCK.
BillLockFree == \A t \in Ticks : task[t].pc \notin Billing

\* Only the baseline is left to commit; the flush has committed it already.
Billed(s) ==
  IF s = Flush THEN Idle
  ELSE Task("commit", task[s].total, 0, 0, task[s].unsure, FALSE, FALSE)

\* record_aggregated_user_usages reads the billable rows and clamps.  A tick
\* holds the bill lock from here on, the flush holds none.
StartBill(s) ==
  LET delta == task[s].delta
      value == IF Billable(user) THEN ClampDelta(user, delta) ELSE 0
  IN /\ task[s].pc = "queued"
     /\ s \in Ticks => BillLockFree
     /\ task' = [task EXCEPT ![s] =
          IF delta = 0 \/ (s = Flush /\ value = 0) THEN Billed(s)
          ELSE Task(IF value > 0 THEN "charge" ELSE "over", task[s].total, delta, value,
                    task[s].unsure, value > 0 /\ user.limit > 0, Billable(user))]
     /\ Tally(0, 0, IF value = 0 /\ (Billable(user) \/ s = Flush) THEN delta ELSE 0)
     /\ UNCHANGED <<counter, mem, redis, user, budget, sent, edit>>

\* UPDATE users SET used_traffic = CASE ..., committed chunk by chunk.
Charge(s) ==
  /\ task[s].pc = "charge"
  /\ user' = [user EXCEPT !.used = ClampedUsed(user, task[s].value)]
  /\ task' = [task EXCEPT ![s].pc = "limit"]
  /\ Tally(user'.used - user.used, 0, task[s].delta)
  /\ UNCHANGED <<counter, mem, redis, budget, sent, edit>>

\* The users now at their limit are loaded; limit_user_quota caps and tests them ...
FindLimited(s) ==
  LET hit == QuotaExhausted(user) /\ user.status = "active" IN
  /\ task[s].pc = "limit"
  /\ user' = [user EXCEPT !.used = IF hit THEN Min({user.used, user.limit}) ELSE @]
  /\ task' = [task EXCEPT ![s].pc = IF hit THEN "setlimited" ELSE "admin"]
  /\ UNCHANGED <<counter, mem, redis, budget, sent, tally, edit>>

\* ... and update_user_status commits the status alone.
SetLimited(s) ==
  /\ task[s].pc = "setlimited"
  /\ user' = [user EXCEPT !.status = "limited"]
  /\ task' = [task EXCEPT ![s].pc = "admin"]
  /\ UNCHANGED <<counter, mem, redis, budget, sent, tally, edit>>

\* Admin.users_usage takes the clamped value of volume-capped users.
ChargeAdmin(s) ==
  /\ task[s].pc = "admin"
  /\ Tally(0, IF task[s].capped THEN task[s].value ELSE 0, 0)
  /\ task' = [task EXCEPT ![s] = IF s = Flush THEN Billed(s) ELSE [@ EXCEPT !.pc = "over"]]
  /\ UNCHANGED <<counter, mem, redis, user, budget, sent, edit>>

\* record_overage_usages selects the users that are not billable now ...
FindOverage(s) ==
  /\ task[s].pc = "over"
  /\ \/ /\ ~Billable(user)
        /\ task' = [task EXCEPT ![s].pc = "overage"]
        /\ UNCHANGED tally
     \/ /\ Billable(user)
        /\ task' = [task EXCEPT ![s] = Billed(s)]
        /\ Tally(0, 0, IF task[s].seen THEN 0 ELSE task[s].delta)
  /\ UNCHANGED <<counter, mem, redis, user, budget, sent, edit>>

\* ... and adds the whole delta of the tick to their overage.  What the same bill
\* charged before it limited the user is in it once more, and is counted once here.
AddOverage(s) ==
  /\ task[s].pc = "overage"
  /\ user' = [user EXCEPT !.overage = @ + task[s].delta]
  /\ task' = [task EXCEPT ![s] = Billed(s)]
  /\ Tally(task[s].delta - task[s].value, 0, IF task[s].seen THEN 0 ELSE task[s].delta)
  /\ UNCHANGED <<counter, mem, redis, budget, sent, edit>>

\* Bytes a baseline moved to total passes over: given up when the reading had no
\* baseline to compare with, was late, or was of a counter that has been reset since.
Passed(total) == Max({0, Unread - DeltaSince(total, counter)})

\* commit_pending: the baseline moves to what the tick read.
Commit(s) ==
  /\ task[s].pc = "commit"
  /\ SaveLast(task[s].total)
  /\ Tally(0, 0, IF task[s].unsure THEN Passed(task[s].total) ELSE 0)
  /\ task' = [task EXCEPT ![s] = Idle]
  /\ UNCHANGED <<counter, user, sent, edit>>

\* Mutant: the baselines are committed although the bill failed.
FailBillCommits(s) ==
  /\ task[s].pc \in Billing /\ Disturb
  /\ task' = [task EXCEPT ![s] = Idle]
  /\ mem' = task[s].total /\ redis' = task[s].total
  /\ UNCHANGED <<counter, user, sent, tally, edit>>

\* A database error at any step of a bill: the baselines of a tick stay where
\* they are, the flush has moved its own already.
FailBill(s) ==
  LET unwritten == task[s].pc = "charge" \/ (task[s].pc \in {"over", "overage"} /\ task[s].value = 0)
  IN /\ task[s].pc \in Billing /\ Disturb
     /\ task' = [task EXCEPT ![s] = Idle]
     /\ Spoil(~unwritten, IF s = Flush /\ task[s].pc = "charge" THEN task[s].delta ELSE 0)
     /\ UNCHANGED <<counter, mem, redis, user, sent, edit>>

\* Bytes only the flush still knows of.
FlushInHand == IF task[Flush].pc \in {"queued", "charge"} THEN task[Flush].delta ELSE 0

\* The worker restarts: threads and memory are gone, Redis stays.
Crash ==
  /\ Disturb
  /\ mem' = Unknown
  /\ task' = [s \in Slots |-> Idle]
  /\ Spoil(TRUE, FlushInHand + Max({0, Unread - DeltaSince(redis, counter)}))
  /\ edit' = {}
  /\ UNCHANGED <<counter, redis, user, sent>>

------------------------------------------------------------------------------
(* The operator and the review job write the same row.  A session loads it, *)
(* decides on the copy, and its commit writes the columns that changed      *)
(* (UPDATE ... SET, no version check).  One session at a time has it open.  *)

Opens(row) == edit = {} /\ edit' = {Edit(user, row)}

\* update_user with a data limit: apply_overage_on_recharge, clamp, status.
Recharged(row, l) ==
  LET total == row.used + row.overage
      used == IF l = 0 THEN total ELSE Min({total, l})
  IN User(IF l > 0 /\ used >= l THEN "limited" ELSE "active", used, total - used, l)

Recharge(l) ==
  /\ Disturb /\ Opens(Recharged(user, l))
  /\ UNCHANGED <<counter, mem, redis, user, task, sent, tally>>

\* reset_user_data_usage.
ResetUsage ==
  /\ Disturb /\ Opens(User("active", 0, 0, user.limit))
  /\ UNCHANGED <<counter, mem, redis, user, task, sent, tally>>

\* limit_user_quota, its cap committed (enforce_usage_cap).
Limited(row) == [row EXCEPT !.status = "limited"]
Capped(row) == [row EXCEPT !.used = row.limit]
Over(row) == row.limit > 0 /\ row.used > row.limit

\* review(): an active user at the limit is limited, a limited one with room and
\* without overage is active again; usage above the limit is capped first.
Review ==
  /\ \/ Over(user) /\ Opens(Capped(user))
     \/ ~Over(user) /\ user.status = "active" /\ QuotaExhausted(user) /\ Opens(Limited(user))
     \/ /\ user.status = "limited" /\ ~QuotaExhausted(user) /\ user.overage = 0
        /\ Opens([user EXCEPT !.status = "active"])
  /\ UNCHANGED <<counter, mem, redis, user, task, budget, sent, tally>>

Merged(e) == [c \in DOMAIN user |-> IF e.new[c] # e.old[c] THEN e.new[c] ELSE user[c]]

\* The commit.  After its cap the review goes on with an active user read again.
CommitEdit(e) ==
  /\ e \in edit
  /\ user' = Merged(e)
  /\ edit' = IF e.new = Capped(e.old) /\ e.old.status = "active"
                /\ user'.status = "active" /\ QuotaExhausted(user')
             THEN {Edit(user', Limited(user'))} ELSE {}
  /\ UNCHANGED <<counter, mem, redis, task, budget, sent, tally>>

------------------------------------------------------------------------------
Init ==
  /\ counter = 0 /\ mem = 0 /\ redis = 0
  /\ user = User("active", 0, 0, FirstLimit)
  /\ edit = {}
  /\ task = [s \in Slots |-> Idle]
  /\ budget = MaxDisturb
  /\ sent = 0
  /\ tally = History(0, 0, 0, TRUE)

TaskStep(s) ==
  \/ Peek(s) \/ StartBill(s) \/ Charge(s) \/ FindLimited(s) \/ SetLimited(s)
  \/ ChargeAdmin(s) \/ FindOverage(s) \/ AddOverage(s) \/ Commit(s)

Next ==
  \/ Transfer \/ CoreReset \/ Crash \/ Review \/ ResetUsage \/ FlushPeek \/ FlushBlind
  \/ \E s \in Slots : Read(s) \/ TaskStep(s) \/ FailBill(s)
  \/ \E l \in Limits : Recharge(l)
  \/ \E e \in edit : CommitEdit(e)

Spec == Init /\ [][Next]_vars

\* The scheduler keeps ticking and started threads run on.
Fairness ==
  /\ \A s \in Ticks : WF_vars(Read(s)) /\ WF_vars(TaskStep(s))
  /\ WF_vars(FlushPeek) /\ WF_vars(TaskStep(Flush))

FairSpec == Spec /\ Fairness

------------------------------------------------------------------------------
(* Correctness.                                                             *)

\* Every byte transferred is either recorded for the user, or still to be found
\* by the next collect, or was given up in one of the ways the code has: a first
\* sighting, an implausible jump, a counter reset before it was read, a flush, an
\* overage whose user was recharged meanwhile, a reading that was late for its tick
\* and whose baseline was committed all the same (record_usages.py:832-839, 1081).
\* A failed or crashed bill, overlapping ticks and baselines committed out of order
\* lose nothing.
NoByteSkipped == sent <= tally.settled + Unread + FlushInHand

\* As long as no two tasks overlapped, no bill broke off half-way and no flush left
\* an old baseline in Redis, a byte is charged once to the user, as used traffic or
\* as overage, and once to the reseller, whatever the operator does and whenever the
\* core restarts.  One exception is not counted in charged: the bill that limits the
\* user adds what it has just charged to the overage again (AddOverage, and
\* OverageBeyondQuota below).
BilledOnce == tally.clean => tally.charged <= sent /\ tally.burn <= sent

\* The commit of a row that changed after it was loaded.
StaleCommit == \E e \in edit : e.old # user /\ e \notin edit'

\* Bills that clamp against the same headroom cannot push the user past the data
\* limit between them, nor can a recharge that absorbs the overage: only a commit
\* over a row billed since it was loaded leaves the user above the limit.
MeterKeepsLimit == [][Over(user') /\ ~Over(user) => StaleCommit]_vars

\* "overage_traffic holds everything consumed while limited/expired" and
\* used_traffic "billable bytes up to the old limit" (app/quota.py:59-61): between
\* them they hold no more than the user consumed.
OverageBeyondQuota == user.used + user.overage <= sent

\* Once the user stops, the ticks read everything there is to read: retries
\* after a failed bill, a crash or a Redis outage come to an end.
AllRead == <>[](Unread = 0)
=============================================================================
