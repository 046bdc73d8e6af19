------------------------------- MODULE Outbox -------------------------------
(***************************************************************************)
(* The durable fleet-apply queue (app/sync/outbox.py) together with what   *)
(* it connects: the users table the API edits, the live inbound of the     *)
(* panel's own Xray core that the worker mutates (app/sync/hot_apply.py)   *)
(* and the read-back that acknowledges it (app/sync/ack.py).               *)
(*                                                                         *)
(* API processes edit a user and then enqueue a row, in two commits, and   *)
(* the enqueue itself looks for a row to coalesce into and commits later:  *)
(* nothing is locked in between.  One worker process drains: it claims a   *)
(* batch, and for each row reads the user, pushes the change, reads the    *)
(* user again, probes the core and records the outcome, every one a        *)
(* separate step because no session is held during an RPC.                 *)
(*                                                                         *)
(* A user's revision `ver' stands for everything a protocol change edits;  *)
(* the core holds the revision it was given, 0 when the email is absent.   *)
(* Clocks are abstracted to one flag per row: `elapsed' says that the      *)
(* row's timer (backoff of a failed row, STALE_RUNNING_SEC of a running    *)
(* one) has run out.                                                       *)
(***************************************************************************)
EXTENDS Integers, FiniteSets

CONSTANTS
  User,          \* users the API manages
  MaxRows,       \* bound: outbox rows ever inserted
  MaxAttempts,   \* MAX_ATTEMPTS
  Batch,         \* BATCH, the number of rows one drain claims
  MaxVer,        \* bound: revisions of a user row
  Handler,       \* API threads
  MaxRequests,   \* bound: requests the API ever takes
  Postgres,      \* dialect: TRUE has the partial unique index and unordered RETURNING
  RpcFaults,     \* whether RPCs to a running core may fail
  MaxCrash       \* bound: crashes of an API process, of the worker or of the core

ASSUME OutboxAssumption ==
  /\ MaxRows \in Nat
  /\ MaxAttempts \in Nat \ {0}
  /\ Batch \in Nat \ {0}
  /\ MaxVer \in Nat \ {0}
  /\ MaxRequests \in Nat
  /\ Postgres \in BOOLEAN
  /\ RpcFaults \in BOOLEAN
  /\ MaxCrash \in Nat

VARIABLES
  user,      \* users table: status, revision, sync_state
  nrows,     \* last id of user_sync_outbox given out
  rows,      \* user_sync_outbox
  nreqs,     \* requests taken so far, for the bound
  todo,      \* requests under way that have not committed their enqueue yet
  deleting,  \* users whose delete row is committed and whose row is not gone yet
  worker,    \* the drain: pc, claimed ids, current id, user as read, outcome
  core,      \* revision of each user in the live inbound, 0 = absent
  coreState, \* "up", "booting" (config built, API not live yet) or "down"
  crashes,   \* how often a process has crashed, for the bound
  slipped    \* history: users whose sync_state a coalesce into a row that had
             \* meanwhile settled wrote last

vars == <<user, rows, nrows, nreqs, todo, deleting, worker, core, coreState, crashes, slipped>>

Actions == {"add", "disable", "delete", "quota_cap", "protocol_change"}
PresentActions == {"add", "protocol_change", "quota_cap"}
RowStatus == {"pending", "running", "failed", "done", "dead"}
SyncState == {"live", "pending", "failed", "dead"}
UserStatus == {"none", "active", "disabled", "gone"}

RowId == 1..nrows
NoRow == 0

UserRecord == [status : UserStatus, ver : 0..MaxVer, sync : SyncState]
Row == [user : User, action : Actions, status : RowStatus,
        attempts : 0..MaxAttempts, elapsed : BOOLEAN]
(* A request: the thread, what it will enqueue, and from its SELECT on the row
   it found (NoRow: it will insert) and the sync_state its session holds. *)
Request == [by : Handler, user : User, action : Actions,
            at : {"find", "write"}, row : 0..nrows, seen : SyncState]
Pc == {"idle", "batch", "push", "ack", "probe", "finish"}
Worker == [pc : Pc, batch : SUBSET RowId, cur : 0..nrows,
           seen : [status : UserStatus, ver : 0..MaxVer], ok : BOOLEAN]

NotSeen == [status |-> "none", ver |-> 0]
IdleWorker == [pc |-> "idle", batch |-> {}, cur |-> NoRow, seen |-> NotSeen, ok |-> FALSE]

Exists(u) == user[u].status \in {"active", "disabled"}
Live(i) == rows[i].status \in {"pending", "running"}

-----------------------------------------------------------------------------
(* _set_user_sync: a no-op once the user row is gone. *)
SetUserSync(u, state) ==
  IF Exists(u) THEN [user EXCEPT ![u].sync = state] ELSE user

(* The row enqueue() looks for: same user and action, pending or running.
   Rows of a removed user have user_id NULL and are not found again; the
   user's id is never reused, so they need no separate mark. *)
Coalesced(u, a) ==
  {i \in RowId : rows[i].user = u /\ rows[i].action = a /\ Live(i)}

NewRow(u, a) == [user |-> u, action |-> a, status |-> "pending",
                 attempts |-> 0, elapsed |-> TRUE]

(* A refreshed updated_at restarts the stale timer of a running row; a
   pending one is due as before. *)
Touched(r) == IF r.status = "running" THEN [r EXCEPT !.elapsed = FALSE] ELSE r

-----------------------------------------------------------------------------
(* The API processes. *)

(* Thread h is free to take a request. *)
Free(h) == \A t \in todo : t.by # h

NewRequest(h, u, a) == [by |-> h, user |-> u, action |-> a,
                        at |-> "find", row |-> NoRow, seen |-> "live"]

(* A request commits its edit of the users table and will enqueue action a. *)
Committed(h, u, a) ==
  /\ Free(h)
  /\ nreqs < MaxRequests
  /\ nreqs' = nreqs + 1
  /\ todo' = todo \cup {NewRequest(h, u, a)}

(* POST /user commits the new row; the enqueue follows in the same request. *)
CreateUser(h, u) ==
  /\ user[u].status = "none"
  /\ user' = [user EXCEPT ![u] = [status |-> "active", ver |-> 1, sync |-> "live"]]
  /\ Committed(h, u, "add")
  /\ UNCHANGED <<rows, nrows, deleting, worker, core, coreState, crashes, slipped>>

(* modify_user: the action it will enqueue follows from the status change. *)
ModifyAction(old, new) ==
  CASE new = "disabled" -> "disable"
    [] new = "active" /\ old # new -> "add"
    [] OTHER -> "protocol_change"

(* PUT /user: crud.update_user commits, the enqueue follows. *)
ModifyUser(h, u, status) ==
  /\ Exists(u)
  /\ user[u].ver < MaxVer
  /\ user' = [user EXCEPT ![u].status = status, ![u].ver = @ + 1]
  /\ Committed(h, u, ModifyAction(user[u].status, status))
  /\ UNCHANGED <<rows, nrows, deleting, worker, core, coreState, crashes, slipped>>

(* POST /user/reset: the revision the core sees does not change. *)
ResetUser(h, u) ==
  /\ user[u].status = "active"
  /\ Committed(h, u, "quota_cap")
  /\ UNCHANGED <<user, rows, nrows, deleting, worker, core, coreState, crashes, slipped>>

(* DELETE /user starts with the enqueue. *)
DeleteUser(h, u) ==
  /\ Exists(u)
  /\ Committed(h, u, "delete")
  /\ UNCHANGED <<user, rows, nrows, deleting, worker, core, coreState, crashes, slipped>>

(* schedule_user_sync() loads the user for its snapshot, and enqueue() looks
   for a live row.  The request fails when the user has gone meanwhile. *)
EnqueueFind(t) ==
  /\ t \in todo /\ t.at = "find"
  /\ \/ /\ Exists(t.user)
        /\ \E i \in (IF Coalesced(t.user, t.action) = {} THEN {NoRow}
                    ELSE Coalesced(t.user, t.action)) :
             todo' = (todo \ {t}) \cup {[t EXCEPT !.at = "write", !.row = i,
                                                !.seen = user[t.user].sync]}
     \/ /\ ~Exists(t.user)
        /\ todo' = todo \ {t}
  /\ UNCHANGED <<nreqs, user, rows, nrows, deleting, worker, core, coreState, crashes, slipped>>

(* The commit writes sync_state only when the session holds another one.  A
   coalesce touches the row it found, whatever that has become. *)
MarkPending(t) ==
  /\ user' = IF t.seen = "pending" THEN user ELSE SetUserSync(t.user, "pending")
  /\ slipped' = IF t.seen = "pending" THEN slipped
                ELSE IF t.row # NoRow /\ ~Live(t.row) THEN slipped \cup {t.user}
                ELSE slipped \ {t.user}

(* On Postgres the partial unique index refuses a second live row of a user
   and action: the enqueue of two racing inserts that commits last raises
   IntegrityError, and its request ends there. *)
InsertClash(t) == Postgres /\ Coalesced(t.user, t.action) # {}

(* A delete goes on to remove the user. *)
Enqueued(t) ==
  deleting' = IF t.action = "delete" THEN deleting \cup {t.user} ELSE deleting

(* The commit of enqueue(): coalesce, insert, or fail. *)
EnqueueWrite(t) ==
  /\ t \in todo /\ t.at = "write"
  /\ todo' = todo \ {t}
  /\ \/ /\ Exists(t.user) /\ t.row # NoRow
        /\ rows' = [rows EXCEPT ![t.row] = Touched(@)]
        /\ UNCHANGED nrows
        /\ MarkPending(t) /\ Enqueued(t)
     \/ /\ Exists(t.user) /\ t.row = NoRow /\ ~InsertClash(t)
        /\ nrows < MaxRows
        /\ nrows' = nrows + 1
        /\ rows' = [i \in 1..(nrows + 1) |->
                       IF i \in RowId THEN rows[i] ELSE NewRow(t.user, t.action)]
        /\ MarkPending(t) /\ Enqueued(t)
     \/ /\ ~Exists(t.user) \/ (t.row = NoRow /\ InsertClash(t))
        /\ UNCHANGED <<user, rows, nrows, deleting, slipped>>
  /\ UNCHANGED <<nreqs, worker, core, coreState, crashes>>

(* ... and crud.remove_user purges the user afterwards. *)
PurgeUser(u) ==
  /\ u \in deleting
  /\ deleting' = deleting \ {u}
  /\ user' = [user EXCEPT ![u] = [status |-> "gone", ver |-> 0, sync |-> "live"]]
  /\ UNCHANGED <<nreqs, rows, nrows, todo, worker, core, coreState, crashes, slipped>>

(* An API process dies between the two commits of a request. *)
ApiCrash ==
  /\ crashes < MaxCrash
  /\ todo # {} \/ deleting # {}
  /\ todo' = {}
  /\ deleting' = {}
  /\ crashes' = crashes + 1
  /\ UNCHANGED <<nreqs, user, rows, nrows, worker, core, coreState, slipped>>

-----------------------------------------------------------------------------
(* Time. *)

(* _backoff has passed for a failed row, or STALE_RUNNING_SEC for a running
   one: nothing else reads the clock. *)
TimerElapses(i) ==
  /\ rows[i].status \in {"failed", "running"}
  /\ ~rows[i].elapsed
  /\ rows' = [rows EXCEPT ![i].elapsed = TRUE]
  /\ UNCHANGED <<nreqs, user, nrows, todo, deleting, worker, core, coreState, crashes, slipped>>

-----------------------------------------------------------------------------
(* The worker's drain(). *)

(* _reclaim_stale: a stale running row is pending again; attempts stay. *)
Reclaimed(r) ==
  IF r.status = "running" /\ r.elapsed THEN [r EXCEPT !.status = "pending"] ELSE r

Reclaim(rs) == [i \in RowId |-> Reclaimed(rs[i])]

(* Mutant: off by one in the retry budget. *)
DueOnceMore(r) ==
  /\ r.status \in {"pending", "failed"}
  /\ r.elapsed
  /\ r.attempts <= MaxAttempts

(* Mutant: a claim takes whatever is not running. *)
DueNotRunning(r) ==
  /\ r.status # "running"
  /\ r.elapsed
  /\ r.attempts < MaxAttempts

(* What a claim may take. *)
Due(r) ==
  /\ r.status \in {"pending", "failed"}
  /\ r.elapsed
  /\ r.attempts < MaxAttempts

(* ORDER BY disable/delete first, then id. *)
Before(rs, i, j) ==
  LET urgent(k) == rs[k].action \in {"disable", "delete"}
  IN  \/ urgent(i) /\ ~urgent(j)
      \/ (urgent(i) <=> urgent(j)) /\ i < j

(* The first Batch due rows in that order. *)
ClaimSet(rs) ==
  LET due == {i \in RowId : Due(rs[i])}
  IN  {i \in due : Cardinality({j \in due : Before(rs, j, i)}) < Batch}

Claimed(rs, S) ==
  [i \in RowId |-> IF i \in S
                   THEN [rs[i] EXCEPT !.status = "running", !.attempts = @ + 1,
                                      !.elapsed = FALSE]
                   ELSE rs[i]]

(* uq_user_sync_outbox_pending: two live rows of one user and action.  A
   removed user's rows have user_id NULL, which the index never equates. *)
IndexClash(rs) ==
  \E i, j \in RowId :
    /\ i # j
    /\ rs[i].user = rs[j].user /\ rs[i].action = rs[j].action
    /\ Exists(rs[i].user)
    /\ rs[i].status \in {"pending", "running"}
    /\ rs[j].status \in {"pending", "running"}

(* Mutant: no lock around the drain. *)
NoLock == TRUE

(* _drain_lock is free: only one drain of the process is under way. *)
LockFree == worker.pc = "idle"

(* drain() up to the claim, under _drain_lock.  The reclaim is committed
   first; a claim that violates the index is rolled back and drain raises. *)
Drain ==
  /\ LockFree
  /\ LET rs == Reclaim(rows)
         S  == ClaimSet(rs)
         cl == Claimed(rs, S)
     IN  \/ /\ S # {}
            /\ ~(Postgres /\ IndexClash(cl))
            /\ rows' = cl
            /\ worker' = [worker EXCEPT !.pc = "batch", !.batch = S]
         \/ /\ S = {} \/ (Postgres /\ IndexClash(cl))
            /\ rows' = rs
            /\ UNCHANGED worker
  /\ UNCHANGED <<nreqs, user, nrows, todo, deleting, core, coreState, crashes, slipped>>

(* The row handled next: RETURNING promises no order, the generic claim
   keeps its own. *)
NextInBatch(i) ==
  /\ i \in worker.batch
  /\ Postgres \/ \A j \in worker.batch \ {i} : Before(rows, i, j)

SeenUser(u) == [status |-> user[u].status, ver |-> user[u].ver]

(* Read the row and, in apply_action, the user: RPCs come after the session
   is closed.  For a user that is gone, add and protocol_change are skipped,
   or fail when the row vanishes between apply_action's two reads. *)
ReadRow(i) ==
  /\ worker.pc = "batch"
  /\ NextInBatch(i)
  /\ LET w == [worker EXCEPT !.batch = @ \ {i}, !.cur = i,
                             !.seen = SeenUser(rows[i].user)]
         gone == ~Exists(rows[i].user)
     IN  \/ worker' = [w EXCEPT !.pc = "push"]
         \/ /\ gone /\ rows[i].action \in {"add", "protocol_change"}
            /\ worker' = [w EXCEPT !.pc = "finish", !.seen = NotSeen]
  /\ UNCHANGED <<nreqs, user, rows, nrows, todo, deleting, core, coreState, crashes, slipped>>

CurUser == rows[worker.cur].user
CurAction == rows[worker.cur].action

(* Mutant: sync_main_core_user without its status check. *)
WantsPresentAlways == CurAction \in PresentActions

(* What the apply wants of the core: the revision to install, or 0. *)
WantsPresent ==
  CurAction \in PresentActions /\ worker.seen.status = "active"
WantsAbsent ==
  \/ CurAction \in {"disable", "delete"}
  \/ CurAction \in {"add", "protocol_change"} /\ worker.seen.status = "disabled"

PushTarget ==
  CASE WantsPresent -> worker.seen.ver
    [] WantsAbsent -> 0
    [] OTHER -> core[CurUser]

(* Values the inbound can hold after a push that lost an RPC: removal and
   addition are separate calls. *)
PushPartial == {core[CurUser], 0, PushTarget}

(* apply_action's calls on the main core: sync_main_core_user,
   hot_disconnect_users or apply_delete.  Nothing happens unless the core is
   up; ConnectionError is swallowed, any other RPC error raises. *)
Push ==
  /\ worker.pc = "push"
  /\ \/ /\ coreState = "up"
        /\ core' = [core EXCEPT ![CurUser] = PushTarget]
        /\ worker' = [worker EXCEPT !.pc = "ack", !.seen = NotSeen]
     \/ /\ coreState # "up"
        /\ worker' = [worker EXCEPT !.pc = "ack", !.seen = NotSeen]
        /\ UNCHANGED core
     \/ /\ RpcFaults /\ coreState = "up"
        /\ WantsPresent \/ WantsAbsent
        /\ \E v \in PushPartial, pc \in {"ack", "finish"} :
             /\ core' = [core EXCEPT ![CurUser] = v]
             /\ worker' = [worker EXCEPT !.pc = pc, !.seen = NotSeen]
  /\ UNCHANGED <<nreqs, user, rows, nrows, todo, deleting, coreState, crashes, slipped>>

(* confirm_action re-reads the user in a session of its own. *)
ConfirmRead ==
  /\ worker.pc = "ack"
  /\ worker' = [worker EXCEPT !.pc = "probe",
                  !.seen = IF CurAction \in PresentActions THEN SeenUser(CurUser) ELSE NotSeen]
  /\ UNCHANGED <<nreqs, user, rows, nrows, todo, deleting, core, coreState, crashes, slipped>>

(* email_present adds the missing email, email_absent removes it; the probe of
   an account that is present leaves its credentials as they are. *)
AckTarget ==
  IF CurAction \in {"disable", "delete"} THEN 0
  ELSE IF worker.seen.status = "active" /\ core[CurUser] = 0
       THEN worker.seen.ver
       ELSE core[CurUser]

(* _confirm_present / _confirm_absent: skipped when the core is not live,
   AckError when a probe is lost, which may have taken effect. *)
Ack ==
  /\ worker.pc = "probe"
  /\ LET w(ok) == [worker EXCEPT !.pc = "finish", !.seen = NotSeen, !.ok = ok]
     IN  \/ /\ coreState = "up"
            /\ core' = [core EXCEPT ![CurUser] = AckTarget]
            /\ worker' = w(TRUE)
         \/ /\ coreState # "up"
            /\ worker' = w(TRUE)
            /\ UNCHANGED core
         \/ /\ RpcFaults /\ coreState = "up"
            /\ CurAction \in {"disable", "delete"} \/ worker.seen.status = "active"
            /\ \E v \in {core[CurUser], AckTarget} : core' = [core EXCEPT ![CurUser] = v]
            /\ worker' = w(FALSE)
  /\ UNCHANGED <<nreqs, user, rows, nrows, todo, deleting, coreState, crashes, slipped>>

(* The worker goes on with its batch, or releases the lock. *)
AfterRow ==
  worker' = IF worker.batch = {} THEN IdleWorker
            ELSE [IdleWorker EXCEPT !.pc = "batch", !.batch = worker.batch]

(* Mutant: off by one, a row that spent its budget is not given up. *)
OutcomeLate(r, ok) ==
  IF ok THEN "done" ELSE IF r.attempts > MaxAttempts THEN "dead" ELSE "failed"

(* Mutant: sync_state stays "failed" for a row that is given up. *)
FinishedSyncFailed(r, ok) == IF ok THEN "live" ELSE "failed"

(* _finish: what becomes of the row ... *)
Outcome(r, ok) ==
  IF ok THEN "done" ELSE IF r.attempts >= MaxAttempts THEN "dead" ELSE "failed"

(* ... a failed one waits for its backoff ... *)
FinishedRow(r, ok) ==
  LET st == Outcome(r, ok)
  IN  [r EXCEPT !.status = st, !.elapsed = IF st = "failed" THEN FALSE ELSE TRUE]

(* ... and the user's sync_state goes with it. *)
FinishedSync(r, ok) ==
  LET st == Outcome(r, ok) IN IF st = "done" THEN "live" ELSE st

Finish ==
  /\ worker.pc = "finish"
  /\ rows' = [rows EXCEPT ![worker.cur] = FinishedRow(@, worker.ok)]
  /\ user' = SetUserSync(CurUser, FinishedSync(rows[worker.cur], worker.ok))
  /\ slipped' = slipped \ {CurUser}
  /\ AfterRow
  /\ UNCHANGED <<nreqs, nrows, todo, deleting, core, coreState, crashes>>

-----------------------------------------------------------------------------
(* The core and the crashes. *)

(* include_db_users(): the users a core boots with. *)
DbUsers == [u \in User |-> IF user[u].status = "active" THEN user[u].ver ELSE 0]

(* The core process ends; its inbound is gone. *)
CoreStop ==
  /\ coreState = "up"
  /\ crashes < MaxCrash
  /\ coreState' = "down"
  /\ core' = [u \in User |-> 0]
  /\ crashes' = crashes + 1
  /\ UNCHANGED <<nreqs, user, rows, nrows, todo, deleting, worker, slipped>>

(* A restart builds the config from the database ... *)
CoreBoot ==
  /\ coreState = "down"
  /\ coreState' = "booting"
  /\ core' = DbUsers
  /\ UNCHANGED <<nreqs, user, rows, nrows, todo, deleting, worker, crashes, slipped>>

(* ... and some seconds later its API answers. *)
CoreUp ==
  /\ coreState = "booting"
  /\ coreState' = "up"
  /\ UNCHANGED <<nreqs, user, rows, nrows, todo, deleting, worker, core, crashes, slipped>>

(* The worker dies, and its core with it; the claimed rows stay running. *)
WorkerCrash ==
  /\ crashes < MaxCrash
  /\ worker' = IdleWorker
  /\ coreState' = "down"
  /\ core' = [u \in User |-> 0]
  /\ crashes' = crashes + 1
  /\ UNCHANGED <<nreqs, user, rows, nrows, todo, deleting, slipped>>

-----------------------------------------------------------------------------
Init ==
  /\ user = [u \in User |-> [status |-> "none", ver |-> 0, sync |-> "live"]]
  /\ nrows = 0
  /\ rows = [i \in RowId |-> NoRow]   \* empty
  /\ nreqs = 0
  /\ todo = {}
  /\ deleting = {}
  /\ worker = IdleWorker
  /\ core = [u \in User |-> 0]
  /\ coreState = "up"
  /\ crashes = 0
  /\ slipped = {}

Api ==
  \/ \E h \in Handler, u \in User :
        \/ CreateUser(h, u)
        \/ \E s \in {"active", "disabled"} : ModifyUser(h, u, s)
        \/ ResetUser(h, u)
        \/ DeleteUser(h, u)
  \/ \E t \in todo : EnqueueFind(t) \/ EnqueueWrite(t)
  \/ \E u \in User : PurgeUser(u)
  \/ ApiCrash

Drainer ==
  \/ Drain
  \/ \E i \in RowId : ReadRow(i)
  \/ Push
  \/ ConfirmRead
  \/ Ack
  \/ Finish

Next ==
  \/ Api
  \/ Drainer
  \/ \E i \in RowId : TimerElapses(i)
  \/ CoreStop
  \/ CoreBoot
  \/ CoreUp
  \/ WorkerCrash

Spec == Init /\ [][Next]_vars

(* What the code's scheduling guarantees: the drain job fires every 10 s and
   its steps run to completion, timers elapse, a request goes on to commit its
   enqueue, and a stopped core is started again. *)
Fairness ==
  /\ WF_vars(Drainer)
  /\ WF_vars(\E t \in todo : EnqueueFind(t) \/ EnqueueWrite(t))
  /\ WF_vars(\E u \in User : PurgeUser(u))
  /\ WF_vars(\E i \in RowId : TimerElapses(i))
  /\ WF_vars(CoreBoot)
  /\ WF_vars(CoreUp)

FairSpec == Spec /\ Fairness

-----------------------------------------------------------------------------
(* Type invariant of the queue, the users table, the drain and the core. *)
TypeOK ==
  /\ user \in [User -> UserRecord]
  /\ nrows \in 0..MaxRows
  /\ rows \in [RowId -> Row]
  /\ nreqs \in 0..MaxRequests
  /\ todo \subseteq Request
  /\ deleting \subseteq User
  /\ worker \in Worker
  /\ core \in [User -> 0..MaxVer]
  /\ coreState \in {"up", "booting", "down"}
  /\ crashes \in 0..MaxCrash
  /\ slipped \subseteq User

(* What users.sync_state says of the queue (the comment at models.py:215):
   "pending" means a durable row of the user is waiting, "failed" that a
   retry is still owed, "dead" that a row ran out of attempts.  It relates
   the column that enqueue and _finish write, each from what it read earlier,
   to the rows that claim, reclaim and crashes move behind its back.  The one
   case in which it is not so is exempt until the next write: a coalesce that
   commits after the row it found has settled leaves "pending" behind. *)
HasRow(u, S) == \E i \in RowId : rows[i].user = u /\ rows[i].status \in S

SyncStateBacked ==
  \A u \in User :
    Exists(u) /\ u \notin slipped =>
      /\ user[u].sync = "pending" => HasRow(u, {"pending", "running"})
      /\ user[u].sync = "failed" => HasRow(u, {"pending", "running", "failed"})
      /\ user[u].sync = "dead" => HasRow(u, {"dead"})

(* The retry budget: no row is tried more than MAX_ATTEMPTS times however
   often it is reclaimed, a failed row still has an attempt left, and a row
   is dead only when the budget is spent. *)
AttemptBudget ==
  \A i \in RowId :
    /\ rows[i].attempts <= MaxAttempts
    /\ rows[i].status = "running" => rows[i].attempts >= 1
    /\ rows[i].status = "failed" => rows[i].attempts \in 1..(MaxAttempts - 1)
    /\ rows[i].status = "dead" => rows[i].attempts = MaxAttempts

(* Rows the drain holds. *)
Held == worker.batch \cup ({worker.cur} \ {NoRow})

(* _drain_lock: while a drain works on its batch no other drain of the
   process reclaims or claims, so what it holds is still running when it
   records the outcome, even when the batch outlasts STALE_RUNNING_SEC. *)
HeldAreRunning == \A i \in Held : rows[i].status = "running"

(* A row that is done or dead is never touched again: no late reclaim, claim
   or outcome revives it. *)
SettledStays ==
  [][\A i \in RowId : rows[i].status \in {"done", "dead"}
                        => rows'[i].status = rows[i].status]_vars

(* A user's rows are settled and no request about the user is half done. *)
Quiet(u) ==
  /\ \A i \in RowId : rows[i].user = u => rows[i].status = "done"
  /\ \A t \in todo : t.user # u
  /\ u \notin deleting

(* Disabling wins: once the rows of a disabled user are done the live
   inbound no longer holds the user, whatever order the rows of earlier
   edits were retried in and whatever RPCs were lost. *)
DisabledNotServed ==
  \A u \in User :
    user[u].status = "disabled" /\ Quiet(u) /\ coreState = "up" => core[u] = 0

(* Every row is applied or given up: nothing waits forever. *)
RowsSettle ==
  \A i \in 1..MaxRows :
    (i \in RowId) ~> (i \in RowId /\ rows[i].status \in {"done", "dead"})
=============================================================================
