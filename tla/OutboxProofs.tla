---------------------------- MODULE OutboxProofs ----------------------------
(***************************************************************************)
(* The queue's bookkeeping, for every number of users, rows, attempts and  *)
(* crashes and for both dialects.                                          *)
(*                                                                         *)
(* None of the four invariants is inductive on its own: that a row the     *)
(* drain finishes is running needs the shape of the drain's local state,   *)
(* the retry budget of the row it finishes needs that it is running, and   *)
(* that a coalesce backs sync_state needs that the row it found is one of  *)
(* its user.  The last part shows that disabling a user wins while nothing *)
(* crashes.                                                                *)
(***************************************************************************)
EXTENDS Outbox, TLAPS

(* The drain's local state: the row in hand is not in the batch, and only
   the steps that work on one have a row in hand. *)
WorkerShape ==
  /\ worker.pc = "idle" => worker.batch = {} /\ worker.cur = NoRow
  /\ worker.pc = "batch" => worker.cur = NoRow
  /\ worker.pc \in {"push", "ack", "probe", "finish"} => worker.cur \in RowId \ worker.batch

(* Rows are only ever inserted for users that exist. *)
RowsOfCreated == \A i \in RowId : user[rows[i].user].status # "none"

(* What a request found to coalesce into is a row of its user and action. *)
FoundOwn ==
  \A t \in todo : t.row # NoRow => /\ rows[t.row].user = t.user
                                  /\ rows[t.row].action = t.action

(* The inductive invariant. *)
QueueInv ==
  /\ TypeOK
  /\ FoundOwn
  /\ WorkerShape
  /\ RowsOfCreated
  /\ SyncStateBacked
  /\ AttemptBudget
  /\ HeldAreRunning

-----------------------------------------------------------------------------
(* The initial state satisfies the inductive invariant. *)
LEMMA InitQueueInv == Init => QueueInv
<1> SUFFICES ASSUME Init PROVE QueueInv
  OBVIOUS
<1> USE OutboxAssumption DEF Init, RowId, NoRow, IdleWorker, NotSeen
<1>1. TypeOK
  BY DEF TypeOK, UserRecord, UserStatus, SyncState, Row, Worker, Pc, Request
<1>2. WorkerShape /\ RowsOfCreated /\ AttemptBudget /\ FoundOwn
  BY DEF WorkerShape, RowsOfCreated, AttemptBudget, FoundOwn
<1>3. SyncStateBacked
  BY DEF SyncStateBacked, Exists
<1>4. HeldAreRunning
  BY DEF HeldAreRunning, Held
<1> QED
  BY <1>1, <1>2, <1>3, <1>4 DEF QueueInv

(* The commit of enqueue() keeps the table typed, and keeps every row's user,
   action, status and attempts; what it inserts is a new row. *)
LEMMA EnqueueRows ==
  ASSUME TypeOK, NEW t \in todo, EnqueueWrite(t)
  PROVE  /\ nrows' \in nrows..MaxRows
         /\ rows' \in [1..nrows' -> Row]
         /\ \A i \in RowId : /\ rows'[i].user = rows[i].user
                             /\ rows'[i].action = rows[i].action
                             /\ rows'[i].status = rows[i].status
                             /\ rows'[i].attempts = rows[i].attempts
         /\ \A i \in 1..nrows' \ RowId : rows'[i] = NewRow(t.user, t.action)
         /\ nrows' # nrows => Exists(t.user)
<1> USE DEF RowId
<1>0. /\ nrows \in 0..MaxRows /\ MaxRows \in Nat /\ rows \in [1..nrows -> Row]
      /\ t \in Request /\ t.user \in User /\ t.action \in Actions /\ t.row \in 0..nrows
  BY OutboxAssumption DEF TypeOK, Request
<1>1. NewRow(t.user, t.action) \in Row
  BY <1>0, OutboxAssumption DEF NewRow, Row, RowStatus
<1>2. CASE rows' = [rows EXCEPT ![t.row] = Touched(rows[t.row])] /\ t.row # NoRow /\ nrows' = nrows
  <2>1. t.row \in RowId /\ rows[t.row] \in Row
    BY <1>0, <1>2 DEF NoRow
  <2>2. /\ Touched(rows[t.row]) \in Row
        /\ Touched(rows[t.row]).user = rows[t.row].user
        /\ Touched(rows[t.row]).action = rows[t.row].action
        /\ Touched(rows[t.row]).status = rows[t.row].status
        /\ Touched(rows[t.row]).attempts = rows[t.row].attempts
    BY <2>1 DEF Touched, Row
  <2> QED
    BY <1>0, <1>2, <2>1, <2>2
<1>3. CASE /\ nrows' = nrows + 1 /\ nrows < MaxRows /\ Exists(t.user)
           /\ rows' = [i \in 1..(nrows + 1) |->
                         IF i \in RowId THEN rows[i] ELSE NewRow(t.user, t.action)]
  BY <1>0, <1>1, <1>3
<1>4. CASE UNCHANGED <<rows, nrows>>
  BY <1>0, <1>4
<1> QED
  BY <1>2, <1>3, <1>4 DEF EnqueueWrite

(* What it does to the users: sync_state of the request's user may become
   "pending"; the history says whether a live row is behind it. *)
LEMMA EnqueueUsers ==
  ASSUME TypeOK, FoundOwn, NEW t \in todo, EnqueueWrite(t)
  PROVE  /\ user' \in [User -> UserRecord]
         /\ slipped' \subseteq User
         /\ \A v \in User : user'[v].status = user[v].status
         /\ \A v \in User \ {t.user} : /\ user'[v].sync = user[v].sync
                                       /\ v \in slipped' <=> v \in slipped
         /\ \/ user' = user /\ slipped' = slipped
            \/ /\ user'[t.user].sync = "pending"
               /\ t.user \in slipped' \/ HasRow(t.user, {"pending", "running"})'
<1>0. /\ user \in [User -> UserRecord] /\ slipped \subseteq User
      /\ t.user \in User /\ t.action \in Actions /\ t.row \in 0..nrows
      /\ nrows \in 0..MaxRows /\ MaxRows \in Nat
  BY OutboxAssumption DEF TypeOK, Request
<1>1. \/ user' = user /\ slipped' = slipped
      \/ /\ Exists(t.user)
         /\ user' = [user EXCEPT ![t.user].sync = "pending"]
         /\ slipped' = IF t.row # NoRow /\ ~Live(t.row) THEN slipped \cup {t.user}
                       ELSE slipped \ {t.user}
         /\ \/ t.row # NoRow
            \/ nrows' = nrows + 1 /\ t.row = NoRow
  BY DEF EnqueueWrite, MarkPending, SetUserSync
<1>2. CASE user' = user /\ slipped' = slipped
  BY <1>0, <1>2
<1>3. CASE /\ Exists(t.user)
           /\ user' = [user EXCEPT ![t.user].sync = "pending"]
           /\ slipped' = IF t.row # NoRow /\ ~Live(t.row) THEN slipped \cup {t.user}
                         ELSE slipped \ {t.user}
           /\ \/ t.row # NoRow
              \/ nrows' = nrows + 1 /\ t.row = NoRow
  <2>1. /\ user' \in [User -> UserRecord]
        /\ \A v \in User : user'[v].status = user[v].status
        /\ \A v \in User \ {t.user} : user'[v].sync = user[v].sync
        /\ user'[t.user].sync = "pending"
    BY <1>0, <1>3 DEF UserRecord, SyncState
  <2>2. /\ slipped' \subseteq User
        /\ \A v \in User \ {t.user} : v \in slipped' <=> v \in slipped
    BY <1>0, <1>3
  <2>3. t.user \in slipped' \/ HasRow(t.user, {"pending", "running"})'
    <3>1. /\ nrows' \in nrows..MaxRows
          /\ \A i \in RowId : /\ rows'[i].user = rows[i].user
                              /\ rows'[i].status = rows[i].status
          /\ \A i \in 1..nrows' \ RowId : rows'[i] = NewRow(t.user, t.action)
      BY EnqueueRows
    <3>2. CASE t.row # NoRow /\ ~Live(t.row)
      BY <1>3, <3>2
    <3>3. CASE t.row # NoRow /\ Live(t.row)
      <4>1. t.row \in RowId /\ t.row \in RowId'
        BY <1>0, <3>1, <3>3 DEF RowId, NoRow
      <4>2. rows[t.row].user = t.user
        BY <3>3 DEF FoundOwn
      <4> QED
        BY <3>1, <3>3, <4>1, <4>2 DEF HasRow, Live
    <3>4. CASE nrows' = nrows + 1
      <4>1. nrows' \in 1..nrows' \ RowId /\ nrows' \in RowId'
        BY <1>0, <3>4 DEF RowId
      <4>2. rows'[nrows'].user = t.user /\ rows'[nrows'].status = "pending"
        BY <3>1, <4>1 DEF NewRow
      <4> QED
        BY <4>1, <4>2 DEF HasRow
    <3> QED
      BY <1>3, <3>2, <3>3, <3>4
  <2> QED
    BY <2>1, <2>2, <2>3
<1> QED
  BY <1>1, <1>2, <1>3

(* A step that leaves the table and the drain alone and changes no user's
   sync_state except to one that needs no row keeps the invariant. *)
LEMMA UsersOnlyStep ==
  ASSUME QueueInv, TypeOK', FoundOwn', UNCHANGED <<rows, nrows, worker, slipped>>,
         \A u \in User : \/ user'[u].sync = user[u].sync
                            /\ (Exists(u)' => Exists(u))
                         \/ user'[u].sync = "live",
         \A u \in User : user'[u].status = "none" => user[u].status = "none"
  PROVE  QueueInv'
<1>1. WorkerShape' /\ AttemptBudget' /\ HeldAreRunning'
  BY DEF QueueInv, WorkerShape, AttemptBudget, HeldAreRunning, Held, RowId, NoRow
<1>2. RowsOfCreated'
  <2>1. \A i \in RowId : rows[i].user \in User
    BY DEF QueueInv, TypeOK, Row
  <2> QED
    BY <2>1 DEF QueueInv, RowsOfCreated, RowId
<1>3. SyncStateBacked'
  BY DEF QueueInv, SyncStateBacked, HasRow, RowId
<1> QED
  BY <1>1, <1>2, <1>3 DEF QueueInv

(* A step of the drain that reads, pushes or acknowledges: the table and the
   users stay, the rows the drain holds stay or shrink. *)
LEMMA DrainLocalStep ==
  ASSUME QueueInv, TypeOK', WorkerShape', UNCHANGED <<rows, nrows, user, todo, slipped>>,
         Held' \subseteq Held
  PROVE  QueueInv'
<1>1. RowsOfCreated' /\ AttemptBudget' /\ FoundOwn'
  BY DEF QueueInv, RowsOfCreated, AttemptBudget, FoundOwn, RowId
<1>2. SyncStateBacked'
  BY DEF QueueInv, SyncStateBacked, Exists, HasRow, RowId
<1>3. HeldAreRunning'
  BY DEF QueueInv, HeldAreRunning
<1> QED
  BY <1>1, <1>2, <1>3 DEF QueueInv

(* The commit of an enqueue() keeps the invariant. *)
LEMMA EnqueueStep ==
  ASSUME QueueInv, NEW t \in todo, EnqueueWrite(t)
  PROVE  QueueInv'
<1>0. TypeOK /\ FoundOwn /\ t \in Request /\ t.user \in User /\ t.action \in Actions
  BY DEF QueueInv, TypeOK, Request
<1>1. /\ nrows' \in nrows..MaxRows
      /\ rows' \in [1..nrows' -> Row]
      /\ \A i \in RowId : /\ rows'[i].user = rows[i].user
                          /\ rows'[i].action = rows[i].action
                          /\ rows'[i].status = rows[i].status
                          /\ rows'[i].attempts = rows[i].attempts
      /\ \A i \in 1..nrows' \ RowId : rows'[i] = NewRow(t.user, t.action)
      /\ nrows' # nrows => Exists(t.user)
  BY <1>0, EnqueueRows
<1>2. /\ user' \in [User -> UserRecord]
      /\ slipped' \subseteq User
      /\ \A v \in User : user'[v].status = user[v].status
      /\ \A v \in User \ {t.user} : /\ user'[v].sync = user[v].sync
                                    /\ v \in slipped' <=> v \in slipped
      /\ \/ user' = user /\ slipped' = slipped
         \/ /\ user'[t.user].sync = "pending"
            /\ t.user \in slipped' \/ HasRow(t.user, {"pending", "running"})'
  BY <1>0, EnqueueUsers
<1>3. RowId' = 1..nrows' /\ RowId \subseteq RowId' /\ nrows \in Nat /\ nrows' \in 0..MaxRows
  BY <1>0, <1>1, OutboxAssumption DEF RowId, TypeOK
<1>4. \A i \in RowId' \ RowId : /\ rows'[i].user = t.user /\ rows'[i].status = "pending"
                                /\ rows'[i].attempts = 0
  BY <1>1, <1>3 DEF NewRow
<1>5. UNCHANGED <<worker, core, coreState, crashes, nreqs>> /\ todo' = todo \ {t}
  BY DEF EnqueueWrite
<1>6. TypeOK'
  <2>1. todo' \subseteq Request'
    BY <1>0, <1>1, <1>3, <1>5 DEF TypeOK, Request
  <2>2. deleting' \subseteq User
    BY <1>0 DEF TypeOK, EnqueueWrite, Enqueued
  <2>3. worker' \in Worker'
    BY <1>0, <1>1, <1>3, <1>5 DEF TypeOK, Worker, RowId
  <2> QED
    BY <1>0, <1>1, <1>2, <1>3, <1>5, <2>1, <2>2, <2>3 DEF TypeOK
<1>7. WorkerShape'
  BY <1>3, <1>5 DEF QueueInv, WorkerShape
<1>8. HeldAreRunning'
  <2>1. Held \subseteq RowId
    BY <1>0 DEF TypeOK, Worker, Held, RowId, NoRow
  <2> QED
    BY <1>1, <1>5, <2>1 DEF QueueInv, HeldAreRunning, Held
<1>9. AttemptBudget'
  BY <1>1, <1>3, <1>4, OutboxAssumption DEF QueueInv, AttemptBudget
<1>10. RowsOfCreated'
  <2>1. \A i \in RowId : rows[i].user \in User
    BY <1>0 DEF TypeOK, Row
  <2>2. RowId' # RowId => user[t.user].status # "none"
    BY <1>1 DEF Exists, RowId
  <2> QED
    BY <1>0, <1>1, <1>2, <1>3, <1>4, <2>1, <2>2 DEF QueueInv, RowsOfCreated
<1>11. FoundOwn'
  <2>1. \A x \in todo : x.row # NoRow => x.row \in RowId
    BY <1>0 DEF TypeOK, Request, RowId, NoRow
  <2> QED
    BY <1>0, <1>1, <1>5, <2>1 DEF FoundOwn
<1>12. SyncStateBacked'
  <2> SUFFICES ASSUME NEW v \in User, Exists(v)', v \notin slipped'
               PROVE  /\ user'[v].sync = "pending" => HasRow(v, {"pending", "running"})'
                      /\ user'[v].sync = "failed" => HasRow(v, {"pending", "running", "failed"})'
                      /\ user'[v].sync = "dead" => HasRow(v, {"dead"})'
    BY DEF SyncStateBacked
  <2>1. Exists(v)
    BY <1>2 DEF Exists
  <2>2. \A S : HasRow(v, S) => HasRow(v, S)'
    BY <1>1, <1>3 DEF HasRow
  <2>3. CASE user'[v].sync = user[v].sync /\ v \notin slipped
    BY <2>1, <2>2, <2>3 DEF QueueInv, SyncStateBacked
  <2>4. CASE v = t.user /\ user'[v].sync = "pending" /\ HasRow(v, {"pending", "running"})'
    BY <2>4
  <2> QED
    BY <1>2, <2>3, <2>4
<1> QED
  BY <1>6, <1>7, <1>8, <1>9, <1>10, <1>11, <1>12 DEF QueueInv

(* A new request has found nothing yet. *)
LEMMA CommittedRequest ==
  ASSUME QueueInv, NEW h \in Handler, NEW u \in User, NEW a \in Actions,
         Committed(h, u, a), UNCHANGED <<rows, nrows>>
  PROVE  todo' \subseteq Request' /\ FoundOwn' /\ nreqs' \in 0..MaxRequests
<1>0. todo \subseteq Request /\ FoundOwn /\ nrows \in Nat /\ nreqs \in 0..MaxRequests
  BY OutboxAssumption DEF QueueInv, TypeOK
<1>1. NewRequest(h, u, a) \in Request /\ NewRequest(h, u, a).row = NoRow
  BY <1>0 DEF NewRequest, Request, NoRow, SyncState
<1>2. Request' = Request
  BY DEF Request
<1>3. nreqs' \in 0..MaxRequests
  BY <1>0, OutboxAssumption DEF Committed
<1> QED
  BY <1>0, <1>1, <1>2, <1>3 DEF Committed, FoundOwn

-----------------------------------------------------------------------------
(* The API's requests keep the invariant. *)
LEMMA ApiStep == QueueInv /\ Api => QueueInv'
<1> SUFFICES ASSUME QueueInv, Api PROVE QueueInv'
  OBVIOUS
<1>0. TypeOK
  BY DEF QueueInv
<1>1. ASSUME NEW h \in Handler, NEW u \in User, CreateUser(h, u) PROVE QueueInv'
  <2>0. todo' \subseteq Request' /\ FoundOwn' /\ nreqs' \in 0..MaxRequests
    BY <1>1, CommittedRequest DEF CreateUser, Actions
  <2>1. TypeOK'
    BY <1>0, <1>1, <2>0, OutboxAssumption
       DEF TypeOK, CreateUser, Worker, UserRecord, UserStatus, SyncState, RowId
  <2>2. \A v \in User : \/ user'[v].sync = user[v].sync /\ (Exists(v)' => Exists(v))
                        \/ user'[v].sync = "live"
    BY <1>0, <1>1 DEF CreateUser, TypeOK, UserRecord, Exists
  <2>3. \A v \in User : user'[v].status = "none" => user[v].status = "none"
    BY <1>0, <1>1 DEF CreateUser, TypeOK, UserRecord
  <2> QED
    BY <1>1, <2>0, <2>1, <2>2, <2>3, UsersOnlyStep DEF CreateUser
<1>2. ASSUME NEW h \in Handler, NEW u \in User, NEW s \in {"active", "disabled"}, ModifyUser(h, u, s)
      PROVE  QueueInv'
  <2>1. user'[u] = [user[u] EXCEPT !.status = s, !.ver = @ + 1]
    BY <1>0, <1>2 DEF ModifyUser, TypeOK
  <2>2. user[u].ver + 1 \in 0..MaxVer
    BY <1>0, <1>2, OutboxAssumption DEF ModifyUser, TypeOK, UserRecord
  <2>3. user' \in [User -> UserRecord]
    BY <1>0, <1>2, <2>2 DEF ModifyUser, TypeOK, UserRecord, UserStatus
  <2>4. ModifyAction(user[u].status, s) \in Actions
    BY DEF ModifyAction, Actions
  <2>0. todo' \subseteq Request' /\ FoundOwn' /\ nreqs' \in 0..MaxRequests
    BY <1>2, <2>4, CommittedRequest DEF ModifyUser
  <2>5. TypeOK'
    BY <1>0, <1>2, <2>0, <2>3 DEF TypeOK, ModifyUser, Worker, RowId
  <2>6. \A v \in User : user'[v].sync = user[v].sync /\ (Exists(v)' => Exists(v))
    BY <1>0, <1>2 DEF ModifyUser, TypeOK, UserRecord, Exists
  <2>7. \A v \in User : user'[v].status = "none" => user[v].status = "none"
    BY <1>0, <1>2 DEF ModifyUser, TypeOK, UserRecord
  <2> QED
    BY <1>2, <2>0, <2>5, <2>6, <2>7, UsersOnlyStep DEF ModifyUser
<1>3. ASSUME NEW h \in Handler, NEW u \in User, ResetUser(h, u) \/ DeleteUser(h, u)
      PROVE  QueueInv'
  <2>0. todo' \subseteq Request' /\ FoundOwn' /\ nreqs' \in 0..MaxRequests
    BY <1>3, CommittedRequest DEF ResetUser, DeleteUser, Actions
  <2>1. UNCHANGED <<user, rows, nrows, deleting, worker, core, coreState, crashes, slipped>>
    BY <1>3 DEF ResetUser, DeleteUser
  <2>2. TypeOK'
    BY <1>0, <2>0, <2>1 DEF TypeOK, Worker, RowId
  <2> QED
    BY <2>0, <2>1, <2>2, UsersOnlyStep DEF Exists
<1>4. ASSUME NEW t \in todo, EnqueueFind(t) PROVE QueueInv'
  <2>0. t \in Request /\ todo \subseteq Request /\ Request' = Request /\ FoundOwn
        /\ nrows \in Nat /\ user \in [User -> UserRecord]
    <3>1. nrows' = nrows
      BY <1>4 DEF EnqueueFind
    <3>2. Request' = Request
      BY <3>1 DEF Request
    <3>3. FoundOwn
      BY DEF QueueInv
    <3> QED
      BY <1>0, <1>4, <3>2, <3>3, OutboxAssumption DEF TypeOK
  <2>1. UNCHANGED <<nreqs, user, rows, nrows, deleting, worker, core, coreState, crashes, slipped>>
    BY <1>4 DEF EnqueueFind
  <2>2. todo' \subseteq Request' /\ FoundOwn'
    <3>1. CASE todo' = todo \ {t}
      BY <2>0, <2>1, <3>1 DEF FoundOwn
    <3>2. ASSUME NEW i \in (IF Coalesced(t.user, t.action) = {} THEN {NoRow}
                            ELSE Coalesced(t.user, t.action)),
                 todo' = (todo \ {t}) \cup {[t EXCEPT !.at = "write", !.row = i,
                                                      !.seen = user[t.user].sync]}
          PROVE  todo' \subseteq Request' /\ FoundOwn'
      <4> DEFINE n == [t EXCEPT !.at = "write", !.row = i, !.seen = user[t.user].sync]
      <4>1. i \in 0..nrows /\ (i # NoRow => rows[i].user = t.user /\ rows[i].action = t.action)
        BY <2>0, <3>2 DEF Coalesced, RowId, NoRow
      <4>2. user[t.user].sync \in SyncState
        BY <2>0 DEF Request, UserRecord
      <4>3. n \in Request /\ n.row = i /\ n.user = t.user /\ n.action = t.action
        BY <2>0, <4>1, <4>2 DEF Request
      <4> QED
        BY <2>0, <2>1, <3>2, <4>1, <4>3 DEF FoundOwn
    <3> QED
      BY <1>4, <3>1, <3>2 DEF EnqueueFind
  <2>3. TypeOK'
    BY <1>0, <2>1, <2>2 DEF TypeOK, Worker, RowId
  <2> QED
    BY <2>1, <2>2, <2>3, UsersOnlyStep DEF Exists
<1>5. ASSUME NEW u \in User, PurgeUser(u) PROVE QueueInv'
  <2>1. TypeOK'
    BY <1>0, <1>5, OutboxAssumption
       DEF TypeOK, PurgeUser, Worker, Request, UserRecord, UserStatus, SyncState, RowId
  <2>2. \A v \in User : \/ user'[v].sync = user[v].sync /\ (Exists(v)' => Exists(v))
                        \/ user'[v].sync = "live"
    BY <1>0, <1>5 DEF PurgeUser, TypeOK, UserRecord, Exists
  <2>3. \A v \in User : user'[v].status = "none" => user[v].status = "none"
    BY <1>0, <1>5 DEF PurgeUser, TypeOK, UserRecord
  <2>4. FoundOwn'
    BY <1>5 DEF QueueInv, FoundOwn, PurgeUser
  <2> QED
    BY <1>5, <2>1, <2>2, <2>3, <2>4, UsersOnlyStep DEF PurgeUser
<1>6. ASSUME NEW t \in todo, EnqueueWrite(t) PROVE QueueInv'
  BY <1>6, EnqueueStep
<1>7. ASSUME ApiCrash PROVE QueueInv'
  <2>1. TypeOK'
    BY <1>0, <1>7, OutboxAssumption DEF TypeOK, ApiCrash, Worker, RowId
  <2>2. FoundOwn'
    BY <1>7 DEF FoundOwn, ApiCrash
  <2> QED
    BY <1>7, <2>1, <2>2, UsersOnlyStep DEF ApiCrash, Exists
<1> QED
  BY <1>1, <1>2, <1>3, <1>4, <1>5, <1>6, <1>7 DEF Api

(* Steps that keep the requests and every row's user and action keep what the
   requests found. *)
LEMMA SameRequests ==
  ASSUME TypeOK, FoundOwn, UNCHANGED <<todo, nrows>>,
         UNCHANGED rows \/ \A i \in RowId : /\ rows'[i].user = rows[i].user
                                           /\ rows'[i].action = rows[i].action
  PROVE  FoundOwn'
<1>1. \A x \in todo : x.row # NoRow => x.row \in RowId
  BY DEF TypeOK, Request, RowId, NoRow
<1> QED
  BY <1>1 DEF FoundOwn

-----------------------------------------------------------------------------
(* Timers, the core and the crashes keep the invariant. *)
LEMMA EnvironmentStep ==
  QueueInv /\ (\/ \E i \in RowId : TimerElapses(i)
               \/ CoreStop \/ CoreBoot \/ CoreUp \/ WorkerCrash) => QueueInv'
<1> SUFFICES ASSUME QueueInv,
                    \/ \E i \in RowId : TimerElapses(i)
                    \/ CoreStop \/ CoreBoot \/ CoreUp \/ WorkerCrash
             PROVE  QueueInv'
  OBVIOUS
<1>0. TypeOK
  BY DEF QueueInv
<1>1. ASSUME NEW i \in RowId, TimerElapses(i) PROVE QueueInv'
  <2>1. rows' \in [RowId -> Row]
    BY <1>0, <1>1 DEF TypeOK, TimerElapses, Row
  <2>2. \A j \in RowId : /\ rows'[j].user = rows[j].user
                         /\ rows'[j].action = rows[j].action
                         /\ rows'[j].status = rows[j].status
                         /\ rows'[j].attempts = rows[j].attempts
    BY <1>0, <1>1 DEF TypeOK, TimerElapses, Row
  <2>3. TypeOK'
    BY <1>0, <1>1, <2>1 DEF TypeOK, TimerElapses, Worker, Request, RowId
  <2>4. WorkerShape'
    BY <1>1 DEF QueueInv, WorkerShape, TimerElapses, RowId
  <2>5. HeldAreRunning'
    <3>1. Held \subseteq RowId
      BY <1>0 DEF TypeOK, Worker, Held, RowId, NoRow
    <3> QED
      BY <1>1, <2>2, <3>1 DEF QueueInv, HeldAreRunning, Held, TimerElapses
  <2>6. AttemptBudget' /\ RowsOfCreated'
    BY <1>1, <2>2 DEF QueueInv, AttemptBudget, RowsOfCreated, TimerElapses, RowId
  <2>7. SyncStateBacked'
    <3>1. \A v \in User : \A S : HasRow(v, S) => HasRow(v, S)'
      BY <1>1, <2>2 DEF HasRow, TimerElapses, RowId
    <3> QED
      BY <1>1, <3>1 DEF QueueInv, SyncStateBacked, TimerElapses, Exists
  <2>8. FoundOwn'
    BY <1>0, <1>1, <2>2, SameRequests DEF QueueInv, TimerElapses
  <2> QED
    BY <2>3, <2>4, <2>5, <2>6, <2>7, <2>8 DEF QueueInv
<1>2. ASSUME CoreStop PROVE QueueInv'
  <2>1. TypeOK'
    BY <1>0, <1>2, OutboxAssumption DEF TypeOK, CoreStop, Worker, Request, RowId
  <2>9. FoundOwn'
    BY <1>0, <1>2, SameRequests DEF QueueInv, CoreStop
  <2> QED
    BY <1>2, <2>1, <2>9, UsersOnlyStep DEF CoreStop, Exists
<1>3. ASSUME CoreBoot PROVE QueueInv'
  <2>1. core' \in [User -> 0..MaxVer]
    BY <1>0, <1>3, OutboxAssumption DEF TypeOK, CoreBoot, DbUsers, UserRecord
  <2>2. TypeOK'
    BY <1>0, <1>3, <2>1 DEF TypeOK, CoreBoot, Worker, Request, RowId
  <2>9. FoundOwn'
    BY <1>0, <1>3, SameRequests DEF QueueInv, CoreBoot
  <2> QED
    BY <1>3, <2>2, <2>9, UsersOnlyStep DEF CoreBoot, Exists
<1>4. ASSUME CoreUp PROVE QueueInv'
  <2>1. TypeOK'
    BY <1>0, <1>4 DEF TypeOK, CoreUp, Worker, Request, RowId
  <2>9. FoundOwn'
    BY <1>0, <1>4, SameRequests DEF QueueInv, CoreUp
  <2> QED
    BY <1>4, <2>1, <2>9, UsersOnlyStep DEF CoreUp, Exists
<1>5. ASSUME WorkerCrash PROVE QueueInv'
  <2>1. worker' = IdleWorker /\ UNCHANGED <<user, rows, nrows, todo, slipped>>
    BY <1>5 DEF WorkerCrash
  <2>2. worker' \in Worker' /\ WorkerShape' /\ Held' = {}
    BY <1>0, <2>1, OutboxAssumption
       DEF TypeOK, IdleWorker, NotSeen, Worker, Pc, UserStatus, WorkerShape, Held, RowId, NoRow
  <2>3. TypeOK'
    BY <1>0, <1>5, <2>2, OutboxAssumption DEF TypeOK, WorkerCrash, Request, RowId
  <2> QED
    BY <2>1, <2>2, <2>3, DrainLocalStep
<1> QED
  BY <1>1, <1>2, <1>3, <1>4, <1>5

-----------------------------------------------------------------------------
(* A reclaim keeps rows typed, and moves them only from running to pending. *)
LEMMA ReclaimRows ==
  ASSUME TypeOK
  PROVE  /\ Reclaim(rows) \in [RowId -> Row]
         /\ \A i \in RowId :
              /\ Reclaim(rows)[i].user = rows[i].user
              /\ Reclaim(rows)[i].action = rows[i].action
              /\ Reclaim(rows)[i].attempts = rows[i].attempts
              /\ \/ Reclaim(rows)[i].status = rows[i].status
                 \/ rows[i].status = "running" /\ Reclaim(rows)[i].status = "pending"
<1> SUFFICES ASSUME NEW i \in RowId
             PROVE  /\ Reclaimed(rows[i]) \in Row
                    /\ Reclaimed(rows[i]).user = rows[i].user
                    /\ Reclaimed(rows[i]).action = rows[i].action
                    /\ Reclaimed(rows[i]).attempts = rows[i].attempts
                    /\ \/ Reclaimed(rows[i]).status = rows[i].status
                       \/ rows[i].status = "running" /\ Reclaimed(rows[i]).status = "pending"
  BY DEF Reclaim
<1>1. rows[i] \in Row
  BY DEF TypeOK
<1> QED
  BY <1>1 DEF Reclaimed, Row, RowStatus

(* A claim counts the attempt it starts, within the budget. *)
LEMMA ClaimRows ==
  ASSUME NEW rs \in [RowId -> Row], nrows \in Nat,
         NEW S, S = ClaimSet(rs)
  PROVE  /\ S \subseteq RowId
         /\ Claimed(rs, S) \in [RowId -> Row]
         /\ \A i \in S :
              /\ rs[i].status \in {"pending", "failed"}
              /\ Claimed(rs, S)[i].user = rs[i].user
              /\ Claimed(rs, S)[i].action = rs[i].action
              /\ Claimed(rs, S)[i].status = "running"
              /\ Claimed(rs, S)[i].attempts = rs[i].attempts + 1
              /\ rs[i].attempts + 1 \in 1..MaxAttempts
         /\ \A i \in RowId \ S : Claimed(rs, S)[i] = rs[i]
<1>1. S \subseteq RowId /\ \A i \in S : Due(rs[i])
  BY DEF ClaimSet
<1>2. ASSUME NEW i \in S
      PROVE  LET c == [rs[i] EXCEPT !.status = "running", !.attempts = @ + 1, !.elapsed = FALSE]
             IN  /\ c \in Row /\ c.user = rs[i].user /\ c.action = rs[i].action /\ c.status = "running"
                 /\ c.attempts = rs[i].attempts + 1
                 /\ rs[i].attempts + 1 \in 1..MaxAttempts
                 /\ rs[i].status \in {"pending", "failed"}
  <2>1. rs[i] \in Row /\ Due(rs[i])
    BY <1>1, <1>2
  <2>2. rs[i].attempts + 1 \in 1..MaxAttempts
    BY <2>1, OutboxAssumption DEF Due, Row
  <2>3. rs[i].status \in {"pending", "failed"}
    BY <2>1 DEF Due
  <2>4. rs[i].attempts + 1 \in 0..MaxAttempts
    BY <2>2, OutboxAssumption
  <2> QED
    BY <2>1, <2>2, <2>3, <2>4 DEF Row, RowStatus
<1>3. \A i \in RowId : Claimed(rs, S)[i] =
        IF i \in S THEN [rs[i] EXCEPT !.status = "running", !.attempts = @ + 1, !.elapsed = FALSE]
        ELSE rs[i]
  BY DEF Claimed
<1>4. Claimed(rs, S) \in [RowId -> Row]
  BY <1>2, <1>3 DEF Claimed
<1> QED
  BY <1>1, <1>2, <1>3, <1>4

(* Moving rows among pending, running and failed keeps sync_state backed as
   long as no row becomes failed. *)
LEMMA SyncStaysBacked ==
  ASSUME QueueInv, UNCHANGED <<user, nrows, slipped>>,
         \A i \in RowId : /\ rows'[i].user = rows[i].user
                          /\ \/ rows'[i].status = rows[i].status
                             \/ /\ rows[i].status \in {"pending", "running", "failed"}
                                /\ rows'[i].status \in {"pending", "running"}
  PROVE  SyncStateBacked'
<1>1. RowId' = RowId
  BY DEF RowId
<1> SUFFICES ASSUME NEW v \in User, Exists(v), v \notin slipped
             PROVE  /\ user[v].sync = "pending" => HasRow(v, {"pending", "running"})'
                    /\ user[v].sync = "failed" => HasRow(v, {"pending", "running", "failed"})'
                    /\ user[v].sync = "dead" => HasRow(v, {"dead"})'
  BY DEF SyncStateBacked, Exists
<1>2. /\ HasRow(v, {"pending", "running"}) => HasRow(v, {"pending", "running"})'
      /\ HasRow(v, {"pending", "running", "failed"}) => HasRow(v, {"pending", "running", "failed"})'
      /\ HasRow(v, {"dead"}) => HasRow(v, {"dead"})'
  BY <1>1 DEF HasRow
<1> QED
  BY <1>2 DEF QueueInv, SyncStateBacked

(* A drain that starts keeps the invariant: what it claims is running and
   nothing else was held. *)
LEMMA DrainStep == QueueInv /\ Drain => QueueInv'
<1> SUFFICES ASSUME QueueInv, Drain PROVE QueueInv'
  OBVIOUS
<1> DEFINE rs == Reclaim(rows)
           S  == ClaimSet(rs)
           cl == Claimed(rs, S)
<1>0. TypeOK /\ nrows \in Nat
  BY OutboxAssumption DEF QueueInv, TypeOK
<1>1. /\ rs \in [RowId -> Row]
      /\ \A i \in RowId :
           /\ rs[i].user = rows[i].user
           /\ rs[i].action = rows[i].action
           /\ rs[i].attempts = rows[i].attempts
           /\ \/ rs[i].status = rows[i].status
              \/ rows[i].status = "running" /\ rs[i].status = "pending"
  BY <1>0, ReclaimRows
<1>2. worker.pc = "idle" /\ worker.batch = {} /\ worker.cur = NoRow
  BY DEF Drain, LockFree, QueueInv, WorkerShape
<1>3. /\ UNCHANGED <<nreqs, user, nrows, todo, deleting, core, coreState, crashes, slipped>>
      /\ RowId' = RowId
  BY DEF Drain, RowId
<1>4. AttemptBudget /\ RowsOfCreated /\ FoundOwn
  BY DEF QueueInv
<1>5. CASE rows' = rs /\ UNCHANGED worker
  <2>1. TypeOK'
    BY <1>0, <1>1, <1>3, <1>5 DEF TypeOK, Worker, Request, RowId
  <2>2. AttemptBudget' /\ RowsOfCreated'
    BY <1>1, <1>3, <1>4, <1>5 DEF AttemptBudget, RowsOfCreated
  <2>3. WorkerShape' /\ HeldAreRunning'
    BY <1>2, <1>3, <1>5 DEF QueueInv, WorkerShape, HeldAreRunning, Held
  <2>4. SyncStateBacked'
    BY <1>1, <1>3, <1>5, SyncStaysBacked
  <2>5. FoundOwn'
    BY <1>0, <1>1, <1>3, <1>4, <1>5, SameRequests
  <2> QED
    BY <2>1, <2>2, <2>3, <2>4, <2>5 DEF QueueInv
<1>6. CASE /\ rows' = cl
           /\ worker' = [worker EXCEPT !.pc = "batch", !.batch = S]
  <2>1. /\ S \subseteq RowId
        /\ cl \in [RowId -> Row]
        /\ \A i \in S :
             /\ rs[i].status \in {"pending", "failed"}
             /\ cl[i].user = rs[i].user
             /\ cl[i].action = rs[i].action
             /\ cl[i].status = "running"
             /\ cl[i].attempts = rs[i].attempts + 1
             /\ rs[i].attempts + 1 \in 1..MaxAttempts
        /\ \A i \in RowId \ S : cl[i] = rs[i]
    BY <1>0, <1>1, ClaimRows
  <2> HIDE DEF rs, S, cl
  <2>2. worker'.pc = "batch" /\ worker'.batch = S /\ worker'.cur = NoRow /\ worker' \in Worker'
    BY <1>0, <1>2, <1>3, <1>6, <2>1 DEF TypeOK, Worker, Pc
  <2>3. TypeOK'
    BY <1>0, <1>3, <1>6, <2>1, <2>2 DEF TypeOK, Request
  <2>4. \A i \in RowId : cl[i].user = rows[i].user /\ cl[i].action = rows[i].action
    BY <1>1, <2>1
  <2>5. AttemptBudget'
    <3> SUFFICES ASSUME NEW i \in RowId
                 PROVE  /\ cl[i].attempts <= MaxAttempts
                        /\ cl[i].status = "running" => cl[i].attempts >= 1
                        /\ cl[i].status = "failed" => cl[i].attempts \in 1..(MaxAttempts - 1)
                        /\ cl[i].status = "dead" => cl[i].attempts = MaxAttempts
      BY <1>3, <1>6 DEF AttemptBudget
    <3>1. CASE i \in S
      BY <2>1, <3>1, OutboxAssumption
    <3>2. CASE i \notin S
      BY <1>1, <1>4, <2>1, <3>2 DEF AttemptBudget
    <3> QED
      BY <3>1, <3>2
  <2>6. RowsOfCreated'
    BY <1>3, <1>4, <1>6, <2>4 DEF RowsOfCreated
  <2>7. WorkerShape' /\ HeldAreRunning'
    BY <1>6, <2>1, <2>2 DEF WorkerShape, HeldAreRunning, Held
  <2>8. \A i \in RowId : \/ rows'[i].status = rows[i].status
                         \/ /\ rows[i].status \in {"pending", "running", "failed"}
                            /\ rows'[i].status \in {"pending", "running"}
    BY <1>1, <1>6, <2>1
  <2>9. SyncStateBacked'
    BY <1>3, <1>6, <2>4, <2>8, SyncStaysBacked
  <2>10. FoundOwn'
    BY <1>0, <1>3, <1>4, <1>6, <2>4, SameRequests
  <2> QED
    BY <2>3, <2>5, <2>6, <2>7, <2>9, <2>10 DEF QueueInv
<1> QED
  BY <1>5, <1>6 DEF Drain

(* The drain's reads, pushes and acknowledgements keep the invariant. *)
LEMMA WorkStep == QueueInv /\ ((\E i \in RowId : ReadRow(i)) \/ Push \/ ConfirmRead \/ Ack) => QueueInv'
<1> SUFFICES ASSUME QueueInv, (\E i \in RowId : ReadRow(i)) \/ Push \/ ConfirmRead \/ Ack
             PROVE  QueueInv'
  OBVIOUS
<1>0. TypeOK /\ WorkerShape /\ worker \in Worker
  BY DEF QueueInv, TypeOK
<1>1. ASSUME NEW i \in RowId, ReadRow(i) PROVE QueueInv'
  <2>1. /\ worker.pc = "batch" /\ i \in worker.batch
        /\ UNCHANGED <<nreqs, user, rows, nrows, todo, deleting, core, coreState, crashes, slipped>>
    BY <1>1 DEF ReadRow, NextInBatch
  <2>2. SeenUser(rows[i].user) \in [status : UserStatus, ver : 0..MaxVer]
    <3>1. rows[i].user \in User
      BY <1>0 DEF TypeOK, Row
    <3>2. user[rows[i].user] \in UserRecord
      BY <1>0, <3>1 DEF TypeOK
    <3> QED
      BY <3>2 DEF SeenUser, UserRecord
  <2>3. NotSeen \in [status : UserStatus, ver : 0..MaxVer]
    BY OutboxAssumption DEF NotSeen, UserStatus
  <2> DEFINE w == [worker EXCEPT !.batch = @ \ {i}, !.cur = i, !.seen = SeenUser(rows[i].user)]
  <2>4. worker' \in {[w EXCEPT !.pc = "push"], [w EXCEPT !.pc = "finish", !.seen = NotSeen]}
    BY <1>1 DEF ReadRow
  <2>5. /\ worker'.pc \in {"push", "finish"} /\ worker'.cur = i
        /\ worker'.batch = worker.batch \ {i}
        /\ worker' \in Worker
    <3>0. worker.batch \ {i} \in SUBSET RowId /\ i \in 0..nrows
      BY <1>0 DEF Worker, TypeOK, RowId
    <3>1. w \in Worker /\ w.cur = i /\ w.batch = worker.batch \ {i}
      BY <1>0, <2>2, <3>0 DEF Worker
    <3> HIDE DEF w
    <3> QED
      BY <2>3, <2>4, <3>1 DEF Worker, Pc
  <2>6. WorkerShape'
    BY <2>1, <2>5 DEF WorkerShape, RowId
  <2>7. Held' \subseteq Held
    BY <2>1, <2>5 DEF Held
  <2>8. TypeOK'
    BY <1>0, <2>1, <2>5 DEF TypeOK, Worker, Request, RowId
  <2> QED
    BY <2>1, <2>6, <2>7, <2>8, DrainLocalStep
<1>2. ASSUME Push \/ ConfirmRead \/ Ack PROVE QueueInv'
  <2>1. /\ worker.pc \in {"push", "ack", "probe"}
        /\ UNCHANGED <<nreqs, user, rows, nrows, todo, deleting, coreState, crashes, slipped>>
    BY <1>2 DEF Push, ConfirmRead, Ack
  <2>2. worker.cur \in RowId \ worker.batch
    BY <1>0, <2>1 DEF WorkerShape
  <2>3. CurUser \in User
    BY <1>0, <2>2 DEF TypeOK, Row, CurUser
  <2>4. user[CurUser].ver \in 0..MaxVer /\ core[CurUser] \in 0..MaxVer /\ worker.seen.ver \in 0..MaxVer
    BY <1>0, <2>3 DEF TypeOK, UserRecord, Worker
  <2>5. 0 \in 0..MaxVer
    BY OutboxAssumption
  <2>6. PushTarget \in 0..MaxVer /\ AckTarget \in 0..MaxVer
    BY <2>4, <2>5 DEF PushTarget, AckTarget
  <2>7. \A v \in PushPartial : v \in 0..MaxVer
    BY <2>4, <2>5, <2>6 DEF PushPartial
  <2>8. core' \in [User -> 0..MaxVer]
    <3>1. \/ UNCHANGED core
          \/ \E v \in 0..MaxVer : core' = [core EXCEPT ![CurUser] = v]
      BY <1>2, <2>4, <2>6, <2>7 DEF Push, ConfirmRead, Ack
    <3> QED
      BY <1>0, <2>3, <3>1 DEF TypeOK
  <2>9. /\ worker' \in Worker /\ worker'.pc \in {"ack", "probe", "finish"}
        /\ worker'.cur = worker.cur /\ worker'.batch = worker.batch
    <3>1. NotSeen \in [status : UserStatus, ver : 0..MaxVer]
      BY <2>5 DEF NotSeen, UserStatus
    <3>2. CASE Push
      BY <1>0, <3>1, <3>2 DEF Push, Worker, Pc
    <3>3. CASE Ack
      BY <1>0, <3>1, <3>3 DEF Ack, Worker, Pc
    <3>4. CASE ConfirmRead
      <4>1. SeenUser(CurUser) \in [status : UserStatus, ver : 0..MaxVer]
        BY <1>0, <2>3 DEF TypeOK, SeenUser, UserRecord
      <4> QED
        BY <1>0, <3>1, <3>4, <4>1 DEF ConfirmRead, Worker, Pc
    <3> QED
      BY <1>2, <3>2, <3>3, <3>4
  <2>10. TypeOK'
    BY <1>0, <2>1, <2>8, <2>9 DEF TypeOK, Worker, Request, RowId
  <2>11. WorkerShape' /\ Held' = Held
    BY <2>1, <2>2, <2>9 DEF WorkerShape, Held, RowId
  <2> QED
    BY <2>1, <2>10, <2>11, DrainLocalStep
<1> QED
  BY <1>1, <1>2

(* _finish keeps the invariant: the row it settles is the drain's own and
   running, and the user's sync_state follows the row. *)
LEMMA FinishStep == QueueInv /\ Finish => QueueInv'
<1> SUFFICES ASSUME QueueInv, Finish PROVE QueueInv'
  OBVIOUS
<1> DEFINE k == worker.cur
           r == rows[k]
           f == FinishedRow(r, worker.ok)
           s == FinishedSync(r, worker.ok)
<1>0. TypeOK /\ WorkerShape /\ AttemptBudget /\ RowsOfCreated /\ worker \in Worker
  BY DEF QueueInv, TypeOK
<1>1. k \in RowId \ worker.batch /\ r \in Row /\ r.user \in User
  BY <1>0 DEF Finish, WorkerShape, TypeOK, Row
<1>2. r.status = "running"
  BY <1>1, <1>0 DEF QueueInv, HeldAreRunning, Held, RowId, NoRow
<1>3. r.attempts \in 1..MaxAttempts
  BY <1>0, <1>1, <1>2, OutboxAssumption DEF AttemptBudget, Row
<1>4. /\ rows' = [rows EXCEPT ![k] = f] /\ user' = SetUserSync(r.user, s)
      /\ UNCHANGED <<nreqs, nrows, todo, deleting, core, coreState, crashes>>
      /\ slipped' = slipped \ {r.user}
      /\ RowId' = RowId
  BY DEF Finish, CurUser, RowId
<1>5. worker.ok \in BOOLEAN
  BY <1>0 DEF Worker
<1>6. /\ f \in Row /\ f.user = r.user /\ f.action = r.action /\ f.attempts = r.attempts
      /\ \/ f.status = "done" /\ s = "live"
         \/ f.status = "dead" /\ s = "dead" /\ r.attempts = MaxAttempts
         \/ f.status = "failed" /\ s = "failed" /\ r.attempts < MaxAttempts
  <2>1. \/ Outcome(r, worker.ok) = "done"
        \/ Outcome(r, worker.ok) = "dead" /\ r.attempts = MaxAttempts
        \/ Outcome(r, worker.ok) = "failed" /\ r.attempts < MaxAttempts
    BY <1>3, <1>5, OutboxAssumption DEF Outcome
  <2> QED
    BY <1>1, <2>1 DEF FinishedRow, FinishedSync, Row, RowStatus
<1> HIDE DEF f, s
<1>7. /\ worker' \in Worker' /\ WorkerShape'
      /\ Held' = worker.batch
  <2>1. worker' \in {IdleWorker, [IdleWorker EXCEPT !.pc = "batch", !.batch = worker.batch]}
        /\ (worker.batch # {} => worker' = [IdleWorker EXCEPT !.pc = "batch", !.batch = worker.batch])
    BY DEF Finish, AfterRow
  <2>2. IdleWorker \in Worker /\ worker.batch \in SUBSET RowId
    BY <1>0, OutboxAssumption DEF IdleWorker, NotSeen, Worker, Pc, UserStatus, RowId, NoRow, TypeOK
  <2>3. worker' \in Worker /\ worker'.cur = NoRow /\ worker'.batch = worker.batch
        /\ worker'.pc \in {"idle", "batch"} /\ (worker'.pc = "idle" => worker.batch = {})
    <3>1. CASE worker.batch = {}
      <4>1. worker' = IdleWorker
        BY <3>1 DEF Finish, AfterRow
      <4> QED
        BY <2>2, <3>1, <4>1 DEF IdleWorker
    <3>2. CASE worker.batch # {}
      BY <2>1, <2>2, <3>2 DEF IdleWorker, Worker, Pc
    <3> QED
      BY <3>1, <3>2
  <2> QED
    BY <1>4, <2>3 DEF WorkerShape, Held, Worker, RowId
<1>8. /\ user' \in [User -> UserRecord]
      /\ \A v \in User : user'[v].status = user[v].status
      /\ \A v \in User \ {r.user} : user'[v].sync = user[v].sync
      /\ Exists(r.user) => user'[r.user].sync = s
  BY <1>0, <1>1, <1>4, <1>6 DEF SetUserSync, TypeOK, UserRecord, SyncState
<1>9. TypeOK'
  BY <1>0, <1>1, <1>4, <1>6, <1>7, <1>8 DEF TypeOK, Request
<1>10. rows'[k] = f /\ \A i \in RowId \ {k} : rows'[i] = rows[i]
  BY <1>0, <1>1, <1>4 DEF TypeOK
<1>11. AttemptBudget'
  <2>1. \A i \in RowId \ {k} : /\ rows'[i].attempts <= MaxAttempts
                               /\ rows'[i].status = "running" => rows'[i].attempts >= 1
                               /\ rows'[i].status = "failed" => rows'[i].attempts \in 1..(MaxAttempts - 1)
                               /\ rows'[i].status = "dead" => rows'[i].attempts = MaxAttempts
    BY <1>0, <1>10 DEF AttemptBudget
  <2>2. /\ f.attempts <= MaxAttempts
        /\ f.status = "running" => f.attempts >= 1
        /\ f.status = "failed" => f.attempts \in 1..(MaxAttempts - 1)
        /\ f.status = "dead" => f.attempts = MaxAttempts
    BY <1>3, <1>6, OutboxAssumption
  <2> QED
    BY <1>4, <1>10, <2>1, <2>2 DEF AttemptBudget
<1>12. RowsOfCreated'
  <2>1. \A i \in RowId : rows'[i].user = rows[i].user /\ rows[i].user \in User
    BY <1>0, <1>6, <1>10 DEF TypeOK, Row
  <2> QED
    BY <1>0, <1>4, <1>8, <2>1 DEF RowsOfCreated
<1>13. HeldAreRunning'
  BY <1>0, <1>1, <1>7, <1>10 DEF QueueInv, HeldAreRunning, Held, Worker
<1>14. SyncStateBacked'
  <2> SUFFICES ASSUME NEW v \in User, Exists(v), v \notin slipped'
               PROVE  /\ user'[v].sync = "pending" => HasRow(v, {"pending", "running"})'
                      /\ user'[v].sync = "failed" => HasRow(v, {"pending", "running", "failed"})'
                      /\ user'[v].sync = "dead" => HasRow(v, {"dead"})'
    BY <1>8 DEF SyncStateBacked, Exists
  <2>1. CASE v = r.user
    <3>1. ASSUME NEW S, f.status \in S PROVE HasRow(v, S)'
      <4>1. k \in RowId' /\ rows'[k].user = v /\ rows'[k].status \in S
        BY <1>1, <1>4, <1>6, <1>10, <2>1, <3>1
      <4> QED
        BY <4>1 DEF HasRow
    <3>2. user'[v].sync = s
      BY <1>8, <2>1
    <3>3. CASE s = "live"
      BY <3>2, <3>3
    <3>4. CASE s = "dead" /\ f.status = "dead"
      BY <3>1, <3>2, <3>4
    <3>5. CASE s = "failed" /\ f.status = "failed"
      BY <3>1, <3>2, <3>5
    <3> QED
      BY <1>6, <3>3, <3>4, <3>5
  <2>2. CASE v # r.user
    <3>1. ASSUME NEW S, HasRow(v, S) PROVE HasRow(v, S)'
      <4>1. PICK i \in RowId : rows[i].user = v /\ rows[i].status \in S
        BY <3>1 DEF HasRow
      <4>2. i # k /\ i \in RowId'
        BY <1>4, <2>2, <4>1
      <4>3. rows'[i] = rows[i]
        BY <1>10, <4>2
      <4> QED
        BY <4>1, <4>2, <4>3 DEF HasRow
    <3>2. user'[v].sync = user[v].sync
      BY <1>8, <2>2
    <3>3. /\ user[v].sync = "pending" => HasRow(v, {"pending", "running"})
          /\ user[v].sync = "failed" => HasRow(v, {"pending", "running", "failed"})
          /\ user[v].sync = "dead" => HasRow(v, {"dead"})
      BY <1>4, <2>2 DEF QueueInv, SyncStateBacked
    <3> QED
      BY <3>1, <3>2, <3>3
  <2> QED
    BY <2>1, <2>2
<1>15. FoundOwn'
  <2>1. \A i \in RowId : rows'[i].user = rows[i].user /\ rows'[i].action = rows[i].action
    BY <1>6, <1>10
  <2> QED
    BY <1>0, <1>4, <2>1, SameRequests DEF QueueInv
<1> QED
  BY <1>7, <1>9, <1>11, <1>12, <1>13, <1>14, <1>15 DEF QueueInv

-----------------------------------------------------------------------------
(* The inductive invariant holds in every reachable state. *)
THEOREM QueueInvariant == Spec => []QueueInv
<1>1. QueueInv /\ [Next]_vars => QueueInv'
  <2> SUFFICES ASSUME QueueInv, [Next]_vars PROVE QueueInv'
    OBVIOUS
  <2>1. CASE UNCHANGED vars
    <3>1. TypeOK' /\ Held' = Held /\ WorkerShape'
      BY <2>1 DEF vars, QueueInv, TypeOK, Worker, Request, RowId, Held, WorkerShape
    <3> QED
      BY <2>1, <3>1, DrainLocalStep DEF vars
  <2>2. CASE Api
    BY <2>2, ApiStep
  <2>3. CASE Drainer
    BY <2>3, DrainStep, WorkStep, FinishStep DEF Drainer
  <2>4. CASE \/ \E i \in RowId : TimerElapses(i)
             \/ CoreStop \/ CoreBoot \/ CoreUp \/ WorkerCrash
    BY <2>4, EnvironmentStep
  <2> QED
    BY <2>1, <2>2, <2>3, <2>4 DEF Next
<1> QED
  BY <1>1, InitQueueInv, PTL DEF Spec

(* Every reachable state is well typed. *)
THEOREM OutboxTypeCorrect == Spec => []TypeOK
<1>1. QueueInv => TypeOK
  BY DEF QueueInv
<1> QED
  BY <1>1, QueueInvariant, PTL

(* users.sync_state tells the truth about the rows behind it, across racing
   enqueues, coalescing, retries, reclaims and crashes, but for the coalesce
   that the history `slipped' marks. *)
THEOREM SyncStateTruthful == Spec => []SyncStateBacked
<1>1. QueueInv => SyncStateBacked
  BY DEF QueueInv
<1> QED
  BY <1>1, QueueInvariant, PTL

(* No row outlives its retry budget, however often it is reclaimed. *)
THEOREM RetryBudgetKept == Spec => []AttemptBudget
<1>1. QueueInv => AttemptBudget
  BY DEF QueueInv
<1> QED
  BY <1>1, QueueInvariant, PTL

(* The drain lock keeps the rows in hand running until their outcome is
   recorded. *)
THEOREM DrainOwnsItsRows == Spec => []HeldAreRunning
<1>1. QueueInv => HeldAreRunning
  BY DEF QueueInv
<1> QED
  BY <1>1, QueueInvariant, PTL

(* A settled row is never revived: claims take pending and failed rows only,
   reclaims running ones, and the drain records outcomes of running rows. *)
LEMMA SettledStep ==
  QueueInv /\ [Next]_vars =>
    \A i \in RowId : rows[i].status \in {"done", "dead"} => rows'[i].status = rows[i].status
<1> SUFFICES ASSUME QueueInv, [Next]_vars, NEW i \in RowId, rows[i].status \in {"done", "dead"}
             PROVE  rows'[i].status = rows[i].status
  OBVIOUS
<1>0. TypeOK /\ nrows \in Nat /\ rows \in [RowId -> Row] /\ rows[i] \in Row
  BY OutboxAssumption DEF QueueInv, TypeOK
<1>1. CASE UNCHANGED rows
  BY <1>1
<1>3. CASE Api
  <2>1. ASSUME NEW t \in todo, EnqueueWrite(t) PROVE rows'[i].status = rows[i].status
    BY <1>0, <2>1, EnqueueRows
  <2> QED
    BY <1>1, <1>3, <2>1
       DEF Api, CreateUser, ModifyUser, ResetUser, DeleteUser, EnqueueFind, PurgeUser, ApiCrash
<1>4. CASE Drain
  <2> DEFINE rs == Reclaim(rows)
             S == ClaimSet(rs)
  <2>1. rs \in [RowId -> Row] /\ rs[i].status = rows[i].status
    BY <1>0, ReclaimRows
  <2>2. i \notin S /\ Claimed(rs, S)[i] = rs[i]
    BY <1>0, <2>1, ClaimRows
  <2>3. rows' = rs \/ rows' = Claimed(rs, S)
    BY <1>4 DEF Drain
  <2> QED
    BY <2>1, <2>2, <2>3
<1>5. CASE Finish
  <2>1. worker.cur \in RowId /\ rows[worker.cur].status = "running"
    BY <1>5 DEF QueueInv, Finish, WorkerShape, HeldAreRunning, Held, RowId, NoRow
  <2> QED
    BY <1>0, <1>5, <2>1 DEF Finish
<1>6. CASE \E j \in RowId : TimerElapses(j)
  BY <1>0, <1>6 DEF TimerElapses, Row
<1> QED
  BY <1>1, <1>3, <1>4, <1>5, <1>6
     DEF Next, vars, Drainer, ReadRow, Push, ConfirmRead, Ack, CoreStop, CoreBoot, CoreUp, WorkerCrash

(* Done and dead are final. *)
THEOREM SettledIsFinal == Spec => SettledStays
<1>1. Spec => [][Next]_vars
  BY PTL DEF Spec
<1>2. QueueInv /\ [Next]_vars =>
        [\A i \in RowId : rows[i].status \in {"done", "dead"}
                          => rows'[i].status = rows[i].status]_vars
  BY SettledStep
<1> QED
  BY <1>1, <1>2, QueueInvariant, PTL DEF SettledStays

-----------------------------------------------------------------------------
(* Disabling wins, while no process dies and the core stays up. *)

(* A request that will still insert a row, or find one. *)
Pending(t) == t.at = "find" \/ t.row = NoRow

(* A removal of the user is still to come: its request has not enqueued it,
   or its row is not done. *)
Owed(u) ==
  \/ \E t \in todo : t.user = u /\ t.action = "disable" /\ Pending(t)
  \/ \E d \in RowId : /\ rows[d].user = u /\ rows[d].action = "disable"
                      /\ rows[d].status # "done"

(* The worker has read the user as active and is about to push it, or to probe
   for it with a call that adds what is missing. *)
Installing(u) ==
  /\ worker.pc \in {"push", "probe"}
  /\ CurUser = u /\ CurAction \in PresentActions
  /\ worker.seen.status = "active"

(* A disabled user that the core holds, or is about to be given, is owed a
   removal. *)
NotForgotten ==
  \A u \in User :
    user[u].status = "disabled" /\ (core[u] # 0 \/ Installing(u)) => Owed(u)

(* An apply counts as confirmed only from its acknowledgement on, and a
   confirmed removal has removed. *)
ConfirmedRemoval ==
  /\ worker.pc # "finish" => worker.ok = FALSE
  /\ worker.pc = "finish" /\ worker.ok = TRUE /\ CurAction = "disable" =>
       core[CurUser] = 0

ServeInv ==
  /\ coreState = "up"
  /\ ConfirmedRemoval
  /\ NotForgotten

(* What is owed stays owed while requests and rows keep their user and action
   and no row becomes done. *)
LEMMA OwedKept ==
  ASSUME NEW u \in User, Owed(u), todo \subseteq todo', nrows \in Nat, nrows' \in Nat, nrows <= nrows',
         \A i \in RowId : /\ rows'[i].user = rows[i].user
                          /\ rows'[i].action = rows[i].action
                          /\ rows'[i].status = "done" => rows[i].status = "done"
  PROVE  Owed(u)'
<1>1. RowId \subseteq RowId'
  BY DEF RowId
<1> QED
  BY <1>1 DEF Owed

(* A step that leaves the worker and the core alone, disables nobody and keeps
   what is owed. *)
LEMMA ServeSame ==
  ASSUME TypeOK, WorkerShape, ServeInv, UNCHANGED <<worker, core, coreState>>,
         \A i \in RowId : rows'[i].user = rows[i].user /\ rows'[i].action = rows[i].action,
         \A u \in User : user'[u].status = "disabled" =>
                           Owed(u)' \/ (user[u].status = "disabled" /\ (Owed(u) => Owed(u)'))
  PROVE  ServeInv'
<1>1. worker.pc \in {"push", "ack", "probe", "finish"} => CurUser' = CurUser /\ CurAction' = CurAction
  BY DEF CurUser, CurAction, WorkerShape
<1>2. ConfirmedRemoval'
  BY <1>1 DEF ServeInv, ConfirmedRemoval
<1>3. \A u \in User : Installing(u)' => Installing(u)
  BY <1>1 DEF Installing
<1>4. NotForgotten'
  BY <1>3 DEF ServeInv, NotForgotten
<1> QED
  BY <1>2, <1>4 DEF ServeInv

(* Requests keep it. *)
LEMMA ServeApi ==
  ASSUME MaxCrash = 0, QueueInv, ServeInv, Api
  PROVE  ServeInv'
<1>0. /\ TypeOK /\ WorkerShape /\ nrows \in Nat /\ rows \in [RowId -> Row]
      /\ user \in [User -> UserRecord] /\ todo \subseteq Request /\ FoundOwn
  BY OutboxAssumption DEF QueueInv, TypeOK
<1>1. ASSUME UNCHANGED <<rows, nrows>>, todo \subseteq todo', NEW u \in User
      PROVE  Owed(u) => Owed(u)'
  BY <1>1 DEF Owed, RowId
<1>2. ASSUME NEW h \in Handler, NEW u \in User, CreateUser(h, u) PROVE ServeInv'
  <2>1. /\ UNCHANGED <<rows, nrows, worker, core, coreState>> /\ todo \subseteq todo'
        /\ \A v \in User : user'[v].status = "disabled" => user[v].status = "disabled"
    BY <1>0, <1>2 DEF CreateUser, Committed
  <2> QED
    BY <1>0, <1>1, <2>1, ServeSame
<1>3. ASSUME NEW h \in Handler, NEW u \in User, ResetUser(h, u) \/ DeleteUser(h, u)
      PROVE  ServeInv'
  <2>1. UNCHANGED <<user, rows, nrows, worker, core, coreState>> /\ todo \subseteq todo'
    BY <1>3 DEF ResetUser, DeleteUser, Committed
  <2> QED
    BY <1>0, <1>1, <2>1, ServeSame
<1>4. ASSUME NEW h \in Handler, NEW u \in User, NEW s \in {"active", "disabled"}, ModifyUser(h, u, s)
      PROVE  ServeInv'
  <2>1. UNCHANGED <<rows, nrows, worker, core, coreState>> /\ todo \subseteq todo'
    BY <1>4 DEF ModifyUser, Committed
  <2>2. \A v \in User \ {u} : user'[v].status = user[v].status
    BY <1>0, <1>4 DEF ModifyUser
  <2>3. user'[u].status = s
    BY <1>0, <1>4 DEF ModifyUser, UserRecord
  <2>4. s = "disabled" => Owed(u)'
    <3>1. s = "disabled" => NewRequest(h, u, "disable") \in todo'
      BY <1>4 DEF ModifyUser, Committed, ModifyAction
    <3> QED
      BY <3>1 DEF Owed, NewRequest, Pending
  <2> QED
    BY <1>0, <1>1, <2>1, <2>2, <2>3, <2>4, ServeSame
<1>5. ASSUME NEW t \in todo, EnqueueFind(t) PROVE ServeInv'
  <2>1. UNCHANGED <<user, rows, nrows, worker, core, coreState>> /\ todo \ {t} \subseteq todo'
        /\ t \in Request
    BY <1>0, <1>5 DEF EnqueueFind
  <2>2. ASSUME NEW v \in User, user[v].status = "disabled", Owed(v) PROVE Owed(v)'
    <3>1. CASE \E d \in RowId : /\ rows[d].user = v /\ rows[d].action = "disable"
                                /\ rows[d].status # "done"
      BY <2>1, <3>1 DEF Owed, RowId
    <3>2. ASSUME NEW x \in todo, x.user = v, x.action = "disable", Pending(x), x # t
          PROVE  Owed(v)'
      BY <2>1, <3>2 DEF Owed
    <3>3. CASE t.user = v /\ t.action = "disable"
      <4>1. PICK i \in (IF Coalesced(v, "disable") = {} THEN {NoRow}
                        ELSE Coalesced(v, "disable")) :
              todo' = (todo \ {t}) \cup {[t EXCEPT !.at = "write", !.row = i,
                                                   !.seen = user[t.user].sync]}
        BY <1>5, <2>2, <3>3 DEF EnqueueFind, Exists
      <4>2. CASE i = NoRow
        <5> DEFINE n == [t EXCEPT !.at = "write", !.row = i, !.seen = user[t.user].sync]
        <5>1. n \in todo' /\ n.user = v /\ n.action = "disable" /\ n.row = NoRow
          BY <2>1, <3>3, <4>1, <4>2 DEF Request
        <5> HIDE DEF n
        <5> QED
          BY <5>1 DEF Owed, Pending
      <4>3. CASE i # NoRow
        <5>1. i \in RowId /\ rows[i].user = v /\ rows[i].action = "disable" /\ rows[i].status # "done"
          BY <4>1, <4>3 DEF Coalesced, Live
        <5> QED
          BY <2>1, <5>1 DEF Owed, RowId
      <4> QED
        BY <4>2, <4>3
    <3> QED
      BY <2>2, <3>1, <3>2, <3>3 DEF Owed
  <2> QED
    BY <1>0, <2>1, <2>2, ServeSame
<1>6. ASSUME NEW t \in todo, EnqueueWrite(t) PROVE ServeInv'
  <2>0. t \in Request /\ t.user \in User /\ t.action \in Actions /\ t.at = "write"
    BY <1>0, <1>6 DEF EnqueueWrite, Request
  <2>1. UNCHANGED <<worker, core, coreState>> /\ todo' = todo \ {t}
    BY <1>6 DEF EnqueueWrite
  <2>2. /\ nrows' \in nrows..MaxRows
        /\ \A i \in RowId : /\ rows'[i].user = rows[i].user
                            /\ rows'[i].action = rows[i].action
                            /\ rows'[i].status = rows[i].status
        /\ \A i \in 1..nrows' \ RowId : rows'[i] = NewRow(t.user, t.action)
    BY <1>0, <1>6, EnqueueRows
  <2>3. RowId \subseteq RowId' /\ nrows' \in Nat
    BY <1>0, <2>2, OutboxAssumption DEF RowId
  <2>4. \A v \in User : user'[v].status = user[v].status
    BY <1>0, <1>6, EnqueueUsers
  <2>5. ASSUME NEW v \in User, user[v].status = "disabled", Owed(v) PROVE Owed(v)'
    <3>1. CASE \E d \in RowId : /\ rows[d].user = v /\ rows[d].action = "disable"
                                /\ rows[d].status # "done"
      BY <2>2, <2>3, <3>1 DEF Owed
    <3>2. ASSUME NEW x \in todo, x.user = v, x.action = "disable", Pending(x), x # t
          PROVE  Owed(v)'
      BY <2>1, <3>2 DEF Owed
    <3>3. CASE t.user = v /\ t.action = "disable" /\ t.row = NoRow
      <4>1. CASE Coalesced(t.user, t.action) # {}
        <5>1. PICK i \in RowId : rows[i].user = v /\ rows[i].action = "disable" /\ Live(i)
          BY <3>3, <4>1 DEF Coalesced
        <5> QED
          BY <3>1, <5>1 DEF Live
      <4>2. CASE Coalesced(t.user, t.action) = {}
        <5>1. nrows' = nrows + 1
          BY <1>6, <2>5, <3>3, <4>2 DEF EnqueueWrite, InsertClash, Exists
        <5>2. nrows' \in RowId' /\ nrows' \in 1..nrows' \ RowId
          BY <1>0, <5>1 DEF RowId
        <5>3. rows'[nrows'] = NewRow(t.user, t.action)
          BY <2>2, <5>2
        <5> QED
          BY <3>3, <5>2, <5>3 DEF NewRow, Owed
      <4> QED
        BY <4>1, <4>2
    <3> QED
      BY <2>0, <2>5, <3>1, <3>2, <3>3 DEF Owed, Pending
  <2> QED
    BY <1>0, <2>1, <2>2, <2>4, <2>5, ServeSame
<1>7. ASSUME ApiCrash PROVE ServeInv'
  BY <1>0, <1>7 DEF ApiCrash, TypeOK
<1>8. ASSUME NEW u \in User, PurgeUser(u) PROVE ServeInv'
  <2>1. /\ UNCHANGED <<rows, nrows, worker, core, coreState, todo>>
        /\ \A v \in User : user'[v].status = "disabled" => user[v].status = "disabled"
    BY <1>0, <1>8 DEF PurgeUser
  <2> QED
    BY <1>0, <1>1, <2>1, ServeSame
<1> QED
  BY <1>2, <1>3, <1>4, <1>5, <1>6, <1>7, <1>8 DEF Api

(* The drain keeps it: a claim changes no outcome, and what the worker is
   about to install it has just read as active. *)
LEMMA ServeClaim ==
  ASSUME QueueInv, ServeInv, Drain \/ \E i \in RowId : TimerElapses(i)
  PROVE  ServeInv'
<1>0. /\ TypeOK /\ WorkerShape /\ nrows \in Nat /\ rows \in [RowId -> Row]
      /\ worker \in Worker
  BY OutboxAssumption DEF QueueInv, TypeOK
<1>1. UNCHANGED <<user, nrows, todo, core, coreState>>
  BY DEF Drain, TimerElapses
<1>2. \A i \in RowId : /\ rows'[i].user = rows[i].user
                       /\ rows'[i].action = rows[i].action
                       /\ rows'[i].status = "done" => rows[i].status = "done"
  <2>1. CASE \E i \in RowId : TimerElapses(i)
    BY <1>0, <2>1 DEF TimerElapses, Row
  <2>2. CASE Drain
    <3> DEFINE rs == Reclaim(rows)
               S  == ClaimSet(rs)
    <3>1. \A i \in RowId : /\ rs[i] \in Row
                           /\ rs[i].user = rows[i].user
                           /\ rs[i].action = rows[i].action
                           /\ rs[i].status = "done" => rows[i].status = "done"
      BY <1>0 DEF Reclaim, Reclaimed, Row, RowStatus
    <3> HIDE DEF rs, S
    <3>2. \A i \in RowId :
            /\ Claimed(rs, S)[i].user = rs[i].user
            /\ Claimed(rs, S)[i].action = rs[i].action
            /\ Claimed(rs, S)[i].status = "done" => rs[i].status = "done"
      BY <3>1 DEF Claimed, Row
    <3>3. rows' = rs \/ rows' = Claimed(rs, S)
      BY <2>2 DEF Drain, rs, S
    <3> QED
      BY <3>1, <3>2, <3>3
  <2> QED
    BY <2>1, <2>2
<1>3. \A u \in User : Owed(u) => Owed(u)'
  BY <1>0, <1>1, <1>2, OwedKept
<1>4. CASE UNCHANGED worker
  BY <1>0, <1>1, <1>2, <1>3, <1>4, ServeSame
<1>5. CASE /\ worker.pc = "idle"
           /\ worker' = [worker EXCEPT !.pc = "batch", !.batch = ClaimSet(Reclaim(rows))]
  <2> DEFINE S == ClaimSet(Reclaim(rows))
  <2>1. worker' = [worker EXCEPT !.pc = "batch", !.batch = S]
    BY <1>5
  <2> HIDE DEF S
  <2>2. worker'.pc = "batch" /\ worker'.ok = worker.ok
    BY <1>0, <2>1 DEF Worker
  <2>3. worker.ok = FALSE
    BY <1>5 DEF ServeInv, ConfirmedRemoval
  <2>4. ConfirmedRemoval'
    BY <2>2, <2>3 DEF ConfirmedRemoval
  <2>5. NotForgotten'
    BY <1>1, <1>3, <2>2 DEF ServeInv, NotForgotten, Installing
  <2> QED
    BY <1>1, <2>4, <2>5 DEF ServeInv
<1> QED
  BY <1>4, <1>5 DEF Drain, TimerElapses, LockFree

(* Reading a row. *)
LEMMA ServeRead ==
  ASSUME QueueInv, ServeInv, NEW i \in RowId, ReadRow(i)
  PROVE  ServeInv'
<1>0. TypeOK /\ worker \in Worker /\ rows[i].user \in User
  BY DEF QueueInv, TypeOK, Row
<1>1. /\ UNCHANGED <<user, rows, nrows, todo, core, coreState>>
      /\ worker.pc = "batch"
  BY DEF ReadRow
<1>2. worker.ok = FALSE
  BY <1>1 DEF ServeInv, ConfirmedRemoval
<1> DEFINE sn == SeenUser(rows[i].user)
           b == worker.batch \ {i}
           w == [worker EXCEPT !.batch = b, !.cur = i, !.seen = sn]
<1>3. /\ \/ worker' = [w EXCEPT !.pc = "push"]
         \/ worker' = [w EXCEPT !.pc = "finish", !.seen = NotSeen]
      /\ sn.status = user[rows[i].user].status
  BY DEF ReadRow, SeenUser
<1>4. w.cur = i /\ w.seen = sn /\ w.ok = worker.ok /\ DOMAIN w = DOMAIN worker
  BY <1>0 DEF Worker
<1>a. DOMAIN worker = {"pc", "batch", "cur", "seen", "ok"}
  BY <1>0 DEF Worker
<1> HIDE DEF w, sn
<1>5. /\ worker'.ok = worker.ok
      /\ \/ worker'.pc = "push" /\ worker'.cur = i /\ worker'.seen = sn
         \/ worker'.pc = "finish"
  BY <1>3, <1>4, <1>a
<1>6. ConfirmedRemoval'
  BY <1>2, <1>5 DEF ConfirmedRemoval
<1>7. \A u \in User : Owed(u) => Owed(u)'
  BY <1>1 DEF Owed, RowId
<1>8. \A u \in User : Installing(u)' => user[u].status = "active"
  BY <1>1, <1>3, <1>5 DEF Installing, CurUser
<1>9. NotForgotten'
  BY <1>1, <1>7, <1>8 DEF ServeInv, NotForgotten
<1> QED
  BY <1>1, <1>6, <1>9 DEF ServeInv

(* Pushing and confirming. *)
LEMMA ServePush ==
  ASSUME QueueInv, ServeInv, Push \/ ConfirmRead \/ Ack
  PROVE  ServeInv'
<1>0. /\ TypeOK /\ worker \in Worker /\ core \in [User -> 0..MaxVer]
      /\ worker.pc \in {"push", "ack", "probe"} /\ coreState = "up"
      /\ UNCHANGED <<user, rows, nrows, todo, coreState>>
  BY DEF QueueInv, TypeOK, Push, ConfirmRead, Ack, ServeInv
<1>1. worker.ok = FALSE
  BY <1>0 DEF ServeInv, ConfirmedRemoval
<1>2. worker.cur \in RowId /\ CurUser \in User
  BY <1>0 DEF QueueInv, WorkerShape, TypeOK, Row, CurUser
<1>3. worker'.cur = worker.cur /\ CurUser' = CurUser /\ CurAction' = CurAction
  <2>1. worker'.cur = worker.cur
    BY <1>0 DEF Push, ConfirmRead, Ack, Worker
  <2> QED
    BY <1>0, <2>1 DEF CurUser, CurAction
<1>4. \A u \in User : Owed(u) => Owed(u)'
  BY <1>0 DEF Owed, RowId
<1>5. Push => worker'.pc \in {"ack", "finish"}
  BY <1>0 DEF Push, Worker
<1>6. Push \/ Ack => \A u \in User : ~Installing(u)'
  <2>1. Ack => worker'.pc = "finish"
    BY <1>0 DEF Ack, Worker
  <2> QED
    BY <1>5, <2>1 DEF Installing
<1>7. CASE Push
  <2>1. worker'.ok = FALSE
    BY <1>0, <1>1, <1>7 DEF Push, Worker
  <2>2. ConfirmedRemoval'
    BY <2>1 DEF ConfirmedRemoval
  <2>3. \/ UNCHANGED core
        \/ \E v \in {core[CurUser], 0, PushTarget} : core' = [core EXCEPT ![CurUser] = v]
    BY <1>7 DEF Push, PushPartial
  <2>4. PushTarget \in {0, core[CurUser]} \/ Installing(CurUser)
    BY <1>7 DEF PushTarget, WantsPresent, WantsAbsent, Installing, Push
  <2>5. \A u \in User : core'[u] # 0 => core[u] # 0 \/ Installing(u)
    BY <1>0, <1>2, <2>3, <2>4
  <2>6. NotForgotten'
    BY <1>0, <1>4, <1>6, <1>7, <2>5 DEF ServeInv, NotForgotten
  <2> QED
    BY <1>0, <2>2, <2>6 DEF ServeInv
<1>8. CASE Ack
  <2>1. /\ \/ worker'.ok = FALSE
           \/ core' = [core EXCEPT ![CurUser] = AckTarget]
    BY <1>0, <1>8 DEF Ack, Worker
  <2>2. CurAction = "disable" => AckTarget = 0
    BY DEF AckTarget
  <2>3. worker'.pc = "finish"
    BY <1>0, <1>8 DEF Ack, Worker
  <2>4. ConfirmedRemoval'
    <3>1. core' = [core EXCEPT ![CurUser] = AckTarget] => core'[CurUser] = AckTarget
      BY <1>0, <1>2
    <3>2. worker'.ok = TRUE /\ CurAction = "disable" => core'[CurUser] = 0
      BY <2>1, <2>2, <3>1
    <3> QED
      BY <1>3, <2>3, <3>2 DEF ConfirmedRemoval
  <2>5. \/ UNCHANGED core
        \/ \E v \in {core[CurUser], AckTarget} : core' = [core EXCEPT ![CurUser] = v]
    BY <1>8 DEF Ack
  <2>6. AckTarget \in {0, core[CurUser]} \/ Installing(CurUser)
    <3>1. CurAction \in Actions
      BY <1>0, <1>2 DEF TypeOK, Row, CurAction
    <3> QED
      BY <1>8, <3>1 DEF AckTarget, Installing, Ack, Actions, PresentActions
  <2>7. \A u \in User : core'[u] # 0 => core[u] # 0 \/ Installing(u)
    BY <1>0, <1>2, <2>5, <2>6
  <2>8. NotForgotten'
    BY <1>0, <1>4, <1>6, <1>8, <2>7 DEF ServeInv, NotForgotten
  <2> QED
    BY <1>0, <2>4, <2>8 DEF ServeInv
<1>9. CASE ConfirmRead
  <2>1. /\ UNCHANGED core /\ worker'.ok = FALSE
        /\ worker'.seen \in {SeenUser(CurUser), NotSeen}
    BY <1>0, <1>1, <1>9 DEF ConfirmRead, Worker
  <2>2. ConfirmedRemoval'
    BY <2>1 DEF ConfirmedRemoval
  <2>3. \A u \in User : Installing(u)' => user[u].status = "active"
    BY <1>0, <1>3, <2>1 DEF Installing, SeenUser, NotSeen
  <2>4. NotForgotten'
    BY <1>0, <1>4, <2>1, <2>3 DEF ServeInv, NotForgotten
  <2> QED
    BY <1>0, <2>2, <2>4 DEF ServeInv
<1> QED
  BY <1>7, <1>8, <1>9

(* Recording an outcome: a removal becomes done only when the core no longer
   holds the user. *)
LEMMA ServeFinish ==
  ASSUME QueueInv, ServeInv, Finish
  PROVE  ServeInv'
<1> DEFINE k == worker.cur
           f == FinishedRow(rows[k], worker.ok)
<1>0. /\ TypeOK /\ worker \in Worker /\ rows \in [RowId -> Row] /\ nrows \in Nat
      /\ user \in [User -> UserRecord]
      /\ worker.pc = "finish" /\ UNCHANGED <<nrows, todo, core, coreState>>
  BY OutboxAssumption DEF QueueInv, TypeOK, Finish
<1>1. k \in RowId /\ rows[k] \in Row
  BY <1>0 DEF QueueInv, WorkerShape
<1>2. f.user = rows[k].user /\ f.action = rows[k].action
  BY <1>1 DEF FinishedRow, Row
<1>3. worker.ok = FALSE => f.status # "done"
  <2>1. worker.ok = FALSE => Outcome(rows[k], worker.ok) # "done"
    BY DEF Outcome
  <2>2. f.status = Outcome(rows[k], worker.ok)
    BY <1>1 DEF FinishedRow, Row
  <2> QED
    BY <2>1, <2>2
<1> HIDE DEF f
<1>4. rows' = [rows EXCEPT ![k] = f]
  BY DEF Finish, f
<1>5. \A i \in RowId : /\ rows'[i].user = rows[i].user
                       /\ rows'[i].action = rows[i].action
                       /\ i # k => rows'[i].status = rows[i].status
                       /\ i = k => rows'[i].status = f.status
  BY <1>0, <1>1, <1>2, <1>4
<1>6. worker'.pc \in {"idle", "batch"} /\ worker'.ok = FALSE
  BY DEF Finish, AfterRow, IdleWorker
<1>7. \A v \in User : user'[v].status = user[v].status
  BY <1>0 DEF Finish, SetUserSync, UserRecord
<1>8. worker.ok \in BOOLEAN
  BY <1>0 DEF Worker
<1>9. ASSUME NEW u \in User, user[u].status = "disabled", core[u] # 0, Owed(u)
      PROVE  Owed(u)'
  <2>1. CASE \E t \in todo : t.user = u /\ t.action = "disable" /\ Pending(t)
    BY <1>0, <2>1 DEF Owed
  <2>2. CASE \E d \in RowId : /\ rows[d].user = u /\ rows[d].action = "disable"
                              /\ rows[d].status # "done"
    <3>1. PICK d \in RowId : /\ rows[d].user = u /\ rows[d].action = "disable"
                             /\ rows[d].status # "done"
      BY <2>2
    <3>2. rows'[d].status # "done"
      <4>1. CASE d # k
        BY <1>5, <3>1, <4>1
      <4>2. CASE d = k
        <5>1. CurUser = u /\ CurAction = "disable"
          BY <3>1, <4>2 DEF CurUser, CurAction
        <5>2. worker.ok # TRUE
          BY <1>0, <1>9, <5>1 DEF ServeInv, ConfirmedRemoval
        <5>3. worker.ok = FALSE
          BY <1>8, <5>2
        <5> QED
          BY <1>3, <1>5, <4>2, <5>3
      <4> QED
        BY <4>1, <4>2
    <3> QED
      BY <1>0, <1>5, <3>1, <3>2 DEF Owed, RowId
  <2> QED
    BY <1>9, <2>1, <2>2 DEF Owed
<1>10. ConfirmedRemoval'
  BY <1>6 DEF ConfirmedRemoval
<1>11. NotForgotten'
  BY <1>0, <1>6, <1>7, <1>9 DEF ServeInv, NotForgotten, Installing
<1> QED
  BY <1>0, <1>10, <1>11 DEF ServeInv

(* Every step keeps it. *)
LEMMA ServeStep ==
  ASSUME MaxCrash = 0, QueueInv, ServeInv, [Next]_vars
  PROVE  ServeInv'
<1>0. /\ TypeOK /\ coreState = "up"
      /\ crashes \in 0..0
  BY DEF QueueInv, ServeInv, TypeOK
<1>1. ~CoreStop /\ ~WorkerCrash
  BY <1>0 DEF CoreStop, WorkerCrash
<1>2. ~CoreBoot /\ ~CoreUp
  BY <1>0 DEF CoreBoot, CoreUp
<1>3. CASE UNCHANGED vars
  BY <1>3 DEF vars, ServeInv, ConfirmedRemoval, NotForgotten, Installing, Owed,
     CurUser, CurAction, RowId
<1> QED
  BY <1>1, <1>2, <1>3, ServeApi, ServeClaim, ServeRead, ServePush, ServeFinish
     DEF Next, Drainer

(* Disabling wins for any number of users, rows, requests and lost RPCs, as
   long as no process dies and the core stays up. *)
THEOREM DisableWins ==
  ASSUME MaxCrash = 0
  PROVE  Spec => []DisabledNotServed
<1>1. Init => ServeInv
  <2> SUFFICES ASSUME Init PROVE ServeInv
    OBVIOUS
  <2>1. worker.pc = "idle" /\ worker.ok = FALSE
    BY DEF Init, IdleWorker
  <2> QED
    BY <2>1 DEF Init, ServeInv, ConfirmedRemoval, NotForgotten, Installing
<1>2. QueueInv /\ ServeInv /\ [Next]_vars => ServeInv'
  BY ServeStep
<1>3. ServeInv => DisabledNotServed
  BY DEF ServeInv, NotForgotten, Owed, DisabledNotServed, Quiet
<1> QED
  BY <1>1, <1>2, <1>3, QueueInvariant, PTL DEF Spec
=============================================================================
