---------------------------- MODULE WgSyncProofs ----------------------------
(***************************************************************************)
(* The stored WireGuard cursor tells the truth (module WgSync), for any    *)
(* number of users, batch size, changes and faults.                        *)
(*                                                                         *)
(* The cursor is written by a worker from a snapshot it took earlier, and  *)
(* overwritten by sessions that loaded the row earlier still, so the       *)
(* inductive invariant follows what every open session may write, what the *)
(* cache and the worker's snapshot show and what is behind its cursor.     *)
(***************************************************************************)
EXTENDS WgSync, FiniteSetTheorems, WellFoundedInduction, TLAPS

RowStatus == {"pending", "running", "paused", "converged"}
CursorRecord == [status : RowStatus, cursor : 0..MaxUser, gen : BOOLEAN, last : Nat]
WorkerRecord ==
  [pc : {"idle", "begin", "mark", "client", "drain", "snap", "apply", "save", "end"},
   cursor : 0..MaxUser, last : Nat, snap : [Users -> Status]]
NodeRecord == [iface : BOOLEAN, peers : SUBSET Users, state : BOOLEAN]
CacheRecord == [ok : BOOLEAN, peers : [Users -> Status]]
LeftRecord == [change : 0..MaxChange, fault : 0..MaxFault]

Shape ==
  /\ user \in [Users -> Status] /\ timer \in BOOLEAN /\ listed \in BOOLEAN
  /\ hints \in Nat /\ cache \in CacheRecord /\ row \in CursorRecord
  /\ sched \in {"idle", "get", "commit"}
  /\ worker \in WorkerRecord /\ node \in NodeRecord
  /\ left \in LeftRecord /\ hole \in SUBSET Users

\* A hint row is written for changes that have been made; watermarks are behind it.
Watermarks ==
  /\ hints + left.change + (IF timer THEN 1 ELSE 0) + (IF sched = "idle" THEN 0 ELSE 1) <= MaxChange
  /\ row.last <= hints /\ worker.last <= hints

\* What a session that is still open may write.
Columns(e) ==
  /\ "status" \in DOMAIN e => e["status"] \in RowStatus
  /\ "cursor" \in DOMAIN e => e["cursor"] \in 0..MaxUser
  /\ "gen" \in DOMAIN e => e["gen"] \in BOOLEAN
  /\ "last" \in DOMAIN e => e["last"] \in 0..hints
\* The schedule and on_node_connected only rewind; the worker writes its own cursor.
Others == {"schedule", "connect"}
OpenSessions ==
  /\ DOMAIN open = Sessions
  /\ \A s \in Sessions : \A e \in open[s] : Columns(e)
  /\ \A s \in Others : \A e \in open[s] : "cursor" \in DOMAIN e => e["cursor"] = 0
  /\ \A e \in open["worker"] :
       /\ worker.pc \in {"mark", "save", "end"}
       /\ "cursor" \in DOMAIN e => worker.pc # "mark" /\ e["cursor"] = worker.cursor

\* The worker's cursor is not behind the stored one.
Coupled ==
  /\ Streaming => row.cursor <= worker.cursor
  /\ node.peers # {} => node.iface

\* Nobody knows of a user that was not created yet.
Unborn ==
  \A u \in Users : user[u] = "new" =>
    u \notin node.peers /\ worker.snap[u] = "new" /\ cache.peers[u] = "new"

\* With no schedule due, a loaded cache shows the users table, and with none under way
\* so does the snapshot of a worker that is sending, up to the users left behind.
Quiet == ~timer /\ sched = "idle"
CacheTrue == ~timer /\ cache.ok => \A u \in Users \ hole : cache.peers[u] = user[u]
Sending == worker.pc \in {"apply", "save"}
SnapTrue == Sending /\ Quiet => \A u \in Users \ hole : worker.snap[u] = user[u]

\* CursorMeansApplied, of the worker's own cursor.
WorkerMeansApplied ==
  Streaming /\ Quiet => \A u \in (1..worker.cursor) \ (hole \cup Deleted) : Match(u)

Typed == Shape /\ Watermarks /\ OpenSessions /\ Coupled
Truth == Unborn /\ CacheTrue /\ SnapTrue /\ WorkerMeansApplied /\ CursorMeansApplied
SyncInv == Typed /\ Truth

------------------------------------------------------------------------------
(* The batch and its cursor. *)

(* The assumptions on the constants, as the proofs use them. *)
LEMMA Constants ==
  /\ MaxUser \in Nat /\ FirstUsers \in Nat /\ Batch \in Nat /\ Batch > 0
  /\ MaxChange \in Nat /\ MaxFault \in Nat
BY WgConstants

(* A set of user ids that is not empty has a greatest member. *)
LEMMA Greatest ==
  ASSUME NEW S \in SUBSET Users, S # {}
  PROVE  \E u \in S : \A v \in S : v <= u
<1> DEFINE T == {MaxUser - u : u \in S}
           R == OpToRel(<, Nat)
<1>1. T \subseteq Nat /\ T # {}
  BY Constants DEF Users
<1>2. IsWellFoundedOn(R, Nat)
  BY NatLessThanWellFounded
<1>3. PICK x \in T : \A y \in T : ~(<<y, x>> \in R)
  <2> HIDE DEF T, R
  <2> QED
    BY <1>1, <1>2, WFMin
<1>4. \A y \in T : ~(y < x)
  BY <1>1, <1>3 DEF OpToRel
<1>5. PICK u \in S : x = MaxUser - u
  OBVIOUS
<1>6. ASSUME NEW v \in S PROVE v <= u
  <2>1. ~(MaxUser - v < MaxUser - u)
    BY <1>4, <1>5
  <2> QED
    BY <2>1, Constants DEF Users
<1> QED
  BY <1>5, <1>6

(* The next cursor is the last of the batch, and the batch leaves out no peer of the
   snapshot on its way there. *)
LEMMA BatchCursor ==
  ASSUME Shape, NextBatch # {}
  PROVE  /\ NextCursor \in Users /\ NextCursor > worker.cursor
         /\ \A u \in Users : worker.cursor < u /\ u <= NextCursor /\ worker.snap[u] \in {"active", "off"}
                               => u \in NextBatch
<1>1. NextBatch \in SUBSET Users /\ Ahead \in SUBSET Users
  BY DEF NextBatch, Ahead
<1>2. NextCursor \in NextBatch /\ \A v \in NextBatch : v <= NextCursor
  BY <1>1, Greatest DEF NextCursor
<1>3. ASSUME NEW u \in Users, worker.cursor < u, u <= NextCursor, worker.snap[u] \in {"active", "off"}
      PROVE  u \in NextBatch
  <2> DEFINE below(x) == {v \in Ahead : v < x}
  <2>1. u \in Ahead
    BY <1>3 DEF Ahead
  <2>2. below(u) \in SUBSET below(NextCursor)
    <3> SUFFICES ASSUME NEW v \in Ahead, v < u PROVE v < NextCursor
      OBVIOUS
    <3>1. v \in Int /\ u \in Int /\ NextCursor \in Int
      BY <1>1, <1>2 DEF Users
    <3> QED
      BY <1>3, <3>1
  <2>3. below(NextCursor) \in SUBSET Users
    BY <1>1
  <2>4. IsFiniteSet(Users)
    BY FS_Interval, Constants DEF Users
  <2>5. IsFiniteSet(below(NextCursor)) /\ IsFiniteSet(below(u))
    <3> HIDE DEF below
    <3> QED
      BY <2>2, <2>3, <2>4, FS_Subset
  <2>6. Cardinality(below(u)) <= Cardinality(below(NextCursor))
    <3> HIDE DEF below
    <3> QED
      BY <2>2, <2>5, FS_Subset
  <2>7. Cardinality(below(u)) \in Nat /\ Cardinality(below(NextCursor)) \in Nat
    BY <2>5, FS_CardinalityType
  <2>8. Cardinality(below(NextCursor)) < Batch
    BY <1>2 DEF NextBatch
  <2>9. Cardinality(below(u)) < Batch
    <3> HIDE DEF below
    <3> QED
      BY <2>6, <2>7, <2>8, Constants
  <2> QED
    BY <2>1, <2>9 DEF NextBatch
<1>4. NextCursor > worker.cursor
  BY <1>1, <1>2 DEF NextBatch, Ahead
<1> QED
  BY <1>1, <1>2, <1>3, <1>4

------------------------------------------------------------------------------
(* The sessions: what they load, and what their commits leave of the row. *)

(* An edit holds the columns that were changed, with their new values. *)
LEMMA EditColumns ==
  ASSUME row \in CursorRecord, NEW new \in CursorRecord, new.last \in 0..hints
  PROVE  /\ Columns(Edit(new))
         /\ "cursor" \in DOMAIN Edit(new) => Edit(new)["cursor"] = new.cursor /\ new.cursor # row.cursor
<1> DEFINE D == {d \in DOMAIN row : new[d] # row[d]}
<1>1. Edit(new) = [c \in D |-> new[c]]
  BY DEF Edit
<1>2. DOMAIN Edit(new) = D /\ \A c \in D : Edit(new)[c] = new[c]
  BY <1>1
<1>3. /\ new["status"] \in RowStatus /\ new["cursor"] \in 0..MaxUser /\ new["gen"] \in BOOLEAN
      /\ new["last"] \in 0..hints /\ new["cursor"] = new.cursor /\ row["cursor"] = row.cursor
  BY DEF CursorRecord
<1> QED
  BY <1>2, <1>3 DEF Columns

(* A commit keeps the columns its session did not change. *)
LEMMA MergedRow ==
  ASSUME row \in CursorRecord, hints \in Nat, row.last <= hints, NEW e, Columns(e)
  PROVE  /\ Merged(e) \in CursorRecord /\ Merged(e).last <= hints
         /\ Merged(e).cursor = IF "cursor" \in DOMAIN e THEN e["cursor"] ELSE row.cursor
<1> DEFINE m(c) == IF c \in DOMAIN e THEN e[c] ELSE row[c]
<1>1. DOMAIN row = {"status", "cursor", "gen", "last"}
  BY DEF CursorRecord
<1>2. /\ row["status"] \in RowStatus /\ row["cursor"] \in 0..MaxUser /\ row["gen"] \in BOOLEAN
      /\ row["last"] \in Nat /\ row["last"] <= hints /\ row["cursor"] = row.cursor
  BY DEF CursorRecord
<1>3. /\ m("status") \in RowStatus /\ m("cursor") \in 0..MaxUser /\ m("gen") \in BOOLEAN
      /\ m("last") \in Nat /\ m("last") <= hints
  <2>1. m("status") \in RowStatus
    BY <1>2 DEF Columns
  <2>2. m("cursor") \in 0..MaxUser
    BY <1>2 DEF Columns
  <2>3. m("gen") \in BOOLEAN
    BY <1>2 DEF Columns
  <2>4. m("last") \in Nat /\ m("last") <= hints
    BY <1>2 DEF Columns
  <2> QED
    BY <2>1, <2>2, <2>3, <2>4
<1>4. Merged(e) = [status |-> m("status"), cursor |-> m("cursor"), gen |-> m("gen"), last |-> m("last")]
  <2>1. Merged(e) = [c \in {"status", "cursor", "gen", "last"} |-> m(c)]
    BY <1>1 DEF Merged
  <2> HIDE DEF m
  <2> QED
    BY <2>1
<1> HIDE DEF m
<1>5. Merged(e) \in CursorRecord /\ Merged(e).last <= hints /\ Merged(e).cursor = m("cursor")
  BY <1>3, <1>4 DEF CursorRecord
<1> QED
  BY <1>2, <1>5 DEF m

(* A session that loads the row and will write columns of `new`. *)
LEMMA SessionOpened ==
  ASSUME Typed, NEW s \in Sessions, NEW new \in CursorRecord, Opens(s, new), new.last <= hints, hints' = hints,
         s \in Others => /\ new.cursor \in {0, row.cursor}
                         /\ worker'.pc = worker.pc /\ worker'.cursor = worker.cursor,
         s = "worker" => /\ worker'.pc \in {"mark", "save", "end"}
                         /\ new.cursor = row.cursor \/ (worker'.pc # "mark" /\ new.cursor = worker'.cursor)
  PROVE  OpenSessions'
<1>1. open' = [open EXCEPT ![s] = {Edit(new)}] /\ DOMAIN open = Sessions
  BY DEF Opens, Typed, OpenSessions
<1>2. /\ DOMAIN open' = Sessions /\ open'[s] = {Edit(new)}
      /\ \A t \in Sessions \ {s} : open'[t] = open[t]
  BY <1>1
<1>3. new.last \in 0..hints /\ row \in CursorRecord
  BY DEF Typed, Shape, CursorRecord
<1>4. /\ Columns(Edit(new))
      /\ "cursor" \in DOMAIN Edit(new) => Edit(new)["cursor"] = new.cursor /\ new.cursor # row.cursor
  BY <1>3, EditColumns
<1>5. \A e : Columns(e)' <=> Columns(e)
  BY DEF Columns
<1>6. \A t \in Sessions : \A e \in open'[t] : Columns(e)'
  BY <1>2, <1>4, <1>5 DEF Typed, OpenSessions
<1>7. \A t \in Others : \A e \in open'[t] : "cursor" \in DOMAIN e => e["cursor"] = 0
  BY <1>2, <1>4 DEF Typed, OpenSessions, Others, Sessions
<1>8. \A e \in open'["worker"] :
         /\ worker'.pc \in {"mark", "save", "end"}
         /\ "cursor" \in DOMAIN e => worker'.pc # "mark" /\ e["cursor"] = worker'.cursor
  <2>1. CASE s = "worker"
    BY <1>2, <1>4, <2>1 DEF Others
  <2>2. CASE s # "worker"
    BY <1>2, <2>2 DEF Typed, OpenSessions, Others, Sessions
  <2> QED
    BY <2>1, <2>2
<1> QED
  BY <1>2, <1>6, <1>7, <1>8 DEF OpenSessions

(* A session that commits: the cursor it leaves is the old one, zero, or the worker's. *)
LEMMA SessionCommitted ==
  ASSUME Typed, NEW s \in Sessions, NEW e \in open[s], Commits(s, e), hints' \in Nat, hints <= hints',
         s # "worker" => worker' = worker
  PROVE  /\ OpenSessions' /\ row' \in CursorRecord /\ row'.last <= hints
         /\ \/ row'.cursor = row.cursor
            \/ s \in Others /\ row'.cursor = 0
            \/ s = "worker" /\ worker.pc # "mark" /\ row'.cursor = worker.cursor
<1>1. open' = [open EXCEPT ![s] = {}] /\ row' = Merged(e) /\ DOMAIN open = Sessions
  BY DEF Commits, Typed, OpenSessions
<1>2. /\ DOMAIN open' = Sessions /\ open'[s] = {}
      /\ \A t \in Sessions : open'[t] \subseteq open[t]
  BY <1>1
<1>3. \A x : Columns(x) => Columns(x)'
  BY DEF Columns, Typed, Shape
<1>4. Columns(e) /\ row \in CursorRecord /\ hints \in Nat /\ row.last <= hints
  BY DEF Typed, OpenSessions, Shape, Watermarks
<1>5. /\ row' \in CursorRecord /\ row'.last <= hints
      /\ row'.cursor = IF "cursor" \in DOMAIN e THEN e["cursor"] ELSE row.cursor
  BY <1>1, <1>4, MergedRow
<1>6. OpenSessions'
  <2>1. \A t \in Sessions : \A x \in open'[t] : Columns(x)'
    BY <1>2, <1>3 DEF Typed, OpenSessions
  <2>2. \A t \in Others : \A x \in open'[t] : "cursor" \in DOMAIN x => x["cursor"] = 0
    BY <1>2 DEF Typed, OpenSessions, Others, Sessions
  <2>3. \A x \in open'["worker"] :
           /\ worker'.pc \in {"mark", "save", "end"}
           /\ "cursor" \in DOMAIN x => worker'.pc # "mark" /\ x["cursor"] = worker'.cursor
    BY <1>2 DEF Typed, OpenSessions, Sessions
  <2> QED
    BY <1>2, <2>1, <2>2, <2>3 DEF OpenSessions
<1> QED
  BY <1>5, <1>6 DEF Typed, OpenSessions, Others, Sessions

(* No session opens or commits. *)
LEMMA SessionsRest ==
  ASSUME Typed, UNCHANGED <<open, hints>>,
         worker.pc \notin {"mark", "save", "end"} \/ (worker'.pc = worker.pc /\ worker'.cursor = worker.cursor)
  PROVE  OpenSessions'
<1>1. \A e : Columns(e)' <=> Columns(e)
  BY DEF Columns
<1> QED
  BY <1>1 DEF Typed, OpenSessions

------------------------------------------------------------------------------
(* The inductive invariant: initially, and across the steps. *)

(* An idle worker is well typed and knows no user; so does one that is ending. *)
LEMMA IdleWorker ==
  /\ Idle \in WorkerRecord /\ Idle.pc = "idle" /\ Idle.last = 0 /\ \A u \in Users : Idle.snap[u] = "new"
  /\ Unloaded \in [Users -> Status] /\ \A u \in Users : Unloaded[u] = "new"
<1>1. Unloaded \in [Users -> Status] /\ \A u \in Users : Unloaded[u] = "new"
  BY DEF Unloaded, Status
<1> QED
  BY <1>1, Constants DEF Idle, Worker, WorkerRecord
LEMMA EndingWorker ==
  ASSUME worker \in WorkerRecord
  PROVE  /\ Ending \in WorkerRecord /\ Ending.pc = "end" /\ Ending.last = 0 /\ Ending.cursor = worker.cursor
         /\ \A u \in Users : Ending.snap[u] = "new"
BY IdleWorker, Constants DEF Ending, Worker, WorkerRecord

(* The invariant holds before the first sync. *)
LEMMA InitSync == Init => SyncInv
<1> SUFFICES ASSUME Init PROVE SyncInv
  OBVIOUS
<1>1. /\ user \in [Users -> Status] /\ timer \in BOOLEAN /\ listed \in BOOLEAN /\ hints \in Nat
      /\ hole \in SUBSET Users /\ sched \in {"idle", "get", "commit"}
  BY DEF Init, Status
<1>2. cache \in CacheRecord /\ \A u \in Users : cache.peers[u] = "new"
  BY DEF Init, CacheRecord, Unloaded, Status
<1>3. row \in CursorRecord /\ row.last = 0 /\ row.cursor = 0
  BY Constants DEF Init, Cursor, CursorRecord, RowStatus
<1>4. node \in NodeRecord /\ node.peers = {}
  BY DEF Init, Node, NodeRecord
<1>5. left \in LeftRecord /\ left.change = MaxChange
  BY Constants DEF Init, LeftRecord
<1>6. worker = Idle
  BY DEF Init
<1>7. Shape
  BY <1>1, <1>2, <1>3, <1>4, <1>5, <1>6, IdleWorker DEF Shape
<1>8. Watermarks
  <2>1. timer = FALSE /\ sched = "idle" /\ hints = 0 /\ worker.last = 0
    BY <1>6, IdleWorker DEF Init
  <2> QED
    BY <1>3, <1>5, <2>1, Constants DEF Watermarks
<1>9. OpenSessions
  <2>1. DOMAIN open = Sessions /\ \A s \in Sessions : open[s] = {}
    BY DEF Init
  <2> QED
    BY <2>1 DEF OpenSessions, Others, Sessions
<1>10. Coupled
  BY <1>4, <1>6, IdleWorker DEF Coupled, Streaming
<1>11. Unborn
  BY <1>2, <1>4, <1>6, IdleWorker DEF Unborn
<1>12. CacheTrue /\ SnapTrue /\ WorkerMeansApplied
  <2>1. CacheTrue
    BY DEF Init, CacheTrue
  <2>2. worker.pc = "idle"
    BY <1>6, IdleWorker
  <2> QED
    BY <2>1, <2>2 DEF SnapTrue, Sending, WorkerMeansApplied, Streaming
<1>13. CursorMeansApplied
  BY <1>3 DEF CursorMeansApplied
<1> QED
  BY <1>7, <1>8, <1>9, <1>10, <1>11, <1>12, <1>13 DEF SyncInv, Typed, Truth

(* A bound is used up. *)
LEMMA FaultLeft ==
  ASSUME Shape, Fault \/ UNCHANGED left
  PROVE  left' \in LeftRecord /\ left'.change = left.change
BY Constants DEF Fault, Shape, LeftRecord

(* Watermarks of a step that neither schedules nor changes a user. *)
LEMMA WatermarksKept ==
  ASSUME Typed, UNCHANGED <<timer, hints>>, sched' = sched \/ (sched # "idle" /\ sched' # "idle"),
         left'.change = left.change, row'.last <= hints, worker'.last <= hints
  PROVE  Watermarks'
BY DEF Typed, Watermarks

(* A step that leaves users, cache and node alone: the cursors it writes are ones that
   told the truth before. *)
LEMMA TruthKept ==
  ASSUME SyncInv, Typed', UNCHANGED <<user, timer, cache, node, hole>>,
         sched' = sched \/ (sched # "idle" /\ sched' # "idle"),
         Sending' => Sending /\ worker'.snap = worker.snap,
         \A u \in Users : worker'.snap[u] = worker.snap[u] \/ worker'.snap[u] = "new",
         Streaming' => worker'.cursor = row.cursor \/ (Streaming /\ worker'.cursor = worker.cursor),
         row'.cursor <= row.cursor \/ (Streaming /\ row'.cursor <= worker.cursor)
  PROVE  Truth'
<1> USE DEF SyncInv, Truth
<1>1. Quiet' => Quiet
  BY DEF Quiet
<1>2. Unborn' /\ CacheTrue'
  BY DEF Unborn, CacheTrue
<1>3. SnapTrue'
  BY <1>1 DEF SnapTrue
<1>4. WorkerMeansApplied'
  BY <1>1 DEF WorkerMeansApplied, CursorMeansApplied, Quiet, Match, Deleted
<1>5. CursorMeansApplied'
  <2>1. row.cursor \in Int /\ row'.cursor \in Int /\ worker.cursor \in Int
    BY DEF Typed, Shape, CursorRecord, WorkerRecord
  <2>2. CASE row'.cursor <= row.cursor
    <3>1. 1..row'.cursor \subseteq 1..row.cursor
      BY <2>1, <2>2
    <3> QED
      BY <1>1, <3>1 DEF CursorMeansApplied, Quiet, Match, Deleted
  <2>3. CASE Streaming /\ row'.cursor <= worker.cursor
    <3>1. 1..row'.cursor \subseteq 1..worker.cursor
      BY <2>1, <2>3
    <3> QED
      BY <1>1, <2>3, <3>1 DEF CursorMeansApplied, WorkerMeansApplied, Quiet, Match, Deleted
  <2> QED
    BY <2>2, <2>3
<1> QED
  BY <1>2, <1>3, <1>4, <1>5

(* The types of a step of the row's sessions or of the worker that leaves the rest alone. *)
LEMMA TypedKept ==
  ASSUME Typed, UNCHANGED <<user, timer, hints, cache, node, hole>>, listed' \in BOOLEAN,
         sched' = sched \/ (sched # "idle" /\ sched' \in {"get", "commit"}), Fault \/ UNCHANGED left,
         row' \in CursorRecord, row'.last <= hints, worker' \in WorkerRecord, worker'.last <= hints,
         OpenSessions', Streaming' => row'.cursor <= worker'.cursor
  PROVE  Typed'
<1>1. left' \in LeftRecord /\ left'.change = left.change
  BY FaultLeft DEF Typed
<1>2. Shape'
  BY <1>1 DEF Typed, Shape
<1>3. Watermarks'
  BY <1>1, WatermarksKept
<1>4. Coupled'
  BY DEF Typed, Coupled
<1> QED
  BY <1>2, <1>3, <1>4 DEF Typed

------------------------------------------------------------------------------
(* The users table, the schedule and on_node_connected. *)

(* A user changes: what follows is the due schedule's business, or nobody's. *)
LEMMA ChangeKeeps ==
  ASSUME SyncInv, NEW u \in Users, NEW s \in Status, Change(u, s)
  PROVE  SyncInv'
<1> USE DEF SyncInv, Typed, Truth
<1>1. /\ UNCHANGED <<hints, cache, row, open, sched, listed, worker, node>> /\ timer' \in {timer, TRUE}
      /\ user' = [user EXCEPT ![u] = s]
      /\ hole' = IF timer' THEN hole ELSE hole \cup {u}
  BY DEF Change
<1>2. left' \in LeftRecord /\ left'.change = left.change - 1
  BY Constants DEF Change, Shape, LeftRecord
<1>3. /\ hole' \in SUBSET Users /\ hole \subseteq hole' /\ timer' \in BOOLEAN /\ (~timer' => ~timer /\ u \in hole')
  BY <1>1 DEF Shape
<1>4. Shape'
  BY <1>1, <1>2, <1>3 DEF Change, Shape
<1>5. left.change \in Int /\ hints \in Int
  BY DEF Shape, LeftRecord
<1>6. Watermarks'
  BY <1>1, <1>2, <1>5, Constants DEF Change, Watermarks
<1>7. Coupled'
  BY <1>1 DEF Coupled, Streaming
<1>8. OpenSessions'
  BY <1>1, SessionsRest
<1>9. \A v \in Users : (user'[v] = "new" => user[v] = "new") /\ (v # u => user'[v] = user[v])
  BY <1>1 DEF Change, Shape
<1>10. Unborn'
  BY <1>1, <1>9 DEF Unborn
<1>11. CacheTrue' /\ SnapTrue'
  BY <1>1, <1>3, <1>9 DEF CacheTrue, SnapTrue, Sending, Quiet
<1>12. 1..row.cursor \subseteq Users /\ 1..worker.cursor \subseteq Users
  BY Constants DEF Users, Shape, CursorRecord, WorkerRecord
<1>13. ASSUME Quiet', NEW v \in Users, v \notin hole', v \notin Deleted'
       PROVE  Quiet /\ v \notin hole /\ v \notin Deleted /\ (Match(v)' <=> Match(v))
  BY <1>1, <1>3, <1>9, <1>13 DEF Quiet, Deleted, Match
<1>14. WorkerMeansApplied'
  BY <1>1, <1>12, <1>13 DEF WorkerMeansApplied, Streaming
<1>15. CursorMeansApplied'
  BY <1>1, <1>12, <1>13 DEF CursorMeansApplied, Quiet
<1> QED
  BY <1>4, <1>6, <1>7, <1>8, <1>10, <1>11, <1>14, <1>15

(* schedule_resumable_sync reloads the cache, ... *)
LEMMA ScheduleKeeps ==
  ASSUME SyncInv, Schedule
  PROVE  SyncInv'
<1> USE DEF SyncInv, Typed, Truth
<1>1. /\ UNCHANGED <<user, hints, row, open, listed, worker, node, left, hole>> /\ timer /\ timer' = FALSE
      /\ sched = "idle" /\ sched' = "get" /\ cache' = [ok |-> TRUE, peers |-> user]
  BY DEF Schedule
<1>2. cache' \in CacheRecord /\ cache'.peers = user
  BY <1>1 DEF CacheRecord, Shape
<1>3. Shape'
  <2>1. timer' \in BOOLEAN /\ sched' \in {"idle", "get", "commit"}
    BY <1>1
  <2> QED
    BY <1>1, <1>2, <2>1 DEF Shape
<1>4. Watermarks'
  <2>1. left.change \in Int /\ hints \in Int
    BY DEF Shape, LeftRecord
  <2> QED
    BY <1>1, <2>1, Constants DEF Watermarks
<1>5. Coupled' /\ OpenSessions'
  BY <1>1, SessionsRest DEF Coupled, Streaming
<1>6. Unborn' /\ CacheTrue'
  BY <1>1, <1>2 DEF Unborn, CacheTrue
<1>7. SnapTrue' /\ WorkerMeansApplied' /\ CursorMeansApplied'
  BY <1>1 DEF SnapTrue, WorkerMeansApplied, CursorMeansApplied, Quiet
<1> QED
  BY <1>3, <1>4, <1>5, <1>6, <1>7

(* ... loads the row ... *)
LEMMA ScheduleGetKeeps ==
  ASSUME SyncInv, ScheduleGet
  PROVE  SyncInv'
<1> DEFINE new == Cursor(IF row.status = "running" THEN "running" ELSE "pending",
                         IF Rewinds THEN 0 ELSE row.cursor, TRUE, row.last)
<1>1. /\ UNCHANGED <<user, timer, hints, cache, row, listed, worker, node, left, hole>>
      /\ sched = "get" /\ sched' = "commit" /\ Opens("schedule", new)
  BY DEF ScheduleGet
<1>2. /\ row \in CursorRecord /\ row.last \in Nat /\ row.last <= hints /\ row.cursor \in 0..MaxUser
      /\ worker \in WorkerRecord /\ worker.last <= hints /\ listed \in BOOLEAN
  BY DEF SyncInv, Typed, Shape, Watermarks, CursorRecord
<1>3. new \in CursorRecord /\ new.last = row.last /\ new.cursor \in {0, row.cursor}
  BY <1>2, Constants DEF Cursor, CursorRecord, RowStatus
<1>4. OpenSessions'
  <2> HIDE DEF new
  <2>1. "schedule" \in Sessions /\ "schedule" # "worker"
    BY DEF Sessions
  <2> QED
    BY <1>1, <1>2, <1>3, <2>1, SessionOpened DEF SyncInv
<1>5. Streaming' => row'.cursor <= worker'.cursor
  BY <1>1 DEF SyncInv, Typed, Coupled, Streaming
<1>6. Typed'
  BY <1>1, <1>2, <1>4, <1>5, TypedKept DEF SyncInv
<1>7. Truth'
  <2>1. row.cursor <= row.cursor
    BY <1>2
  <2> QED
    BY <1>1, <1>6, <2>1, TruthKept DEF Sending, Streaming
<1> QED
  BY <1>6, <1>7 DEF SyncInv

(* ... and commits, naming whom it leaves behind. *)
LEMMA ScheduleCommitKeeps ==
  ASSUME SyncInv, NEW e \in open["schedule"], ScheduleCommit(e)
  PROVE  SyncInv'
<1> USE DEF SyncInv, Typed, Truth
<1>1. /\ UNCHANGED <<user, timer, cache, listed, worker, node, left>> /\ Commits("schedule", e)
      /\ sched = "commit" /\ sched' = "idle" /\ hints' = hints + 1 /\ hole' = hole \cup LeftBehind
  BY DEF ScheduleCommit
<1>2. hints \in Nat /\ hints' \in Nat /\ hints <= hints'
  BY <1>1 DEF Shape
<1>3. /\ OpenSessions' /\ row' \in CursorRecord /\ row'.last <= hints
      /\ row'.cursor = row.cursor \/ row'.cursor = 0
  <2>1. "schedule" \in Sessions /\ "schedule" # "worker"
    BY DEF Sessions
  <2> HIDE DEF SyncInv, Typed, Truth
  <2> QED
    BY <1>1, <1>2, <2>1, SessionCommitted DEF SyncInv
<1>4. row'.cursor \in 0..MaxUser /\ row.cursor \in 0..MaxUser /\ worker.cursor \in 0..MaxUser
  BY <1>3 DEF Shape, CursorRecord, WorkerRecord
<1>5. 1..row'.cursor \subseteq Users /\ 1..worker.cursor \subseteq Users
  BY <1>4, Constants DEF Users
<1>6. LeftBehind \subseteq Users
  BY <1>5 DEF LeftBehind
<1>7. Shape'
  <2>1. hole' \in SUBSET Users /\ sched' \in {"idle", "get", "commit"}
    BY <1>1, <1>6 DEF Shape
  <2> QED
    BY <1>1, <1>2, <1>3, <2>1 DEF Shape
<1>8. Watermarks'
  <2>1. left.change \in Int /\ row'.last \in Int /\ worker.last \in Int
    BY <1>3 DEF Shape, LeftRecord, CursorRecord, WorkerRecord
  <2> QED
    BY <1>1, <1>2, <1>3, <2>1, Constants DEF Watermarks
<1>9. Streaming => row'.cursor <= worker.cursor
  BY <1>3, <1>4 DEF Coupled
<1>10. Coupled'
  BY <1>1, <1>9 DEF Coupled, Streaming
<1>11. Unborn' /\ CacheTrue'
  BY <1>1 DEF Unborn, CacheTrue
<1>12. SnapTrue'
  BY <1>1 DEF SnapTrue, Sending, LeftBehind
<1>13. \A u \in 1..(IF Streaming THEN worker.cursor ELSE row'.cursor) : u \notin hole' => Match(u)
  BY <1>1 DEF LeftBehind
<1>14. WorkerMeansApplied'
  BY <1>1, <1>13 DEF WorkerMeansApplied, Streaming, Match
<1>15. CursorMeansApplied'
  <2>1. \A u \in 1..row'.cursor : u \in 1..(IF Streaming THEN worker.cursor ELSE row'.cursor)
    BY <1>4, <1>9
  <2> QED
    BY <1>1, <1>13, <2>1 DEF CursorMeansApplied, Match
<1> QED
  BY <1>3, <1>7, <1>8, <1>10, <1>11, <1>12, <1>14, <1>15

(* on_node_connected only ever rewinds the row. *)
LEMMA ConnectKeeps ==
  ASSUME SyncInv, ConnectStep, ~UNCHANGED vars
  PROVE  SyncInv'
<1>1. /\ UNCHANGED <<user, timer, hints, cache, sched, listed, worker, node, left, hole>>
  BY DEF ConnectStep, Connected, ConnectedCommit
<1>2. /\ row \in CursorRecord /\ row.last \in Nat /\ row.last <= hints /\ row.cursor \in 0..MaxUser
      /\ worker \in WorkerRecord /\ worker.last <= hints /\ worker.cursor \in 0..MaxUser
      /\ listed \in BOOLEAN /\ hints \in Nat /\ hints <= hints
      /\ Streaming => row.cursor <= worker.cursor
  BY DEF SyncInv, Typed, Shape, Watermarks, CursorRecord, WorkerRecord, Coupled
<1>3. "connect" \in Sessions /\ "connect" # "worker" /\ "connect" \in Others
  BY DEF Sessions, Others
<1>4. /\ OpenSessions' /\ row' \in CursorRecord /\ row'.last <= hints
      /\ row'.cursor = row.cursor \/ row'.cursor = 0
  <2>1. CASE Connected
    <3> DEFINE new == Cursor("pending", IF row.gen THEN row.cursor ELSE 0, TRUE, row.last)
    <3>1. Opens("connect", new) /\ UNCHANGED row
      BY <2>1 DEF Connected
    <3>2. new \in CursorRecord /\ new.last = row.last /\ new.cursor \in {0, row.cursor}
      BY <1>2, Constants DEF Cursor, CursorRecord, RowStatus
    <3> HIDE DEF new
    <3>3. OpenSessions'
      BY <1>1, <1>2, <1>3, <3>1, <3>2, SessionOpened DEF SyncInv
    <3> QED
      BY <1>2, <3>1, <3>3
  <2>2. CASE \E e \in open["connect"] : ConnectedCommit(e)
    <3>1. PICK e \in open["connect"] : Commits("connect", e)
      BY <2>2 DEF ConnectedCommit
    <3> QED
      BY <1>1, <1>2, <1>3, <3>1, SessionCommitted DEF SyncInv
  <2> QED
    BY <2>1, <2>2 DEF ConnectStep
<1>5. row'.cursor <= row.cursor /\ (Streaming' => row'.cursor <= worker'.cursor)
  <2>1. row'.cursor \in Int
    BY <1>4 DEF CursorRecord
  <2> QED
    BY <1>1, <1>2, <1>4, <2>1 DEF Streaming
<1>6. Typed'
  BY <1>1, <1>2, <1>4, <1>5, TypedKept DEF SyncInv
<1>7. Truth'
  BY <1>1, <1>5, <1>6, TruthKept DEF Sending, Streaming
<1> QED
  BY <1>6, <1>7 DEF SyncInv

(* The scheduler loop, and a step that changes nothing. *)
LEMMA LoopKeeps ==
  ASSUME SyncInv, List \/ Spawn \/ UNCHANGED vars
  PROVE  SyncInv'
<1>1. /\ UNCHANGED <<user, timer, hints, cache, row, open, sched, node, left, hole>>
      /\ worker' = worker \/ (worker.pc = "idle" /\ worker' = [worker EXCEPT !.pc = "begin"])
  BY DEF List, Spawn, vars
<1>2. /\ row \in CursorRecord /\ row.last <= hints /\ row.cursor \in 0..MaxUser /\ worker.last <= hints
      /\ Streaming => row.cursor <= worker.cursor
  BY DEF SyncInv, Typed, Shape, Watermarks, CursorRecord, Coupled
<1>3. listed' \in BOOLEAN
  BY DEF List, Spawn, vars, SyncInv, Typed, Shape
<1>4. /\ worker' \in WorkerRecord /\ worker'.last = worker.last /\ worker'.cursor = worker.cursor
      /\ worker'.snap = worker.snap
      /\ worker'.pc = worker.pc \/ (worker.pc = "idle" /\ worker'.pc = "begin")
  BY <1>1 DEF SyncInv, Typed, Shape, WorkerRecord
<1>5. OpenSessions'
  BY <1>1, <1>4, SessionsRest DEF SyncInv
<1>6. Streaming' => Streaming /\ row'.cursor <= worker'.cursor
  BY <1>1, <1>2, <1>4 DEF Streaming
<1>7. Typed'
  BY <1>1, <1>2, <1>3, <1>4, <1>5, <1>6, TypedKept DEF SyncInv
<1>8. Truth'
  <2>1. row.cursor <= row.cursor
    BY <1>2
  <2> QED
    BY <1>1, <1>4, <1>6, <1>7, <2>1, TruthKept DEF Sending
<1> QED
  BY <1>7, <1>8 DEF SyncInv

------------------------------------------------------------------------------
(* The worker. *)

(* The facts that the worker's lemmas begin with. *)
LEMMA Facts ==
  ASSUME SyncInv
  PROVE  /\ row \in CursorRecord /\ row.last \in Nat /\ row.last <= hints /\ row.cursor \in 0..MaxUser
         /\ row.gen \in BOOLEAN /\ row.status \in RowStatus
         /\ worker \in WorkerRecord /\ worker.last \in Nat /\ worker.last <= hints
         /\ worker.cursor \in 0..MaxUser /\ worker.snap \in [Users -> Status]
         /\ listed \in BOOLEAN /\ hints \in Nat /\ hints <= hints
         /\ row.cursor <= row.cursor /\ worker.cursor <= worker.cursor
         /\ Streaming => row.cursor <= worker.cursor
         /\ node \in NodeRecord /\ (node.peers # {} => node.iface) /\ "worker" \in Sessions
         /\ "worker" \notin Others
<1>1. /\ row \in CursorRecord /\ row.last \in Nat /\ row.last <= hints /\ row.cursor \in 0..MaxUser
      /\ row.gen \in BOOLEAN /\ row.status \in RowStatus
  BY DEF SyncInv, Typed, Shape, Watermarks, CursorRecord
<1>2. /\ worker \in WorkerRecord /\ worker.last \in Nat /\ worker.last <= hints
      /\ worker.cursor \in 0..MaxUser /\ worker.snap \in [Users -> Status]
  BY DEF SyncInv, Typed, Shape, Watermarks, WorkerRecord
<1>3. row.cursor <= row.cursor /\ worker.cursor <= worker.cursor
  BY <1>1, <1>2
<1>4. "worker" \in Sessions /\ "worker" \notin Others
  BY DEF Sessions, Others
<1>5. listed \in BOOLEAN /\ hints \in Nat /\ hints <= hints /\ node \in NodeRecord
  BY DEF SyncInv, Typed, Shape
<1> QED
  BY <1>1, <1>2, <1>3, <1>4, <1>5 DEF SyncInv, Typed, Coupled

(* A worker begins: it turns back, or loads the row to mark it running. *)
LEMMA BeginKeeps ==
  ASSUME SyncInv, Begin
  PROVE  SyncInv'
<1>1. UNCHANGED <<user, timer, hints, cache, row, sched, listed, node, left, hole>> /\ worker.pc = "begin"
  BY DEF Begin
<1>2. /\ worker' \in WorkerRecord /\ worker'.last <= hints /\ worker'.pc \in {"idle", "mark"} /\ OpenSessions'
      /\ \A u \in Users : worker'.snap[u] = worker.snap[u] \/ worker'.snap[u] = "new"
  <2>1. CASE worker' = Idle /\ UNCHANGED open
    <3>1. OpenSessions'
      BY <1>1, <2>1, SessionsRest DEF SyncInv
    <3> QED
      BY <2>1, <3>1, Facts, IdleWorker
  <2>2. CASE Opens("worker", [row EXCEPT !.status = "running"]) /\ worker' = [worker EXCEPT !.pc = "mark"]
    <3> DEFINE new == [row EXCEPT !.status = "running"]
    <3>1. new \in CursorRecord /\ new.last = row.last /\ new.cursor = row.cursor
      BY Facts DEF CursorRecord, RowStatus
    <3>2. /\ worker' \in WorkerRecord /\ worker'.last = worker.last /\ worker'.pc = "mark"
          /\ worker'.snap = worker.snap
      BY <2>2, Facts DEF WorkerRecord
    <3>3. OpenSessions'
      <4>1. Opens("worker", new)
        BY <2>2
      <4> HIDE DEF new
      <4> QED
        BY <1>1, <3>1, <3>2, <4>1, Facts, SessionOpened DEF SyncInv
    <3> QED
      BY <3>2, <3>3, Facts
  <2> QED
    BY <2>1, <2>2 DEF Begin
<1>3. ~Sending' /\ ~Streaming'
  BY <1>2 DEF Sending, Streaming
<1>4. Typed'
  BY <1>1, <1>2, <1>3, Facts, TypedKept DEF SyncInv
<1>5. Truth'
  BY <1>1, <1>2, <1>3, <1>4, Facts, TruthKept
<1> QED
  BY <1>4, <1>5 DEF SyncInv

(* The worker commits "running" and takes the stored cursor as its own. *)
LEMMA MarkKeeps ==
  ASSUME SyncInv, NEW e \in open["worker"], Mark(e)
  PROVE  SyncInv'
<1>1. /\ UNCHANGED <<user, timer, hints, cache, sched, listed, node, left, hole>> /\ worker.pc = "mark"
      /\ Commits("worker", e) /\ worker' = Worker("client", row'.cursor, row'.last, Unloaded)
  BY DEF Mark
<1>2. OpenSessions' /\ row' \in CursorRecord /\ row'.last <= hints /\ row'.cursor = row.cursor
  BY <1>1, Facts, SessionCommitted DEF SyncInv
<1>3. /\ worker' \in WorkerRecord /\ worker'.pc = "client" /\ worker'.cursor = row.cursor
      /\ worker'.last <= hints /\ \A u \in Users : worker'.snap[u] = "new"
  <2>1. row'.last \in Nat /\ row'.cursor \in 0..MaxUser
    BY <1>2 DEF CursorRecord
  <2> QED
    BY <1>1, <1>2, <2>1, IdleWorker DEF Worker, WorkerRecord
<1>4. ~Sending'
  BY <1>3 DEF Sending
<1>5. Typed'
  BY <1>1, <1>2, <1>3, Facts, TypedKept DEF SyncInv
<1>6. Truth'
  BY <1>1, <1>2, <1>3, <1>4, <1>5, Facts, TruthKept
<1> QED
  BY <1>5, <1>6 DEF SyncInv

(* A worker that ends loads the row and will write no larger cursor than its own. *)
LEMMA EndingOpens ==
  ASSUME SyncInv, Streaming, NEW new \in CursorRecord, Opens("worker", new), worker' = Ending, hints' = hints,
         new.last <= hints, new.cursor = row.cursor \/ new.cursor = worker.cursor
  PROVE  OpenSessions'
BY Facts, EndingWorker, SessionOpened DEF SyncInv

(* The node cannot be reached, or the pass is over. *)
LEMMA EndingKeeps ==
  ASSUME SyncInv, Unreachable \/ Finish
  PROVE  SyncInv'
<1>1. /\ UNCHANGED <<user, timer, hints, cache, row, sched, listed, node, hole>> /\ worker' = Ending
      /\ Fault \/ UNCHANGED left
      /\ worker.pc \in {"client", "apply"}
  BY DEF Unreachable, Finish
<1>2. Streaming /\ Streaming' /\ ~Sending'
  BY <1>1, Facts, EndingWorker DEF Streaming, Sending
<1>3. OpenSessions'
  <2>1. CASE Unreachable
    <3> DEFINE new == [row EXCEPT !.status = "paused"]
    <3>1. new \in CursorRecord /\ new.last = row.last /\ new.cursor = row.cursor
      BY Facts DEF CursorRecord, RowStatus
    <3>2. Opens("worker", new)
      BY <2>1 DEF Unreachable
    <3> HIDE DEF new
    <3> QED
      BY <1>1, <1>2, <3>1, <3>2, Facts, EndingOpens
  <2>2. CASE Finish
    <3> DEFINE new == Cursor("converged", worker.cursor, row.gen, worker.last)
    <3>1. new \in CursorRecord /\ new.last = worker.last /\ new.cursor = worker.cursor
      BY Facts DEF Cursor, CursorRecord, RowStatus
    <3>2. Opens("worker", new)
      BY <2>2 DEF Finish
    <3> HIDE DEF new
    <3> QED
      BY <1>1, <1>2, <3>1, <3>2, Facts, EndingOpens
  <2> QED
    BY <2>1, <2>2
<1>4. /\ worker' \in WorkerRecord /\ worker'.last <= hints /\ worker'.cursor = worker.cursor
      /\ \A u \in Users : worker'.snap[u] = "new"
  BY <1>1, Facts, EndingWorker
<1>5. Typed'
  BY <1>1, <1>2, <1>3, <1>4, Facts, TypedKept DEF SyncInv
<1>6. Truth'
  BY <1>1, <1>2, <1>4, <1>5, Facts, TruthKept
<1> QED
  BY <1>5, <1>6 DEF SyncInv

(* The worker commits its cursor, and goes on or is done: the cursor is one that told the
   truth of the worker. *)
LEMMA CommitKeeps ==
  ASSUME SyncInv, NEW e \in open["worker"], CommitCursor(e) \/ End(e)
  PROVE  SyncInv'
<1>1. /\ UNCHANGED <<user, timer, hints, cache, sched, listed, node, left, hole>>
      /\ worker.pc \in {"save", "end"} /\ Commits("worker", e)
      /\ \/ worker.pc = "save" /\ worker' = [worker EXCEPT !.pc = "apply"]
         \/ worker' = Idle
  BY DEF CommitCursor, End
<1>2. /\ OpenSessions' /\ row' \in CursorRecord /\ row'.last <= hints
      /\ row'.cursor = row.cursor \/ row'.cursor = worker.cursor
  BY <1>1, Facts, SessionCommitted DEF SyncInv
<1>3. Streaming
  BY <1>1 DEF Streaming
<1>4. row'.cursor <= worker.cursor
  BY <1>2, <1>3, Facts
<1>5. \/ /\ worker' \in WorkerRecord /\ worker'.pc = "apply" /\ worker'.last = worker.last /\ worker.pc = "save"
         /\ worker'.cursor = worker.cursor /\ worker'.snap = worker.snap
      \/ /\ worker' \in WorkerRecord /\ worker'.pc = "idle" /\ worker'.last = 0
         /\ \A u \in Users : worker'.snap[u] = "new"
  <2>1. CASE worker.pc = "save" /\ worker' = [worker EXCEPT !.pc = "apply"]
    BY <2>1, Facts DEF WorkerRecord
  <2>2. CASE worker' = Idle
    BY <2>2, IdleWorker
  <2> QED
    BY <1>1, <2>1, <2>2
<1>6. worker' \in WorkerRecord /\ worker'.last <= hints
  BY <1>5, Facts
<1>7. Streaming' => worker'.cursor = worker.cursor
  BY <1>5 DEF Streaming
<1>8. Sending' => Sending /\ worker'.snap = worker.snap
  BY <1>5 DEF Sending
<1>9. Typed'
  BY <1>1, <1>2, <1>4, <1>6, <1>7, Facts, TypedKept DEF SyncInv
<1>10. \A u \in Users : worker'.snap[u] = worker.snap[u] \/ worker'.snap[u] = "new"
  BY <1>5
<1>11. Truth'
  BY <1>1, <1>3, <1>4, <1>7, <1>8, <1>9, <1>10, Facts, TruthKept
<1> QED
  BY <1>9, <1>11 DEF SyncInv

(* The watermark moves towards the newest hint. *)
LEMMA DrainKeeps ==
  ASSUME SyncInv, Drain
  PROVE  SyncInv'
<1> DEFINE last == IF hints > worker.last + Batch THEN worker.last + Batch ELSE hints
<1>1. /\ UNCHANGED <<user, timer, hints, cache, row, open, sched, listed, node, left, hole>> /\ worker.pc = "drain"
      /\ worker' = Worker("snap", worker.cursor, last, worker.snap)
  BY DEF Drain
<1>2. last \in Nat /\ last <= hints
  BY Facts, Constants
<1> HIDE DEF last
<1>3. /\ worker' \in WorkerRecord /\ worker'.pc = "snap" /\ worker'.last <= hints
      /\ worker'.cursor = worker.cursor /\ worker'.snap = worker.snap
  BY <1>1, <1>2, Facts DEF Worker, WorkerRecord
<1>4. Streaming /\ ~Sending'
  BY <1>1, <1>3 DEF Streaming, Sending
<1>5. OpenSessions'
  BY <1>1, SessionsRest DEF SyncInv
<1>6. Typed'
  BY <1>1, <1>3, <1>4, <1>5, Facts, TypedKept DEF SyncInv
<1>7. Truth'
  BY <1>1, <1>3, <1>4, <1>6, Facts, TruthKept
<1> QED
  BY <1>6, <1>7 DEF SyncInv

(* The interfaces are applied without peers: whoever was passed is left behind. *)
LEMMA BootstrapKeeps ==
  ASSUME SyncInv, Bootstrap
  PROVE  SyncInv'
<1> USE DEF SyncInv, Typed, Truth
<1>1. /\ UNCHANGED <<user, timer, hints, cache, row, open, sched, listed>> /\ worker.pc = "client"
      /\ worker' = [worker EXCEPT !.pc = "drain"] /\ (Fault \/ UNCHANGED left)
      /\ \/ UNCHANGED <<node, hole>>
         \/ node' = Node(TRUE, {}, node.state) /\ hole' = hole \cup 1..worker.cursor
  BY DEF Bootstrap
<1>2. /\ worker' \in WorkerRecord /\ worker'.pc = "drain" /\ worker'.last = worker.last
      /\ worker'.cursor = worker.cursor /\ worker'.snap = worker.snap
  BY <1>1 DEF Shape, WorkerRecord
<1>3. 1..worker.cursor \subseteq Users /\ 1..row.cursor \subseteq 1..worker.cursor
  <2>1. Streaming /\ row.cursor <= worker.cursor /\ row.cursor \in 0..MaxUser /\ worker.cursor \in 0..MaxUser
    BY <1>1 DEF Streaming, Coupled, Shape, CursorRecord, WorkerRecord
  <2> QED
    BY <2>1, Constants DEF Users
<1>4. /\ node' \in NodeRecord /\ hole' \in SUBSET Users /\ hole \subseteq hole'
      /\ node'.peers \subseteq node.peers /\ (node'.peers # {} => node'.iface)
      /\ \A u \in 1..worker.cursor : u \notin hole' => (u \in node'.peers <=> u \in node.peers)
  <2>1. CASE UNCHANGED <<node, hole>>
    BY <2>1 DEF Shape, Coupled
  <2>2. CASE node' = Node(TRUE, {}, node.state) /\ hole' = hole \cup 1..worker.cursor
    BY <1>3, <2>2 DEF Shape, Node, NodeRecord
  <2> QED
    BY <1>1, <2>1, <2>2
<1>5. left' \in LeftRecord /\ left'.change = left.change
  BY <1>1, FaultLeft
<1>6. Shape'
  BY <1>1, <1>2, <1>4, <1>5 DEF Shape
<1>7. Watermarks'
  BY <1>1, <1>2, <1>5 DEF Watermarks
<1>8. OpenSessions'
  BY <1>1, <1>2, SessionsRest
<1>9. Streaming /\ ~Sending'
  BY <1>1, <1>2 DEF Streaming, Sending
<1>10. Coupled'
  BY <1>1, <1>2, <1>4, <1>9 DEF Coupled
<1>11. Unborn' /\ CacheTrue' /\ SnapTrue'
  BY <1>1, <1>2, <1>4, <1>9 DEF Unborn, CacheTrue, SnapTrue
<1>12. Quiet' => \A u \in (1..worker.cursor) \ (hole' \cup Deleted) : Match(u)'
  BY <1>1, <1>4, <1>9 DEF Quiet, WorkerMeansApplied, Match
<1>13. WorkerMeansApplied' /\ CursorMeansApplied'
  BY <1>1, <1>2, <1>3, <1>12 DEF WorkerMeansApplied, CursorMeansApplied, Quiet, Deleted
<1> QED
  BY <1>6, <1>7, <1>8, <1>10, <1>11, <1>13

(* The worker takes its snapshot from the cache. *)
LEMMA SnapshotKeeps ==
  ASSUME SyncInv, Snapshot
  PROVE  SyncInv'
<1> USE DEF SyncInv, Typed, Truth
<1>1. /\ UNCHANGED <<user, timer, hints, row, open, sched, listed, node, left, hole>> /\ worker.pc = "snap"
      /\ (cache.ok /\ cache' = cache) \/ cache' = [ok |-> TRUE, peers |-> user]
      /\ worker' = Worker("apply", worker.cursor, worker.last, cache'.peers)
  BY DEF Snapshot
<1>2. /\ cache' \in CacheRecord /\ cache'.ok
      /\ cache'.peers = user \/ (cache.ok /\ cache'.peers = cache.peers)
      /\ cache'.peers \in [Users -> Status]
  <2>1. CASE cache.ok /\ cache' = cache
    BY <2>1 DEF CacheRecord, Shape
  <2>2. CASE cache' = [ok |-> TRUE, peers |-> user]
    BY <2>2 DEF CacheRecord, Shape
  <2> QED
    BY <1>1, <2>1, <2>2
<1>3. /\ worker' \in WorkerRecord /\ worker'.pc = "apply" /\ worker'.last = worker.last
      /\ worker'.cursor = worker.cursor /\ worker'.snap = cache'.peers
  BY <1>1, <1>2 DEF Worker, WorkerRecord, Shape
<1>4. Shape'
  BY <1>1, <1>2, <1>3 DEF Shape
<1>5. Watermarks'
  BY <1>1, <1>3 DEF Watermarks
<1>6. OpenSessions'
  BY <1>1, SessionsRest
<1>7. Streaming /\ Streaming'
  BY <1>1, <1>3 DEF Streaming
<1>8. Coupled'
  BY <1>1, <1>3, <1>7 DEF Coupled
<1>9. Unborn' /\ CacheTrue'
  BY <1>1, <1>2, <1>3 DEF Unborn, CacheTrue
<1>10. SnapTrue'
  BY <1>1, <1>2, <1>3, <1>9 DEF SnapTrue, CacheTrue, Quiet
<1>11. WorkerMeansApplied' /\ CursorMeansApplied'
  BY <1>1, <1>3, <1>7 DEF WorkerMeansApplied, CursorMeansApplied, Quiet, Match, Deleted
<1> QED
  BY <1>4, <1>5, <1>6, <1>8, <1>9, <1>10, <1>11

(* A part of the batch has taken effect: nobody behind the cursor, and nobody unborn, is in
   it. *)
LEMMA PartApplied ==
  ASSUME SyncInv, NEW S \in SUBSET NextBatch
  PROVE  /\ Applied(S) \in SUBSET Users /\ S \in SUBSET Users
         /\ \A u \in Users : u \notin S => (u \in Applied(S) <=> u \in node.peers)
         /\ \A u \in S : u \in Applied(S) <=> worker.snap[u] = "active"
         /\ \A u \in Users : u <= worker.cursor \/ user[u] = "new" => u \notin NextBatch
<1>1. \A u \in NextBatch : u \in Users /\ u > worker.cursor /\ worker.snap[u] \in {"active", "off"}
  BY DEF NextBatch, Ahead
<1>2. node.peers \in SUBSET Users
  BY Facts DEF NodeRecord
<1>3. \A u \in Users : u <= worker.cursor \/ user[u] = "new" => u \notin NextBatch
  <2>1. \A u \in Users : u \in Int
    BY Constants DEF Users
  <2> QED
    BY <1>1, <2>1, Facts DEF SyncInv, Truth, Unborn
<1>4. \A u \in S : u \in Applied(S) <=> worker.snap[u] = "active"
  BY <1>1 DEF Applied
<1>5. \A u \in Users : u \notin S => (u \in Applied(S) <=> u \in node.peers)
  BY DEF Applied
<1> QED
  BY <1>1, <1>2, <1>3, <1>4, <1>5 DEF Applied

(* The batch is answered: a user on the way to the new cursor is in the batch, was left
   behind, or is none of the node's business. *)
LEMMA AnsweredKeeps ==
  ASSUME SyncInv, worker.pc = "apply", NextBatch # {}, node.iface, NEW S \in SUBSET NextBatch, Answered(S),
         UNCHANGED <<user, timer, hints, cache, row, sched, listed>>
  PROVE  SyncInv'
<1> USE DEF SyncInv, Typed, Truth
<1> DEFINE new == Cursor("running", NextCursor, row.gen, worker.last)
<1>1. /\ Fault \/ UNCHANGED left
      /\ node' = Node(TRUE, Applied(S), TRUE) /\ Opens("worker", new)
      /\ worker' = Worker("save", NextCursor, worker.last, worker.snap)
      /\ hole' = (hole \ {u \in S : Fresh(u)}) \cup (NextBatch \ S)
  BY DEF Answered
<1>2. /\ NextCursor \in Users /\ NextCursor > worker.cursor
      /\ \A u \in Users : worker.cursor < u /\ u <= NextCursor /\ worker.snap[u] \in {"active", "off"}
                            => u \in NextBatch
  BY BatchCursor
<1>3. NextCursor \in 0..MaxUser /\ worker.cursor \in 0..MaxUser
  BY <1>2, Constants, Facts DEF Users
<1>4. /\ worker' \in WorkerRecord /\ worker'.pc = "save" /\ worker'.cursor = NextCursor
      /\ worker'.last = worker.last /\ worker'.snap = worker.snap
  BY <1>1, <1>3, Facts DEF Worker, WorkerRecord
<1>5. /\ Applied(S) \in SUBSET Users /\ S \in SUBSET Users /\ NextBatch \in SUBSET Users
      /\ \A u \in Users : u \notin S => (u \in Applied(S) <=> u \in node.peers)
      /\ \A u \in S : u \in Applied(S) <=> worker.snap[u] = "active"
      /\ \A u \in Users : u <= worker.cursor \/ user[u] = "new" => u \notin NextBatch
  BY PartApplied DEF NextBatch, Ahead
<1>6. node' \in NodeRecord /\ node'.peers = Applied(S) /\ node'.iface
  BY <1>1, <1>5 DEF Node, NodeRecord
<1>7. hole' \in SUBSET Users
  BY <1>1, <1>5 DEF Shape
<1>8. left' \in LeftRecord /\ left'.change = left.change
  BY <1>1, FaultLeft
<1>9. Shape'
  BY <1>4, <1>6, <1>7, <1>8 DEF Shape
<1>10. Watermarks'
  BY <1>4, <1>8 DEF Watermarks
<1>11. OpenSessions'
  <2>1. new \in CursorRecord /\ new.last = worker.last /\ new.cursor = NextCursor
    BY <1>3, Facts DEF Cursor, CursorRecord, RowStatus
  <2> HIDE DEF new, SyncInv, Typed, Truth
  <2> QED
    BY <1>1, <1>4, <2>1, Facts, SessionOpened DEF SyncInv
<1>12. Streaming /\ Streaming' /\ Sending /\ Sending'
  BY <1>4 DEF Streaming, Sending
<1>13. row.cursor <= NextCursor /\ row.cursor \in 0..MaxUser
  BY <1>2, <1>3, <1>12, Facts
<1>14. Coupled'
  BY <1>4, <1>6, <1>13 DEF Coupled
<1>15. Unborn'
  BY <1>4, <1>5, <1>6 DEF Unborn
<1>16. \A u \in Users \ hole' : u \notin hole \/ Fresh(u)
  BY <1>1
<1>17. CacheTrue'
  BY <1>16 DEF CacheTrue, Fresh
<1>18. Quiet => \A u \in Users \ hole' : worker.snap[u] = user[u]
  BY <1>12, <1>16 DEF SnapTrue, Fresh
<1>19. SnapTrue'
  BY <1>4, <1>18 DEF SnapTrue, Quiet
<1>20. ASSUME Quiet, NEW u \in (1..NextCursor) \ (hole' \cup Deleted) PROVE Match(u)'
  <2>1. u \in Users /\ user[u] # "gone" /\ u \in Int
    BY <1>3, Constants DEF Users, Deleted
  <2>2. CASE u <= worker.cursor
    <3>1. u \notin NextBatch /\ u \in 1..worker.cursor
      BY <1>3, <1>5, <2>1, <2>2
    <3>2. u \notin hole
      BY <1>1, <1>20, <3>1
    <3>3. Match(u)
      BY <1>12, <1>20, <3>1, <3>2 DEF WorkerMeansApplied
    <3> QED
      BY <1>5, <1>6, <2>1, <3>1, <3>3 DEF Match
  <2>3. CASE ~(u <= worker.cursor)
    <3>1. worker.cursor < u /\ u <= NextCursor
      BY <1>3, <2>1, <2>3
    <3>2. worker.snap[u] = user[u]
      BY <1>18, <1>20, <2>1
    <3>3. CASE user[u] = "new"
      <4>1. u \notin S /\ u \notin node.peers
        BY <1>5, <2>1, <3>3 DEF Unborn
      <4> QED
        BY <1>5, <1>6, <2>1, <3>3, <4>1 DEF Match
    <3>4. CASE user[u] \in {"active", "off"}
      <4>1. u \in S
        BY <1>1, <1>2, <1>20, <2>1, <3>1, <3>2, <3>4
      <4> QED
        BY <1>5, <1>6, <3>2, <4>1 DEF Match
    <3>5. user[u] \in Status
      BY <2>1 DEF Shape
    <3> QED
      BY <2>1, <3>3, <3>4, <3>5 DEF Status
  <2> QED
    BY <2>2, <2>3
<1>21. WorkerMeansApplied'
  BY <1>4, <1>20 DEF WorkerMeansApplied, Quiet, Deleted
<1>22. CursorMeansApplied'
  <2>1. 1..row.cursor \subseteq 1..NextCursor
    BY <1>3, <1>13
  <2> QED
    BY <1>20, <2>1 DEF CursorMeansApplied, Quiet, Deleted
<1> QED
  BY <1>9, <1>10, <1>11, <1>14, <1>15, <1>17, <1>19, <1>21, <1>22

(* A failed batch ends the pass where it was: nobody behind the cursor was touched. *)
LEMMA PauseKeeps ==
  ASSUME SyncInv, worker.pc = "apply", UNCHANGED <<user, timer, hints, cache, row, sched, listed, hole>>,
         Fault \/ UNCHANGED left, NEW P \in SUBSET Users, Pause(P), P # {} => node.iface,
         \A u \in Users : u <= worker.cursor \/ user[u] = "new" => (u \in P <=> u \in node.peers)
  PROVE  SyncInv'
<1> USE DEF SyncInv, Typed, Truth
<1> DEFINE new == Cursor("paused", worker.cursor, row.gen, worker.last)
<1>1. node' = [node EXCEPT !.peers = P] /\ Opens("worker", new) /\ worker' = Ending
  BY DEF Pause
<1>2. node' \in NodeRecord /\ node'.peers = P /\ (node'.peers # {} => node'.iface)
  BY <1>1 DEF NodeRecord, Shape
<1>3. /\ worker' \in WorkerRecord /\ worker'.pc = "end" /\ worker'.last = 0 /\ worker'.cursor = worker.cursor
      /\ \A u \in Users : worker'.snap[u] = "new"
  BY <1>1, Facts, EndingWorker
<1>4. Streaming /\ Streaming' /\ ~Sending'
  BY <1>3 DEF Streaming, Sending
<1>5. OpenSessions'
  <2>1. new \in CursorRecord /\ new.last = worker.last /\ new.cursor = worker.cursor
    BY Facts DEF Cursor, CursorRecord, RowStatus
  <2> HIDE DEF new, SyncInv, Typed, Truth
  <2> QED
    BY <1>1, <1>4, <2>1, Facts, EndingOpens
<1>6. left' \in LeftRecord /\ left'.change = left.change
  BY FaultLeft
<1>7. Shape'
  BY <1>2, <1>3, <1>6 DEF Shape
<1>8. Watermarks'
  BY <1>3, <1>6, Facts DEF Watermarks
<1>9. Coupled'
  BY <1>2, <1>3, <1>4, Facts DEF Coupled
<1>10. Unborn' /\ CacheTrue' /\ SnapTrue'
  BY <1>2, <1>3, <1>4 DEF Unborn, CacheTrue, SnapTrue
<1>11. 1..worker.cursor \subseteq Users /\ 1..row.cursor \subseteq 1..worker.cursor
  BY <1>4, Facts, Constants DEF Users
<1>12. \A u \in 1..worker.cursor : Match(u)' <=> Match(u)
  <2>1. \A u \in 1..worker.cursor : u <= worker.cursor
    BY Facts
  <2> QED
    BY <1>2, <1>11, <2>1 DEF Match
<1>13. WorkerMeansApplied'
  BY <1>3, <1>4, <1>12 DEF WorkerMeansApplied, Quiet, Deleted
<1>14. CursorMeansApplied'
  BY <1>4, <1>11, <1>12 DEF WorkerMeansApplied, CursorMeansApplied, Quiet, Deleted
<1> QED
  BY <1>5, <1>7, <1>8, <1>9, <1>10, <1>13, <1>14

(* One batch: answered, refused or failed half-way. *)
LEMMA ApplyKeeps ==
  ASSUME SyncInv, Apply
  PROVE  SyncInv'
<1>1. UNCHANGED <<user, timer, hints, cache, row, sched, listed>> /\ worker.pc = "apply" /\ NextBatch # {}
  BY DEF Apply
<1>2. CASE node.iface /\ \E S \in SUBSET NextBatch : Answered(S)
  BY <1>1, <1>2, AnsweredKeeps
<1>3. CASE ~node.iface /\ Pause(node.peers) /\ UNCHANGED <<left, hole>>
  <2>1. node.peers \in SUBSET Users /\ (node.peers # {} => node.iface)
    BY Facts DEF NodeRecord
  <2> QED
    BY <1>1, <1>3, <2>1, PauseKeeps
<1>4. CASE node.iface /\ Fault /\ UNCHANGED hole /\ \E S \in SUBSET NextBatch : Pause(Applied(S))
  <2>1. PICK S \in SUBSET NextBatch : Pause(Applied(S))
    BY <1>4
  <2>2. /\ Applied(S) \in SUBSET Users
        /\ \A u \in Users : u <= worker.cursor \/ user[u] = "new" => (u \in Applied(S) <=> u \in node.peers)
    BY PartApplied
  <2> QED
    BY <1>1, <1>4, <2>1, <2>2, PauseKeeps
<1> QED
  BY <1>2, <1>3, <1>4 DEF Apply

------------------------------------------------------------------------------
(* Restarts. *)

(* A new panel process has no worker, no session, no timer and no cache; a schedule that
   was due or under way leaves everyone behind who is wrong. *)
LEMMA PanelKeeps ==
  ASSUME SyncInv, PanelRestart
  PROVE  SyncInv'
<1> USE DEF SyncInv, Typed, Truth
<1>1. /\ UNCHANGED <<user, hints, row, node>> /\ timer' = FALSE /\ sched' = "idle" /\ listed' = FALSE
      /\ worker' = Idle /\ Fault /\ open' = [s \in Sessions |-> {}]
      /\ cache' = [ok |-> FALSE, peers |-> Unloaded]
      /\ hole' = IF timer \/ sched # "idle" THEN hole \cup {u \in Users : ~Match(u)} ELSE hole
  BY DEF PanelRestart
<1>2. left' \in LeftRecord /\ left'.change = left.change
  BY <1>1, FaultLeft
<1>3. cache' \in CacheRecord /\ cache'.ok = FALSE /\ \A u \in Users : cache'.peers[u] = "new"
  BY <1>1 DEF CacheRecord, Unloaded, Status
<1>4. hole' \in SUBSET Users /\ hole \subseteq hole'
  BY <1>1 DEF Shape
<1>5. Shape'
  <2>1. listed' \in BOOLEAN /\ timer' \in BOOLEAN /\ sched' \in {"idle", "get", "commit"}
    BY <1>1
  <2> QED
    BY <1>1, <1>2, <1>3, <1>4, <2>1, IdleWorker DEF Shape
<1>6. Watermarks'
  <2>1. left.change \in Int /\ hints \in Nat
    BY DEF Shape, LeftRecord
  <2> QED
    BY <1>1, <1>2, <2>1, IdleWorker, Constants DEF Watermarks
<1>7. OpenSessions'
  <2>1. DOMAIN open' = Sessions /\ \A s \in Sessions : open'[s] = {}
    BY <1>1
  <2> QED
    BY <2>1 DEF OpenSessions, Others, Sessions
<1>8. Coupled' /\ SnapTrue' /\ WorkerMeansApplied'
  BY <1>1, IdleWorker DEF Coupled, Streaming, SnapTrue, Sending, WorkerMeansApplied
<1>9. Unborn'
  BY <1>1, <1>3, IdleWorker DEF Unborn
<1>10. CacheTrue'
  BY <1>3 DEF CacheTrue
<1>11. CursorMeansApplied'
  <2> SUFFICES ASSUME NEW u \in (1..row.cursor) \ (hole' \cup Deleted) PROVE Match(u)
    BY <1>1 DEF CursorMeansApplied, Match, Deleted
  <2>1. u \in Users
    BY Constants DEF Users, Shape, CursorRecord
  <2>2. CASE timer \/ sched # "idle"
    BY <1>1, <2>1, <2>2
  <2>3. CASE ~timer /\ sched = "idle"
    BY <1>4, <2>3 DEF CursorMeansApplied
  <2> QED
    BY <2>2, <2>3
<1> QED
  BY <1>5, <1>6, <1>7, <1>8, <1>9, <1>10, <1>11

(* A restart of the agent keeps the peers, a reboot of the node loses them all. *)
LEMMA NodeKeeps ==
  ASSUME SyncInv, AgentRestart \/ NodeReboot
  PROVE  SyncInv'
<1> USE DEF SyncInv, Typed, Truth
<1>1. UNCHANGED <<user, timer, hints, cache, row, open, sched, listed, worker>> /\ Fault
  BY DEF AgentRestart, NodeReboot
<1>2. left' \in LeftRecord /\ left'.change = left.change
  BY <1>1, FaultLeft
<1>3. /\ node' \in NodeRecord /\ hole' \in SUBSET Users /\ hole \subseteq hole'
      /\ node'.peers # {} => node'.iface
      /\ (node'.peers = node.peers /\ hole' = hole) \/ (node'.peers = {} /\ hole' = Users)
  <2>1. CASE AgentRestart
    BY <2>1 DEF AgentRestart, NodeRecord, Shape, Coupled
  <2>2. CASE NodeReboot
    BY <2>2 DEF NodeReboot, Node, NodeRecord, Shape
  <2> QED
    BY <2>1, <2>2
<1>4. Shape'
  BY <1>1, <1>2, <1>3 DEF Shape
<1>5. Watermarks'
  BY <1>1, <1>2 DEF Watermarks
<1>6. Coupled' /\ OpenSessions'
  BY <1>1, <1>3, SessionsRest DEF Coupled, Streaming
<1>7. Unborn' /\ CacheTrue'
  BY <1>1, <1>3 DEF Unborn, CacheTrue
<1>8. SnapTrue'
  BY <1>1, <1>3 DEF SnapTrue, Sending, Quiet
<1>9. 1..row.cursor \subseteq Users /\ 1..worker.cursor \subseteq Users
  BY Constants DEF Users, Shape, CursorRecord, WorkerRecord
<1>10. WorkerMeansApplied' /\ CursorMeansApplied'
  BY <1>1, <1>3, <1>9 DEF WorkerMeansApplied, CursorMeansApplied, Streaming, Quiet, Match, Deleted
<1> QED
  BY <1>4, <1>5, <1>6, <1>7, <1>8, <1>10

(* Every step keeps the invariant. *)
LEMMA SyncStep == SyncInv /\ [Next]_vars => SyncInv'
<1> SUFFICES ASSUME SyncInv, [Next]_vars PROVE SyncInv'
  OBVIOUS
<1>1. CASE \E u \in Users, s \in Status : Change(u, s)
  BY <1>1, ChangeKeeps
<1>2. CASE ScheduleStep
  BY <1>2, ScheduleGetKeeps, ScheduleCommitKeeps DEF ScheduleStep
<1>3. CASE Begin \/ Unreachable \/ Bootstrap \/ Drain \/ Snapshot \/ Apply \/ Finish
  BY <1>3, BeginKeeps, EndingKeeps, BootstrapKeeps, DrainKeeps, SnapshotKeeps, ApplyKeeps
<1>4. CASE \E e \in open["worker"] : Mark(e) \/ CommitCursor(e) \/ End(e)
  BY <1>4, MarkKeeps, CommitKeeps
<1>5. CASE Work
  BY <1>3, <1>4, <1>5 DEF Work
<1>6. CASE UNCHANGED vars
  BY <1>6, LoopKeeps
<1>7. CASE ConnectStep
  BY <1>6, <1>7, ConnectKeeps
<1> QED
  BY <1>1, <1>2, <1>5, <1>6, <1>7, ScheduleKeeps, LoopKeeps, PanelKeeps, NodeKeeps DEF Next

------------------------------------------------------------------------------
(* The inductive invariant holds throughout, whatever changes, fails and restarts. *)
THEOREM SyncInvariant == Spec => []SyncInv
BY InitSync, SyncStep, PTL DEF Spec

(* Row, worker, cache and node are well typed; watermarks, those of open sessions too, stay
   behind the newest hint, peers need an interface, and no session that loaded the row
   before a worker's commit can put the stored cursor ahead of the worker's. *)
THEOREM WgTypeCorrect == Spec => []TypeOK
<1>1. SyncInv => TypeOK
  <2> SUFFICES ASSUME SyncInv PROVE TypeOK
    OBVIOUS
  <2>1. hints \in 0..MaxChange /\ row.last \in 0..hints /\ worker.last \in 0..hints
    <3>1. hints \in Nat /\ left.change \in Nat /\ row.last \in Nat /\ worker.last \in Nat
      BY Constants DEF SyncInv, Typed, Shape, CursorRecord, WorkerRecord, LeftRecord
    <3> QED
      BY <3>1, Constants DEF SyncInv, Typed, Watermarks
  <2>2. cache.ok \in BOOLEAN /\ cache.peers \in [Users -> Status]
    BY DEF SyncInv, Typed, Shape, CacheRecord
  <2>3. /\ row.status \in {"pending", "running", "paused", "converged"}
        /\ row.cursor \in 0..MaxUser /\ row.gen \in BOOLEAN
    BY DEF SyncInv, Typed, Shape, CursorRecord, RowStatus
  <2>4. /\ worker.pc \in {"idle", "begin", "mark", "client", "drain", "snap", "apply", "save", "end"}
        /\ worker.cursor \in 0..MaxUser /\ worker.snap \in [Users -> Status]
    BY DEF SyncInv, Typed, Shape, WorkerRecord
  <2>5. /\ node.iface \in BOOLEAN /\ node.state \in BOOLEAN /\ node.peers \subseteq Users
        /\ node.peers # {} => node.iface
        /\ Streaming => row.cursor <= worker.cursor
    BY DEF SyncInv, Typed, Shape, NodeRecord, Coupled
  <2>6. left.change \in 0..MaxChange /\ left.fault \in 0..MaxFault
    BY DEF SyncInv, Typed, Shape, LeftRecord
  <2>7. \A s \in Sessions : \A e \in open[s] :
          /\ "cursor" \in DOMAIN e => e.cursor \in 0..MaxUser
          /\ "last" \in DOMAIN e => e.last \in 0..hints
    BY DEF SyncInv, Typed, OpenSessions, Columns
  <2>8. /\ user \in [Users -> Status] /\ timer \in BOOLEAN /\ listed \in BOOLEAN /\ hole \subseteq Users
        /\ sched \in {"idle", "get", "commit"}
    BY DEF SyncInv, Typed, Shape
  <2> QED
    BY <2>1, <2>2, <2>3, <2>4, <2>5, <2>6, <2>7, <2>8 DEF TypeOK
<1> QED
  BY <1>1, SyncInvariant, PTL

(* The stored cursor never claims a user that is wrong on the node, unless the user was
   left behind in one of the named ways, for any number of users and batches: not when a
   batch fails half-way or loses rows, and not when a session overwrites the row. *)
THEOREM CursorTellsTruth == Spec => []CursorMeansApplied
<1>1. SyncInv => CursorMeansApplied
  BY DEF SyncInv, Truth
<1> QED
  BY <1>1, SyncInvariant, PTL
==============================================================================
