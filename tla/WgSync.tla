------------------------------- MODULE WgSync -------------------------------
(***************************************************************************)
(* Resumable WireGuard peer sync of one node, kernel WG / AmneziaWG path   *)
(* (app/wireguard/sync_engine.py, node/wireguard.py).                      *)
(*                                                                         *)
(* A user change arms a debounced schedule, which reloads the peer cache   *)
(* and marks the node's cursor row pending; a scheduler thread starts one  *)
(* worker per node, which streams the peers in batches ordered by user id  *)
(* and commits the cursor after each.  The database row, the worker's own  *)
(* cursor and peer snapshot, the shared cache and the node's kernel peers  *)
(* are four copies that only the protocol keeps together.  The schedule,   *)
(* on_node_connected and the worker each load the row in a session, decide *)
(* on the copy and commit the columns they changed, with no version check. *)
(* The outbox carries nothing but hints: enqueue_peer_change has no caller.*)
(***************************************************************************)
EXTENDS Integers, FiniteSets

CONSTANTS
  MaxUser,         \* user ids are 1..MaxUser, given out in order
  FirstUsers,      \* users 1..FirstUsers exist and are active at the start
  Batch,           \* WG_SYNC_BATCH_SIZE
  MaxChange,       \* bound: changes of the users table
  MaxFault         \* bound: failed RPCs, restarts of the panel, agent and node

Users == 1..MaxUser

ASSUME WgConstants ==
  /\ MaxUser \in Nat /\ FirstUsers \in 0..MaxUser /\ Batch \in Nat \ {0}
  /\ MaxChange \in Nat /\ MaxFault \in Nat

VARIABLES
  user,            \* the users table: not created yet, active, off, deleted
  timer,           \* a schedule is due (_wg_sync_timer, _wg_sync_queued)
  hints,           \* id of the newest outbox row
  cache,           \* peer_cache: loaded, and what it loaded
  row,             \* the node's NodeSyncCursor
  open,            \* the sessions that have loaded it and not committed yet
  sched,           \* schedule_resumable_sync: idle, the cache reloaded, the row loaded
  listed,          \* the scheduler loop has listed the node
  worker,          \* the node's worker thread
  node,            \* interface, kernel peers and the agent's _sync_state
  left,            \* what is left of the two bounds
  hole             \* history: users no pass in progress will bring up to date

vars == <<user, timer, hints, cache, row, open, sched, listed, worker, node, left, hole>>

Status == {"new", "active", "off", "gone"}
Unloaded == [u \in Users |-> "new"]
\* The records: a NodeSyncCursor row, the worker thread, the node.
Cursor(status, cursor, gen, last) ==
  [status |-> status, cursor |-> cursor, gen |-> gen, last |-> last]
Worker(pc, cursor, last, snap) == [pc |-> pc, cursor |-> cursor, last |-> last, snap |-> snap]
Node(iface, peers, state) == [iface |-> iface, peers |-> peers, state |-> state]
Idle == Worker("idle", 0, 0, Unloaded)
Sessions == {"schedule", "connect", "worker"}

\* The worker has a cursor of its own.
Streaming == worker.pc \notin {"idle", "begin", "mark"}

TypeOK ==
  /\ user \in [Users -> Status]
  /\ timer \in BOOLEAN /\ listed \in BOOLEAN
  /\ hints \in 0..MaxChange
  /\ cache.ok \in BOOLEAN /\ cache.peers \in [Users -> Status]
  /\ sched \in {"idle", "get", "commit"}
  /\ row.status \in {"pending", "running", "paused", "converged"}
  /\ row.cursor \in 0..MaxUser /\ row.gen \in BOOLEAN
  /\ row.last \in 0..hints /\ worker.last \in 0..hints
  /\ worker.pc \in {"idle", "begin", "mark", "client", "drain", "snap", "apply", "save", "end"}
  /\ worker.cursor \in 0..MaxUser /\ worker.snap \in [Users -> Status]
  /\ node.iface \in BOOLEAN /\ node.state \in BOOLEAN
  /\ node.peers \subseteq Users /\ (node.peers # {} => node.iface)
  /\ left.change \in 0..MaxChange /\ left.fault \in 0..MaxFault
  /\ hole \subseteq Users
  /\ \A s \in Sessions : \A e \in open[s] :
        /\ "cursor" \in DOMAIN e => e.cursor \in 0..MaxUser
        /\ "last" \in DOMAIN e => e.last \in 0..hints
  /\ Streaming => row.cursor <= worker.cursor

------------------------------------------------------------------------------
Fault == left.fault > 0 /\ left' = [left EXCEPT !.fault = @ - 1]

\* A user is on the node exactly when it should be (_wg_user_want_active).
Match(u) == u \in node.peers <=> user[u] = "active"

\* A session loads the row and decides which columns to write ...
Edit(new) == [c \in {d \in DOMAIN row : new[d] # row[d]} |-> new[c]]
Opens(s, new) == open[s] = {} /\ open' = [open EXCEPT ![s] = {Edit(new)}]
\* ... and its commit writes them to the row as it is then.
Merged(e) == [c \in DOMAIN row |-> IF c \in DOMAIN e THEN e[c] ELSE row[c]]
Commits(s, e) == e \in open[s] /\ row' = Merged(e) /\ open' = [open EXCEPT ![s] = {}]

\* A schedule rewinds to user 0 only after a finished pass.
Rewinds == row.status = "converged" \/ ~row.gen

\* Mutant: the cursor is taken as the next user to send.
AheadSkipsOne == {u \in Users : u > worker.cursor + 1 /\ worker.snap[u] \in {"active", "off"}}
\* The next batch: the first peers of the snapshot above the cursor.
Ahead == {u \in Users : u > worker.cursor /\ worker.snap[u] \in {"active", "off"}}
NextBatch == {u \in Ahead : Cardinality({v \in Ahead : v < u}) < Batch}
NextCursor == CHOOSE u \in NextBatch : \A v \in NextBatch : v <= u

\* The peers once the rows of S have been set or removed (apply_batch).
Applied(S) ==
  (node.peers \ {u \in S : worker.snap[u] = "off"}) \cup {u \in S : worker.snap[u] = "active"}

------------------------------------------------------------------------------
(* The users table and the schedule.                                         *)

\* A change of the users table.  Most paths call sync_user_change, which arms the
\* debounce; the outbox's add, disable and protocol_change do not.
Change(u, s) ==
  /\ left.change > 0 /\ left' = [left EXCEPT !.change = @ - 1]
  /\ \/ user[u] = "new" /\ s = "active" /\ \A v \in 1..(u - 1) : user[v] # "new"
     \/ user[u] \in {"active", "off"} /\ s \in {"active", "off", "gone"} \ {user[u]}
  /\ user' = [user EXCEPT ![u] = s]
  /\ timer' \in {timer, TRUE}
  /\ hole' = IF timer' THEN hole ELSE hole \cup {u}
  /\ UNCHANGED <<hints, cache, row, open, sched, listed, worker, node>>

\* schedule_resumable_sync: reload the cache (one schedule runs at a time, a timer
\* that fires meanwhile queues the next) ...
Schedule ==
  /\ timer /\ timer' = FALSE
  /\ sched = "idle" /\ sched' = "get"
  /\ cache' = [ok |-> TRUE, peers |-> user]
  /\ UNCHANGED <<user, hints, row, open, listed, worker, node, left, hole>>

\* ... load the row, while the other nodes' rows are walked ...
ScheduleGet ==
  /\ sched = "get" /\ sched' = "commit"
  /\ Opens("schedule", Cursor(IF row.status = "running" THEN "running" ELSE "pending",
                              IF Rewinds THEN 0 ELSE row.cursor, TRUE, row.last))
  /\ UNCHANGED <<user, timer, hints, cache, row, listed, worker, node, left, hole>>

\* Users that a schedule leaves to nobody: behind the cursor that a worker will write
\* back or the next one will start from, or different in the worker's snapshot.
LeftBehind ==
  {u \in 1..(IF Streaming THEN worker.cursor ELSE row'.cursor) : ~Match(u)}
  \cup {u \in Users : worker.pc \in {"apply", "save"} /\ worker.snap[u] # user[u]}

\* ... add a hint row and commit.
ScheduleCommit(e) ==
  /\ sched = "commit" /\ sched' = "idle"
  /\ Commits("schedule", e)
  /\ hints' = hints + 1
  /\ hole' = hole \cup LeftBehind
  /\ UNCHANGED <<user, timer, cache, listed, worker, node, left>>

\* on_node_connected, after a connect and every five minutes: the stored cursor is
\* kept.  On a row that is running, or pending already, there is nothing to write.
Connected ==
  \/ row.status = "running" /\ UNCHANGED vars
  \/ /\ row.status \in {"paused", "converged"} \/ (row.status = "pending" /\ ~row.gen)
     /\ Opens("connect", Cursor("pending", IF row.gen THEN row.cursor ELSE 0, TRUE, row.last))
     /\ UNCHANGED <<user, timer, hints, cache, row, sched, listed, worker, node, left, hole>>
ConnectedCommit(e) ==
  /\ Commits("connect", e)
  /\ UNCHANGED <<user, timer, hints, cache, sched, listed, worker, node, left, hole>>

------------------------------------------------------------------------------
(* The scheduler loop: it lists the nodes, then starts the missing workers.   *)

\* Mutant: a row left running by a dead worker is not listed.
PickNotRunning == {"pending", "paused"}
Pickable == {"pending", "paused", "running"}

List ==
  /\ ~listed /\ row.status \in Pickable /\ listed' = TRUE
  /\ UNCHANGED <<user, timer, hints, cache, row, open, sched, worker, node, left, hole>>
Spawn ==
  /\ listed /\ listed' = FALSE
  /\ worker' = IF worker.pc = "idle" THEN [worker EXCEPT !.pc = "begin"] ELSE worker
  /\ UNCHANGED <<user, timer, hints, cache, row, open, sched, node, left, hole>>

------------------------------------------------------------------------------
(* The worker: _sync_one_node.                                               *)

Begin ==
  /\ worker.pc = "begin"
  /\ IF row.status = "converged" /\ row.last = hints
     THEN worker' = Idle /\ UNCHANGED open
     ELSE /\ Opens("worker", [row EXCEPT !.status = "running"])
          /\ worker' = [worker EXCEPT !.pc = "mark"]
  /\ UNCHANGED <<user, timer, hints, cache, row, sched, listed, node, left, hole>>

\* What is left of a pass is its last commit.
Ending == Worker("end", worker.cursor, 0, Unloaded)

\* The commit of "running"; the session then reads the row again.
Mark(e) ==
  /\ worker.pc = "mark" /\ Commits("worker", e)
  /\ worker' = Worker("client", row'.cursor, row'.last, Unloaded)
  /\ UNCHANGED <<user, timer, hints, cache, sched, listed, node, left, hole>>

\* No connection, or any exception before the stream (_run_node_worker).
Unreachable ==
  /\ worker.pc = "client" /\ Fault
  /\ Opens("worker", [row EXCEPT !.status = "paused"])
  /\ worker' = Ending
  /\ UNCHANGED <<user, timer, hints, cache, row, sched, listed, node, hole>>

\* A node that reports no sync state - or whose status call fails - gets its
\* interfaces applied with zero peers; a failure of that is only logged.
Bootstrap ==
  /\ worker.pc = "client" /\ worker' = [worker EXCEPT !.pc = "drain"]
  /\ \/ node.state /\ UNCHANGED <<node, left, hole>>
     \/ /\ (~node.state /\ UNCHANGED left) \/ (node.state /\ Fault)
        /\ node' = Node(TRUE, {}, node.state)
        /\ hole' = hole \cup 1..worker.cursor
     \/ ~node.state /\ Fault /\ UNCHANGED <<node, hole>>
  /\ UNCHANGED <<user, timer, hints, cache, row, open, sched, listed>>

\* Mutant: the watermark moves by a whole batch of hints.
DrainWholeBatch ==
  /\ worker.pc = "drain"
  /\ worker' = Worker("snap", worker.cursor, worker.last + Batch, worker.snap)
  /\ UNCHANGED <<user, timer, hints, cache, row, open, sched, listed, node, left, hole>>
\* _drain_outbox: hint rows, Batch at a time, only move the watermark.
Drain ==
  /\ worker.pc = "drain"
  /\ worker' = Worker("snap", worker.cursor,
                       IF hints > worker.last + Batch THEN worker.last + Batch ELSE hints, worker.snap)
  /\ UNCHANGED <<user, timer, hints, cache, row, open, sched, listed, node, left, hole>>

\* peer_cache.get_peers: the loaded list, or a reload when it is stale or expired.
Snapshot ==
  /\ worker.pc = "snap"
  /\ \/ cache.ok /\ UNCHANGED cache
     \/ cache' = [ok |-> TRUE, peers |-> user]
  /\ worker' = Worker("apply", worker.cursor, worker.last, cache'.peers)
  /\ UNCHANGED <<user, timer, hints, row, open, sched, listed, node, left, hole>>

\* Mutant: the failed batch counts as done.
PauseAdvanced(peers) ==
  /\ node' = [node EXCEPT !.peers = peers]
  /\ Opens("worker", Cursor("paused", NextCursor, row.gen, worker.last))
  /\ worker' = Ending
Pause(peers) ==
  /\ node' = [node EXCEPT !.peers = peers]
  /\ Opens("worker", Cursor("paused", worker.cursor, row.gen, worker.last))
  /\ worker' = Ending

\* The user is right in the worker's snapshot, and in the cache of the next one.
Fresh(u) == worker.snap[u] = user[u] /\ (cache.ok => cache.peers[u] = user[u])

\* The batch is answered with ok, whatever became of its rows: a `wg set` that failed
\* is ignored and a peer without key or address is skipped.
Answered(S) ==
  /\ IF S = NextBatch THEN UNCHANGED left ELSE Fault
  /\ node' = Node(TRUE, Applied(S), TRUE)
  /\ Opens("worker", Cursor("running", NextCursor, row.gen, worker.last))
  /\ worker' = Worker("save", NextCursor, worker.last, worker.snap)
  /\ hole' = (hole \ {u \in S : Fresh(u)}) \cup (NextBatch \ S)

\* One apply_batch per interface, S the rows that took effect: it is refused without
\* an interface and may fail half-way.
Apply ==
  /\ worker.pc = "apply" /\ NextBatch # {}
  /\ \/ node.iface /\ \E S \in SUBSET NextBatch : Answered(S)
     \/ ~node.iface /\ Pause(node.peers) /\ UNCHANGED <<left, hole>>
     \/ node.iface /\ Fault /\ UNCHANGED hole /\ \E S \in SUBSET NextBatch : Pause(Applied(S))
  /\ UNCHANGED <<user, timer, hints, cache, row, sched, listed>>

CommitCursor(e) ==
  /\ worker.pc = "save" /\ Commits("worker", e)
  /\ worker' = [worker EXCEPT !.pc = "apply"]
  /\ UNCHANGED <<user, timer, hints, cache, sched, listed, node, left, hole>>

Finish ==
  /\ worker.pc = "apply" /\ NextBatch = {}
  /\ Opens("worker", Cursor("converged", worker.cursor, row.gen, worker.last))
  /\ worker' = Ending
  /\ UNCHANGED <<user, timer, hints, cache, row, sched, listed, node, left, hole>>

\* The last commit of a worker: converged or paused.
End(e) ==
  /\ worker.pc = "end" /\ Commits("worker", e)
  /\ worker' = Idle
  /\ UNCHANGED <<user, timer, hints, cache, sched, listed, node, left, hole>>

------------------------------------------------------------------------------
(* Restarts.                                                                 *)

\* The panel process: timers, threads and the cache are gone, the row is not.
PanelRestart ==
  /\ Fault
  /\ timer' = FALSE /\ sched' = "idle" /\ listed' = FALSE /\ worker' = Idle
  /\ open' = [s \in Sessions |-> {}]
  /\ cache' = [ok |-> FALSE, peers |-> Unloaded]
  /\ hole' = IF timer \/ sched # "idle" THEN hole \cup {u \in Users : ~Match(u)} ELSE hole
  /\ UNCHANGED <<user, hints, row, node>>

\* The agent forgets _sync_state; the kernel keeps the peers.
AgentRestart ==
  /\ Fault /\ node' = [node EXCEPT !.state = FALSE]
  /\ UNCHANGED <<user, timer, hints, cache, row, open, sched, listed, worker, hole>>

NodeReboot ==
  /\ Fault /\ node' = Node(FALSE, {}, FALSE)
  /\ hole' = Users
  /\ UNCHANGED <<user, timer, hints, cache, row, open, sched, listed, worker>>

------------------------------------------------------------------------------
\* The node has connected for the first time: on_node_connected created its row.
Init ==
  /\ user = [u \in Users |-> IF u <= FirstUsers THEN "active" ELSE "new"]
  /\ timer = FALSE /\ sched = "idle" /\ hints = 0 /\ listed = FALSE
  /\ cache = [ok |-> FALSE, peers |-> Unloaded]
  /\ row = Cursor("converged", 0, FALSE, 0)
  /\ open = [s \in Sessions |-> {}]
  /\ worker = Idle
  /\ node = Node(FALSE, {}, FALSE)
  /\ left = [change |-> MaxChange, fault |-> MaxFault]
  /\ hole = {}

Work ==
  \/ Begin \/ Unreachable \/ Bootstrap \/ Drain \/ Snapshot \/ Apply \/ Finish
  \/ \E e \in open["worker"] : Mark(e) \/ CommitCursor(e) \/ End(e)
ScheduleStep == ScheduleGet \/ \E e \in open["schedule"] : ScheduleCommit(e)
ConnectStep == Connected \/ \E e \in open["connect"] : ConnectedCommit(e)
Next ==
  \/ \E u \in Users, s \in Status : Change(u, s)
  \/ Schedule \/ ScheduleStep \/ ConnectStep \/ List \/ Spawn \/ Work
  \/ PanelRestart \/ AgentRestart \/ NodeReboot

\* The timer fires, the loop wakes every five seconds, the health job calls
\* on_node_connected every five minutes and every RPC of a worker has a timeout.
Spec ==
  /\ Init /\ [][Next]_vars
  /\ WF_vars(Schedule) /\ WF_vars(ScheduleStep) /\ WF_vars(ConnectStep)
  /\ WF_vars(List) /\ WF_vars(Spawn) /\ WF_vars(Work)

------------------------------------------------------------------------------
(* The stored cursor tells the truth: with no schedule due or under way, every  *)
(* user it has passed is on the node exactly when it should be, whatever failed,*)
(* resumed, restarted or overwrote the row on the way - except users that were   *)
(* changed without a schedule or left behind by one, whose row the agent dropped *)
(* silently, a restart wiped, or that were deleted (no batch names them any      *)
(* more; _sync_one_node: "will resume" from the stored cursor).                  *)
Deleted == {u \in Users : user[u] = "gone"}
CursorMeansApplied ==
  ~timer /\ sched = "idle" => \A u \in (1..row.cursor) \ (hole \cup Deleted) : Match(u)

(* The engine never gets stuck and brings the node to the database's peer set: *)
(* passes end again and again, and once changes and faults stop every user      *)
(* that was not left behind settles to its right state.                         *)
PassesEnd == []<>(row.status = "converged")
Settles == <>[](\A u \in Users \ (hole \cup Deleted) : Match(u))

==============================================================================
