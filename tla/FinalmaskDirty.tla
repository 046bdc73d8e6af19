--------------------------- MODULE FinalmaskDirty ---------------------------
(***************************************************************************)
(* The dirty-slot queue of the Finalmask (Xray-native WireGuard) reload    *)
(* (app/wireguard/finalmask_reload.py, app/jobs/finalmask_dirty.py).       *)
(*                                                                         *)
(* Peers are baked into shard inbounds.  A user change marks its shard     *)
(* slot dirty and arms a timer; a single-flight pass takes the newest      *)
(* slots, plans with the peer cache and replaces the shards on every node  *)
(* it can reach.  The content of a shard is abstracted to whether the last *)
(* change of the slot has landed on a node (owed), the fingerprints to the *)
(* other owed slots a plan may add.  The slot walk of sync_engine.py is    *)
(* not part of this module.                                                *)
(***************************************************************************)
EXTENDS Integers, Sequences, FiniteSets, SequencesExt

CONSTANTS
  Nodes, Slots,
  Budget,          \* HOT_REPLACE_SLOT_BUDGET
  MaxChange,       \* bound: user changes
  MaxFault         \* bound: failed replaces and passes, lost nodes, panel restarts

ASSUME FinalmaskConstants ==
  /\ IsFiniteSet(Slots) /\ Budget \in Nat \ {0} /\ MaxChange \in Nat /\ MaxFault \in Nat

VARIABLES
  owed,            \* per node, the slots whose last change has not landed
  stale,           \* slots whose last change the peer cache does not show
  dirty,           \* _dirty_order, newest last, and with it _dirty_slots
  timer,           \* _timer is armed
  run,             \* the pass in flight (_reload_in_flight)
  up,              \* nodes that are not in connect backoff
  left,            \* what is left of the two bounds
  dropped          \* history: <<node, slot>> no later step of the queue will serve

vars == <<owed, stale, dirty, timer, run, up, left, dropped>>

\* A pass: the slots it took, those its plan has old content of, the nodes to do and
\* the nodes left out.
Reload(pc, taken, old, todo, skipped, failed) ==
  [pc |-> pc, taken |-> taken, stale |-> old, todo |-> todo, skipped |-> skipped, failed |-> failed]
Idle == Reload("idle", {}, {}, {}, {}, FALSE)
Pairs == Nodes \X Slots
Owed == {p \in Pairs : p[2] \in owed[p[1]]}

TypeOK ==
  /\ owed \in [Nodes -> SUBSET Slots]
  /\ stale \subseteq Slots /\ up \subseteq Nodes
  /\ dirty \in Seq(Slots) /\ IsInjective(dirty)
  /\ timer \in BOOLEAN
  /\ run.pc \in {"idle", "plan", "apply"}
  /\ run.taken \subseteq Slots /\ Cardinality(run.taken) <= Budget
  /\ run.stale \subseteq Slots /\ run.failed \in BOOLEAN
  /\ run.todo \subseteq Nodes /\ run.skipped \subseteq Nodes /\ run.todo \cap run.skipped = {}
  /\ left.change \in 0..MaxChange /\ left.fault \in 0..MaxFault
  /\ dropped \subseteq Pairs

------------------------------------------------------------------------------
Fault == left.fault > 0 /\ left' = [left EXCEPT !.fault = @ - 1]

\* Mutant: a slot that is already queued is queued again.
MarkedTwice(S) == {dirty \o SetToSeq(S)}
\* mark_finalmask_slots_dirty: the slots of S move to the newest end, in the order a
\* Python set happens to have; the others stay in theirs.
Marked(S) ==
  {q \in [1..Cardinality(ToSet(dirty) \cup S) -> Slots] :
     /\ IsInjective(q) /\ ToSet(q) = ToSet(dirty) \cup S
     /\ \A i, j \in DOMAIN q : i < j /\ q[j] \notin S =>
          \E a, b \in DOMAIN dirty : a < b /\ dirty[a] = q[i] /\ dirty[b] = q[j] /\ q[i] \notin S}

\* take_finalmask_dirty_slots(limit): the newest ones when there are too many.
Newest ==
  IF Len(dirty) <= Budget THEN dirty ELSE SubSeq(dirty, Len(dirty) - Budget + 1, Len(dirty))
\* Mutant: the slots above the budget are taken off the queue with the rest.
OlderDropped == <<>>
Older == SubSeq(dirty, 1, Len(dirty) - Len(Newest))

------------------------------------------------------------------------------
\* A user of slot s changes in the database: hot_apply marks the slot and leaves the
\* cache alone, the disconnect of quota.py drops the cache too.
Change(s, drops) ==
  /\ left.change > 0 /\ left' = [left EXCEPT !.change = @ - 1]
  /\ owed' = [n \in Nodes |-> owed[n] \cup {s}]
  /\ dropped' = {p \in dropped : p[2] # s}
  /\ stale' = IF drops THEN {} ELSE stale \cup {s}
  /\ run' = [run EXCEPT !.stale = IF run.pc = "apply" THEN @ \cup {s} ELSE @]
  /\ dirty' \in Marked({s}) /\ timer' = TRUE
  /\ UNCHANGED up

\* flush_persisted_finalmask_dirty, every 20 seconds.
DirtyJob ==
  /\ dirty # <<>> /\ timer' = TRUE
  /\ UNCHANGED <<owed, stale, dirty, run, up, left, dropped>>

\* _run_finalmask_xray_reload: one pass at a time, it takes the newest slots.
Begin ==
  /\ timer /\ run.pc = "idle"
  /\ timer' = FALSE
  /\ run' = Reload("plan", ToSet(Newest), {}, {}, {}, FALSE)
  /\ dirty' = Older
  /\ UNCHANGED <<owed, stale, up, left, dropped>>

\* Mutant: the slots of a failed pass are not queued again.
RequeuedNever(r) == {dirty}
\* What the end of a pass leaves in the queue.
Requeued(r) == IF r.failed THEN Marked(r.taken) ELSE {dirty}

\* The finally block: retry while slots are queued.  A pair nobody will serve any
\* more is one of a node that was skipped or of content the plan did not have.
Close(r) ==
  /\ dirty' \in Requeued(r)
  /\ timer' = (timer \/ dirty' # <<>>)
  /\ run' = Idle
  /\ dropped' = dropped \cup
       {p \in Owed : ~r.failed /\ p[2] \in r.taken \ ToSet(dirty)
                     /\ (p[1] \in r.skipped \/ p[2] \in r.stale)}

\* The plan: the peer cache, or a reload of it, and the nodes not in backoff.  With
\* every node in backoff the slots are queued again; an exception does the same.
Plan ==
  /\ run.pc = "plan"
  /\ \/ stale' = stale \/ stale' = {}
  /\ \/ /\ up # {} /\ UNCHANGED <<dirty, timer, left, dropped>>
        /\ run' = Reload("apply", run.taken, stale', up, Nodes \ up, run.failed)
     \/ up = {} /\ Close([run EXCEPT !.failed = TRUE]) /\ UNCHANGED left
     \/ Fault /\ Close([run EXCEPT !.failed = TRUE])
  /\ UNCHANGED <<owed, up>>

\* One node's plan: the taken slots and whatever else its fingerprints show.  A replace
\* that failed may have landed, or have left a slot removed.
Apply(n, S) ==
  /\ run.pc = "apply" /\ n \in run.todo
  /\ run.taken \subseteq S /\ S \subseteq run.taken \cup owed[n]
  /\ \/ /\ owed' = [owed EXCEPT ![n] = @ \ (S \ run.stale)]
        /\ run' = [run EXCEPT !.todo = @ \ {n}]
        /\ dropped' = dropped \ ({n} \X (S \ run.stale))
        /\ UNCHANGED left
     \/ /\ Fault
        /\ \E gone \in SUBSET S : owed' = [owed EXCEPT ![n] = @ \cup gone]
        /\ run' = Reload(run.pc, run.taken, run.stale, run.todo \ {n}, run.skipped, TRUE)
        /\ UNCHANGED dropped
  /\ UNCHANGED <<stale, dirty, timer, up>>

End ==
  /\ run.pc = "apply" /\ run.todo = {}
  /\ Close(run)
  /\ UNCHANGED <<owed, stale, up, left>>

NodeLost(n) ==
  /\ n \in up /\ Fault /\ up' = up \ {n}
  /\ UNCHANGED <<owed, stale, dirty, timer, run, dropped>>

\* A reconnect that keeps the live core arms the timer when slots are queued.
NodeBack(n) ==
  /\ n \notin up /\ up' = up \cup {n}
  /\ timer' = (timer \/ dirty # <<>>)
  /\ UNCHANGED <<owed, stale, dirty, run, left, dropped>>

\* A new panel process.  _load_fp_cache reads the stored slots, but `_dirty_slots |= ...`
\* without a global declaration raises and is only logged: the queue starts empty.
PanelRestart ==
  /\ Fault
  /\ dirty' = <<>> /\ timer' = FALSE /\ run' = Idle /\ stale' = {}
  /\ dropped' = dropped \cup Owed
  /\ UNCHANGED <<owed, up>>

------------------------------------------------------------------------------
Init ==
  /\ owed = [n \in Nodes |-> {}] /\ stale = {} /\ dirty = <<>>
  /\ timer = FALSE /\ run = Idle /\ up = Nodes
  /\ left = [change |-> MaxChange, fault |-> MaxFault]
  /\ dropped = {}

Pass == Begin \/ Plan \/ End \/ \E n \in Nodes, S \in SUBSET Slots : Apply(n, S)
Next ==
  \/ \E s \in Slots, drops \in BOOLEAN : Change(s, drops)
  \/ DirtyJob \/ Pass
  \/ \E n \in Nodes : NodeLost(n) \/ NodeBack(n)
  \/ PanelRestart

\* Timers fire and a pass goes on: every RPC has a timeout.  A node comes back.
Spec ==
  /\ Init /\ [][Next]_vars
  /\ WF_vars(DirtyJob) /\ WF_vars(Pass) /\ \A n \in Nodes : WF_vars(NodeBack(n))

------------------------------------------------------------------------------
(* No change is forgotten: while a marked slot has not landed on a node, it is  *)
(* queued or in the hands of the running pass - except where the pass skipped   *)
(* the node, planned with an old cache, or the panel restarted                  *)
(* (take_finalmask_dirty_slots, mark_finalmask_slots_dirty on every failure).   *)
NothingForgotten ==
  \A p \in Owed \ dropped : p[2] \in ToSet(dirty) \cup run.taken

(* Every change lands: once changes and faults stop, the queue empties and all  *)
(* nodes have every slot that was not dropped, however failures, retries and    *)
(* newer changes interleaved with the passes.                                   *)
Lands == <>[](dirty = <<>> /\ run.pc = "idle" /\ Owed \subseteq dropped)

(* "Boot reloads this set and retries until the live inbound actually has the   *)
(* peer" (_save_fp_cache): a queued slot leaves the queue only into a pass that  *)
(* took it, whatever ends the process that queued it.                            *)
BootReloadsQueue == [][ToSet(dirty) \subseteq ToSet(dirty') \cup run'.taken]_vars
==============================================================================
