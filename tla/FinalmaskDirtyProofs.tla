------------------------ MODULE FinalmaskDirtyProofs ------------------------
(***************************************************************************)
(* The dirty-slot queue forgets no change (module FinalmaskDirty), for any *)
(* number of nodes, slots, changes and faults and any budget.              *)
(*                                                                         *)
(* A slot leaves the queue for the hands of the pass, and the pass may     *)
(* only close without queueing it again when every node it reached has     *)
(* it: the inductive invariant says what has landed while the pass is      *)
(* still working through its nodes (Landed).                               *)
(***************************************************************************)
EXTENDS FinalmaskDirty, SequenceTheorems, FiniteSetTheorems, TLAPS

\* The state components as record sets, and the pass between its steps.
PassRecord ==
  [pc : {"idle", "plan", "apply"}, taken : SUBSET Slots, stale : SUBSET Slots,
   todo : SUBSET Nodes, skipped : SUBSET Nodes, failed : BOOLEAN]
Shape ==
  /\ owed \in [Nodes -> SUBSET Slots] /\ dropped \in SUBSET Pairs
  /\ stale \in SUBSET Slots /\ up \in SUBSET Nodes
  /\ timer \in BOOLEAN
  /\ left \in [change : 0..MaxChange, fault : 0..MaxFault]
QueueShape == dirty \in Seq(Slots) /\ IsInjective(dirty)
PassShape ==
  /\ run \in PassRecord
  /\ Cardinality(run.taken) <= Budget /\ run.todo \cap run.skipped = {}
  /\ run.pc = "idle" => run.taken = {}

\* A node that a good pass has served owes none of its slots, unless the plan had old
\* content of it.
Landed ==
  run.pc = "apply" /\ ~run.failed =>
    \A n \in Nodes \ (run.todo \cup run.skipped) : owed[n] \cap run.taken \subseteq run.stale

\* NothingForgotten, node by node.
Kept ==
  \A n \in Nodes : \A s \in owed[n] : <<n, s>> \in dropped \/ s \in ToSet(dirty) \/ s \in run.taken

DirtyInv == Shape /\ QueueShape /\ PassShape /\ Landed /\ Kept

------------------------------------------------------------------------------
(* What the queue operators do. *)

(* The assumptions on the constants, as the proofs use them. *)
LEMMA Constants ==
  /\ IsFiniteSet(Slots) /\ Budget \in Nat /\ Budget > 0
  /\ MaxChange \in Nat /\ MaxFault \in Nat
BY FinalmaskConstants

(* A set of slots is finite, and its cardinality a number. *)
LEMMA FiniteSlots ==
  ASSUME NEW S \in SUBSET Slots
  PROVE  IsFiniteSet(S) /\ Cardinality(S) \in Nat
<1>1. IsFiniteSet(S)
  BY FS_Subset, Constants
<1> QED
  BY <1>1, FS_CardinalityType

(* Marking slots (mark_finalmask_slots_dirty) queues them, keeps what was queued and
   queues nothing twice. *)
LEMMA MarkedQueue ==
  ASSUME NEW S \in SUBSET Slots, QueueShape, NEW q \in Marked(S)
  PROVE  q \in Seq(Slots) /\ IsInjective(q) /\ ToSet(q) = ToSet(dirty) \cup S
<1>1. ToSet(dirty) \cup S \in SUBSET Slots
  BY DEF QueueShape, ToSet
<1>2. PICK n \in Nat : q \in [1..n -> Slots]
  BY <1>1, FiniteSlots DEF Marked
<1>3. q \in Seq(Slots)
  BY <1>2
<1> QED
  BY <1>3 DEF Marked

(* Taking slots (take_finalmask_dirty_slots) splits the queue, and takes at most the
   budget. *)
LEMMA TakeSplits ==
  ASSUME QueueShape
  PROVE  /\ Older \in Seq(Slots) /\ IsInjective(Older)
         /\ ToSet(dirty) = ToSet(Older) \cup ToSet(Newest)
         /\ ToSet(Newest) \in SUBSET Slots /\ Cardinality(ToSet(Newest)) <= Budget
<1> DEFINE m == IF Len(dirty) <= Budget THEN 0 ELSE Len(dirty) - Budget
           k == Len(dirty) - m
<1>1. Len(dirty) \in Nat /\ DOMAIN dirty = 1..Len(dirty) /\ m \in 0..Len(dirty) /\ k \in Nat /\ k <= Budget
  BY Constants DEF QueueShape
<1>2. /\ Newest \in Seq(Slots) /\ Len(Newest) = k
      /\ \A i \in 1..k : Newest[i] = dirty[m + i]
  <2>1. CASE Len(dirty) <= Budget
    BY <1>1, <2>1 DEF Newest, QueueShape
  <2>2. CASE ~(Len(dirty) <= Budget)
    <3>1. Newest = SubSeq(dirty, m + 1, Len(dirty))
      BY <2>2 DEF Newest
    <3>2. \A i \in (m + 1)..Len(dirty) : dirty[i] \in Slots
      BY <1>1 DEF QueueShape
    <3>3. m + 1 \in Int /\ Len(dirty) \in Int /\ k = Len(dirty) - (m + 1) + 1 /\ m + 1 <= Len(dirty)
      BY <1>1, <2>2, Constants
    <3> HIDE DEF m, k
    <3>4. /\ Newest \in Seq(Slots) /\ Len(Newest) = k
          /\ \A i \in 1..k : Newest[i] = dirty[m + 1 + i - 1]
      BY <3>1, <3>2, <3>3, SubSeqProperties
    <3> QED
      BY <1>1, <3>4
  <2> QED
    BY <2>1, <2>2
<1>3. /\ Older \in Seq(Slots) /\ Len(Older) = m
      /\ \A i \in 1..m : Older[i] = dirty[i]
  BY <1>1, <1>2 DEF Older, QueueShape
<1>4. DOMAIN Newest = 1..k /\ DOMAIN Older = 1..m
  BY <1>2, <1>3
<1> HIDE DEF m, k
<1>5. IsInjective(Older)
  BY <1>1, <1>3, <1>4 DEF IsInjective, QueueShape
<1>6. ToSet(dirty) = ToSet(Older) \cup ToSet(Newest)
  <2>1. ASSUME NEW s \in ToSet(dirty) PROVE s \in ToSet(Older) \cup ToSet(Newest)
    <3>1. PICK i \in 1..Len(dirty) : s = dirty[i]
      BY <1>1 DEF ToSet
    <3>2. CASE i <= m
      BY <1>1, <1>3, <1>4, <3>1, <3>2 DEF ToSet
    <3>3. CASE ~(i <= m)
      <4>1. i - m \in 1..k /\ m + (i - m) = i
        BY <1>1, <3>1, <3>3 DEF k
      <4>2. s = Newest[i - m]
        BY <1>2, <3>1, <4>1
      <4> QED
        BY <1>4, <4>1, <4>2 DEF ToSet
    <3> QED
      BY <3>2, <3>3
  <2>2. ASSUME NEW s \in ToSet(Older) PROVE s \in ToSet(dirty)
    BY <1>1, <1>3, <1>4 DEF ToSet
  <2>3. ASSUME NEW s \in ToSet(Newest) PROVE s \in ToSet(dirty)
    <3>1. PICK i \in 1..k : s = Newest[i]
      BY <1>4 DEF ToSet
    <3>2. m + i \in 1..Len(dirty)
      BY <1>1, <3>1 DEF k
    <3> QED
      BY <1>1, <1>2, <3>1, <3>2 DEF ToSet
  <2> QED
    BY <2>1, <2>2, <2>3
<1>7. ToSet(Newest) \in SUBSET Slots
  BY <1>2, <1>4 DEF ToSet
<1>8. Cardinality(ToSet(Newest)) <= k
  <2>1. Newest \in Surjection(1..k, ToSet(Newest))
    BY <1>2, <1>4 DEF Surjection, ToSet
  <2>2. ExistsSurjection(1..k, ToSet(Newest))
    BY <2>1 DEF ExistsSurjection
  <2> QED
    BY <1>1, <2>2, FS_SurjCardinalityBound
<1>9. Cardinality(ToSet(Newest)) \in Nat
  BY <1>7, FiniteSlots
<1>10. Cardinality(ToSet(Newest)) <= Budget
  BY <1>1, <1>8, <1>9, Constants
<1> QED
  BY <1>3, <1>5, <1>6, <1>7, <1>10

------------------------------------------------------------------------------
(* The inductive invariant: initially, and across the steps. *)

(* It holds before the first change. *)
LEMMA InitDirty == Init => DirtyInv
<1> SUFFICES ASSUME Init PROVE DirtyInv
  OBVIOUS
<1>1. Shape /\ QueueShape
  <2>1. Shape
    <3>1. owed \in [Nodes -> SUBSET Slots] /\ dropped \in SUBSET Pairs
      BY DEF Init
    <3>2. left \in [change : 0..MaxChange, fault : 0..MaxFault]
      BY Constants DEF Init
    <3>3. stale \in SUBSET Slots /\ up \in SUBSET Nodes /\ timer \in BOOLEAN
      BY DEF Init
    <3> QED
      BY <3>1, <3>2, <3>3 DEF Shape
  <2>2. QueueShape
    BY DEF Init, QueueShape, IsInjective
  <2> QED
    BY <2>1, <2>2
<1>2. PassShape
  BY Constants, FS_EmptySet DEF Init, PassShape, PassRecord, Idle, Reload
<1>3. Landed /\ Kept
  BY DEF Init, Landed, Kept, Idle, Reload
<1> QED
  BY <1>1, <1>2, <1>3 DEF DirtyInv

(* A step that moves only the timer, the nodes' reachability or the bounds. *)
LEMMA Frame ==
  ASSUME DirtyInv, UNCHANGED <<owed, stale, dirty, run, dropped>>,
         timer' \in BOOLEAN, up' \in SUBSET Nodes, Fault \/ UNCHANGED left
  PROVE  DirtyInv'
<1> USE DEF DirtyInv
<1>1. left' \in [change : 0..MaxChange, fault : 0..MaxFault]
  BY Constants DEF Fault, Shape
<1>2. Shape'
  BY <1>1 DEF Shape
<1>3. QueueShape' /\ PassShape'
  BY DEF QueueShape, PassShape
<1>4. Landed' /\ Kept'
  BY DEF Landed, Kept
<1> QED
  BY <1>2, <1>3, <1>4

(* An idle pass holds nothing. *)
LEMMA IdlePass == Idle \in PassRecord /\ Idle.pc = "idle" /\ Idle.taken = {} /\ Idle.todo = {}
BY DEF Idle, Reload, PassRecord

(* The end of a pass (the finally block): what was taken is queued again, has landed
   or is given up. *)
LEMMA CloseStep ==
  ASSUME DirtyInv, NEW r \in PassRecord, r.taken = run.taken,
         r.failed \/ (r = run /\ run.pc = "apply" /\ run.todo = {}),
         Close(r), owed' = owed
  PROVE  QueueShape' /\ PassShape' /\ Landed' /\ Kept' /\ dropped' \in SUBSET Pairs /\ timer' \in BOOLEAN
<1> USE DEF DirtyInv
<1>1. run' = Idle
  BY DEF Close
<1>2. PassShape' /\ Landed'
  BY <1>1, IdlePass, Constants, FS_EmptySet DEF PassShape, Landed
<1>3. run.taken \in SUBSET Slots
  BY DEF PassShape, PassRecord
<1>4. /\ dirty' \in Seq(Slots) /\ IsInjective(dirty')
      /\ ToSet(dirty') = ToSet(dirty) \cup IF r.failed THEN run.taken ELSE {}
  <2>1. CASE r.failed
    BY <1>3, <2>1, MarkedQueue DEF Close, Requeued
  <2>2. CASE ~r.failed
    BY <2>2 DEF Close, Requeued, QueueShape
  <2> QED
    BY <2>1, <2>2
<1>5. QueueShape'
  BY <1>4 DEF QueueShape
<1>6. dropped' \in SUBSET Pairs /\ dropped \subseteq dropped'
  BY DEF Close, Shape, Owed
<1>7. Kept'
  <2> SUFFICES ASSUME NEW n \in Nodes, NEW s \in owed[n], <<n, s>> \notin dropped, s \notin ToSet(dirty')
               PROVE  <<n, s>> \in dropped'
    BY <1>6 DEF Kept
  <2>1. s \notin ToSet(dirty) /\ s \in run.taken
    BY <1>4 DEF Kept
  <2>2. ~r.failed /\ r = run
    BY <1>4, <2>1
  <2>3. n \in run.skipped \/ s \in run.stale
    BY <2>1, <2>2 DEF Landed
  <2>4. <<n, s>> \in Owed
    BY DEF Owed, Pairs, Shape
  <2> QED
    BY <2>1, <2>2, <2>3, <2>4 DEF Close
<1>8. timer' \in BOOLEAN
  BY DEF Close, Shape
<1> QED
  BY <1>2, <1>5, <1>6, <1>7, <1>8

(* A user changes: its slot is owed by every node, and queued. *)
LEMMA ChangeStep ==
  ASSUME DirtyInv, NEW s \in Slots, NEW drops \in BOOLEAN, Change(s, drops)
  PROVE  DirtyInv'
<1> USE DEF DirtyInv
<1>1. dirty' \in Seq(Slots) /\ IsInjective(dirty') /\ ToSet(dirty') = ToSet(dirty) \cup {s}
  BY MarkedQueue DEF Change
<1>2. left' \in [change : 0..MaxChange, fault : 0..MaxFault]
  BY Constants DEF Change, Shape
<1>3. owed' \in [Nodes -> SUBSET Slots] /\ \A n \in Nodes : owed'[n] = owed[n] \cup {s}
  BY DEF Change, Shape
<1>4. Shape'
  BY <1>2, <1>3 DEF Change, Shape
<1>5. /\ run' \in PassRecord /\ run'.taken = run.taken /\ run'.todo = run.todo /\ run'.pc = run.pc
      /\ run'.skipped = run.skipped /\ run'.failed = run.failed
      /\ run.pc = "apply" => run'.stale = run.stale \cup {s}
  BY DEF Change, PassShape, PassRecord
<1>6. PassShape' /\ QueueShape'
  BY <1>1, <1>5 DEF PassShape, QueueShape
<1>7. Landed'
  BY <1>3, <1>5 DEF Landed
<1>8. Kept'
  <2> SUFFICES ASSUME NEW n \in Nodes, NEW x \in owed[n] \cup {s}, x \notin ToSet(dirty'), x \notin run.taken
               PROVE  <<n, x>> \in dropped'
    BY <1>3, <1>5 DEF Kept
  <2>1. x # s /\ <<n, x>> \in dropped
    BY <1>1 DEF Kept
  <2> QED
    BY <2>1 DEF Change
<1> QED
  BY <1>4, <1>6, <1>7, <1>8

(* The pass takes slots off the queue. *)
LEMMA BeginStep ==
  ASSUME DirtyInv, Begin
  PROVE  DirtyInv'
<1> USE DEF DirtyInv
<1>1. /\ dirty' = Older /\ run' = Reload("plan", ToSet(Newest), {}, {}, {}, FALSE)
      /\ UNCHANGED <<owed, stale, up, left, dropped>> /\ timer' = FALSE /\ run.pc = "idle"
  BY DEF Begin
<1>2. Shape'
  BY <1>1 DEF Shape
<1>3. QueueShape'
  BY <1>1, TakeSplits DEF QueueShape
<1>4. run' \in PassRecord /\ run'.taken = ToSet(Newest) /\ run'.pc = "plan" /\ run'.todo = {}
  BY <1>1, TakeSplits DEF Reload, PassRecord
<1>5. PassShape' /\ Landed'
  BY <1>4, TakeSplits DEF PassShape, Landed
<1>6. Kept'
  BY <1>1, <1>4, TakeSplits DEF Kept, PassShape
<1> QED
  BY <1>2, <1>3, <1>5, <1>6

(* The plan, or its failure. *)
LEMMA PlanStep ==
  ASSUME DirtyInv, Plan
  PROVE  DirtyInv'
<1> USE DEF DirtyInv
<1>1. /\ UNCHANGED <<owed, up>> /\ run.pc = "plan"
      /\ stale' \in SUBSET Slots
  BY DEF Plan, Shape
<1>2. CASE up # {} /\ UNCHANGED <<dirty, timer, left, dropped>>
           /\ run' = Reload("apply", run.taken, stale', up, Nodes \ up, run.failed)
  <2>1. Shape' /\ QueueShape'
    BY <1>1, <1>2 DEF Shape, QueueShape
  <2>2. run.taken \in SUBSET Slots /\ run.failed \in BOOLEAN /\ up \in SUBSET Nodes
    BY DEF PassShape, PassRecord, Shape
  <2>3. /\ run' \in PassRecord /\ run'.taken = run.taken /\ run'.pc = "apply"
        /\ run'.todo = up /\ run'.skipped = Nodes \ up
    BY <1>1, <1>2, <2>2 DEF Reload, PassRecord
  <2>4. PassShape' /\ Landed'
    BY <2>2, <2>3 DEF PassShape, Landed
  <2>5. Kept'
    BY <1>1, <1>2, <2>3 DEF Kept
  <2> QED
    BY <2>1, <2>4, <2>5
<1>3. CASE Close([run EXCEPT !.failed = TRUE]) /\ (UNCHANGED left \/ Fault)
  <2> DEFINE r == [run EXCEPT !.failed = TRUE]
  <2>1. r \in PassRecord /\ r.taken = run.taken /\ r.failed
    BY DEF PassShape, PassRecord
  <2>2. QueueShape' /\ PassShape' /\ Landed' /\ Kept' /\ dropped' \in SUBSET Pairs /\ timer' \in BOOLEAN
    <3> HIDE DEF r
    <3>1. Close(r)
      BY <1>3 DEF r
    <3> QED
      BY <1>1, <2>1, <3>1, CloseStep
  <2>3. left' \in [change : 0..MaxChange, fault : 0..MaxFault]
    BY <1>3, Constants DEF Fault, Shape
  <2>4. Shape'
    BY <1>1, <2>2, <2>3 DEF Shape
  <2> QED
    BY <2>2, <2>4
<1> QED
  BY <1>2, <1>3 DEF Plan

(* One node's shards are replaced, or the replace fails. *)
LEMMA ApplyStep ==
  ASSUME DirtyInv, NEW n \in Nodes, NEW S \in SUBSET Slots, Apply(n, S)
  PROVE  DirtyInv'
<1> USE DEF DirtyInv
<1>1. /\ UNCHANGED <<stale, dirty, timer, up>> /\ run.pc = "apply" /\ n \in run.todo
      /\ run.taken \subseteq S /\ S \subseteq run.taken \cup owed[n]
  BY DEF Apply
<1>2. QueueShape'
  BY <1>1 DEF QueueShape
<1>3. run \in PassRecord /\ n \notin run.skipped /\ owed \in [Nodes -> SUBSET Slots]
  BY <1>1 DEF PassShape, Shape
<1>4. CASE /\ owed' = [owed EXCEPT ![n] = @ \ (S \ run.stale)]
           /\ run' = [run EXCEPT !.todo = @ \ {n}]
           /\ dropped' = dropped \ ({n} \X (S \ run.stale))
           /\ UNCHANGED left
  <2>1. Shape'
    BY <1>1, <1>3, <1>4 DEF Shape
  <2>2. /\ run' \in PassRecord /\ run'.taken = run.taken /\ run'.pc = run.pc /\ run'.stale = run.stale
        /\ run'.skipped = run.skipped /\ run'.failed = run.failed /\ run'.todo = run.todo \ {n}
    BY <1>3, <1>4 DEF PassRecord
  <2>3. PassShape'
    BY <1>1, <2>2 DEF PassShape
  <2>4. owed'[n] = owed[n] \ (S \ run.stale) /\ \A o \in Nodes \ {n} : owed'[o] = owed[o]
    BY <1>3, <1>4
  <2>5. Landed'
    BY <1>1, <2>2, <2>4 DEF Landed
  <2>6. Kept'
    <3> SUFFICES ASSUME NEW o \in Nodes, NEW s \in owed'[o], s \notin ToSet(dirty), s \notin run.taken
                 PROVE  <<o, s>> \in dropped'
      BY <1>1, <2>2 DEF Kept
    <3>1. s \in owed[o] /\ (o = n => s \notin S \ run.stale)
      BY <2>4
    <3>2. <<o, s>> \in dropped
      BY <3>1 DEF Kept
    <3> QED
      BY <1>4, <3>1, <3>2
  <2> QED
    BY <1>2, <2>1, <2>3, <2>5, <2>6
<1>5. CASE /\ Fault
           /\ \E gone \in SUBSET S : owed' = [owed EXCEPT ![n] = @ \cup gone]
           /\ run' = Reload(run.pc, run.taken, run.stale, run.todo \ {n}, run.skipped, TRUE)
           /\ UNCHANGED dropped
  <2>1. PICK gone \in SUBSET S : owed' = [owed EXCEPT ![n] = @ \cup gone]
    BY <1>5
  <2>2. owed' \in [Nodes -> SUBSET Slots]
    BY <1>3, <2>1
  <2>3. left' \in [change : 0..MaxChange, fault : 0..MaxFault]
    BY <1>5, Constants DEF Fault, Shape
  <2>4. Shape'
    BY <1>1, <1>5, <2>2, <2>3 DEF Shape
  <2>5. /\ run.taken \in SUBSET Slots /\ run.stale \in SUBSET Slots /\ run.todo \ {n} \in SUBSET Nodes
        /\ run.skipped \in SUBSET Nodes
    BY <1>3 DEF PassRecord
  <2>6. /\ run' \in PassRecord /\ run'.taken = run.taken /\ run'.pc = "apply"
        /\ run'.skipped = run.skipped /\ run'.failed = TRUE /\ run'.todo = run.todo \ {n}
    BY <1>1, <1>5, <2>5 DEF PassRecord, Reload
  <2>7. PassShape' /\ Landed'
    BY <2>6 DEF PassShape, Landed
  <2>8. \A o \in Nodes : owed'[o] \subseteq owed[o] \cup run.taken
    BY <1>1, <1>3, <2>1
  <2>9. Kept'
    BY <1>1, <1>5, <2>6, <2>8 DEF Kept
  <2> QED
    BY <1>2, <2>4, <2>7, <2>9
<1> QED
  BY <1>4, <1>5 DEF Apply

(* A new panel process starts with an empty queue: all that is owed is given up. *)
LEMMA RestartStep ==
  ASSUME DirtyInv, PanelRestart
  PROVE  DirtyInv'
<1> USE DEF DirtyInv
<1>1. dirty' = <<>> /\ timer' = FALSE /\ run' = Idle /\ stale' = {} /\ dropped' = dropped \cup Owed
      /\ UNCHANGED <<owed, up>>
  BY DEF PanelRestart
<1>2. left' \in [change : 0..MaxChange, fault : 0..MaxFault]
  BY Constants DEF PanelRestart, Fault, Shape
<1>3. Shape'
  BY <1>1, <1>2 DEF Shape, Owed
<1>4. QueueShape'
  BY <1>1 DEF QueueShape, IsInjective
<1>5. PassShape' /\ Landed'
  BY <1>1, IdlePass, Constants, FS_EmptySet DEF PassShape, Landed
<1>6. \A n \in Nodes : \A s \in owed[n] : <<n, s>> \in Owed
  BY DEF Owed, Pairs, Shape
<1>7. Kept'
  BY <1>1, <1>6 DEF Kept
<1> QED
  BY <1>3, <1>4, <1>5, <1>7

(* Every step keeps the invariant. *)
LEMMA DirtyStep == DirtyInv /\ [Next]_vars => DirtyInv'
<1> SUFFICES ASSUME DirtyInv, [Next]_vars PROVE DirtyInv'
  OBVIOUS
<1>1. timer \in BOOLEAN /\ up \in SUBSET Nodes
  BY DEF DirtyInv, Shape
<1>2. CASE UNCHANGED vars
  BY <1>1, <1>2, Frame DEF vars
<1>3. CASE DirtyJob
  BY <1>1, <1>3, Frame DEF DirtyJob
<1>4. CASE \E n \in Nodes : NodeLost(n) \/ NodeBack(n)
  BY <1>1, <1>4, Frame DEF NodeLost, NodeBack
<1>5. CASE \E s \in Slots, drops \in BOOLEAN : Change(s, drops)
  BY <1>5, ChangeStep
<1>6. CASE Begin
  BY <1>6, BeginStep
<1>7. CASE Plan
  BY <1>7, PlanStep
<1>8. CASE \E n \in Nodes, S \in SUBSET Slots : Apply(n, S)
  BY <1>8, ApplyStep
<1>9. CASE End
  <2>1. run \in PassRecord
    BY DEF DirtyInv, PassShape
  <2>2. QueueShape' /\ PassShape' /\ Landed' /\ Kept' /\ dropped' \in SUBSET Pairs /\ timer' \in BOOLEAN
    BY <1>9, <2>1, CloseStep DEF End
  <2> QED
    BY <1>9, <2>2 DEF End, DirtyInv, Shape
<1>10. CASE PanelRestart
  BY <1>10, RestartStep
<1> QED
  BY <1>2, <1>3, <1>4, <1>5, <1>6, <1>7, <1>8, <1>9, <1>10 DEF Next, Pass

------------------------------------------------------------------------------
(* The inductive invariant holds throughout, whatever fails, is lost or restarts. *)
THEOREM DirtyInvariant == Spec => []DirtyInv
BY InitDirty, DirtyStep, PTL DEF Spec

(* The queue and the pass are well typed: no slot is queued twice
   (mark_finalmask_slots_dirty), a pass takes at most its budget, and a node is either
   served or skipped. *)
THEOREM DirtyTypeCorrect == Spec => []TypeOK
<1>1. DirtyInv => TypeOK
  BY DEF DirtyInv, Shape, QueueShape, PassShape, PassRecord, TypeOK
<1> QED
  BY <1>1, DirtyInvariant, PTL

(* However changes, failed replaces, lost nodes and passes interleave, a change that has
   not landed on a node is queued or in the hands of the pass, unless it was given up in
   one of the named ways. *)
THEOREM NoChangeForgotten == Spec => []NothingForgotten
<1>1. DirtyInv => NothingForgotten
  <2> SUFFICES ASSUME DirtyInv, NEW p \in Owed \ dropped
               PROVE  p[2] \in ToSet(dirty) \cup run.taken
    BY DEF NothingForgotten
  <2>1. PICK n \in Nodes, s \in Slots : p = <<n, s>> /\ s \in owed[n]
    BY DEF Owed, Pairs
  <2> QED
    BY <2>1 DEF DirtyInv, Kept
<1> QED
  BY <1>1, DirtyInvariant, PTL
==============================================================================
