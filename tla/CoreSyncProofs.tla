--------------------------- MODULE CoreSyncProofs ---------------------------
(***************************************************************************)
(* The registry of the live core, for every set of users, threads and      *)
(* restart-only inbounds and every number of changes, events and faults.   *)
(*                                                                         *)
(* RegistryTruth is not inductive: when the registry is rebuilt from the   *)
(* booted config, that config must still describe the core, although a     *)
(* thread that computed its diff for the process before may have changed   *)
(* the new one meanwhile.                                                  *)
(***************************************************************************)
EXTENDS CoreSync, TLAPS

(* Until the registry is rebuilt, the booted config describes the running core,
   except for users a late call has touched. *)
BootTruth ==
  core.up /\ ~reg.current => \A u \in Users \ slip : u \in core.boot <=> u \in core.users

Pc == {"idle", "build", "lock", "apply", "config", "stop", "start", "ensure", "call", "discard"}
Kind == {"none", "reconcile", "now", "cut", "push", "delete", "restart", "fallback", "health"}
Core == [up : BOOLEAN, restarting : BOOLEAN, recent : BOOLEAN, users : SUBSET Users, boot : SUBSET Users]
Thread == [pc : Pc, kind : Kind, set : SUBSET Users, adds : SUBSET Users, removes : SUBSET Users]

(* The types as the provers need them: the records have these fields and no other. *)
Shape ==
  /\ want \subseteq Users /\ gone \subseteq Users \ want
  /\ core \in Core
  /\ reg \in [users : SUBSET Users, current : BOOLEAN]
  /\ thread \in [Threads -> Thread]
  /\ left \in [change : 0..MaxChange, event : 0..MaxEvent, fault : 0..MaxFault]
  /\ slip \subseteq Users

(* _hot_lock is held by the thread that applies its calls, and a core that is being
   restarted is not up. *)
LockShape ==
  /\ lock \in Threads \cup {Nobody}
  /\ \A t \in Threads : thread[t].pc = "apply" <=> lock = t
  /\ core.up => ~core.restarting

(* The inductive invariant. *)
RegistryInv == Shape /\ LockShape /\ BootTruth /\ RegistryTruth

-----------------------------------------------------------------------------
(* The constants, as the provers use them. *)
LEMMA Constants ==
  /\ MaxChange \in Nat /\ MaxEvent \in Nat /\ MaxFault \in Nat
  /\ Nobody \notin Threads /\ Reload \subseteq Users /\ Hot \subseteq Users
  /\ Reconciler \in Threads /\ Health \in Threads /\ Workers \subseteq Threads
BY CoreConstants DEF Threads, Hot

(* At the start the core serves the config it booted with. *)
LEMMA InitRegistry == Init => RegistryInv
BY Constants DEF Init, RegistryInv, Shape, LockShape, BootTruth, RegistryTruth, Process, Core, Idle,
   Task, Thread, Pc, Kind

(* A thread is well formed whatever users it was given. *)
LEMMA TaskType ==
  ASSUME NEW pc \in Pc, NEW kind \in Kind, NEW set \in SUBSET Users,
         NEW adds \in SUBSET Users, NEW removes \in SUBSET Users
  PROVE  /\ Task(pc, kind, set, adds, removes) \in Thread
         /\ Task(pc, kind, set, adds, removes).pc = pc
BY DEF Task, Thread

(* Setting one thread keeps the others. *)
LEMMA SetType ==
  ASSUME Shape, NEW t \in Threads, NEW r \in Thread, Set(t, r)
  PROVE  /\ thread' \in [Threads -> Thread]
         /\ thread'[t] = r
         /\ \A o \in Threads \ {t} : thread'[o] = thread[o]
BY DEF Shape, Set

(* A thread that gives up goes idle or on to a restart, and no other thread moves. *)
LEMMA FailedType ==
  ASSUME Shape, NEW t \in Threads, Failed(t)
  PROVE  /\ thread' \in [Threads -> Thread]
         /\ thread'[t].pc \in {"idle", "config"}
         /\ \A o \in Threads \ {t} : thread'[o] = thread[o]
<1>1. Idle \in Thread /\ Idle.pc = "idle"
  BY TaskType DEF Idle, Pc, Kind
<1>2. /\ Task("config", "fallback", {}, {}, {}) \in Thread
      /\ Task("config", "fallback", {}, {}, {}).pc = "config"
  BY TaskType DEF Pc, Kind
<1>3. CASE Set(t, Idle)
  BY <1>1, <1>3, SetType
<1>4. CASE Set(t, Task("config", "fallback", {}, {}, {}))
  BY <1>2, <1>4, SetType
<1> QED
  BY <1>3, <1>4 DEF Failed

(* The two bounds of the environment are spent one at a time. *)
LEMMA LeftType ==
  ASSUME Shape, Event \/ Fault \/ UNCHANGED left
  PROVE  left' \in [change : 0..MaxChange, event : 0..MaxEvent, fault : 0..MaxFault]
<1> USE Constants DEF Shape
<1>1. CASE Event
  BY <1>1 DEF Event
<1>2. CASE Fault
  BY <1>2 DEF Fault
<1> QED
  BY <1>1, <1>2

(* The rebuilt registry is well typed. *)
LEMMA EnsuredType ==
  ASSUME Shape
  PROVE  /\ EnsuredRegistry \in [users : SUBSET Users, current : BOOLEAN]
         /\ EnsuredRegistry.current
BY DEF Shape, Core, EnsuredRegistry

-----------------------------------------------------------------------------
(* What a step does to the core, the registry and the slips decides whether the
   registry still tells the truth; there are six ways. *)
LEMMA TruthKept ==
  ASSUME RegistryInv,
         \/ UNCHANGED <<core, reg, slip>>
         \/ ~core'.up
         \/ reg' = EnsuredRegistry /\ UNCHANGED <<core, slip>>
         \/ core'.users = core'.boot /\ ~reg'.current /\ slip' = {}
  PROVE  BootTruth' /\ RegistryTruth'
BY DEF RegistryInv, Shape, BootTruth, RegistryTruth, EnsuredRegistry

(* The fifth: a call for one user, made or swallowed, and the registry's note of it. *)
LEMMA CallTruth ==
  ASSUME RegistryInv, NEW u \in Users, NEW served \in SUBSET Users, NEW noted \in SUBSET Users,
         \A v \in Users \ {u} : v \in served <=> v \in core.users,
         \A v \in Users \ {u} : v \in noted <=> v \in reg.users,
         u \in noted <=> u \in served,
         reg' = [reg EXCEPT !.users = noted],
         Done(u, served) \/ Swallowed(u)
  PROVE  BootTruth' /\ RegistryTruth'
<1> USE DEF RegistryInv, Shape, Core
<1>1. reg'.users = noted /\ reg'.current = reg.current
  OBVIOUS
<1>2. CASE Done(u, served)
  <2>1. core'.up = core.up /\ core'.boot = core.boot /\ core'.users = served
    BY <1>2 DEF Done
  <2>2. slip' = IF reg.current THEN slip \ {u} ELSE slip \cup {u}
    BY <1>2 DEF Done
  <2> QED
    BY <1>1, <2>1, <2>2 DEF BootTruth, RegistryTruth
<1>3. CASE Swallowed(u)
  <2>1. core' = core /\ slip' = IF core.up /\ reg.current THEN slip \cup {u} ELSE slip
    BY <1>3 DEF Swallowed
  <2> QED
    BY <1>1, <2>1 DEF BootTruth, RegistryTruth
<1> QED
  BY <1>2, <1>3

(* The sixth: a call the registry does not learn of. *)
LEMMA UnnotedTruth ==
  ASSUME RegistryInv, NEW u \in Users, NEW served \in SUBSET Users,
         \A v \in Users \ {u} : v \in served <=> v \in core.users,
         Unnoted(u, served), reg' = reg
  PROVE  /\ BootTruth' /\ RegistryTruth'
         /\ core' \in Core /\ core'.up = core.up /\ core'.restarting = core.restarting
         /\ slip' \subseteq Users
<1> USE DEF RegistryInv, Shape
<1>1. core' = [core EXCEPT !.users = served]
  BY DEF Unnoted
<1>2. /\ core' \in Core /\ core'.up = core.up /\ core'.restarting = core.restarting
      /\ core'.boot = core.boot /\ core'.users = served
  BY <1>1 DEF Core
<1>3. slip' \subseteq Users /\ slip \subseteq slip' /\ (served # core.users => u \in slip')
  BY DEF Unnoted
<1> QED
  BY <1>2, <1>3 DEF BootTruth, RegistryTruth

-----------------------------------------------------------------------------
(* Steps that only move a thread towards its lock or its restart. *)
LEMMA ThreadSteps ==
  ASSUME RegistryInv, NEW t \in Threads,
         \/ t = Reconciler /\ Reconcile
         \/ t = Health /\ BeginHealth
         \/ BeginSync(t) \/ BeginRestart(t)
         \/ \E u \in Users : BeginCut(t, u) \/ BeginPush(t, u) \/ BeginDelete(t, u)
         \/ Build(t) \/ Config(t)
  PROVE  RegistryInv'
<1> USE Constants DEF RegistryInv
<1>1. UNCHANGED <<want, gone, core, reg, lock, slip>>
  BY DEF Reconcile, BeginHealth, BeginSync, BeginRestart, BeginCut, BeginPush, BeginDelete, Build, Config
<1>2. Event \/ Fault \/ UNCHANGED left
  BY DEF Reconcile, BeginHealth, BeginSync, BeginRestart, BeginCut, BeginPush, BeginDelete, Build, Config
<1>3. thread[t].pc # "apply"
  BY DEF Reconcile, BeginHealth, BeginSync, BeginRestart, BeginCut, BeginPush, BeginDelete, Build, Config
<1>4. PICK k \in Kind, s \in SUBSET Users, pc \in {"build", "lock", "config", "stop", "call"} :
         Set(t, Task(pc, k, s, {}, {})) \/ Failed(t)
  <2>1. thread[t].kind \in Kind /\ core.boot \in SUBSET Users /\ want \in SUBSET Users
    BY DEF Shape, Thread, Core
  <2>2. CASE (t = Reconciler /\ Reconcile) \/ BeginSync(t) \/ BeginRestart(t)
    BY <2>2 DEF Reconcile, BeginSync, BeginRestart, Kind
  <2>3. CASE t = Health /\ BeginHealth
    BY <2>1, <2>3 DEF BeginHealth, Kind
  <2>4. CASE \E u \in Users : BeginCut(t, u) \/ BeginPush(t, u) \/ BeginDelete(t, u)
    BY <2>4 DEF BeginCut, BeginPush, BeginDelete, Kind
  <2>5. CASE Build(t)
    BY <2>1, <2>5 DEF Build
  <2>6. CASE Config(t)
    BY <2>1, <2>6 DEF Config
  <2> QED
    BY <2>2, <2>3, <2>4, <2>5, <2>6
<1>5. /\ thread' \in [Threads -> Thread]
      /\ thread'[t].pc # "apply"
      /\ \A o \in Threads \ {t} : thread'[o] = thread[o]
  <2>1. CASE Failed(t)
    BY <2>1, FailedType
  <2>2. CASE Set(t, Task(pc, k, s, {}, {}))
    <3>1. /\ Task(pc, k, s, {}, {}) \in Thread
          /\ Task(pc, k, s, {}, {}).pc # "apply"
      BY TaskType DEF Pc
    <3> QED
      BY <2>2, <3>1, SetType
  <2> QED
    BY <1>4, <2>1, <2>2
<1>6. Shape'
  BY <1>1, <1>2, <1>5, LeftType DEF Shape
<1>7. LockShape'
  BY <1>1, <1>3, <1>5 DEF LockShape
<1>8. BootTruth' /\ RegistryTruth'
  BY <1>1, TruthKept
<1> QED
  BY <1>6, <1>7, <1>8

(* Taking the lock, or failing to need it, makes the registry current. *)
LEMMA LockSteps ==
  ASSUME RegistryInv, NEW t \in Threads, LockSync(t) \/ LockOne(t) \/ Ensure(t)
  PROVE  RegistryInv'
<1> USE Constants DEF RegistryInv
<1>1. /\ reg' = EnsuredRegistry /\ UNCHANGED <<want, gone, core, left, slip>>
      /\ lock = Nobody /\ lock' \in {t, Nobody}
      /\ thread[t].pc # "apply"
  BY DEF LockSync, LockOne, Ensure, LockFree, LockShape
<1>2. BootTruth' /\ RegistryTruth'
  BY <1>1, TruthKept
<1>3. thread[t] \in Thread /\ reg' \in [users : SUBSET Users, current : BOOLEAN]
  BY <1>1, EnsuredType DEF Shape
<1>4. /\ thread' \in [Threads -> Thread]
      /\ thread'[t].pc = "apply" <=> lock' = t
      /\ \A o \in Threads \ {t} : thread'[o] = thread[o]
  <2>1. ASSUME NEW r \in Thread, r.pc = "apply", Set(t, r), lock' = t
        PROVE  <1>4!:
    BY <2>1, SetType
  <2>2. ASSUME NEW r \in Thread, r.pc = "idle", Set(t, r), lock' = lock
        PROVE  <1>4!:
    BY <1>1, <2>2, SetType
  <2>3. ASSUME Failed(t), lock' = lock
        PROVE  <1>4!:
    BY <1>1, <2>3, FailedType
  <2>4. CASE Ensure(t)
    <3>1. Idle \in Thread /\ Idle.pc = "idle"
      BY TaskType DEF Idle, Pc, Kind
    <3> QED
      BY <2>2, <2>4, <3>1 DEF Ensure
  <2>5. CASE LockSync(t)
    <3> DEFINE a == (thread[t].set \ EnsuredRegistry.users) \cap Hot
               b == (EnsuredRegistry.users \ thread[t].set) \cap Hot
               r == Task("apply", thread[t].kind, {}, a, b)
    <3>1. r \in Thread /\ r.pc = "apply"
      <4>1. a \in SUBSET Users /\ b \in SUBSET Users /\ thread[t].kind \in Kind
        BY <1>3 DEF Thread
      <4> HIDE DEF a, b
      <4> QED
        BY <4>1, TaskType DEF Pc
    <3>2. (Failed(t) /\ lock' = lock) \/ (lock' = t /\ Set(t, r))
      BY <2>5 DEF LockSync
    <3> HIDE DEF r
    <3> QED
      BY <2>1, <2>3, <3>1, <3>2
  <2>6. CASE LockOne(t)
    <3>1. thread[t].set \in SUBSET Users /\ reg'.users \in SUBSET Users
      BY <1>3 DEF Thread
    <3> DEFINE c == thread[t].set \cap reg'.users \cap Hot
               r == Task("apply", "push", {}, thread[t].set, thread[t].set)
               q == Task("apply", "cut", {}, {}, c)
    <3>2. c \in SUBSET Users
      BY <3>1
    <3>3. r \in Thread /\ r.pc = "apply"
      BY <3>1, TaskType DEF Pc, Kind
    <3>4. q \in Thread /\ q.pc = "apply"
      <4> HIDE DEF c
      <4> QED
        BY <3>2, TaskType DEF Pc, Kind
    <3>5. lock' = t /\ (Set(t, r) \/ Set(t, q))
      BY <2>6 DEF LockOne
    <3> HIDE DEF r, q
    <3> QED
      BY <2>1, <3>3, <3>4, <3>5
  <2> QED
    BY <2>4, <2>5, <2>6
<1>5. Shape'
  BY <1>1, <1>3, <1>4 DEF Shape
<1>6. LockShape'
  BY <1>1, <1>4 DEF LockShape
<1> QED
  BY <1>2, <1>5, <1>6

(* One call of an apply loop, or its end.  Only the thread that holds the lock moves. *)
LEMMA ApplySteps ==
  ASSUME RegistryInv, NEW t \in Threads,
         Unlock(t) \/ \E u \in Users : AddUser(t, u) \/ RemoveUser(t, u)
  PROVE  RegistryInv'
<1> USE Constants DEF RegistryInv
<1>1. thread[t].pc = "apply" /\ lock = t /\ want' = want /\ gone' = gone
  BY DEF AddUser, RemoveUser, Unlock, LockShape
<1>2. thread[t] \in Thread /\ \A o \in Threads \ {t} : thread[o].pc # "apply"
  BY <1>1 DEF Shape, LockShape
<1>3. ASSUME NEW u \in Users, NEW served \in SUBSET Users, Raised(t, u, served),
             \A v \in Users \ {u} : v \in served <=> v \in core.users
      PROVE  RegistryInv'
  <2>1. /\ thread' \in [Threads -> Thread] /\ thread'[t].pc # "apply"
        /\ \A o \in Threads \ {t} : thread'[o] = thread[o]
    BY <1>3, FailedType DEF Raised
  <2>2. lock' = Nobody /\ reg' = reg /\ Fault /\ (Unnoted(u, served) \/ UNCHANGED <<core, slip>>)
    BY <1>3 DEF Raised
  <2>3. /\ BootTruth' /\ RegistryTruth'
        /\ core' \in Core /\ core'.up = core.up /\ core'.restarting = core.restarting
        /\ slip' \subseteq Users
    <3>1. CASE Unnoted(u, served)
      BY <1>3, <2>2, <3>1, UnnotedTruth
    <3>2. CASE UNCHANGED <<core, slip>>
      BY <2>2, <3>2, TruthKept DEF Shape
    <3> QED
      BY <2>2, <3>1, <3>2
  <2>4. Shape'
    BY <1>1, <2>1, <2>2, <2>3, LeftType DEF Shape
  <2>5. LockShape'
    BY <1>2, <2>1, <2>2, <2>3 DEF LockShape
  <2> QED
    BY <2>3, <2>4, <2>5
<1>4. CASE Unlock(t)
  <2>1. Idle \in Thread /\ Idle.pc = "idle"
    BY TaskType DEF Idle, Pc, Kind
  <2>2. /\ thread' \in [Threads -> Thread] /\ thread'[t].pc # "apply"
        /\ \A o \in Threads \ {t} : thread'[o] = thread[o]
    BY <1>4, <2>1, SetType DEF Unlock
  <2>3. lock' = Nobody /\ UNCHANGED <<core, reg, left, slip>>
    BY <1>4 DEF Unlock
  <2>4. Shape'
    BY <1>1, <2>2, <2>3 DEF Shape
  <2>5. LockShape'
    BY <1>2, <2>2, <2>3 DEF LockShape
  <2> QED
    BY <2>3, <2>4, <2>5, TruthKept
<1>5. ASSUME NEW u \in Users, NEW served \in SUBSET Users, NEW noted \in SUBSET Users,
             Done(u, served) \/ Swallowed(u), reg' = [reg EXCEPT !.users = noted],
             thread' \in [Threads -> Thread], lock' = lock,
             \A o \in Threads : thread'[o].pc = thread[o].pc
      PROVE  Shape' /\ LockShape'
  <2>1. reg' \in [users : SUBSET Users, current : BOOLEAN]
    BY <1>5 DEF Shape
  <2>2. /\ core' \in Core
        /\ core'.up = core.up /\ core'.restarting = core.restarting
    BY <1>5 DEF Shape, Core, Done, Swallowed
  <2>3. slip' \subseteq Users /\ (Fault \/ UNCHANGED left)
    BY <1>5 DEF Shape, Done, Swallowed
  <2>4. Shape'
    BY <1>1, <1>5, <2>1, <2>2, <2>3, LeftType DEF Shape
  <2>5. LockShape'
    BY <1>5, <2>2 DEF LockShape
  <2> QED
    BY <2>4, <2>5
<1>6. ASSUME NEW u \in Users, AddUser(t, u), ~Raised(t, u, core.users \cup {u}) PROVE RegistryInv'
  <2>1. /\ Done(u, core.users \cup {u}) \/ Swallowed(u)
        /\ reg' = [reg EXCEPT !.users = reg.users \cup {u}] /\ lock' = lock
        /\ thread' = [thread EXCEPT ![t].adds = @ \ {u}]
    BY <1>6 DEF AddUser
  <2>2. thread' \in [Threads -> Thread] /\ \A o \in Threads : thread'[o].pc = thread[o].pc
    BY <2>1 DEF Shape, Thread
  <2>3. core.users \cup {u} \in SUBSET Users /\ reg.users \cup {u} \in SUBSET Users
    BY DEF Shape, Core
  <2>4. Shape' /\ LockShape'
    BY <1>5, <2>1, <2>2, <2>3
  <2>5. BootTruth' /\ RegistryTruth'
    BY <2>1, <2>3, CallTruth
  <2> QED
    BY <2>4, <2>5
<1>7. ASSUME NEW u \in Users, RemoveUser(t, u), ~Raised(t, u, core.users \ {u}) PROVE RegistryInv'
  <2>1. /\ Done(u, core.users \ {u}) \/ Swallowed(u)
        /\ reg' = [reg EXCEPT !.users = reg.users \ {u}] /\ lock' = lock
        /\ thread' = [thread EXCEPT ![t].removes = @ \ {u}]
    BY <1>7 DEF RemoveUser
  <2>2. thread' \in [Threads -> Thread] /\ \A o \in Threads : thread'[o].pc = thread[o].pc
    BY <2>1 DEF Shape, Thread
  <2>3. core.users \ {u} \in SUBSET Users /\ reg.users \ {u} \in SUBSET Users
    BY DEF Shape, Core
  <2>4. Shape' /\ LockShape'
    BY <1>5, <2>1, <2>2, <2>3
  <2>5. BootTruth' /\ RegistryTruth'
    BY <2>1, <2>3, CallTruth
  <2> QED
    BY <2>4, <2>5
<1>8. ASSUME NEW u \in Users, AddUser(t, u) PROVE RegistryInv'
  <2>1. core.users \cup {u} \in SUBSET Users
    BY DEF Shape, Core
  <2> QED
    BY <1>3, <1>6, <1>8, <2>1
<1>9. ASSUME NEW u \in Users, RemoveUser(t, u) PROVE RegistryInv'
  <2>1. core.users \ {u} \in SUBSET Users
    BY DEF Shape, Core
  <2> QED
    BY <1>3, <1>7, <1>9, <2>1
<1> QED
  BY <1>4, <1>8, <1>9

(* The removal of a deleted user: a call without the lock, and the registry's note of
   it under the lock. *)
LEMMA DeleteSteps ==
  ASSUME RegistryInv, NEW t \in Threads, NEW u \in Users, CallRemove(t, u) \/ Discard(t, u)
  PROVE  RegistryInv'
<1> USE Constants DEF RegistryInv
<1>1. UNCHANGED <<want, gone, lock>> /\ thread[t].pc # "apply"
  BY DEF CallRemove, Discard
<1>2. /\ thread' \in [Threads -> Thread]
      /\ \A o \in Threads : thread'[o].pc = "apply" <=> thread[o].pc = "apply"
  <2>1. CASE Set(t, Idle)
    <3>1. Idle \in Thread /\ Idle.pc = "idle"
      BY TaskType DEF Idle, Pc, Kind
    <3> QED
      BY <1>1, <2>1, <3>1, SetType
  <2>2. CASE Goto(t, "discard")
    BY <1>1, <2>2 DEF Goto, Shape, Thread, Pc
  <2> QED
    BY <2>1, <2>2 DEF CallRemove, Discard
<1>3. Fault \/ UNCHANGED left
  BY DEF CallRemove, Discard
<1>4. /\ BootTruth' /\ RegistryTruth'
      /\ core' \in Core /\ core'.up = core.up /\ core'.restarting = core.restarting
      /\ slip' \subseteq Users /\ reg' \in [users : SUBSET Users, current : BOOLEAN]
  <2>1. CASE CallRemove(t, u) /\ Unnoted(u, core.users \ {u})
    <3>1. core.users \ {u} \in SUBSET Users
      BY DEF Shape, Core
    <3>2. reg' = reg
      BY <2>1 DEF CallRemove
    <3> QED
      BY <2>1, <3>1, <3>2, UnnotedTruth DEF Shape
  <2>2. CASE CallRemove(t, u) /\ UNCHANGED <<core, slip>>
    <3>1. reg' = reg
      BY <2>2 DEF CallRemove
    <3> QED
      BY <2>2, <3>1, TruthKept DEF Shape
  <2>3. CASE Discard(t, u)
    <3>1. core' = core /\ reg' = [reg EXCEPT !.users = @ \ {u}]
      BY <2>3 DEF Discard
    <3>2. /\ reg' \in [users : SUBSET Users, current : BOOLEAN]
          /\ reg'.current = reg.current /\ reg'.users = reg.users \ {u}
      BY <3>1 DEF Shape
    <3>3. /\ ~(reg.current /\ core.up) => slip' = slip
          /\ reg.current /\ core.up /\ u \in core.users => slip' = slip \cup {u}
          /\ reg.current /\ core.up /\ u \notin core.users => slip' = slip \ {u}
      BY <2>3 DEF Discard
    <3>4. slip' \subseteq Users
      BY <3>3 DEF Shape
    <3>5. BootTruth' /\ RegistryTruth'
      BY <3>1, <3>2, <3>3 DEF BootTruth, RegistryTruth, Shape
    <3> QED
      BY <3>1, <3>2, <3>4, <3>5 DEF Shape
  <2> QED
    BY <2>1, <2>2, <2>3 DEF CallRemove
<1>5. Shape'
  BY <1>1, <1>2, <1>3, <1>4, LeftType DEF Shape
<1>6. LockShape'
  BY <1>1, <1>2, <1>4 DEF LockShape
<1> QED
  BY <1>4, <1>5, <1>6

(* The process: it crashes, cools down, is stopped, and boots a config. *)
LEMMA CoreSteps ==
  ASSUME RegistryInv, NEW t \in Threads, CoreCrash \/ CooledDown \/ Stop(t) \/ Start(t)
  PROVE  RegistryInv'
<1> USE Constants DEF RegistryInv
<1>1. want' = want /\ gone' = gone /\ lock' = lock
  BY DEF CoreCrash, CooledDown, Stop, Start
<1>2. thread[t] \in Thread
  BY DEF Shape
<1>3. /\ thread' \in [Threads -> Thread]
      /\ \A o \in Threads : thread'[o].pc = "apply" <=> thread[o].pc = "apply"
  <2>1. Idle \in Thread /\ Idle.pc = "idle"
    BY TaskType DEF Idle, Pc, Kind
  <2>2. ASSUME NEW pc \in {"start", "ensure"}, Goto(t, pc), thread[t].pc # "apply" PROVE <1>3!:
    BY <2>2 DEF Goto, Shape, Thread, Pc
  <2>3. ASSUME Set(t, Idle), thread[t].pc # "apply" PROVE <1>3!:
    BY <2>1, <2>3, SetType
  <2>4. CASE CoreCrash \/ CooledDown
    BY <2>4 DEF CoreCrash, CooledDown, Shape
  <2>5. CASE Stop(t)
    <3>1. thread[t].pc # "apply" /\ (Goto(t, "start") \/ Goto(t, "ensure") \/ Set(t, Idle))
      BY <2>5 DEF Stop
    <3> QED
      BY <2>2, <2>3, <3>1
  <2>6. CASE Start(t)
    <3>1. thread[t].pc # "apply" /\ (Goto(t, "ensure") \/ Set(t, Idle))
      BY <2>6 DEF Start
    <3> QED
      BY <2>2, <2>3, <3>1
  <2> QED
    BY <2>4, <2>5, <2>6
<1>4. LockShape' /\ core' \in Core
  <2>1. core' \in Core
    <3>1. CASE CoreCrash
      <4>1. core' = Process(FALSE, core.restarting, core.recent, {}, core.boot)
        BY <3>1 DEF CoreCrash
      <4>2. core.restarting \in BOOLEAN /\ core.recent \in BOOLEAN /\ core.boot \in SUBSET Users
        BY DEF Shape, Core
      <4> QED
        BY <4>1, <4>2 DEF Process, Core
    <3>2. CASE Stop(t)
      <4>1. core' = Process(FALSE, TRUE, core.recent, {}, core.boot) \/ core' = core
        BY <3>2 DEF Stop
      <4>2. core.boot \in SUBSET Users /\ core.recent \in BOOLEAN
        BY DEF Shape, Core
      <4>3. CASE core' = Process(FALSE, TRUE, core.recent, {}, core.boot)
        BY <4>2, <4>3 DEF Process, Core
      <4>4. CASE core' = core
        BY <4>4 DEF Shape
      <4> QED
        BY <4>1, <4>3, <4>4
    <3>3. CASE Start(t)
      <4>1. CASE core' = Process(TRUE, FALSE, TRUE, thread[t].set, thread[t].set)
        <5>1. thread[t].set \in SUBSET Users
          BY <1>2 DEF Thread
        <5> QED
          BY <4>1, <5>1 DEF Process, Core
      <4>2. CASE core' = [core EXCEPT !.restarting = FALSE]
        BY <4>2 DEF Shape, Core
      <4> QED
        BY <3>3, <4>1, <4>2 DEF Start
    <3>4. CASE CooledDown
      BY <3>4 DEF CooledDown, Shape, Core
    <3> QED
      BY <3>1, <3>2, <3>3, <3>4
  <2>2. core'.up => ~core'.restarting
    BY <1>2 DEF CoreCrash, CooledDown, Stop, Start, Process, Shape, Core, LockShape
  <2> QED
    BY <1>1, <1>3, <2>1, <2>2 DEF LockShape
<1>5. Shape'
  <2>1. slip' \subseteq Users /\ (Fault \/ UNCHANGED left)
    BY DEF CoreCrash, CooledDown, Stop, Start, Shape
  <2>2. reg' \in [users : SUBSET Users, current : BOOLEAN]
    BY DEF CoreCrash, CooledDown, Stop, Start, Shape
  <2> QED
    BY <1>1, <1>3, <1>4, <2>1, <2>2, LeftType DEF Shape
<1>6. BootTruth' /\ RegistryTruth'
  <2>1. CASE CoreCrash
    BY <2>1, TruthKept DEF CoreCrash, Process
  <2>2. CASE Stop(t)
    BY <2>2, TruthKept DEF Stop, Process
  <2>3. CASE Start(t)
    <3>1. \/ core' = Process(TRUE, FALSE, TRUE, thread[t].set, thread[t].set)
             /\ reg' = [reg EXCEPT !.current = FALSE] /\ slip' = {}
          \/ core' = [core EXCEPT !.restarting = FALSE] /\ UNCHANGED <<reg, slip>>
      BY <2>3 DEF Start
    <3>2. CASE core' = Process(TRUE, FALSE, TRUE, thread[t].set, thread[t].set)
               /\ reg' = [reg EXCEPT !.current = FALSE] /\ slip' = {}
      <4>1. core'.users = core'.boot /\ ~reg'.current
        BY <3>2 DEF Process, Shape
      <4> QED
        BY <3>2, <4>1, TruthKept
    <3>3. CASE core' = [core EXCEPT !.restarting = FALSE] /\ UNCHANGED <<reg, slip>>
      BY <3>3 DEF Shape, Core, BootTruth, RegistryTruth
    <3> QED
      BY <3>1, <3>2, <3>3
  <2>4. CASE CooledDown
    BY <2>4 DEF CooledDown, Shape, Core, BootTruth, RegistryTruth
  <2> QED
    BY <2>1, <2>2, <2>3, <2>4
<1> QED
  BY <1>4, <1>5, <1>6

(* A commit in the database concerns nothing but the wanted users. *)
LEMMA ChangeStep ==
  ASSUME RegistryInv, NEW u \in Users, ChangeStatus(u) \/ DeleteUser(u)
  PROVE  RegistryInv'
<1> USE Constants DEF RegistryInv, ChangeStatus, DeleteUser
<1>1. Shape'
  BY DEF Shape
<1>2. LockShape'
  BY DEF LockShape
<1> QED
  BY <1>1, <1>2, TruthKept

(* Every step keeps the invariant. *)
LEMMA RegistryStep ==
  ASSUME RegistryInv, [Next]_vars
  PROVE  RegistryInv'
<1> USE Constants
<1>1. ASSUME NEW u \in Users, ChangeStatus(u) \/ DeleteUser(u) PROVE RegistryInv'
  BY <1>1, ChangeStep
<1>2. CASE CoreCrash \/ CooledDown
  BY <1>2, CoreSteps
<1>3. ASSUME NEW t \in Threads, Stop(t) \/ Start(t) PROVE RegistryInv'
  BY <1>3, CoreSteps
<1>4. CASE Reconcile \/ BeginHealth
  BY <1>4, ThreadSteps
<1>5. ASSUME NEW t \in Threads, BeginSync(t) \/ BeginRestart(t) \/ Build(t) \/ Config(t)
      PROVE  RegistryInv'
  BY <1>5, ThreadSteps
<1>6. ASSUME NEW t \in Threads, NEW u \in Users,
             BeginCut(t, u) \/ BeginPush(t, u) \/ BeginDelete(t, u)
      PROVE  RegistryInv'
  BY <1>6, ThreadSteps
<1>7. ASSUME NEW t \in Threads, LockSync(t) \/ LockOne(t) \/ Ensure(t) PROVE RegistryInv'
  BY <1>7, LockSteps
<1>8. ASSUME NEW t \in Threads, NEW u \in Users, AddUser(t, u) \/ RemoveUser(t, u)
      PROVE  RegistryInv'
  BY <1>8, ApplySteps
<1>9. ASSUME NEW t \in Threads, Unlock(t) PROVE RegistryInv'
  BY <1>9, ApplySteps
<1>10. ASSUME NEW t \in Threads, NEW u \in Users, CallRemove(t, u) \/ Discard(t, u)
       PROVE  RegistryInv'
  BY <1>10, DeleteSteps
<1>11. CASE UNCHANGED vars
  BY <1>11 DEF vars, RegistryInv, Shape, LockShape, BootTruth, RegistryTruth
<1> QED
  BY <1>1, <1>2, <1>3, <1>4, <1>5, <1>6, <1>7, <1>8, <1>9, <1>10, <1>11
  DEF Next, Work

-----------------------------------------------------------------------------
(* The inductive invariant holds throughout, whatever syncs, restarts and fails. *)
THEOREM RegistryInvariant == Spec => []RegistryInv
BY InitRegistry, RegistryStep, PTL DEF Spec

(* Threads, registry, core and lock are well typed; in particular _hot_lock excludes:
   a thread applies calls exactly while it holds the lock. *)
THEOREM CoreTypeCorrect == Spec => []TypeOK
<1>1. RegistryInv => TypeOK
  BY DEF RegistryInv, Shape, LockShape, TypeOK, Thread, Core, Pc, Kind
<1> QED
  BY <1>1, RegistryInvariant, PTL

(* For any number of threads, users, restarts and failures the registry is what the
   core has, except for users whose call was swallowed, timed out with its work done,
   hit a replaced core or was made outside the lock. *)
THEOREM RegistryTellsTruth == Spec => []RegistryTruth
<1>1. RegistryInv => RegistryTruth
  BY DEF RegistryInv
<1> QED
  BY <1>1, RegistryInvariant, PTL
=============================================================================
