------------------------------ MODULE CoreSync ------------------------------
(***************************************************************************)
(* Keeping the main Xray core aligned with the users table                 *)
(* (app/xray/serving.py, app/xray/core.py, app/jobs/0_xray_core.py).       *)
(*                                                                         *)
(* The core cannot list its users, so the panel keeps a registry of what   *)
(* it believes it has pushed; every live change is an API call followed by *)
(* a registry update under _hot_lock.  The registry is rebuilt from the    *)
(* booted config when the core was restarted underneath (the generation    *)
(* counter, here the flag "current").  Restarts take a lock of their own,  *)
(* so a core may be replaced while a hot sync is applying its diff, and    *)
(* the removal of a deleted user (app/sync/hot_apply.py) calls the core    *)
(* without the lock and takes it only to update the registry.              *)
(* One inbound per user; the users of Reload sit on inbounds that can only *)
(* change with a restart (SS-2022).                                        *)
(***************************************************************************)
EXTENDS Integers, FiniteSets

CONSTANTS
  Users,
  Reload,          \* users on restart-only inbounds
  Reconciler,      \* the periodic reconcile job (max_instances = 1)
  Health,          \* the health check job (max_instances = 1)
  Workers,         \* event threads: outbox drain, debounced sync, disconnects
  MaxChange,       \* bound: changes of a user's status in the database
  MaxEvent,        \* bound: events the workers handle
  MaxFault         \* bound: failed API calls, core crashes and failed starts

Threads == {Reconciler, Health} \cup Workers
Hot == Users \ Reload
Nobody == "nobody"

ASSUME CoreConstants ==
  /\ Reload \subseteq Users
  /\ Reconciler # Health /\ Workers \cap {Reconciler, Health} = {}
  /\ Nobody \notin Threads
  /\ MaxChange \in Nat /\ MaxEvent \in Nat /\ MaxFault \in Nat

VARIABLES
  want,            \* users the database serves (active, on_hold)
  gone,            \* users deleted from it
  core,            \* the process: up, restarting, restarted within the cooldown, its
                   \* users, the config it booted with
  reg,             \* _registered, and whether it belongs to the running core
  lock,            \* the holder of _hot_lock
  thread,          \* the threads in flight
  left,            \* what is left of the three bounds
  slip             \* history: users whose last call left registry and core unlike, or
                   \* may have

vars == <<want, gone, core, reg, lock, thread, left, slip>>

\* A thread: where it is, what for, the users it was given or has read, and the
\* calls it still has to make.
Task(pc, kind, set, adds, removes) ==
  [pc |-> pc, kind |-> kind, set |-> set, adds |-> adds, removes |-> removes]
Idle == Task("idle", "none", {}, {}, {})
Process(up, restarting, recent, users, boot) ==
  [up |-> up, restarting |-> restarting, recent |-> recent, users |-> users, boot |-> boot]

TypeOK ==
  /\ want \subseteq Users /\ gone \subseteq Users \ want
  /\ {core.up, core.restarting, core.recent} \subseteq BOOLEAN
  /\ core.users \subseteq Users /\ core.boot \subseteq Users
  /\ core.up => ~core.restarting
  /\ reg.users \subseteq Users /\ reg.current \in BOOLEAN
  /\ lock \in Threads \cup {Nobody}
  /\ \A t \in Threads :
        /\ thread[t].pc \in {"idle", "build", "lock", "apply", "config", "stop", "start", "ensure",
                           "call", "discard"}
        /\ thread[t].kind \in {"none", "reconcile", "now", "cut", "push", "delete", "restart",
                             "fallback", "health"}
        /\ thread[t].set \subseteq Users
        /\ thread[t].adds \cup thread[t].removes \subseteq Users
        /\ thread[t].pc = "apply" <=> lock = t
  /\ left.change \in 0..MaxChange /\ left.event \in 0..MaxEvent
  /\ left.fault \in 0..MaxFault
  /\ slip \subseteq Users

------------------------------------------------------------------------------
Set(t, r) == thread' = [thread EXCEPT ![t] = r]
Goto(t, pc) == thread' = [thread EXCEPT ![t].pc = pc]
Event == left.event > 0 /\ left' = [left EXCEPT !.event = @ - 1]
Fault == left.fault > 0 /\ left' = [left EXCEPT !.fault = @ - 1]

\* core.started and not core.restarting.
Serving == core.up /\ ~core.restarting

\* Mutant: the new generation is noted, the registry kept.
RegistryKept == [reg EXCEPT !.current = TRUE]

\* Mutant: the lock is not waited for.
LockIgnored == TRUE

\* _hot_lock can be taken.
LockFree == lock = Nobody

\* _ensure_registry_current: rebuilt from the booted config after a restart.
EnsuredRegistry ==
  IF reg.current THEN reg ELSE [users |-> core.boot, current |-> TRUE]

\* A sync that reports False or raises: the reconcile gives up until its next run,
\* sync_core_users_now restarts the core unless the grace period or the minimum
\* interval forbids it.
Failed(t) ==
  \/ Set(t, Idle)
  \/ thread[t].kind = "now" /\ Set(t, Task("config", "fallback", {}, {}, {}))

------------------------------------------------------------------------------
(* The database and the core process.                                        *)

ChangeStatus(u) ==
  /\ left.change > 0 /\ left' = [left EXCEPT !.change = @ - 1]
  /\ u \notin gone
  /\ want' = IF u \in want THEN want \ {u} ELSE want \cup {u}
  /\ UNCHANGED <<gone, core, reg, lock, thread, slip>>

DeleteUser(u) ==
  /\ left.change > 0 /\ left' = [left EXCEPT !.change = @ - 1]
  /\ u \notin gone
  /\ want' = want \ {u} /\ gone' = gone \cup {u}
  /\ UNCHANGED <<core, reg, lock, thread, slip>>

CoreCrash ==
  /\ Fault /\ core.up
  /\ core' = Process(FALSE, core.restarting, core.recent, {}, core.boot)
  /\ UNCHANGED <<want, gone, reg, lock, thread, slip>>

\* _HEALTH_RESTART_COOLDOWN_SEC have passed since the last restart.
CooledDown ==
  /\ core.recent /\ core' = [core EXCEPT !.recent = FALSE]
  /\ UNCHANGED <<want, gone, reg, lock, thread, left, slip>>

------------------------------------------------------------------------------
(* Hot sync.                                                                 *)

\* reconcile_core_users, every JOB_CORE_USER_RECONCILE_INTERVAL.
Reconcile ==
  /\ thread[Reconciler].pc = "idle"
  /\ Set(Reconciler, Task("build", "reconcile", {}, {}, {}))
  /\ UNCHANGED <<want, gone, core, reg, lock, left, slip>>

\* sync_core_users_now, debounced or immediate.
BeginSync(t) ==
  /\ thread[t].pc = "idle" /\ Event
  /\ Set(t, Task("build", "now", {}, {}, {}))
  /\ UNCHANGED <<want, gone, core, reg, lock, slip>>

\* hot_sync_main_core up to the lock: the probe, then the desired users are read
\* from the database.
Build(t) ==
  /\ thread[t].pc = "build"
  /\ \/ Serving /\ Set(t, Task("lock", thread[t].kind, want, {}, {})) /\ UNCHANGED left
     \/ ~Serving /\ Failed(t) /\ UNCHANGED left
     \/ Serving /\ Fault /\ Failed(t)
  /\ UNCHANGED <<want, gone, core, reg, lock, slip>>

\* Under the lock: the registry is made current and the diff taken; a diff on a
\* restart-only inbound gives the whole sync up.
LockSync(t) ==
  LET have == EnsuredRegistry.users  desired == thread[t].set IN
  /\ thread[t].pc = "lock" /\ thread[t].kind \in {"reconcile", "now"}
  /\ LockFree
  /\ reg' = EnsuredRegistry
  /\ IF desired \cap Reload # have \cap Reload
     THEN Failed(t) /\ UNCHANGED lock
     ELSE /\ lock' = t
          /\ Set(t, Task("apply", thread[t].kind, {}, (desired \ have) \cap Hot, (have \ desired) \cap Hot))
  /\ UNCHANGED <<want, gone, core, left, slip>>

\* hot_disconnect_users: the status is the caller's, the registry decides what is
\* removed.
BeginCut(t, u) ==
  /\ thread[t].pc = "idle" /\ Event /\ Serving /\ u \notin want
  /\ Set(t, Task("lock", "cut", {u}, {}, {}))
  /\ UNCHANGED <<want, gone, core, reg, lock, slip>>

\* sync_main_core_user for a user loaded as billable: remove, then add.
BeginPush(t, u) ==
  /\ thread[t].pc = "idle" /\ Event /\ Serving /\ u \in want \cap Hot
  /\ Set(t, Task("lock", "push", {u}, {}, {}))
  /\ UNCHANGED <<want, gone, core, reg, lock, slip>>

LockOne(t) ==
  /\ thread[t].pc = "lock" /\ thread[t].kind \in {"cut", "push"}
  /\ LockFree /\ lock' = t
  /\ reg' = EnsuredRegistry
  /\ IF thread[t].kind = "push"
     THEN Set(t, Task("apply", "push", {}, thread[t].set, thread[t].set))
     ELSE Set(t, Task("apply", "cut", {}, {}, thread[t].set \cap reg'.users \cap Hot))
  /\ UNCHANGED <<want, gone, core, left, slip>>

(* How a call ends: done by the core; a ConnectionError, which is swallowed;  *)
(* or, for an error the helpers do not catch (a timeout), an exception, when   *)
(* the core may have done it all the same and the registry does not learn it.  *)
Done(u, users) ==
  /\ core.up /\ core' = [core EXCEPT !.users = users]
  /\ slip' = IF reg.current THEN slip \ {u} ELSE slip \cup {u}
  /\ UNCHANGED left
Swallowed(u) ==
  /\ \/ ~core.up /\ UNCHANGED left
     \/ core.up /\ Fault
  /\ slip' = IF core.up /\ reg.current THEN slip \cup {u} ELSE slip
  /\ UNCHANGED core
Unnoted(u, users) ==
  /\ core.up /\ core' = [core EXCEPT !.users = users]
  /\ slip' = IF users # core.users THEN slip \cup {u} ELSE slip
Raised(t, u, users) ==
  /\ Fault /\ lock' = Nobody /\ Failed(t)
  /\ Unnoted(u, users) \/ UNCHANGED <<core, slip>>
  /\ UNCHANGED reg

\* _api_add_user, _api_remove_user: the registry follows whatever the call did.
AddUser(t, u) ==
  /\ thread[t].pc = "apply" /\ u \in thread[t].adds
  /\ thread[t].kind = "push" => thread[t].removes = {}
  /\ \/ /\ Done(u, core.users \cup {u}) \/ Swallowed(u)
        /\ reg' = [reg EXCEPT !.users = @ \cup {u}]
        /\ thread' = [thread EXCEPT ![t].adds = @ \ {u}]
        /\ UNCHANGED lock
     \/ Raised(t, u, core.users \cup {u})
  /\ UNCHANGED <<want, gone>>
RemoveUser(t, u) ==
  /\ thread[t].pc = "apply" /\ u \in thread[t].removes
  /\ thread[t].kind # "push" => thread[t].adds = {}
  /\ \/ /\ Done(u, core.users \ {u}) \/ Swallowed(u)
        /\ reg' = [reg EXCEPT !.users = @ \ {u}]
        /\ thread' = [thread EXCEPT ![t].removes = @ \ {u}]
        /\ UNCHANGED lock
     \/ Raised(t, u, core.users \ {u})
  /\ UNCHANGED <<want, gone>>

Unlock(t) ==
  /\ thread[t].pc = "apply" /\ thread[t].adds = {} /\ thread[t].removes = {}
  /\ lock' = Nobody /\ Set(t, Idle)
  /\ UNCHANGED <<want, gone, core, reg, left, slip>>

\* apply_delete, on a core that answers: _api_remove_user for a deleted user,
\* registered or not.
BeginDelete(t, u) ==
  /\ thread[t].pc = "idle" /\ Event /\ Serving /\ u \in gone \cap Hot
  /\ Set(t, Task("call", "delete", {u}, {}, {}))
  /\ UNCHANGED <<want, gone, core, reg, lock, slip>>

\* The call is made without _hot_lock, on whatever core there is then.
CallRemove(t, u) ==
  /\ thread[t].pc = "call" /\ u \in thread[t].set
  /\ \/ Unnoted(u, core.users \ {u}) /\ Goto(t, "discard") /\ UNCHANGED left
     \/ Unnoted(u, core.users \ {u}) /\ Set(t, Idle) /\ Fault
     \/ /\ \/ ~core.up /\ UNCHANGED left
           \/ core.up /\ Fault
        /\ Goto(t, "discard") \/ Set(t, Idle)
        /\ UNCHANGED <<core, slip>>
  /\ UNCHANGED <<want, gone, reg, lock>>

\* The registry drops the user, an add that a sync made meanwhile included.
Discard(t, u) ==
  /\ thread[t].pc = "discard" /\ u \in thread[t].set /\ LockFree
  /\ reg' = [reg EXCEPT !.users = @ \ {u}]
  /\ slip' = CASE ~(reg.current /\ core.up) -> slip
               [] reg.current /\ core.up /\ u \in core.users -> slip \cup {u}
               [] OTHER -> slip \ {u}
  /\ Set(t, Idle)
  /\ UNCHANGED <<want, gone, core, lock, left>>

------------------------------------------------------------------------------
(* Restarts.                                                                 *)

\* force_full_core_restart and the forced syncs.
BeginRestart(t) ==
  /\ thread[t].pc = "idle" /\ Event
  /\ Set(t, Task("config", "restart", {}, {}, {}))
  /\ UNCHANGED <<want, gone, core, reg, lock, slip>>

\* core_health_check: a dead core, or one whose API did not answer for several
\* ticks, is restarted with the config it last booted with.
BeginHealth ==
  /\ thread[Health].pc = "idle" /\ ~core.restarting /\ ~core.recent
  /\ \/ ~core.up /\ UNCHANGED left
     \/ core.up /\ Fault
  /\ Set(Health, Task("stop", "health", core.boot, {}, {}))
  /\ UNCHANGED <<want, gone, core, reg, lock, slip>>

\* _full_restart_sync: the config is built from the database first.
Config(t) ==
  /\ thread[t].pc = "config"
  /\ Set(t, Task("stop", thread[t].kind, want, {}, {}))
  /\ UNCHANGED <<want, gone, core, reg, lock, left, slip>>

\* XRayCore.restart takes the lifecycle lock; a recent restart makes an unforced
\* one return at once, whether the core is up or not.
Stop(t) ==
  /\ thread[t].pc = "stop" /\ ~core.restarting
  /\ \/ /\ thread[t].kind = "restart" \/ ~core.recent
        /\ core' = Process(FALSE, TRUE, core.recent, {}, core.boot)
        /\ Goto(t, "start")
     \/ /\ thread[t].kind # "restart" /\ core.recent /\ UNCHANGED core
        /\ IF thread[t].kind = "health" THEN Set(t, Idle) ELSE Goto(t, "ensure")
  /\ UNCHANGED <<want, gone, reg, lock, left, slip>>

\* _start_process boots the config, records it and bumps the generation; ports
\* that stay busy leave the core down.
Start(t) ==
  /\ thread[t].pc = "start"
  /\ \/ /\ core' = Process(TRUE, FALSE, TRUE, thread[t].set, thread[t].set)
        /\ reg' = [reg EXCEPT !.current = FALSE]
        /\ slip' = {}
        /\ UNCHANGED left
     \/ /\ Fault /\ core' = [core EXCEPT !.restarting = FALSE]
        /\ UNCHANGED <<reg, slip>>
  /\ IF thread[t].kind = "health" THEN Set(t, Idle) ELSE Goto(t, "ensure")
  /\ UNCHANGED <<want, gone, lock>>

\* _full_restart_sync ends by making the registry current.
Ensure(t) ==
  /\ thread[t].pc = "ensure" /\ LockFree
  /\ reg' = EnsuredRegistry
  /\ Set(t, Idle)
  /\ UNCHANGED <<want, gone, core, lock, left, slip>>

------------------------------------------------------------------------------
Init ==
  /\ want = Users /\ gone = {}
  /\ core = Process(TRUE, FALSE, FALSE, Users, Users)
  /\ reg = [users |-> {}, current |-> FALSE]
  /\ lock = Nobody /\ slip = {}
  /\ thread = [t \in Threads |-> Idle]
  /\ left = [change |-> MaxChange, event |-> MaxEvent, fault |-> MaxFault]

Work(t) ==
  \/ Build(t) \/ LockSync(t) \/ LockOne(t) \/ Unlock(t)
  \/ \E u \in Users : AddUser(t, u) \/ RemoveUser(t, u) \/ CallRemove(t, u) \/ Discard(t, u)
  \/ Config(t) \/ Stop(t) \/ Start(t) \/ Ensure(t)
Next ==
  \/ \E u \in Users : ChangeStatus(u) \/ DeleteUser(u)
  \/ CoreCrash \/ CooledDown
  \/ Reconcile
  \/ BeginHealth
  \/ \E t \in Workers : BeginSync(t) \/ BeginRestart(t)
                        \/ \E u \in Users : BeginCut(t, u) \/ BeginPush(t, u) \/ BeginDelete(t, u)
  \/ \E t \in Threads : Work(t)

\* The scheduler keeps running both jobs, and a thread that started goes on (every
\* RPC has a timeout).
Spec ==
  /\ Init /\ [][Next]_vars
  /\ WF_vars(Reconcile) /\ WF_vars(BeginHealth) /\ WF_vars(CooledDown)
  /\ \A t \in Threads : WF_vars(Work(t))

------------------------------------------------------------------------------
(* The registry is what the core has: they disagree only about a user whose   *)
(* last call failed silently, timed out with its work done, hit a core that    *)
(* was replaced during the call, or removed the user outside the lock (the     *)
(* generation protocol of _ensure_registry_current across restarts).           *)
RegistryTruth ==
  core.up /\ reg.current => \A u \in Users \ slip : u \in reg.users <=> u \in core.users

(* The periodic reconcile is a safety net: once the database is quiet, every   *)
(* hot user settles to the state the database wants, whatever syncs with       *)
(* older desired sets, crashes and restarts with an old config came before -   *)
(* except users hidden by a slip, and unless a restart-only inbound drifted.   *)
Drifted == want \cap Reload # core.users \cap Reload
Converges ==
  <>[](core.up /\ (Drifted \/ \A u \in Hot \ slip : u \in want <=> u \in core.users))

==============================================================================
