------------------------------ MODULE HALeader ------------------------------
(***************************************************************************)
(* Leader election among panel instances that share a database             *)
(* (app/ha.py): a Redis key with a time to live, renewed by a thread of    *)
(* every instance, and run_if_leader, which lets a scheduled job start     *)
(* only on the leader.  Time is a unit clock: an instance is due when its  *)
(* renewal interval is over, and while nothing goes wrong time does not    *)
(* pass over an instance that is due or in the middle of its requests to   *)
(* Redis.  A stall is a unit of time that does.                            *)
(***************************************************************************)
EXTENDS Integers, FiniteSets

CONSTANTS
  Instance,        \* panel processes with role "all" and HA enabled
  TTL,             \* HA_LEADER_TTL, in units of the clock
  Interval,        \* the renewal interval, max(TTL // 3, 1)
  MaxFault,        \* bound: Redis errors, stalls, and stops that catch the renewal
                   \* thread between two requests
  MaxDown          \* bound: crashes and orderly stops

ASSUME HAConstants ==
  /\ IsFiniteSet(Instance) /\ Instance # {}
  /\ Interval \in Nat \ {0} /\ TTL \in Nat /\ Interval < TTL
  /\ MaxFault \in Nat /\ MaxDown \in Nat

Nobody == "nobody"
ASSUME NobodyIsNoInstance == Nobody \notin Instance

VARIABLES
  key,             \* the Redis key: its holder and the time it has left
  pc,              \* the renewal thread of every instance
  due,             \* time to its next renewal
  lead,            \* _is_leader
  job,             \* whether a leader-only job is running
  stopping,        \* where an orderly shutdown is
  faults, downs    \* bounds used up

vars == <<key, pc, due, lead, job, stopping, faults, downs>>

Free == [holder |-> Nobody, left |-> 0]
Held(i) == [holder |-> i, left |-> TTL]

\* down: no process; wait: sleeping; set, get, renew: before that Redis request.
Phase == {"down", "wait", "set", "get", "renew"}

TypeOK ==
  /\ key \in [holder : Instance \cup {Nobody}, left : 0..TTL]
  /\ key.holder = Nobody <=> key.left = 0
  /\ pc \in [Instance -> Phase]
  /\ due \in [Instance -> 0..Interval]
  /\ lead \in [Instance -> BOOLEAN] /\ job \in [Instance -> BOOLEAN]
  /\ stopping \in [Instance -> {"no", "get", "delete", "exit"}]
  /\ faults \in 0..MaxFault /\ downs \in 0..MaxDown

Init ==
  /\ key = Free
  /\ pc = [i \in Instance |-> "down"]
  /\ due = [i \in Instance |-> 0]
  /\ lead = [i \in Instance |-> FALSE]
  /\ job = [i \in Instance |-> FALSE]
  /\ stopping = [i \in Instance |-> "no"]
  /\ faults = 0 /\ downs = 0

------------------------------------------------------------------------------
(* The renewal thread.                                                      *)

\* start() acquires at once, before the scheduler is started.
Start(i) ==
  /\ pc[i] = "down" /\ stopping[i] = "no"
  /\ pc' = [pc EXCEPT ![i] = "set"]
  /\ UNCHANGED <<key, due, lead, job, stopping, faults, downs>>

\* The loop wakes after the interval, unless the instance is being stopped.
Wake(i) ==
  /\ pc[i] = "wait" /\ due[i] = 0 /\ stopping[i] = "no"
  /\ pc' = [pc EXCEPT ![i] = "set"]
  /\ UNCHANGED <<key, due, lead, job, stopping, faults, downs>>

\* The loop stores the outcome and sleeps.
Conclude(i, leader) ==
  /\ lead' = [lead EXCEPT ![i] = leader]
  /\ pc' = [pc EXCEPT ![i] = "wait"]
  /\ due' = [due EXCEPT ![i] = Interval]

\* Mutant: the key is set without NX.
SetAlways(i) ==
  /\ pc[i] = "set"
  /\ key' = Held(i)
  /\ Conclude(i, TRUE)
  /\ UNCHANGED <<job, stopping, faults, downs>>

\* SET NX PX: takes the key when nobody holds it.
SetNX(i) ==
  /\ pc[i] = "set"
  /\ \/ /\ key.holder = Nobody
        /\ key' = Held(i)
        /\ Conclude(i, TRUE)
     \/ /\ key.holder # Nobody
        /\ pc' = [pc EXCEPT ![i] = "get"]
        /\ UNCHANGED <<key, due, lead>>
  /\ UNCHANGED <<job, stopping, faults, downs>>

\* Mutant: any holder is taken for this instance.
GetKeyAny(i) ==
  /\ pc[i] = "get"
  /\ pc' = [pc EXCEPT ![i] = "renew"]
  /\ UNCHANGED <<key, due, lead, job, stopping, faults, downs>>

\* GET: only the holder goes on to renew.
GetKey(i) ==
  /\ pc[i] = "get"
  /\ \/ /\ key.holder = i
        /\ pc' = [pc EXCEPT ![i] = "renew"]
        /\ UNCHANGED <<due, lead>>
     \/ /\ key.holder # i
        /\ Conclude(i, FALSE)
  /\ UNCHANGED <<key, job, stopping, faults, downs>>

\* Mutant: the renewal adds to the time the key has left.
RenewExtends(i) ==
  /\ pc[i] = "renew"
  /\ key' = [holder |-> i, left |-> key.left + TTL]
  /\ Conclude(i, TRUE)
  /\ UNCHANGED <<job, stopping, faults, downs>>

\* SET PX, without NX: the key is this instance's, whoever holds it by now.
Renew(i) ==
  /\ pc[i] = "renew"
  /\ key' = Held(i)
  /\ Conclude(i, TRUE)
  /\ UNCHANGED <<job, stopping, faults, downs>>

\* Any error of the three requests: "assuming follower".  A request whose reply is
\* lost may have been carried out.
RedisError(i) ==
  /\ pc[i] \in {"set", "get", "renew"} /\ faults < MaxFault
  /\ faults' = faults + 1
  /\ \/ UNCHANGED key
     \/ /\ pc[i] = "renew" \/ (pc[i] = "set" /\ key.holder = Nobody)
        /\ key' = Held(i)
  /\ Conclude(i, FALSE)
  /\ UNCHANGED <<job, stopping, downs>>

------------------------------------------------------------------------------
(* Jobs.                                                                    *)

\* run_if_leader: the role is looked up once, before the job runs.
StartJob(i) ==
  /\ pc[i] # "down" /\ stopping[i] = "no" /\ lead[i] /\ ~job[i]
  /\ job' = [job EXCEPT ![i] = TRUE]
  /\ UNCHANGED <<key, pc, due, lead, stopping, faults, downs>>

EndJob(i) ==
  /\ job[i]
  /\ job' = [job EXCEPT ![i] = FALSE]
  /\ UNCHANGED <<key, pc, due, lead, stopping, faults, downs>>

------------------------------------------------------------------------------
(* Going down.                                                              *)

Gone(i) ==
  /\ pc' = [pc EXCEPT ![i] = "down"]
  /\ due' = [due EXCEPT ![i] = 0]
  /\ lead' = [lead EXCEPT ![i] = FALSE]
  /\ job' = [job EXCEPT ![i] = FALSE]
  /\ stopping' = [stopping EXCEPT ![i] = "no"]

Crash(i) ==
  /\ pc[i] # "down" /\ downs < MaxDown
  /\ downs' = downs + 1
  /\ Gone(i)
  /\ UNCHANGED <<key, faults>>

\* Mutant: the shutdown does not wait for the jobs.
StopWithJobs(i) ==
  /\ pc[i] = "wait" /\ stopping[i] = "no" /\ downs < MaxDown
  /\ downs' = downs + 1
  /\ stopping' = [stopping EXCEPT ![i] = "get"]
  /\ UNCHANGED <<key, pc, due, lead, job, faults>>

\* on_shutdown: scheduler.shutdown() waits for the jobs, then stop() sets the
\* stop event; a renewal under way runs on.
Stop(i) ==
  /\ pc[i] # "down" /\ stopping[i] = "no" /\ ~job[i] /\ downs < MaxDown
  /\ downs' = downs + 1
  /\ \/ pc[i] = "wait" /\ UNCHANGED faults
     \/ pc[i] # "wait" /\ faults < MaxFault /\ faults' = faults + 1
  /\ stopping' = [stopping EXCEPT ![i] = "get"]
  /\ UNCHANGED <<key, pc, due, lead, job>>

\* stop() releases the key in two requests, GET and DELETE.
StopGet(i) ==
  /\ stopping[i] = "get"
  /\ \/ /\ key.holder = i
        /\ stopping' = [stopping EXCEPT ![i] = "delete"]
     \/ /\ key.holder # i
        /\ stopping' = [stopping EXCEPT ![i] = "exit"]
  /\ UNCHANGED <<key, pc, due, lead, job, faults, downs>>

StopDelete(i) ==
  /\ stopping[i] = "delete"
  /\ key' = Free
  /\ stopping' = [stopping EXCEPT ![i] = "exit"]
  /\ UNCHANGED <<pc, due, lead, job, faults, downs>>

\* An error of either request is ignored: the key stays until it expires, unless the
\* DELETE was carried out and only its reply was lost.
StopError(i) ==
  /\ stopping[i] \in {"get", "delete"} /\ faults < MaxFault
  /\ faults' = faults + 1
  /\ UNCHANGED key \/ (stopping[i] = "delete" /\ key' = Free)
  /\ stopping' = [stopping EXCEPT ![i] = "exit"]
  /\ UNCHANGED <<pc, due, lead, job, downs>>

\* The process ends, and its daemon threads with it.
Exit(i) ==
  /\ stopping[i] = "exit"
  /\ Gone(i)
  /\ UNCHANGED <<key, faults, downs>>

------------------------------------------------------------------------------
(* Time.                                                                    *)

Pressed(i) ==
  \/ pc[i] \in {"set", "get", "renew"}
  \/ pc[i] = "wait" /\ due[i] = 0
  \/ stopping[i] # "no"

\* One unit of time: the key of a holder that does not renew expires.
Pass ==
  /\ key' = IF key.left <= 1 THEN Free ELSE [key EXCEPT !.left = @ - 1]
  /\ due' = [i \in Instance |-> IF due[i] > 0 THEN due[i] - 1 ELSE 0]
  /\ UNCHANGED <<pc, lead, job, stopping, downs>>

Tick ==
  /\ \A i \in Instance : ~Pressed(i)
  /\ Pass
  /\ UNCHANGED faults

\* A paused process or a slow Redis: time passes over somebody's turn.
Stall ==
  /\ \E i \in Instance : Pressed(i)
  /\ faults < MaxFault /\ faults' = faults + 1
  /\ Pass

------------------------------------------------------------------------------
Step(i) == Wake(i) \/ SetNX(i) \/ GetKey(i) \/ Renew(i) \/ StopGet(i) \/ StopDelete(i) \/ Exit(i)

Next ==
  \/ Tick \/ Stall
  \/ \E i \in Instance :
       Start(i) \/ Step(i) \/ RedisError(i) \/ StopError(i) \/ StartJob(i) \/ EndJob(i) \/ Crash(i) \/ Stop(i)

Spec == Init /\ [][Next]_vars

\* Threads run on and time passes; nobody has to start, stop or fail.
Fairness == WF_vars(Tick) /\ \A i \in Instance : WF_vars(Step(i))

FairSpec == Spec /\ Fairness

------------------------------------------------------------------------------
(* Correctness.                                                             *)

Up == {i \in Instance : pc[i] # "down" /\ stopping[i] = "no"}
Leaders == {i \in Up : lead[i]}

\* While Redis answers, no instance is late and no stop catches a renewal under
\* way, whoever believes to lead holds
\* an unexpired key, through starts, crashes and orderly stops.
LeaderHoldsKey == faults = 0 => \A i \in Leaders : key.holder = i

\* Then a leader-only job never runs on two instances at once, although the role
\* is not looked at again while it runs and a leader may be stopped meanwhile.
JobRunsOnce == faults = 0 => Cardinality({i \in Instance : job[i]}) <= 1

\* Two instances may both lead after a stall or an error, but only until the
\* renewal of one of them: in the end exactly one of those that are up leads.
OneLeaderInTheEnd == <>[](Up # {} => Cardinality(Leaders) = 1)
=============================================================================
