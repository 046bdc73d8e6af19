--------------------------- MODULE HALeaderProofs ---------------------------
(***************************************************************************)
(* Leader election for every number of instances, every lease and renewal  *)
(* interval, and every number of crashes, stops and starts.                *)
(*                                                                         *)
(* That a leader holds the key is not inductive: a tick may expire the key *)
(* and a renewal may overwrite it.  It follows from the arithmetic of the  *)
(* lease, that the time the key has left and the time to its holder's next *)
(* renewal run down together, and from what an instance that is between    *)
(* two requests to Redis has learned from the first.                       *)
(***************************************************************************)
EXTENDS HALeader, FiniteSetTheorems, TLAPS

(* An instance that is down keeps nothing. *)
DownShape ==
  \A i \in Instance : pc[i] = "down" => due[i] = 0 /\ ~lead[i] /\ ~job[i] /\ stopping[i] = "no"

(* While nothing has gone wrong: a renewal under way starts when the interval is
   over, a stop finds the renewal thread asleep, and what GET answered still holds
   when SET or DELETE is sent. *)
Learned ==
  /\ \A i \in Instance : pc[i] \in {"set", "get", "renew"} => due[i] = 0 /\ stopping[i] = "no"
  /\ \A i \in Instance : pc[i] = "renew" => key.holder = i
  /\ \A i \in Instance : stopping[i] = "delete" => key.holder = i

(* The lease: the leader's key expires TTL - Interval after its next renewal. *)
Lease ==
  \A i \in Instance :
    lead[i] /\ stopping[i] = "no" => key.holder = i /\ key.left = TTL - Interval + due[i]

(* A job runs only on a leader that is not being stopped. *)
JobsOfLeader == \A i \in Instance : job[i] => lead[i] /\ stopping[i] = "no"

(* The inductive invariant. *)
LeaseInv ==
  /\ TypeOK
  /\ DownShape
  /\ faults = 0 => Learned /\ Lease /\ JobsOfLeader

-----------------------------------------------------------------------------
(* The constants, as the provers use them. *)
LEMMA Constants ==
  /\ Interval \in Nat /\ TTL \in Nat /\ 0 < Interval /\ Interval < TTL
  /\ MaxFault \in Nat /\ MaxDown \in Nat /\ Nobody \notin Instance
BY HAConstants, NobodyIsNoInstance

(* At the start nobody runs and nobody holds the key. *)
LEMMA InitLease == Init => LeaseInv
BY Constants DEF Init, LeaseInv, TypeOK, DownShape, Learned, Lease, JobsOfLeader, Free, Phase

(* Every step keeps the types. *)
LEMMA TypeStep ==
  ASSUME TypeOK, [Next]_vars
  PROVE  TypeOK'
<1> USE Constants DEF TypeOK, Phase
<1>1. CASE Tick
  BY <1>1 DEF Tick, Pass, Free
<1>2. CASE Stall
  BY <1>2 DEF Stall, Pass, Free
<1>3. ASSUME NEW i \in Instance, NEW b \in BOOLEAN, Conclude(i, b)
      PROVE  /\ pc' \in [Instance -> Phase]
             /\ due' \in [Instance -> 0..Interval]
             /\ lead' \in [Instance -> BOOLEAN]
  BY <1>3 DEF Conclude
<1>4. \A i \in Instance : /\ Held(i) \in [holder : Instance \cup {Nobody}, left : 0..TTL]
                         /\ Held(i).holder # Nobody /\ Held(i).left # 0
  BY DEF Held
<1>5. ASSUME NEW i \in Instance, Start(i) \/ Wake(i)
      PROVE  TypeOK'
  BY <1>5 DEF Start, Wake
<1>6. ASSUME NEW i \in Instance, SetNX(i)
      PROVE  TypeOK'
  <2>1. CASE key.holder = Nobody
    BY <1>3, <1>4, <1>6, <2>1 DEF SetNX
  <2>2. CASE key.holder # Nobody
    BY <1>6, <2>2 DEF SetNX
  <2> QED
    BY <2>1, <2>2
<1>7. ASSUME NEW i \in Instance, GetKey(i)
      PROVE  TypeOK'
  <2>1. CASE key.holder = i
    BY <1>7, <2>1 DEF GetKey
  <2>2. CASE key.holder # i
    BY <1>3, <1>7, <2>2 DEF GetKey
  <2> QED
    BY <2>1, <2>2
<1>8. ASSUME NEW i \in Instance, Renew(i)
      PROVE  TypeOK'
  BY <1>3, <1>4, <1>8 DEF Renew
<1>9. ASSUME NEW i \in Instance, RedisError(i)
      PROVE  TypeOK'
  <2>1. faults < MaxFault /\ faults' = faults + 1
    BY <1>9 DEF RedisError
  <2>2. faults' \in 0..MaxFault
    BY <2>1
  <2>3. Conclude(i, FALSE) /\ UNCHANGED <<job, stopping, downs>>
    BY <1>9 DEF RedisError
  <2>4. key' = key \/ key' = Held(i)
    BY <1>9 DEF RedisError
  <2>5. /\ key' \in [holder : Instance \cup {Nobody}, left : 0..TTL]
        /\ key'.holder = Nobody <=> key'.left = 0
    BY <1>4, <2>4
  <2> QED
    BY <1>3, <2>2, <2>3, <2>5
<1>10. ASSUME NEW i \in Instance, StopError(i)
       PROVE  TypeOK'
  <2>1. faults < MaxFault /\ faults' = faults + 1
    BY <1>10 DEF StopError
  <2>2. faults' \in 0..MaxFault
    BY <2>1
  <2>3. stopping' = [stopping EXCEPT ![i] = "exit"] /\ UNCHANGED <<pc, due, lead, job, downs>>
    BY <1>10 DEF StopError
  <2>4. key' = key \/ key' = Free
    BY <1>10 DEF StopError
  <2>5. /\ key' \in [holder : Instance \cup {Nobody}, left : 0..TTL]
        /\ key'.holder = Nobody <=> key'.left = 0
    BY <2>4 DEF Free
  <2> QED
    BY <2>2, <2>3, <2>5
<1>11. ASSUME NEW i \in Instance, StartJob(i) \/ EndJob(i)
       PROVE  TypeOK'
  BY <1>11 DEF StartJob, EndJob
<1>12. ASSUME NEW i \in Instance, Stop(i) \/ StopGet(i) \/ StopDelete(i)
       PROVE  TypeOK'
  BY <1>12 DEF Stop, StopGet, StopDelete, Free
<1>13. ASSUME NEW i \in Instance, Gone(i)
       PROVE  /\ pc' \in [Instance -> Phase]
              /\ due' \in [Instance -> 0..Interval]
              /\ lead' \in [Instance -> BOOLEAN] /\ job' \in [Instance -> BOOLEAN]
              /\ stopping' \in [Instance -> {"no", "get", "delete", "exit"}]
  BY <1>13 DEF Gone
<1>14. ASSUME NEW i \in Instance, Crash(i) \/ Exit(i)
       PROVE  TypeOK'
  BY <1>13, <1>14 DEF Crash, Exit
<1>15. CASE UNCHANGED vars
  BY <1>15 DEF vars
<1> QED
  BY <1>1, <1>2, <1>5, <1>6, <1>7, <1>8, <1>9, <1>10, <1>11, <1>12, <1>14, <1>15 DEF Next, Step

(* ... and leaves nothing behind of an instance that went down. *)
LEMMA DownStep ==
  ASSUME TypeOK, DownShape, [Next]_vars
  PROVE  DownShape'
<1> USE DEF TypeOK, DownShape, Phase, Conclude, Gone, Pass
<1>1. CASE Tick \/ Stall \/ UNCHANGED vars
  BY <1>1 DEF Tick, Stall, vars
<1>2. ASSUME NEW i \in Instance, Start(i) \/ Wake(i) \/ GetKey(i) \/ SetNX(i) \/ Renew(i) \/ RedisError(i)
      PROVE  DownShape'
  BY <1>2 DEF Start, Wake, GetKey, SetNX, Renew, RedisError
<1>3. ASSUME NEW i \in Instance, StartJob(i) \/ EndJob(i) \/ Crash(i) \/ Exit(i)
      PROVE  DownShape'
  BY <1>3 DEF StartJob, EndJob, Crash, Exit
<1>4. ASSUME NEW i \in Instance, Stop(i) \/ StopGet(i) \/ StopDelete(i) \/ StopError(i)
      PROVE  DownShape'
  BY <1>4 DEF Stop, StopGet, StopDelete, StopError
<1> QED
  BY <1>1, <1>2, <1>3, <1>4 DEF Next, Step

-----------------------------------------------------------------------------
(* Time passes only when nobody is due, so a leader's key outlives the tick. *)
LEMMA TickLease ==
  ASSUME LeaseInv, Tick, faults' = 0
  PROVE  (Learned /\ Lease /\ JobsOfLeader)'
<1> USE Constants DEF LeaseInv, Tick, Pass
<1>0. faults = 0 /\ \A i \in Instance : ~Pressed(i)
  OBVIOUS
<1>1. \A i \in Instance : /\ pc[i] \notin {"set", "get", "renew"} /\ stopping[i] = "no"
                          /\ pc[i] = "wait" => due[i] # 0
  BY <1>0 DEF Pressed
<1>2. Learned'
  BY <1>1 DEF Learned
<1>3. Lease'
  <2> SUFFICES ASSUME NEW i \in Instance, lead[i]
               PROVE  key'.holder = i /\ key'.left = TTL - Interval + due'[i]
    BY DEF Lease
  <2>1. key.holder = i /\ key.left = TTL - Interval + due[i]
    BY <1>0, <1>1 DEF Lease
  <2>2. due[i] \in 1..Interval
    BY <1>1 DEF TypeOK, DownShape, Phase
  <2>3. key.left > 1 /\ due'[i] = due[i] - 1
    BY <2>1, <2>2
  <2>4. key' = [key EXCEPT !.left = @ - 1] /\ key \in [holder : Instance \cup {Nobody}, left : 0..TTL]
    BY <2>1, <2>2, <2>3 DEF TypeOK
  <2>5. key'.holder = key.holder /\ key'.left = key.left - 1
    BY <2>4
  <2> QED
    BY <2>1, <2>2, <2>3, <2>5
<1>4. JobsOfLeader'
  BY <1>0 DEF JobsOfLeader
<1> QED
  BY <1>2, <1>3, <1>4

(* The requests of the renewal thread: the key is taken only when nobody holds it,
   and renewed only by the instance that holds it. *)
LEMMA RenewalLease ==
  ASSUME LeaseInv, faults = 0, NEW i \in Instance,
         Start(i) \/ Wake(i) \/ SetNX(i) \/ GetKey(i) \/ Renew(i)
  PROVE  (Learned /\ Lease /\ JobsOfLeader)'
<1> USE Constants DEF LeaseInv, TypeOK, DownShape, Phase, Held, Conclude
<1>1. CASE Start(i)
  BY <1>1 DEF Start, Learned, Lease, JobsOfLeader
<1>2. CASE Wake(i)
  BY <1>2 DEF Wake, Learned, Lease, JobsOfLeader
<1>3. CASE SetNX(i)
  BY <1>3 DEF SetNX, Learned, Lease, JobsOfLeader
<1>4. CASE GetKey(i)
  BY <1>4 DEF GetKey, Learned, Lease, JobsOfLeader
<1>5. CASE Renew(i)
  BY <1>5 DEF Renew, Learned, Lease, JobsOfLeader
<1> QED
  BY <1>1, <1>2, <1>3, <1>4, <1>5

(* Jobs, stops and crashes: only the holder deletes the key. *)
LEMMA OtherLease ==
  ASSUME LeaseInv, faults' = 0, NEW i \in Instance,
         \/ StartJob(i) \/ EndJob(i) \/ Stop(i) \/ StopGet(i) \/ StopDelete(i)
         \/ Crash(i) \/ Exit(i)
  PROVE  (Learned /\ Lease /\ JobsOfLeader)'
<1> USE Constants DEF LeaseInv, TypeOK, DownShape, Phase, Free, Gone
<1>1. CASE StartJob(i) \/ EndJob(i)
  BY <1>1 DEF StartJob, EndJob, Learned, Lease, JobsOfLeader
<1>2. CASE Stop(i)
  BY <1>2 DEF Stop, Learned, Lease, JobsOfLeader
<1>3. CASE StopGet(i)
  BY <1>3 DEF StopGet, Learned, Lease, JobsOfLeader
<1>4. CASE StopDelete(i)
  BY <1>4 DEF StopDelete, Learned, Lease, JobsOfLeader
<1>5. CASE Crash(i) \/ Exit(i)
  BY <1>5 DEF Crash, Exit, Learned, Lease, JobsOfLeader
<1> QED
  BY <1>1, <1>2, <1>3, <1>4, <1>5

(* Every step keeps the invariant. *)
LEMMA LeaseStep ==
  ASSUME LeaseInv, [Next]_vars
  PROVE  LeaseInv'
<1>1. TypeOK' /\ DownShape'
  BY TypeStep, DownStep DEF LeaseInv
<1>2. ASSUME faults' = 0 PROVE (Learned /\ Lease /\ JobsOfLeader)'
  <2>0. TypeOK
    BY DEF LeaseInv
  <2>1. CASE Tick
    BY <1>2, <2>1, TickLease
  <2>2. CASE Stall
    BY <1>2, <2>0, <2>2, Constants DEF Stall, TypeOK
  <2>3. ASSUME NEW i \in Instance, RedisError(i) \/ StopError(i) PROVE FALSE
    <3>1. faults' = faults + 1
      BY <2>3 DEF RedisError, StopError
    <3>2. faults \in Nat
      BY <2>0, Constants DEF TypeOK
    <3> QED
      BY <1>2, <3>1, <3>2
  <2>4. ASSUME NEW i \in Instance, Start(i) \/ Wake(i) \/ SetNX(i) \/ GetKey(i) \/ Renew(i)
        PROVE  (Learned /\ Lease /\ JobsOfLeader)'
    <3>1. faults = 0
      BY <1>2, <2>4 DEF Start, Wake, SetNX, GetKey, Renew
    <3> QED
      BY <3>1, <2>4, RenewalLease
  <2>5. ASSUME NEW i \in Instance,
               \/ StartJob(i) \/ EndJob(i) \/ Stop(i) \/ StopGet(i) \/ StopDelete(i)
               \/ Crash(i) \/ Exit(i)
        PROVE  (Learned /\ Lease /\ JobsOfLeader)'
    BY <1>2, <2>5, OtherLease
  <2>6. CASE UNCHANGED vars
    BY <1>2, <2>6 DEF vars, LeaseInv, Learned, Lease, JobsOfLeader
  <2> QED
    BY <2>1, <2>2, <2>3, <2>4, <2>5, <2>6 DEF Next, Step
<1> QED
  BY <1>1, <1>2 DEF LeaseInv

-----------------------------------------------------------------------------
(* The inductive invariant holds throughout, whatever starts, stops and crashes. *)
THEOREM LeaseInvariant == Spec => []LeaseInv
BY InitLease, LeaseStep, PTL DEF Spec

(* The key, the threads and the shutdowns are well typed; in particular a key
   without holder has no time left and one with a holder has some. *)
THEOREM HATypeCorrect == Spec => []TypeOK
<1>1. LeaseInv => TypeOK
  BY DEF LeaseInv
<1> QED
  BY <1>1, LeaseInvariant, PTL

(* As long as Redis answers and no instance is late, whoever believes to lead holds
   an unexpired key (_is_leader against the Redis key). *)
THEOREM LeadersHoldTheKey == Spec => []LeaderHoldsKey
<1>1. LeaseInv => LeaderHoldsKey
  BY DEF LeaseInv, LeaderHoldsKey, Lease, Leaders, Up
<1> QED
  BY <1>1, LeaseInvariant, PTL

(* Then no two instances run a leader-only job at once, although run_if_leader looks
   only once. *)
THEOREM JobsRunOnce == Spec => []JobRunsOnce
<1>1. LeaseInv => JobRunsOnce
  <2> SUFFICES ASSUME LeaseInv, faults = 0
               PROVE  Cardinality({i \in Instance : job[i]}) <= 1
    BY DEF JobRunsOnce
  <2> DEFINE Busy == {i \in Instance : job[i]}
  <2>1. Busy \subseteq {key.holder}
    BY DEF LeaseInv, JobsOfLeader, Lease
  <2>2. IsFiniteSet({key.holder}) /\ Cardinality({key.holder}) = 1
    BY FS_Singleton
  <2>3. IsFiniteSet(Busy) /\ Cardinality(Busy) <= Cardinality({key.holder})
    <3> HIDE DEF Busy
    <3> QED
      BY <2>1, <2>2, FS_Subset
  <2> QED
    BY <2>2, <2>3
<1> QED
  BY <1>1, LeaseInvariant, PTL
=============================================================================
