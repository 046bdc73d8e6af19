-------------------------- MODULE UsageMeterProofs --------------------------
(***************************************************************************)
(* Proofs about UsageMeter, for any ticks, limits, bounds and cap.         *)
(*                                                                         *)
(* The invariant has three layers.  Typed says what the variables hold. *)
(*  Found adds to NoByteSkipped what a     *)
(* tick must have settled before it may move the baseline over the bytes   *)
(* it read.  Charged says, while no byte may be charged again, that what   *)
(* has been charged, what is about to be, and all that every later collect *)
(* can still find do not exceed what was sent: from the baseline as it is, *)
(* for a bill that may fail yet, and from the reading that will become the *)
(* baseline, for one that will not; through the counter itself and through *)
(* a reading that has not been compared with the baseline yet.             *)
(***************************************************************************)
EXTENDS UsageMeter, TLAPS

Base == 0..MaxBytes \cup {Unknown}
TaskRecord == [pc : Steps, total : 0..MaxBytes, delta : 0..MaxBytes, value : 0..MaxBytes,
               unsure : BOOLEAN, capped : BOOLEAN, seen : BOOLEAN]
UserRecord == [status : {"active", "limited"}, used : Nat, overage : Nat, limit : Limits]
EditRecord == [old : UserRecord, new : UserRecord]
TallyRecord == [charged : Int, burn : Int, settled : Nat, clean : BOOLEAN]

------------------------------------------------------------------------------
(* The inductive invariant. *)

Shape ==
  /\ counter \in Nat /\ sent \in 0..MaxBytes /\ counter <= sent
  /\ mem \in Base /\ redis \in Base
  /\ user \in UserRecord
  /\ task \in [Slots -> TaskRecord]
  /\ tally \in TallyRecord
  /\ budget \in 0..MaxDisturb
\* A charge is of bytes the task read, and at most those; a flush has no overage to
\* add and no baseline to commit.
ChargeShape ==
  \A s \in Slots :
    /\ task[s].value <= task[s].delta
    /\ task[s].pc \in {"charge", "limit", "setlimited", "admin"} => task[s].value > 0
    /\ s = Flush => task[s].pc \notin {"over", "overage", "commit"}
Typed == Shape /\ ChargeShape
\* What an open session holds, and would write.
EditTyped == edit \subseteq EditRecord /\ \A e \in edit : Over(e.new) => Over(e.old)

\* A reading of a counter that has not been reset since.
Fresh == \A s \in Ticks : task[s].pc # "idle" /\ ~task[s].unsure => task[s].total <= counter
\* The bytes of a bill that no history step has settled yet.
Unsettled(t) ==
  IF t.pc \in {"queued", "charge"} \/ (t.pc \in {"over", "overage"} /\ ~t.seen) THEN t.delta ELSE 0
Peeked(t) == t.pc \notin {"idle", "read"}
\* What is above the reading of a tick covers all that is not settled or in its hands.
Covered ==
  \A s \in Ticks : Peeked(task[s]) /\ ~task[s].unsure =>
    sent <= tally.settled + Unsettled(task[s]) + (counter - task[s].total) + FlushInHand
Found == Fresh /\ Covered /\ NoByteSkipped

\* The two accounts, and what a task is about to add to them.
Accounts == {"user", "reseller"}
Account(x) == IF x = "user" THEN tally.charged ELSE tally.burn
Waiting(x) == IF x = "user" THEN {"queued", "charge"}
              ELSE {"queued", "charge", "limit", "setlimited", "admin"}
\* The user has the value of a charge, and may get the rest of the delta as overage.
Charging == {"limit", "setlimited", "admin", "over", "overage"}
Rest(t) == IF t.value <= t.delta THEN t.delta - t.value ELSE 0
Pending(x, t) ==
  IF t.pc \in Waiting(x) THEN t.delta ELSE IF x = "user" /\ t.pc \in Charging THEN Rest(t) ELSE 0
\* A bill that cannot be taken back.
Written(t) == t.pc \in Billing /\ ~(t.pc = "charge" \/ (t.pc \in {"over", "overage"} /\ t.value = 0))
\* All that can be found from a baseline: by reading the counter, or through a
\* reading still to be compared with it.
Within(n, base) ==
  /\ n + DeltaSince(base, counter) <= sent
  /\ \A s \in Slots : task[s].pc = "read" =>
       n + DeltaSince(base, task[s].total) + DeltaSince(task[s].total, counter) <= sent
OnePeeked == \A s, t \in Slots : Peeked(task[s]) /\ Peeked(task[t]) => s = t
FromBase ==
  (\A s \in Ticks : ~Written(task[s])) =>
    \A x \in Accounts : Within(Account(x) + Pending(x, task[Flush]), LoadLast)
FromReading ==
  \A s \in Ticks : Peeked(task[s]) =>
    \A x \in Accounts : Within(Account(x) + Pending(x, task[s]), task[s].total)
Charged == tally.clean => OnePeeked /\ FromBase /\ FromReading

MeterInv == Typed /\ Found /\ Charged

------------------------------------------------------------------------------
(* The operators. *)

(* The constants, as the proofs use them. *)
LEMMA Constants ==
  /\ Flush \notin Ticks /\ Flush \in Slots /\ Ticks \subseteq Slots
  /\ \A s \in Slots : s \in Ticks <=> s # Flush
  /\ MaxBytes \in Nat /\ MaxDelta \in Nat /\ MaxDisturb \in Nat /\ Unknown = -1
  /\ \A l \in Limits : l \in Nat
BY UsageConstants DEF Slots, Unknown

(* What a step gives up is never negative. *)
LEMMA AtLeastZero == \A n \in Int : Max({0, n}) \in Nat /\ Max({0, n}) >= n
<1> TAKE n \in Int
<1>1. \E x \in {0, n} : \A y \in {0, n} : x >= y
  <2>1. CASE n >= 0
    BY <2>1
  <2>2. CASE ~(n >= 0)
    BY <2>2
  <2> QED
    BY <2>1, <2>2
<1> QED
  BY <1>1 DEF Max

(* The smaller of two numbers. *)
LEMMA Smaller == \A m, n \in Nat : Min({m, n}) \in Nat /\ Min({m, n}) <= m /\ Min({m, n}) <= n
<1> TAKE m, n \in Nat
<1>1. \E x \in {m, n} : \A y \in {m, n} : x <= y
  <2>1. CASE m <= n
    BY <2>1
  <2>2. CASE ~(m <= n)
    BY <2>2
  <2> QED
    BY <2>1, <2>2
<1> QED
  BY <1>1 DEF Min

(* A delta is a count of bytes the counter has shown. *)
LEMMA DeltaType ==
  ASSUME NEW b \in Base, NEW n \in Nat
  PROVE  DeltaSince(b, n) \in 0..n /\ (b = Unknown => DeltaSince(b, n) = 0)
BY Constants DEF DeltaSince, Base

(* A delta grows with the counter and is nothing for a counter that starts again. *)
LEMMA DeltaMoves ==
  ASSUME NEW b \in Base, NEW n \in Nat
  PROVE  DeltaSince(b, n + 1) <= DeltaSince(b, n) + 1 /\ DeltaSince(b, 0) = 0 /\ DeltaSince(n, n) = 0
BY Constants DEF DeltaSince, Base, Unknown

(* Going through a reading in between finds no less. *)
LEMMA DeltaThrough ==
  ASSUME NEW b \in Base, NEW r \in 0..MaxBytes, NEW n \in Nat
  PROVE  DeltaSince(b, n) <= DeltaSince(b, r) + DeltaSince(r, n)
BY Constants DEF DeltaSince, Base, Unknown

(* Above a reading that is not out of date, what is found is the rest of the counter. *)
LEMMA DeltaAbove ==
  ASSUME NEW r \in 0..MaxBytes, NEW n \in Nat
  PROVE  r <= n => DeltaSince(r, n) = n - r
BY Constants DEF DeltaSince, Unknown

(* A task record. *)
LEMMA TaskFields ==
  ASSUME NEW pc \in Steps, NEW total \in 0..MaxBytes, NEW delta \in 0..MaxBytes, NEW value \in 0..MaxBytes,
         NEW unsure \in BOOLEAN, NEW capped \in BOOLEAN, NEW seen \in BOOLEAN, NEW t,
         t = Task(pc, total, delta, value, unsure, capped, seen)
  PROVE  /\ t \in TaskRecord
         /\ t.pc = pc /\ t.total = total /\ t.delta = delta /\ t.value = value
         /\ t.unsure = unsure /\ t.capped = capped /\ t.seen = seen
BY DEF Task, TaskRecord

(* A task that only moves on. *)
LEMMA TaskMoves ==
  ASSUME NEW s \in Slots, NEW pc \in Steps, task \in [Slots -> TaskRecord], task' = [task EXCEPT ![s].pc = pc]
  PROVE  /\ task' = [task EXCEPT ![s] = task'[s]] /\ task'[s] \in TaskRecord
         /\ task'[s].pc = pc /\ task'[s].total = task[s].total /\ task'[s].delta = task[s].delta
         /\ task'[s].value = task[s].value /\ task'[s].unsure = task[s].unsure
         /\ task'[s].capped = task[s].capped /\ task'[s].seen = task[s].seen
BY DEF TaskRecord

(* The empty task. *)
LEMMA IdleTask ==
  Idle \in TaskRecord /\ Idle.pc = "idle" /\ Idle.delta = 0 /\ Idle.value = 0
BY Constants DEF Idle, Task, TaskRecord, Steps

(* A step of one task leaves the others alone. *)
LEMMA TaskFrame ==
  ASSUME NEW s \in Slots, NEW t \in TaskRecord, task \in [Slots -> TaskRecord],
         task' = [task EXCEPT ![s] = t]
  PROVE  /\ task' \in [Slots -> TaskRecord] /\ task'[s] = t
         /\ \A o \in Slots : o # s => task'[o] = task[o]
OBVIOUS

------------------------------------------------------------------------------
(* The steps of a bill. *)

InHand(t) == IF t.pc \in {"queued", "charge"} THEN t.delta ELSE 0

\* What the steps from the clamp to the last write of a bill have in common.
BillMove(s) ==
  /\ UNCHANGED <<counter, mem, redis, sent>>
  /\ \A o \in Slots : o # s => task'[o] = task[o]
  /\ Peeked(task[s])
  /\ s = Flush => task'[s].pc # "read" /\ tally'.settled + InHand(task'[s]) >= tally.settled + InHand(task[s])
  /\ s # Flush =>
       /\ Peeked(task'[s]) /\ task'[s].total = task[s].total /\ task'[s].unsure = task[s].unsure
       /\ tally'.settled + Unsettled(task'[s]) >= tally.settled + Unsettled(task[s])
       /\ Written(task[s]) => Written(task'[s])
  /\ tally'.settled >= tally.settled /\ tally'.clean = tally.clean
  /\ tally.clean => \A x \in Accounts :
       /\ Account(x)' + Pending(x, task'[s]) <= Account(x) + Pending(x, task[s])
       /\ s # Flush /\ ~Written(task'[s]) => Account(x)' = Account(x)

\* What a step of a bill does to the tally.
Counts(c, b, n) ==
  /\ tally' \in TallyRecord /\ tally'.clean = tally.clean /\ tally'.settled = tally.settled + n
  /\ tally.clean => tally'.charged = tally.charged + c /\ tally'.burn = tally.burn + b

(* A step that counts bytes, and one that does not. *)
LEMMA TallyStep ==
  ASSUME Typed, NEW c \in Int, NEW b \in Int, NEW n \in Nat, Tally(c, b, n)
  PROVE  Counts(c, b, n)
<1>1. /\ tally.charged \in Int /\ tally.burn \in Int /\ tally.settled \in Nat /\ tally.clean \in BOOLEAN
  BY DEF Typed, Shape, TallyRecord
<1>2. tally.charged + c \in Int /\ tally.burn + b \in Int /\ tally.settled + n \in Nat
  BY <1>1
<1>3. tally' = History(tally.charged + c, tally.burn + b, tally.settled + n, tally.clean)
  BY DEF Tally
<1>4. CASE tally.clean = TRUE
  BY <1>1, <1>2, <1>3, <1>4 DEF History, TallyRecord, Counts
<1>5. CASE tally.clean = FALSE
  BY <1>1, <1>2, <1>3, <1>5 DEF History, TallyRecord, Counts
<1> QED
  BY <1>1, <1>4, <1>5

(* A step that counts nothing. *)
LEMMA TallySame ==
  ASSUME Typed, UNCHANGED tally
  PROVE  Counts(0, 0, 0)
BY DEF Typed, Shape, TallyRecord, Counts

(* The fields of a task, of the users row and of the tally. *)
LEMMA Fields ==
  ASSUME Typed
  PROVE  /\ \A s \in Slots :
              /\ task[s] \in TaskRecord /\ task[s].pc \in Steps
              /\ task[s].total \in 0..MaxBytes /\ task[s].delta \in 0..MaxBytes
              /\ task[s].value \in 0..MaxBytes /\ task[s].unsure \in BOOLEAN
              /\ task[s].capped \in BOOLEAN /\ task[s].seen \in BOOLEAN
         /\ user.status \in {"active", "limited"} /\ user.used \in Nat /\ user.overage \in Nat
         /\ user.limit \in Nat /\ user.limit \in Limits
         /\ tally.charged \in Int /\ tally.burn \in Int /\ tally.settled \in Nat /\ tally.clean \in BOOLEAN
         /\ counter \in Nat /\ sent \in Nat /\ mem \in Base /\ redis \in Base /\ LoadLast \in Base
<1>1. \A s \in Slots : task[s] \in TaskRecord
  BY DEF Typed, Shape
<1>2. /\ user.status \in {"active", "limited"} /\ user.used \in Nat /\ user.overage \in Nat /\ user.limit \in Limits
      /\ user.limit \in Nat
  BY Constants DEF Typed, Shape, UserRecord
<1>3. /\ tally.charged \in Int /\ tally.burn \in Int /\ tally.settled \in Nat /\ tally.clean \in BOOLEAN
  BY DEF Typed, Shape, TallyRecord
<1>4. counter \in Nat /\ sent \in Nat /\ mem \in Base /\ redis \in Base /\ LoadLast \in Base
  BY Constants DEF Typed, Shape, LoadLast
<1> QED
  BY <1>1, <1>2, <1>3, <1>4 DEF TaskRecord

(* A bill step is well typed when its task, its row and its tally are. *)
LEMMA TypedMove ==
  ASSUME Typed, NEW s \in Slots, NEW t \in TaskRecord, task' = [task EXCEPT ![s] = t],
         UNCHANGED <<counter, sent>>, mem' \in Base, redis' \in Base, budget' \in 0..MaxDisturb, tally' \in TallyRecord,
         user' \in UserRecord, t.value <= t.delta,
         t.pc \in {"charge", "limit", "setlimited", "admin"} => t.value > 0,
         s = Flush => t.pc \notin {"over", "overage", "commit"}
  PROVE  Typed'
<1>1. /\ task' \in [Slots -> TaskRecord] /\ task'[s] = t
      /\ \A o \in Slots : o # s => task'[o] = task[o]
  BY TaskFrame DEF Typed, Shape
<1>2. Shape'
  BY <1>1 DEF Typed, Shape
<1>3. ChargeShape'
  BY <1>1 DEF Typed, ChargeShape
<1> QED
  BY <1>2, <1>3 DEF Typed

(* A step of a bill, from what it does to its task and to the tally. *)
LEMMA MakeMove ==
  ASSUME Typed, NEW s \in Slots, NEW t \in TaskRecord, task' = [task EXCEPT ![s] = t],
         NEW c \in Int, NEW b \in Int, NEW n \in Nat, Counts(c, b, n),
         UNCHANGED <<counter, mem, redis, sent>>, Peeked(task[s]),
         s = Flush => t.pc # "read" /\ n + InHand(t) >= InHand(task[s]),
         s # Flush => /\ Peeked(t) /\ t.total = task[s].total /\ t.unsure = task[s].unsure
                      /\ n + Unsettled(t) >= Unsettled(task[s])
                      /\ Written(task[s]) => Written(t),
         c + Pending("user", t) <= Pending("user", task[s]),
         b + Pending("reseller", t) <= Pending("reseller", task[s]),
         s # Flush /\ ~Written(t) => c = 0 /\ b = 0
  PROVE  BillMove(s)
<1>1. task'[s] = t /\ \A o \in Slots : o # s => task'[o] = task[o]
  BY TaskFrame DEF Typed, Shape
<1>2. /\ tally' \in TallyRecord /\ tally'.clean = tally.clean /\ tally'.settled = tally.settled + n
      /\ tally.clean => tally'.charged = tally.charged + c /\ tally'.burn = tally.burn + b
  BY DEF Counts
<1>3. tally.settled \in Nat /\ tally.charged \in Int /\ tally.burn \in Int /\ task[s] \in TaskRecord
  BY Fields
<1>4. \A u \in TaskRecord : InHand(u) \in Nat /\ Unsettled(u) \in Nat /\ \A x \in Accounts : Pending(x, u) \in Nat
  BY Constants DEF InHand, Unsettled, Pending, Rest, TaskRecord
<1>5. tally'.settled >= tally.settled
  BY <1>2, <1>3
<1>6. s = Flush => task'[s].pc # "read" /\ tally'.settled + InHand(task'[s]) >= tally.settled + InHand(task[s])
  BY <1>1, <1>2, <1>3, <1>4
<1>7. s # Flush =>
       /\ Peeked(task'[s]) /\ task'[s].total = task[s].total /\ task'[s].unsure = task[s].unsure
       /\ tally'.settled + Unsettled(task'[s]) >= tally.settled + Unsettled(task[s])
       /\ Written(task[s]) => Written(task'[s])
  <2>1. s # Flush => tally'.settled + Unsettled(task'[s]) >= tally.settled + Unsettled(task[s])
    BY <1>1, <1>2, <1>3, <1>4
  <2> QED
    BY <1>1, <2>1
<1>8. ASSUME tally.clean, NEW x \in Accounts
      PROVE  /\ Account(x)' + Pending(x, task'[s]) <= Account(x) + Pending(x, task[s])
             /\ s # Flush /\ ~Written(task'[s]) => Account(x)' = Account(x)
  <2>1. tally'.charged = tally.charged + c /\ tally'.burn = tally.burn + b
    BY <1>2, <1>8
  <2>2. CASE x = "user"
    <3>1. Account(x)' = tally.charged + c /\ Account(x) = tally.charged
      BY <2>1, <2>2 DEF Account
    <3> QED
      BY <1>1, <1>3, <1>4, <2>2, <3>1
  <2>3. CASE x = "reseller"
    <3>1. Account(x)' = tally.burn + b /\ Account(x) = tally.burn
      BY <2>1, <2>3 DEF Account
    <3> QED
      BY <1>1, <1>3, <1>4, <2>3, <3>1
  <2> QED
    BY <2>2, <2>3 DEF Accounts
<1> QED
  BY <1>1, <1>2, <1>5, <1>6, <1>7, <1>8 DEF BillMove

(* A clamp leaves a number of bytes of the delta. *)
LEMMA Clamps ==
  ASSUME Typed, NEW d \in Nat
  PROVE  ClampDelta(user, d) \in 0..d
<1>1. user.limit - user.used \in Int /\ user.limit \in Nat
  BY Fields
<1>2. Max({0, user.limit - user.used}) \in Nat
  BY <1>1, AtLeastZero
<1>3. Min({d, Max({0, user.limit - user.used})}) \in 0..d
  BY <1>2, Smaller
<1> QED
  BY <1>3 DEF ClampDelta

(* The task that is left when only the baseline is to be committed. *)
LEMMA BilledTask ==
  ASSUME Typed, NEW s \in Slots
  PROVE  /\ Billed(s) \in TaskRecord /\ Billed(s).delta = 0 /\ Billed(s).value = 0
         /\ s = Flush => Billed(s).pc = "idle"
         /\ s # Flush => /\ Billed(s).pc = "commit" /\ Billed(s).total = task[s].total
                         /\ Billed(s).unsure = task[s].unsure
<1>1. task[s].total \in 0..MaxBytes /\ task[s].unsure \in BOOLEAN
  BY Fields
<1>2. CASE s = Flush
  BY <1>2, IdleTask DEF Billed
<1>3. CASE s # Flush
  BY <1>1, <1>3, Constants DEF Billed, Task, TaskRecord, Steps
<1> QED
  BY <1>2, <1>3

(* The step that clamps. *)
LEMMA StartBillStep ==
  ASSUME Typed, NEW s \in Slots, StartBill(s)
  PROVE  Typed' /\ BillMove(s)
<1> DEFINE delta == task[s].delta
           value == IF Billable(user) THEN ClampDelta(user, delta) ELSE 0
           inc == IF value = 0 /\ (Billable(user) \/ s = Flush) THEN delta ELSE 0
           next == Task(IF value > 0 THEN "charge" ELSE "over", task[s].total, delta, value,
                        task[s].unsure, value > 0 /\ user.limit > 0, Billable(user))
           t == IF delta = 0 \/ (s = Flush /\ value = 0) THEN Billed(s) ELSE next
<1>1. /\ task[s].pc = "queued" /\ task' = [task EXCEPT ![s] = t] /\ Tally(0, 0, inc)
      /\ UNCHANGED <<counter, mem, redis, user, budget, sent>>
  BY DEF StartBill
<1>2. delta \in 0..MaxBytes /\ task[s].total \in 0..MaxBytes /\ task[s].unsure \in BOOLEAN /\ user.limit \in Nat
  BY Fields
<1>3. value \in 0..delta
  BY <1>2, Clamps, Constants
<1>4. Billable(user) \in BOOLEAN
  BY DEF Billable
<1> HIDE DEF value, delta
<1>5. inc \in Nat
  BY <1>2
<1>6. /\ next \in TaskRecord /\ next.pc = (IF value > 0 THEN "charge" ELSE "over") /\ next.total = task[s].total
      /\ next.delta = delta /\ next.value = value /\ next.unsure = task[s].unsure /\ next.seen = Billable(user)
  BY <1>2, <1>3, <1>4, Constants DEF Task, TaskRecord, Steps
<1> HIDE DEF inc, next
<1>7. /\ t \in TaskRecord /\ t.value <= t.delta
      /\ t.pc \in {"charge", "limit", "setlimited", "admin"} => t.value > 0
      /\ s = Flush => t.pc \notin {"over", "overage", "commit"}
  BY <1>2, <1>3, <1>6, BilledTask
<1>8. Counts(0, 0, inc) /\ tally' \in TallyRecord
  BY <1>1, <1>5, TallyStep DEF Counts
<1>9. Typed'
  <2>1. user' \in UserRecord /\ mem' \in Base /\ redis' \in Base /\ budget' \in 0..MaxDisturb
    BY <1>1 DEF Typed, Shape
  <2> HIDE DEF t
  <2> QED
    BY <1>1, <1>7, <1>8, <2>1, TypedMove
<1>10. \A x \in Accounts : Pending(x, t) <= delta /\ Pending(x, task[s]) = delta
  BY <1>1, <1>2, <1>3, <1>6, BilledTask DEF Pending, Rest, Charging, Waiting, delta
<1>11. s = Flush => t.pc # "read" /\ inc + InHand(t) >= InHand(task[s])
  BY <1>1, <1>2, <1>3, <1>4, <1>6, BilledTask DEF InHand, inc, delta
<1>12. s # Flush => inc + Unsettled(t) >= Unsettled(task[s])
  BY <1>1, <1>2, <1>3, <1>4, <1>6, BilledTask DEF Unsettled, inc, delta
<1>13. s # Flush => Peeked(t) /\ t.total = task[s].total /\ t.unsure = task[s].unsure /\ ~Written(task[s])
  BY <1>1, <1>2, <1>3, <1>6, BilledTask DEF Peeked, Written, Billing
<1>14. 0 + Pending("user", t) <= Pending("user", task[s]) /\ 0 + Pending("reseller", t) <= Pending("reseller", task[s])
  BY <1>2, <1>7, <1>10 DEF Accounts, Pending, Rest, TaskRecord
<1> HIDE DEF t
<1>15. BillMove(s)
  <2>1. Peeked(task[s]) /\ UNCHANGED <<counter, mem, redis, sent>> /\ t \in TaskRecord
    BY <1>1, <1>7 DEF Peeked
  <2>2. s # Flush => /\ Peeked(t) /\ t.total = task[s].total /\ t.unsure = task[s].unsure
                     /\ inc + Unsettled(t) >= Unsettled(task[s])
                     /\ Written(task[s]) => Written(t)
    BY <1>12, <1>13
  <2>3. 0 \in Int /\ (s # Flush /\ ~Written(t) => 0 = 0 /\ 0 = 0)
    OBVIOUS
  <2> HIDE DEF Typed
  <2> QED
    BY <1>1, <1>5, <1>8, <1>11, <1>14, <2>1, <2>2, <2>3, MakeMove
<1> QED
  BY <1>9, <1>15

(* The UPDATE of the users row. *)
LEMMA ChargeStep ==
  ASSUME Typed, NEW s \in Slots, Charge(s)
  PROVE  Typed' /\ BillMove(s)
<1> DEFINE t == task'[s]
           value == task[s].value
           delta == task[s].delta
           used == ClampedUsed(user, value)
           more == used - user.used
<1>1. /\ task[s].pc = "charge" /\ task' = [task EXCEPT ![s].pc = "limit"]
      /\ user' = [user EXCEPT !.used = used] /\ Tally(user'.used - user.used, 0, delta)
      /\ UNCHANGED <<counter, mem, redis, budget, sent>>
  BY DEF Charge
<1>2. /\ value \in Nat /\ delta \in 0..MaxBytes /\ value <= delta /\ value > 0
      /\ user.used \in Nat /\ user.limit \in Nat
  BY <1>1, Fields, Constants DEF Typed, ChargeShape
<1>3. used \in Nat /\ used - user.used <= value
  BY <1>2 DEF ClampedUsed
<1>4. /\ task' = [task EXCEPT ![s] = t] /\ t \in TaskRecord
      /\ t.pc = "limit" /\ t.total = task[s].total /\ t.delta = delta
      /\ t.value = value /\ t.unsure = task[s].unsure /\ t.seen = task[s].seen
  <2>1. "limit" \in Steps /\ task \in [Slots -> TaskRecord]
    BY DEF Steps, Typed, Shape
  <2> QED
    BY <1>1, <2>1, TaskMoves
<1> HIDE DEF t, used
<1>5. user' \in UserRecord /\ user'.used = used /\ user'.limit = user.limit
  BY <1>1, <1>3 DEF Typed, Shape, UserRecord
<1>6. more \in Int /\ more <= value /\ delta \in Nat /\ Tally(more, 0, delta)
  BY <1>1, <1>2, <1>3, <1>5
<1> HIDE DEF more
<1>7. Counts(more, 0, delta) /\ tally' \in TallyRecord
  BY <1>6, TallyStep DEF Counts
<1>8. Typed'
  <2>1. mem' \in Base /\ redis' \in Base /\ budget' \in 0..MaxDisturb
    BY <1>1, <1>3, <1>5 DEF Typed, Shape
  <2>2. /\ t.value <= t.delta /\ (t.pc \in {"charge", "limit", "setlimited", "admin"} => t.value > 0)
        /\ s = Flush => t.pc \notin {"over", "overage", "commit"}
    BY <1>2, <1>4
  <2> HIDE DEF Typed
  <2> QED
    BY <1>1, <1>4, <1>5, <1>7, <2>1, <2>2, TypedMove
<1>9. Peeked(task[s]) /\ UNCHANGED <<counter, mem, redis, sent>> /\ 0 \in Int
  BY <1>1 DEF Peeked
<1>10. s = Flush => t.pc # "read" /\ delta + InHand(t) >= InHand(task[s])
  BY <1>1, <1>2, <1>4 DEF InHand
<1>11. s # Flush => /\ Peeked(t) /\ t.total = task[s].total /\ t.unsure = task[s].unsure
                    /\ delta + Unsettled(t) >= Unsettled(task[s])
                    /\ Written(task[s]) => Written(t)
  BY <1>1, <1>2, <1>4 DEF Peeked, Unsettled, Written
<1>12. /\ more + Pending("user", t) <= Pending("user", task[s])
       /\ 0 + Pending("reseller", t) <= Pending("reseller", task[s])
  BY <1>1, <1>2, <1>4, <1>6 DEF Pending, Rest, Charging, Waiting
<1>13. s # Flush /\ ~Written(t) => more = 0 /\ 0 = 0
  BY <1>4 DEF Written, Billing
<1>14. BillMove(s)
  BY <1>4, <1>6, <1>7, <1>9, <1>10, <1>11, <1>12, <1>13, MakeMove
<1> QED
  BY <1>8, <1>14

(* A step that only moves on, with a row that keeps its limit. *)
LEMMA QuietStep ==
  ASSUME Typed, NEW s \in Slots, NEW pc \in Steps, task' = [task EXCEPT ![s].pc = pc],
         UNCHANGED <<counter, mem, redis, budget, sent, tally>>, user' \in UserRecord,
         \/ task[s].pc = "limit" /\ pc = "setlimited"
         \/ task[s].pc = "limit" /\ pc = "admin"
         \/ task[s].pc = "setlimited" /\ pc = "admin"
         \/ task[s].pc = "over" /\ pc = "overage"
  PROVE  Typed' /\ BillMove(s)
<1> DEFINE t == task'[s]
<1>1. /\ task' = [task EXCEPT ![s] = t] /\ t \in TaskRecord
      /\ t.pc = pc /\ t.total = task[s].total /\ t.delta = task[s].delta
      /\ t.value = task[s].value /\ t.unsure = task[s].unsure /\ t.seen = task[s].seen
  BY TaskMoves DEF Typed, Shape
<1> HIDE DEF t
<1>2. Counts(0, 0, 0) /\ tally' \in TallyRecord
  BY TallySame DEF Counts
<1>3. task[s].delta \in Nat /\ task[s].value \in Nat /\ task[s].value <= task[s].delta
  BY Fields, Constants DEF Typed, ChargeShape
<1>4. Typed'
  <2>1. mem' \in Base /\ redis' \in Base /\ budget' \in 0..MaxDisturb
    BY DEF Typed, Shape
  <2>2. /\ t.value <= t.delta /\ (t.pc \in {"charge", "limit", "setlimited", "admin"} => t.value > 0)
        /\ s = Flush => t.pc \notin {"over", "overage", "commit"}
    BY <1>1, <1>3 DEF Typed, ChargeShape
  <2> HIDE DEF Typed
  <2> QED
    BY <1>1, <1>2, <2>1, <2>2, TypedMove
<1>5. Peeked(task[s]) /\ UNCHANGED <<counter, mem, redis, sent>> /\ 0 \in Int /\ 0 \in Nat
  BY DEF Peeked
<1>6. s = Flush => t.pc # "read" /\ 0 + InHand(t) >= InHand(task[s])
  BY <1>1, <1>3 DEF InHand
<1>7. s # Flush => /\ Peeked(t) /\ t.total = task[s].total /\ t.unsure = task[s].unsure
                   /\ 0 + Unsettled(t) >= Unsettled(task[s])
                   /\ Written(task[s]) => Written(t)
  BY <1>1, <1>3 DEF Peeked, Unsettled, Written, Billing
<1>8. /\ 0 + Pending("user", t) <= Pending("user", task[s])
      /\ 0 + Pending("reseller", t) <= Pending("reseller", task[s])
  BY <1>1, <1>3 DEF Pending, Rest, Charging, Waiting
<1>9. s # Flush /\ ~Written(t) => 0 = 0 /\ 0 = 0
  OBVIOUS
<1>10. BillMove(s)
  BY <1>1, <1>2, <1>5, <1>6, <1>7, <1>8, <1>9, MakeMove
<1> QED
  BY <1>4, <1>10

(* The user who is found at the limit. *)
LEMMA FindLimitedStep ==
  ASSUME Typed, NEW s \in Slots, FindLimited(s)
  PROVE  Typed' /\ BillMove(s)
<1> DEFINE hit == QuotaExhausted(user) /\ user.status = "active"
           pc == IF hit THEN "setlimited" ELSE "admin"
           used == IF hit THEN Min({user.used, user.limit}) ELSE user.used
<1>1. /\ task[s].pc = "limit" /\ task' = [task EXCEPT ![s].pc = pc] /\ user' = [user EXCEPT !.used = used]
      /\ UNCHANGED <<counter, mem, redis, budget, sent, tally>>
  BY DEF FindLimited
<1>2. used \in Nat /\ used <= user.used
  BY Fields, Smaller
<1> HIDE DEF used
<1>3. user' \in UserRecord
  BY <1>1, <1>2, Fields DEF Typed, Shape, UserRecord
<1>4. pc \in Steps /\ pc \in {"setlimited", "admin"}
  BY DEF Steps
<1> HIDE DEF pc
<1> QED
  BY <1>1, <1>3, <1>4, QuietStep

(* The user who is limited. *)
LEMMA SetLimitedStep ==
  ASSUME Typed, NEW s \in Slots, SetLimited(s)
  PROVE  Typed' /\ BillMove(s)
<1>1. /\ task[s].pc = "setlimited" /\ task' = [task EXCEPT ![s].pc = "admin"]
      /\ user' = [user EXCEPT !.status = "limited"] /\ UNCHANGED <<counter, mem, redis, budget, sent, tally>>
  BY DEF SetLimited
<1>2. user' \in UserRecord
  BY <1>1 DEF Typed, Shape, UserRecord
<1>3. "admin" \in Steps
  BY DEF Steps
<1> QED
  BY <1>1, <1>2, <1>3, QuietStep

(* A step after which only the baseline is left to commit. *)
LEMMA BilledStep ==
  ASSUME Typed, NEW s \in Slots, task' = [task EXCEPT ![s] = Billed(s)], NEW c \in Int,
         NEW b \in Int, NEW n \in Nat, Counts(c, b, n), UNCHANGED <<counter, mem, redis, budget, sent>>, user' \in UserRecord,
         \/ task[s].pc \in {"over", "overage"} /\ c <= Rest(task[s]) /\ b = 0 /\ (s # Flush => n + 0 >= Unsettled(task[s]))
         \/ task[s].pc = "admin" /\ s = Flush /\ c = 0 /\ b <= task[s].delta
  PROVE  Typed' /\ BillMove(s)
<1> DEFINE t == Billed(s)
<1>1. /\ t \in TaskRecord /\ t.delta = 0 /\ t.value = 0 /\ (s = Flush => t.pc = "idle")
      /\ s # Flush => t.pc = "commit" /\ t.total = task[s].total /\ t.unsure = task[s].unsure
  BY BilledTask
<1>2. task' = [task EXCEPT ![s] = t]
  OBVIOUS
<1> HIDE DEF t
<1>3. task[s].delta \in Nat /\ task[s].value \in Nat /\ tally' \in TallyRecord
  BY Fields, Constants DEF Counts
<1>4. Typed'
  <2>1. mem' \in Base /\ redis' \in Base /\ budget' \in 0..MaxDisturb
    BY DEF Typed, Shape
  <2>2. /\ t.value <= t.delta /\ (t.pc \in {"charge", "limit", "setlimited", "admin"} => t.value > 0)
        /\ s = Flush => t.pc \notin {"over", "overage", "commit"}
    BY <1>1
  <2> HIDE DEF Typed
  <2> QED
    BY <1>1, <1>2, <1>3, <2>1, <2>2, TypedMove
<1>5. Peeked(task[s]) /\ UNCHANGED <<counter, mem, redis, sent>> /\ 0 \in Int
  BY DEF Peeked
<1>6. s = Flush => t.pc # "read" /\ n + InHand(t) >= InHand(task[s])
  BY <1>1, <1>3 DEF InHand
<1>7. s # Flush => Unsettled(t) = 0
  BY <1>1 DEF Unsettled
<1>8. s # Flush => /\ Peeked(t) /\ t.total = task[s].total /\ t.unsure = task[s].unsure
                   /\ n + Unsettled(t) >= Unsettled(task[s])
                   /\ Written(task[s]) => Written(t)
  BY <1>1, <1>7 DEF Peeked, Written, Billing
<1>9. /\ c + Pending("user", t) <= Pending("user", task[s])
      /\ b + Pending("reseller", t) <= Pending("reseller", task[s])
  BY <1>1, <1>3 DEF Pending, Rest, Charging, Waiting
<1>10. s # Flush /\ ~Written(t) => c = 0 /\ b = 0
  BY <1>1 DEF Written, Billing
<1>11. BillMove(s)
  BY <1>1, <1>2, <1>5, <1>6, <1>8, <1>9, <1>10, MakeMove
<1> QED
  BY <1>4, <1>11

(* The reseller is charged. *)
LEMMA ChargeAdminStep ==
  ASSUME Typed, NEW s \in Slots, ChargeAdmin(s)
  PROVE  Typed' /\ BillMove(s)
<1> DEFINE burn == IF task[s].capped THEN task[s].value ELSE 0
           delta == task[s].delta
<1>1. /\ task[s].pc = "admin" /\ Tally(0, burn, 0) /\ UNCHANGED <<counter, mem, redis, user, budget, sent>>
      /\ task' = [task EXCEPT ![s] = IF s = Flush THEN Billed(s) ELSE [@ EXCEPT !.pc = "over"]]
  BY DEF ChargeAdmin
<1>2. delta \in Nat /\ task[s].value \in Nat /\ task[s].value <= delta
  BY Fields, Constants DEF Typed, ChargeShape
<1>3. burn \in Int /\ burn <= delta /\ 0 \in Int /\ 0 \in Nat
  BY <1>2
<1> HIDE DEF burn
<1>4. Counts(0, burn, 0) /\ tally' \in TallyRecord
  BY <1>1, <1>3, TallyStep DEF Counts
<1>5. mem' \in Base /\ redis' \in Base /\ budget' \in 0..MaxDisturb /\ user' \in UserRecord
  BY <1>1 DEF Typed, Shape
<1>6. CASE s = Flush
  <2>1. task' = [task EXCEPT ![s] = Billed(s)]
    BY <1>1, <1>6
  <2> HIDE DEF Typed
  <2> QED
    BY <1>1, <1>3, <1>4, <1>5, <1>6, <2>1, BilledStep
<1>7. CASE s # Flush
  <2> DEFINE t == task'[s]
  <2>1. task' = [task EXCEPT ![s].pc = "over"] /\ "over" \in Steps /\ task \in [Slots -> TaskRecord]
    BY <1>1, <1>7 DEF Steps, Typed, Shape
  <2>2. /\ task' = [task EXCEPT ![s] = t] /\ t \in TaskRecord
        /\ t.pc = "over" /\ t.total = task[s].total /\ t.delta = delta
        /\ t.value = task[s].value /\ t.unsure = task[s].unsure /\ t.seen = task[s].seen
    BY <2>1, TaskMoves
  <2> HIDE DEF t
  <2>3. /\ t.value <= t.delta /\ (t.pc \in {"charge", "limit", "setlimited", "admin"} => t.value > 0)
        /\ s = Flush => t.pc \notin {"over", "overage", "commit"}
    BY <1>2, <1>7, <2>2
  <2>4. Typed'
    BY <1>1, <1>4, <1>5, <2>2, <2>3, TypedMove
  <2>5. Peeked(task[s]) /\ UNCHANGED <<counter, mem, redis, sent>>
    BY <1>1 DEF Peeked
  <2>6. s = Flush => t.pc # "read" /\ 0 + InHand(t) >= InHand(task[s])
    BY <1>7
  <2>7. Unsettled(t) \in Nat /\ Unsettled(task[s]) = 0
    BY <1>1, <1>2, <2>2 DEF Unsettled
  <2>8. s # Flush => /\ Peeked(t) /\ t.total = task[s].total /\ t.unsure = task[s].unsure
                     /\ 0 + Unsettled(t) >= Unsettled(task[s])
                     /\ Written(task[s]) => Written(t)
    <3>1. Written(t) /\ Peeked(t)
      BY <1>1, <2>2 DEF Written, Billing, Typed, ChargeShape, Peeked
    <3> QED
      BY <2>2, <2>7, <3>1
  <2>9. 0 + Pending("user", t) <= Pending("user", task[s]) /\ burn + Pending("reseller", t) <= Pending("reseller", task[s])
    BY <1>1, <1>2, <1>3, <2>2 DEF Pending, Rest, Charging, Waiting
  <2>10. s # Flush /\ ~Written(t) => 0 = 0 /\ burn = 0
    BY <1>1, <2>2 DEF Written, Billing, Typed, ChargeShape
  <2>11. BillMove(s)
    BY <1>3, <1>4, <2>2, <2>5, <2>6, <2>8, <2>9, <2>10, MakeMove
  <2> QED
    BY <2>4, <2>11
<1> QED
  BY <1>6, <1>7

(* The user is not billable, or it is after all. *)
LEMMA FindOverageStep ==
  ASSUME Typed, NEW s \in Slots, FindOverage(s)
  PROVE  Typed' /\ BillMove(s)
<1> DEFINE inc == IF task[s].seen THEN 0 ELSE task[s].delta
<1>1. task[s].pc = "over" /\ UNCHANGED <<counter, mem, redis, user, budget, sent>>
  BY DEF FindOverage
<1>2. user' \in UserRecord /\ "overage" \in Steps
  BY <1>1 DEF Typed, Shape, Steps
<1>3. CASE task' = [task EXCEPT ![s].pc = "overage"] /\ UNCHANGED tally
  BY <1>1, <1>2, <1>3, QuietStep
<1>4. CASE task' = [task EXCEPT ![s] = Billed(s)] /\ Tally(0, 0, inc)
  <2>1. task[s].delta \in Nat /\ task[s].value \in Nat /\ task[s].seen \in BOOLEAN
    BY Fields, Constants
  <2>2. /\ inc \in Nat /\ 0 \in Int /\ (s # Flush => inc + 0 >= Unsettled(task[s])) /\ task[s].pc \in {"over", "overage"}
        /\ 0 <= Rest(task[s])
    BY <1>1, <2>1 DEF Unsettled, Rest
  <2> HIDE DEF inc
  <2>3. Counts(0, 0, inc)
    BY <1>4, <2>2, TallyStep
  <2> HIDE DEF Typed
  <2> QED
    BY <1>1, <1>2, <1>4, <2>2, <2>3, BilledStep
<1> QED
  BY <1>3, <1>4 DEF FindOverage

(* The delta is added to the overage. *)
LEMMA AddOverageStep ==
  ASSUME Typed, NEW s \in Slots, AddOverage(s)
  PROVE  Typed' /\ BillMove(s)
<1> DEFINE inc == IF task[s].seen THEN 0 ELSE task[s].delta
<1>1. /\ task[s].pc = "overage" /\ UNCHANGED <<counter, mem, redis, budget, sent>>
      /\ user' = [user EXCEPT !.overage = @ + task[s].delta]
      /\ task' = [task EXCEPT ![s] = Billed(s)] /\ Tally(task[s].delta - task[s].value, 0, inc)
  BY DEF AddOverage
<1>2. /\ task[s].delta \in Nat /\ task[s].value \in Nat /\ task[s].seen \in BOOLEAN
      /\ task[s].value <= task[s].delta
  BY Fields, Constants DEF Typed, ChargeShape
<1>3. user' \in UserRecord
  BY <1>1, <1>2 DEF Typed, Shape, UserRecord
<1> DEFINE more == task[s].delta - task[s].value
<1>4. /\ inc \in Nat /\ 0 \in Int /\ (s # Flush => inc + 0 >= Unsettled(task[s])) /\ task[s].pc \in {"over", "overage"}
      /\ more \in Int /\ more <= Rest(task[s]) /\ Tally(more, 0, inc)
  BY <1>1, <1>2 DEF Unsettled, Rest
<1> HIDE DEF inc, more
<1>5. Counts(more, 0, inc)
  BY <1>1, <1>4, TallyStep
<1> HIDE DEF Typed
<1> QED
  BY <1>1, <1>3, <1>4, <1>5, BilledStep

------------------------------------------------------------------------------
(* What every step of a bill keeps. *)

(* The bytes in the hands of a task are a number. *)
LEMMA Amounts ==
  /\ \A t \in TaskRecord : InHand(t) \in Nat /\ Unsettled(t) \in Nat /\ \A x \in Accounts : Pending(x, t) \in Nat
  /\ FlushInHand = InHand(task[Flush]) /\ FlushInHand' = InHand(task'[Flush])
BY Constants DEF InHand, Unsettled, Pending, Rest, TaskRecord, FlushInHand

(* The accounts are numbers. *)
LEMMA AccountType ==
  ASSUME tally \in TallyRecord, NEW x \in Accounts
  PROVE  Account(x) \in Int
BY DEF Account, TallyRecord

\* A step after which no more can be found than it sent, through no new reading.
NoMoreFound ==
  /\ counter' \in Nat /\ sent' \in Nat
  /\ \A b \in Base : DeltaSince(b, counter') + sent <= DeltaSince(b, counter) + sent'
  /\ \A o \in Slots : task'[o].pc = "read" => task[o].pc = "read" /\ task'[o].total = task[o].total

(* What is within the bytes sent stays so, as does less, and from no baseline at all. *)
LEMMA StaysWithin ==
  ASSUME Typed, NoMoreFound, NEW m \in Int, NEW n \in Int, n <= m, NEW b \in Base, NEW c \in {b, Unknown},
         Within(m, b)
  PROVE  /\ n + DeltaSince(c, counter') <= sent'
         /\ \A o \in Slots : task'[o].pc = "read" =>
              n + DeltaSince(c, task'[o].total) + DeltaSince(task'[o].total, counter') <= sent'
<1>1. /\ counter \in Nat /\ sent \in Nat /\ Unknown \in Base /\ c \in Base
      /\ \A o \in Slots : task[o].total \in Nat /\ task[o].total \in Base
  BY Fields, Constants DEF Base
<1>2. counter' \in Nat /\ sent' \in Nat
  BY DEF NoMoreFound
<1>3. \A k \in Nat : DeltaSince(c, k) \in Nat /\ DeltaSince(b, k) \in Nat /\ DeltaSince(c, k) <= DeltaSince(b, k)
  BY <1>1, DeltaType
<1>4. n + DeltaSince(c, counter') <= sent'
  <2>1. m + DeltaSince(b, counter) <= sent
    BY DEF Within
  <2>2. DeltaSince(b, counter') + sent <= DeltaSince(b, counter) + sent'
    BY DEF NoMoreFound
  <2> QED
    BY <1>1, <1>2, <1>3, <2>1, <2>2
<1>5. ASSUME NEW o \in Slots, task'[o].pc = "read"
      PROVE  n + DeltaSince(c, task'[o].total) + DeltaSince(task'[o].total, counter') <= sent'
  <2> DEFINE r == task[o].total
  <2>1. task[o].pc = "read" /\ task'[o].total = r
    BY <1>5 DEF NoMoreFound
  <2>2. m + DeltaSince(b, r) + DeltaSince(r, counter) <= sent
    BY <2>1 DEF Within
  <2>3. DeltaSince(r, counter') + sent <= DeltaSince(r, counter) + sent'
    BY <1>1 DEF NoMoreFound
  <2>4. r \in Nat /\ DeltaSince(r, counter) \in Nat /\ DeltaSince(r, counter') \in Nat
    BY <1>1, <1>2, DeltaType
  <2> HIDE DEF r
  <2>5. n + DeltaSince(c, r) + DeltaSince(r, counter') <= sent'
    BY <1>1, <1>2, <1>3, <2>2, <2>3, <2>4
  <2> QED
    BY <2>1, <2>5
<1> QED
  BY <1>4, <1>5

(* A step of a bill skips nothing. *)
LEMMA MoveFinds ==
  ASSUME Typed, Typed', Found, NEW s \in Slots, BillMove(s)
  PROVE  Found'
<1>1. /\ UNCHANGED <<counter, mem, redis, sent>>
      /\ \A o \in Slots : o # s => task'[o] = task[o]
      /\ Peeked(task[s]) /\ tally'.settled >= tally.settled
  BY DEF BillMove
<1>2. /\ s = Flush => tally'.settled + FlushInHand' >= tally.settled + FlushInHand
      /\ s # Flush => /\ FlushInHand' = FlushInHand
                      /\ task'[s].total = task[s].total /\ task'[s].unsure = task[s].unsure
                      /\ tally'.settled + Unsettled(task'[s]) >= tally.settled + Unsettled(task[s])
  BY <1>1, Amounts, Constants DEF BillMove
<1>3. /\ counter \in Nat /\ sent \in Nat /\ tally.settled \in Nat /\ FlushInHand \in Nat
      /\ tally'.settled \in Nat /\ FlushInHand' \in Nat
      /\ \A o \in Slots : task[o].total \in Nat /\ Unsettled(task[o]) \in Nat /\ Unsettled(task'[o]) \in Nat
  <2>1. /\ \A o \in Slots : task[o] \in TaskRecord /\ task'[o] \in TaskRecord
        /\ tally.settled \in Nat /\ tally'.settled \in Nat
    BY DEF Typed, Shape, TallyRecord
  <2> QED
    BY <2>1, Fields, Amounts, Constants
<1>4. Fresh'
  BY <1>1, <1>2, Constants DEF Found, Fresh, Peeked
<1>5. Covered'
  <2> SUFFICES ASSUME NEW o \in Ticks, Peeked(task'[o]), ~task'[o].unsure
               PROVE  sent <= tally'.settled + Unsettled(task'[o]) + (counter - task'[o].total) + FlushInHand'
    BY <1>1 DEF Covered
  <2>1. o \in Slots /\ o # Flush
    BY Constants
  <2>2. Peeked(task[o]) /\ ~task[o].unsure /\ task'[o].total = task[o].total
    BY <1>1, <1>2, <2>1
  <2>3. sent <= tally.settled + Unsettled(task[o]) + (counter - task[o].total) + FlushInHand
    BY <2>2 DEF Found, Covered
  <2>4. CASE o = s
    BY <1>2, <1>3, <2>1, <2>2, <2>3, <2>4
  <2>5. CASE o # s
    <3>1. Unsettled(task'[o]) = Unsettled(task[o])
      BY <1>1, <2>1, <2>5
    <3>2. tally'.settled + FlushInHand' >= tally.settled + FlushInHand
      BY <1>1, <1>2, <1>3
    <3> QED
      BY <1>3, <2>1, <2>2, <2>3, <3>1, <3>2
  <2> QED
    BY <2>4, <2>5
<1>6. NoByteSkipped'
  <2>1. Unread' = Unread /\ Unread \in Nat
    BY <1>1, Fields, DeltaType DEF Unread, LoadLast
  <2>2. tally'.settled + FlushInHand' >= tally.settled + FlushInHand
    BY <1>1, <1>2, <1>3
  <2> QED
    BY <1>1, <1>3, <2>1, <2>2 DEF Found, NoByteSkipped
<1> QED
  BY <1>4, <1>5, <1>6 DEF Found

(* A step of a bill charges nothing twice. *)
LEMMA MoveCharges ==
  ASSUME Typed, Typed', Charged, NEW s \in Slots, BillMove(s)
  PROVE  Charged'
<1> SUFFICES ASSUME tally'.clean
             PROVE  OnePeeked' /\ FromBase' /\ FromReading'
  BY DEF Charged
<1>1. /\ UNCHANGED <<counter, mem, redis, sent>>
      /\ \A o \in Slots : o # s => task'[o] = task[o]
      /\ Peeked(task[s]) /\ (s = Flush => task'[s].pc # "read")
      /\ s # Flush => /\ Peeked(task'[s]) /\ task'[s].total = task[s].total
                      /\ Written(task[s]) => Written(task'[s])
  BY DEF BillMove
<1>2. OnePeeked /\ FromBase /\ FromReading
  BY DEF Charged, BillMove
<1>3. \A x \in Accounts :
        /\ Account(x)' + Pending(x, task'[s]) <= Account(x) + Pending(x, task[s])
        /\ s # Flush /\ ~Written(task'[s]) => Account(x)' = Account(x)
  BY DEF BillMove
<1>4. /\ \A o \in Slots : task'[o].pc = "read" => task[o].pc = "read" /\ task'[o].total = task[o].total
      /\ UNCHANGED LoadLast /\ LoadLast \in Base
  BY <1>1, Fields DEF Peeked, LoadLast
<1>0. NoMoreFound
  <2>1. counter \in Nat /\ sent \in Nat /\ \A b \in Base : DeltaSince(b, counter) \in Nat
    BY Fields, DeltaType
  <2> QED
    BY <1>1, <1>4, <2>1 DEF NoMoreFound
<1>5. \A x \in Accounts : \A o \in Slots :
        Account(x) + Pending(x, task[o]) \in Int /\ Account(x)' + Pending(x, task'[o]) \in Int
  <2> TAKE x \in Accounts
  <2>1. Account(x) \in Int /\ Account(x)' \in Int
    BY DEF Typed, Shape, Account, TallyRecord
  <2>2. \A o \in Slots : task[o] \in TaskRecord /\ task'[o] \in TaskRecord
    BY DEF Typed, Shape
  <2>3. \A o \in Slots : Pending(x, task[o]) \in Nat /\ Pending(x, task'[o]) \in Nat
    BY <2>2, Amounts
  <2> QED
    BY <2>1, <2>3
<1>6. OnePeeked'
  BY <1>1, <1>2 DEF OnePeeked
<1>7. FromBase'
  <2> SUFFICES ASSUME \A o \in Ticks : ~Written(task'[o]), NEW x \in Accounts
               PROVE  Within(Account(x) + Pending(x, task[Flush]), LoadLast)'
    BY DEF FromBase
  <2>1. \A o \in Ticks : ~Written(task[o])
    BY <1>1, Constants
  <2>2. Within(Account(x) + Pending(x, task[Flush]), LoadLast)
    BY <1>2, <2>1 DEF FromBase
  <2>3. Account(x)' + Pending(x, task'[Flush]) <= Account(x) + Pending(x, task[Flush])
    <3>1. CASE s = Flush
      BY <1>3, <3>1
    <3>2. CASE s # Flush
      <4>1. ~Written(task'[s]) /\ task'[Flush] = task[Flush]
        BY <1>1, <3>2, Constants
      <4> QED
        BY <1>3, <1>5, <3>2, <4>1, Constants
    <3> QED
      BY <3>1, <3>2
  <2> DEFINE n == Account(x)' + Pending(x, task'[Flush])
             m == Account(x) + Pending(x, task[Flush])
  <2>4. n \in Int /\ m \in Int /\ n <= m /\ Within(m, LoadLast)
    BY <1>5, <2>2, <2>3, Constants
  <2> HIDE DEF n, m
  <2>5. /\ n + DeltaSince(LoadLast, counter') <= sent'
        /\ \A o \in Slots : task'[o].pc = "read" =>
             n + DeltaSince(LoadLast, task'[o].total) + DeltaSince(task'[o].total, counter') <= sent'
    BY <1>0, <1>4, <2>4, StaysWithin
  <2> QED
    BY <1>4, <2>5 DEF Within, n
<1>8. FromReading'
  <2> SUFFICES ASSUME NEW o \in Ticks, Peeked(task'[o]), NEW x \in Accounts
               PROVE  Within(Account(x) + Pending(x, task[o]), task[o].total)'
    BY DEF FromReading
  <2>1. o \in Slots /\ o # Flush
    BY Constants
  <2>2. o = s
    BY <1>1, <1>2, <2>1 DEF OnePeeked
  <2>3. Within(Account(x) + Pending(x, task[s]), task[s].total)
    BY <1>1, <1>2, <2>2 DEF FromReading
  <2>4. task'[s].total = task[s].total /\ task[s].total \in Base
    BY <1>1, <2>1, <2>2, Fields DEF Base
  <2> DEFINE n == Account(x)' + Pending(x, task'[s])
             m == Account(x) + Pending(x, task[s])
             b == task[s].total
  <2>5. n \in Int /\ m \in Int /\ n <= m /\ Within(m, b) /\ b \in Base
    BY <1>3, <1>5, <2>3, <2>4
  <2> HIDE DEF n, m, b
  <2>6. /\ n + DeltaSince(b, counter') <= sent'
        /\ \A r \in Slots : task'[r].pc = "read" =>
             n + DeltaSince(b, task'[r].total) + DeltaSince(task'[r].total, counter') <= sent'
    BY <1>0, <2>5, StaysWithin
  <2> QED
    BY <2>2, <2>4, <2>6 DEF Within, n, b
<1> QED
  BY <1>6, <1>7, <1>8

------------------------------------------------------------------------------
(* Steps that leave the tasks where they are. *)

(* Only so many disturbances. *)
LEMMA BudgetLeft ==
  ASSUME Typed, Disturb \/ UNCHANGED budget
  PROVE  budget' \in 0..MaxDisturb
BY Constants DEF Typed, Shape, Disturb

(* Steps on the users row and its copy only. *)
LEMMA RowStep ==
  ASSUME MeterInv, UNCHANGED <<counter, mem, redis, task, sent, tally>>, budget' \in 0..MaxDisturb,
         user' \in UserRecord
  PROVE  MeterInv'
<1>1. Typed'
  BY DEF MeterInv, Typed, Shape, ChargeShape
<1>2. Found'
  BY DEF MeterInv, Found, Fresh, Covered, NoByteSkipped, Unread, LoadLast, FlushInHand
<1>3. UNCHANGED LoadLast /\ \A x \in Accounts : UNCHANGED Account(x)
  BY DEF LoadLast, Account
<1>4. Charged'
  BY <1>3 DEF MeterInv, Charged, OnePeeked, FromBase, FromReading, Within
<1> QED
  BY <1>1, <1>2, <1>4 DEF MeterInv

(* What a recharge makes of the row. *)
LEMMA RechargedRow ==
  ASSUME Typed, NEW l \in Limits
  PROVE  Recharged(user, l) \in UserRecord /\ ~Over(Recharged(user, l))
<1> DEFINE total == user.used + user.overage
           used == IF l = 0 THEN total ELSE Min({total, l})
<1>1. l \in Nat /\ total \in Nat
  BY Constants, Fields
<1>2. used \in Nat /\ used <= total /\ (l > 0 => used <= l)
  BY <1>1, Smaller
<1>3. Recharged(user, l) = User(IF l > 0 /\ used >= l THEN "limited" ELSE "active", used, total - used, l)
  BY DEF Recharged
<1> HIDE DEF used, total
<1> QED
  BY <1>1, <1>2, <1>3 DEF User, UserRecord, Over

(* What limiting, capping and reactivating make of a row. *)
LEMMA ReviewedRow ==
  ASSUME NEW row \in UserRecord
  PROVE  /\ Limited(row) \in UserRecord /\ Limited(row).used = row.used /\ Limited(row).limit = row.limit
         /\ Capped(row) \in UserRecord /\ Capped(row).used = row.limit /\ Capped(row).limit = row.limit
         /\ [row EXCEPT !.status = "active"] \in UserRecord
BY Constants DEF UserRecord, Limited, Capped

(* A session that opens the row leaves it alone. *)
LEMMA OpenStep ==
  ASSUME MeterInv, NEW row \in UserRecord, Over(row) => Over(user), Opens(row), Disturb \/ UNCHANGED budget,
         UNCHANGED <<counter, mem, redis, user, task, sent, tally>>
  PROVE  MeterInv' /\ EditTyped'
<1>1. Typed /\ user \in UserRecord
  BY DEF MeterInv, Typed, Shape
<1>2. EditTyped'
  BY <1>1 DEF Opens, EditTyped, Edit, EditRecord
<1>3. budget' \in 0..MaxDisturb
  BY <1>1, BudgetLeft
<1>4. MeterInv'
  BY <1>1, <1>3, RowStep
<1> QED
  BY <1>2, <1>4

(* The operator sets a limit or resets the usage, the review limits or reactivates. *)
LEMMA EditStep ==
  ASSUME MeterInv, (\E l \in Limits : Recharge(l)) \/ ResetUsage \/ Review
  PROVE  MeterInv' /\ EditTyped' /\ user' = user
<1>1. Typed /\ user \in UserRecord /\ user.limit \in Limits /\ user.limit \in Nat /\ user.used \in Nat
  BY Fields DEF MeterInv, Typed, Shape
<1>2. ASSUME NEW l \in Limits, Recharge(l) PROVE MeterInv' /\ EditTyped' /\ user' = user
  <2>1. Recharged(user, l) \in UserRecord /\ ~Over(Recharged(user, l))
    BY <1>1, RechargedRow
  <2> QED
    BY <1>2, <2>1, OpenStep DEF Recharge
<1>3. CASE ResetUsage
  <2>1. User("active", 0, 0, user.limit) \in UserRecord /\ ~Over(User("active", 0, 0, user.limit))
    BY <1>1 DEF User, UserRecord, Over
  <2> QED
    BY <1>3, <2>1, OpenStep DEF ResetUsage
<1>4. CASE Review
  <2>1. PICK row \in {Limited(user), Capped(user), [user EXCEPT !.status = "active"]} : Opens(row)
    BY <1>4 DEF Review
  <2>2. row \in UserRecord /\ (Over(row) => Over(user))
    <3>1. [user EXCEPT !.status = "active"].used = user.used /\ [user EXCEPT !.status = "active"].limit = user.limit
      BY <1>1 DEF UserRecord
    <3>2. ~Over(Capped(user)) /\ (Over(Limited(user)) => Over(user))
      <4>1. /\ Capped(user).used = user.limit /\ Capped(user).limit = user.limit
            /\ Limited(user).used = user.used /\ Limited(user).limit = user.limit
        BY <1>1, ReviewedRow
      <4> QED
        BY <1>1, <4>1 DEF Over
    <3>3. Over([user EXCEPT !.status = "active"]) => Over(user)
      BY <3>1 DEF Over
    <3> QED
      BY <1>1, <3>2, <3>3, ReviewedRow
  <2>3. UNCHANGED <<counter, mem, redis, user, task, budget, sent, tally>>
    BY <1>4 DEF Review
  <2> QED
    BY <2>1, <2>2, <2>3, OpenStep
<1> QED
  BY <1>2, <1>3, <1>4

(* A commit writes what the session changed. *)
LEMMA MergedRow ==
  ASSUME user \in UserRecord, NEW e \in EditRecord
  PROVE  /\ Merged(e) \in UserRecord
         /\ e.old = user => Merged(e) = e.new
<1>1. DOMAIN user = {"status", "used", "overage", "limit"}
  BY DEF UserRecord
<1>2. e.new \in UserRecord /\ e.old \in UserRecord
  BY DEF EditRecord
<1>3. /\ Merged(e) = [c \in {"status", "used", "overage", "limit"} |-> IF e.new[c] # e.old[c] THEN e.new[c] ELSE user[c]]
  BY <1>1 DEF Merged
<1> QED
  BY <1>2, <1>3 DEF UserRecord

(* The commit of an edit leaves the user above the limit only if the row changed. *)
LEMMA CommitEditStep ==
  ASSUME MeterInv, EditTyped, NEW e \in edit, CommitEdit(e)
  PROVE  MeterInv' /\ EditTyped' /\ (Over(user') /\ ~Over(user) => StaleCommit)
<1>1. Typed /\ user \in UserRecord /\ e \in EditRecord
  BY DEF MeterInv, Typed, Shape, EditTyped
<1>2. user' = Merged(e) /\ UNCHANGED <<counter, mem, redis, task, budget, sent, tally>>
  BY DEF CommitEdit
<1>3. user' \in UserRecord
  BY <1>1, <1>2, MergedRow
<1>4. Limited(user') \in UserRecord /\ (Over(Limited(user')) => Over(user'))
  BY <1>3, ReviewedRow DEF Over
<1>5. edit' = {} \/ (edit' = {Edit(user', Limited(user'))} /\ e.new = Capped(e.old) /\ e.old.status = "active")
  BY DEF CommitEdit
<1>6. EditTyped'
  BY <1>3, <1>4, <1>5 DEF EditTyped, Edit, EditRecord
<1>7. budget' \in 0..MaxDisturb
  BY <1>1, <1>2 DEF Typed, Shape
<1>8. MeterInv'
  BY <1>2, <1>3, <1>7, RowStep
<1>9. ASSUME Over(user'), ~Over(user) PROVE StaleCommit
  <2>1. e.old # user
    BY <1>1, <1>2, <1>9, MergedRow DEF EditTyped
  <2>2. e \notin edit'
    <3>1. e.old \in UserRecord
      BY <1>1 DEF EditRecord
    <3>2. Limited(e.old).status = "limited" /\ Capped(e.old).status = e.old.status
      BY <3>1 DEF UserRecord, Limited, Capped
    <3>3. e = Edit(user', Limited(user')) => e.new = Limited(e.old)
      BY DEF Edit
    <3> QED
      BY <1>5, <3>2, <3>3
  <2> QED
    BY <2>1, <2>2 DEF StaleCommit
<1> QED
  BY <1>6, <1>8, <1>9

(* A record of the tally after a step that may let bytes be charged again. *)
LEMMA SpoilStep ==
  ASSUME Typed, NEW bad \in BOOLEAN, NEW n \in Nat, Spoil(bad, n)
  PROVE  /\ tally' \in TallyRecord /\ tally'.settled = tally.settled + n
         /\ tally'.clean => /\ tally.clean /\ ~bad
                            /\ tally'.charged = tally.charged /\ tally'.burn = tally.burn
<1>1. /\ tally.charged \in Int /\ tally.burn \in Int /\ tally.settled \in Nat /\ tally.clean \in BOOLEAN
  BY Fields
<1>2. tally' = History(tally.charged, tally.burn, tally.settled + n, tally.clean /\ ~bad) /\ tally.settled + n \in Nat
  BY <1>1 DEF Spoil
<1>3. CASE tally.clean = TRUE /\ bad = FALSE
  BY <1>1, <1>2, <1>3 DEF History, TallyRecord
<1>4. CASE tally.clean = FALSE
  BY <1>1, <1>2, <1>4 DEF History, TallyRecord
<1>5. tally.settled + n \in Nat
  BY <1>1
<1>6. CASE bad = TRUE
  <2>1. (tally.clean /\ ~bad) = FALSE
    BY <1>6
  <2>2. tally' = [charged |-> 0, burn |-> 0, settled |-> tally.settled + n, clean |-> FALSE]
    BY <1>2, <2>1 DEF History
  <2>3. tally' \in TallyRecord /\ tally'.settled = tally.settled + n /\ tally'.clean = FALSE
    BY <1>5, <2>2 DEF TallyRecord
  <2> QED
    BY <2>3, <1>6
<1> QED
  BY <1>1, <1>3, <1>4, <1>6

(* Nothing is charged twice by a step that keeps the tasks, the accounts and the *)
(* baseline, or forgets it.                                                      *)
LEMMA CalmCharges ==
  ASSUME Typed, Typed', Charged, NoMoreFound,
         tally'.clean => /\ tally.clean /\ tally'.charged = tally.charged /\ tally'.burn = tally.burn
                         /\ LoadLast' \in {LoadLast, Unknown},
         \A o \in Slots : /\ task'[o].pc = task[o].pc /\ task'[o].total = task[o].total
                          /\ task'[o].delta = task[o].delta /\ task'[o].value = task[o].value
  PROVE  Charged'
<1> SUFFICES ASSUME tally'.clean
             PROVE  OnePeeked' /\ FromBase' /\ FromReading'
  BY DEF Charged
<1>1. OnePeeked /\ FromBase /\ FromReading
  BY DEF Charged
<1>2. \A o \in Slots : /\ Peeked(task'[o]) = Peeked(task[o]) /\ Written(task'[o]) = Written(task[o])
                       /\ \A x \in Accounts : Pending(x, task'[o]) = Pending(x, task[o])
  BY DEF Peeked, Written, Pending, Rest
<1>3. \A x \in Accounts : Account(x)' = Account(x) /\ Account(x) \in Int
  BY DEF Account, Typed, Shape, TallyRecord
<1>4. \A x \in Accounts : \A o \in Slots : Account(x) + Pending(x, task[o]) \in Int
  <2>1. \A o \in Slots : task[o] \in TaskRecord
    BY Fields
  <2> QED
    BY <1>3, <2>1, Amounts
<1>5. LoadLast \in Base /\ \A o \in Slots : task[o].total \in Base
  BY Fields DEF Base
<1>6. OnePeeked'
  BY <1>1, <1>2 DEF OnePeeked
<1>7. FromBase'
  <2> SUFFICES ASSUME \A o \in Ticks : ~Written(task'[o]), NEW x \in Accounts
               PROVE  Within(Account(x) + Pending(x, task[Flush]), LoadLast)'
    BY DEF FromBase
  <2> DEFINE n == Account(x) + Pending(x, task[Flush])
  <2>1. n \in Int /\ n <= n /\ Within(n, LoadLast) /\ LoadLast' \in {LoadLast, Unknown}
    BY <1>1, <1>2, <1>4, Constants DEF FromBase
  <2>2. Account(x)' + Pending(x, task'[Flush]) = n
    BY <1>2, <1>3, Constants
  <2> HIDE DEF n
  <2>3. /\ n + DeltaSince(LoadLast', counter') <= sent'
        /\ \A o \in Slots : task'[o].pc = "read" =>
             n + DeltaSince(LoadLast', task'[o].total) + DeltaSince(task'[o].total, counter') <= sent'
    BY <1>5, <2>1, StaysWithin
  <2> QED
    BY <2>2, <2>3 DEF Within
<1>8. FromReading'
  <2> SUFFICES ASSUME NEW s \in Ticks, Peeked(task'[s]), NEW x \in Accounts
               PROVE  Within(Account(x) + Pending(x, task[s]), task[s].total)'
    BY DEF FromReading
  <2> DEFINE n == Account(x) + Pending(x, task[s])
             b == task[s].total
  <2>1. s \in Slots /\ n \in Int /\ n <= n /\ Within(n, b) /\ b \in Base /\ task'[s].total = b
    BY <1>1, <1>2, <1>4, <1>5, Constants DEF FromReading
  <2>2. Account(x)' + Pending(x, task'[s]) = n
    BY <1>2, <1>3, Constants
  <2> HIDE DEF n, b
  <2>3. /\ n + DeltaSince(b, counter') <= sent'
        /\ \A o \in Slots : task'[o].pc = "read" =>
             n + DeltaSince(b, task'[o].total) + DeltaSince(task'[o].total, counter') <= sent'
    BY <2>1, StaysWithin
  <2> QED
    BY <2>1, <2>2, <2>3 DEF Within
<1> QED
  BY <1>6, <1>7, <1>8

(* What is in hand and to be settled depends on the tasks' progress. *)
LEMMA SameAmounts ==
  ASSUME \A o \in Slots : /\ task'[o].pc = task[o].pc /\ task'[o].delta = task[o].delta
                          /\ task'[o].seen = task[o].seen
  PROVE  FlushInHand' = FlushInHand /\ \A o \in Slots : Unsettled(task'[o]) = Unsettled(task[o])
BY Constants DEF FlushInHand, Unsettled

(* The numbers that are found. *)
LEMMA UnreadType ==
  ASSUME Typed
  PROVE  Unread \in Nat /\ FlushInHand \in Nat
<1>1. task[Flush] \in TaskRecord
  BY Fields, Constants
<1> QED
  BY <1>1, Fields, DeltaType, Amounts DEF Unread

(* The user transfers a byte. *)
LEMMA TransferStep ==
  ASSUME MeterInv, Transfer
  PROVE  MeterInv'
<1>1. /\ sent < MaxBytes /\ sent' = sent + 1 /\ counter' = counter + 1
      /\ UNCHANGED <<mem, redis, user, task, budget>> /\ Tally(0, 0, GivenUp)
  BY DEF Transfer
<1>2. Typed /\ Found /\ Charged
  BY DEF MeterInv
<1>3. counter \in Nat /\ sent \in Nat /\ LoadLast \in Base /\ LoadLast' = LoadLast /\ Unread \in Nat /\ FlushInHand \in Nat
  BY <1>1, <1>2, Fields, UnreadType DEF LoadLast
<1>4. counter' \in Nat /\ Unread' \in Nat /\ Unread' = UnreadAfter
  <2>1. counter' \in Nat
    BY <1>1, <1>3
  <2>2. Unread' = DeltaSince(LoadLast, counter')
    BY <1>3 DEF Unread
  <2>3. UnreadAfter = DeltaSince(LoadLast, counter')
    BY <1>1 DEF UnreadAfter, LoadLast
  <2> QED
    BY <1>3, <2>1, <2>2, <2>3, DeltaType
<1>5. GivenUp \in Nat /\ GivenUp >= 1 + Unread - Unread'
  <2>1. (sent' - sent) + Unread - UnreadAfter \in Int
    BY <1>1, <1>3, <1>4
  <2> QED
    BY <1>1, <1>3, <1>4, <2>1, AtLeastZero DEF GivenUp
<1>6. Counts(0, 0, GivenUp)
  <2>1. 0 \in Int
    OBVIOUS
  <2> QED
    BY <1>1, <1>2, <1>5, <2>1, TallyStep
<1>7. /\ tally' \in TallyRecord /\ tally'.settled = tally.settled + GivenUp /\ tally'.clean = tally.clean
      /\ tally.clean => tally'.charged = tally.charged + 0 /\ tally'.burn = tally.burn + 0
  BY <1>6 DEF Counts
<1>8. Typed'
  <2>1. Shape'
    BY <1>1, <1>2, <1>4, <1>7, Constants DEF Typed, Shape
  <2> QED
    BY <1>1, <1>2, <2>1 DEF Typed, ChargeShape
<1>9. /\ tally.settled \in Nat /\ tally.charged \in Int /\ tally.burn \in Int
      /\ \A o \in Slots : task[o].total \in Nat /\ Unsettled(task[o]) \in Nat
  BY <1>2, Fields, Amounts, Constants
<1>10. FlushInHand' = FlushInHand
  BY <1>1 DEF FlushInHand
<1>11. Found'
  <2>1. Fresh'
    BY <1>1, <1>2, <1>3, <1>9, Constants DEF Found, Fresh
  <2>2. Covered'
    <3> SUFFICES ASSUME NEW o \in Ticks, Peeked(task[o]), ~task[o].unsure
                 PROVE  sent' <= tally'.settled + Unsettled(task[o]) + (counter' - task[o].total) + FlushInHand'
      BY <1>1 DEF Covered
    <3>1. sent <= tally.settled + Unsettled(task[o]) + (counter - task[o].total) + FlushInHand
      BY <1>2 DEF Found, Covered
    <3> QED
      BY <1>1, <1>3, <1>5, <1>7, <1>9, <1>10, <3>1, Constants
  <2>3. NoByteSkipped'
    <3>1. sent <= tally.settled + Unread + FlushInHand
      BY <1>2 DEF Found, NoByteSkipped
    <3>2. sent' <= tally'.settled + Unread' + FlushInHand'
      BY <1>1, <1>3, <1>4, <1>5, <1>7, <1>9, <1>10, <3>1
    <3> QED
      BY <3>2 DEF NoByteSkipped
  <2> QED
    BY <2>1, <2>2, <2>3 DEF Found
<1>12. NoMoreFound
  <2>1. \A b \in Base : DeltaSince(b, counter') + sent <= DeltaSince(b, counter) + sent'
    <3> TAKE b \in Base
    <3>1. DeltaSince(b, counter + 1) <= DeltaSince(b, counter) + 1 /\ DeltaSince(b, counter) \in Nat
          /\ DeltaSince(b, counter + 1) \in Nat
      BY <1>3, DeltaMoves, DeltaType
    <3> QED
      BY <1>1, <1>3, <3>1
  <2> QED
    BY <1>1, <1>3, <1>4, <2>1 DEF NoMoreFound
<1>13. Charged'
  <2>1. tally'.clean => /\ tally.clean /\ tally'.charged = tally.charged /\ tally'.burn = tally.burn
                        /\ LoadLast' \in {LoadLast, Unknown}
    BY <1>3, <1>7, <1>9
  <2>2. \A o \in Slots : /\ task'[o].pc = task[o].pc /\ task'[o].total = task[o].total
                         /\ task'[o].delta = task[o].delta /\ task'[o].value = task[o].value
    BY <1>1
  <2> QED
    BY <1>2, <1>8, <1>12, <2>1, <2>2, CalmCharges
<1> QED
  BY <1>8, <1>11, <1>13 DEF MeterInv

(* The core starts again: what the ticks have read can no longer be compared. *)
LEMMA CoreResetStep ==
  ASSUME MeterInv, CoreReset
  PROVE  MeterInv'
<1>1. /\ Disturb /\ counter' = 0 /\ task' = [s \in Slots |-> [task[s] EXCEPT !.unsure = InFlight(s)]]
      /\ UNCHANGED <<mem, redis, user, sent>> /\ Tally(0, 0, GivenUp)
  BY DEF CoreReset
<1>2. Typed /\ Found /\ Charged
  BY DEF MeterInv
<1>3. counter \in Nat /\ sent \in Nat /\ LoadLast \in Base /\ LoadLast' = LoadLast /\ Unread \in Nat /\ FlushInHand \in Nat
  BY <1>1, <1>2, Fields, UnreadType DEF LoadLast
<1>4. counter' \in Nat /\ Unread' \in Nat /\ Unread' = UnreadAfter
  <2>1. Unread' = DeltaSince(LoadLast, counter') /\ counter' \in Nat
    BY <1>1, <1>3 DEF Unread
  <2>2. UnreadAfter = DeltaSince(LoadLast, counter')
    BY <1>1 DEF UnreadAfter, LoadLast
  <2> QED
    BY <1>3, <2>1, <2>2, DeltaType
<1>5. GivenUp \in Nat /\ GivenUp >= Unread - Unread'
  <2>1. (sent' - sent) + Unread - UnreadAfter \in Int
    BY <1>1, <1>3, <1>4
  <2> QED
    BY <1>1, <1>3, <1>4, <2>1, AtLeastZero DEF GivenUp
<1>6. Counts(0, 0, GivenUp)
  <2>1. 0 \in Int
    OBVIOUS
  <2> QED
    BY <1>1, <1>2, <1>5, <2>1, TallyStep
<1>7. /\ tally' \in TallyRecord /\ tally'.settled = tally.settled + GivenUp /\ tally'.clean = tally.clean
      /\ tally.clean => tally'.charged = tally.charged + 0 /\ tally'.burn = tally.burn + 0
  BY <1>6 DEF Counts
<1>8. \A o \in Slots : /\ task'[o] \in TaskRecord
                       /\ task'[o].pc = task[o].pc /\ task'[o].total = task[o].total
                       /\ task'[o].delta = task[o].delta /\ task'[o].value = task[o].value
                       /\ task'[o].seen = task[o].seen /\ task'[o].unsure = InFlight(o)
  <2>1. \A o \in Slots : task[o] \in TaskRecord /\ InFlight(o) \in BOOLEAN
    BY <1>2, Fields DEF InFlight
  <2> QED
    BY <1>1, <2>1 DEF TaskRecord
<1>9. Typed'
  <2>1. task' \in [Slots -> TaskRecord]
    BY <1>1, <1>8
  <2>2. budget' \in 0..MaxDisturb
    BY <1>1, <1>2, BudgetLeft
  <2>3. counter' \in Nat /\ sent' \in 0..MaxBytes /\ counter' <= sent'
    BY <1>1, <1>2 DEF Typed, Shape
  <2>4. mem' \in Base /\ redis' \in Base /\ user' \in UserRecord
    BY <1>1, <1>2 DEF Typed, Shape
  <2>5. Shape'
    BY <1>7, <2>1, <2>2, <2>3, <2>4 DEF Shape
  <2>6. ChargeShape'
    BY <1>2, <1>8 DEF Typed, ChargeShape
  <2> QED
    BY <1>1, <1>2, <2>5, <2>6 DEF Typed
<1>10. FlushInHand' = FlushInHand /\ tally.settled \in Nat /\ tally.charged \in Int /\ tally.burn \in Int
  BY <1>2, <1>8, SameAmounts, Fields
<1>11. Found'
  <2>1. \A o \in Ticks : task'[o].pc = "idle" \/ task'[o].unsure
    BY <1>8, Constants DEF InFlight
  <2>2. Fresh' /\ Covered'
    BY <2>1 DEF Fresh, Covered, Peeked
  <2>3. NoByteSkipped'
    <3>1. sent <= tally.settled + Unread + FlushInHand
      BY <1>2 DEF Found, NoByteSkipped
    <3>2. sent' <= tally'.settled + Unread' + FlushInHand'
      BY <1>1, <1>3, <1>4, <1>5, <1>7, <1>10, <3>1
    <3> QED
      BY <3>2 DEF NoByteSkipped
  <2> QED
    BY <2>2, <2>3 DEF Found
<1>12. NoMoreFound
  <2>1. \A b \in Base : DeltaSince(b, counter') + sent <= DeltaSince(b, counter) + sent'
    <3> TAKE b \in Base
    <3>1. DeltaSince(b, 0) = 0 /\ DeltaSince(b, counter) \in Nat
      BY <1>3, DeltaMoves, DeltaType
    <3> QED
      BY <1>1, <1>3, <3>1
  <2> QED
    BY <1>1, <1>3, <1>4, <1>8, <2>1 DEF NoMoreFound
<1>13. Charged'
  <2>1. tally'.clean => /\ tally.clean /\ tally'.charged = tally.charged /\ tally'.burn = tally.burn
                        /\ LoadLast' \in {LoadLast, Unknown}
    BY <1>3, <1>7, <1>10
  <2>2. \A o \in Slots : /\ task'[o].pc = task[o].pc /\ task'[o].total = task[o].total
                         /\ task'[o].delta = task[o].delta /\ task'[o].value = task[o].value
    BY <1>8
  <2> QED
    BY <1>2, <1>9, <1>12, <2>1, <2>2, CalmCharges
<1> QED
  BY <1>9, <1>11, <1>13 DEF MeterInv

(* A flush that cannot read forgets the baseline, unless Redis keeps it. *)
LEMMA FlushBlindStep ==
  ASSUME MeterInv, FlushBlind
  PROVE  MeterInv'
<1> DEFINE bad == redis' \notin {Unknown, LoadLast}
<1>1. /\ Disturb /\ mem' = Unknown /\ redis' \in {redis, Unknown}
      /\ UNCHANGED <<counter, user, task, sent>> /\ Spoil(bad, GivenUp)
  BY DEF FlushBlind
<1>2. Typed /\ Found /\ Charged
  BY DEF MeterInv
<1>3. /\ counter \in Nat /\ sent \in Nat /\ LoadLast \in Base /\ LoadLast' = redis' /\ Unread \in Nat
      /\ FlushInHand \in Nat /\ redis' \in Base /\ mem' \in Base /\ bad \in BOOLEAN
  BY <1>1, <1>2, Fields, UnreadType DEF LoadLast, Base
<1>4. Unread' \in Nat /\ Unread' = UnreadAfter
  <2>1. Unread' = DeltaSince(redis', counter) /\ UnreadAfter = DeltaSince(redis', counter)
    BY <1>1, <1>3 DEF Unread, UnreadAfter
  <2> QED
    BY <1>3, <2>1, DeltaType
<1>5. GivenUp \in Nat /\ GivenUp >= Unread - Unread'
  <2>1. (sent' - sent) + Unread - UnreadAfter \in Int
    BY <1>1, <1>3, <1>4
  <2> QED
    BY <1>1, <1>3, <1>4, <2>1, AtLeastZero DEF GivenUp
<1> HIDE DEF bad
<1>6. /\ tally' \in TallyRecord /\ tally'.settled = tally.settled + GivenUp
      /\ tally'.clean => /\ tally.clean /\ ~bad
                         /\ tally'.charged = tally.charged /\ tally'.burn = tally.burn
  BY <1>1, <1>2, <1>3, <1>5, SpoilStep
<1>7. budget' \in 0..MaxDisturb
  BY <1>1, <1>2, BudgetLeft
<1>8. Typed'
  <2>1. Shape'
    BY <1>1, <1>2, <1>3, <1>6, <1>7 DEF Typed, Shape
  <2> QED
    BY <1>1, <1>2, <2>1 DEF Typed, ChargeShape
<1>9. FlushInHand' = FlushInHand /\ tally.settled \in Nat
  BY <1>1, <1>2, Fields DEF FlushInHand
<1>10. Found'
  <2>1. Fresh'
    BY <1>1, <1>2 DEF Found, Fresh
  <2>2. Covered'
    <3> SUFFICES ASSUME NEW o \in Ticks, Peeked(task[o]), ~task[o].unsure
                 PROVE  sent <= tally'.settled + Unsettled(task[o]) + (counter - task[o].total) + FlushInHand'
      BY <1>1 DEF Covered
    <3>1. sent <= tally.settled + Unsettled(task[o]) + (counter - task[o].total) + FlushInHand
      BY <1>2 DEF Found, Covered
    <3>2. task[o].total \in Nat /\ Unsettled(task[o]) \in Nat
      BY <1>2, Fields, Amounts, Constants
    <3> QED
      BY <1>3, <1>5, <1>6, <1>9, <3>1, <3>2
  <2>3. NoByteSkipped'
    <3>1. sent <= tally.settled + Unread + FlushInHand
      BY <1>2 DEF Found, NoByteSkipped
    <3>2. sent' <= tally'.settled + Unread' + FlushInHand'
      BY <1>1, <1>3, <1>4, <1>5, <1>6, <1>9, <3>1
    <3> QED
      BY <3>2 DEF NoByteSkipped
  <2> QED
    BY <2>1, <2>2, <2>3 DEF Found
<1>11. NoMoreFound
  <2>1. \A b \in Base : DeltaSince(b, counter) \in Nat
    BY <1>3, DeltaType
  <2> QED
    BY <1>1, <1>3, <2>1 DEF NoMoreFound
<1>12. Charged'
  <2>1. tally'.clean => /\ tally.clean /\ tally'.charged = tally.charged /\ tally'.burn = tally.burn
                        /\ LoadLast' \in {LoadLast, Unknown}
    BY <1>3, <1>6 DEF bad
  <2>2. \A o \in Slots : /\ task'[o].pc = task[o].pc /\ task'[o].total = task[o].total
                         /\ task'[o].delta = task[o].delta /\ task'[o].value = task[o].value
    BY <1>1
  <2> QED
    BY <1>2, <1>8, <1>11, <2>1, <2>2, CalmCharges
<1> QED
  BY <1>8, <1>10, <1>12 DEF MeterInv

------------------------------------------------------------------------------
(* Collecting. *)

(* A task reads the counter. *)
LEMMA ReadStep ==
  ASSUME MeterInv, NEW s \in Slots, Read(s)
  PROVE  MeterInv'
<1> DEFINE t == Task("read", counter, 0, 0, FALSE, FALSE, FALSE)
<1>1. /\ task[s].pc = "idle" /\ task' = [task EXCEPT ![s] = t] /\ (Disturb \/ UNCHANGED budget)
      /\ UNCHANGED <<counter, mem, redis, user, sent, tally>>
  BY DEF Read
<1>2. Typed /\ Found /\ Charged
  BY DEF MeterInv
<1>3. /\ counter \in Nat /\ sent \in Nat /\ counter \in 0..MaxBytes /\ LoadLast \in Base /\ UNCHANGED LoadLast
      /\ \A o \in Slots : task[o] \in TaskRecord /\ task[o].total \in Base /\ task[o].total \in Nat
  BY <1>1, <1>2, Fields, Constants DEF Typed, Shape, LoadLast, Base
<1>4. /\ t \in TaskRecord /\ t.pc = "read" /\ t.total = counter /\ t.delta = 0 /\ t.value = 0
      /\ t.unsure = FALSE
  BY <1>3, Constants DEF Task, TaskRecord, Steps
<1> HIDE DEF t
<1>5. task'[s] = t /\ \A o \in Slots : o # s => task'[o] = task[o]
  BY <1>1, <1>2, <1>4, TaskFrame DEF Typed, Shape
<1>6. Typed'
  <2>1. budget' \in 0..MaxDisturb
    BY <1>1, <1>2, BudgetLeft
  <2>2. user' \in UserRecord /\ mem' \in Base /\ redis' \in Base /\ tally' \in TallyRecord
    BY <1>1, <1>2 DEF Typed, Shape
  <2>3. /\ t.value <= t.delta /\ (t.pc \in {"charge", "limit", "setlimited", "admin"} => t.value > 0)
        /\ s = Flush => t.pc \notin {"over", "overage", "commit"}
    BY <1>4
  <2> QED
    BY <1>1, <1>2, <1>4, <2>1, <2>2, <2>3, TypedMove
<1>7. FlushInHand' = FlushInHand
  BY <1>1, <1>4, <1>5, Constants DEF FlushInHand
<1>8. Found'
  <2>1. Fresh'
    BY <1>1, <1>2, <1>3, <1>4, <1>5, Constants DEF Found, Fresh
  <2>2. Covered'
    BY <1>1, <1>2, <1>4, <1>5, <1>7, Constants DEF Found, Covered, Peeked
  <2>3. NoByteSkipped'
    BY <1>1, <1>2, <1>3, <1>7 DEF Found, NoByteSkipped, Unread
  <2> QED
    BY <2>1, <2>2, <2>3 DEF Found
<1>9. Charged'
  <2> SUFFICES ASSUME tally'.clean
               PROVE  OnePeeked' /\ FromBase' /\ FromReading'
    BY DEF Charged
  <2>1. OnePeeked /\ FromBase /\ FromReading
    BY <1>1, <1>2 DEF Charged
  <2>2. \A o \in Slots : /\ Peeked(task'[o]) => Peeked(task[o]) /\ o # s
                         /\ Written(task'[o]) = Written(task[o])
                         /\ \A x \in Accounts : Pending(x, task'[o]) = Pending(x, task[o])
    BY <1>1, <1>4, <1>5 DEF Peeked, Written, Billing, Pending, Rest, Charging, Waiting
  <2>3. \A x \in Accounts : UNCHANGED Account(x) /\ Account(x) \in Int
    BY <1>1, <1>2 DEF Account, Typed, Shape, TallyRecord
  <2>4. \A x \in Accounts : \A o \in Slots : Account(x) + Pending(x, task[o]) \in Int
    BY <1>3, <2>3, Amounts
  <2>5. ASSUME NEW n \in Int, NEW b \in Base, Within(n, b)
        PROVE  /\ n + DeltaSince(b, counter') <= sent'
               /\ \A o \in Slots : task'[o].pc = "read" =>
                    n + DeltaSince(b, task'[o].total) + DeltaSince(task'[o].total, counter') <= sent'
    <3>1. n + DeltaSince(b, counter') <= sent' /\ DeltaSince(b, counter) \in Nat
      BY <1>1, <1>3, <2>5, DeltaType DEF Within
    <3>2. n + DeltaSince(b, counter) + DeltaSince(counter, counter) <= sent
      BY <1>1, <1>3, <3>1, DeltaMoves
    <3> QED
      BY <1>1, <1>4, <1>5, <2>5, <3>1, <3>2 DEF Within
  <2>6. OnePeeked'
    BY <2>1, <2>2 DEF OnePeeked
  <2>7. FromBase'
    <3> SUFFICES ASSUME \A o \in Ticks : ~Written(task'[o]), NEW x \in Accounts
                 PROVE  Within(Account(x) + Pending(x, task[Flush]), LoadLast)'
      BY DEF FromBase
    <3> DEFINE n == Account(x) + Pending(x, task[Flush])
    <3>1. n \in Int /\ Within(n, LoadLast)
      BY <2>1, <2>2, <2>4, Constants DEF FromBase
    <3>2. Account(x)' + Pending(x, task'[Flush]) = n
      BY <2>2, <2>3, Constants
    <3> HIDE DEF n
    <3>3. /\ n + DeltaSince(LoadLast, counter') <= sent'
          /\ \A o \in Slots : task'[o].pc = "read" =>
               n + DeltaSince(LoadLast, task'[o].total) + DeltaSince(task'[o].total, counter') <= sent'
      BY <1>3, <2>5, <3>1
    <3> QED
      BY <1>3, <3>2, <3>3 DEF Within
  <2>8. FromReading'
    <3> SUFFICES ASSUME NEW r \in Ticks, Peeked(task'[r]), NEW x \in Accounts
                 PROVE  Within(Account(x) + Pending(x, task[r]), task[r].total)'
      BY DEF FromReading
    <3> DEFINE n == Account(x) + Pending(x, task[r])
               b == task[r].total
    <3>1. r \in Slots /\ n \in Int /\ Within(n, b) /\ b \in Base /\ task'[r] = task[r]
      BY <1>3, <1>5, <2>1, <2>2, <2>4, Constants DEF FromReading
    <3>2. Account(x)' + Pending(x, task'[r]) = n /\ task'[r].total = b
      BY <2>2, <2>3, <3>1
    <3> HIDE DEF n, b
    <3>3. /\ n + DeltaSince(b, counter') <= sent'
          /\ \A o \in Slots : task'[o].pc = "read" =>
               n + DeltaSince(b, task'[o].total) + DeltaSince(task'[o].total, counter') <= sent'
      BY <2>5, <3>1
    <3> QED
      BY <3>2, <3>3 DEF Within
  <2> QED
    BY <2>6, <2>7, <2>8
<1> QED
  BY <1>6, <1>8, <1>9 DEF MeterInv

(* A baseline that is saved is the one the next collect loads. *)
LEMMA SaveLastStep ==
  ASSUME Typed, NEW n \in 0..MaxBytes, SaveLast(n)
  PROVE  mem' \in Base /\ redis' \in Base /\ LoadLast' = n /\ budget' \in 0..MaxDisturb
<1>1. mem' = n /\ (redis' = n \/ UNCHANGED redis) /\ (Disturb \/ UNCHANGED budget)
  BY DEF SaveLast
<1>2. n # Unknown /\ n \in Base
  BY Constants DEF Base
<1>3. budget' \in 0..MaxDisturb
  BY <1>1, BudgetLeft
<1> QED
  BY <1>1, <1>2, <1>3, Fields DEF LoadLast

(* A step that compares a reading while nobody else has anything in hand. *)
LEMMA AloneCharges ==
  ASSUME Typed, Typed', Charged, NEW s \in Slots, task[s].pc = "read", task'[s].pc # "read",
         \A o \in Slots : o # s => task'[o] = task[o],
         tally'.clean => /\ tally.clean /\ ~Overlapping(s) /\ tally'.charged = tally.charged /\ tally'.burn = tally.burn
                         /\ LoadLast' \in {LoadLast, Unknown, task[s].total}
                         /\ s = Flush => LoadLast' \in {Unknown, task[s].total},
         UNCHANGED <<counter, sent>>,
         s # Flush => task'[s].pc = "queued" /\ task'[s].total = task[s].total,
         s = Flush => task'[s].pc \in {"queued", "idle"},
         task'[s].delta <= DeltaSince(LoadLast, task[s].total)
  PROVE  Charged'
<1> SUFFICES ASSUME tally'.clean
             PROVE  OnePeeked' /\ FromBase' /\ FromReading'
  BY DEF Charged
<1> DEFINE L == LoadLast
           r == task[s].total
           d == task'[s].delta
<1>1. \A o \in Slots : o # s => task[o].pc = "idle" /\ task'[o].pc = "idle"
  BY DEF Overlapping, InFlight
<1>2. /\ FromBase /\ L \in Base /\ r \in Base /\ r \in 0..MaxBytes /\ r \in Nat /\ counter \in Nat /\ sent \in Nat
      /\ LoadLast' \in {L, Unknown, r} /\ (s = Flush => LoadLast' \in {Unknown, r}) /\ d \in Nat
  <2>1. task'[s] \in TaskRecord
    BY DEF Typed, Shape
  <2>2. d \in Nat
    BY <2>1, Constants DEF TaskRecord
  <2>3. L \in Base /\ r \in 0..MaxBytes /\ counter \in Nat /\ sent \in Nat
    BY Fields
  <2> QED
    BY <2>2, <2>3, Constants DEF Charged, Base
<1>3. \A x \in Accounts : Account(x)' = Account(x) /\ Account(x) \in Int
  BY DEF Account, Typed, Shape, TallyRecord
<1>4. \A x \in Accounts : Pending(x, task[Flush]) = 0
  <2>1. task[Flush].pc \in {"idle", "read"}
    BY <1>1, Constants
  <2> QED
    BY <2>1 DEF Pending, Rest, Charging, Waiting
<1>5. \A o \in Ticks : ~Written(task[o])
  <2>1. \A o \in Slots : task[o].pc \in {"idle", "read"}
    BY <1>1
  <2> QED
    BY <2>1, Constants DEF Written, Billing
<1>6. ASSUME NEW x \in Accounts
      PROVE  /\ Account(x) + DeltaSince(L, counter) <= sent
             /\ Account(x) + DeltaSince(L, r) + DeltaSince(r, counter) <= sent
  <2>1. Within(Account(x) + Pending(x, task[Flush]), L)
    BY <1>2, <1>5 DEF FromBase
  <2>2. Account(x) + Pending(x, task[Flush]) = Account(x)
    BY <1>3, <1>4
  <2> QED
    BY <2>1, <2>2 DEF Within
<1>7. /\ DeltaSince(L, counter) \in Nat /\ DeltaSince(L, r) \in Nat /\ DeltaSince(r, counter) \in Nat
      /\ DeltaSince(Unknown, counter) = 0 /\ d <= DeltaSince(L, r)
  <2>1. Unknown \in Base
    BY DEF Base
  <2>2. DeltaSince(Unknown, counter) = 0
    BY <1>2, <2>1, DeltaType
  <2>3. DeltaSince(L, counter) \in 0..counter /\ DeltaSince(L, r) \in 0..r /\ DeltaSince(r, counter) \in 0..counter
    BY <1>2, DeltaType
  <2> QED
    BY <1>2, <2>2, <2>3
<1>8. \A o \in Slots : task'[o].pc # "read"
  BY <1>1
<1>9. OnePeeked'
  BY <1>1 DEF OnePeeked, Peeked
<1>10. \A x \in Accounts : Pending(x, task'[s]) = 0 \/ Pending(x, task'[s]) = d
  BY DEF Pending, Charging
<1> HIDE DEF L, r, d
<1>11. FromBase'
  <2> SUFFICES ASSUME NEW x \in Accounts
               PROVE  Account(x)' + Pending(x, task'[Flush]) + DeltaSince(LoadLast', counter') <= sent'
    BY <1>8 DEF FromBase, Within
  <2>1. CASE s = Flush
    <3>1. LoadLast' = Unknown \/ LoadLast' = r
      BY <1>2, <2>1
    <3>2. Account(x) + Pending(x, task'[s]) + DeltaSince(LoadLast', counter) <= sent
      BY <1>2, <1>3, <1>6, <1>7, <1>10, <3>1
    <3> QED
      BY <1>3, <2>1, <3>2
  <2>2. CASE s # Flush
    <3>1. Pending(x, task'[Flush]) = 0
      BY <1>1, <2>2, Constants DEF Pending, Rest, Charging, Waiting
    <3>2. LoadLast' = Unknown \/ LoadLast' = r \/ LoadLast' = L
      BY <1>2
    <3>3. Account(x) + 0 + DeltaSince(LoadLast', counter) <= sent
      BY <1>2, <1>3, <1>6, <1>7, <3>2
    <3> QED
      BY <1>3, <3>1, <3>3
  <2> QED
    BY <2>1, <2>2
<1>12. FromReading'
  <2> SUFFICES ASSUME NEW o \in Ticks, Peeked(task'[o]), NEW x \in Accounts
               PROVE  Account(x)' + Pending(x, task'[o]) + DeltaSince(task'[o].total, counter') <= sent'
    BY <1>8 DEF FromReading, Within
  <2>1. o = s /\ o # Flush
    BY <1>1, Constants DEF Peeked
  <2>2. task'[o].total = r
    BY <2>1 DEF r
  <2>3. Account(x) + Pending(x, task'[s]) + DeltaSince(r, counter) <= sent
    BY <1>2, <1>3, <1>6, <1>7, <1>10
  <2> QED
    BY <1>3, <2>1, <2>2, <2>3
<1> QED
  BY <1>9, <1>11, <1>12

(* What a comparison leaves in hand. *)
LEMMA PeekFields ==
  ASSUME Typed, NEW s \in Slots, NEW last \in {LoadLast, Unknown}, NEW t, t = PeekOutcome(s, last)
  PROVE  /\ t \in TaskRecord /\ t.pc = "queued" /\ t.total = task[s].total /\ t.value = 0
         /\ t.delta <= DeltaSince(LoadLast, task[s].total)
         /\ ~t.unsure => /\ ~task[s].unsure /\ last # Unknown
                         /\ t.delta = IF Discarded(task[s].total) THEN 0 ELSE DeltaSince(last, task[s].total)
<1> DEFINE r == task[s].total
           d == IF last # Unknown /\ Discarded(r) THEN 0 ELSE DeltaSince(last, r)
           unsure == task[s].unsure \/ last = Unknown
<1>1. r \in 0..MaxBytes /\ r \in Nat /\ LoadLast \in Base /\ task[s].unsure \in BOOLEAN /\ Unknown \in Base
  BY Fields, Constants DEF Base
<1>2. DeltaSince(LoadLast, r) \in 0..r /\ DeltaSince(last, r) \in 0..r /\ DeltaSince(Unknown, r) = 0
  <2>1. last \in Base
    BY <1>1
  <2> QED
    BY <1>1, <2>1, DeltaType
<1>3. d \in 0..MaxBytes /\ d <= DeltaSince(LoadLast, r)
  BY <1>1, <1>2, Constants
<1>4. t = Task("queued", r, d, 0, unsure, FALSE, FALSE)
  BY DEF PeekOutcome
<1>5. unsure \in BOOLEAN /\ 0 \in 0..MaxBytes /\ "queued" \in Steps
  BY Constants DEF Steps
<1>6. /\ t \in TaskRecord /\ t.pc = "queued" /\ t.total = r /\ t.value = 0 /\ t.delta = d
      /\ t.unsure = unsure
  <2> HIDE DEF r, d, unsure
  <2> QED
    BY <1>1, <1>3, <1>4, <1>5 DEF Task, TaskRecord
<1>7. ~t.unsure => ~task[s].unsure /\ last # Unknown
  BY <1>1, <1>6
<1>8. last # Unknown => d = IF Discarded(r) THEN 0 ELSE DeltaSince(last, r)
  OBVIOUS
<1> HIDE DEF d
<1> QED
  BY <1>3, <1>6, <1>7, <1>8

(* A tick compares its reading with the baseline. *)
LEMMA PeekStep ==
  ASSUME MeterInv, NEW s \in Ticks, Peek(s)
  PROVE  MeterInv'
<1> DEFINE L == LoadLast
           r == task[s].total
           t == task'[s]
<1>1. s \in Slots /\ s # Flush /\ task[s].pc = "read" /\ UNCHANGED <<counter, user, sent>>
  BY Constants DEF Peek
<1>2. Typed /\ Found /\ Charged
  BY DEF MeterInv
<1>3. /\ L \in Base /\ r \in 0..MaxBytes /\ r \in Base /\ r \in Nat /\ counter \in Nat /\ sent \in Nat /\ tally.settled \in Nat
      /\ Overlapping(s) \in BOOLEAN /\ Unread \in Nat /\ FlushInHand \in Nat
  BY <1>1, <1>2, Fields, Constants, UnreadType DEF Base, Overlapping
<1>4. /\ DeltaSince(L, r) \in Nat /\ DeltaSince(L, counter) \in Nat /\ DeltaSince(r, counter) \in Nat
      /\ DeltaSince(L, counter) <= DeltaSince(L, r) + DeltaSince(r, counter)
      /\ (r <= counter => DeltaSince(r, counter) = counter - r)
  BY <1>3, DeltaType, DeltaThrough, DeltaAbove
<1>5. \/ /\ task' = [task EXCEPT ![s] = PeekOutcome(s, LoadLast)] /\ Discarded(r)
         /\ SaveLast(r) /\ Spoil(Overlapping(s), DeltaSince(L, r))
      \/ /\ task' = [task EXCEPT ![s] = PeekOutcome(s, LoadLast)] /\ ~Discarded(r)
         /\ mem' = L /\ Spoil(Overlapping(s), 0) /\ UNCHANGED <<redis, budget>>
      \/ /\ task' = [task EXCEPT ![s] = Task("queued", r, 0, 0, TRUE, FALSE, FALSE)] /\ ~Discarded(r)
         /\ mem' = L /\ Spoil(Overlapping(s), 0) /\ Disturb /\ UNCHANGED redis
      \/ /\ task' = [task EXCEPT ![s] = PeekOutcome(s, Unknown)] /\ Disturb
         /\ Spoil(Overlapping(s), 0) /\ UNCHANGED <<mem, redis>>
  BY DEF Peek
<1>6. \/ \E last \in {LoadLast, Unknown} : task' = [task EXCEPT ![s] = PeekOutcome(s, last)]
      \/ task' = [task EXCEPT ![s] = Task("queued", r, 0, 0, TRUE, FALSE, FALSE)]
  BY <1>5
<1>7. task' = [task EXCEPT ![s] = t] /\ \A o \in Slots : o # s => task'[o] = task[o]
  BY <1>1, <1>2, <1>6 DEF Typed, Shape
<1>8. /\ t \in TaskRecord /\ t.pc = "queued" /\ t.total = r /\ t.value = 0
      /\ t.delta <= DeltaSince(L, r)
      /\ ~t.unsure => /\ ~task[s].unsure
                      /\ t.delta = IF Discarded(r) THEN 0 ELSE DeltaSince(L, r)
      /\ \A o \in Slots : o # s => task'[o] = task[o]
      /\ task' = [task EXCEPT ![s] = t]
  <2>1. ASSUME NEW last \in {LoadLast, Unknown}, task' = [task EXCEPT ![s] = PeekOutcome(s, last)]
        PROVE  /\ t \in TaskRecord /\ t.pc = "queued" /\ t.total = r /\ t.value = 0
               /\ t.delta <= DeltaSince(L, r)
               /\ ~t.unsure => /\ ~task[s].unsure
                               /\ t.delta = IF Discarded(r) THEN 0 ELSE DeltaSince(L, r)
    <3>1. t = PeekOutcome(s, last)
      BY <1>1, <1>2, <2>1 DEF Typed, Shape
    <3>2. /\ t \in TaskRecord /\ t.pc = "queued" /\ t.total = r /\ t.value = 0
          /\ t.delta <= DeltaSince(L, r)
          /\ ~t.unsure => /\ ~task[s].unsure /\ last # Unknown
                          /\ t.delta = IF Discarded(r) THEN 0 ELSE DeltaSince(last, r)
      BY <1>1, <1>2, <3>1, PeekFields
    <3> QED
      BY <3>2
  <2>2. CASE task' = [task EXCEPT ![s] = Task("queued", r, 0, 0, TRUE, FALSE, FALSE)]
    <3>1. t = Task("queued", r, 0, 0, TRUE, FALSE, FALSE)
      BY <1>1, <1>2, <2>2 DEF Typed, Shape
    <3>2. "queued" \in Steps /\ 0 \in 0..MaxBytes /\ r \in 0..MaxBytes
      BY <1>3, Constants DEF Steps
    <3> HIDE DEF t, r, L
    <3>3. t \in TaskRecord /\ t.pc = "queued" /\ t.total = r /\ t.value = 0 /\ t.delta = 0 /\ t.unsure = TRUE
      BY <3>1, <3>2 DEF Task, TaskRecord
    <3>4. 0 <= DeltaSince(L, r)
      BY <1>4
    <3> QED
      BY <1>7, <3>3, <3>4
  <2> QED
    BY <1>6, <1>7, <2>1, <2>2
<1>9. /\ mem' \in Base /\ redis' \in Base /\ budget' \in 0..MaxDisturb /\ tally' \in TallyRecord
      /\ \/ LoadLast' = L /\ tally'.settled = tally.settled /\ ~Discarded(r)
         \/ LoadLast' = r /\ tally'.settled = tally.settled + DeltaSince(L, r) /\ Discarded(r)
         \/ LoadLast' = L /\ tally'.settled = tally.settled /\ t.unsure
      /\ tally'.clean => /\ tally.clean /\ ~Overlapping(s)
                         /\ tally'.charged = tally.charged /\ tally'.burn = tally.burn
  <2>1. mem \in Base /\ redis \in Base /\ budget \in 0..MaxDisturb
    BY <1>2 DEF Typed, Shape
  <2>2. CASE Discarded(r) /\ SaveLast(r) /\ Spoil(Overlapping(s), DeltaSince(L, r))
    <3>1. mem' \in Base /\ redis' \in Base /\ LoadLast' = r /\ budget' \in 0..MaxDisturb
      BY <1>2, <1>3, <2>2, SaveLastStep
    <3>2. DeltaSince(L, r) \in Nat
      BY <1>4
    <3> HIDE DEF L
    <3>3. /\ tally' \in TallyRecord /\ tally'.settled = tally.settled + DeltaSince(L, r)
          /\ tally'.clean => /\ tally.clean /\ ~Overlapping(s)
                             /\ tally'.charged = tally.charged /\ tally'.burn = tally.burn
      BY <1>2, <1>3, <2>2, <3>2, SpoilStep
    <3> QED
      BY <2>2, <3>1, <3>3
  <2>3. ASSUME Spoil(Overlapping(s), 0)
        PROVE  /\ tally' \in TallyRecord /\ tally'.settled = tally.settled
               /\ tally'.clean => /\ tally.clean /\ ~Overlapping(s)
                                  /\ tally'.charged = tally.charged /\ tally'.burn = tally.burn
    <3>1. 0 \in Nat /\ tally.settled + 0 = tally.settled
      BY <1>3
    <3> QED
      BY <1>2, <1>3, <2>3, <3>1, SpoilStep
  <2>4. CASE ~Discarded(r) /\ mem' = L /\ Spoil(Overlapping(s), 0) /\ UNCHANGED <<redis, budget>>
    <3>1. LoadLast' = L
      BY <2>4 DEF LoadLast
    <3> QED
      BY <1>3, <2>1, <2>3, <2>4, <3>1
  <2>5. CASE /\ task' = [task EXCEPT ![s] = PeekOutcome(s, Unknown)] /\ Disturb
             /\ Spoil(Overlapping(s), 0) /\ UNCHANGED <<mem, redis>>
    <3>1. LoadLast' = L /\ budget' \in 0..MaxDisturb
      BY <1>2, <2>5, BudgetLeft DEF LoadLast
    <3>2. t = PeekOutcome(s, Unknown)
      BY <1>1, <1>2, <2>5 DEF Typed, Shape
    <3>3. t.unsure
      BY <1>1, <1>2, <3>2, PeekFields
    <3> QED
      BY <2>1, <2>3, <2>5, <3>1, <3>3
  <2>6. CASE ~Discarded(r) /\ mem' = L /\ Spoil(Overlapping(s), 0) /\ Disturb /\ UNCHANGED redis
    <3>1. LoadLast' = L /\ budget' \in 0..MaxDisturb
      BY <1>2, <2>6, BudgetLeft DEF LoadLast
    <3> QED
      BY <1>3, <2>1, <2>3, <2>6, <3>1
  <2> QED
    BY <1>5, <2>2, <2>4, <2>5, <2>6
<1>10. Typed'
  <2>1. user' \in UserRecord /\ t.delta \in Nat
    BY <1>1, <1>2, <1>8, Constants DEF Typed, Shape, TaskRecord
  <2>2. /\ t.value <= t.delta /\ (t.pc \in {"charge", "limit", "setlimited", "admin"} => t.value > 0)
        /\ s = Flush => t.pc \notin {"over", "overage", "commit"}
    BY <1>8, <2>1
  <2> QED
    BY <1>1, <1>2, <1>8, <1>9, <2>1, <2>2, TypedMove
<1>11. ~t.unsure => (/\ tally'.settled + t.delta = tally.settled + DeltaSince(L, r)
                    /\ ~task[s].unsure)
  <2> SUFFICES ASSUME ~t.unsure
               PROVE  tally'.settled + t.delta = tally.settled + DeltaSince(L, r) /\ ~task[s].unsure
    OBVIOUS
  <2>1. t.delta = IF Discarded(r) THEN 0 ELSE DeltaSince(L, r)
    BY <1>8
  <2> HIDE DEF L, r, t
  <2> QED
    BY <1>3, <1>4, <1>8, <1>9, <2>1
<1>12. FlushInHand' = FlushInHand /\ tally'.settled >= tally.settled /\ tally'.settled \in Nat
  BY <1>1, <1>3, <1>4, <1>8, <1>9, Constants DEF FlushInHand
<1>13. Found'
  <2>1. Fresh'
    BY <1>1, <1>2, <1>8, <1>11, Constants DEF Found, Fresh
  <2>2. Unread = DeltaSince(L, counter) /\ sent <= tally.settled + Unread + FlushInHand
    BY <1>2 DEF Unread, Found, NoByteSkipped
  <2>3. Covered'
    <3> SUFFICES ASSUME NEW o \in Ticks, Peeked(task'[o]), ~task'[o].unsure
                 PROVE  sent <= tally'.settled + Unsettled(task'[o]) + (counter - task'[o].total) + FlushInHand
      BY <1>1, <1>12 DEF Covered
    <3>1. CASE o = s
      <4>1. Unsettled(t) = t.delta /\ t.delta \in Nat
        BY <1>8, Constants DEF Unsettled, TaskRecord
      <4>2. r <= counter
        BY <1>1, <1>2, <1>11, <3>1 DEF Found, Fresh
      <4>3. tally'.settled + t.delta = tally.settled + DeltaSince(L, r)
        BY <1>11, <3>1
      <4>4. DeltaSince(L, counter) <= DeltaSince(L, r) + (counter - r)
        BY <1>4, <4>2
      <4>5. t.total = r
        BY <1>8
      <4> HIDE DEF L, r, t
      <4>6. sent <= tally'.settled + t.delta + (counter - r) + FlushInHand
        BY <1>3, <1>4, <1>12, <2>2, <4>1, <4>3, <4>4
      <4> QED
        BY <3>1, <4>1, <4>5, <4>6 DEF t
    <3>2. CASE o # s
      <4>1. o \in Slots /\ task'[o] = task[o] /\ task[o].total \in Nat /\ Unsettled(task[o]) \in Nat
        BY <1>2, <1>8, <3>2, Fields, Amounts, Constants
      <4>2. sent <= tally.settled + Unsettled(task[o]) + (counter - task[o].total) + FlushInHand
        BY <1>2, <4>1 DEF Found, Covered
      <4> QED
        BY <1>3, <1>12, <4>1, <4>2
    <3> QED
      BY <3>1, <3>2
  <2>4. NoByteSkipped'
    <3>1. LoadLast' = L \/ (LoadLast' = r /\ tally'.settled = tally.settled + DeltaSince(L, r))
      BY <1>9
    <3>2. Unread' = DeltaSince(LoadLast', counter)
      BY <1>1 DEF Unread
    <3> HIDE DEF L, r
    <3>3. sent' <= tally'.settled + Unread' + FlushInHand'
      <4>1. CASE LoadLast' = L
        BY <1>1, <1>3, <1>12, <2>2, <3>2, <4>1
      <4>2. CASE LoadLast' = r /\ tally'.settled = tally.settled + DeltaSince(L, r)
        BY <1>1, <1>3, <1>4, <1>12, <2>2, <3>2, <4>2
      <4> QED
        BY <3>1, <4>1, <4>2
    <3> QED
      BY <3>3 DEF NoByteSkipped
  <2> QED
    BY <2>1, <2>3, <2>4 DEF Found
<1>14. Charged'
  <2>1. tally'.clean => /\ tally.clean /\ ~Overlapping(s) /\ tally'.charged = tally.charged /\ tally'.burn = tally.burn
                        /\ LoadLast' \in {LoadLast, Unknown, task[s].total}
                        /\ s = Flush => LoadLast' \in {Unknown, task[s].total}
    <3>1. LoadLast' \in {LoadLast, Unknown, task[s].total}
      BY <1>9
    <3> QED
      BY <1>1, <1>9, <3>1
  <2>2. /\ task'[s].pc # "read" /\ (s # Flush => task'[s].pc = "queued" /\ task'[s].total = task[s].total)
        /\ s = Flush => task'[s].pc \in {"queued", "idle"}
        /\ task'[s].delta <= DeltaSince(LoadLast, task[s].total)
    BY <1>8
  <2>3. (\A o \in Slots : o # s => task'[o] = task[o]) /\ UNCHANGED <<counter, sent>>
    BY <1>1, <1>8
  <2> HIDE DEF L, r, t
  <2> QED
    BY <1>1, <1>2, <1>10, <2>1, <2>2, <2>3, AloneCharges
<1> QED
  BY <1>10, <1>13, <1>14 DEF MeterInv

(* The flush takes what it read and forgets the baseline. *)
LEMMA FlushPeekStep ==
  ASSUME MeterInv, FlushPeek
  PROVE  MeterInv'
<1> DEFINE L == LoadLast
           r == task[Flush].total
           d == IF Discarded(r) THEN 0 ELSE DeltaSince(L, r)
           q == Task("queued", r, d, 0, task[Flush].unsure, FALSE, FALSE)
           t == IF d > 0 THEN q ELSE Idle
           bad == Overlapping(Flush) \/ redis' \notin {Unknown, r}
           lost == Max({0, Unread - d})
<1>1. /\ task[Flush].pc = "read" /\ Forget(r) /\ task' = [task EXCEPT ![Flush] = t]
      /\ Spoil(bad, lost) /\ UNCHANGED <<counter, user, sent>>
  BY DEF FlushPeek
<1>2. Typed /\ Found /\ Charged /\ Flush \in Slots
  BY Constants DEF MeterInv
<1>3. /\ L \in Base /\ r \in 0..MaxBytes /\ r \in Base /\ r \in Nat /\ counter \in Nat /\ sent \in Nat
      /\ tally.settled \in Nat /\ Unread \in Nat /\ task[Flush].unsure \in BOOLEAN /\ redis \in Base
  BY <1>2, Fields, Constants, UnreadType DEF Base
<1>4. d \in 0..MaxBytes /\ d <= DeltaSince(L, r)
  <2>1. DeltaSince(L, r) \in 0..r
    BY <1>3, DeltaType
  <2> QED
    BY <1>3, <2>1, Constants
<1>5. mem' = Unknown /\ redis' \in {Unknown, r, redis} /\ (Disturb \/ UNCHANGED budget)
  BY <1>1 DEF Forget
<1>6. mem' \in Base /\ redis' \in Base /\ LoadLast' = redis' /\ budget' \in 0..MaxDisturb
  <2>1. budget' \in 0..MaxDisturb
    BY <1>2, <1>5, BudgetLeft
  <2> QED
    BY <1>3, <1>5, <2>1 DEF LoadLast, Base
<1> HIDE DEF d
<1>7. lost \in Nat /\ lost >= Unread - d
  <2>1. Unread - d \in Int
    BY <1>3, <1>4, Constants
  <2> QED
    BY <2>1, AtLeastZero
<1>8. /\ q \in TaskRecord /\ q.pc = "queued" /\ q.delta = d /\ q.value = 0
  <2> HIDE DEF r
  <2>1. "queued" \in Steps /\ 0 \in 0..MaxBytes
    BY Constants DEF Steps
  <2> QED
    BY <1>3, <1>4, <2>1 DEF Task, TaskRecord
<1> HIDE DEF q, lost
<1>9. /\ t \in TaskRecord /\ t.pc \in {"queued", "idle"} /\ t.delta = d /\ t.value = 0 /\ InHand(t) = d
  BY <1>4, <1>8, IdleTask, Constants DEF InHand
<1> HIDE DEF t
<1>10. /\ tally' \in TallyRecord /\ tally'.settled = tally.settled + lost
       /\ tally'.clean => /\ tally.clean /\ ~bad
                          /\ tally'.charged = tally.charged /\ tally'.burn = tally.burn
  <2>1. bad \in BOOLEAN
    BY DEF Overlapping
  <2> HIDE DEF bad
  <2> QED
    BY <1>1, <1>2, <1>7, <2>1, SpoilStep
<1>11. task'[Flush] = t /\ \A o \in Slots : o # Flush => task'[o] = task[o]
  BY <1>1, <1>2, <1>9, TaskFrame DEF Typed, Shape
<1>12. Typed'
  <2>1. user' \in UserRecord
    BY <1>1, <1>2 DEF Typed, Shape
  <2>2. /\ t.value <= t.delta /\ (t.pc \in {"charge", "limit", "setlimited", "admin"} => t.value > 0)
        /\ Flush = Flush => t.pc \notin {"over", "overage", "commit"}
    BY <1>4, <1>9, Constants
  <2>3. UNCHANGED <<counter, sent>>
    BY <1>1
  <2> QED
    BY <1>1, <1>2, <1>6, <1>9, <1>10, <2>1, <2>2, <2>3, TypedMove
<1>13. FlushInHand = 0 /\ FlushInHand' = d
  BY <1>1, <1>9, <1>11, Amounts DEF InHand
<1>14. Found'
  <2>1. Fresh'
    BY <1>1, <1>2, <1>11, Constants DEF Found, Fresh
  <2>2. Covered'
    <3> SUFFICES ASSUME NEW o \in Ticks, Peeked(task'[o]), ~task'[o].unsure
                 PROVE  sent <= tally'.settled + Unsettled(task'[o]) + (counter - task'[o].total) + FlushInHand'
      BY <1>1 DEF Covered
    <3>1. o \in Slots /\ task'[o] = task[o] /\ task[o].total \in Nat /\ Unsettled(task[o]) \in Nat
      BY <1>2, <1>11, Fields, Amounts, Constants
    <3>2. sent <= tally.settled + Unsettled(task[o]) + (counter - task[o].total) + FlushInHand
      BY <1>2, <3>1 DEF Found, Covered
    <3> QED
      BY <1>3, <1>4, <1>7, <1>10, <1>13, <3>1, <3>2, Constants
  <2>3. NoByteSkipped'
    <3>1. Unread' \in Nat
      <4>1. Unread' = DeltaSince(redis', counter)
        BY <1>1, <1>6 DEF Unread
      <4> QED
        BY <1>3, <1>6, <4>1, DeltaType
    <3>2. sent <= tally.settled + Unread + 0
      BY <1>2, <1>13 DEF Found, NoByteSkipped
    <3>3. sent' <= tally'.settled + Unread' + FlushInHand'
      BY <1>1, <1>3, <1>4, <1>7, <1>10, <1>13, <3>1, <3>2, Constants
    <3> QED
      BY <3>3 DEF NoByteSkipped
  <2> QED
    BY <2>1, <2>2, <2>3 DEF Found
<1>15. Charged'
  <2>1. tally'.clean => /\ tally.clean /\ ~Overlapping(Flush) /\ tally'.charged = tally.charged /\ tally'.burn = tally.burn
                        /\ LoadLast' \in {LoadLast, Unknown, task[Flush].total}
                        /\ Flush = Flush => LoadLast' \in {Unknown, task[Flush].total}
    BY <1>6, <1>10
  <2>2. /\ task'[Flush].pc # "read" /\ (Flush # Flush => task'[Flush].pc = "queued" /\ task'[Flush].total = task[Flush].total)
        /\ Flush = Flush => task'[Flush].pc \in {"queued", "idle"}
        /\ task'[Flush].delta <= DeltaSince(LoadLast, task[Flush].total)
    BY <1>4, <1>9, <1>11
  <2>3. UNCHANGED <<counter, sent>>
    BY <1>1
  <2> QED
    BY <1>1, <1>2, <1>11, <1>12, <2>1, <2>2, <2>3, AloneCharges
<1> QED
  BY <1>12, <1>14, <1>15 DEF MeterInv

------------------------------------------------------------------------------
(* The end of a task. *)

(* A task that ends without moving the baseline, or with it. *)
LEMMA EndCharges ==
  ASSUME Typed, Typed', Charged, NEW s \in Slots, task' = [task EXCEPT ![s] = Idle], UNCHANGED <<counter, sent>>,
         tally'.clean => tally.clean /\ tally'.charged = tally.charged /\ tally'.burn = tally.burn,
         \/ tally'.clean => ~Written(task[s]) /\ UNCHANGED LoadLast
         \/ s # Flush /\ Peeked(task[s]) /\ task[s].pc = "commit" /\ LoadLast' = task[s].total
  PROVE  Charged'
<1> SUFFICES ASSUME tally'.clean
             PROVE  OnePeeked' /\ FromBase' /\ FromReading'
  BY DEF Charged
<1>1. task'[s] = Idle /\ task'[s].pc = "idle" /\ \A o \in Slots : o # s => task'[o] = task[o]
  BY IdleTask, TaskFrame DEF Typed, Shape
<1>2. OnePeeked /\ FromBase /\ FromReading
  BY DEF Charged
<1>3. \A x \in Accounts : Account(x)' = Account(x) /\ Account(x) \in Int
  BY DEF Account, Typed, Shape, TallyRecord
<1>4. \A o \in Slots : task[o] \in TaskRecord /\ task[o].total \in Base /\ \A x \in Accounts : Pending(x, task[o]) \in Nat
  BY Fields, Amounts DEF Base
<1>5. LoadLast \in Base
  BY Fields
<1>6. NoMoreFound
  <2>1. counter \in Nat /\ sent \in Nat /\ \A b \in Base : DeltaSince(b, counter) \in Nat
    BY Fields, DeltaType
  <2> QED
    BY <1>1, <2>1 DEF NoMoreFound
<1>7. OnePeeked'
  BY <1>1, <1>2 DEF OnePeeked, Peeked
<1>8. \A x \in Accounts : Pending(x, task'[Flush]) = 0 \/ (s # Flush /\ task'[Flush] = task[Flush])
  BY <1>1, Constants DEF Pending, Rest, Charging, Waiting
<1>9. FromBase'
  <2> SUFFICES ASSUME \A o \in Ticks : ~Written(task'[o]), NEW x \in Accounts
               PROVE  Within(Account(x) + Pending(x, task[Flush]), LoadLast)'
    BY DEF FromBase
  <2> DEFINE n == Account(x)' + Pending(x, task'[Flush])
  <2>1. n \in Int
    BY <1>3, <1>4, <1>8, Constants
  <2>2. \E m \in Int : n <= m /\ Within(m, LoadLast')
    <3>1. CASE ~Written(task[s]) /\ UNCHANGED LoadLast
      <4> DEFINE m == Account(x) + Pending(x, task[Flush])
      <4>1. \A o \in Ticks : ~Written(task[o])
        BY <1>1, <3>1, Constants
      <4>2. Within(m, LoadLast)
        BY <1>2, <4>1 DEF FromBase
      <4>3. m \in Int /\ n <= m
        BY <1>3, <1>4, <1>8, Constants
      <4> HIDE DEF m, n
      <4> QED
        BY <3>1, <4>2, <4>3
    <3>2. CASE s # Flush /\ Peeked(task[s]) /\ task[s].pc = "commit" /\ LoadLast' = task[s].total
      <4> DEFINE m == Account(x) + Pending(x, task[s])
      <4>1. Within(m, task[s].total)
        BY <1>2, <3>2, Constants DEF FromReading
      <4>2. Pending(x, task[s]) = 0 /\ Pending(x, task[Flush]) = 0
        <5>1. ~Peeked(task[Flush])
          BY <1>2, <3>2, Constants DEF OnePeeked
        <5> QED
          BY <3>2, <5>1 DEF Pending, Rest, Charging, Waiting, Peeked
      <4>3. m \in Int /\ n <= m
        BY <1>3, <1>8, <4>2
      <4> HIDE DEF m, n
      <4> QED
        BY <3>2, <4>1, <4>3
    <3> QED
      BY <3>1, <3>2
  <2>3. PICK m \in Int : n <= m /\ Within(m, LoadLast')
    BY <2>2
  <2>4. LoadLast' \in Base
    BY <1>4, <1>5
  <2> HIDE DEF n
  <2>5. /\ n + DeltaSince(LoadLast', counter') <= sent'
        /\ \A o \in Slots : task'[o].pc = "read" =>
             n + DeltaSince(LoadLast', task'[o].total) + DeltaSince(task'[o].total, counter') <= sent'
    BY <1>6, <2>1, <2>3, <2>4, StaysWithin
  <2> QED
    BY <2>5 DEF Within, n
<1>10. FromReading'
  <2> SUFFICES ASSUME NEW o \in Ticks, Peeked(task'[o]), NEW x \in Accounts
               PROVE  Within(Account(x) + Pending(x, task[o]), task[o].total)'
    BY DEF FromReading
  <2> DEFINE n == Account(x) + Pending(x, task[o])
             b == task[o].total
  <2>1. o \in Slots /\ task'[o] = task[o]
    BY <1>1, Constants DEF Peeked
  <2>2. n \in Int /\ n <= n /\ b \in Base /\ Within(n, b)
    BY <1>2, <1>3, <1>4, <2>1 DEF FromReading
  <2>3. Account(x)' + Pending(x, task'[o]) = n /\ task'[o].total = b
    BY <1>3, <2>1
  <2> HIDE DEF n, b
  <2>4. /\ n + DeltaSince(b, counter') <= sent'
        /\ \A q \in Slots : task'[q].pc = "read" =>
             n + DeltaSince(b, task'[q].total) + DeltaSince(task'[q].total, counter') <= sent'
    BY <1>6, <2>2, StaysWithin
  <2> QED
    BY <2>3, <2>4 DEF Within
<1> QED
  BY <1>7, <1>9, <1>10

(* The baseline moves to what the tick read. *)
LEMMA CommitStep ==
  ASSUME MeterInv, NEW s \in Slots, Commit(s)
  PROVE  MeterInv'
<1> DEFINE r == task[s].total
           lost == IF task[s].unsure THEN Passed(r) ELSE 0
<1>1. /\ task[s].pc = "commit" /\ SaveLast(r) /\ Tally(0, 0, lost) /\ task' = [task EXCEPT ![s] = Idle]
      /\ UNCHANGED <<counter, user, sent>>
  BY DEF Commit
<1>2. Typed /\ Found /\ Charged
  BY DEF MeterInv
<1>3. s # Flush /\ s \in Ticks
  BY <1>1, <1>2, Constants DEF Typed, ChargeShape
<1>4. /\ r \in 0..MaxBytes /\ r \in Base /\ r \in Nat /\ counter \in Nat /\ sent \in Nat /\ tally.settled \in Nat
      /\ Unread \in Nat /\ FlushInHand \in Nat
  BY <1>2, Fields, UnreadType, Constants DEF Base
<1>5. mem' \in Base /\ redis' \in Base /\ LoadLast' = r /\ budget' \in 0..MaxDisturb
  BY <1>1, <1>2, <1>4, SaveLastStep
<1>6. Unread' = DeltaSince(r, counter) /\ DeltaSince(r, counter) \in Nat /\ (r <= counter => DeltaSince(r, counter) = counter - r)
  <2>1. Unread' = DeltaSince(r, counter)
    BY <1>1, <1>5 DEF Unread
  <2> QED
    BY <1>4, <2>1, DeltaType, DeltaAbove
<1>7. lost \in Nat /\ (task[s].unsure => lost >= Unread - DeltaSince(r, counter))
  <2>1. Unread - DeltaSince(r, counter) \in Int
    BY <1>4, <1>6
  <2>2. Passed(r) \in Nat /\ Passed(r) >= Unread - DeltaSince(r, counter)
    BY <2>1, AtLeastZero DEF Passed
  <2> QED
    BY <2>2
<1> HIDE DEF lost
<1>8. Counts(0, 0, lost)
  <2>1. 0 \in Int
    OBVIOUS
  <2> QED
    BY <1>1, <1>2, <1>7, <2>1, TallyStep
<1>9. /\ tally' \in TallyRecord /\ tally'.settled = tally.settled + lost
      /\ tally'.clean => tally.clean /\ tally'.charged = tally.charged /\ tally'.burn = tally.burn
  <2>1. tally.charged \in Int /\ tally.burn \in Int
    BY <1>2, Fields
  <2> QED
    BY <1>8, <2>1 DEF Counts
<1>10. task'[s] = Idle /\ task'[s].pc = "idle" /\ \A o \in Slots : o # s => task'[o] = task[o]
  BY <1>1, <1>2, IdleTask, TaskFrame DEF Typed, Shape
<1>11. Typed'
  <2>1. user' \in UserRecord /\ UNCHANGED <<counter, sent>>
    BY <1>1, <1>2 DEF Typed, Shape
  <2>2. /\ Idle \in TaskRecord /\ Idle.value <= Idle.delta /\ (Idle.pc \in {"charge", "limit", "setlimited", "admin"} => Idle.value > 0)
        /\ s = Flush => Idle.pc \notin {"over", "overage", "commit"}
    BY IdleTask
  <2> QED
    BY <1>1, <1>2, <1>5, <1>9, <2>1, <2>2, TypedMove
<1>12. FlushInHand' = FlushInHand
  BY <1>3, <1>10, Constants DEF FlushInHand
<1>13. Found'
  <2>1. Fresh'
    BY <1>1, <1>2, <1>10, Constants DEF Found, Fresh
  <2>2. Covered'
    <3> SUFFICES ASSUME NEW o \in Ticks, Peeked(task'[o]), ~task'[o].unsure
                 PROVE  sent <= tally'.settled + Unsettled(task'[o]) + (counter - task'[o].total) + FlushInHand
      BY <1>1, <1>12 DEF Covered
    <3>1. o \in Slots /\ task'[o] = task[o] /\ task[o].total \in Nat /\ Unsettled(task[o]) \in Nat
      BY <1>2, <1>10, Fields, Amounts, Constants DEF Peeked
    <3>2. sent <= tally.settled + Unsettled(task[o]) + (counter - task[o].total) + FlushInHand
      BY <1>2, <3>1 DEF Found, Covered
    <3> QED
      BY <1>4, <1>7, <1>9, <3>1, <3>2
  <2>3. NoByteSkipped'
    <3>1. sent <= tally.settled + Unread + FlushInHand
      BY <1>2 DEF Found, NoByteSkipped
    <3>2. CASE task[s].unsure
      <4>1. lost >= Unread - DeltaSince(r, counter)
        BY <1>7, <3>2
      <4> HIDE DEF r
      <4>2. sent' <= tally'.settled + Unread' + FlushInHand'
        BY <1>1, <1>4, <1>6, <1>7, <1>9, <1>12, <3>1, <4>1
      <4> QED
        BY <4>2 DEF NoByteSkipped
    <3>3. CASE ~task[s].unsure
      <4>1. r <= counter /\ Unsettled(task[s]) = 0
        BY <1>1, <1>2, <1>3, <3>3 DEF Found, Fresh, Unsettled
      <4>2. sent <= tally.settled + Unsettled(task[s]) + (counter - r) + FlushInHand
        BY <1>1, <1>2, <1>3, <3>3 DEF Found, Covered, Peeked
      <4> HIDE DEF r
      <4>3. sent' <= tally'.settled + Unread' + FlushInHand'
        BY <1>1, <1>4, <1>6, <1>7, <1>9, <1>12, <4>1, <4>2
      <4> QED
        BY <4>3 DEF NoByteSkipped
    <3> QED
      BY <3>2, <3>3
  <2> QED
    BY <2>1, <2>2, <2>3 DEF Found
<1>14. Charged'
  <2>1. s # Flush /\ Peeked(task[s]) /\ task[s].pc = "commit" /\ LoadLast' = task[s].total
    BY <1>1, <1>3, <1>5 DEF Peeked
  <2>2. UNCHANGED <<counter, sent>>
    BY <1>1
  <2> QED
    BY <1>1, <1>2, <1>9, <1>11, <2>1, <2>2, EndCharges
<1> QED
  BY <1>11, <1>13, <1>14 DEF MeterInv

(* A bill breaks off. *)
LEMMA FailBillStep ==
  ASSUME MeterInv, NEW s \in Slots, FailBill(s)
  PROVE  MeterInv'
<1> DEFINE bad == ~(task[s].pc = "charge" \/ (task[s].pc \in {"over", "overage"} /\ task[s].value = 0))
           lost == IF s = Flush /\ task[s].pc = "charge" THEN task[s].delta ELSE 0
<1>1. /\ task[s].pc \in Billing /\ Disturb /\ task' = [task EXCEPT ![s] = Idle]
      /\ Spoil(bad, lost) /\ UNCHANGED <<counter, mem, redis, user, sent>>
  BY DEF FailBill
<1>2. Typed /\ Found /\ Charged
  BY DEF MeterInv
<1>3. /\ counter \in Nat /\ sent \in Nat /\ tally.settled \in Nat /\ Unread \in Nat /\ FlushInHand \in Nat
      /\ task[s].delta \in Nat /\ bad \in BOOLEAN /\ lost \in Nat
  BY <1>2, Fields, UnreadType, Constants
<1>4. /\ tally' \in TallyRecord /\ tally'.settled = tally.settled + lost
      /\ tally'.clean => /\ tally.clean /\ ~bad
                         /\ tally'.charged = tally.charged /\ tally'.burn = tally.burn
  <2> HIDE DEF bad, lost
  <2> QED
    BY <1>1, <1>2, <1>3, SpoilStep
<1>5. task'[s] = Idle /\ task'[s].pc = "idle" /\ \A o \in Slots : o # s => task'[o] = task[o]
  BY <1>1, <1>2, IdleTask, TaskFrame DEF Typed, Shape
<1>6. Typed'
  <2>1. user' \in UserRecord /\ UNCHANGED <<counter, sent>> /\ mem' \in Base /\ redis' \in Base
    BY <1>1, <1>2 DEF Typed, Shape
  <2>2. /\ Idle \in TaskRecord /\ Idle.value <= Idle.delta /\ (Idle.pc \in {"charge", "limit", "setlimited", "admin"} => Idle.value > 0)
        /\ s = Flush => Idle.pc \notin {"over", "overage", "commit"}
    BY IdleTask
  <2>3. budget' \in 0..MaxDisturb
    BY <1>1, <1>2, BudgetLeft
  <2> QED
    BY <1>1, <1>2, <1>4, <2>1, <2>2, <2>3, TypedMove
<1>7. tally'.settled + FlushInHand' >= tally.settled + FlushInHand /\ FlushInHand' \in Nat /\ tally'.settled \in Nat
  <2>1. FlushInHand = InHand(task[Flush]) /\ FlushInHand' = InHand(task'[Flush])
    BY Amounts
  <2>2. CASE s = Flush
    <3>1. InHand(task'[Flush]) = 0 /\ InHand(task[Flush]) = lost
      BY <1>1, <1>5, <2>2 DEF InHand, Billing
    <3> HIDE DEF lost
    <3> QED
      BY <1>3, <1>4, <2>1, <3>1
  <2>3. CASE s # Flush
    <3>1. task'[Flush] = task[Flush]
      BY <1>5, <2>3, Constants
    <3> HIDE DEF lost
    <3> QED
      BY <1>3, <1>4, <2>1, <3>1
  <2> QED
    BY <2>2, <2>3
<1> HIDE DEF lost
<1>8. Found'
  <2>1. Fresh'
    BY <1>1, <1>2, <1>5, Constants DEF Found, Fresh
  <2>2. Covered'
    <3> SUFFICES ASSUME NEW o \in Ticks, Peeked(task'[o]), ~task'[o].unsure
                 PROVE  sent <= tally'.settled + Unsettled(task'[o]) + (counter - task'[o].total) + FlushInHand'
      BY <1>1 DEF Covered
    <3>1. o \in Slots /\ task'[o] = task[o] /\ task[o].total \in Nat /\ Unsettled(task[o]) \in Nat
      BY <1>2, <1>5, Fields, Amounts, Constants DEF Peeked
    <3>2. sent <= tally.settled + Unsettled(task[o]) + (counter - task[o].total) + FlushInHand
      BY <1>2, <3>1 DEF Found, Covered
    <3> QED
      BY <1>3, <1>7, <3>1, <3>2
  <2>3. NoByteSkipped'
    <3>1. sent <= tally.settled + Unread + FlushInHand
      BY <1>2 DEF Found, NoByteSkipped
    <3>2. Unread' = Unread
      BY <1>1 DEF Unread, LoadLast
    <3>3. sent' <= tally'.settled + Unread' + FlushInHand'
      BY <1>1, <1>3, <1>7, <3>1, <3>2
    <3> QED
      BY <3>3 DEF NoByteSkipped
  <2> QED
    BY <2>1, <2>2, <2>3 DEF Found
<1>9. Charged'
  <2>1. UNCHANGED LoadLast /\ UNCHANGED <<counter, sent>>
    BY <1>1 DEF LoadLast
  <2>2. tally'.clean => ~Written(task[s]) /\ UNCHANGED LoadLast
    BY <1>4, <2>1 DEF Written, bad
  <2>3. tally'.clean => tally.clean /\ tally'.charged = tally.charged /\ tally'.burn = tally.burn
    BY <1>4
  <2> QED
    BY <1>1, <1>2, <1>6, <2>1, <2>2, <2>3, EndCharges
<1> QED
  BY <1>6, <1>8, <1>9 DEF MeterInv

(* The worker restarts. *)
LEMMA CrashStep ==
  ASSUME MeterInv, Crash
  PROVE  MeterInv'
<1> DEFINE lost == FlushInHand + Max({0, Unread - DeltaSince(redis, counter)})
<1>1. /\ Disturb /\ mem' = Unknown /\ task' = [s \in Slots |-> Idle] /\ Spoil(TRUE, lost)
      /\ UNCHANGED <<counter, redis, user, sent>>
  BY DEF Crash
<1>2. Typed /\ Found
  BY DEF MeterInv
<1>3. /\ counter \in Nat /\ sent \in Nat /\ tally.settled \in Nat /\ Unread \in Nat /\ FlushInHand \in Nat /\ redis \in Base
      /\ DeltaSince(redis, counter) \in Nat
  BY <1>2, Fields, UnreadType, DeltaType
<1>4. lost \in Nat /\ lost >= FlushInHand + (Unread - DeltaSince(redis, counter))
  <2>1. Unread - DeltaSince(redis, counter) \in Int
    BY <1>3
  <2>2. Max({0, Unread - DeltaSince(redis, counter)}) \in Nat
        /\ Max({0, Unread - DeltaSince(redis, counter)}) >= Unread - DeltaSince(redis, counter)
    BY <2>1, AtLeastZero
  <2> QED
    BY <1>3, <2>1, <2>2
<1> HIDE DEF lost
<1>5. tally' \in TallyRecord /\ tally'.settled = tally.settled + lost /\ tally'.clean = FALSE
  <2>1. TRUE \in BOOLEAN
    OBVIOUS
  <2>2. tally' \in TallyRecord /\ tally'.settled = tally.settled + lost /\ (tally'.clean => ~TRUE)
    BY <1>1, <1>2, <1>4, <2>1, SpoilStep
  <2> QED
    BY <2>2 DEF TallyRecord
<1>6. task' \in [Slots -> TaskRecord] /\ \A o \in Slots : task'[o] = Idle
  BY <1>1, IdleTask
<1>7. mem' \in Base /\ budget' \in 0..MaxDisturb /\ LoadLast' = redis
  <2>1. budget' \in 0..MaxDisturb
    BY <1>1, <1>2, BudgetLeft
  <2> QED
    BY <1>1, <2>1 DEF LoadLast, Base
<1>8. Typed'
  <2>1. Shape'
    BY <1>1, <1>2, <1>5, <1>6, <1>7 DEF Typed, Shape
  <2>2. ChargeShape'
    BY <1>6, IdleTask DEF ChargeShape
  <2> QED
    BY <1>1, <1>2, <2>1, <2>2 DEF Typed
<1>9. Found'
  <2>1. Fresh' /\ Covered'
    BY <1>6, IdleTask, Constants DEF Fresh, Covered, Peeked
  <2>2. FlushInHand' = 0 /\ Unread' = DeltaSince(redis, counter)
    BY <1>1, <1>6, <1>7, IdleTask, Constants DEF FlushInHand, Unread
  <2>3. sent <= tally.settled + Unread + FlushInHand
    BY <1>2 DEF Found, NoByteSkipped
  <2>4. sent' <= tally'.settled + Unread' + FlushInHand'
    BY <1>1, <1>3, <1>4, <1>5, <2>2, <2>3
  <2> QED
    BY <2>1, <2>4 DEF Found, NoByteSkipped
<1>10. Charged'
  BY <1>5 DEF Charged
<1> QED
  BY <1>8, <1>9, <1>10 DEF MeterInv

------------------------------------------------------------------------------
(* The theorems. *)

(* Nothing has been sent, read or charged. *)
LEMMA InitInv == Init => MeterInv /\ EditTyped
<1> SUFFICES ASSUME Init PROVE MeterInv /\ EditTyped
  OBVIOUS
<1>1. counter = 0 /\ mem = 0 /\ redis = 0 /\ task = [s \in Slots |-> Idle] /\ budget = MaxDisturb /\ sent = 0
  BY DEF Init
<1>2. user = User("active", 0, 0, FirstLimit) /\ EditTyped
  BY DEF Init, EditTyped
<1>3. user \in UserRecord
  BY <1>2, UsageConstants DEF User, UserRecord
<1>4. tally \in TallyRecord /\ tally.charged = 0 /\ tally.burn = 0 /\ tally.settled = 0
  BY DEF Init, History, TallyRecord
<1>5. task \in [Slots -> TaskRecord] /\ \A s \in Slots : task[s] = Idle
  BY <1>1, IdleTask
<1>6. Typed
  <2>1. Shape
    BY <1>1, <1>3, <1>4, <1>5, Constants DEF Shape, Base
  <2>2. ChargeShape
    BY <1>5, IdleTask DEF ChargeShape
  <2> QED
    BY <1>3, <2>1, <2>2 DEF Typed
<1>7. Unread = 0 /\ FlushInHand = 0 /\ LoadLast = 0 /\ DeltaSince(0, 0) = 0
  BY <1>1, <1>5, IdleTask, Constants DEF Unread, FlushInHand, LoadLast, DeltaSince, Unknown
<1>8. Found
  BY <1>1, <1>4, <1>5, <1>7, IdleTask, Constants DEF Found, Fresh, Covered, Peeked, NoByteSkipped
<1>9. Charged
  <2>1. \A x \in Accounts : Account(x) = 0 /\ Pending(x, Idle) = 0
    BY <1>4, IdleTask DEF Account, Pending, Rest, Charging, Waiting
  <2>2. OnePeeked /\ FromReading
    BY <1>5, IdleTask, Constants DEF OnePeeked, FromReading, Peeked
  <2>3. FromBase
    BY <1>1, <1>5, <1>7, <2>1, IdleTask, Constants DEF FromBase, Within
  <2> QED
    BY <2>2, <2>3 DEF Charged
<1> QED
  BY <1>2, <1>6, <1>8, <1>9 DEF MeterInv

(* Every step of a bill, by its name. *)
LEMMA BillStep ==
  ASSUME MeterInv, NEW s \in Slots,
         \/ StartBill(s) \/ Charge(s) \/ FindLimited(s) \/ SetLimited(s)
         \/ ChargeAdmin(s) \/ FindOverage(s) \/ AddOverage(s)
  PROVE  MeterInv'
<1>1. Typed /\ Found /\ Charged
  BY DEF MeterInv
<1>2. Typed' /\ BillMove(s)
  BY <1>1, StartBillStep, ChargeStep, FindLimitedStep, SetLimitedStep, ChargeAdminStep, FindOverageStep, AddOverageStep
<1>3. Found' /\ Charged'
  BY <1>1, <1>2, MoveFinds, MoveCharges
<1> QED
  BY <1>2, <1>3 DEF MeterInv

(* A bill never takes the user above the limit. *)
LEMMA BillKeepsLimit ==
  ASSUME Typed, NEW s \in Slots,
         \/ StartBill(s) \/ Charge(s) \/ FindLimited(s) \/ SetLimited(s)
         \/ ChargeAdmin(s) \/ FindOverage(s) \/ AddOverage(s)
  PROVE  Over(user') => Over(user)
<1>1. /\ user \in UserRecord /\ user.used \in Nat /\ user.limit \in Nat /\ user.overage \in Nat
      /\ task[s].value \in Nat /\ task[s].delta \in Nat
  BY Fields, Constants DEF Typed, Shape
<1>2. CASE StartBill(s) \/ ChargeAdmin(s) \/ FindOverage(s)
  <2>1. user' = user
    BY <1>2 DEF StartBill, ChargeAdmin, FindOverage
  <2> QED
    BY <2>1
<1>3. CASE Charge(s)
  <2>1. user' = [user EXCEPT !.used = ClampedUsed(user, task[s].value)]
    BY <1>3 DEF Charge
  <2>2. user'.used = ClampedUsed(user, task[s].value) /\ user'.limit = user.limit
    BY <1>1, <2>1 DEF UserRecord
  <2> QED
    BY <1>1, <2>2 DEF ClampedUsed, Over
<1>4. CASE FindLimited(s)
  <2> DEFINE used == IF QuotaExhausted(user) /\ user.status = "active" THEN Min({user.used, user.limit}) ELSE user.used
  <2>1. user' = [user EXCEPT !.used = used]
    BY <1>4 DEF FindLimited
  <2>2. used \in Nat /\ used <= user.used
    BY <1>1, Smaller
  <2> HIDE DEF used
  <2>3. user'.used = used /\ user'.limit = user.limit
    BY <1>1, <2>1 DEF UserRecord
  <2> QED
    BY <1>1, <2>2, <2>3 DEF Over
<1>5. CASE SetLimited(s) \/ AddOverage(s)
  <2>1. user' = [user EXCEPT !.status = "limited"] \/ user' = [user EXCEPT !.overage = @ + task[s].delta]
    BY <1>5 DEF SetLimited, AddOverage
  <2>2. user'.used = user.used /\ user'.limit = user.limit
    BY <1>1, <2>1 DEF UserRecord
  <2> QED
    BY <2>2 DEF Over
<1> QED
  BY <1>2, <1>3, <1>4, <1>5

(* Every step keeps the invariant, and the limit but for a stale commit. *)
LEMMA MeterStep ==
  ASSUME MeterInv, EditTyped, [Next]_vars
  PROVE  MeterInv' /\ EditTyped' /\ (Over(user') /\ ~Over(user) => StaleCommit)
<1> DEFINE Kept == EditTyped' /\ (Over(user') => Over(user))
<1>0. UNCHANGED <<user, edit>> => Kept
  BY DEF EditTyped
<1>1. CASE UNCHANGED vars
  <2>1. UNCHANGED <<counter, mem, redis, task, sent, tally>> /\ user' = user /\ budget' = budget /\ edit' = edit
    BY <1>1 DEF vars
  <2>2. budget' \in 0..MaxDisturb /\ user' \in UserRecord
    BY <2>1 DEF MeterInv, Typed, Shape
  <2> QED
    BY <1>0, <2>1, <2>2, RowStep
<1>2. CASE Transfer \/ CoreReset \/ FlushPeek \/ FlushBlind
  <2>1. MeterInv'
    BY <1>2, TransferStep, CoreResetStep, FlushPeekStep, FlushBlindStep
  <2>2. UNCHANGED <<user, edit>>
    BY <1>2 DEF Transfer, CoreReset, FlushPeek, FlushBlind
  <2> QED
    BY <1>0, <2>1, <2>2
<1>3. CASE Crash
  <2>1. edit' = {} /\ user' = user
    BY <1>3 DEF Crash
  <2> QED
    BY <1>3, <2>1, CrashStep DEF EditTyped
<1>4. ASSUME NEW s \in Slots, Read(s) \/ TaskStep(s) \/ FailBill(s)
      PROVE  MeterInv' /\ Kept
  <2>1. CASE Read(s) \/ Commit(s) \/ FailBill(s)
    <3>1. UNCHANGED <<user, edit>>
      BY <2>1 DEF Read, Commit, FailBill
    <3> QED
      BY <1>0, <2>1, <3>1, ReadStep, CommitStep, FailBillStep
  <2>2. CASE Peek(s)
    <3>1. s \in Ticks /\ UNCHANGED <<user, edit>>
      BY <2>2 DEF Peek
    <3> QED
      BY <1>0, <2>2, <3>1, PeekStep
  <2>3. CASE \/ StartBill(s) \/ Charge(s) \/ FindLimited(s) \/ SetLimited(s)
             \/ ChargeAdmin(s) \/ FindOverage(s) \/ AddOverage(s)
    <3>1. UNCHANGED edit
      BY <2>3 DEF StartBill, Charge, FindLimited, SetLimited, ChargeAdmin, FindOverage, AddOverage
    <3>2. Over(user') => Over(user)
      BY <2>3, BillKeepsLimit DEF MeterInv
    <3>3. MeterInv'
      BY <2>3, BillStep
    <3> QED
      BY <3>1, <3>2, <3>3 DEF EditTyped
  <2> QED
    BY <1>4, <2>1, <2>2, <2>3 DEF TaskStep
<1>5. CASE (\E l \in Limits : Recharge(l)) \/ ResetUsage \/ Review
  BY <1>5, EditStep
<1>6. ASSUME NEW e \in edit, CommitEdit(e)
      PROVE  MeterInv' /\ EditTyped' /\ (Over(user') /\ ~Over(user) => StaleCommit)
  BY <1>6, CommitEditStep
<1> HIDE DEF MeterInv, EditTyped, StaleCommit
<1> QED
  BY <1>1, <1>2, <1>3, <1>4, <1>5, <1>6 DEF Next

(* The invariant holds in every state of every behaviour. *)
THEOREM MeterInvariant == Spec => [](MeterInv /\ EditTyped)
<1>1. MeterInv /\ EditTyped /\ [Next]_vars => (MeterInv /\ EditTyped)'
  BY MeterStep
<1> QED
  BY <1>1, InitInv, PTL DEF Spec

(* Every variable keeps its type, and a tick that charges has bytes to charge. *)
THEOREM MeterTypeCorrect == Spec => []TypeOK
<1>1. MeterInv /\ EditTyped => TypeOK
  <2> SUFFICES ASSUME MeterInv, EditTyped PROVE TypeOK
    OBVIOUS
  <2>1. Typed
    BY DEF MeterInv
  <2>2. counter \in 0..MaxBytes /\ sent \in 0..MaxBytes /\ budget \in 0..MaxDisturb
    BY <2>1, Constants DEF Typed, Shape
  <2>3. mem \in -1..MaxBytes /\ redis \in -1..MaxBytes
    BY <2>1, Constants DEF Typed, Shape, Base
  <2>4. \A s \in Slots :
          /\ task[s].pc \in Steps
          /\ {task[s].total, task[s].delta, task[s].value} \subseteq 0..MaxBytes
          /\ {task[s].unsure, task[s].capped, task[s].seen} \subseteq BOOLEAN
    BY <2>1, Fields
  <2>5. \A s \in Ticks : task[s].pc \in {"charge", "limit", "setlimited", "admin"} => task[s].delta > 0
    <3> SUFFICES ASSUME NEW s \in Ticks, task[s].pc \in {"charge", "limit", "setlimited", "admin"}
                 PROVE  task[s].delta > 0
      OBVIOUS
    <3>1. task[s].value \in Nat /\ task[s].delta \in Nat /\ task[s].value <= task[s].delta /\ task[s].value > 0
      BY <2>1, Fields, Constants DEF Typed, ChargeShape
    <3> QED
      BY <3>1
  <2>6. \A e \in edit : {e.new.used, e.new.overage} \subseteq Nat /\ e.new.limit \in Limits
    BY DEF EditTyped, EditRecord, UserRecord
  <2> QED
    BY <2>1, <2>2, <2>3, <2>4, <2>5, <2>6, Fields DEF TypeOK
<1> QED
  BY <1>1, MeterInvariant, PTL

(* However bills, recharges, resets and reviews interleave, only the commit of a row *)
(* that changed after it was loaded leaves the user above the limit.                  *)
THEOREM LimitKept == Spec => MeterKeepsLimit
<1>1. MeterInv /\ EditTyped /\ [Next]_vars => [Over(user') /\ ~Over(user) => StaleCommit]_vars
  BY MeterStep
<1> QED
  BY <1>1, MeterInvariant, PTL DEF Spec, MeterKeepsLimit

(* Nothing a later collect could find is skipped: a failed or crashed bill, overlapping *)
(* ticks and baselines committed out of order lose no byte, and what is lost through a  *)
(* late answer is no more than the tick passed over.                                    *)
THEOREM NothingSkipped == Spec => []NoByteSkipped
<1>1. MeterInv => NoByteSkipped
  BY DEF MeterInv, Found
<1> QED
  BY <1>1, MeterInvariant, PTL

(* While no two tasks overlapped, no bill broke off half-way and no flush left an old *)
(* baseline in Redis, no byte is charged twice to the reseller, nor to the user, as   *)
(* used traffic or overage, but by the one bill that limits the user.                 *)
THEOREM NoByteBilledTwice == Spec => []BilledOnce
<1>1. MeterInv => BilledOnce
  <2> SUFFICES ASSUME MeterInv, tally.clean
               PROVE  \A x \in Accounts : Account(x) <= sent
    BY DEF BilledOnce, Account, Accounts
  <2> TAKE x \in Accounts
  <2>1. Typed /\ FromBase /\ FromReading /\ Account(x) \in Int /\ sent \in Nat /\ counter \in Nat
    BY AccountType, Fields DEF MeterInv, Charged, Typed, Shape
  <2>2. \A o \in Slots : Pending(x, task[o]) \in Nat /\ DeltaSince(task[o].total, counter) \in Nat
    <3>1. \A o \in Slots : task[o] \in TaskRecord /\ task[o].total \in Base
      BY <2>1, Fields DEF Base
    <3> QED
      BY <2>1, <3>1, Amounts, DeltaType
  <2>3. CASE \A s \in Ticks : ~Written(task[s])
    <3>1. Account(x) + Pending(x, task[Flush]) + DeltaSince(LoadLast, counter) <= sent
      BY <2>1, <2>3 DEF FromBase, Within
    <3>2. DeltaSince(LoadLast, counter) \in Nat
      BY <2>1, Fields, DeltaType
    <3> QED
      BY <2>1, <2>2, <3>1, <3>2, Constants
  <2>4. CASE \E s \in Ticks : Written(task[s])
    <3>1. PICK s \in Ticks : Written(task[s])
      BY <2>4
    <3>2. Peeked(task[s])
      BY <3>1 DEF Written, Peeked, Billing
    <3>3. Account(x) + Pending(x, task[s]) + DeltaSince(task[s].total, counter) <= sent
      BY <2>1, <3>2 DEF FromReading, Within
    <3> QED
      BY <2>1, <2>2, <3>3, Constants
  <2> QED
    BY <2>3, <2>4
<1> QED
  BY <1>1, MeterInvariant, PTL
=============================================================================
