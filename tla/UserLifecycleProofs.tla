------------------------- MODULE UserLifecycleProofs -------------------------
(***************************************************************************)
(* Proofs about UserLifecycle, for every set of bodies, plans and first    *)
(* rows.                                                                   *)
(*                                                                         *)
(* A commit on a row that has not changed since its load writes the whole  *)
(* computed row (FlushCommits), so as long as no commit was stale every    *)
(* session acts as one step on the row: what each operation does to a row  *)
(* (the lemmas on the operators) carries over to the sessions.  What is    *)
(* left for the invariant is what a session still knows of its copy when   *)
(* it commits: the query that picked it (Picked) and, for a renewal, the   *)
(* package it computed and the usage it has reset (Renewal).               *)
(***************************************************************************)
EXTENDS UserLifecycle, TLAPS

------------------------------------------------------------------------------
(* The inductive invariant. *)

Loaded == {"due", "limit", "hold", "timer", "limited", "cap"}
EditReq == [pc : {"edit"}, copy : RowRecord, body : Modifies]
ResetReq == [pc : {"reset", "resetall", "next"}, copy : RowRecord]
PlanReq == [pc : {"plan", "apply"}, copy : RowRecord, plan : Plans, had : Nat, body : Bodies]

Shape ==
  /\ now \in 0..MaxTime /\ blocked \in BOOLEAN
  /\ row \in RowRecord
  /\ left \in [requests : 0..MaxRequests, disturb : 0..MaxDisturb]
  /\ off \in Standing /\ stale \in BOOLEAN
ReqShape ==
  /\ req = NoReq \/ req \in EditReq \/ req \in ResetReq \/ req \in PlanReq
  /\ req.pc = "next" => req.copy.next # NoPlan
RevShape ==
  /\ rev.pc \in ReviewSteps
  /\ rev.pc \in Loaded => rev.copy \in RowRecord
  /\ rev.pc = "cap" => rev.new \in RowRecord

\* The copy is a row its scan looks for; the caps change no usage and no package.
Picked ==
  /\ rev.pc = "due" => rev.copy.status = "active"
  /\ rev.pc = "hold" => rev.copy.status = "on_hold"
  /\ rev.pc = "limited" => rev.copy.status = "limited"
  /\ rev.pc = "cap" => /\ rev.copy.status = "active" \/ rev.copy.capped = TRUE
                       /\ rev.new.used = rev.copy.used /\ rev.new.limit = rev.copy.limit

\* A renewal holds the package it computed, and comes to it with the usage reset.
Renewal ==
  /\ req.pc \in {"plan", "apply"} =>
       /\ req.body.status = "active" /\ req.body.next = NoPlan
       /\ req.body.limit = IF req.plan.limit = 0 THEN 0 ELSE req.plan.limit + req.had
  /\ req.pc = "apply" /\ ~stale => req.copy.used = 0 /\ req.copy.overage = 0

\* The row as the operator left it, and a row within its package.
Off(r) == r.status = "disabled" /\ r.capped = FALSE
Within(r) == Package(r) > 0 => r.used <= Package(r)
OffHolds == off = "manual" /\ ~stale => Off(row)

LifeInv ==
  Shape /\ ReqShape /\ RevShape /\ Picked /\ Renewal /\ OffHolds /\ WithinPackage

------------------------------------------------------------------------------
(* The operators. *)

(* The constants, as the proofs use them. *)
LEMMA Constants ==
  /\ Null \notin Int /\ NoPlan # BadPlan /\ NoPlan \notin NextPlans /\ BadPlan \notin NextPlans
  /\ \A n \in NextPlans : n.limit \in Int /\ n.expire \in Nat /\ n.add \in BOOLEAN /\ n.either \in BOOLEAN
  /\ \A r \in FirstRow : r \in RowRecord /\ (r.limit # Null => r.limit <= 0 \/ r.used <= r.limit)
  /\ \A m \in Modifies : m \in Bodies
  /\ \A p \in Plans : p.limit \in Nat /\ p.days \in Nat
  /\ MaxTime \in Nat /\ MaxRequests \in Nat /\ MaxDisturb \in Nat
BY LifecycleConstants

(* The larger and the smaller of two numbers. *)
LEMMA Extremes ==
  \A a, b \in Int : /\ Max({a, b}) = IF a >= b THEN a ELSE b
                    /\ Min({a, b}) = IF a <= b THEN a ELSE b
<1> SUFFICES ASSUME NEW a \in Int, NEW b \in Int
             PROVE  /\ Max({a, b}) = IF a >= b THEN a ELSE b
                    /\ Min({a, b}) = IF a <= b THEN a ELSE b
  OBVIOUS
<1>1. Max({a, b}) = IF a >= b THEN a ELSE b
  <2> DEFINE big == IF a >= b THEN a ELSE b
  <2>1. big \in {a, b} /\ \A y \in {a, b} : big >= y
    OBVIOUS
  <2>2. \A x \in {a, b} : (\A y \in {a, b} : x >= y) => x = big
    OBVIOUS
  <2> HIDE DEF big
  <2>3. Max({a, b}) = big
    BY <2>1, <2>2 DEF Max
  <2> QED
    BY <2>3 DEF big
<1>2. Min({a, b}) = IF a <= b THEN a ELSE b
  <2> DEFINE small == IF a <= b THEN a ELSE b
  <2>1. small \in {a, b} /\ \A y \in {a, b} : small <= y
    OBVIOUS
  <2>2. \A x \in {a, b} : (\A y \in {a, b} : x <= y) => x = small
    OBVIOUS
  <2> HIDE DEF small
  <2>3. Min({a, b}) = small
    BY <2>1, <2>2 DEF Min
  <2> QED
    BY <2>3 DEF small
<1> QED
  BY <1>1, <1>2

(* The columns of a row. *)
LEMMA Columns ==
  ASSUME NEW r \in RowRecord
  PROVE  /\ r.status \in Statuses /\ r.used \in Nat /\ r.overage \in Nat
         /\ r.limit \in Int \cup {Null} /\ Package(r) \in Int
         /\ r.expire \in Nat /\ r.hold \in Nat /\ r.timeout \in Nat
         /\ r.online \in {"never", "old", "new"} /\ r.capped \in BOOLEAN
         /\ r.next \in NextPlans \cup {NoPlan}
         /\ DOMAIN r = {"status", "used", "overage", "limit", "expire", "hold", "timeout",
                        "online", "capped", "next"}
BY DEF RowRecord, Package

(* A commit leaves a row; one that is not stale leaves the row it computed. *)
LEMMA FlushCommits ==
  ASSUME row \in RowRecord, stale \in BOOLEAN,
         NEW loaded \in RowRecord, NEW new \in RowRecord, Flush(loaded, new)
  PROVE  /\ row' \in RowRecord /\ stale' \in BOOLEAN
         /\ ~stale' => ~stale /\ row = loaded /\ row' = new
<1> DEFINE names == {"status", "used", "overage", "limit", "expire", "hold", "timeout",
                     "online", "capped", "next"}
<1>1. /\ row' = [f \in names |-> IF new[f] # loaded[f] THEN new[f] ELSE row[f]]
      /\ stale' = (stale \/ row # loaded)
  BY Columns DEF Flush
<1>2. row' \in RowRecord
  BY <1>1 DEF RowRecord
<1>3. ASSUME row = loaded PROVE row' = new
  <2>1. DOMAIN new = names /\ DOMAIN row' = names
    BY <1>1, Columns
  <2>2. \A f \in names : row'[f] = new[f]
    BY <1>1, <1>3
  <2> QED
    BY <1>1, <1>3, <2>1, <2>2, <1>2 DEF RowRecord
<1> QED
  BY <1>1, <1>2, <1>3

(* A change of status touches the status and the presence only. *)
LEMMA StatusOnly ==
  ASSUME NEW r \in RowRecord, NEW s \in Statuses
  PROVE  /\ WithStatus(r, s) \in RowRecord /\ WithStatus(r, s).status = s
         /\ WithStatus(r, s).used = r.used /\ WithStatus(r, s).overage = r.overage
         /\ WithStatus(r, s).limit = r.limit /\ WithStatus(r, s).capped = r.capped
         /\ [r EXCEPT !.status = s] \in RowRecord
         /\ [r EXCEPT !.status = s].used = r.used /\ [r EXCEPT !.status = s].overage = r.overage
         /\ [r EXCEPT !.status = s].limit = r.limit /\ [r EXCEPT !.status = s].capped = r.capped
         /\ [r EXCEPT !.status = s].status = s
BY DEF WithStatus, RowRecord

(* The reactivation changes the status of limited rows only. *)
LEMMA ReactivatedRow ==
  ASSUME NEW r \in RowRecord
  PROVE  /\ Reactivated(r) \in RowRecord
         /\ Reactivated(r).used = r.used /\ Reactivated(r).overage = r.overage
         /\ Reactivated(r).limit = r.limit /\ Reactivated(r).capped = r.capped
         /\ r.status # "limited" => Reactivated(r).status = r.status
<1>1. "active" \in Statuses
  BY DEF Statuses
<1> QED
  BY <1>1, StatusOnly DEF Reactivated

(* A recharge leaves the usage within the new package. *)
LEMMA RechargedRow ==
  ASSUME NEW r \in RowRecord, r.limit = Null \/ r.limit > 0
  PROVE  /\ Recharged(r) \in RowRecord /\ Within(Recharged(r))
         /\ Recharged(r).status = r.status /\ Recharged(r).capped = r.capped
         /\ Recharged(r).limit = r.limit
         /\ r.used = 0 /\ r.overage = 0 => Recharged(r).used = 0
<1> DEFINE total == r.used + r.overage
<1>1. total \in Nat /\ r.used \in Nat /\ r.overage \in Nat
  BY DEF RowRecord
<1>2. CASE r.limit = Null
  <2> DEFINE u == total
             o == 0
  <2>1. Recharged(r) = [r EXCEPT !.used = u, !.overage = o] /\ u \in Nat /\ o \in Nat
    BY <1>1, <1>2 DEF Recharged
  <2>2. r.used = 0 /\ r.overage = 0 => u = 0
    OBVIOUS
  <2> HIDE DEF u, o
  <2>3. /\ Recharged(r) \in RowRecord /\ Recharged(r).used = u /\ Recharged(r).limit = r.limit
        /\ Recharged(r).status = r.status /\ Recharged(r).capped = r.capped
    BY <2>1 DEF RowRecord
  <2>4. Within(Recharged(r))
    BY <1>2, <2>3 DEF Within, Package
  <2> QED
    BY <2>2, <2>3, <2>4
<1>3. CASE r.limit # Null
  <2> DEFINE u == Min({total, r.limit})
             o == IF r.overage = 0 THEN 0 ELSE Max({0, total - r.limit})
  <2>1. Recharged(r) = [r EXCEPT !.used = u, !.overage = o]
    BY <1>3 DEF Recharged
  <2>2. r.limit \in Int /\ r.limit > 0
    BY <1>3 DEF RowRecord
  <2>3. u = IF total <= r.limit THEN total ELSE r.limit
    BY <1>1, <2>2, Extremes
  <2>4. o \in Nat
    <3>1. 0 \in Int /\ total - r.limit \in Int
      BY <1>1, <2>2
    <3> QED
      BY <3>1, Extremes
  <2>5. u \in Nat /\ u <= r.limit /\ (r.used = 0 /\ r.overage = 0 => u = 0)
    BY <1>1, <2>2, <2>3
  <2> HIDE DEF u, o
  <2>6. /\ Recharged(r) \in RowRecord /\ Recharged(r).used = u /\ Recharged(r).limit = r.limit
        /\ Recharged(r).status = r.status /\ Recharged(r).capped = r.capped
    BY <2>1, <2>4, <2>5 DEF RowRecord
  <2> QED
    BY <1>3, <2>2, <2>5, <2>6 DEF Within, Package
<1> QED
  BY <1>2, <1>3

(* update_user, the status: an explicit one is taken, none keeps the row. *)
LEMMA EditStatusRow ==
  ASSUME NEW r \in RowRecord, NEW m \in Bodies
  PROVE  /\ EditStatus(r, m) \in RowRecord
         /\ EditStatus(r, m).used = r.used /\ EditStatus(r, m).overage = r.overage
         /\ EditStatus(r, m).limit = r.limit /\ EditStatus(r, m).capped = r.capped
         /\ EditStatus(r, m).status = IF m.status = Same THEN r.status ELSE m.status
<1>1. CASE m.status = Same
  BY <1>1 DEF EditStatus
<1>2. CASE m.status # Same
  <2> DEFINE w == WithStatus(r, m.status)
             h == IF m.status # "on_hold" /\ m.hold = Keep THEN 0 ELSE w.hold
             t == IF m.status # "on_hold" /\ m.timeout = Keep THEN 0 ELSE w.timeout
  <2>1. m.status \in Statuses
    BY <1>2 DEF Bodies
  <2>2. /\ w \in RowRecord /\ w.status = m.status /\ w.used = r.used /\ w.overage = r.overage
        /\ w.limit = r.limit /\ w.capped = r.capped
    BY <2>1, StatusOnly
  <2>3. EditStatus(r, m) = [w EXCEPT !.hold = h, !.timeout = t]
    BY <1>2 DEF EditStatus
  <2> HIDE DEF w
  <2>4. h \in Nat /\ t \in Nat
    BY <2>2 DEF RowRecord
  <2> HIDE DEF h, t
  <2> QED
    BY <1>2, <2>2, <2>3, <2>4 DEF RowRecord
<1> QED
  BY <1>1, <1>2

(* ... the package: a disabled row stays disabled, an explicit status stays. *)
LEMMA EditLimitRow ==
  ASSUME NEW r \in RowRecord, NEW m \in Bodies
  PROVE  /\ EditLimit(r, m) \in RowRecord /\ EditLimit(r, m).capped = r.capped
         /\ Within(r) => Within(EditLimit(r, m))
         /\ m.status # Same \/ r.status = "disabled" => EditLimit(r, m).status = r.status
         /\ m.limit # Keep /\ r.used = 0 /\ r.overage = 0 =>
              /\ EditLimit(r, m).used = 0
              /\ EditLimit(r, m).limit = IF m.limit = 0 THEN Null ELSE m.limit
<1>1. CASE m.limit = Keep
  BY <1>1 DEF EditLimit
<1>2. CASE m.limit # Keep
  <2> DEFINE q == IF m.limit = 0 THEN Null ELSE m.limit
             b == [r EXCEPT !.limit = q]
             c == Recharged(b)
  <2>1. q = Null \/ (q \in Int /\ q > 0)
    BY <1>2 DEF Bodies, Keep
  <2> HIDE DEF q
  <2>2. /\ b \in RowRecord /\ (b.limit = Null \/ b.limit > 0) /\ b.limit = q
        /\ b.status = r.status /\ b.capped = r.capped /\ b.used = r.used /\ b.overage = r.overage
    BY <2>1 DEF RowRecord
  <2> HIDE DEF b
  <2>3. /\ c \in RowRecord /\ Within(c) /\ c.status = r.status /\ c.capped = r.capped
        /\ c.limit = q /\ (r.used = 0 /\ r.overage = 0 => c.used = 0)
    BY <2>2, RechargedRow
  <2>4. EditLimit(r, m) = IF m.status # Same \/ c.status \in {"expired", "disabled"} THEN c
                          ELSE IF Exhausted(c) THEN [c EXCEPT !.status = "limited"]
                          ELSE IF c.status = "on_hold" THEN c
                          ELSE [c EXCEPT !.status = "active"]
    BY <1>2 DEF EditLimit, b, q
  <2> HIDE DEF c
  <2> DEFINE e == EditLimit(r, m)
  <2>5. /\ e \in RowRecord /\ e.used = c.used /\ e.limit = c.limit /\ e.capped = c.capped
        /\ m.status # Same \/ c.status = "disabled" => e.status = c.status
    <3>1. "limited" \in Statuses /\ "active" \in Statuses
      BY DEF Statuses
    <3>2. CASE m.status # Same \/ c.status \in {"expired", "disabled"}
      BY <2>3, <2>4, <3>2
    <3>3. CASE ~(m.status # Same \/ c.status \in {"expired", "disabled"})
      BY <2>3, <2>4, <3>1, <3>3, StatusOnly
    <3> QED
      BY <3>2, <3>3
  <2> HIDE DEF e
  <2>6. Within(e)
    BY <2>3, <2>5 DEF Within, Package
  <2> QED
    BY <1>2, <2>3, <2>5, <2>6 DEF e, q
<1> QED
  BY <1>1, <1>2

(* ... the expiry: it moves active and expired rows only. *)
LEMMA EditExpireRow ==
  ASSUME NEW r \in RowRecord, NEW m \in Bodies
  PROVE  /\ EditExpire(r, m) \in RowRecord /\ EditExpire(r, m).capped = r.capped
         /\ EditExpire(r, m).used = r.used /\ EditExpire(r, m).limit = r.limit
         /\ m.status # Same \/ r.status = "disabled" => EditExpire(r, m).status = r.status
<1>1. CASE m.expire = Keep
  BY <1>1 DEF EditExpire
<1>2. CASE m.expire # Keep
  <2> DEFINE c == [r EXCEPT !.expire = m.expire]
             s == IF Expired(c) THEN "expired" ELSE "active"
  <2>1. /\ c \in RowRecord /\ c.status = r.status /\ c.capped = r.capped
        /\ c.used = r.used /\ c.limit = r.limit
    BY <1>2 DEF Bodies, RowRecord
  <2>2. EditExpire(r, m) = IF m.status # Same \/ c.status \notin {"active", "expired"} THEN c
                           ELSE [c EXCEPT !.status = s]
    BY <1>2 DEF EditExpire
  <2>3. s \in Statuses
    BY DEF Statuses
  <2> HIDE DEF c, s
  <2>4. CASE m.status # Same \/ c.status \notin {"active", "expired"}
    BY <2>1, <2>2, <2>4
  <2>5. CASE ~(m.status # Same \/ c.status \notin {"active", "expired"})
    BY <2>1, <2>2, <2>3, <2>5, StatusOnly
  <2> QED
    BY <2>4, <2>5
<1> QED
  BY <1>1, <1>2

(* update_user as a whole. *)
LEMMA EditedRow ==
  ASSUME NEW r \in RowRecord, NEW m \in Bodies, m.next # BadPlan
  PROVE  /\ Edited(r, m) \in RowRecord /\ Edited(r, m).capped = r.capped
         /\ Within(r) => Within(Edited(r, m))
         /\ m.status = "disabled" \/ (m.status = Same /\ r.status = "disabled")
              => Edited(r, m).status = "disabled"
         /\ m.status = "active" /\ m.limit # Keep /\ r.used = 0 /\ r.overage = 0 =>
              /\ Edited(r, m).used = 0 /\ Edited(r, m).status = "active"
              /\ Edited(r, m).limit = IF m.limit = 0 THEN Null ELSE m.limit
<1> DEFINE a == EditStatus(r, m)
           b == EditLimit(a, m)
           c == EditExpire(b, m)
           h == IF m.hold = Keep THEN c.hold ELSE m.hold
           t == IF m.timeout = Keep THEN c.timeout ELSE m.timeout
           n == m.next
           o == IF c.online = "new" THEN "old" ELSE c.online
           d == [c EXCEPT !.hold = h, !.timeout = t, !.next = n, !.online = o]
           e == IF m.status = "limited" /\ m.limit = Keep THEN d ELSE Reactivated(d)
<1>1. Edited(r, m) = e
  BY DEF Edited
<1>2. /\ a \in RowRecord /\ a.used = r.used /\ a.overage = r.overage /\ a.limit = r.limit
      /\ a.capped = r.capped /\ a.status = IF m.status = Same THEN r.status ELSE m.status
  BY EditStatusRow
<1>3. Within(r) => Within(a)
  BY <1>2 DEF Within, Package
<1> HIDE DEF a
<1>4. /\ b \in RowRecord /\ b.capped = a.capped
      /\ Within(a) => Within(b)
      /\ m.status # Same \/ a.status = "disabled" => b.status = a.status
      /\ m.limit # Keep /\ a.used = 0 /\ a.overage = 0 =>
           /\ b.used = 0
           /\ b.limit = IF m.limit = 0 THEN Null ELSE m.limit
  BY <1>2, EditLimitRow
<1> HIDE DEF b
<1>5. /\ c \in RowRecord /\ c.capped = b.capped /\ c.used = b.used /\ c.limit = b.limit
      /\ m.status # Same \/ b.status = "disabled" => c.status = b.status
  BY <1>4, EditExpireRow
<1> HIDE DEF c
<1>6. h \in Nat /\ t \in Nat /\ n \in NextPlans \cup {NoPlan} /\ o \in {"never", "old", "new"}
  BY <1>5 DEF Bodies, RowRecord
<1> HIDE DEF h, t, n, o
<1>7. /\ d \in RowRecord /\ d.capped = c.capped /\ d.used = c.used /\ d.limit = c.limit
      /\ d.status = c.status
  BY <1>5, <1>6 DEF RowRecord
<1> HIDE DEF d
<1>8. /\ e \in RowRecord /\ e.capped = d.capped /\ e.used = d.used /\ e.limit = d.limit
      /\ d.status # "limited" => e.status = d.status
  BY <1>7, ReactivatedRow
<1> HIDE DEF e
<1>9. e.capped = r.capped /\ (Within(r) => Within(e))
  <2>1. Within(b) => Within(e)
    BY <1>5, <1>7, <1>8 DEF Within, Package
  <2> QED
    BY <1>2, <1>3, <1>4, <1>5, <1>7, <1>8, <2>1
<1>10. m.status = "disabled" \/ (m.status = Same /\ r.status = "disabled") => e.status = "disabled"
  BY <1>2, <1>4, <1>5, <1>7, <1>8 DEF Same
<1>11. m.status = "active" => e.status = "active"
  BY <1>2, <1>4, <1>5, <1>7, <1>8 DEF Same
<1>12. m.limit # Keep /\ r.used = 0 /\ r.overage = 0 =>
         e.used = 0 /\ e.limit = IF m.limit = 0 THEN Null ELSE m.limit
  BY <1>2, <1>4, <1>5, <1>7, <1>8
<1> QED
  BY <1>1, <1>8, <1>9, <1>10, <1>11, <1>12

(* A reset empties the usage and switches nobody on who is disabled. *)
LEMMA ResetRow ==
  ASSUME NEW r \in RowRecord
  PROVE  \A f \in {UsageReset(r), UsageResetAll(r)} :
           /\ f \in RowRecord /\ f.used = 0 /\ f.overage = 0 /\ f.capped = r.capped
           /\ Within(f)
           /\ r.status = "disabled" => f.status = "disabled"
<1> DEFINE s == IF r.status \in {"expired", "disabled"} THEN r.status ELSE "active"
           t == IF r.status \in {"on_hold", "expired", "disabled"} THEN r.status ELSE "active"
           z == 0
           n == NoPlan
<1>1. /\ UsageReset(r) = [r EXCEPT !.used = z, !.overage = z, !.next = n, !.status = s]
      /\ UsageResetAll(r) = [r EXCEPT !.used = z, !.overage = z, !.next = n, !.status = t]
  BY DEF UsageReset, UsageResetAll
<1>2. /\ z \in Nat /\ n \in NextPlans \cup {NoPlan} /\ s \in Statuses /\ t \in Statuses
      /\ r.status = "disabled" => s = "disabled" /\ t = "disabled"
  BY DEF RowRecord, Statuses
<1> HIDE DEF s, t, z, n
<1>3. ASSUME NEW q \in {s, t}, NEW f, f = [r EXCEPT !.used = z, !.overage = z, !.next = n, !.status = q]
      PROVE  f \in RowRecord /\ f.used = z /\ f.overage = z /\ f.capped = r.capped /\ f.status = q
  BY <1>2, <1>3 DEF RowRecord
<1>4. ASSUME NEW f \in RowRecord, f.used = z PROVE Within(f)
  BY <1>4, Columns DEF Within, z
<1> QED
  BY <1>1, <1>2, <1>3, <1>4 DEF z

(* A next plan that does not raise leaves a row with nothing used. *)
LEMMA TakeNextRow ==
  ASSUME NEW r \in RowRecord, r.next # NoPlan, ~NextRaises(r), now \in Nat
  PROVE  TakeNext(r) \in RowRecord /\ Within(TakeNext(r))
<1> DEFINE z == 0
           n == NoPlan
           s == "active"
           l == r.next.limit + (IF r.next.add THEN 0 ELSE r.limit - r.used)
           e == IF r.next.expire = 0 THEN 0 ELSE now + r.next.expire
<1>1. TakeNext(r) = [r EXCEPT !.used = z, !.overage = z, !.next = n, !.status = s, !.limit = l, !.expire = e]
  BY DEF TakeNext
<1>2. r.next \in NextPlans /\ r.used \in Nat /\ r.limit \in Int \cup {Null}
  BY DEF RowRecord
<1>3. l \in Int
  <2>1. CASE r.next.add
    BY <1>2, <2>1, Constants
  <2>2. CASE ~r.next.add
    BY <1>2, <2>2, Constants DEF NextRaises
  <2> QED
    BY <2>1, <2>2
<1>4. e \in Nat /\ z \in Nat /\ n \in NextPlans \cup {NoPlan} /\ s \in Statuses
  BY <1>2, Constants DEF Statuses
<1> HIDE DEF z, n, s, l, e
<1>5. TakeNext(r) \in RowRecord /\ TakeNext(r).used = z
  BY <1>1, <1>3, <1>4 DEF RowRecord
<1> QED
  BY <1>5, Columns DEF Within, z

(* The cap on the usage. *)
LEMMA UsageCappedRow ==
  ASSUME NEW r \in RowRecord, PastLimit(r)
  PROVE  /\ UsageCapped(r) \in RowRecord /\ Within(UsageCapped(r))
         /\ UsageCapped(r).status = r.status /\ UsageCapped(r).capped = r.capped
<1>1. r.limit \in Nat /\ r.limit # Null /\ Package(r) = r.limit
  BY Constants DEF PastLimit, Package, RowRecord
<1>2. /\ UsageCapped(r) \in RowRecord /\ UsageCapped(r).used = r.limit
      /\ UsageCapped(r).limit = r.limit
      /\ UsageCapped(r).status = r.status /\ UsageCapped(r).capped = r.capped
  BY <1>1 DEF UsageCapped, RowRecord
<1> QED
  BY <1>1, <1>2 DEF Within, Package

------------------------------------------------------------------------------
(* Sessions. *)

(* A commit keeps what its operation keeps. *)
LEMMA Commits ==
  ASSUME row \in RowRecord, stale \in BOOLEAN, OffHolds, WithinPackage,
         NEW loaded \in RowRecord, NEW new \in RowRecord, Flush(loaded, new),
         Within(loaded) => Within(new)
  PROVE  /\ row' \in RowRecord /\ stale' \in BOOLEAN /\ (stale => stale') /\ WithinPackage'
         /\ off' = off /\ (Off(loaded) => Off(new)) => OffHolds'
<1>1. /\ row' \in RowRecord /\ stale' \in BOOLEAN
      /\ ~stale' => ~stale /\ row = loaded /\ row' = new
  BY FlushCommits
<1>2. WithinPackage'
  <2> SUFFICES ASSUME ~stale' PROVE Within(row)'
    BY DEF WithinPackage, Within, Package
  <2>1. Within(loaded)
    BY <1>1 DEF WithinPackage, Within
  <2>2. row' = new /\ Within(new)
    BY <1>1, <2>1
  <2> QED
    BY <2>2 DEF Within, Package
<1>3. ASSUME off' = off, Off(loaded) => Off(new) PROVE OffHolds'
  <2> SUFFICES ASSUME ~stale', off' = "manual" PROVE Off(row)'
    BY DEF OffHolds
  <2>1. Off(loaded)
    BY <1>1, <1>3 DEF OffHolds
  <2>2. row' = new /\ Off(new)
    BY <1>1, <1>3, <2>1
  <2> QED
    BY <2>2 DEF Off
<1> QED
  BY <1>1, <1>2, <1>3

(* What a step of the review has to show. *)
LEMMA ReviewKeeps ==
  ASSUME LifeInv, Quiet, row' \in RowRecord, stale' \in BOOLEAN, stale => stale',
         OffHolds', WithinPackage', RevShape', Picked'
  PROVE  LifeInv'
<1>1. Shape'
  BY DEF LifeInv, Shape, Quiet
<1>2. ReqShape'
  BY DEF LifeInv, ReqShape, Quiet
<1>3. Renewal'
  BY DEF LifeInv, Renewal, Quiet
<1> QED
  BY <1>1, <1>2, <1>3 DEF LifeInv

(* A review without a copy has nothing to show of it. *)
LEMMA ScanEnds ==
  ASSUME NEW pc \in ReviewSteps \ Loaded, EndScan(pc)
  PROVE  RevShape' /\ Picked'
<1>1. rev' = [pc |-> pc, copy |-> NoCopy]
  BY DEF EndScan
<1>2. rev'.pc = pc
  BY <1>1
<1> QED
  BY <1>2 DEF RevShape, Picked, Loaded

(* A step that commits nothing. *)
LEMMA NothingCommitted ==
  ASSUME LifeInv, UNCHANGED <<row, stale>>, Quiet
  PROVE  /\ row' \in RowRecord /\ stale' \in BOOLEAN /\ (stale => stale')
         /\ OffHolds' /\ WithinPackage'
<1>1. row' = row /\ stale' = stale /\ off' = off
  BY DEF Quiet
<1> QED
  BY <1>1 DEF LifeInv, Shape, OffHolds, Off, WithinPackage, Package

(* A commit that ends a scan. *)
LEMMA CommitEndsScan ==
  ASSUME LifeInv, NEW loaded \in RowRecord, NEW new \in RowRecord, Flush(loaded, new),
         Within(loaded) => Within(new), Off(loaded) => Off(new),
         NEW pc \in ReviewSteps \ Loaded, EndScan(pc), Quiet
  PROVE  LifeInv'
<1>1. row \in RowRecord /\ stale \in BOOLEAN /\ OffHolds /\ WithinPackage /\ off' = off
  BY DEF LifeInv, Shape, Quiet
<1>2. /\ row' \in RowRecord /\ stale' \in BOOLEAN /\ (stale => stale') /\ WithinPackage'
      /\ OffHolds'
  BY <1>1, Commits
<1>3. RevShape' /\ Picked'
  BY ScanEnds
<1> QED
  BY <1>2, <1>3, ReviewKeeps

(* The review leaves the row out. *)
LEMMA Skips ==
  ASSUME LifeInv, NEW pc \in ReviewSteps \ Loaded, EndScan(pc), UNCHANGED <<row, stale>>, Quiet
  PROVE  LifeInv'
BY NothingCommitted, ScanEnds, ReviewKeeps

(* A scan loads a row that matches its query. *)
LEMMA ScanKeeps ==
  ASSUME LifeInv, NEW from, NEW match, NEW pc \in Loaded \ {"cap"}, NEW skip \in ReviewSteps \ Loaded,
         Scan(from, match, pc, skip),
         /\ pc = "due" => (match => row.status = "active")
         /\ pc = "hold" => (match => row.status = "on_hold")
         /\ pc = "limited" => (match => row.status = "limited")
  PROVE  LifeInv'
<1>1. UNCHANGED <<row, stale>> /\ Quiet
  BY DEF Scan
<1>2. CASE match
  <2>1. rev' = [pc |-> pc, copy |-> row]
    BY <1>2 DEF Scan
  <2>2. rev'.pc = pc /\ rev'.copy = row /\ row \in RowRecord
    BY <2>1 DEF LifeInv, Shape
  <2>3. RevShape' /\ Picked'
    BY <1>2, <2>2 DEF RevShape, Picked, Loaded, ReviewSteps
  <2> QED
    BY <1>1, <2>3, NothingCommitted, ReviewKeeps
<1>3. CASE ~match
  <2>1. EndScan(skip)
    BY <1>3 DEF Scan, EndScan
  <2> QED
    BY <1>1, <2>1, Skips
<1> QED
  BY <1>2, <1>3

------------------------------------------------------------------------------
(* The review. *)

(* A due user takes the next plan, is limited or expires. *)
LEMMA ReviewDueStep ==
  ASSUME LifeInv, ReviewDue
  PROVE  LifeInv'
<1> DEFINE c == rev.copy
<1>1. /\ c \in RowRecord /\ c.status = "active" /\ now \in Nat
      /\ row \in RowRecord /\ stale \in BOOLEAN /\ OffHolds /\ WithinPackage
  BY Constants DEF LifeInv, Shape, RevShape, Picked, ReviewDue, Loaded
<1>2. ~Off(c)
  BY <1>1 DEF Off
<1>3. {"idle", "holds"} \subseteq ReviewSteps \ Loaded
  BY DEF ReviewSteps, Loaded
<1>4. CASE FiresNext(c) /\ NextRaises(c) /\ Skip("idle")
  BY <1>3, <1>4, Skips DEF Skip
<1>5. CASE FiresNext(c) /\ ~NextRaises(c) /\ Flush(c, TakeNext(c)) /\ EndScan("holds") /\ Quiet
  <2>1. TakeNext(c) \in RowRecord /\ Within(TakeNext(c))
    BY <1>1, <1>5, TakeNextRow DEF FiresNext
  <2> QED
    BY <1>1, <1>2, <1>3, <1>5, <2>1, CommitEndsScan
<1>6. CASE /\ ~FiresNext(c) /\ OverLimit(c)
           /\ IF PastLimit(c) THEN Flush(c, UsageCapped(c)) ELSE UNCHANGED <<row, stale>>
           /\ rev' = [pc |-> "limit", copy |-> IF PastLimit(c) THEN row' ELSE c]
           /\ Quiet
  <2>1. /\ row' \in RowRecord /\ stale' \in BOOLEAN /\ (stale => stale')
        /\ OffHolds' /\ WithinPackage'
    <3>1. CASE PastLimit(c)
      <4>1. UsageCapped(c) \in RowRecord /\ Within(UsageCapped(c))
        BY <1>1, <3>1, UsageCappedRow
      <4>2. off' = off /\ Flush(c, UsageCapped(c))
        BY <1>6, <3>1 DEF Quiet
      <4> QED
        BY <1>1, <1>2, <4>1, <4>2, Commits
    <3>2. CASE ~PastLimit(c)
      BY <1>6, <3>2, NothingCommitted
    <3> QED
      BY <3>1, <3>2
  <2>2. rev'.pc = "limit" /\ rev'.copy \in RowRecord
    BY <1>1, <1>6, <2>1
  <2>3. RevShape' /\ Picked'
    BY <2>2 DEF RevShape, Picked, ReviewSteps
  <2> QED
    BY <1>6, <2>1, <2>3, ReviewKeeps
<1>7. CASE ~FiresNext(c) /\ ~OverLimit(c) /\ Flush(c, WithStatus(c, "expired")) /\ EndScan("holds") /\ Quiet
  <2>1. "expired" \in Statuses
    BY DEF Statuses
  <2>2. WithStatus(c, "expired") \in RowRecord /\ (Within(c) => Within(WithStatus(c, "expired")))
    BY <1>1, <2>1, StatusOnly DEF Within, Package
  <2> QED
    BY <1>1, <1>2, <1>3, <1>7, <2>2, CommitEndsScan
<1> QED
  BY <1>4, <1>5, <1>6, <1>7 DEF ReviewDue

(* The status change of limit_user_quota. *)
LEMMA ReviewLimitStep ==
  ASSUME LifeInv, ReviewLimit
  PROVE  LifeInv'
<1> DEFINE c == rev.copy
<1>1. c \in RowRecord /\ EndScan("holds") /\ Quiet /\ "holds" \in ReviewSteps \ Loaded
  BY DEF LifeInv, RevShape, ReviewLimit, Loaded, ReviewSteps
<1>2. CASE c.status = "active" /\ OverLimit(c)
  <2>1. "limited" \in Statuses
    BY DEF Statuses
  <2>2. /\ WithStatus(c, "limited") \in RowRecord /\ (Within(c) => Within(WithStatus(c, "limited")))
        /\ ~Off(c)
    BY <1>1, <1>2, <2>1, StatusOnly DEF Within, Package, Off
  <2> QED
    BY <1>1, <1>2, <2>2, CommitEndsScan DEF ReviewLimit
<1>3. CASE ~(c.status = "active" /\ OverLimit(c))
  BY <1>1, <1>3, Skips DEF ReviewLimit
<1> QED
  BY <1>2, <1>3

(* The activation of an on-hold user, the first of two commits. *)
LEMMA ReviewHoldStep ==
  ASSUME LifeInv, ReviewHold
  PROVE  LifeInv'
<1> DEFINE c == rev.copy
           n == [c EXCEPT !.status = "active"]
<1>1. /\ c \in RowRecord /\ c.status = "on_hold" /\ Quiet /\ off' = off
      /\ row \in RowRecord /\ stale \in BOOLEAN /\ OffHolds /\ WithinPackage
  BY DEF LifeInv, Shape, RevShape, Picked, ReviewHold, Loaded, Quiet
<1>2. Flush(c, n) /\ rev' = [pc |-> "timer", copy |-> row']
  BY DEF ReviewHold
<1>3. n \in RowRecord /\ (Within(c) => Within(n)) /\ ~Off(c)
  <2>1. "active" \in Statuses
    BY DEF Statuses
  <2> QED
    BY <1>1, <2>1, StatusOnly DEF Within, Package, Off
<1>4. /\ row' \in RowRecord /\ stale' \in BOOLEAN /\ (stale => stale') /\ WithinPackage' /\ OffHolds'
  BY <1>1, <1>2, <1>3, Commits
<1>5. rev'.pc = "timer" /\ rev'.copy \in RowRecord
  BY <1>2, <1>4
<1>6. RevShape' /\ Picked'
  BY <1>5 DEF RevShape, Picked, ReviewSteps
<1> QED
  BY <1>1, <1>4, <1>6, ReviewKeeps

(* The start of its timer, the second. *)
LEMMA StartExpireStep ==
  ASSUME LifeInv, StartExpire
  PROVE  LifeInv'
<1> DEFINE c == rev.copy
           e == now + c.hold
           z == 0
           n == [c EXCEPT !.expire = e, !.hold = z, !.timeout = z]
<1>1. c \in RowRecord /\ now \in Nat /\ {"idle", "limiteds"} \subseteq ReviewSteps \ Loaded
  BY Constants DEF LifeInv, Shape, RevShape, StartExpire, Loaded, ReviewSteps
<1>2. CASE c.hold = 0 /\ Skip("idle")
  BY <1>1, <1>2, Skips DEF Skip
<1>3. CASE Flush(c, n) /\ EndScan("limiteds") /\ Quiet
  <2>1. e \in Nat /\ z \in Nat
    BY <1>1 DEF RowRecord
  <2> HIDE DEF e, z
  <2>2. n \in RowRecord /\ n.used = c.used /\ n.limit = c.limit /\ n.status = c.status /\ n.capped = c.capped
    BY <1>1, <2>1 DEF RowRecord
  <2>3. (Within(c) => Within(n)) /\ (Off(c) => Off(n))
    BY <2>2 DEF Within, Package, Off
  <2> HIDE DEF n
  <2> QED
    BY <1>1, <1>3, <2>2, <2>3, CommitEndsScan
<1> QED
  BY <1>2, <1>3 DEF StartExpire

(* A limited user is capped or reactivated. *)
LEMMA ReviewLimitedStep ==
  ASSUME LifeInv, ReviewLimited
  PROVE  LifeInv'
<1> DEFINE c == rev.copy
<1>1. c \in RowRecord /\ c.status = "limited" /\ EndScan("caps") /\ Quiet /\ "caps" \in ReviewSteps \ Loaded
  BY DEF LifeInv, RevShape, Picked, ReviewLimited, Loaded, ReviewSteps
<1>2. ~Off(c)
  BY <1>1 DEF Off
<1>3. CASE PastLimit(c) /\ Flush(c, UsageCapped(c))
  BY <1>1, <1>2, <1>3, UsageCappedRow, CommitEndsScan
<1>4. CASE Flush(c, Reactivated(c))
  <2>1. Reactivated(c) \in RowRecord /\ (Within(c) => Within(Reactivated(c)))
    BY <1>1, ReactivatedRow DEF Within, Package
  <2> QED
    BY <1>1, <1>2, <1>4, <2>1, CommitEndsScan
<1>5. CASE UNCHANGED <<row, stale>>
  BY <1>1, <1>5, Skips
<1> QED
  BY <1>3, <1>4, <1>5 DEF ReviewLimited

(* What the caps compute. *)
LEMMA CappedRow ==
  ASSUME NEW r \in RowRecord
  PROVE  Capped(r) \in RowRecord /\ Capped(r).used = r.used /\ Capped(r).limit = r.limit
<1> DEFINE s == IF blocked THEN "disabled" ELSE IF Exhausted(r) THEN "limited" ELSE "active"
           b == IF blocked THEN TRUE ELSE FALSE
<1>1. Capped(r) = [r EXCEPT !.status = s, !.capped = b]
  <2>1. CASE blocked
    BY <2>1 DEF Capped
  <2>2. CASE ~blocked
    BY <2>2 DEF Capped, RowRecord
  <2> QED
    BY <2>1, <2>2
<1>2. s \in Statuses /\ b \in BOOLEAN
  BY DEF Statuses
<1> HIDE DEF s, b
<1> QED
  BY <1>1, <1>2 DEF RowRecord

(* The caps load a row they suspend or restore. *)
LEMMA ScanCapsStep ==
  ASSUME LifeInv, ScanCaps
  PROVE  LifeInv'
<1>1. UNCHANGED <<row, stale>> /\ Quiet /\ row \in RowRecord
  BY DEF ScanCaps, LifeInv, Shape
<1>2. CASE CapMatch
  <2>1. rev' = [pc |-> "cap", copy |-> row, new |-> Capped(row)]
    BY <1>2 DEF ScanCaps
  <2>2. rev'.pc = "cap" /\ rev'.copy = row /\ rev'.new = Capped(row)
    BY <2>1
  <2>3. row.status = "active" \/ row.capped = TRUE
    BY <1>1, <1>2 DEF CapMatch, RowRecord
  <2>4. Capped(row) \in RowRecord /\ Capped(row).used = row.used /\ Capped(row).limit = row.limit
    BY <1>1, CappedRow
  <2>5. RevShape' /\ Picked'
    BY <1>1, <2>2, <2>3, <2>4 DEF RevShape, Picked, ReviewSteps
  <2> QED
    BY <1>1, <2>5, NothingCommitted, ReviewKeeps
<1>3. CASE ~CapMatch
  <2>1. EndScan("idle") /\ "idle" \in ReviewSteps \ Loaded
    BY <1>3 DEF ScanCaps, EndScan, NoReview, ReviewSteps, Loaded
  <2> QED
    BY <1>1, <2>1, Skips
<1> QED
  BY <1>2, <1>3

(* The commit of the caps. *)
LEMMA ReviewCapStep ==
  ASSUME LifeInv, ReviewCap
  PROVE  LifeInv'
<1> DEFINE c == rev.copy
<1>1. /\ c \in RowRecord /\ rev.new \in RowRecord /\ (c.status = "active" \/ c.capped = TRUE)
      /\ rev.new.used = c.used /\ rev.new.limit = c.limit
      /\ EndScan("idle") /\ Quiet /\ "idle" \in ReviewSteps \ Loaded
  BY DEF LifeInv, RevShape, Picked, ReviewCap, Loaded, ReviewSteps
<1>2. ~Off(c) /\ (Within(c) => Within(rev.new))
  BY <1>1 DEF Off, Within, Package
<1>3. CASE Flush(c, rev.new)
  BY <1>1, <1>2, <1>3, CommitEndsScan
<1>4. CASE UNCHANGED <<row, stale>>
  BY <1>1, <1>4, Skips
<1> QED
  BY <1>3, <1>4 DEF ReviewCap

(* Every step of the review. *)
LEMMA ReviewStepKeeps ==
  ASSUME LifeInv, ReviewStep
  PROVE  LifeInv'
<1>1. CASE ScanDue
  <2>1. Due(row) => row.status = "active"
    BY DEF Due
  <2>2. "due" \in Loaded \ {"cap"} /\ "holds" \in ReviewSteps \ Loaded
    BY DEF Loaded, ReviewSteps
  <2> QED
    BY <1>1, <2>1, <2>2, ScanKeeps DEF ScanDue
<1>2. CASE ScanHold
  <2> DEFINE match == row.status = "on_hold" /\ HoldOver(row)
  <2>1. match => row.status = "on_hold"
    OBVIOUS
  <2>2. "hold" \in Loaded \ {"cap"} /\ "limiteds" \in ReviewSteps \ Loaded
    BY DEF Loaded, ReviewSteps
  <2>3. Scan("holds", match, "hold", "limiteds")
    BY <1>2 DEF ScanHold
  <2> HIDE DEF match
  <2> QED
    BY <2>1, <2>2, <2>3, ScanKeeps
<1>3. CASE ScanLimited
  <2> DEFINE match == row.status = "limited"
  <2>1. match => row.status = "limited"
    OBVIOUS
  <2>2. "limited" \in Loaded \ {"cap"} /\ "caps" \in ReviewSteps \ Loaded
    BY DEF Loaded, ReviewSteps
  <2>3. Scan("limiteds", match, "limited", "caps")
    BY <1>3 DEF ScanLimited
  <2> HIDE DEF match
  <2> QED
    BY <2>1, <2>2, <2>3, ScanKeeps
<1> QED
  BY <1>1, <1>2, <1>3, ReviewDueStep, ReviewLimitStep, ReviewHoldStep, StartExpireStep,
     ReviewLimitedStep, ScanCapsStep, ReviewCapStep DEF ReviewStep

------------------------------------------------------------------------------
(* The requests. *)

(* What a step of a request has to show. *)
LEMMA RequestKeeps ==
  ASSUME LifeInv, UNCHANGED <<now, blocked, rev, left>>, row' \in RowRecord, stale' \in BOOLEAN,
         off' \in Standing,
         OffHolds', WithinPackage', ReqShape', Renewal'
  PROVE  LifeInv'
<1>1. Shape'
  BY DEF LifeInv, Shape
<1>2. RevShape' /\ Picked'
  BY DEF LifeInv, RevShape, Picked
<1> QED
  BY <1>1, <1>2 DEF LifeInv

(* A finished request has nothing to show of its copy. *)
LEMMA RequestEnds ==
  ASSUME req' = NoReq
  PROVE  ReqShape' /\ Renewal'
<1>1. req'.pc = "idle"
  BY DEF NoReq
<1> QED
  BY <1>1 DEF ReqShape, Renewal

(* The types of a decision. *)
LEMMA DecideTyped ==
  ASSUME NEW s, Decide(s), Shape
  PROVE  /\ off' \in Standing
         /\ off' = "manual" =>
              (s = "disabled" /\ row.capped = FALSE) \/ (s = Same /\ off = "manual")
<1>1. row.capped \in BOOLEAN /\ off \in Standing
  BY DEF Shape, RowRecord
<1>2. CASE s = "disabled"
  BY <1>1, <1>2 DEF Decide, Standing
<1>3. CASE s = Same
  BY <1>1, <1>3 DEF Decide, Same
<1>4. CASE s # "disabled" /\ s # Same
  BY <1>4 DEF Decide, Standing
<1> QED
  BY <1>2, <1>3, <1>4

(* The commit of an edit, and of the package of a renewal. *)
LEMMA EditCommits ==
  ASSUME LifeInv, NEW c \in RowRecord, NEW m \in Bodies, m.next # BadPlan,
         Flush(c, Edited(c, m)), Decide(m.status) \/ Bought, EndRequest
  PROVE  /\ LifeInv'
         /\ ~stale' => row = c /\ row' = Edited(c, m)
<1> DEFINE e == Edited(c, m)
<1>1. Shape /\ row \in RowRecord /\ stale \in BOOLEAN /\ OffHolds /\ WithinPackage
  BY DEF LifeInv, Shape
<1>2. /\ e \in RowRecord /\ e.capped = c.capped
      /\ Within(c) => Within(e)
      /\ m.status = "disabled" \/ (m.status = Same /\ c.status = "disabled") => e.status = "disabled"
  BY EditedRow
<1>3. Flush(c, e)
  OBVIOUS
<1> HIDE DEF e
<1>4. /\ row' \in RowRecord /\ stale' \in BOOLEAN /\ WithinPackage'
  BY <1>1, <1>2, <1>3, Commits
<1>5. ~stale' => ~stale /\ row = c /\ row' = e
  BY <1>1, <1>2, <1>3, FlushCommits
<1>6. /\ off' \in Standing
      /\ off' = "manual" =>
           (m.status = "disabled" /\ row.capped = FALSE) \/ (m.status = Same /\ off = "manual")
  <2>1. CASE Decide(m.status)
    BY <1>1, <2>1, DecideTyped
  <2>2. CASE Bought
    BY <2>2 DEF Bought, Standing
  <2> QED
    BY <2>1, <2>2
<1>7. OffHolds'
  <2> SUFFICES ASSUME off' = "manual", ~stale' PROVE row'.status = "disabled" /\ row'.capped = FALSE
    BY DEF OffHolds, Off
  <2>1. row = c /\ row' = e /\ ~stale
    BY <1>5
  <2>2. CASE m.status = "disabled" /\ row.capped = FALSE
    BY <1>2, <2>1, <2>2
  <2>3. CASE m.status = Same /\ off = "manual"
    <3>1. c.status = "disabled" /\ c.capped = FALSE
      BY <1>1, <2>1, <2>3 DEF OffHolds, Off
    <3> QED
      BY <1>2, <2>1, <2>3, <3>1
  <2> QED
    BY <1>6, <2>2, <2>3
<1>8. ReqShape' /\ Renewal'
  BY RequestEnds DEF EndRequest
<1>9. LifeInv'
  BY <1>4, <1>6, <1>7, <1>8, RequestKeeps DEF EndRequest
<1> QED
  BY <1>5, <1>9 DEF e

(* An edit. *)
LEMMA FlushEditStep ==
  ASSUME LifeInv, FlushEdit
  PROVE  LifeInv'
<1>1. req \in EditReq
  BY DEF LifeInv, ReqShape, FlushEdit, NoReq, EditReq, ResetReq, PlanReq
<1>2. req.copy \in RowRecord /\ req.body \in Bodies
  BY <1>1, Constants DEF EditReq
<1>3. CASE req.body.next = BadPlan /\ UNCHANGED <<row, stale, off>> /\ EndRequest
  <2>1. ReqShape' /\ Renewal'
    BY <1>3, RequestEnds DEF EndRequest
  <2>2. Shape /\ OffHolds' /\ WithinPackage'
    BY <1>3 DEF LifeInv, OffHolds, Off, WithinPackage, Package
  <2>3. /\ row' \in RowRecord /\ stale' \in BOOLEAN /\ off' \in Standing
        /\ UNCHANGED <<now, blocked, rev, left>>
    BY <1>3, <2>2 DEF Shape, EndRequest
  <2> QED
    BY <2>1, <2>2, <2>3, RequestKeeps
<1>4. CASE /\ req.body.next # BadPlan /\ Flush(req.copy, Edited(req.copy, req.body))
           /\ Decide(req.body.status) /\ EndRequest
  BY <1>2, <1>4, EditCommits
<1> QED
  BY <1>3, <1>4 DEF FlushEdit

(* A reset. *)
LEMMA FlushResetStep ==
  ASSUME LifeInv, FlushReset
  PROVE  LifeInv'
<1> DEFINE f == IF req.pc = "reset" THEN UsageReset(req.copy) ELSE UsageResetAll(req.copy)
<1>1. req \in ResetReq
  BY DEF LifeInv, ReqShape, FlushReset, NoReq, EditReq, ResetReq, PlanReq
<1>2. /\ req.copy \in RowRecord /\ Shape /\ OffHolds /\ WithinPackage
      /\ off' = off /\ Flush(req.copy, f) /\ EndRequest
  BY <1>1 DEF ResetReq, LifeInv, FlushReset
<1>3. f \in {UsageReset(req.copy), UsageResetAll(req.copy)}
  OBVIOUS
<1> HIDE DEF f
<1>4. /\ f \in RowRecord /\ f.capped = req.copy.capped /\ Within(f)
      /\ req.copy.status = "disabled" => f.status = "disabled"
  BY <1>2, <1>3, ResetRow
<1>5. Off(req.copy) => Off(f)
  BY <1>4 DEF Off
<1>6. /\ row' \in RowRecord /\ stale' \in BOOLEAN /\ WithinPackage' /\ OffHolds'
  BY <1>2, <1>4, <1>5, Commits DEF Shape
<1>7. ReqShape' /\ Renewal' /\ UNCHANGED <<now, blocked, rev, left>>
  BY <1>2, RequestEnds DEF EndRequest
<1> QED
  BY <1>2, <1>6, <1>7, RequestKeeps DEF Shape

(* The next plan by hand. *)
LEMMA FlushNextStep ==
  ASSUME LifeInv, FlushNext
  PROVE  LifeInv'
<1> DEFINE c == req.copy
<1>1. req \in ResetReq /\ c.next # NoPlan
  BY DEF LifeInv, ReqShape, FlushNext, NoReq, EditReq, ResetReq, PlanReq
<1>2. c \in RowRecord /\ Shape /\ OffHolds /\ WithinPackage /\ EndRequest /\ now \in Nat
  BY <1>1, Constants DEF ResetReq, LifeInv, Shape, FlushNext
<1>3. ReqShape' /\ Renewal' /\ UNCHANGED <<now, blocked, rev, left>>
  BY <1>2, RequestEnds DEF EndRequest
<1>4. CASE UNCHANGED <<row, stale, off>>
  <2>1. OffHolds' /\ WithinPackage'
    BY <1>2, <1>4 DEF OffHolds, Off, WithinPackage, Package
  <2> QED
    BY <1>2, <1>3, <1>4, <2>1, RequestKeeps DEF Shape
<1>5. CASE ~NextRaises(c) /\ Flush(c, TakeNext(c)) /\ Decide("active")
  <2>1. TakeNext(c) \in RowRecord /\ Within(TakeNext(c))
    BY <1>1, <1>2, <1>5, TakeNextRow
  <2>2. row' \in RowRecord /\ stale' \in BOOLEAN /\ WithinPackage'
    BY <1>2, <1>5, <2>1, Commits DEF Shape
  <2>3. off' = "no"
    BY <1>5 DEF Decide, Same
  <2>4. OffHolds'
    BY <2>3 DEF OffHolds
  <2> QED
    BY <1>3, <2>2, <2>3, <2>4, RequestKeeps DEF Standing
<1> QED
  BY <1>4, <1>5 DEF FlushNext

(* The package of a renewal is the bought one on top of the unused remainder. *)
LEMMA RenewalBody ==
  ASSUME NEW r \in RowRecord, NEW p \in Plans, now \in Nat
  PROVE  /\ Remaining(r) \in Nat
         /\ RenewalLimit(r, p) = IF p.limit = 0 THEN 0 ELSE p.limit + Remaining(r)
         /\ RenewalLimit(r, p) \in Nat /\ RenewalExpire(r, p) \in Nat
<1>1. p.limit \in Nat /\ p.days \in Nat
  BY Constants
<1>2. Remaining(r) \in Nat /\ (Package(r) <= 0 => Remaining(r) = 0)
  <2>1. r.used \in Nat /\ Package(r) \in Int /\ 0 \in Int /\ Package(r) - r.used \in Int
    BY Columns
  <2>2. Max({0, Package(r) - r.used}) \in Nat
    BY <2>1, Extremes
  <2> QED
    BY <2>1, <2>2 DEF Remaining
<1>3. RenewalLimit(r, p) = IF p.limit = 0 THEN 0 ELSE p.limit + Remaining(r)
  BY <1>1, <1>2, Columns DEF RenewalLimit
<1>4. RenewalExpire(r, p) \in Nat
  BY <1>1, Columns DEF RenewalExpire
<1> QED
  BY <1>1, <1>2, <1>3, <1>4

(* A request takes its copy. *)
LEMMA LoadKeeps ==
  ASSUME LifeInv, NEW r, Request(r), ReqShape', Renewal'
  PROVE  LifeInv'
<1>1. UNCHANGED <<now, row, blocked, rev, off, stale>> /\ left' = [left EXCEPT !.requests = @ - 1]
      /\ left.requests > 0
  BY DEF Request
<1>2. Shape'
  <2>1. left' \in [requests : 0..MaxRequests, disturb : 0..MaxDisturb]
    BY <1>1, Constants DEF LifeInv, Shape
  <2> QED
    BY <1>1, <2>1 DEF LifeInv, Shape
<1>3. RevShape' /\ Picked'
  BY <1>1 DEF LifeInv, RevShape, Picked
<1>4. OffHolds' /\ WithinPackage'
  BY <1>1 DEF LifeInv, OffHolds, Off, WithinPackage, Package
<1> QED
  BY <1>2, <1>3, <1>4 DEF LifeInv

(* Every request that loads the row. *)
LEMMA LoadStep ==
  ASSUME LifeInv, LoadEdit \/ LoadReset \/ LoadResetAll \/ LoadNext \/ LoadPlan
  PROVE  LifeInv'
<1>1. row \in RowRecord /\ now \in Nat
  BY Constants DEF LifeInv, Shape
<1>2. CASE LoadEdit
  <2>1. PICK m \in Modifies : Request([pc |-> "edit", copy |-> row, body |-> m])
    BY <1>2 DEF LoadEdit
  <2>2. req' = [pc |-> "edit", copy |-> row, body |-> m]
    BY <2>1 DEF Request
  <2>3. ReqShape' /\ Renewal'
    BY <1>1, <2>2 DEF ReqShape, EditReq, Renewal
  <2> QED
    BY <2>1, <2>3, LoadKeeps
<1>3. ASSUME NEW pc \in {"reset", "resetall", "next"}, pc = "next" => row.next # NoPlan,
             Request([pc |-> pc, copy |-> row])
      PROVE  LifeInv'
  <2>1. req' = [pc |-> pc, copy |-> row]
    BY <1>3 DEF Request
  <2>2. req'.pc = pc /\ req'.copy = row /\ req' \in ResetReq
    BY <1>1, <2>1 DEF ResetReq
  <2>3. ReqShape' /\ Renewal'
    BY <1>3, <2>2 DEF ReqShape, Renewal
  <2> QED
    BY <1>3, <2>3, LoadKeeps
<1>4. CASE LoadPlan
  <2>1. PICK p \in Plans :
          Request([pc |-> "plan", copy |-> row, plan |-> p, had |-> Remaining(row),
                   body |-> PlanBody(RenewalExpire(row, p), RenewalLimit(row, p))])
    BY <1>4 DEF LoadPlan
  <2> DEFINE b == PlanBody(RenewalExpire(row, p), RenewalLimit(row, p))
             h == Remaining(row)
  <2>2. req' = [pc |-> "plan", copy |-> row, plan |-> p, had |-> h, body |-> b]
    BY <2>1 DEF Request
  <2>3. /\ h \in Nat /\ b \in Bodies /\ b.status = "active" /\ b.next = NoPlan
        /\ b.limit = IF p.limit = 0 THEN 0 ELSE p.limit + h
    <3> DEFINE e == RenewalExpire(row, p)
               l == RenewalLimit(row, p)
    <3>1. h \in Nat /\ l \in Nat /\ e \in Nat /\ l = IF p.limit = 0 THEN 0 ELSE p.limit + h
      BY <1>1, RenewalBody
    <3>2. b = PlanBody(e, l)
      OBVIOUS
    <3> HIDE DEF b, e, l, h
    <3> QED
      BY <3>1, <3>2 DEF PlanBody, Bodies, Statuses, Keep
  <2> HIDE DEF b, h
  <2>4. /\ req' \in PlanReq /\ req'.pc = "plan" /\ req'.body = b /\ req'.plan = p /\ req'.had = h
    BY <1>1, <2>2, <2>3 DEF PlanReq
  <2>5. ReqShape' /\ Renewal'
    BY <2>3, <2>4 DEF ReqShape, Renewal
  <2> QED
    BY <2>1, <2>5, LoadKeeps
<1> QED
  BY <1>2, <1>3, <1>4 DEF LoadReset, LoadResetAll, LoadNext

(* The reset of a renewal, a commit of its own. *)
LEMMA PlanResetStep ==
  ASSUME LifeInv, PlanReset
  PROVE  LifeInv'
<1> DEFINE c == req.copy
<1>1. req \in PlanReq /\ req.pc = "plan"
  BY DEF LifeInv, ReqShape, PlanReset, NoReq, EditReq, ResetReq, PlanReq
<1>2. /\ c \in RowRecord /\ Shape /\ OffHolds /\ WithinPackage /\ Renewal
      /\ UNCHANGED <<now, blocked, rev, left, off>>
  BY <1>1 DEF PlanReq, LifeInv, PlanReset
<1>3. ASSUME NEW copy \in RowRecord, req' = [req EXCEPT !.pc = "apply", !.copy = copy],
             ~stale' => copy.used = 0 /\ copy.overage = 0
      PROVE  ReqShape' /\ Renewal'
  <2>1. /\ req' \in PlanReq /\ req'.pc = "apply" /\ req'.copy = copy /\ req'.body = req.body
        /\ req'.plan = req.plan /\ req'.had = req.had
    BY <1>1, <1>3 DEF PlanReq
  <2> QED
    BY <1>1, <1>2, <1>3, <2>1 DEF ReqShape, Renewal
<1>4. CASE /\ Flush(c, UsageReset(c)) /\ req' = [req EXCEPT !.pc = "apply", !.copy = row']
  <2> DEFINE f == UsageReset(c)
  <2>1. /\ f \in RowRecord /\ f.used = 0 /\ f.overage = 0 /\ f.capped = c.capped /\ Within(f)
        /\ c.status = "disabled" => f.status = "disabled"
    BY <1>2, ResetRow
  <2>2. Flush(c, f) /\ (Off(c) => Off(f))
    BY <1>4, <2>1 DEF Off
  <2> HIDE DEF f
  <2>3. row' \in RowRecord /\ stale' \in BOOLEAN /\ WithinPackage' /\ OffHolds'
    BY <1>2, <2>1, <2>2, Commits DEF Shape
  <2>4. ~stale' => row' = f
    BY <1>2, <2>1, <2>2, FlushCommits DEF Shape
  <2>5. ReqShape' /\ Renewal'
    BY <1>3, <1>4, <2>1, <2>3, <2>4
  <2> QED
    BY <1>2, <2>3, <2>5, RequestKeeps DEF Shape
<1>5. CASE /\ c.used = 0 /\ c.overage = 0 /\ req' = [req EXCEPT !.pc = "apply"]
           /\ UNCHANGED <<row, stale>>
  <2>1. req' = [req EXCEPT !.pc = "apply", !.copy = c]
    BY <1>1, <1>5 DEF PlanReq
  <2>2. ReqShape' /\ Renewal'
    BY <1>2, <1>3, <1>5, <2>1
  <2>3. OffHolds' /\ WithinPackage'
    BY <1>2, <1>5 DEF OffHolds, Off, WithinPackage, Package
  <2> QED
    BY <1>2, <1>5, <2>2, <2>3, RequestKeeps DEF Shape
<1> QED
  BY <1>4, <1>5 DEF PlanReset

(* The package of a renewal. *)
LEMMA PlanApplyStep ==
  ASSUME LifeInv, PlanApply
  PROVE  /\ LifeInv'
         /\ ~stale' => row = req.copy /\ row' = Edited(req.copy, req.body)
<1>1. req \in PlanReq /\ req.pc = "apply"
  BY DEF LifeInv, ReqShape, PlanApply, NoReq, EditReq, ResetReq, PlanReq
<1>2. req.copy \in RowRecord /\ req.body \in Bodies
  BY <1>1 DEF PlanReq
<1>3. req.body.next # BadPlan /\ req.body.status = "active"
  BY <1>1, Constants DEF LifeInv, Renewal
<1>4. Flush(req.copy, Edited(req.copy, req.body)) /\ Bought /\ EndRequest
  BY <1>3 DEF PlanApply
<1> QED
  BY <1>2, <1>3, <1>4, EditCommits

(* The bulk changes, on the row as it is. *)
LEMMA BulkStep ==
  ASSUME LifeInv, Bulk
  PROVE  LifeInv'
<1>1. /\ UNCHANGED <<now, blocked, req, rev, stale>> /\ left' = [left EXCEPT !.requests = @ - 1]
      /\ left.requests > 0 /\ row \in RowRecord /\ Shape
  BY DEF Bulk, LifeInv, Shape
<1>2. \E s \in {"disabled", "active", "on_hold"}, d \in {"disabled", "active"} :
        row' = [row EXCEPT !.status = s] /\ Decide(d) /\ (d = "disabled" => s = "disabled")
  <2>1. CASE DisableAll
    <3>1. row' = [row EXCEPT !.status = "disabled"] /\ Decide("disabled")
      BY <2>1 DEF DisableAll
    <3> QED
      BY <3>1
  <2>2. CASE ActivateAll
    <3> DEFINE t == IF row.expire = 0 /\ row.hold > 0 /\ row.online = "never" THEN "on_hold" ELSE "active"
    <3>1. row' = [row EXCEPT !.status = t] /\ Decide("active") /\ t \in {"disabled", "active", "on_hold"}
      BY <2>2 DEF ActivateAll
    <3> HIDE DEF t
    <3> QED
      BY <3>1
  <2> QED
    BY <2>1, <2>2 DEF Bulk
<1>3. PICK s \in {"disabled", "active", "on_hold"}, d \in {"disabled", "active"} :
        row' = [row EXCEPT !.status = s] /\ Decide(d) /\ (d = "disabled" => s = "disabled")
  BY <1>2
<1>4. s \in Statuses
  BY DEF Statuses
<1>5. row' \in RowRecord /\ row'.used = row.used /\ row'.limit = row.limit /\ row'.capped = row.capped /\ row'.status = s
  BY <1>1, <1>3, <1>4, StatusOnly
<1>6. /\ off' \in Standing
      /\ off' = "manual" => s = "disabled" /\ row.capped = FALSE
  <2>1. d # Same
    BY DEF Same
  <2>2. /\ off' \in Standing
        /\ off' = "manual" =>
             (d = "disabled" /\ row.capped = FALSE) \/ (d = Same /\ off = "manual")
    BY <1>1, <1>3, DecideTyped
  <2> QED
    BY <1>3, <2>1, <2>2
<1>7. OffHolds' /\ WithinPackage'
  BY <1>1, <1>5, <1>6 DEF LifeInv, OffHolds, Off, WithinPackage, Package
<1>8. Shape'
  <2>1. left' \in [requests : 0..MaxRequests, disturb : 0..MaxDisturb]
    BY <1>1, Constants DEF Shape
  <2> QED
    BY <1>1, <1>5, <1>6, <2>1 DEF Shape
<1>9. ReqShape' /\ RevShape' /\ Picked' /\ Renewal'
  BY <1>1 DEF LifeInv, ReqShape, RevShape, Picked, Renewal
<1> QED
  BY <1>7, <1>8, <1>9 DEF LifeInv

------------------------------------------------------------------------------
(* The world. *)

(* The budget of disturbances. *)
LEMMA DisturbLeft ==
  ASSUME Shape, Disturb
  PROVE  left' \in [requests : 0..MaxRequests, disturb : 0..MaxDisturb]
BY Constants DEF Shape, Disturb

(* What a step that changes only the row has to show. *)
LEMMA RowKeeps ==
  ASSUME LifeInv, Disturb, UNCHANGED <<now, blocked, req, rev, off, stale>>,
         row' \in RowRecord, WithinPackage', Off(row) => Off(row)'
  PROVE  LifeInv'
<1>1. Shape'
  BY DisturbLeft DEF LifeInv, Shape
<1>2. ReqShape' /\ RevShape' /\ Picked' /\ Renewal'
  BY DEF LifeInv, ReqShape, RevShape, Picked, Renewal
<1>3. OffHolds'
  BY DEF LifeInv, OffHolds
<1> QED
  BY <1>1, <1>2, <1>3 DEF LifeInv

(* A byte of traffic and its bill. *)
LEMMA TransferStep ==
  ASSUME LifeInv, Transfer
  PROVE  LifeInv'
<1>1. /\ Disturb /\ UNCHANGED <<now, blocked, req, rev, off, stale>>
      /\ row \in RowRecord /\ WithinPackage
  BY DEF Transfer, LifeInv, Shape
<1>2. CASE row.status \in {"active", "on_hold"}
  <2> DEFINE u == IF Exhausted(row) THEN row.used ELSE row.used + 1
             r == [row EXCEPT !.used = u]
  <2>1. row' = IF r.status = "active" /\ Exhausted(r)
               THEN [WithStatus(r, "limited") EXCEPT !.overage = @ + 1] ELSE r
    BY <1>2 DEF Transfer
  <2>2. u \in Nat /\ (Package(row) > 0 /\ row.used <= Package(row) => u <= Package(row))
    BY <1>1, Columns DEF Exhausted
  <2> HIDE DEF u
  <2>3. r \in RowRecord /\ r.used = u /\ r.limit = row.limit
    BY <1>1, <2>2 DEF RowRecord
  <2> HIDE DEF r
  <2>4. row' \in RowRecord /\ row'.used = u /\ row'.limit = row.limit
    <3> DEFINE w == WithStatus(r, "limited")
               o == w.overage + 1
    <3>1. "limited" \in Statuses
      BY DEF Statuses
    <3>2. w \in RowRecord /\ w.used = r.used /\ w.limit = r.limit
      BY <2>3, <3>1, StatusOnly
    <3> HIDE DEF w
    <3>3. o \in Nat
      BY <3>2, Columns
    <3> HIDE DEF o
    <3>4. [w EXCEPT !.overage = o] \in RowRecord /\ [w EXCEPT !.overage = o].used = r.used
          /\ [w EXCEPT !.overage = o].limit = r.limit
      BY <3>2, <3>3 DEF RowRecord
    <3>5. row' = [w EXCEPT !.overage = o] \/ row' = r
      BY <2>1 DEF o, w
    <3> QED
      BY <2>3, <3>4, <3>5
  <2>5. WithinPackage'
    BY <1>1, <2>2, <2>4 DEF WithinPackage, Package
  <2>6. ~Off(row)
    BY <1>2 DEF Off
  <2> QED
    BY <1>1, <2>4, <2>5, <2>6, RowKeeps
<1>3. CASE row.status \notin {"active", "on_hold"}
  <2> DEFINE o == row.overage + 1
  <2>1. row' = [row EXCEPT !.overage = o] /\ o \in Nat
    BY <1>1, <1>3, Columns DEF Transfer
  <2> HIDE DEF o
  <2>2. /\ row' \in RowRecord /\ row'.used = row.used /\ row'.limit = row.limit
        /\ row'.status = row.status /\ row'.capped = row.capped
    BY <1>1, <2>1 DEF RowRecord
  <2>3. WithinPackage' /\ (Off(row) => Off(row)')
    BY <1>1, <2>2 DEF WithinPackage, Package, Off
  <2> QED
    BY <1>1, <2>2, <2>3, RowKeeps
<1> QED
  BY <1>2, <1>3

(* A connection. *)
LEMMA ConnectStep ==
  ASSUME LifeInv, Connect
  PROVE  LifeInv'
<1>1. /\ Disturb /\ UNCHANGED <<now, blocked, req, rev, off, stale>>
      /\ row \in RowRecord /\ WithinPackage /\ row' = [row EXCEPT !.online = "new"]
  BY DEF Connect, LifeInv, Shape
<1>2. /\ row' \in RowRecord /\ row'.used = row.used /\ row'.limit = row.limit
      /\ row'.status = row.status /\ row'.capped = row.capped
  BY <1>1 DEF RowRecord
<1>3. WithinPackage' /\ (Off(row) => Off(row)')
  BY <1>1, <1>2 DEF WithinPackage, Package, Off
<1> QED
  BY <1>1, <1>2, <1>3, RowKeeps

(* The clock, the reseller, a restart. *)
LEMMA WorldStep ==
  ASSUME LifeInv, Tick \/ Reseller \/ Crash
  PROVE  LifeInv'
<1>1. UNCHANGED <<row, off, stale>>
  BY DEF Tick, Reseller, Crash
<1>2. OffHolds' /\ WithinPackage'
  BY <1>1 DEF LifeInv, OffHolds, Off, WithinPackage, Package
<1>3. Shape'
  <2>1. CASE Tick
    BY <2>1, Constants DEF Tick, LifeInv, Shape
  <2>2. CASE Reseller
    BY <2>2, DisturbLeft DEF Reseller, LifeInv, Shape
  <2>3. CASE Crash
    BY <2>3, DisturbLeft DEF Crash, LifeInv, Shape
  <2> QED
    BY <2>1, <2>2, <2>3
<1>4. ReqShape' /\ RevShape' /\ Picked' /\ Renewal'
  <2>1. CASE Crash
    <3>1. ReqShape' /\ Renewal'
      BY <2>1, RequestEnds DEF Crash
    <3>2. EndScan("idle") /\ "idle" \in ReviewSteps \ Loaded
      BY <2>1 DEF Crash, NoReview, EndScan, ReviewSteps, Loaded
    <3> QED
      BY <3>1, <3>2, ScanEnds
  <2>2. CASE UNCHANGED <<req, rev>>
    BY <1>1, <2>2 DEF LifeInv, ReqShape, RevShape, Picked, Renewal
  <2> QED
    BY <2>1, <2>2 DEF Tick, Reseller
<1> QED
  BY <1>2, <1>3, <1>4 DEF LifeInv

------------------------------------------------------------------------------
(* The theorems. *)

(* The first row is within its package and nothing is in flight. *)
LEMMA InitInv == Init => LifeInv
<1> SUFFICES ASSUME Init PROVE LifeInv
  OBVIOUS
<1>1. /\ row \in RowRecord /\ (row.limit # Null => row.limit <= 0 \/ row.used <= row.limit)
      /\ req = NoReq /\ rev = NoReview /\ off = "no"
  BY Constants DEF Init
<1>2. Shape
  <2>1. left \in [requests : 0..MaxRequests, disturb : 0..MaxDisturb] /\ now \in 0..MaxTime
    BY Constants DEF Init
  <2>2. blocked \in BOOLEAN /\ stale \in BOOLEAN
    BY DEF Init
  <2> QED
    BY <1>1, <2>1, <2>2 DEF Shape, Standing
<1>3. req.pc = "idle" /\ rev.pc = "idle"
  BY <1>1 DEF NoReq, NoReview
<1>4. ReqShape /\ RevShape /\ Picked /\ Renewal
  BY <1>1, <1>3 DEF ReqShape, RevShape, Picked, Renewal, Loaded, ReviewSteps
<1>5. OffHolds /\ WithinPackage
  BY <1>1, Columns DEF OffHolds, WithinPackage, Package
<1> QED
  BY <1>2, <1>4, <1>5 DEF LifeInv

(* The invariant holds in every state of every behaviour. *)
THEOREM LifecycleInvariant == Spec => []LifeInv
<1>1. LifeInv /\ [Next]_vars => LifeInv'
  <2> SUFFICES ASSUME LifeInv, [Next]_vars PROVE LifeInv'
    OBVIOUS
  <2>1. CASE LoadEdit \/ LoadReset \/ LoadResetAll \/ LoadNext \/ LoadPlan
    BY <2>1, LoadStep
  <2>2. CASE Bulk
    BY <2>2, BulkStep
  <2>3. CASE RequestStep
    BY <2>3, FlushEditStep, FlushResetStep, FlushNextStep, PlanResetStep, PlanApplyStep DEF RequestStep
  <2>4. CASE ReviewStep
    BY <2>4, ReviewStepKeeps
  <2>5. CASE Transfer \/ Connect
    BY <2>5, TransferStep, ConnectStep
  <2>6. CASE Tick \/ Reseller \/ Crash
    BY <2>6, WorldStep
  <2>7. CASE UNCHANGED vars
    BY <2>7 DEF vars, LifeInv, Shape, ReqShape, RevShape, Picked, Renewal, OffHolds, Off,
                WithinPackage, Package
  <2> QED
    BY <2>1, <2>2, <2>3, <2>4, <2>5, <2>6, <2>7 DEF Next
<1> QED
  BY <1>1, InitInv, PTL DEF Spec

(* Every column keeps its type, whatever mix of columns stale commits leave. *)
THEOREM LifecycleTypeCorrect == Spec => []TypeOK
<1>1. LifeInv => TypeOK
  <2> SUFFICES ASSUME LifeInv PROVE TypeOK
    OBVIOUS
  <2>1. req.pc \in {"idle", "edit", "reset", "resetall", "next", "plan", "apply"}
    BY DEF LifeInv, ReqShape, NoReq, EditReq, ResetReq, PlanReq
  <2>2. left.requests \in 0..MaxRequests /\ left.disturb \in 0..MaxDisturb
    BY DEF LifeInv, Shape
  <2> QED
    BY <2>1, <2>2 DEF TypeOK, LifeInv, Shape, RevShape
<1> QED
  BY <1>1, LifecycleInvariant, PTL

(* No automatic step, reset, recharge or plan of the review re-enables a user an *)
(* operator disabled.                                                            *)
THEOREM ManualDisableHolds == Spec => []OffStaysOff
<1>1. LifeInv => OffStaysOff
  BY DEF LifeInv, OffHolds, Off, OffStaysOff
<1> QED
  BY <1>1, LifecycleInvariant, PTL

(* No order of edits, resets, next plans, renewals and bills takes the usage past *)
(* the package.                                                                   *)
THEOREM PackageKept == Spec => []WithinPackage
<1>1. LifeInv => WithinPackage
  BY DEF LifeInv
<1> QED
  BY <1>1, LifecycleInvariant, PTL

(* A renewal nobody interferes with leaves the unused remainder plus the bought   *)
(* package, through its two commits.                                              *)
THEOREM RenewalKeepsRemainder == Spec => RenewalExact
<1> DEFINE Exact ==
      req.pc = "apply" /\ PlanApply /\ ~stale' =>
        IF req.plan.limit = 0 THEN row'.limit = Null /\ row'.status = "active"
        ELSE /\ Remaining(row') = req.plan.limit + req.had
             /\ row'.status = "active"
<1>1. LifeInv => [Exact]_vars
  <2> SUFFICES ASSUME LifeInv, req.pc = "apply", PlanApply, ~stale'
               PROVE  IF req.plan.limit = 0 THEN row'.limit = Null /\ row'.status = "active"
                      ELSE /\ Remaining(row') = req.plan.limit + req.had
                           /\ row'.status = "active"
    OBVIOUS
  <2> DEFINE c == req.copy
             m == req.body
             e == Edited(c, m)
  <2>1. req \in PlanReq
    BY DEF LifeInv, ReqShape, NoReq, EditReq, ResetReq, PlanReq
  <2>2. c \in RowRecord /\ m \in Bodies /\ req.plan.limit \in Nat /\ req.had \in Nat
    BY <2>1, Constants DEF PlanReq
  <2>3. row' = e /\ row = c
    BY PlanApplyStep
  <2>4. ~stale
    <3>1. Flush(c, e) /\ row \in RowRecord /\ stale \in BOOLEAN
      BY DEF PlanApply, LifeInv, Shape
    <3> QED
      BY <3>1 DEF Flush
  <2>5. /\ m.status = "active" /\ m.next = NoPlan /\ c.used = 0 /\ c.overage = 0
        /\ m.limit = IF req.plan.limit = 0 THEN 0 ELSE req.plan.limit + req.had
    BY <2>4 DEF LifeInv, Renewal
  <2>6. m.next # BadPlan /\ m.limit # Keep
    BY <2>2, <2>5, Constants DEF Keep
  <2>7. e.used = 0 /\ e.status = "active" /\ e.limit = IF m.limit = 0 THEN Null ELSE m.limit
    BY <2>2, <2>5, <2>6, EditedRow
  <2> HIDE DEF e, m, c
  <2>8. CASE req.plan.limit = 0
    BY <2>3, <2>5, <2>7, <2>8
  <2>9. CASE req.plan.limit # 0
    <3> DEFINE q == req.plan.limit + req.had
    <3>1. q \in Int /\ q > 0 /\ e.limit = q
      BY <2>2, <2>5, <2>7, <2>9
    <3>2. Package(e) = q
      BY <3>1, Constants DEF Package
    <3>3. Max({0, q - 0}) = q
      <4>1. 0 \in Int /\ q - 0 \in Int
        BY <3>1
      <4> QED
        BY <3>1, <4>1, Extremes
    <3> HIDE DEF q
    <3>4. Remaining(e) = q
      BY <2>7, <3>1, <3>2, <3>3 DEF Remaining
    <3> QED
      BY <2>3, <2>7, <2>9, <3>4 DEF q
  <2> QED
    BY <2>8, <2>9
<1> QED
  BY <1>1, LifecycleInvariant, PTL DEF RenewalExact
==============================================================================
