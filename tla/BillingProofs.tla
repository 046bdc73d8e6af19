---------------------------- MODULE BillingProofs ----------------------------
(***************************************************************************)
(* Proofs about Billing, for any number of intents and invoices and any    *)
(* prices and bounds.  First what holds however many sessions overlap and  *)
(* die; then what holds when they run one at a time, up to the refinement  *)
(* of Settlement.                                                          *)
(***************************************************************************)
EXTENDS Billing, FiniteSetTheorems, TLAPS

-----------------------------------------------------------------------------
(* Arithmetic of the usage charge.                                         *)

(* A usage charge is a natural number, and so are the bytes unbilled and   *)
(* the bytes a package covers, which never exceed either.                  *)
LEMMA ChargeTypes ==
  ASSUME NEW r \in SessionState
  PROVE  /\ Unbilled(r.cur, r.last) \in Nat
         /\ Covered(r) \in Nat
         /\ Covered(r) <= r.pre
         /\ Covered(r) <= Unbilled(r.cur, r.last)
         /\ Cost(r) \in Nat
<1>1. /\ r.cur \in Nat /\ r.last \in Nat /\ r.pre \in Nat
  BY DEF SessionState
<1>2. Unbilled(r.cur, r.last) \in Nat
  BY <1>1 DEF Unbilled, Smaller
<1>3. Covered(r) \in Nat /\ Covered(r) <= r.pre
      /\ Covered(r) <= Unbilled(r.cur, r.last)
  BY <1>1, <1>2 DEF Covered, Smaller
<1>4. Cost(r) \in Nat
  <2> DEFINE over == Unbilled(r.cur, r.last) - Covered(r)
  <2>1. over \in Nat
    BY <1>2, <1>3
  <2>2. Rate \in Nat /\ Unit \in Nat \ {0}
    BY BillingAssumption
  <2> HIDE DEF over
  <2>3. over * Rate \in Nat
    BY <2>1, <2>2
  <2> DEFINE top == over * Rate
  <2>4. top \in Nat
    BY <2>3
  <2> HIDE DEF top
  <2>5. top \div Unit \in Nat
    BY <2>4, <2>2
  <2> QED BY <2>5 DEF Cost, top, over
<1> QED BY <1>2, <1>3, <1>4

-----------------------------------------------------------------------------
(* However sessions overlap.                                               *)

(* What a session works on, by the stage it has reached.                   *)
Shape(r) ==
  /\ r.at \in {"checkout", "verify", "finish", "submit", "reject"} =>
       r.on \in Intent
  /\ r.at = "credit" => r.on \in Topup
  /\ r.at \in {"deliver", "tariff", "settle"} => r.on \in Portal
  /\ r.at \in {"bill", "usage"} => r.on \in Topup \union {None}
  /\ r.at = "pay" => r.on \in Invoice
  /\ r.at \in {"idle", "adjust", "package", "expire"} => r.on = None
  /\ r.at # "expire" => r.batch = {}

(* What has happened by then: the provider's yes before goods are handed   *)
(* out, goods before the charge, the charge before the completion.         *)
Progress(r) ==
  /\ r.at \in {"credit", "deliver"} => r.on \in Card \union paid \union unasked
  /\ r.at \in {"bill", "usage"} /\ r.on # None => handed[r.on] > 0
  /\ r.at \in {"tariff", "settle"} => handed[r.on] > 0
  /\ r.at = "finish" => /\ handed[r.on] > 0
                        /\ r.on \in Portal /\ Price > 0 => charged[r.on] > 0

StageShape == \A s \in Session : Shape(ses[s])
StageProgress == \A s \in Session : Progress(ses[s])

RaceInv ==
  /\ TypeOK
  /\ StageShape
  /\ StageProgress
  /\ CompletedWasHanded
  /\ HandedWasPaid
  /\ PaidInvoiceDebited

(* What a session that loads an intent or invoice and the wallet holds.    *)
LEMMA LoadedFields ==
  ASSUME NEW st \in Stage, NEW o \in Intent \union Invoice \union {None},
         NEW b \in Int
  PROVE  /\ Loaded(st, o, b) \in SessionState
         /\ Loaded(st, o, b).at = st
         /\ Loaded(st, o, b).on = o
         /\ Loaded(st, o, b).bal = b
         /\ Loaded(st, o, b).batch = {}
BY DEF Loaded, SessionState, Status

(* The same with one more value: the status seen, the intents to expire,   *)
(* an amount, or the prepaid traffic.                                      *)
LEMMA WithSeen ==
  ASSUME NEW r \in SessionState, NEW st \in Status
  PROVE  LET q == [r EXCEPT !.seen = st] IN
         q \in SessionState /\ q.at = r.at /\ q.on = r.on /\ q.seen = st
         /\ q.batch = r.batch
BY DEF SessionState

LEMMA WithBatch ==
  ASSUME NEW r \in SessionState, NEW S \in SUBSET Intent
  PROVE  LET q == [r EXCEPT !.batch = S] IN
         q \in SessionState /\ q.at = r.at /\ q.on = r.on /\ q.batch = S
BY DEF SessionState

LEMMA WithAmount ==
  ASSUME NEW r \in SessionState, NEW a \in Int
  PROVE  LET q == [r EXCEPT !.amt = a] IN
         q \in SessionState /\ q.at = r.at /\ q.on = r.on /\ q.bal = r.bal
         /\ q.batch = r.batch
BY DEF SessionState

LEMMA WithPrepaid ==
  ASSUME NEW r \in SessionState, NEW n \in Nat
  PROVE  LET q == [r EXCEPT !.pre = n] IN
         q \in SessionState /\ q.at = r.at /\ q.on = r.on /\ q.bal = r.bal
         /\ q.batch = r.batch
BY DEF SessionState

(* What a session that is about to bill usage holds.                       *)
LEMMA UsageFields ==
  ASSUME TypeOK, NEW o \in Intent \union Invoice \union {None}
  PROVE  /\ LoadedUsage(o) \in SessionState
         /\ LoadedUsage(o).at = "usage"
         /\ LoadedUsage(o).on = o
         /\ LoadedUsage(o).batch = {}
         /\ LoadedUsage(o).bal = balance
         /\ LoadedUsage(o).cur = used
         /\ LoadedUsage(o).last = mark
BY DEF LoadedUsage, SessionState, Stage, Status, TypeOK

(* A session enters a new state, the others keep theirs.                   *)
LEMMA Moves ==
  ASSUME ses \in [Session -> SessionState],
         NEW s \in Session, NEW r \in SessionState, Enters(s, r)
  PROVE  /\ ses' \in [Session -> SessionState]
         /\ ses'[s] = r
         /\ \A u \in Session : u # s => ses'[u] = ses[u]
BY DEF Enters

(* The state of the session that takes a step is well formed after it.     *)
LEMMA Entered ==
  ASSUME TypeOK, StageShape, NEW s \in Session,
         Request(s) \/ Work(s) \/ Crash(s)
  PROVE  \E r \in SessionState : Shape(r) /\ Enters(s, r)
<1> DEFINE Goal == \E r \in SessionState : Shape(r) /\ Enters(s, r)
           on == ses[s].on
<1> SUFFICES Goal
  OBVIOUS
<1>1. /\ ses[s] \in SessionState /\ Shape(ses[s])
      /\ on \in Intent \union Invoice \union {None}
      /\ balance \in Int
  BY DEF TypeOK, StageShape, SessionState
<1>2. \A st \in Stage, o \in Intent \union Invoice \union {None}, b \in Int :
        (Shape(Loaded(st, o, b)) /\ Enters(s, Loaded(st, o, b))) => Goal
  BY LoadedFields
<1>3. Returns(s) => Goal
  <2>1. Shape(Loaded("idle", None, 0))
    BY LoadedFields DEF Shape, Stage
  <2> QED BY <1>2, <2>1 DEF Returns, Idle, Stage
<1>4. ASSUME NEW i \in Intent, complete_payment(s, i) PROVE Goal
  <2>1. Shape(Loaded("verify", i, 0))
    BY LoadedFields DEF Shape, Stage
  <2> QED BY <1>2, <1>4, <2>1 DEF complete_payment, Stage
<1>4a. ASSUME NEW i \in Intent, create_payment(s, i) PROVE Goal
  <2>1. Shape(Loaded("checkout", i, 0))
    BY LoadedFields DEF Shape, Stage
  <2> QED BY <1>2, <1>4a, <2>1 DEF create_payment, Stage
<1>5. ASSUME NEW i \in Intent, submit_card_payment(s, i) PROVE Goal
  <2> DEFINE r == [Loaded("submit", i, 0) EXCEPT !.seen = intent[i]]
  <2>1. Enters(s, r)
    BY <1>5 DEF submit_card_payment
  <2>a. intent[i] \in Status /\ "submit" \in Stage
    BY DEF TypeOK, Stage
  <2>2. r \in SessionState /\ r.at = "submit" /\ r.on = i /\ r.batch = {}
    BY <2>a, LoadedFields, WithSeen
  <2> HIDE DEF r
  <2>3. Shape(r)
    BY <2>2 DEF Shape
  <2> QED BY <2>1, <2>2, <2>3
<1>6. ASSUME NEW i \in Intent, reject_portal_payment(s, i) PROVE Goal
  <2>1. Shape(Loaded("reject", i, 0))
    BY LoadedFields DEF Shape, Stage
  <2> QED BY <1>2, <1>6, <2>1 DEF reject_portal_payment, Stage
<1>7. ASSUME NEW k \in Invoice, pay_invoice(s, k) PROVE Goal
  <2>1. Shape(Loaded("pay", k, balance))
    BY <1>1, LoadedFields DEF Shape, Stage
  <2> QED BY <1>1, <1>2, <1>7, <2>1 DEF pay_invoice, Stage
<1>8. ASSUME expire_stale_portal_payments(s) PROVE Goal
  <2> DEFINE S == {i \in Portal \intersect overdue : intent[i] = "pending"}
             b == Loaded("expire", None, 0)
             r == [b EXCEPT !.batch = S]
  <2>1. Enters(s, r)
    BY <1>8 DEF expire_stale_portal_payments
  <2>2. S \in SUBSET Intent
    BY DEF Portal
  <2> HIDE DEF S
  <2>a. b \in SessionState /\ b.at = "expire" /\ b.on = None
    BY LoadedFields DEF Stage
  <2> HIDE DEF b
  <2>3. r \in SessionState /\ r.at = "expire" /\ r.on = None
    BY <2>2, <2>a, WithBatch
  <2> HIDE DEF r
  <2>4. Shape(r)
    BY <2>3 DEF Shape
  <2> QED BY <2>1, <2>3, <2>4
<1>9. ASSUME adjust_wallet(s) PROVE Goal
  <2>1. PICK delta \in Deltas \union ({v - balance : v \in SetTo} \ {0}) :
          Enters(s, [Loaded("adjust", None, balance) EXCEPT !.amt = delta])
    BY <1>9 DEF adjust_wallet
  <2>2. delta \in Int
    BY <1>1, BillingAssumption
  <2> DEFINE r == [Loaded("adjust", None, balance) EXCEPT !.amt = delta]
  <2>a. "adjust" \in Stage
    BY DEF Stage
  <2>3. r \in SessionState /\ r.at = "adjust" /\ r.on = None /\ r.batch = {}
    BY <1>1, <2>2, <2>a, LoadedFields, WithAmount
  <2>4. Enters(s, r)
    BY <2>1
  <2> HIDE DEF r
  <2>5. Shape(r)
    BY <2>3 DEF Shape
  <2> QED BY <2>3, <2>4, <2>5
<1>10. ASSUME purchase_package(s) PROVE Goal
  <2> DEFINE r == [Loaded("package", None, balance) EXCEPT !.pre = prepaid]
  <2>1. Enters(s, r)
    BY <1>10 DEF purchase_package
  <2>a. "package" \in Stage /\ prepaid \in Nat
    BY DEF Stage, TypeOK
  <2> DEFINE l == Loaded("package", None, balance)
  <2>b. l \in SessionState /\ l.at = "package" /\ l.on = None /\ l.batch = {}
    BY <1>1, <2>a, LoadedFields
  <2> HIDE DEF l
  <2>2. r \in SessionState /\ r.at = "package" /\ r.on = None /\ r.batch = {}
    BY <2>a, <2>b, WithPrepaid DEF l
  <2> HIDE DEF r
  <2>3. Shape(r)
    BY <2>2 DEF Shape
  <2> QED BY <2>1, <2>2, <2>3
<1>11. ASSUME NEW st \in Stage, GoesTo(s, st), Shape(Loaded(st, on, 0))
       PROVE  Goal
  BY <1>1, <1>2, <1>11 DEF GoesTo
<1>12. ASSUME run_usage_billing(s) PROVE Goal
  <2>1. Shape(Loaded("bill", None, 0))
    BY LoadedFields DEF Shape, Stage
  <2> QED BY <1>2, <1>12, <2>1 DEF run_usage_billing, Stage
<1>13. ASSUME Verify(s) PROVE Goal
  <2>1. on \in Intent
    BY <1>1, <1>13 DEF Verify, Shape
  <2>2. on \in Topup => Shape(Loaded("credit", on, balance))
    BY <1>1, LoadedFields DEF Shape, Stage
  <2>3. on \notin Topup => Shape(Loaded("deliver", on, 0))
    BY <1>1, <2>1, LoadedFields DEF Shape, Stage, Portal
  <2>4. CASE Returns(s)
    BY <1>3, <2>4
  <2>5. CASE on \in Topup /\ Enters(s, Loaded("credit", on, balance))
    BY <1>1, <1>2, <2>2, <2>5 DEF Stage
  <2>6. CASE on \notin Topup /\ GoesTo(s, "deliver")
    BY <1>11, <2>3, <2>6 DEF Stage
  <2> QED BY <1>13, <2>4, <2>5, <2>6 DEF Verify, Accepted
<1>14. ASSUME ApplyTopup(s) PROVE Goal
  <2>1. Shape(Loaded("bill", on, 0))
    BY <1>1, <1>14, LoadedFields DEF ApplyTopup, Shape, Stage
  <2> QED BY <1>11, <1>14, <2>1 DEF ApplyTopup, Stage
<1>15. ASSUME ApplyPortal(s) PROVE Goal
  <2>1. Shape(Loaded("tariff", on, 0))
    BY <1>1, <1>15, LoadedFields DEF ApplyPortal, Shape, Stage
  <2> QED BY <1>11, <1>15, <2>1 DEF ApplyPortal, Stage
<1>16. ASSUME LoadTariff(s) PROVE Goal
  <2>1. on \in Portal /\ on \in Intent
    BY <1>1, <1>16 DEF LoadTariff, Shape, Portal
  <2>2. Shape(Loaded("finish", on, 0)) /\ Shape(Loaded("settle", on, balance))
    BY <1>1, <2>1, LoadedFields DEF Shape, Stage
  <2>3. CASE Returns(s)
    BY <1>3, <2>3
  <2>4. CASE GoesTo(s, "finish")
    BY <1>11, <2>2, <2>4 DEF Stage
  <2>5. CASE Enters(s, Loaded("settle", on, balance))
    BY <1>1, <1>2, <2>2, <2>5 DEF Stage
  <2> QED BY <1>16, <2>3, <2>4, <2>5 DEF LoadTariff
<1>17. ASSUME charge_reseller_tariff(s) PROVE Goal
  <2>1. Shape(Loaded("finish", on, 0))
    BY <1>1, <1>17, LoadedFields DEF charge_reseller_tariff, Shape, Stage, Portal
  <2> QED BY <1>11, <1>17, <2>1 DEF charge_reseller_tariff, Stage
<1>18. ASSUME Adjust(s) PROVE Goal
  <2>1. GoesTo(s, "bill")
    BY <1>18 DEF Adjust
  <2>2. Shape(Loaded("bill", on, 0))
    BY <1>1, <1>18, LoadedFields DEF Adjust, Shape, Stage
  <2> QED BY <1>11, <2>1, <2>2 DEF Stage
<1>19. ASSUME AfterBilling(s), ses[s].at \in {"bill", "usage"} PROVE Goal
  <2>1. on # None => Shape(Loaded("finish", on, 0))
    BY <1>1, <1>19, BillingAssumption, LoadedFields DEF Shape, Stage
  <2> QED BY <1>3, <1>11, <1>19, <2>1 DEF AfterBilling, Stage
<1>20. ASSUME bill_reseller_usage(s) PROVE Goal
  <2>1. on \in Topup \union {None}
    BY <1>1, <1>20 DEF bill_reseller_usage, Shape
  <2>2. LoadedUsage(on) \in SessionState /\ Shape(LoadedUsage(on))
    BY <1>1, <2>1, UsageFields DEF Shape
  <2> QED BY <1>19, <1>20, <2>2 DEF bill_reseller_usage
<1>21. ASSUME BillUsage(s) PROVE Goal
  BY <1>19, <1>21 DEF BillUsage
<1>22. OpenCheckout(s) \/ Complete(s) \/ Submit(s) \/ Reject(s) \/ Expire(s) \/ Pay(s) \/ Package(s)
       \/ Crash(s) => Returns(s)
  BY DEF OpenCheckout, Complete, Submit, Reject, Expire, Pay, Package, Crash
<1> HIDE DEF Goal
<1> QED
  BY <1>3, <1>4, <1>4a, <1>5, <1>6, <1>7, <1>8, <1>9, <1>10, <1>12, <1>13, <1>14,
     <1>15, <1>16, <1>17, <1>18, <1>20, <1>21, <1>22 DEF Request, Work

(* Types and stages are kept by every step.                                *)
LEMMA TypeStep ==
  ASSUME TypeOK, StageShape, [Next]_vars
  PROVE  TypeOK' /\ StageShape'
<1> DEFINE SesOK == /\ ses \in [Session -> SessionState]
                    /\ overlap \in BOOLEAN /\ crossed \subseteq Intent
           DataOK ==
             /\ intent \in [Intent -> Status]
             /\ overdue \subseteq Intent /\ paid \subseteq Intent
             /\ unasked \subseteq Intent /\ gateway \in BOOLEAN
             /\ handed \in [Intent -> Nat] /\ charged \in [Intent -> Nat]
             /\ fell \in [Intent -> Nat]
             /\ invoice \in [Invoice -> {"none", "pending", "paid"}]
             /\ debits \in [Invoice -> Nat]
           NumOK ==
             /\ balance \in Int /\ ledger \in Int
             /\ prepaid \in Nat /\ used \in Nat /\ mark \in Nat
             /\ metered \in Nat /\ billed \in Nat
             /\ manual \in Nat /\ crashes \in Nat
<1>0. TypeOK' <=> (SesOK' /\ DataOK' /\ NumOK')
  BY DEF TypeOK
<1>1. UNCHANGED work => SesOK' /\ StageShape'
  BY DEF TypeOK, StageShape, work
<1>2. ASSUME NEW s \in Session, Request(s) \/ Work(s) \/ Crash(s)
      PROVE  SesOK' /\ StageShape'
  <2>1. PICK r \in SessionState : Shape(r) /\ Enters(s, r)
    BY <1>2, Entered
  <2>2. /\ SesOK' /\ ses'[s] = r
        /\ \A u \in Session : u # s => ses'[u] = ses[u]
    <3>1. overlap' \in BOOLEAN /\ crossed' \subseteq Intent
      BY <2>1 DEF Enters, TypeOK
    <3> QED BY <2>1, <3>1, Moves DEF TypeOK
  <2>3. \A u \in Session : Shape(ses'[u])
    BY <2>1, <2>2 DEF StageShape
  <2> QED BY <2>2, <2>3 DEF StageShape
<1>3. SesOK' /\ StageShape'
  BY <1>1, <1>2 DEF Next, reload_providers, CustomerPays, TtlPasses,
     create_invoice, Meter, reset_admin_usage, vars
<1>4. ASSUME NEW s \in Session
      PROVE  /\ ses[s] \in SessionState /\ Shape(ses[s])
             /\ ses[s].bal \in Int /\ ses[s].amt \in Int
             /\ ses[s].pre \in Nat /\ ses[s].cur \in Nat
  BY <1>4 DEF TypeOK, StageShape, SessionState
<1>5. DataOK'
  <2> USE DEF TypeOK, sale, bills
  <2>1. ASSUME reload_providers PROVE DataOK'
    BY <2>1 DEF reload_providers
  <2>2. ASSUME NEW i \in Intent, CustomerPays(i) PROVE DataOK'
    BY <2>2 DEF CustomerPays
  <2>3. ASSUME NEW i \in Intent, TtlPasses(i) PROVE DataOK'
    BY <2>3 DEF TtlPasses, Portal
  <2>4. ASSUME NEW k \in Invoice, create_invoice(k) PROVE DataOK'
    BY <2>4 DEF create_invoice
  <2>5. ASSUME NEW s \in Session, Request(s) PROVE DataOK'
    <3>1. ASSUME NEW i \in Intent, create_payment(s, i) PROVE DataOK'
      BY <3>1 DEF create_payment, Status
    <3> QED BY <2>5, <3>1 DEF Request, create_payment, complete_payment, submit_card_payment,
       reject_portal_payment, pay_invoice, expire_stale_portal_payments,
       adjust_wallet, purchase_package, run_usage_billing
  <2>6. ASSUME NEW s \in Session, ApplyTopup(s) PROVE DataOK'
    <3>1. ses[s].on \in Intent
      BY <1>4, <2>6, BillingAssumption DEF ApplyTopup, Shape
    <3> QED BY <2>6, <3>1 DEF ApplyTopup
  <2>7. ASSUME NEW s \in Session, ApplyPortal(s) PROVE DataOK'
    <3>1. ses[s].on \in Intent
      BY <1>4, <2>7, BillingAssumption DEF ApplyPortal, Shape, Portal
    <3> QED BY <2>7, <3>1 DEF ApplyPortal
  <2>8. ASSUME NEW s \in Session, LoadTariff(s) PROVE DataOK'
    <3>1. ses[s].on \in Intent
      BY <1>4, <2>8 DEF LoadTariff, Shape, Portal
    <3> QED BY <2>8, <3>1 DEF LoadTariff, Falls
  <2>9. ASSUME NEW s \in Session, charge_reseller_tariff(s) PROVE DataOK'
    <3>1. ses[s].on \in Intent
      BY <1>4, <2>9, BillingAssumption DEF charge_reseller_tariff, Shape, Portal
    <3> QED BY <2>9, <3>1 DEF charge_reseller_tariff
  <2>10. ASSUME NEW s \in Session, Complete(s) \/ Reject(s) \/ OpenCheckout(s)
         PROVE  DataOK'
    BY <1>4, <2>10 DEF Complete, Reject, OpenCheckout, Status
  <2>16. ASSUME NEW s \in Session, Verify(s) PROVE DataOK'
    <3>1. ses[s].on \in Intent
      BY <1>4, <2>16 DEF Verify, Shape
    <3> QED BY <2>16, <3>1 DEF Verify
  <2>17. ASSUME NEW s \in Session, Crash(s) PROVE DataOK'
    <3>1. fell' \in [Intent -> Nat]
      BY <2>17 DEF Crash, Falls
    <3> QED BY <2>17, <3>1 DEF Crash
  <2>11. ASSUME NEW s \in Session, Submit(s) PROVE DataOK'
    BY <1>4, <2>11 DEF Submit, Status
  <2>12. ASSUME NEW s \in Session, Expire(s) PROVE DataOK'
    BY <1>4, <2>12 DEF Expire, Status
  <2>13. ASSUME NEW s \in Session, Pay(s) PROVE DataOK'
    <3>1. ses[s].on \in Invoice
      BY <1>4, <2>13 DEF Pay, Shape
    <3> QED BY <2>13, <3>1 DEF Pay
  <2>14. ASSUME NEW s \in Session,
                Adjust(s) \/ Package(s) \/ bill_reseller_usage(s) \/ BillUsage(s)
         PROVE  DataOK'
    BY <2>14 DEF Adjust, Package, bill_reseller_usage, BillUsage
  <2>15. ASSUME Meter \/ reset_admin_usage \/ UNCHANGED vars PROVE DataOK'
    BY <2>15 DEF Meter, reset_admin_usage, vars
  <2> HIDE DEF DataOK
  <2> QED
    BY <2>1, <2>2, <2>3, <2>4, <2>5, <2>6, <2>7, <2>8, <2>9, <2>10, <2>11,
       <2>12, <2>13, <2>14, <2>15, <2>16, <2>17 DEF Next, Work
<1>6. NumOK'
  <2> USE BillingAssumption DEF TypeOK, money, usage
  <2>0. ASSUME reload_providers PROVE NumOK'
    BY <2>0 DEF reload_providers
  <2>1. ASSUME NEW i \in Intent, CustomerPays(i) \/ TtlPasses(i) PROVE NumOK'
    BY <2>1 DEF CustomerPays, TtlPasses
  <2>2. ASSUME NEW k \in Invoice, create_invoice(k) PROVE NumOK'
    BY <2>2 DEF create_invoice
  <2>3. ASSUME NEW s \in Session, Request(s) PROVE NumOK'
    <3>1. UNCHANGED <<money, usage, crashes>>
      BY <2>3 DEF Request, create_payment, complete_payment, submit_card_payment,
         reject_portal_payment, pay_invoice, expire_stale_portal_payments,
         adjust_wallet, purchase_package, run_usage_billing
    <3>2. manual' = manual \/ manual' = manual + 1
      BY <2>3 DEF Request, create_payment, complete_payment, submit_card_payment,
         reject_portal_payment, pay_invoice, expire_stale_portal_payments,
         adjust_wallet, purchase_package, run_usage_billing
    <3> QED BY <3>1, <3>2
  <2>4. ASSUME NEW s \in Session,
               ApplyTopup(s) \/ charge_reseller_tariff(s) \/ Pay(s)
        PROVE  NumOK'
    BY <1>4, <2>4 DEF ApplyTopup, charge_reseller_tariff, Pay, add_transaction
  <2>5. ASSUME NEW s \in Session, Adjust(s) PROVE NumOK'
    BY <1>4, <2>5 DEF Adjust, add_transaction
  <2>6. ASSUME NEW s \in Session, Package(s) PROVE NumOK'
    BY <1>4, <2>6 DEF Package, add_transaction
  <2>7. ASSUME NEW s \in Session, BillUsage(s) PROVE NumOK'
    <3> DEFINE r == ses[s]
    <3>1. /\ Unbilled(r.cur, r.last) \in Nat /\ Cost(r) \in Nat
          /\ Covered(r) \in Nat /\ Covered(r) <= r.pre
          /\ r.bal \in Int /\ r.pre \in Nat /\ r.cur \in Nat
      BY <1>4, ChargeTypes
    <3>2. /\ mark' \in Nat /\ billed' \in Nat
      BY <2>7, <3>1 DEF BillUsage
    <3>3. prepaid' \in Nat
      BY <2>7, <3>1 DEF BillUsage
    <3>4. balance' \in Int /\ ledger' \in Int
      BY <2>7, <3>1 DEF BillUsage, add_transaction
    <3>5. UNCHANGED <<used, metered, manual, crashes>>
      BY <2>7 DEF BillUsage
    <3> QED BY <3>2, <3>3, <3>4, <3>5
  <2>8. ASSUME NEW s \in Session, Crash(s) PROVE NumOK'
    BY <2>8 DEF Crash
  <2>9. ASSUME NEW s \in Session,
               Verify(s) \/ ApplyPortal(s) \/ LoadTariff(s) \/ Complete(s)
               \/ Submit(s) \/ Reject(s) \/ Expire(s) \/ bill_reseller_usage(s)
               \/ OpenCheckout(s)
        PROVE  NumOK'
    BY <2>9 DEF OpenCheckout, Verify, ApplyPortal, LoadTariff, Complete, Submit, Reject,
       Expire, bill_reseller_usage
  <2>10. ASSUME Meter \/ reset_admin_usage PROVE NumOK'
    BY <2>10 DEF Meter, reset_admin_usage
  <2>11. CASE UNCHANGED vars
    BY <2>11 DEF vars
  <2> HIDE DEF NumOK
  <2> QED
    BY <2>0, <2>1, <2>2, <2>3, <2>4, <2>5, <2>6, <2>7, <2>8, <2>9, <2>10, <2>11
       DEF Next, Work
<1> QED BY <1>0, <1>3, <1>5, <1>6

(* Counters and payments only grow, so what sessions at rest have behind   *)
(* them stays behind them.                                                 *)
LEMMA Grows ==
  ASSUME TypeOK, StageShape, [Next]_vars
  PROVE  /\ \A i \in Intent : handed'[i] >= handed[i] /\ charged'[i] >= charged[i]
         /\ paid \subseteq paid' /\ unasked \subseteq unasked'
<1>0. \A i \in Intent : handed[i] \in Nat /\ charged[i] \in Nat
  BY DEF TypeOK
<1>1. ASSUME NEW s \in Session, ApplyTopup(s) \/ ApplyPortal(s)
      PROVE  /\ \A i \in Intent : handed'[i] >= handed[i]
             /\ UNCHANGED <<charged, paid, unasked>>
  <2>1. \A i \in Intent : handed'[i] = handed[i] \/ handed'[i] = handed[i] + 1
    BY <1>1 DEF ApplyTopup, ApplyPortal, TypeOK
  <2> QED BY <1>0, <1>1, <2>1 DEF ApplyTopup, ApplyPortal
<1>2. ASSUME NEW s \in Session, charge_reseller_tariff(s)
      PROVE  /\ \A i \in Intent : charged'[i] >= charged[i]
             /\ UNCHANGED <<handed, paid, unasked>>
  <2>1. \A i \in Intent :
          charged'[i] = charged[i] \/ charged'[i] = charged[i] + 1
    BY <1>2 DEF charge_reseller_tariff, TypeOK
  <2> QED BY <1>0, <1>2, <2>1 DEF charge_reseller_tariff
<1>3. ASSUME NEW i \in Intent, CustomerPays(i)
      PROVE  UNCHANGED <<handed, charged, unasked>> /\ paid \subseteq paid'
  BY <1>3 DEF CustomerPays
<1>4. ASSUME NEW s \in Session, Request(s) PROVE UNCHANGED sale
  BY <1>4 DEF Request, create_payment, complete_payment, submit_card_payment,
     reject_portal_payment, pay_invoice, expire_stale_portal_payments,
     adjust_wallet, purchase_package, run_usage_billing
<1>5. ASSUME NEW s \in Session,
             OpenCheckout(s) \/ LoadTariff(s) \/ Complete(s) \/ Submit(s)
             \/ Reject(s) \/ Expire(s) \/ Pay(s) \/ Adjust(s) \/ Package(s)
             \/ bill_reseller_usage(s) \/ BillUsage(s) \/ Crash(s)
      PROVE  UNCHANGED <<handed, charged, paid, unasked>>
  BY <1>5 DEF OpenCheckout, LoadTariff, Complete, Submit, Reject, Expire, Pay,
     Adjust, Package, bill_reseller_usage, BillUsage, Crash, sale
<1>9. ASSUME NEW s \in Session, Verify(s)
      PROVE  UNCHANGED <<handed, charged, paid>> /\ unasked \subseteq unasked'
  BY <1>9 DEF Verify
<1>6. ASSUME \/ \E i \in Intent : TtlPasses(i)
             \/ reload_providers
             \/ \E k \in Invoice : create_invoice(k)
             \/ Meter \/ reset_admin_usage \/ UNCHANGED vars
      PROVE  UNCHANGED <<handed, charged, paid, unasked>>
  BY <1>6 DEF reload_providers, TtlPasses, create_invoice, Meter,
     reset_admin_usage, vars, sale
<1>7. UNCHANGED <<handed, charged, paid, unasked>> =>
        /\ \A i \in Intent : handed'[i] >= handed[i] /\ charged'[i] >= charged[i]
        /\ paid \subseteq paid' /\ unasked \subseteq unasked'
  BY <1>0
<1>8. UNCHANGED sale => UNCHANGED <<handed, charged, paid, unasked>>
  BY DEF sale
<1> QED
  BY <1>0, <1>1, <1>2, <1>3, <1>4, <1>5, <1>6, <1>7, <1>8, <1>9 DEF Next, Work

(* A session that did not move has behind it what it had.                  *)
LEMMA Rests ==
  ASSUME TypeOK, StageShape, StageProgress, [Next]_vars,
         NEW u \in Session, ses'[u] = ses[u]
  PROVE  Progress(ses[u])'
<1>1. ses[u] \in SessionState /\ Shape(ses[u]) /\ Progress(ses[u])
  BY DEF TypeOK, StageShape, StageProgress
<1>2. ses[u].on \in Intent =>
        /\ handed[ses[u].on] \in Nat /\ handed'[ses[u].on] >= handed[ses[u].on]
        /\ charged[ses[u].on] \in Nat
        /\ charged'[ses[u].on] >= charged[ses[u].on]
  BY Grows DEF TypeOK
<1>3. paid \subseteq paid' /\ unasked \subseteq unasked'
  BY Grows
<1>4. handed' \in [Intent -> Nat] /\ charged' \in [Intent -> Nat]
  BY TypeStep DEF TypeOK
<1> DEFINE r == ses[u]
<1>5. r.at \in {"bill", "usage"} /\ r.on # None => r.on \in Intent
  BY <1>1, BillingAssumption DEF Shape
<1>6. r.at \in {"tariff", "settle", "finish"} => r.on \in Intent
  BY <1>1 DEF Shape, Portal
<1>7. Price \in Nat
  BY BillingAssumption
<1>8. /\ r.at \in {"credit", "deliver"} => r.on \in Card \union paid' \union unasked'
      /\ r.at \in {"bill", "usage"} /\ r.on # None => handed'[r.on] > 0
      /\ r.at \in {"tariff", "settle"} => handed'[r.on] > 0
      /\ r.at = "finish" =>
           /\ handed'[r.on] > 0
           /\ r.on \in Portal /\ Price > 0 => charged'[r.on] > 0
  BY <1>1, <1>2, <1>3, <1>4, <1>5, <1>6 DEF Progress
<1> QED BY <1>8 DEF Progress

(* The session that moves has behind it what its new stage asks for.       *)
LEMMA MoverProgress ==
  ASSUME TypeOK, StageShape, StageProgress, NEW s \in Session,
         Request(s) \/ Work(s) \/ Crash(s)
  PROVE  Progress(ses[s])'
<1> DEFINE r == ses[s]
           q == ses'[s]
           Goal ==
             /\ q.at \in {"credit", "deliver"} =>
                  q.on \in Card \union paid' \union unasked'
             /\ q.at \in {"bill", "usage"} /\ q.on # None => handed'[q.on] > 0
             /\ q.at \in {"tariff", "settle"} => handed'[q.on] > 0
             /\ q.at = "finish" =>
                  /\ handed'[q.on] > 0
                  /\ q.on \in Portal /\ Price > 0 => charged'[q.on] > 0
<1> SUFFICES Goal
  BY DEF Progress
<1>1. /\ r \in SessionState /\ Shape(r) /\ Progress(r)
      /\ r.on \in Intent \union Invoice \union {None}
      /\ balance \in Int /\ handed \in [Intent -> Nat]
      /\ charged \in [Intent -> Nat]
  BY DEF TypeOK, StageShape, StageProgress, SessionState
<1>2. ASSUME NEW st \in Stage, NEW o \in Intent \union Invoice \union {None},
             NEW b \in Int, Enters(s, Loaded(st, o, b))
      PROVE  q.at = st /\ q.on = o
  <2> DEFINE l == Loaded(st, o, b)
  <2>1. l \in SessionState /\ l.at = st /\ l.on = o
    BY LoadedFields
  <2>2. Enters(s, l)
    BY <1>2
  <2> HIDE DEF l
  <2>3. ses'[s] = l
    BY <2>1, <2>2, Moves DEF TypeOK
  <2> QED BY <2>1, <2>3
<1>3. ASSUME NEW st \in Stage, GoesTo(s, st) PROVE q.at = st /\ q.on = r.on
  BY <1>1, <1>2, <1>3 DEF GoesTo
<1>4. Returns(s) => Goal
  <2>1. Returns(s) => q.at = "idle"
    BY <1>2 DEF Returns, Idle, Stage
  <2> QED BY <2>1
<1>5. ASSUME Request(s) PROVE Goal
  <2>0. ASSUME NEW i \in Intent, create_payment(s, i) PROVE q.at = "checkout"
    BY <1>2, <2>0 DEF create_payment, Stage
  <2>1. ASSUME NEW i \in Intent, complete_payment(s, i) PROVE q.at = "verify"
    BY <1>2, <2>1 DEF complete_payment, Stage
  <2>2. ASSUME NEW i \in Intent, submit_card_payment(s, i) PROVE q.at = "submit"
    <3> DEFINE b == Loaded("submit", i, 0)
               d == [b EXCEPT !.seen = intent[i]]
    <3>1. b \in SessionState /\ b.at = "submit"
      BY LoadedFields DEF Stage
    <3>2. Enters(s, d)
      BY <2>2 DEF submit_card_payment
    <3> HIDE DEF b
    <3>3. d \in SessionState /\ d.at = "submit"
      BY <3>1, WithSeen DEF TypeOK
    <3> HIDE DEF d
    <3> QED BY <3>2, <3>3, Moves DEF TypeOK
  <2>3. ASSUME NEW i \in Intent, reject_portal_payment(s, i)
        PROVE  q.at = "reject"
    BY <1>2, <2>3 DEF reject_portal_payment, Stage
  <2>4. ASSUME NEW k \in Invoice, pay_invoice(s, k) PROVE q.at = "pay"
    BY <1>1, <1>2, <2>4 DEF pay_invoice, Stage
  <2>5. ASSUME expire_stale_portal_payments(s) PROVE q.at = "expire"
    <3> DEFINE b == Loaded("expire", None, 0)
               S == {i \in Portal \intersect overdue : intent[i] = "pending"}
               d == [b EXCEPT !.batch = S]
    <3>1. b \in SessionState /\ b.at = "expire"
      BY LoadedFields DEF Stage
    <3>2. Enters(s, d)
      BY <2>5 DEF expire_stale_portal_payments
    <3>3. S \in SUBSET Intent
      BY DEF Portal
    <3> HIDE DEF b, S
    <3>4. d \in SessionState /\ d.at = "expire"
      BY <3>1, <3>3, WithBatch
    <3> HIDE DEF d
    <3> QED BY <3>2, <3>4, Moves DEF TypeOK
  <2>6. ASSUME adjust_wallet(s) PROVE q.at = "adjust"
    <3> DEFINE b == Loaded("adjust", None, balance)
    <3>0. "adjust" \in Stage /\ balance \in Int
      BY DEF Stage, TypeOK
    <3>1. b \in SessionState /\ b.at = "adjust"
      BY <3>0, LoadedFields
    <3>2. PICK delta \in Deltas \union ({v - balance : v \in SetTo} \ {0}) :
            Enters(s, [b EXCEPT !.amt = delta])
      BY <2>6 DEF adjust_wallet
    <3> HIDE DEF b
    <3>3. delta \in Int
      BY <1>1, BillingAssumption
    <3> DEFINE d == [b EXCEPT !.amt = delta]
    <3>4. d \in SessionState /\ d.at = "adjust"
      BY <3>1, <3>3, WithAmount
    <3>5. Enters(s, d)
      BY <3>2
    <3> HIDE DEF d
    <3> QED BY <3>4, <3>5, Moves DEF TypeOK
  <2>7. ASSUME purchase_package(s) PROVE q.at = "package"
    <3> DEFINE b == Loaded("package", None, balance)
               d == [b EXCEPT !.pre = prepaid]
    <3>0. "package" \in Stage /\ balance \in Int
      BY DEF Stage, TypeOK
    <3>1. b \in SessionState /\ b.at = "package"
      BY <3>0, LoadedFields
    <3>2. Enters(s, d)
      BY <2>7 DEF purchase_package
    <3> HIDE DEF b
    <3>3. d \in SessionState /\ d.at = "package"
      BY <3>1, WithPrepaid DEF TypeOK
    <3> HIDE DEF d
    <3> QED BY <3>2, <3>3, Moves DEF TypeOK
  <2>8. ASSUME run_usage_billing(s) PROVE q.at = "bill" /\ q.on = None
    BY <1>2, <2>8 DEF run_usage_billing, Stage
  <2>9. q.at \in {"checkout", "verify", "submit", "reject", "pay", "expire", "adjust",
                  "package"} \/ (q.at = "bill" /\ q.on = None)
    BY <1>5, <2>0, <2>1, <2>2, <2>3, <2>4, <2>5, <2>6, <2>7, <2>8 DEF Request
  <2> QED BY <2>9
<1>6. ASSUME Verify(s) PROVE Goal
  <2>1. r.on \in Intent /\ r.on # None
    BY <1>1, <1>6, BillingAssumption DEF Verify, Shape
  <2>2. \/ Returns(s)
        \/ Accepted(s) /\ r.on \in Card \union paid' \union unasked'
    BY <1>6 DEF Verify
  <2>3. Accepted(s) => (q.at = "credit" \/ q.at = "deliver") /\ q.on = r.on
    BY <1>1, <1>2, <1>3 DEF Accepted, Stage
  <2> QED BY <1>4, <2>2, <2>3
<1>7. ASSUME ApplyTopup(s) PROVE Goal
  <2>1. r.on \in Intent /\ q.at = "bill" /\ q.on = r.on
    BY <1>1, <1>3, <1>7, BillingAssumption DEF ApplyTopup, Shape, Stage
  <2>2. handed'[r.on] = handed[r.on] + 1 /\ handed[r.on] \in Nat
    BY <1>1, <1>7, <2>1 DEF ApplyTopup
  <2> QED BY <2>1, <2>2
<1>8. ASSUME ApplyPortal(s) PROVE Goal
  <2>1. r.on \in Intent /\ q.at = "tariff" /\ q.on = r.on
    BY <1>1, <1>3, <1>8 DEF ApplyPortal, Shape, Stage, Portal
  <2>2. handed'[r.on] = handed[r.on] + 1 /\ handed[r.on] \in Nat
    BY <1>1, <1>8, <2>1 DEF ApplyPortal
  <2> QED BY <2>1, <2>2
<1>9. ASSUME LoadTariff(s) PROVE Goal
  <2>1. handed[r.on] > 0 /\ handed' = handed
    BY <1>1, <1>9 DEF LoadTariff, Progress
  <2>2. \/ Returns(s)
        \/ Price = 0 /\ q.at = "finish" /\ q.on = r.on
        \/ q.at = "settle" /\ q.on = r.on
    BY <1>1, <1>2, <1>3, <1>9 DEF LoadTariff, Stage
  <2> QED BY <1>4, <2>1, <2>2, BillingAssumption
<1>10. ASSUME charge_reseller_tariff(s) PROVE Goal
  <2>1. /\ handed[r.on] > 0 /\ handed' = handed /\ r.on \in Intent
        /\ q.at = "finish" /\ q.on = r.on
    BY <1>1, <1>3, <1>10
       DEF charge_reseller_tariff, Progress, Shape, Stage, Portal
  <2>2. charged'[r.on] = charged[r.on] + 1 /\ charged[r.on] \in Nat
    BY <1>1, <1>10, <2>1 DEF charge_reseller_tariff
  <2> QED BY <2>1, <2>2
<1>11. ASSUME Adjust(s) PROVE Goal
  <2>1. q.at = "bill" /\ q.on = None
    BY <1>1, <1>3, <1>11 DEF Adjust, Shape, Stage
  <2> QED BY <2>1
<1>12. ASSUME AfterBilling(s), r.at \in {"bill", "usage"}, handed' = handed
       PROVE  Goal
  <2>1. CASE r.on = None
    BY <1>4, <1>12, <2>1 DEF AfterBilling
  <2>2. CASE r.on # None
    <3>1. r.on \in Topup /\ handed[r.on] > 0
      BY <1>1, <1>12, <2>2 DEF Shape, Progress
    <3>2. q.at = "finish" /\ q.on = r.on
      BY <1>3, <1>12, <2>2 DEF AfterBilling, Stage
    <3> QED BY <1>12, <3>1, <3>2 DEF Portal
  <2> QED BY <2>1, <2>2
<1>13. ASSUME bill_reseller_usage(s) PROVE Goal
  <2>1. r.at = "bill" /\ handed' = handed
    BY <1>13 DEF bill_reseller_usage, sale
  <2>2. CASE Enters(s, LoadedUsage(r.on))
    <3>1. /\ LoadedUsage(r.on) \in SessionState
          /\ LoadedUsage(r.on).at = "usage" /\ LoadedUsage(r.on).on = r.on
      BY <1>1, UsageFields
    <3>2. q.at = "usage" /\ q.on = r.on
      BY <2>2, <3>1, Moves DEF TypeOK
    <3>3. r.on # None => handed[r.on] > 0
      BY <1>1, <2>1 DEF Progress
    <3> QED BY <2>1, <3>2, <3>3
  <2> QED BY <1>12, <1>13, <2>1, <2>2 DEF bill_reseller_usage
<1>14. ASSUME BillUsage(s) PROVE Goal
  BY <1>12, <1>14 DEF BillUsage, sale
<1>15. OpenCheckout(s) \/ Complete(s) \/ Submit(s) \/ Reject(s) \/ Expire(s) \/ Pay(s) \/ Package(s)
       \/ Crash(s) => Returns(s)
  BY DEF OpenCheckout, Complete, Submit, Reject, Expire, Pay, Package, Crash
<1> HIDE DEF Goal
<1> QED
  BY <1>4, <1>5, <1>6, <1>7, <1>8, <1>9, <1>10, <1>11, <1>13, <1>14, <1>15
     DEF Work

(* The invariant is kept by every step.                                    *)
LEMMA RaceStep ==
  ASSUME RaceInv, [Next]_vars
  PROVE  RaceInv'
<1>0. TypeOK /\ StageShape /\ StageProgress
  BY DEF RaceInv
<1>1. TypeOK' /\ StageShape'
  BY <1>0, TypeStep
<1>2. StageProgress'
  <2>1. CASE \E s \in Session : Request(s) \/ Work(s) \/ Crash(s)
    <3>1. PICK s \in Session : Request(s) \/ Work(s) \/ Crash(s)
      BY <2>1
    <3>2. \A u \in Session : u # s => ses'[u] = ses[u]
      BY <1>0, <3>1, Entered, Moves DEF TypeOK
    <3>3. ASSUME NEW u \in Session PROVE Progress(ses[u])'
      <4>1. CASE u = s
        BY <1>0, <3>1, <4>1, MoverProgress
      <4>2. CASE u # s
        BY <1>0, <3>2, <4>2, Rests
      <4> QED BY <4>1, <4>2
    <3> QED BY <3>3 DEF StageProgress
  <2>2. CASE ses' = ses
    <3>1. ASSUME NEW u \in Session PROVE Progress(ses[u])'
      BY <1>0, <2>2, Rests
    <3> QED BY <3>1 DEF StageProgress
  <2> QED
    BY <2>1, <2>2 DEF Next, reload_providers, work, CustomerPays, TtlPasses,
       create_invoice, Meter, reset_admin_usage, vars
<1>3. CompletedWasHanded'
  <2>1. ASSUME NEW i \in Intent, intent'[i] = "completed",
               intent[i] # "completed"
        PROVE  \E s \in Session : ses[s].at = "finish" /\ ses[s].on = i
    <3> USE <1>0, <2>1 DEF TypeOK
    <3>1. ASSUME NEW s \in Session, NEW j \in Intent, create_payment(s, j)
          PROVE  FALSE
      BY <3>1 DEF create_payment
    <3>2. ASSUME NEW s \in Session, Submit(s) \/ Reject(s) \/ OpenCheckout(s)
          PROVE  FALSE
      BY <3>2 DEF Submit, Reject, OpenCheckout
    <3>3. ASSUME NEW s \in Session, Expire(s) PROVE FALSE
      BY <3>3 DEF Expire
    <3>4. ASSUME NEW s \in Session, Complete(s)
          PROVE  ses[s].at = "finish" /\ ses[s].on = i
      BY <3>4 DEF Complete
    <3>5. ASSUME NEW s \in Session, Request(s) PROVE intent' = intent
      BY <3>1, <3>5 DEF Request, complete_payment, submit_card_payment,
         reject_portal_payment, pay_invoice, expire_stale_portal_payments,
         adjust_wallet, purchase_package, run_usage_billing
    <3>6. ASSUME NEW s \in Session,
                 Verify(s) \/ ApplyTopup(s) \/ ApplyPortal(s) \/ LoadTariff(s)
                 \/ charge_reseller_tariff(s) \/ Pay(s) \/ Adjust(s)
                 \/ Package(s) \/ bill_reseller_usage(s) \/ BillUsage(s)
                 \/ Crash(s)
          PROVE  intent' = intent
      BY <3>6 DEF Verify, ApplyTopup, ApplyPortal, LoadTariff,
         charge_reseller_tariff, Pay, Adjust, Package, bill_reseller_usage,
         BillUsage, Crash
    <3>7. ASSUME \/ \E j \in Intent : CustomerPays(j) \/ TtlPasses(j)
                 \/ reload_providers \/ \E k \in Invoice : create_invoice(k)
                 \/ Meter \/ reset_admin_usage \/ UNCHANGED vars
          PROVE  intent' = intent
      BY <3>7 DEF reload_providers, CustomerPays, TtlPasses, create_invoice, Meter,
         reset_admin_usage, vars
    <3> QED
      BY <3>1, <3>2, <3>3, <3>4, <3>5, <3>6, <3>7 DEF Next, Work
  <2>2. ASSUME NEW i \in Intent, intent'[i] = "completed"
        PROVE  /\ handed[i] > 0
               /\ i \in Portal /\ Price > 0 => charged[i] > 0
    BY <1>0, <2>1, <2>2 DEF RaceInv, CompletedWasHanded, StageProgress, Progress
  <2>3. \A i \in Intent :
          /\ handed[i] \in Nat /\ charged[i] \in Nat
          /\ handed'[i] \in Nat /\ charged'[i] \in Nat
          /\ handed'[i] >= handed[i] /\ charged'[i] >= charged[i]
    BY <1>0, <1>1, Grows DEF TypeOK
  <2>4. ASSUME NEW i \in Intent, intent'[i] = "completed"
        PROVE  /\ handed'[i] > 0
               /\ i \in Portal /\ Price > 0 => charged'[i] > 0
    BY <2>2, <2>3, <2>4
  <2> QED BY <2>4 DEF CompletedWasHanded
<1>4. HandedWasPaid'
  <2>1. ASSUME NEW i \in Intent, handed'[i] # handed[i]
        PROVE  i \in Card \union paid \union unasked
    <3> USE <1>0, <2>1 DEF TypeOK
    <3>1. ASSUME NEW s \in Session, ApplyTopup(s) \/ ApplyPortal(s)
          PROVE  i \in Card \union paid \union unasked
      <4>1. ses[s].at \in {"credit", "deliver"} /\ ses[s].on = i
        BY <3>1 DEF ApplyTopup, ApplyPortal
      <4> QED BY <4>1 DEF StageProgress, Progress
    <3>2. ASSUME NEW s \in Session, Request(s) PROVE handed' = handed
      BY <3>2 DEF Request, create_payment, complete_payment, submit_card_payment,
         reject_portal_payment, pay_invoice, expire_stale_portal_payments,
         adjust_wallet, purchase_package, run_usage_billing, sale
    <3>3. ASSUME NEW s \in Session,
                 OpenCheckout(s) \/ Verify(s) \/ LoadTariff(s)
                 \/ charge_reseller_tariff(s) \/ Complete(s) \/ Submit(s) \/ Reject(s) \/ Expire(s)
                 \/ Pay(s) \/ Adjust(s) \/ Package(s)
                 \/ bill_reseller_usage(s) \/ BillUsage(s) \/ Crash(s)
          PROVE  handed' = handed
      BY <3>3 DEF OpenCheckout, Verify, LoadTariff, charge_reseller_tariff, Complete, Submit,
         Reject, Expire, Pay, Adjust, Package, bill_reseller_usage, BillUsage,
         Crash, sale
    <3>4. ASSUME \/ \E j \in Intent : CustomerPays(j) \/ TtlPasses(j)
                 \/ reload_providers
                 \/ \E k \in Invoice : create_invoice(k)
                 \/ Meter \/ reset_admin_usage \/ UNCHANGED vars
          PROVE  handed' = handed
      BY <3>4 DEF reload_providers, CustomerPays, TtlPasses, create_invoice,
         Meter, reset_admin_usage, vars, sale
    <3> QED BY <3>1, <3>2, <3>3, <3>4 DEF Next, Work
  <2>2. \A i \in Intent : handed'[i] > 0 => i \in Card \union paid \union unasked
    BY <2>1 DEF RaceInv, HandedWasPaid
  <2>3. paid \subseteq paid' /\ unasked \subseteq unasked'
    BY <1>0, Grows
  <2> QED BY <2>2, <2>3 DEF HandedWasPaid
<1>5. PaidInvoiceDebited'
  <2> USE <1>0 DEF TypeOK, PaidInvoiceDebited
  <2>0. PaidInvoiceDebited
    BY DEF RaceInv
  <2>1. ASSUME NEW s \in Session, Pay(s) PROVE PaidInvoiceDebited'
    <3>1. ses[s].on \in Invoice
      BY <2>1 DEF Pay, StageShape, Shape
    <3> QED BY <2>0, <2>1, <3>1 DEF Pay
  <2>2. ASSUME NEW k \in Invoice, create_invoice(k) PROVE PaidInvoiceDebited'
    BY <2>0, <2>2 DEF create_invoice
  <2>3. ASSUME NEW s \in Session, Request(s) PROVE UNCHANGED bills
    BY <2>3 DEF Request, create_payment, complete_payment, submit_card_payment,
       reject_portal_payment, pay_invoice, expire_stale_portal_payments,
       adjust_wallet, purchase_package, run_usage_billing
  <2>4. ASSUME NEW s \in Session,
               OpenCheckout(s) \/ Verify(s) \/ ApplyTopup(s)
               \/ ApplyPortal(s) \/ LoadTariff(s) \/ charge_reseller_tariff(s) \/ Complete(s) \/ Submit(s)
               \/ Reject(s) \/ Expire(s) \/ Adjust(s) \/ Package(s)
               \/ bill_reseller_usage(s) \/ BillUsage(s) \/ Crash(s)
        PROVE  UNCHANGED bills
    BY <2>4 DEF OpenCheckout, Verify, ApplyTopup, ApplyPortal, LoadTariff,
       charge_reseller_tariff, Complete, Submit, Reject, Expire, Adjust,
       Package, bill_reseller_usage, BillUsage, Crash
  <2>5. ASSUME \/ \E i \in Intent : CustomerPays(i) \/ TtlPasses(i)
               \/ reload_providers
               \/ Meter \/ reset_admin_usage \/ UNCHANGED vars
        PROVE  UNCHANGED bills
    BY <2>5 DEF reload_providers, CustomerPays, TtlPasses, Meter,
       reset_admin_usage, vars
  <2>6. UNCHANGED bills => PaidInvoiceDebited'
    BY <2>0 DEF bills
  <2> QED BY <2>1, <2>2, <2>3, <2>4, <2>5, <2>6 DEF Next, Work
<1> QED BY <1>1, <1>2, <1>3, <1>4, <1>5 DEF RaceInv

(* The first state satisfies the invariant.                                *)
LEMMA RaceInit == Init => RaceInv
<1> SUFFICES ASSUME Init PROVE RaceInv
  OBVIOUS
<1>1. /\ Idle \in SessionState /\ Idle.at = "idle"
      /\ Idle.on = None /\ Idle.batch = {}
  BY LoadedFields DEF Idle, Stage
<1>2. TypeOK
  <2>1. /\ ses \in [Session -> SessionState] /\ overlap \in BOOLEAN
        /\ crossed \subseteq Intent /\ gateway \in BOOLEAN
    BY <1>1 DEF Init
  <2> QED BY <2>1, BillingAssumption DEF Init, TypeOK, Status
<1>3. \A s \in Session : ses[s] = Idle
  BY DEF Init
<1>4. StageShape /\ StageProgress
  <2>1. \A s \in Session : /\ ses[s].at = "idle" /\ ses[s].on = None
                            /\ ses[s].batch = {}
    BY <1>1, <1>3
  <2> QED BY <2>1 DEF StageShape, StageProgress, Shape, Progress
<1>5. CompletedWasHanded /\ HandedWasPaid /\ PaidInvoiceDebited
  BY DEF Init, CompletedWasHanded, HandedWasPaid, PaidInvoiceDebited
<1> QED BY <1>2, <1>4, <1>5 DEF RaceInv

(* Any number of requests, callbacks and jobs, dying anywhere: what is     *)
(* shown as completed was handed out and charged for.                      *)
THEOREM RaceInvariant == Spec => []RaceInv
<1>1. RaceInv /\ [Next]_vars => RaceInv'
  BY RaceStep
<1> QED BY RaceInit, <1>1, PTL DEF Spec

(* TypeOK is an invariant.                                                 *)
THEOREM BillingTypeCorrect == Spec => []TypeOK
<1>1. RaceInv => TypeOK
  BY DEF RaceInv
<1> QED BY RaceInvariant, <1>1, PTL

(* A completed payment was handed out, and its tariff debited.             *)
THEOREM CompletionIsLast == Spec => []CompletedWasHanded
<1>1. RaceInv => CompletedWasHanded
  BY DEF RaceInv
<1> QED BY RaceInvariant, <1>1, PTL

(* Nothing is handed out for a gateway payment nobody has paid, unless the *)
(* gateway was switched off and so nobody was asked.                       *)
THEOREM GoodsArePaidFor == Spec => []HandedWasPaid
<1>1. RaceInv => HandedWasPaid
  BY DEF RaceInv
<1> QED BY RaceInvariant, <1>1, PTL

(* An invoice is paid exactly when the ledger holds its debit.             *)
THEOREM InvoiceMatchesLedger == Spec => []PaidInvoiceDebited
<1>1. RaceInv => PaidInvoiceDebited
  BY DEF RaceInv
<1> QED BY RaceInvariant, <1>1, PTL

-----------------------------------------------------------------------------
(* What a step leaves in its session.                                      *)

(* A session that loads an intent or invoice and the wallet.               *)
LEMMA MovesTo ==
  ASSUME TypeOK, NEW s \in Session, NEW st \in Stage,
         NEW o \in Intent \union Invoice \union {None}, NEW b \in Int,
         Enters(s, Loaded(st, o, b))
  PROVE  /\ ses'[s].at = st /\ ses'[s].on = o /\ ses'[s].bal = b
         /\ ses'[s].batch = {}
<1> DEFINE l == Loaded(st, o, b)
<1>1. l \in SessionState /\ l.at = st /\ l.on = o /\ l.bal = b /\ l.batch = {}
  BY LoadedFields
<1>2. Enters(s, l)
  OBVIOUS
<1> HIDE DEF l
<1> QED BY <1>1, <1>2, Moves DEF TypeOK

(* A session that goes on with what it works on, or is done.               *)
LEMMA GoesOn ==
  ASSUME TypeOK, NEW s \in Session
  PROVE  /\ \A st \in Stage : GoesTo(s, st) =>
              ses'[s].at = st /\ ses'[s].on = ses[s].on /\ ses'[s].batch = {}
         /\ Returns(s) =>
              ses'[s].at = "idle" /\ ses'[s].on = None /\ ses'[s].batch = {}
         /\ AfterBilling(s) =>
              /\ ses'[s].batch = {}
              /\ ses[s].on = None => ses'[s].at = "idle" /\ ses'[s].on = None
              /\ ses[s].on # None => ses'[s].at = "finish" /\ ses'[s].on = ses[s].on
<1>1. ses[s].on \in Intent \union Invoice \union {None} /\ 0 \in Int
  BY DEF TypeOK, SessionState
<1>2. ASSUME NEW st \in Stage, GoesTo(s, st) 
      PROVE  ses'[s].at = st /\ ses'[s].on = ses[s].on /\ ses'[s].batch = {}
  <2>1. Enters(s, Loaded(st, ses[s].on, 0))
    BY <1>2 DEF GoesTo
  <2> QED BY <1>1, <2>1, MovesTo
<1>3. ASSUME Returns(s)
      PROVE  ses'[s].at = "idle" /\ ses'[s].on = None /\ ses'[s].batch = {}
  <2>1. Enters(s, Loaded("idle", None, 0)) /\ "idle" \in Stage
    BY <1>3 DEF Returns, Idle, Stage
  <2>2. None \in Intent \union Invoice \union {None}
    OBVIOUS
  <2> QED BY <1>1, <2>1, <2>2, MovesTo
<1>4. "finish" \in Stage
  BY DEF Stage
<1>5. AfterBilling(s) => IF ses[s].on = None THEN Returns(s) ELSE GoesTo(s, "finish")
  BY DEF AfterBilling
<1> QED BY <1>2, <1>3, <1>4, <1>5

(* A request loads, checks and writes nothing but the operator's count,    *)
(* except a checkout, which commits a new intent.                          *)
LEMMA Requested ==
  ASSUME TypeOK, NEW s \in Session, Request(s)
  PROVE  LET q == ses'[s] IN
         /\ UNCHANGED <<sale, bills, money, usage, crashes>>
         /\ ses[s].at = "idle"
         /\ \/ intent' = intent
            \/ /\ q.at = "checkout" /\ q.on \in Intent /\ intent[q.on] = "none"
               /\ intent' = [intent EXCEPT ![q.on] = "pending"]
         /\ \/ q.at = "checkout" /\ q.on \in Intent /\ intent'[q.on] = "pending"
            \/ q.at \in {"verify", "reject"} /\ intent[q.on] \in Open
            \/ q.at = "submit" /\ intent[q.on] \in Open /\ q.seen = intent[q.on]
            \/ q.at = "pay" /\ q.bal = balance /\ balance >= InvoiceAmount
            \/ q.at = "expire" /\ \A i \in q.batch : intent[i] = "pending"
            \/ q.at = "adjust" /\ q.bal = balance
            \/ q.at = "package" /\ q.bal = balance /\ balance >= PackagePrice
            \/ q.at = "bill" /\ q.on = None
<1> DEFINE q == ses'[s]
           rest == /\ UNCHANGED <<intent, sale, bills, money, usage, crashes>>
                   /\ ses[s].at = "idle"
<1>0. /\ balance \in Int /\ prepaid \in Nat /\ intent \in [Intent -> Status] /\ 0 \in Int
      /\ "verify" \in Stage /\ "reject" \in Stage /\ "submit" \in Stage
      /\ "pay" \in Stage /\ "expire" \in Stage /\ "adjust" \in Stage
      /\ "package" \in Stage /\ "bill" \in Stage /\ "checkout" \in Stage
      /\ None \in Intent \union Invoice \union {None}
      /\ ses \in [Session -> SessionState]
  BY DEF TypeOK, Stage
<1>9. ASSUME NEW i \in Intent, create_payment(s, i)
      PROVE  /\ UNCHANGED <<sale, bills, money, usage, crashes>>
             /\ ses[s].at = "idle" /\ q.at = "checkout"
             /\ q.on \in Intent /\ intent[q.on] = "none"
             /\ intent' = [intent EXCEPT ![q.on] = "pending"]
             /\ intent'[q.on] = "pending"
  <2>1. /\ Enters(s, Loaded("checkout", i, 0)) /\ intent[i] = "none"
        /\ UNCHANGED <<sale, bills, money, usage, crashes>> /\ ses[s].at = "idle"
        /\ intent' = [intent EXCEPT ![i] = "pending"]
    BY <1>9 DEF create_payment
  <2>2. q.at = "checkout" /\ q.on = i
    BY <1>0, <2>1, MovesTo
  <2> QED BY <1>0, <2>1, <2>2
<1>1. ASSUME NEW i \in Intent, complete_payment(s, i)
      PROVE  rest /\ q.at = "verify" /\ intent[q.on] \in Open
  <2>1. Enters(s, Loaded("verify", i, 0)) /\ intent[i] \in Open /\ rest
    BY <1>1 DEF complete_payment
  <2>2. q.at = "verify" /\ q.on = i
    BY <1>0, <2>1, MovesTo
  <2> QED BY <2>1, <2>2
<1>2. ASSUME NEW i \in Intent, reject_portal_payment(s, i)
      PROVE  rest /\ q.at = "reject" /\ intent[q.on] \in Open
  <2>1. Enters(s, Loaded("reject", i, 0)) /\ intent[i] \in Open /\ rest
    BY <1>2 DEF reject_portal_payment
  <2>2. q.at = "reject" /\ q.on = i
    BY <1>0, <2>1, MovesTo
  <2> QED BY <2>1, <2>2
<1>3. ASSUME NEW i \in Intent, submit_card_payment(s, i)
      PROVE  rest /\ q.at = "submit" /\ intent[q.on] \in Open /\ q.seen = intent[q.on]
  <2> DEFINE b == Loaded("submit", i, 0)
             d == [b EXCEPT !.seen = intent[i]]
  <2>1. b \in SessionState /\ b.at = "submit" /\ b.on = i
    BY <1>0, LoadedFields DEF Stage
  <2>a. intent[i] \in Open /\ rest
    BY <1>3 DEF submit_card_payment, Open
  <2>b. Enters(s, d)
    BY <1>3 DEF submit_card_payment
  <2>2. Enters(s, d) /\ intent[i] \in Open /\ rest
    BY <2>a, <2>b
  <2> HIDE DEF b
  <2>3. intent[i] \in Status
    BY <1>0
  <2>4. d \in SessionState /\ d.at = "submit" /\ d.on = i /\ d.seen = intent[i]
    BY <2>1, <2>3, WithSeen
  <2> HIDE DEF d
  <2>5. q = d
    BY <1>0, <2>2, <2>4, Moves
  <2> QED BY <2>2, <2>4, <2>5
<1>4. ASSUME NEW k \in Invoice, pay_invoice(s, k)
      PROVE  rest /\ q.at = "pay" /\ q.bal = balance /\ balance >= InvoiceAmount
  <2>1. Enters(s, Loaded("pay", k, balance)) /\ balance >= InvoiceAmount /\ rest
    BY <1>4 DEF pay_invoice
  <2> QED BY <1>0, <2>1, MovesTo
<1>5. ASSUME expire_stale_portal_payments(s)
      PROVE  rest /\ q.at = "expire" /\ \A i \in q.batch : intent[i] = "pending"
  <2> DEFINE b == Loaded("expire", None, 0)
             S == {i \in Portal \intersect overdue : intent[i] = "pending"}
             d == [b EXCEPT !.batch = S]
  <2>1. b \in SessionState /\ b.at = "expire"
    BY LoadedFields DEF Stage
  <2>a. rest
    BY <1>5 DEF expire_stale_portal_payments
  <2>b. Enters(s, d)
    BY <1>5 DEF expire_stale_portal_payments
  <2>2. Enters(s, d) /\ rest
    BY <2>a, <2>b
  <2>3. S \in SUBSET Intent /\ \A i \in S : intent[i] = "pending"
    BY DEF Portal
  <2> HIDE DEF b, S
  <2>4. d \in SessionState /\ d.at = "expire" /\ d.batch = S
    BY <2>1, <2>3, WithBatch
  <2> HIDE DEF d
  <2>5. q = d
    BY <1>0, <2>2, <2>4, Moves
  <2> QED BY <2>2, <2>3, <2>4, <2>5
<1>6. ASSUME adjust_wallet(s) PROVE rest /\ q.at = "adjust" /\ q.bal = balance
  <2> DEFINE b == Loaded("adjust", None, balance)
  <2>0. "adjust" \in Stage /\ balance \in Int
    BY <1>0
  <2>1. b \in SessionState /\ b.at = "adjust" /\ b.bal = balance
    BY <2>0, LoadedFields
  <2>2. rest /\ \E delta \in Deltas \union ({v - balance : v \in SetTo} \ {0}) :
          Enters(s, [b EXCEPT !.amt = delta])
    BY <1>6 DEF adjust_wallet
  <2>3. PICK delta \in Deltas \union ({v - balance : v \in SetTo} \ {0}) :
          Enters(s, [b EXCEPT !.amt = delta])
    BY <2>2
  <2> HIDE DEF b
  <2>4. delta \in Int
    BY <1>0, BillingAssumption
  <2> DEFINE d == [b EXCEPT !.amt = delta]
  <2>5. d \in SessionState /\ d.at = "adjust" /\ d.bal = balance
    BY <2>1, <2>4, WithAmount
  <2>6. Enters(s, d)
    BY <2>3
  <2> HIDE DEF d
  <2>7. q = d
    BY <1>0, <2>5, <2>6, Moves
  <2> QED BY <2>2, <2>5, <2>7
<1>7. ASSUME purchase_package(s)
      PROVE  rest /\ q.at = "package" /\ q.bal = balance /\ balance >= PackagePrice
  <2> DEFINE b == Loaded("package", None, balance)
             d == [b EXCEPT !.pre = prepaid]
  <2>0. "package" \in Stage /\ balance \in Int
    BY <1>0
  <2>1. b \in SessionState /\ b.at = "package" /\ b.bal = balance
    BY <2>0, LoadedFields
  <2>a. rest /\ balance >= PackagePrice
    BY <1>7 DEF purchase_package
  <2>b. Enters(s, d)
    BY <1>7 DEF purchase_package
  <2>2. Enters(s, d) /\ rest /\ balance >= PackagePrice
    BY <2>a, <2>b
  <2> HIDE DEF b
  <2>3. d \in SessionState /\ d.at = "package" /\ d.bal = balance
    BY <1>0, <2>1, WithPrepaid
  <2> HIDE DEF d
  <2>4. q = d
    BY <1>0, <2>2, <2>3, Moves
  <2> QED BY <2>2, <2>3, <2>4
<1>8. ASSUME run_usage_billing(s) PROVE rest /\ q.at = "bill" /\ q.on = None
  <2>1. Enters(s, Loaded("bill", None, 0)) /\ rest
    BY <1>8 DEF run_usage_billing
  <2> QED BY <1>0, <2>1, MovesTo
<1> HIDE DEF rest, q
<1> QED
  <2>1. rest => /\ UNCHANGED <<sale, bills, money, usage, crashes>>
                /\ intent' = intent /\ ses[s].at = "idle"
    BY DEF rest
  <2> QED
    BY <1>1, <1>2, <1>3, <1>4, <1>5, <1>6, <1>7, <1>8, <1>9, <2>1 DEF Request, q

(* Work that goes on keeps its intent and writes no status before its      *)
(* last commit.                                                            *)
LEMMA Worked ==
  ASSUME TypeOK, StageShape, NEW s \in Session, Work(s) \/ Crash(s)
  PROVE  LET q == ses'[s] IN
         /\ q.batch = {}
         /\ \/ q.at = "idle" /\ q.on = None
            \/ /\ q.at \in {"credit", "deliver"} \union Post
               /\ q.on = ses[s].on /\ intent' = intent
<1> DEFINE q == ses'[s]
           r == ses[s]
           Goal == /\ q.batch = {}
                   /\ \/ q.at = "idle" /\ q.on = None
                      \/ /\ q.at \in {"credit", "deliver"} \union Post
                         /\ q.on = r.on /\ intent' = intent
<1> SUFFICES Goal
  OBVIOUS
<1>1. /\ r.on \in Intent \union Invoice \union {None} /\ balance \in Int
      /\ "credit" \in Stage /\ "deliver" \in Stage /\ "bill" \in Stage
      /\ "tariff" \in Stage /\ "settle" \in Stage /\ "finish" \in Stage
  BY DEF TypeOK, SessionState, Stage
<1>2. Returns(s) => Goal
  BY GoesOn
<1>3. ASSUME NEW st \in {"deliver", "bill", "tariff", "finish"}, GoesTo(s, st),
             intent' = intent
      PROVE  Goal
  <2>1. q.at = st /\ q.on = r.on /\ q.batch = {}
    BY <1>1, <1>3, GoesOn
  <2> QED BY <1>3, <2>1 DEF Post
<1>4. ASSUME NEW st \in {"credit", "settle"}, intent' = intent,
             Enters(s, Loaded(st, r.on, balance))
      PROVE  Goal
  <2>1. q.at = st /\ q.on = r.on /\ q.batch = {}
    BY <1>1, <1>4, MovesTo
  <2> QED BY <1>4, <2>1 DEF Post
<1>5. AfterBilling(s) /\ intent' = intent => Goal
  BY <1>2, <1>3 DEF AfterBilling
<1>6. ASSUME bill_reseller_usage(s) PROVE Goal
  <2>1. CASE Enters(s, LoadedUsage(r.on))
    <3> DEFINE l == LoadedUsage(r.on)
    <3>1. l \in SessionState /\ l.at = "usage" /\ l.on = r.on /\ l.batch = {}
      BY <1>1, UsageFields
    <3>2. Enters(s, l)
      BY <2>1
    <3> HIDE DEF l
    <3>3. q = l
      BY <3>1, <3>2, Moves DEF TypeOK
    <3> QED BY <1>6, <3>1, <3>3 DEF bill_reseller_usage, Post
  <2> QED BY <1>5, <1>6, <2>1 DEF bill_reseller_usage
<1>7. OpenCheckout(s) \/ Complete(s) \/ Submit(s) \/ Reject(s) \/ Expire(s)
      \/ Pay(s) \/ Package(s) \/ Crash(s) => Returns(s)
  BY DEF OpenCheckout, Complete, Submit, Reject, Expire, Pay, Package, Crash
<1> HIDE DEF Goal
<1>8. ASSUME Verify(s) PROVE Goal
  <2>1. intent' = intent /\ (Returns(s) \/ Accepted(s))
    BY <1>8 DEF Verify
  <2>2. intent' = intent /\ Accepted(s) => Goal
    BY <1>3, <1>4 DEF Accepted
  <2> QED BY <1>2, <2>1, <2>2
<1>9. ASSUME ApplyTopup(s) \/ ApplyPortal(s) \/ charge_reseller_tariff(s)
             \/ Adjust(s)
      PROVE  Goal
  BY <1>3, <1>9 DEF ApplyTopup, ApplyPortal, charge_reseller_tariff, Adjust
<1>10. ASSUME LoadTariff(s) PROVE Goal
  BY <1>2, <1>3, <1>4, <1>10 DEF LoadTariff
<1>11. ASSUME BillUsage(s) PROVE Goal
  BY <1>5, <1>11 DEF BillUsage
<1> QED BY <1>2, <1>6, <1>7, <1>8, <1>9, <1>10, <1>11 DEF Work

(* Outside the sessions nothing happens to statuses, goods and money.      *)
World ==
  \/ \E i \in Intent : CustomerPays(i) \/ TtlPasses(i)
  \/ reload_providers
  \/ \E k \in Invoice : create_invoice(k)
  \/ Meter \/ reset_admin_usage \/ UNCHANGED vars

(* What it leaves alone.                                                   *)
LEMMA Outside ==
  ASSUME World
  PROVE  /\ UNCHANGED <<ses, overlap, crossed, intent, handed, charged, fell>>
         /\ UNCHANGED <<balance, ledger, mark, billed>>
         /\ \/ used' = used /\ metered' = metered
            \/ used' = used + 1 /\ metered' = metered + 1
            \/ used' = 0 /\ metered' = metered
BY DEF World, CustomerPays, TtlPasses, reload_providers, create_invoice, Meter,
   reset_admin_usage, vars, work, sale, money, usage

(* A step is a session's or the world's.                                   *)
LEMMA WhoseStep ==
  ASSUME [Next]_vars
  PROVE  (\E s \in Session : Request(s) \/ Work(s) \/ Crash(s)) \/ World
BY DEF Next, World

-----------------------------------------------------------------------------
(* Sessions that keep apart.                                               *)

(* Until the wallet was shared, one session at most has it loaded; until   *)
(* an intent was shared, one session at most holds it.                     *)
ApartAtWallet ==
  ~overlap => \A s, u \in Session :
    s # u /\ ses[s].at \in AtWallet => ses[u].at \notin AtWallet

ApartOn(i) ==
  \A s, u \in Session : s # u /\ Holds(ses[s], i) => ~Holds(ses[u], i)

Apart == ApartAtWallet /\ \A i \in Intent \ crossed : ApartOn(i)

(* Overlaps are recorded, and what is not recorded did not happen.         *)
LEMMA ApartStep ==
  ASSUME TypeOK, StageShape, Apart, [Next]_vars
  PROVE  Apart' /\ (overlap => overlap') /\ crossed \subseteq crossed'
<1>1. ASSUME NEW s \in Session, Request(s) \/ Work(s) \/ Crash(s)
      PROVE  Apart' /\ (overlap => overlap') /\ crossed \subseteq crossed'
  <2>1. PICK r \in SessionState : Shape(r) /\ Enters(s, r)
    BY <1>1, Entered
  <2>2. /\ ses'[s] = r
        /\ \A u \in Session : u # s => ses'[u] = ses[u]
    BY <2>1, Moves DEF TypeOK
  <2>3. /\ overlap' <=> \/ overlap
                        \/ /\ r.at \in AtWallet
                           /\ \E x \in Session \ {s} : ses[x].at \in AtWallet
        /\ crossed' = crossed \union {i \in Intent :
             Holds(r, i) /\ \E x \in Session \ {s} : Holds(ses[x], i)}
    BY <2>1 DEF Enters, TypeOK
  <2>4. ApartAtWallet'
    BY <2>2, <2>3 DEF Apart, ApartAtWallet
  <2>5. ASSUME NEW i \in Intent \ crossed' PROVE ApartOn(i)'
    <3>1. ApartOn(i)
      BY <2>3, <2>5 DEF Apart
    <3>2. Holds(r, i) => \A x \in Session \ {s} : ~Holds(ses[x], i)
      BY <2>3, <2>5
    <3> SUFFICES ASSUME NEW a \in Session, NEW b \in Session, a # b,
                        Holds(ses'[a], i)
                 PROVE  ~Holds(ses'[b], i)
      BY DEF ApartOn, Holds
    <3> QED BY <2>2, <3>1, <3>2 DEF ApartOn
  <2> QED BY <2>3, <2>4, <2>5 DEF Apart
<1>2. ASSUME World PROVE Apart' /\ (overlap => overlap') /\ crossed \subseteq crossed'
  <2>1. UNCHANGED <<ses, overlap, crossed>>
    BY <1>2, Outside
  <2> QED BY <2>1 DEF Apart, ApartAtWallet, ApartOn, Holds
<1> QED BY <1>1, <1>2, WhoseStep

(* A session that holds an intent nobody shared is the only one to.        *)
LEMMA Sole ==
  ASSUME TypeOK, StageShape, Apart, NEW s \in Session,
         Request(s) \/ Work(s) \/ Crash(s),
         NEW i \in Intent \ crossed', Holds(ses[s], i) \/ Holds(ses'[s], i)
  PROVE  \A u \in Session : u # s => /\ ses'[u] = ses[u]
                                     /\ ~Holds(ses[u], i)
<1>1. [Next]_vars
  BY DEF Next
<1>2. Apart' /\ i \in Intent \ crossed
  BY <1>1, ApartStep
<1>3. ApartOn(i) /\ ApartOn(i)'
  BY <1>2 DEF Apart
<1>4. \A u \in Session : u # s => ses'[u] = ses[u]
  BY Entered, Moves DEF TypeOK
<1>5. ASSUME NEW u \in Session, u # s PROVE ~Holds(ses[u], i)
  <2>1. CASE Holds(ses[s], i)
    BY <1>3, <1>5, <2>1 DEF ApartOn
  <2>2. CASE Holds(ses'[s], i)
    <3>1. ~Holds(ses'[u], i)
      BY <1>3, <1>5, <2>2 DEF ApartOn, Holds
    <3> QED BY <1>4, <1>5, <3>1
  <2> QED BY <2>1, <2>2
<1> QED BY <1>4, <1>5

-----------------------------------------------------------------------------
(* Statuses.                                                               *)

(* The status a session saw of an intent it holds still stands.            *)
Stands(r, i) ==
  /\ intent[i] \in Open
  /\ r.at = "submit" => r.seen = intent[i]
  /\ r.at \in {"checkout", "expire"} => intent[i] = "pending"

IntentInv ==
  \A i \in Intent \ crossed : \A s \in Session :
    Holds(ses[s], i) => Stands(ses[s], i)

(* A status is written by a session that holds its intent, or creates it.  *)
LEMMA Written ==
  ASSUME TypeOK, StageShape, NEW s \in Session,
         Request(s) \/ Work(s) \/ Crash(s), NEW i \in Intent,
         intent'[i] # intent[i]
  PROVE  Holds(ses[s], i) \/ (Holds(ses'[s], i) /\ intent[i] = "none")
<1>0. intent \in [Intent -> Status]
  BY DEF TypeOK
<1>1. CASE Request(s)
  <2>1. PICK o \in Intent : /\ ses'[s].on = o /\ intent[o] = "none"
                            /\ intent' = [intent EXCEPT ![o] = "pending"]
    BY <1>1, Requested
  <2> QED BY <1>0, <2>1 DEF Holds
<1>2. CASE OpenCheckout(s) \/ Complete(s) \/ Submit(s) \/ Reject(s)
  <2>1. ses[s].on = i
    BY <1>0, <1>2 DEF OpenCheckout, Complete, Submit, Reject
  <2> QED BY <2>1 DEF Holds
<1>3. CASE Expire(s)
  <2>1. i \in ses[s].batch
    BY <1>0, <1>3 DEF Expire
  <2> QED BY <2>1 DEF Holds
<1>4. ASSUME \/ Verify(s) \/ ApplyTopup(s) \/ ApplyPortal(s) \/ LoadTariff(s)
             \/ charge_reseller_tariff(s) \/ Pay(s) \/ Adjust(s)
             \/ Package(s) \/ bill_reseller_usage(s) \/ BillUsage(s)
             \/ Crash(s)
      PROVE  intent' = intent
  BY <1>4 DEF Verify, ApplyTopup, ApplyPortal, LoadTariff,
     charge_reseller_tariff, Pay, Adjust, Package, bill_reseller_usage,
     BillUsage, Crash
<1> QED BY <1>1, <1>2, <1>3, <1>4 DEF Work

(* What an intent's only session saw stands when it has moved.             *)
LEMMA MoverStands ==
  ASSUME TypeOK, StageShape, StageShape', NEW s \in Session,
         Request(s) \/ Work(s) \/ Crash(s), NEW i \in Intent,
         Holds(ses[s], i) => Stands(ses[s], i), Holds(ses'[s], i)
  PROVE  Stands(ses[s], i)'
<1> DEFINE q == ses'[s]
<1>0. Shape(q) /\ Shape(ses[s]) /\ i # None
  BY BillingAssumption DEF StageShape
<1>1. CASE Request(s)
  <2>1. CASE q.at = "checkout"
    <3>1. q.on = i /\ intent'[i] = "pending"
      BY <1>0, <1>1, <2>1, Requested DEF Shape, Holds
    <3> QED BY <2>1, <3>1 DEF Stands, Open
  <2>2. CASE q.at # "checkout"
    <3>1. intent' = intent
      BY <1>1, <2>2, Requested
    <3>2. \/ q.at \in {"verify", "reject"} /\ intent[q.on] \in Open
          \/ q.at = "submit" /\ intent[q.on] \in Open /\ q.seen = intent[q.on]
          \/ q.at = "pay"
          \/ q.at = "expire" /\ \A j \in q.batch : intent[j] = "pending"
          \/ q.at \in {"adjust", "package"}
          \/ q.at = "bill" /\ q.on = None
      BY <1>1, <2>2, Requested
    <3>3. q.at # "expire" => q.on = i
      BY <1>0 DEF Shape, Holds
    <3>4. q.at = "expire" => i \in q.batch
      BY <1>0 DEF Shape, Holds
    <3>5. q.at \notin {"pay", "adjust", "package"}
      BY <1>0, <3>3, BillingAssumption DEF Shape
    <3>6. CASE q.at = "expire"
      BY <3>1, <3>2, <3>4, <3>6 DEF Stands, Open
    <3>7. CASE q.at # "expire"
      BY <1>0, <3>1, <3>2, <3>3, <3>5, <3>7 DEF Stands, Open
    <3> QED BY <3>6, <3>7
  <2> QED BY <2>1, <2>2
<1>2. CASE Work(s) \/ Crash(s)
  <2>1. /\ q.at \in {"credit", "deliver"} \union Post
        /\ q.on = ses[s].on /\ q.on = i /\ intent' = intent
    BY <1>0, <1>2, Worked DEF Holds
  <2>2. intent[i] \in Open
    BY <2>1 DEF Holds, Stands
  <2> QED BY <2>1, <2>2 DEF Stands, Post
<1> QED BY <1>1, <1>2

(* Statuses seen stand for intents nobody shared.                          *)
LEMMA IntentStep ==
  ASSUME TypeOK, StageShape, StageShape', Apart, IntentInv, [Next]_vars
  PROVE  IntentInv'
<1>0. crossed \subseteq crossed'
  BY ApartStep
<1>1. ASSUME NEW s \in Session, Request(s) \/ Work(s) \/ Crash(s),
             NEW i \in Intent \ crossed', NEW u \in Session, Holds(ses'[u], i)
      PROVE  Stands(ses[u], i)'
  <2>1. \A x \in Session : Holds(ses[x], i) => Stands(ses[x], i)
    BY <1>0, <1>1 DEF IntentInv
  <2>2. CASE u = s
    BY <1>1, <2>1, <2>2, MoverStands
  <2>3. CASE u # s
    <3>1. ses'[u] = ses[u]
      BY <1>1, <2>3, Entered, Moves DEF TypeOK
    <3>2. Holds(ses[u], i)
      BY <1>1, <3>1
    <3>3. ~Holds(ses[s], i) /\ ~Holds(ses'[s], i)
      BY <1>1, <2>3, <3>2, Sole
    <3>4. intent'[i] = intent[i]
      BY <1>1, <3>3, Written
    <3>5. Stands(ses[u], i)
      BY <2>1, <3>2
    <3> QED BY <3>1, <3>4, <3>5 DEF Stands
  <2> QED BY <2>2, <2>3
<1>2. ASSUME World PROVE IntentInv'
  <2>1. UNCHANGED <<ses, crossed, intent>>
    BY <1>2, Outside
  <2> QED BY <2>1 DEF IntentInv, Holds, Stands
<1>3. ASSUME NEW s \in Session, Request(s) \/ Work(s) \/ Crash(s)
      PROVE  IntentInv'
  <2> SUFFICES ASSUME NEW i \in Intent \ crossed', NEW u \in Session,
                      Holds(ses'[u], i)
               PROVE  Stands(ses[u], i)'
    BY DEF IntentInv, Holds
  <2> QED BY <1>1, <1>3
<1> QED BY <1>2, <1>3, WhoseStep

(* No step writes the status of a closed payment nobody shared.            *)
LEMMA StatusStep ==
  ASSUME TypeOK, StageShape, Apart, IntentInv, [Next]_vars,
         NEW i \in Intent \ crossed', intent[i] \in Final
  PROVE  intent'[i] = intent[i]
<1>1. i \in Intent \ crossed
  BY ApartStep
<1>2. intent[i] \notin Open /\ intent[i] # "none"
  BY DEF Final, Open
<1>3. ASSUME NEW s \in Session, Request(s) \/ Work(s) \/ Crash(s)
      PROVE  intent'[i] = intent[i]
  <2>1. ~Holds(ses[s], i)
    BY <1>1, <1>2 DEF IntentInv, Stands
  <2> QED BY <1>2, <1>3, <2>1, Written
<1>4. World => intent' = intent
  BY Outside
<1> QED BY <1>3, <1>4, WhoseStep

-----------------------------------------------------------------------------
(* The wallet.                                                             *)

Balanced == balance = ledger
Settled == billed + Unbilled(used, mark) <= metered

(* A session's balance is the wallet's, and covers what it will charge.    *)
Fresh(r) ==
  /\ r.at \in AtWallet => r.bal = balance
  /\ r.at = "settle" => r.bal >= Price
  /\ r.at = "pay" => r.bal >= InvoiceAmount
  /\ r.at = "package" => r.bal >= PackagePrice

(* The bytes a session is about to settle, and those metered since it      *)
(* loaded the counter, are metered and not settled.                        *)
Metered(r) ==
  r.at = "usage" =>
    /\ r.last = mark
    /\ billed + Unbilled(r.cur, r.last) + Unbilled(used, r.cur) <= metered

Sound(s) == Fresh(ses[s]) /\ Metered(ses[s])

(* Until the wallet was shared, no session's copy of it is stale.          *)
WalletInv ==
  ~overlap => Balanced /\ Settled /\ \A s \in Session : Sound(s)

(* A session without the wallet has nothing to keep.                       *)
LEMMA OffWallet ==
  ASSUME NEW s \in Session, ses'[s].at \notin AtWallet
  PROVE  Sound(s)'
BY DEF Sound, Fresh, Metered, AtWallet

(* The bytes unbilled, as the greater of the difference and nothing.       *)
LEMMA UnbilledIs ==
  ASSUME NEW c \in Nat, NEW m \in Nat
  PROVE  /\ Unbilled(c, m) \in Nat
         /\ c <= m => Unbilled(c, m) = 0
         /\ c >= m => Unbilled(c, m) = c - m
BY DEF Unbilled, Smaller

(* After a request that only loaded something.                             *)
LEMMA WalletRequest ==
  ASSUME TypeOK, Settled, Balanced, NEW s \in Session, Request(s)
  PROVE  Sound(s)' /\ Balanced' /\ Settled'
<1> DEFINE q == ses'[s]
<1>1. UNCHANGED <<balance, ledger, used, mark, metered, billed>>
  BY Requested DEF money, usage
<1>2. Balanced' /\ Settled'
  BY <1>1 DEF Balanced, Settled
<1>3. \/ q.at \in {"checkout", "verify", "reject", "submit", "expire", "bill"}
      \/ q.at = "pay" /\ q.bal = balance' /\ balance' >= InvoiceAmount
      \/ q.at = "adjust" /\ q.bal = balance'
      \/ q.at = "package" /\ q.bal = balance' /\ balance' >= PackagePrice
  BY <1>1, Requested
<1>4. Fresh(ses[s])' /\ Metered(ses[s])'
  BY <1>3 DEF Fresh, Metered, AtWallet
<1> QED BY <1>2, <1>4 DEF Sound

(* After a step of a payment.                                              *)
LEMMA WalletPayment ==
  ASSUME TypeOK, StageShape, Settled, Balanced, NEW s \in Session, Sound(s),
         \/ OpenCheckout(s) \/ Verify(s) \/ ApplyTopup(s) \/ ApplyPortal(s)
         \/ LoadTariff(s) \/ charge_reseller_tariff(s) \/ Complete(s)
  PROVE  Sound(s)' /\ Balanced' /\ Settled'
<1> DEFINE r == ses[s]
           q == ses'[s]
           Goal == Sound(s)' /\ Balanced' /\ Settled'
<1>0. /\ balance \in Int /\ ledger \in Int /\ balance = ledger
      /\ r.bal \in Int /\ r.on \in Intent \union Invoice \union {None}
      /\ r.at \in AtWallet => r.bal = balance
      /\ "credit" \in Stage /\ "deliver" \in Stage /\ "bill" \in Stage
      /\ "tariff" \in Stage /\ "settle" \in Stage /\ "finish" \in Stage
  BY DEF TypeOK, SessionState, Balanced, Sound, Fresh, Stage
<1>1. UNCHANGED <<used, mark, metered, billed>>
  BY DEF OpenCheckout, Verify, ApplyTopup, ApplyPortal, LoadTariff,
     charge_reseller_tariff, Complete, usage
<1>2. Settled'
  BY <1>1 DEF Settled
<1>3. UNCHANGED money => Balanced' /\ Settled'
  BY <1>2 DEF Balanced, money
<1>4. Returns(s) => Sound(s)'
  BY GoesOn, OffWallet DEF AtWallet
<1>5. ASSUME NEW st \in {"deliver", "bill", "tariff", "finish"}, GoesTo(s, st)
      PROVE  Sound(s)'
  <2>1. q.at = st
    BY <1>0, <1>5, GoesOn
  <2> QED BY <1>5, <2>1, OffWallet DEF AtWallet
<1>6. CASE OpenCheckout(s) \/ Complete(s)
  BY <1>3, <1>4, <1>6 DEF OpenCheckout, Complete
<1>7. ASSUME NEW st \in {"credit", "settle"}, UNCHANGED money,
             st = "settle" => balance >= Price,
             Enters(s, Loaded(st, r.on, balance))
      PROVE  Goal
  <2>1. q.at = st /\ q.bal = balance
    BY <1>0, <1>7, MovesTo
  <2>2. Sound(s)'
    BY <1>7, <2>1 DEF Sound, Fresh, Metered, AtWallet, money
  <2> QED BY <1>3, <1>7, <2>2
<1>8. CASE Verify(s)
  <2>1. UNCHANGED money /\ (Returns(s) \/ Accepted(s))
    BY <1>8 DEF Verify
  <2>2. Accepted(s) => Goal
    BY <1>3, <1>5, <1>7, <2>1 DEF Accepted
  <2> QED BY <1>3, <1>4, <2>1, <2>2
<1>9. CASE ApplyTopup(s)
  <2>1. /\ r.at = "credit" /\ GoesTo(s, "bill")
        /\ ledger' = ledger + Amount /\ balance' = r.bal + Amount
    BY <1>9 DEF ApplyTopup, add_transaction
  <2>2. Balanced'
    BY <1>0, <2>1 DEF Balanced, AtWallet
  <2> QED BY <1>2, <1>5, <2>1, <2>2
<1>10. CASE ApplyPortal(s)
  BY <1>3, <1>5, <1>10 DEF ApplyPortal
<1>11. CASE LoadTariff(s)
  BY <1>3, <1>4, <1>5, <1>7, <1>11 DEF LoadTariff
<1>12. CASE charge_reseller_tariff(s)
  <2>1. /\ r.at = "settle" /\ GoesTo(s, "finish")
        /\ ledger' = ledger + (-Price) /\ balance' = r.bal + (-Price)
    BY <1>12 DEF charge_reseller_tariff, add_transaction
  <2>2. Balanced'
    BY <1>0, <2>1 DEF Balanced, AtWallet
  <2> QED BY <1>2, <1>5, <2>1, <2>2
<1> QED BY <1>6, <1>8, <1>9, <1>10, <1>11, <1>12

(* After a commit that changes a status, pays an invoice, adjusts the      *)
(* wallet or sells a package.                                              *)
LEMMA WalletCommit ==
  ASSUME TypeOK, StageShape, Settled, Balanced, NEW s \in Session, Sound(s),
         \/ Submit(s) \/ Reject(s) \/ Expire(s)
         \/ Pay(s) \/ Adjust(s) \/ Package(s)
  PROVE  Sound(s)' /\ Balanced' /\ Settled'
<1> DEFINE r == ses[s]
           q == ses'[s]
<1>0. /\ balance \in Int /\ ledger \in Int /\ balance = ledger
      /\ r.bal \in Int /\ r.amt \in Int
      /\ r.at \in AtWallet => r.bal = balance
  BY DEF TypeOK, SessionState, Balanced, Sound, Fresh
<1>1. UNCHANGED <<used, mark, metered, billed>>
  BY DEF Submit, Reject, Expire, Pay, Adjust, Package, usage
<1>2. Settled'
  BY <1>1 DEF Settled
<1>3. Returns(s) => Sound(s)'
  BY GoesOn, OffWallet DEF AtWallet
<1>4. CASE Submit(s) \/ Reject(s) \/ Expire(s)
  <2>1. UNCHANGED money /\ Returns(s)
    BY <1>4 DEF Submit, Reject, Expire
  <2>2. Balanced'
    BY <2>1 DEF Balanced, money
  <2> QED BY <1>2, <1>3, <2>1, <2>2
<1>5. CASE Pay(s)
  <2>1. /\ r.at = "pay" /\ Returns(s)
        /\ ledger' = ledger + (-InvoiceAmount)
        /\ balance' = r.bal + (-InvoiceAmount)
    BY <1>5 DEF Pay, add_transaction
  <2>2. Balanced'
    BY <1>0, <2>1 DEF Balanced, AtWallet
  <2> QED BY <1>2, <1>3, <2>1, <2>2
<1>6. CASE Adjust(s)
  <2>1. /\ r.at = "adjust" /\ GoesTo(s, "bill")
        /\ ledger' = ledger + r.amt /\ balance' = r.bal + r.amt
    BY <1>6 DEF Adjust, add_transaction
  <2>2. Balanced'
    BY <1>0, <2>1 DEF Balanced, AtWallet
  <2>3. q.at = "bill"
    BY <2>1, GoesOn DEF Stage
  <2> QED BY <1>2, <2>2, <2>3, OffWallet DEF AtWallet
<1>7. CASE Package(s)
  <2>1. /\ r.at = "package" /\ Returns(s)
        /\ \/ /\ ledger' = ledger + (-PackagePrice)
              /\ balance' = r.bal + (-PackagePrice)
           \/ ledger' = ledger /\ balance' = balance
    BY <1>7 DEF Package, add_transaction, money
  <2>2. Balanced'
    BY <1>0, <2>1 DEF Balanced, AtWallet
  <2> QED BY <1>2, <1>3, <2>1, <2>2
<1> QED BY <1>4, <1>5, <1>6, <1>7

(* After the usage charge was loaded or committed.                         *)
LEMMA WalletUsage ==
  ASSUME TypeOK, StageShape, Settled, Balanced, NEW s \in Session, Sound(s),
         bill_reseller_usage(s) \/ BillUsage(s)
  PROVE  Sound(s)' /\ Balanced' /\ Settled'
<1> DEFINE r == ses[s]
           q == ses'[s]
<1>0. /\ balance \in Int /\ ledger \in Int /\ balance = ledger
      /\ used \in Nat /\ mark \in Nat /\ metered \in Nat /\ billed \in Nat
      /\ r \in SessionState
      /\ r.bal \in Int /\ r.cur \in Nat /\ r.last \in Nat
      /\ r.on \in Intent \union Invoice \union {None}
      /\ r.at \in AtWallet => r.bal = balance
  BY DEF TypeOK, SessionState, Balanced, Sound, Fresh
<1>1. ASSUME AfterBilling(s) PROVE Sound(s)'
  <2>1. q.at = "idle" \/ q.at = "finish"
    BY <1>1, GoesOn
  <2> QED BY <2>1, OffWallet DEF AtWallet
<1>2. CASE bill_reseller_usage(s)
  <2>2. UNCHANGED <<balance, ledger, used, mark, metered, billed>>
    BY <1>2 DEF bill_reseller_usage, money, usage
  <2>3. Balanced' /\ Settled'
    BY <2>2 DEF Balanced, Settled
  <2>4. CASE Enters(s, LoadedUsage(r.on))
    <3> DEFINE l == LoadedUsage(r.on)
    <3>1. /\ l \in SessionState /\ l.at = "usage"
          /\ l.bal = balance /\ l.cur = used /\ l.last = mark
      BY <1>0, UsageFields
    <3>2. Enters(s, l)
      BY <2>4
    <3> HIDE DEF l
    <3>3. q = l
      BY <3>1, <3>2, Moves DEF TypeOK
    <3>4. Unbilled(used, used) = 0 /\ Unbilled(used, mark) \in Nat
      BY <1>0, UnbilledIs
    <3>5. billed + Unbilled(used, mark) + Unbilled(used, used) <= metered
      BY <1>0, <3>4 DEF Settled
    <3>6. Metered(ses[s])'
      BY <2>2, <3>1, <3>3, <3>5 DEF Metered
    <3>7. Fresh(ses[s])'
      BY <2>2, <3>1, <3>3 DEF Fresh
    <3> QED BY <2>3, <3>6, <3>7 DEF Sound
  <2> QED BY <1>1, <1>2, <2>3, <2>4 DEF bill_reseller_usage
<1>3. CASE BillUsage(s)
  <2>1. r.at = "usage" /\ AfterBilling(s) /\ used' = used /\ metered' = metered
    BY <1>3 DEF BillUsage
  <2>2. Sound(s)'
    BY <1>1, <2>1
  <2> DEFINE c == Cost(r)
             un == Unbilled(r.cur, r.last)
  <2>3. c \in Nat /\ un \in Nat
    BY <1>0, ChargeTypes
  <2>4. \/ ledger' = ledger + (-c) /\ balance' = r.bal + (-c)
        \/ ledger' = ledger /\ balance' = balance
    BY <1>3 DEF BillUsage, add_transaction, money
  <2>5. \/ /\ mark' = IF r.cur = r.last THEN mark ELSE r.cur
           /\ billed' = billed + un
        \/ mark' = mark /\ billed' = billed
    BY <1>3 DEF BillUsage
  <2>6. r.bal = balance /\ r.last = mark
        /\ billed + un + Unbilled(used, r.cur) <= metered
    BY <1>0, <2>1 DEF AtWallet, Sound, Metered
  <2> HIDE DEF c, un
  <2>7. Balanced'
    BY <1>0, <2>3, <2>4, <2>6 DEF Balanced
  <2>8. Settled'
    <3>1. CASE mark' = r.cur /\ billed' = billed + un
      BY <2>1, <2>6, <3>1 DEF Settled
    <3>2. CASE mark' = mark /\ billed' = billed
      BY <2>1, <3>2 DEF Settled
    <3> QED BY <2>5, <2>6, <3>1, <3>2
  <2> QED BY <2>2, <2>7, <2>8
<1> QED BY <1>2, <1>3

(* The wallet and the watermark are written by a session that has them     *)
(* loaded; the counters of traffic by none.                                *)
LEMMA WalletWritten ==
  ASSUME TypeOK, NEW s \in Session, Request(s) \/ Work(s) \/ Crash(s)
  PROVE  /\ UNCHANGED <<used, metered>>
         /\ ses[s].at \notin AtWallet =>
              UNCHANGED <<balance, ledger, mark, billed>>
<1>1. ASSUME Request(s) PROVE UNCHANGED <<money, usage>>
  BY <1>1, Requested
<1>2. ASSUME \/ OpenCheckout(s) \/ Verify(s) \/ ApplyPortal(s) \/ LoadTariff(s)
             \/ Complete(s) \/ Submit(s) \/ Reject(s) \/ Expire(s)
             \/ bill_reseller_usage(s) \/ Crash(s)
      PROVE  UNCHANGED <<money, usage>>
  BY <1>2 DEF OpenCheckout, Verify, ApplyPortal, LoadTariff, Complete, Submit,
     Reject, Expire, bill_reseller_usage, Crash
<1>3. ASSUME \/ ApplyTopup(s) \/ charge_reseller_tariff(s) \/ Pay(s)
             \/ Adjust(s) \/ Package(s) \/ BillUsage(s)
      PROVE  ses[s].at \in AtWallet /\ UNCHANGED <<used, metered>>
  BY <1>3 DEF ApplyTopup, charge_reseller_tariff, Pay, Adjust, Package,
     BillUsage, AtWallet, usage
<1>4. UNCHANGED <<money, usage>> =>
        UNCHANGED <<balance, ledger, used, metered, mark, billed>>
  BY DEF money, usage
<1> QED BY <1>1, <1>2, <1>3, <1>4 DEF Work

(* No copy of the wallet is stale after a step, if none was shared.        *)
LEMMA WalletStep ==
  ASSUME TypeOK, StageShape, Apart, WalletInv, [Next]_vars
  PROVE  WalletInv'
<1> SUFFICES ASSUME ~overlap'
             PROVE  Balanced' /\ Settled' /\ \A u \in Session : Sound(u)'
  BY DEF WalletInv
<1>0. /\ ~overlap /\ Balanced /\ Settled
      /\ \A u \in Session : Sound(u)
      /\ \A s, u \in Session :
           s # u /\ ses[s].at \in AtWallet => ses[u].at \notin AtWallet
  BY ApartStep DEF WalletInv, Apart, ApartAtWallet
<1>1. ASSUME NEW s \in Session, Request(s) \/ Work(s) \/ Crash(s)
      PROVE  Balanced' /\ Settled' /\ \A u \in Session : Sound(u)'
  <2>1. ASSUME Crash(s) PROVE Sound(s)' /\ Balanced' /\ Settled'
    <3>1. Returns(s) /\ UNCHANGED <<balance, ledger, used, mark, metered, billed>>
      BY <2>1 DEF Crash, money, usage
    <3>2. Sound(s)'
      BY <3>1, GoesOn, OffWallet DEF AtWallet
    <3> QED BY <1>0, <3>1, <3>2 DEF Balanced, Settled
  <2>2. Sound(s)' /\ Balanced' /\ Settled'
    BY <1>0, <1>1, <2>1, WalletRequest, WalletPayment, WalletCommit,
       WalletUsage DEF Work
  <2>3. ASSUME NEW u \in Session, u # s PROVE Sound(u)'
    <3>1. ses'[u] = ses[u] /\ Sound(u)
      BY <1>0, <1>1, <2>3, Entered, Moves DEF TypeOK
    <3>2. CASE ses[s].at \in AtWallet
      <4>1. ses'[u].at \notin AtWallet
        BY <1>0, <2>3, <3>1, <3>2
      <4> QED BY <4>1, OffWallet
    <3>3. CASE ses[s].at \notin AtWallet
      <4>1. UNCHANGED <<balance, used, metered, mark, billed>>
        BY <1>1, <3>3, WalletWritten
      <4> QED BY <3>1, <4>1 DEF Sound, Fresh, Metered
    <3> QED BY <3>2, <3>3
  <2> QED BY <2>2, <2>3
<1>2. ASSUME World
      PROVE  Balanced' /\ Settled' /\ \A u \in Session : Sound(u)'
  <2>0. UNCHANGED <<ses, balance, ledger, mark, billed>>
    BY <1>2, Outside
  <2>1. Balanced'
    BY <1>0, <2>0 DEF Balanced
  <2>2. /\ used \in Nat /\ mark \in Nat /\ metered \in Nat /\ billed \in Nat
    BY DEF TypeOK
  <2>3. \A c, n \in Nat :
          n + Unbilled(used, c) <= metered => n + Unbilled(used', c) <= metered'
    BY <1>2, <2>2, Outside DEF Unbilled, Smaller
  <2>4. Settled'
    BY <1>0, <2>0, <2>2, <2>3 DEF Settled
  <2>5. ASSUME NEW u \in Session PROVE Sound(u)'
    <3>1. ses'[u] = ses[u] /\ Sound(u) /\ ses[u] \in SessionState
      BY <1>0, <2>0 DEF TypeOK
    <3>2. Fresh(ses[u])'
      BY <2>0, <3>1 DEF Sound, Fresh
    <3> DEFINE un == Unbilled(ses[u].cur, ses[u].last)
    <3>3. ses[u].cur \in Nat /\ ses[u].last \in Nat
      BY <3>1 DEF SessionState
    <3>4. un \in Nat
      BY <3>3, UnbilledIs
    <3>5. billed + un \in Nat
      BY <2>2, <3>4
    <3>6. ses[u].at = "usage" =>
            billed + un + Unbilled(used', ses[u].cur) <= metered'
      BY <2>3, <3>1, <3>3, <3>5 DEF Sound, Metered
    <3>7. Metered(ses[u])'
      BY <2>0, <3>1, <3>6 DEF Sound, Metered
    <3> QED BY <3>2, <3>7 DEF Sound
  <2> QED BY <2>1, <2>4, <2>5
<1> QED BY <1>1, <1>2, WhoseStep

(* A debit that is not the operator's is covered by the ledger.            *)
LEMMA ChargeStep ==
  ASSUME TypeOK, StageShape, Apart, WalletInv, [Next]_vars,
         ledger' < ledger, ~Adjusting, ~overlap'
  PROVE  ledger' >= 0
<1>0. /\ TypeOK /\ balance \in Int /\ ledger \in Int /\ balance = ledger
      /\ \A s \in Session : Fresh(ses[s]) /\ ses[s] \in SessionState
  BY ApartStep DEF WalletInv, Sound, TypeOK, Balanced
<1>1. /\ Amount \in Nat /\ Price \in Nat /\ InvoiceAmount \in Nat /\ PackagePrice \in Nat
  BY BillingAssumption
<1>2. ASSUME NEW s \in Session, ApplyTopup(s) PROVE FALSE
  <2>1. ledger' = ledger + Amount
    BY <1>2 DEF ApplyTopup, add_transaction
  <2> QED BY <1>0, <1>1, <2>1
<1>3. ASSUME NEW s \in Session, charge_reseller_tariff(s) PROVE ledger' >= 0
  <2>1. ledger' = ledger + (-Price) /\ ses[s].at = "settle"
    BY <1>3 DEF charge_reseller_tariff, add_transaction
  <2>2. ledger >= Price
    BY <1>0, <2>1 DEF Fresh, AtWallet
  <2> QED BY <1>0, <1>1, <2>1, <2>2
<1>4. ASSUME NEW s \in Session, Pay(s) PROVE ledger' >= 0
  <2>1. ledger' = ledger + (-InvoiceAmount) /\ ses[s].at = "pay"
    BY <1>4 DEF Pay, add_transaction
  <2>2. ledger >= InvoiceAmount
    BY <1>0, <2>1 DEF Fresh, AtWallet
  <2> QED BY <1>0, <1>1, <2>1, <2>2
<1>5. ASSUME NEW s \in Session, Package(s) PROVE ledger' >= 0
  <2>1. (ledger' = ledger + (-PackagePrice) \/ ledger' = ledger) /\ ses[s].at = "package"
    BY <1>5 DEF Package, add_transaction, money
  <2>2. ledger >= PackagePrice
    BY <1>0, <2>1 DEF Fresh, AtWallet
  <2> QED BY <1>0, <1>1, <2>1, <2>2
<1>6. ASSUME NEW s \in Session, Adjust(s) PROVE FALSE
  <2>1. ses[s].at = "adjust" /\ GoesTo(s, "bill") /\ "bill" \in Stage
    BY <1>6 DEF Adjust, Stage
  <2>2. ses'[s].at = "bill"
    BY <1>0, <2>1, GoesOn
  <2> QED BY <2>1, <2>2 DEF Adjusting
<1>7. ASSUME NEW s \in Session, BillUsage(s) PROVE ledger' >= 0
  <2> DEFINE c == Cost(ses[s])
  <2>1. c \in Nat
    BY <1>0, ChargeTypes
  <2>2. ses[s].at = "usage"
    BY <1>7 DEF BillUsage
  <2>a. ledger' = ledger \/ (ledger' = ledger + (-c) /\ ses[s].bal >= c /\ c > 0)
    BY <1>7, <2>1 DEF BillUsage, add_transaction, money
  <2>3. ses[s].bal = ledger
    BY <1>0, <2>2 DEF Fresh, AtWallet
  <2> HIDE DEF c
  <2> QED BY <1>0, <2>1, <2>a, <2>3
<1>8. ASSUME NEW s \in Session, Request(s) PROVE UNCHANGED money
  BY <1>0, <1>8, Requested
<1>9. ASSUME NEW s \in Session,
             OpenCheckout(s) \/ Verify(s) \/ ApplyPortal(s) \/ LoadTariff(s)
             \/ Complete(s) \/ Submit(s) \/ Reject(s) \/ Expire(s)
             \/ bill_reseller_usage(s) \/ Crash(s)
      PROVE  UNCHANGED money
  BY <1>9 DEF OpenCheckout, Verify, ApplyPortal, LoadTariff, Complete, Submit, Reject,
     Expire, bill_reseller_usage, Crash
<1>10. World => UNCHANGED money
  BY Outside DEF money
<1>11. UNCHANGED money => FALSE
  BY <1>0 DEF money
<1> QED
  BY <1>2, <1>3, <1>4, <1>5, <1>6, <1>7, <1>8, <1>9, <1>10, <1>11, WhoseStep
     DEF Work

-----------------------------------------------------------------------------
(* The invariant of sessions that keep apart.                              *)

SharedInv == Apart /\ IntentInv /\ WalletInv

(* The first state satisfies it.                                           *)
LEMMA SharedInit == Init => SharedInv
<1> SUFFICES ASSUME Init PROVE SharedInv
  OBVIOUS
<1>1. Idle.at = "idle" /\ Idle.on = None /\ Idle.batch = {}
  BY LoadedFields DEF Idle, Stage
<1>2. \A s \in Session : ses[s] = Idle
  BY DEF Init
<1>3. \A s \in Session, i \in Intent : ~Holds(ses[s], i)
  BY <1>1, <1>2, BillingAssumption DEF Holds
<1>4. \A s \in Session : ses[s].at \notin AtWallet /\ Sound(s)
  BY <1>1, <1>2 DEF Sound, Fresh, Metered, AtWallet
<1>5. Apart /\ IntentInv
  BY <1>3, <1>4 DEF Apart, ApartAtWallet, ApartOn, IntentInv
<1>6. Balanced /\ Settled
  BY DEF Init, Balanced, Settled, Unbilled, Smaller
<1> QED BY <1>4, <1>5, <1>6 DEF SharedInv, WalletInv

(* Any number of sessions: what one has loaded is not stale unless another *)
(* held it at the same time, and every such overlap is recorded.           *)
THEOREM SharedInvariant == Spec => []SharedInv
<1>1. RaceInv /\ SharedInv /\ [Next]_vars => SharedInv'
  BY TypeStep, ApartStep, IntentStep, WalletStep DEF RaceInv, SharedInv
<1> QED BY SharedInit, RaceInvariant, <1>1, PTL DEF Spec

(* The balance is the sum of the ledger, for any number of sessions, until *)
(* two held the wallet at once.                                            *)
THEOREM LedgerBalances == Spec => []BalanceIsLedgerSum
<1>1. SharedInv => BalanceIsLedgerSum
  BY DEF SharedInv, WalletInv, Balanced, BalanceIsLedgerSum
<1> QED BY SharedInvariant, <1>1, PTL

(* No byte is settled twice, until two sessions held the wallet at once.   *)
THEOREM NoByteSettledTwice == Spec => []UsageBilledOnce
<1>1. SharedInv => UsageBilledOnce
  BY DEF SharedInv, WalletInv, Settled, UsageBilledOnce
<1> QED BY SharedInvariant, <1>1, PTL

(* A closed payment stays closed, until two sessions held it at once.      *)
THEOREM ClosedStaysClosed == Spec => FinalStatusStays
<1>1. RaceInv /\ SharedInv /\ [Next]_vars =>
        [\A i \in Intent \ crossed' :
           intent[i] \in Final => intent'[i] = intent[i]]_vars
  BY StatusStep DEF RaceInv, SharedInv
<1> QED BY RaceInvariant, SharedInvariant, <1>1, PTL DEF Spec, FinalStatusStays

(* No charge takes the ledger below zero, until two sessions held the      *)
(* wallet at once.                                                         *)
THEOREM DebitsAreCovered == Spec => ChargesCovered
<1>1. RaceInv /\ SharedInv /\ [Next]_vars =>
        [ledger' < ledger /\ ~Adjusting /\ ~overlap' => ledger' >= 0]_vars
  BY ChargeStep DEF RaceInv, SharedInv
<1> QED BY RaceInvariant, SharedInvariant, <1>1, PTL DEF Spec, ChargesCovered

-----------------------------------------------------------------------------
(* Tariffs and goods, however sessions overlap.                            *)

(* The sessions that have handed out the plan of an intent and still have  *)
(* its tariff to charge.                                                   *)
Due(i) == {s \in Session : ses[s].at \in {"tariff", "settle"} /\ ses[s].on = i}

(* Every charge made, and every charge a session has before it, has a plan *)
(* of its own that was handed out.                                         *)
DueInv == \A i \in Intent : charged[i] + Cardinality(Due(i)) <= handed[i]

(* The sessions that have a charge before them are finitely many.          *)
LEMMA DueFinite ==
  ASSUME NEW i
  PROVE  IsFiniteSet(Due(i)) /\ Cardinality(Due(i)) \in Nat
<1>1. IsFiniteSet(Session) /\ Due(i) \subseteq Session
  BY BillingAssumption DEF Due
<1>2. IsFiniteSet(Due(i))
  BY <1>1, FS_Subset
<1> QED BY <1>2, FS_CardinalityType

(* A step after which fewer sessions have a charge before them, with       *)
(* nothing charged and nothing taken back, keeps the count.                *)
LEMMA FewerDue ==
  ASSUME TypeOK, TypeOK', NEW i \in Intent,
         charged[i] + Cardinality(Due(i)) <= handed[i],
         Due(i)' \subseteq Due(i), charged'[i] = charged[i], handed'[i] >= handed[i]
  PROVE  charged'[i] + Cardinality(Due(i)') <= handed'[i]
<1>1. IsFiniteSet(Due(i)) /\ Cardinality(Due(i)) \in Nat
  BY DueFinite
<1>2. Cardinality(Due(i)') \in Nat /\ Cardinality(Due(i)') <= Cardinality(Due(i))
  BY <1>1, FS_Subset, FS_CardinalityType
<1>3. charged[i] \in Nat /\ handed[i] \in Nat /\ handed'[i] \in Nat
  BY DEF TypeOK
<1> QED BY <1>1, <1>2, <1>3

(* A session joins those with a charge before them only by handing out a   *)
(* plan.                                                                   *)
LEMMA JoinsDue ==
  ASSUME TypeOK, StageShape, NEW s \in Session,
         Request(s) \/ Work(s) \/ Crash(s), ~ApplyPortal(s)
  PROVE  \/ ses'[s].at \notin {"tariff", "settle"}
         \/ ses[s].at = "tariff" /\ ses'[s].on = ses[s].on
<1> DEFINE r == ses[s]
           q == ses'[s]
           Goal == \/ q.at \notin {"tariff", "settle"}
                   \/ r.at = "tariff" /\ q.on = r.on
<1>0. /\ balance \in Int /\ r.on \in Intent \union Invoice \union {None}
      /\ "credit" \in Stage /\ "deliver" \in Stage /\ "bill" \in Stage
      /\ "settle" \in Stage /\ "finish" \in Stage
  BY DEF TypeOK, SessionState, Stage
<1>1. Returns(s) => Goal
  BY GoesOn
<1>2. AfterBilling(s) => Goal
  BY GoesOn
<1>3. ASSUME Request(s) PROVE Goal
  BY <1>3, Requested
<1>4. ASSUME Verify(s) PROVE Goal
  <2>1. CASE Enters(s, Loaded("credit", r.on, balance))
    BY <1>0, <2>1, MovesTo
  <2>2. CASE GoesTo(s, "deliver")
    BY <1>0, <2>2, GoesOn
  <2> QED BY <1>1, <1>4, <2>1, <2>2 DEF Verify, Accepted
<1>5. ASSUME ApplyTopup(s) \/ Adjust(s) PROVE Goal
  <2>1. GoesTo(s, "bill")
    BY <1>5 DEF ApplyTopup, Adjust
  <2> QED BY <1>0, <2>1, GoesOn
<1>6. ASSUME charge_reseller_tariff(s) PROVE Goal
  BY <1>0, <1>6, GoesOn DEF charge_reseller_tariff
<1>7. ASSUME LoadTariff(s) PROVE Goal
  <2>0. r.at = "tariff"
    BY <1>7 DEF LoadTariff
  <2>1. CASE Enters(s, Loaded("settle", r.on, balance))
    BY <1>0, <2>0, <2>1, MovesTo
  <2>2. CASE GoesTo(s, "finish")
    BY <1>0, <2>2, GoesOn
  <2> QED BY <1>1, <1>7, <2>1, <2>2 DEF LoadTariff
<1>8. ASSUME bill_reseller_usage(s) PROVE Goal
  <2>1. CASE Enters(s, LoadedUsage(r.on))
    <3>1. LoadedUsage(r.on) \in SessionState /\ LoadedUsage(r.on).at = "usage"
      BY <1>0, UsageFields
    <3>2. q.at = "usage"
      BY <2>1, <3>1, Moves DEF TypeOK
    <3> QED BY <3>2
  <2> QED BY <1>2, <1>8, <2>1 DEF bill_reseller_usage
<1>9. ASSUME BillUsage(s) PROVE Goal
  BY <1>2, <1>9 DEF BillUsage
<1>10. OpenCheckout(s) \/ Complete(s) \/ Submit(s) \/ Reject(s) \/ Expire(s) \/ Pay(s) \/ Package(s)
       \/ Crash(s) => Returns(s)
  BY DEF OpenCheckout, Complete, Submit, Reject, Expire, Pay, Package, Crash
<1> HIDE DEF Goal
<1>11. Goal
  BY <1>1, <1>3, <1>4, <1>5, <1>6, <1>7, <1>8, <1>9, <1>10 DEF Work
<1> QED BY <1>11 DEF Goal

(* The count is kept by every step.                                        *)
LEMMA DueStep ==
  ASSUME RaceInv, DueInv, [Next]_vars
  PROVE  DueInv'
<1>0. TypeOK /\ TypeOK' /\ StageShape /\ StageShape'
  BY TypeStep DEF RaceInv
<1> SUFFICES ASSUME NEW i \in Intent
             PROVE  charged'[i] + Cardinality(Due(i)') <= handed'[i]
  BY DEF DueInv
<1>1. /\ charged[i] + Cardinality(Due(i)) <= handed[i]
      /\ charged[i] \in Nat /\ handed[i] \in Nat
      /\ charged'[i] \in Nat /\ handed'[i] \in Nat
      /\ handed'[i] >= handed[i]
  BY <1>0, Grows DEF DueInv, TypeOK
<1>2. IsFiniteSet(Due(i)) /\ Cardinality(Due(i)) \in Nat
  BY DueFinite
<1>3. ASSUME ses' = ses, charged' = charged
      PROVE  charged'[i] + Cardinality(Due(i)') <= handed'[i]
  <2>1. Due(i)' \subseteq Due(i)
    BY <1>3 DEF Due
  <2> QED BY <1>0, <1>1, <1>3, <2>1, FewerDue
<1>4. ASSUME NEW s \in Session, Request(s) \/ Work(s) \/ Crash(s)
      PROVE  charged'[i] + Cardinality(Due(i)') <= handed'[i]
  <2>0. \A u \in Session : u # s => ses'[u] = ses[u]
    BY <1>0, <1>4, Entered, Moves DEF TypeOK
  <2>1. CASE ApplyPortal(s) /\ ses[s].on = i
    <3>1. ses[s].at = "deliver" /\ charged' = charged /\ handed'[i] = handed[i] + 1
      BY <1>0, <2>1 DEF ApplyPortal, TypeOK
    <3>2. s \notin Due(i)
      BY <3>1 DEF Due
    <3>3. Due(i)' \subseteq Due(i) \cup {s}
      BY <2>0 DEF Due
    <3>4. /\ IsFiniteSet(Due(i) \cup {s})
          /\ Cardinality(Due(i) \cup {s}) = Cardinality(Due(i)) + 1
      BY <1>2, <3>2, FS_AddElement
    <3>5. /\ Cardinality(Due(i)') <= Cardinality(Due(i) \cup {s})
          /\ IsFiniteSet(Due(i)')
      BY <3>3, <3>4, FS_Subset
    <3>6. Cardinality(Due(i)') \in Nat
      BY <3>5, FS_CardinalityType
    <3> QED BY <1>1, <1>2, <3>1, <3>4, <3>5, <3>6
  <2>2. CASE charge_reseller_tariff(s) /\ ses[s].on = i
    <3>1. ses[s].at = "settle" /\ charged'[i] = charged[i] + 1 /\ GoesTo(s, "finish")
      BY <1>0, <2>2 DEF charge_reseller_tariff, TypeOK
    <3>2. ses'[s].at = "finish"
      BY <1>0, <3>1, GoesOn DEF Stage
    <3>3. s \in Due(i)
      BY <2>2, <3>1 DEF Due
    <3>4. Due(i)' \subseteq Due(i) \ {s}
      BY <2>0, <3>2 DEF Due
    <3>5. /\ IsFiniteSet(Due(i) \ {s})
          /\ Cardinality(Due(i) \ {s}) = Cardinality(Due(i)) - 1
      BY <1>2, <3>3, FS_RemoveElement
    <3>6. /\ Cardinality(Due(i)') <= Cardinality(Due(i) \ {s})
          /\ IsFiniteSet(Due(i)')
      BY <3>4, <3>5, FS_Subset
    <3>7. Cardinality(Due(i)') \in Nat
      BY <3>6, FS_CardinalityType
    <3> QED BY <1>1, <1>2, <3>1, <3>5, <3>6, <3>7
  <2>3. CASE /\ ~(ApplyPortal(s) /\ ses[s].on = i)
             /\ ~(charge_reseller_tariff(s) /\ ses[s].on = i)
    <3>1. charged'[i] = charged[i]
      <4>1. CASE charge_reseller_tariff(s)
        BY <1>0, <2>3, <4>1 DEF charge_reseller_tariff, TypeOK
      <4>2. CASE Request(s)
        BY <1>0, <4>2, Requested DEF sale
      <4>3. CASE Work(s) /\ ~charge_reseller_tariff(s)
        BY <4>3 DEF Work, OpenCheckout, Verify, ApplyTopup, ApplyPortal, LoadTariff,
           Complete, Submit, Reject, Expire, Pay, Adjust, Package, bill_reseller_usage,
           BillUsage, sale
      <4>4. CASE Crash(s)
        BY <4>4 DEF Crash, sale
      <4> QED BY <1>4, <4>1, <4>2, <4>3, <4>4
    <3>2. s \in Due(i)' => s \in Due(i)
      <4>1. CASE ApplyPortal(s)
        <5>1. ses'[s].on = ses[s].on
          BY <1>0, <4>1, GoesOn DEF ApplyPortal, Stage
        <5> QED BY <2>3, <4>1, <5>1 DEF Due
      <4>2. CASE ~ApplyPortal(s)
        BY <1>0, <1>4, <4>2, JoinsDue DEF Due
      <4> QED BY <4>1, <4>2
    <3>3. Due(i)' \subseteq Due(i)
      BY <2>0, <3>2 DEF Due
    <3> QED BY <1>0, <1>1, <3>1, <3>3, FewerDue
  <2> QED BY <2>1, <2>2, <2>3
<1>5. CASE World
  <2>1. ses' = ses /\ charged' = charged
    BY <1>5, Outside
  <2> QED BY <1>3, <2>1
<1> QED BY <1>4, <1>5, WhoseStep

(* The first state satisfies the count.                                    *)
LEMMA DueInit == Init => DueInv
<1> SUFFICES ASSUME Init, NEW i \in Intent
             PROVE  charged[i] + Cardinality(Due(i)) <= handed[i]
  BY DEF DueInv
<1>1. Idle.at = "idle"
  BY DEF Idle, Loaded
<1>2. Due(i) = {}
  BY <1>1 DEF Init, Due
<1>3. charged[i] = 0 /\ handed[i] = 0
  BY DEF Init
<1> QED BY <1>2, <1>3, FS_EmptySet

(* The reseller is debited for a portal sale no more often than its plan   *)
(* was handed out.                                                         *)
THEOREM GoodsBeforeTariff == Spec => []TariffAfterGoods
<1>1. RaceInv /\ DueInv /\ [Next]_vars => DueInv'
  BY DueStep
<1>2. RaceInv /\ DueInv => TariffAfterGoods
  <2> SUFFICES ASSUME RaceInv, DueInv, NEW i \in Intent PROVE charged[i] <= handed[i]
    BY DEF TariffAfterGoods
  <2>1. Cardinality(Due(i)) \in Nat /\ charged[i] + Cardinality(Due(i)) <= handed[i]
    BY DueFinite DEF DueInv
  <2>2. charged[i] \in Nat /\ handed[i] \in Nat
    BY DEF RaceInv, TypeOK
  <2> QED BY <2>1, <2>2
<1> QED BY RaceInvariant, DueInit, <1>1, <1>2, PTL DEF Spec

-----------------------------------------------------------------------------
(* The settlement of a payment that one session at a time works on.        *)

(* The status of one payment as a customer counts it.                      *)
LEMMA Shown ==
  ASSUME NEW i \in Intent
  PROVE  /\ SettledStatus[i] =
              IF \E s \in Session : ses[s].on = i /\ ses[s].at \in Post
              THEN "delivered" ELSE intent[i]
         /\ SettledStatus'[i] =
              IF \E s \in Session : ses'[s].on = i /\ ses'[s].at \in Post
              THEN "delivered" ELSE intent'[i]
BY DEF SettledStatus

(* Goods are handed out, and a completion falls back, in the session that  *)
(* works on the intent.                                                    *)
LEMMA GoodsWritten ==
  ASSUME TypeOK, StageShape, NEW s \in Session,
         Request(s) \/ Work(s) \/ Crash(s), NEW i \in Intent, ses[s].on # i
  PROVE  handed'[i] = handed[i] /\ fell'[i] = fell[i]
<1>0. handed \in [Intent -> Nat] /\ fell \in [Intent -> Nat]
  BY DEF TypeOK
<1>1. CASE Request(s)
  BY <1>1, Requested DEF sale
<1>2. CASE ApplyTopup(s) \/ ApplyPortal(s)
  BY <1>0, <1>2 DEF ApplyTopup, ApplyPortal
<1>3. CASE LoadTariff(s)
  BY <1>0, <1>3 DEF LoadTariff, Falls
<1>4. CASE Crash(s)
  BY <1>0, <1>4 DEF Crash, Falls
<1>5. CASE \/ OpenCheckout(s) \/ Verify(s) \/ charge_reseller_tariff(s)
           \/ Complete(s) \/ Submit(s) \/ Reject(s) \/ Expire(s) \/ Pay(s)
           \/ Adjust(s) \/ Package(s) \/ bill_reseller_usage(s) \/ BillUsage(s)
  BY <1>5 DEF OpenCheckout, Verify, charge_reseller_tariff, Complete, Submit,
     Reject, Expire, Pay, Adjust, Package, bill_reseller_usage, BillUsage, sale
<1> QED BY <1>1, <1>2, <1>3, <1>4, <1>5 DEF Work

(* A step of a session on a payment it alone holds is one of the           *)
(* settlement's.                                                           *)
LEMMA SoleSettles ==
  ASSUME TypeOK, StageShape, StageShape', Apart, IntentInv, NEW s \in Session,
         Request(s) \/ Work(s) \/ Crash(s),
         NEW i \in Intent \ crossed', Holds(ses[s], i) \/ Holds(ses'[s], i)
  PROVE  Settlements!Step(i)
<1> DEFINE r == ses[s]
           q == ses'[s]
           was == SettledStatus[i]
           is == SettledStatus'[i]
           keeps == handed'[i] = handed[i] /\ fell'[i] = fell[i]
<1>0. \A u \in Session : u # s => ses'[u] = ses[u] /\ ~Holds(ses[u], i)
  BY Sole
<1>1. /\ was = IF r.on = i /\ r.at \in Post THEN "delivered" ELSE intent[i]
      /\ is = IF q.on = i /\ q.at \in Post THEN "delivered" ELSE intent'[i]
  <2>1. \A u \in Session : u # s => ses[u].on # i /\ ses'[u].on # i
    BY <1>0 DEF Holds
  <2> QED BY <2>1, Shown
<1>2. /\ i \in Intent /\ i # None /\ i \in Intent \ crossed
      /\ intent \in [Intent -> Status]
      /\ handed \in [Intent -> Nat] /\ fell \in [Intent -> Nat]
      /\ Shape(r) /\ Shape(q)
  <2>1. [Next]_vars
    BY DEF Next
  <2>2. i \in Intent \ crossed
    BY <2>1, ApartStep
  <2> QED BY <2>2, BillingAssumption DEF TypeOK, StageShape
<1>3. Holds(r, i) => Stands(r, i)
  BY <1>2 DEF IntentInv
<1>4. is = was /\ keeps => Settlements!Step(i)
  BY DEF Settlements!Step, Settlements!Rest, Settlements!Keeps
<1> HIDE DEF was, is
<1>5. CASE Request(s)
  <2>1. keeps /\ r.at = "idle"
    BY <1>5, Requested DEF sale
  <2>2. was = intent[i]
    BY <1>1, <2>1 DEF Post
  <2>3. is = intent'[i]
    BY <1>1, <1>2, <1>5, Requested DEF Post
  <2>4. CASE intent' = intent
    BY <1>4, <2>1, <2>2, <2>3, <2>4
  <2>5. CASE /\ q.on \in Intent /\ intent[q.on] = "none"
             /\ intent' = [intent EXCEPT ![q.on] = "pending"]
    <3>1. \/ intent[i] = "none" /\ intent'[i] = "pending"
          \/ intent'[i] = intent[i]
      BY <1>2, <2>5
    <3> QED BY <1>4, <2>1, <2>2, <2>3, <3>1 DEF was, is, Settlements!Step,
            Settlements!Checkout, Settlements!Moves, Settlements!Keeps
  <2> QED BY <1>5, <2>4, <2>5, Requested
<1>6. CASE Work(s) \/ Crash(s)
  <2>0. Holds(r, i) /\ Stands(r, i) /\ intent[i] \in Open
    BY <1>2, <1>3, <1>6, Worked DEF Holds, Stands
  <2>1. r.at # "expire" => r.on = i
    BY <1>2, <2>0 DEF Shape, Holds
  <2>2. r.at = "expire" => i \in r.batch /\ r.on # i
    BY <1>2, <2>0 DEF Shape, Holds
  <2>3. ASSUME Returns(s) PROVE is = intent'[i]
    <3>1. q.at = "idle"
      BY <2>3, GoesOn
    <3> QED BY <1>1, <3>1 DEF Post
  <2>4. ASSUME NEW st \in Post, GoesTo(s, st), r.at # "expire"
        PROVE  is = "delivered"
    <3>1. q.at = st /\ q.on = i
      BY <2>1, <2>4, GoesOn DEF Stage, Post
    <3> QED BY <1>1, <2>4, <3>1
  <2>5. ASSUME r.at \in Post PROVE was = "delivered" /\ r.on = i
    BY <1>1, <2>1, <2>5 DEF Post
  <2>6. ASSUME r.at \notin Post PROVE was = intent[i]
    BY <1>1, <2>6
  <2>7. CASE OpenCheckout(s)
    <3>1. /\ r.at = "checkout" /\ keeps /\ is = intent'[i] /\ was = intent[i]
          /\ intent[i] = "pending"
          /\ intent'[i] = intent[i] \/ intent'[i] = "failed"
      BY <1>2, <2>0, <2>1, <2>3, <2>6, <2>7
         DEF OpenCheckout, sale, Post, Stands
    <3> QED BY <1>4, <3>1 DEF was, is, Settlements!Step, Settlements!Fail,
            Settlements!Moves, Settlements!Keeps
  <2>8. CASE Verify(s)
    <3>1. r.at = "verify" /\ keeps /\ intent' = intent /\ was = intent[i]
      BY <2>6, <2>8 DEF Verify, Post
    <3>2. q.at \notin Post
      <4>1. /\ "credit" \in Stage /\ "deliver" \in Stage /\ balance \in Int
            /\ r.on \in Intent \union Invoice \union {None}
        BY DEF Stage, TypeOK, SessionState
      <4>2. CASE Returns(s)
        BY <4>2, GoesOn DEF Post
      <4>3. CASE Enters(s, Loaded("credit", r.on, balance))
        <5>1. q.at = "credit"
          BY <4>1, <4>3, MovesTo
        <5> QED BY <5>1 DEF Post
      <4>4. CASE GoesTo(s, "deliver")
        <5>1. q.at = "deliver"
          BY <4>1, <4>4, GoesOn
        <5> QED BY <5>1 DEF Post
      <4> QED BY <2>8, <4>2, <4>3, <4>4 DEF Verify, Accepted
    <3> QED BY <1>1, <1>4, <3>1, <3>2
  <2>9. CASE ApplyTopup(s) \/ ApplyPortal(s)
    <3>1. /\ r.at \in {"credit", "deliver"} /\ fell' = fell
          /\ handed' = [handed EXCEPT ![r.on] = @ + 1]
          /\ GoesTo(s, "bill") \/ GoesTo(s, "tariff")
      BY <2>9 DEF ApplyTopup, ApplyPortal
    <3>2. /\ was \in Open /\ is = "delivered"
          /\ handed'[i] = handed[i] + 1 /\ fell'[i] = fell[i]
      BY <1>2, <2>0, <2>1, <2>4, <2>6, <3>1 DEF Post
    <3> QED BY <3>2 DEF was, is, Settlements!Step, Settlements!Deliver,
            Settlements!Open, Open
  <2>10. CASE charge_reseller_tariff(s)
    <3>1. r.at = "settle" /\ GoesTo(s, "finish") /\ keeps
      BY <2>10 DEF charge_reseller_tariff
    <3> QED BY <1>4, <2>4, <2>5, <3>1 DEF Post
  <2>11. ASSUME r.at \in Post, Returns(s), intent' = intent, handed' = handed,
                fell' = [fell EXCEPT ![r.on] = @ + 1]
         PROVE  Settlements!Step(i)
    <3>1. /\ was = "delivered" /\ is \in Open
          /\ handed'[i] = handed[i] /\ fell'[i] = fell[i] + 1
      BY <1>2, <2>0, <2>3, <2>5, <2>11
    <3> QED BY <3>1 DEF was, is, Settlements!Step, Settlements!FallBack,
            Settlements!Open, Open
  <2>12. CASE LoadTariff(s)
    <3>1. r.at = "tariff" /\ intent' = intent /\ handed' = handed
      BY <2>12 DEF LoadTariff
    <3>2. CASE GoesTo(s, "finish") /\ fell' = fell
      BY <1>4, <2>4, <2>5, <3>1, <3>2 DEF Post
    <3>3. CASE Enters(s, Loaded("settle", r.on, balance)) /\ fell' = fell
      <4>1. /\ "settle" \in Stage /\ balance \in Int
            /\ r.on \in Intent \union Invoice \union {None}
        BY DEF Stage, TypeOK, SessionState
      <4>2. q.at = "settle" /\ q.on = r.on
        BY <3>3, <4>1, MovesTo
      <4> QED BY <1>1, <1>4, <2>5, <3>1, <3>3, <4>2 DEF Post
    <3>4. CASE Returns(s) /\ Falls(r.on)
      BY <2>11, <3>1, <3>4 DEF Falls, Post
    <3> QED BY <2>12, <3>2, <3>3, <3>4 DEF LoadTariff
  <2>13. CASE Complete(s)
    <3>1. /\ r.at = "finish" /\ Returns(s) /\ keeps
          /\ intent' = [intent EXCEPT ![r.on] = "completed"]
      BY <2>13 DEF Complete, sale
    <3>2. was = "delivered" /\ is = "completed"
      BY <1>2, <2>3, <2>5, <3>1 DEF Post
    <3> QED BY <3>1, <3>2 DEF was, is, Settlements!Step, Settlements!Close,
            Settlements!Moves, Settlements!Keeps
  <2>14. CASE Submit(s)
    <3>1. /\ r.at = "submit" /\ Returns(s) /\ keeps
          /\ intent' = IF r.seen = "awaiting_review" THEN intent
                       ELSE [intent EXCEPT ![r.on] = "awaiting_review"]
      BY <2>14 DEF Submit, sale
    <3>2. /\ r.on = i /\ r.seen = intent[i] /\ was = intent[i]
          /\ is = intent'[i]
      BY <2>0, <2>1, <2>3, <2>6, <3>1 DEF Stands, Post
    <3>3. \/ is = was
          \/ was = "pending" /\ is = "awaiting_review"
      BY <1>2, <2>0, <3>1, <3>2 DEF Open
    <3> QED BY <1>4, <3>1, <3>3 DEF was, is, Settlements!Step,
            Settlements!Submit, Settlements!Moves, Settlements!Keeps
  <2>15. CASE Reject(s)
    <3>1. /\ r.at = "reject" /\ Returns(s) /\ keeps
          /\ intent' = [intent EXCEPT ![r.on] = "rejected"]
      BY <2>15 DEF Reject, sale
    <3>2. was \in Open /\ is = "rejected"
      BY <1>2, <2>0, <2>1, <2>3, <2>6, <3>1 DEF Post
    <3> QED BY <3>1, <3>2 DEF was, is, Settlements!Step, Settlements!Reject,
            Settlements!Moves, Settlements!Keeps, Settlements!Open, Open
  <2>16. CASE Expire(s)
    <3>1. /\ r.at = "expire" /\ Returns(s) /\ keeps
          /\ intent' = [j \in Intent |->
                          IF j \in r.batch THEN "expired" ELSE intent[j]]
      BY <2>16 DEF Expire, sale
    <3>2. was = "pending" /\ is = "expired"
      BY <1>2, <2>0, <2>2, <2>3, <2>6, <3>1 DEF Stands, Post
    <3> QED BY <3>1, <3>2 DEF was, is, Settlements!Step, Settlements!Expire,
            Settlements!Moves, Settlements!Keeps
  <2>17. CASE Pay(s) \/ Adjust(s) \/ Package(s)
    <3>1. r.at \in {"pay", "adjust", "package"}
      BY <2>17 DEF Pay, Adjust, Package
    <3> QED BY <1>2, <2>1, <3>1, BillingAssumption DEF Shape
  <2>18. CASE bill_reseller_usage(s) \/ BillUsage(s)
    <3>1. r.at \in {"bill", "usage"} /\ keeps /\ intent' = intent
      BY <2>18 DEF bill_reseller_usage, BillUsage, sale
    <3>2. CASE AfterBilling(s)
      <4>1. GoesTo(s, "finish")
        BY <1>2, <2>1, <3>1, <3>2 DEF AfterBilling
      <4> QED BY <1>4, <2>4, <2>5, <3>1, <4>1 DEF Post
    <3>3. CASE Enters(s, LoadedUsage(r.on))
      <4> DEFINE l == LoadedUsage(r.on)
      <4>1. l \in SessionState /\ l.at = "usage" /\ l.on = r.on
        BY UsageFields DEF TypeOK, SessionState
      <4>2. Enters(s, l)
        BY <3>3
      <4> HIDE DEF l
      <4>3. q = l
        BY <4>1, <4>2, Moves DEF TypeOK
      <4> QED BY <1>1, <1>4, <2>5, <3>1, <4>1, <4>3 DEF Post
    <3> QED BY <2>18, <3>2, <3>3 DEF bill_reseller_usage, BillUsage
  <2>19. CASE Crash(s)
    <3>1. Returns(s) /\ intent' = intent /\ handed' = handed
      BY <2>19 DEF Crash
    <3>2. CASE r.on \in Intent /\ r.at \in Post
      BY <2>11, <2>19, <3>1, <3>2 DEF Crash, Falls
    <3>3. CASE ~(r.on \in Intent /\ r.at \in Post)
      <4>1. fell' = fell
        BY <2>19, <3>3 DEF Crash
      <4>2. r.at \notin Post
        BY <1>2, <2>5, <3>3
      <4> QED BY <1>4, <2>3, <2>6, <3>1, <4>1, <4>2
    <3> QED BY <3>2, <3>3
  <2> HIDE DEF keeps
  <2> QED BY <1>6, <2>7, <2>8, <2>9, <2>10, <2>12, <2>13, <2>14, <2>15, <2>16,
          <2>17, <2>18, <2>19 DEF Work
<1> QED BY <1>5, <1>6

(* Every step is one of the settlement's for every payment that was not    *)
(* shared.                                                                 *)
LEMMA SettleStep ==
  ASSUME RaceInv, SharedInv, [Next]_vars
  PROVE  Settlements!Next
<1>0. /\ TypeOK /\ StageShape /\ StageShape' /\ Apart /\ IntentInv
      /\ crossed \subseteq crossed'
  BY TypeStep, ApartStep DEF RaceInv, SharedInv
<1>1. ASSUME NEW i \in Intent, UNCHANGED <<SettledStatus[i], handed[i], fell[i]>>
      PROVE  Settlements!Step(i)
  BY <1>1 DEF Settlements!Step, Settlements!Rest, Settlements!Keeps
<1>2. ASSUME NEW i \in Intent \ crossed' PROVE Settlements!Step(i)
  <2>1. ASSUME NEW s \in Session, Request(s) \/ Work(s) \/ Crash(s)
        PROVE  Settlements!Step(i)
    <3>1. CASE Holds(ses[s], i) \/ Holds(ses'[s], i)
      BY <1>0, <1>2, <2>1, <3>1, SoleSettles
    <3>2. CASE ~Holds(ses[s], i) /\ ~Holds(ses'[s], i)
      <4>1. ses[s].on # i /\ ses'[s].on # i
        BY <3>2 DEF Holds
      <4>2. \A u \in Session : u # s => ses'[u] = ses[u]
        BY <1>0, <2>1, Entered, Moves DEF TypeOK
      <4>3. handed'[i] = handed[i] /\ fell'[i] = fell[i]
        BY <1>0, <2>1, <4>1, GoodsWritten
      <4>4. intent'[i] = intent[i]
        BY <1>0, <2>1, <3>2, Written
      <4>5. SettledStatus'[i] = SettledStatus[i]
        BY <4>1, <4>2, <4>4, Shown
      <4> QED BY <1>1, <4>3, <4>5
    <3> QED BY <3>1, <3>2
  <2>2. ASSUME World PROVE Settlements!Step(i)
    <3>1. UNCHANGED <<ses, intent, handed, fell>>
      BY <2>2, Outside
    <3>2. SettledStatus'[i] = SettledStatus[i]
      BY <3>1, Shown
    <3> QED BY <1>1, <3>1, <3>2
  <2> QED BY <2>1, <2>2, WhoseStep
<1> QED BY <1>0, <1>2 DEF Settlements!Next

(* Payments start as the settlement's do.                                  *)
LEMMA SettleInit == Init => Settlements!Init
<1> SUFFICES ASSUME Init PROVE Settlements!Init
  OBVIOUS
<1>0. Idle.at = "idle"
  BY LoadedFields DEF Idle, Stage
<1>1. \A s \in Session : ses[s].at = "idle"
  BY <1>0 DEF Init
<1>2. SettledStatus = [i \in Intent |-> "none"]
  BY <1>1 DEF Init, SettledStatus, Post
<1> QED BY <1>2 DEF Init, Settlements!Init

(* The handlers, with their several commits, crashes and refusals,         *)
(* implement the settlement, for any number of sessions and prices.        *)
THEOREM SettlementRefined == Spec => ImplementsSettlement
<1>1. RaceInv /\ SharedInv /\ [Next]_vars =>
        [Settlements!Next]_(Settlements!vars)
  BY SettleStep
<1> QED BY RaceInvariant, SharedInvariant, SettleInit, <1>1, PTL
        DEF Spec, ImplementsSettlement, Settlements!Spec
=============================================================================
