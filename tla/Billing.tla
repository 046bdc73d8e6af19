------------------------------- MODULE Billing -------------------------------
(***************************************************************************)
(* One reseller's money: the wallet and its ledger (app/billing), payment  *)
(* intents from checkout to completion (app/billing/payments.py), invoices *)
(* paid from the wallet, prepaid traffic packages and the pay-as-you-go    *)
(* usage charge (app/billing/usage_billing.py).                            *)
(*                                                                         *)
(* Every request and job runs in a database session of its own.  No        *)
(* session locks what it reads: it loads rows, decides, and writes values  *)
(* computed from what it loaded when it commits.  An action of a session   *)
(* here is what happens between two points where another session can       *)
(* intervene: the load with its checks, a network call, or one commit.     *)
(* Isolation is READ COMMITTED, what PostgreSQL gives this code.           *)
(*                                                                         *)
(* The reseller is top level (no parent earns a commission on its debits)  *)
(* and owns no node, so all its traffic is billed at one rate.             *)
(***************************************************************************)
EXTENDS Integers, FiniteSets

CONSTANTS
  Intent,         \* payment intents (rows of payment_intents)
  Topup,          \* those of kind "topup"; the others buy or renew a plan
  Card,           \* those paid card-to-card; the others through a gateway
  Invoice,        \* invoices of the reseller
  Session,        \* request handlers and jobs that run at the same time
  Amount,         \* money a top-up brings
  Price,          \* wholesale tariff a portal sale costs; 0: no tariff
  InvoiceAmount,  \* what an invoice asks for
  PackagePrice,   \* price of the prepaid traffic package
  PackageBytes,   \* traffic it grants
  Rate,           \* pay-as-you-go price per Unit bytes; 0: not billed
  Unit,           \* bytes per Rate (1 GB in the code)
  Deltas,         \* amounts an operator credits or debits by hand
  SetTo,          \* balances an operator sets by hand
  None,           \* no intent or invoice
  InitBalance,    \* balance of the wallet at the start, one credit
  MaxManual,      \* bound: adjustments and packages
  MaxApply,       \* bound: times one intent's goods are handed out
  MaxMeter,       \* bound: bytes metered
  MaxCrash        \* bound: sessions that die half-way

ASSUME BillingAssumption ==
  /\ None \notin Intent \union Invoice /\ Intent \intersect Invoice = {}
  /\ IsFiniteSet(Session)
  /\ Topup \subseteq Intent /\ Card \subseteq Intent
  /\ Amount \in Nat \ {0} /\ Price \in Nat /\ InvoiceAmount \in Nat \ {0}
  /\ PackagePrice \in Nat /\ PackageBytes \in Nat \ {0}
  /\ Rate \in Nat /\ Unit \in Nat \ {0}
  /\ Deltas \subseteq Int \ {0} /\ SetTo \subseteq Nat
  /\ InitBalance \in Nat
  /\ {MaxManual, MaxApply, MaxMeter, MaxCrash} \subseteq Nat

Portal == Intent \ Topup

(* PaymentIntent.status; "none" is a row that does not exist yet.          *)
Status == {"none", "pending", "awaiting_review", "completed", "rejected",
           "expired", "failed"}

(* The statuses complete, approve and reject accept.                       *)
Open == {"pending", "awaiting_review"}

Final == {"completed", "rejected", "expired", "failed"}

VARIABLES
  intent,     \* status of each payment intent
  overdue,    \* portal intents past their TTL
  paid,       \* gateway intents whose customer has paid
  gateway,    \* the online gateway is registered (providers._PROVIDERS)
  unasked,    \* gateway intents accepted without asking the gateway
  handed,     \* times an intent was credited (top-up) or its plan applied
  charged,    \* times an intent's tariff was debited from the wallet
  fell,       \* times a completion ended after the goods, still open
  invoice,    \* status of each invoice
  debits,     \* ledger entries that refer to each invoice
  balance,    \* wallets.balance
  ledger,     \* sum of the amounts of the wallet's transactions
  prepaid,    \* admins.prepaid_traffic_remaining
  used,       \* admins.users_usage
  mark,       \* usage_billing_checkpoints.last_billed_users_usage
  metered,    \* all the bytes ever metered
  billed,     \* all the bytes charged for or taken from a package
  manual,     \* adjustments and packages so far
  ses,        \* each session: where it is and what it has loaded
  overlap,    \* two sessions have held the loaded wallet at the same time
  crossed,    \* intents that two sessions have held at the same time
  crashes     \* sessions that died so far

money == <<balance, ledger>>
usage == <<prepaid, used, mark, metered, billed>>
sale  == <<overdue, paid, gateway, unasked, handed, charged, fell>>
bills == <<invoice, debits>>
work  == <<ses, overlap, crossed>>
vars  == <<intent, sale, bills, money, usage, manual, work, crashes>>

Stage == {"idle", "checkout", "verify", "credit", "deliver", "tariff",
          "settle", "bill", "usage", "finish", "submit", "reject", "expire",
          "pay", "adjust", "package"}

(* Stages that end in a commit computed from a loaded wallet balance.      *)
AtWallet == {"credit", "settle", "pay", "adjust", "package", "usage"}

(* Stages of a completion whose goods are already committed.               *)
Post == {"bill", "usage", "tariff", "settle", "finish"}

(* A session holds what its handler loaded: the intent or invoice it works *)
(* on and the status seen, the intents an expiry run selected, the wallet  *)
(* balance, an amount, and usage, watermark and prepaid traffic.           *)
Loaded(stage, o, b) ==
  [at |-> stage, on |-> o, seen |-> "none", batch |-> {}, bal |-> b,
   amt |-> 0, cur |-> 0, last |-> 0, pre |-> 0]

LoadedUsage(o) ==
  [at |-> "usage", on |-> o, seen |-> "none", batch |-> {}, bal |-> balance,
   amt |-> 0, cur |-> used, last |-> mark, pre |-> prepaid]

Idle == Loaded("idle", None, 0)

SessionState ==
  [at : Stage, on : Intent \union Invoice \union {None}, seen : Status,
   batch : SUBSET Intent, bal : Int, amt : Int, cur : Nat, last : Nat,
   pre : Nat]

TypeOK ==
  /\ intent \in [Intent -> Status]
  /\ overdue \subseteq Intent /\ paid \subseteq Intent
  /\ unasked \subseteq Intent /\ gateway \in BOOLEAN
  /\ handed \in [Intent -> Nat] /\ charged \in [Intent -> Nat]
  /\ fell \in [Intent -> Nat]
  /\ invoice \in [Invoice -> {"none", "pending", "paid"}]
  /\ debits \in [Invoice -> Nat]
  /\ balance \in Int /\ ledger \in Int
  /\ prepaid \in Nat /\ used \in Nat /\ mark \in Nat
  /\ metered \in Nat /\ billed \in Nat
  /\ manual \in Nat /\ crashes \in Nat
  /\ ses \in [Session -> SessionState]
  /\ overlap \in BOOLEAN /\ crossed \subseteq Intent

Init ==
  /\ intent = [i \in Intent |-> "none"]
  /\ overdue = {} /\ paid = {} /\ gateway = TRUE /\ unasked = {}
  /\ handed = [i \in Intent |-> 0] /\ charged = [i \in Intent |-> 0]
  /\ fell = [i \in Intent |-> 0]
  /\ invoice = [k \in Invoice |-> "none"] /\ debits = [k \in Invoice |-> 0]
  /\ balance = InitBalance /\ ledger = InitBalance
  /\ prepaid = 0 /\ used = 0 /\ mark = 0 /\ metered = 0 /\ billed = 0
  /\ manual = 0 /\ crashes = 0
  /\ ses = [s \in Session |-> Idle] /\ overlap = FALSE /\ crossed = {}

-----------------------------------------------------------------------------
(* What sessions share.                                                    *)

(* A session has loaded the row of intent i.                               *)
Holds(r, i) == r.on = i \/ i \in r.batch

(* What a session loaded is its own from here on.  Overlap and crossed     *)
(* record that another session still holds the wallet or an intent.        *)
Enters(s, r) ==
  /\ ses' = [ses EXCEPT ![s] = r]
  /\ overlap' = (\/ overlap
                 \/ /\ r.at \in AtWallet
                    /\ \E x \in Session \ {s} : ses[x].at \in AtWallet)
  /\ crossed' = crossed \union
       {i \in Intent : Holds(r, i) /\ \E x \in Session \ {s} : Holds(ses[x], i)}

GoesTo(s, stage) == Enters(s, Loaded(stage, ses[s].on, 0))
Returns(s) == Enters(s, Idle)

(* Mutant: a debit is recorded and the balance left alone.                 *)
add_transaction_CreditsOnly(bal, amount) ==
  /\ ledger' = ledger + amount
  /\ balance' = IF amount > 0 THEN bal + amount ELSE bal

(* add_transaction commits the ledger row together with the balance that   *)
(* was loaded plus the amount: `wallet.balance += amount` is evaluated in  *)
(* the process, so the UPDATE writes a value, not an increment.            *)
add_transaction(bal, amount) ==
  /\ ledger' = ledger + amount
  /\ balance' = bal + amount

-----------------------------------------------------------------------------
(* Checkout, and the world outside: the customer pays, the TTL passes.     *)

(* A checkout needs its provider registered, and a portal one is refused   *)
(* unless the wallet covers the tariff now.  The row is committed first.   *)
create_payment(s, i) ==
  /\ ses[s].at = "idle"
  /\ intent[i] = "none"
  /\ i \in Card \/ gateway
  /\ i \in Portal /\ Price > 0 => balance >= Price
  /\ intent' = [intent EXCEPT ![i] = "pending"]
  /\ Enters(s, Loaded("checkout", i, 0))
  /\ UNCHANGED <<sale, bills, money, usage, manual, crashes>>

(* The provider opens the payment, or fails and the row is marked failed,  *)
(* whatever has become of it since.                                        *)
OpenCheckout(s) ==
  /\ ses[s].at = "checkout"
  /\ \/ intent' = intent
     \/ intent' = [intent EXCEPT ![ses[s].on] = "failed"]
  /\ Returns(s)
  /\ UNCHANGED <<sale, bills, money, usage, manual, crashes>>

(* A settings save builds the set of providers anew; the gateway's switch  *)
(* or key may have changed.                                                *)
reload_providers ==
  /\ gateway' = ~gateway
  /\ UNCHANGED <<intent, overdue, paid, unasked, handed, charged, fell, bills,
                 money, usage, manual, work, crashes>>

CustomerPays(i) ==
  /\ i \notin Card /\ i \notin paid
  /\ intent[i] \notin {"none", "failed"}
  /\ \A s \in Session : ~(ses[s].at = "checkout" /\ ses[s].on = i)
  /\ paid' = paid \union {i}
  /\ UNCHANGED <<intent, overdue, gateway, unasked, handed, charged, fell,
                 bills, money, usage, manual, work, crashes>>

TtlPasses(i) ==
  /\ i \in Portal \ overdue /\ intent[i] # "none"
  /\ overdue' = overdue \union {i}
  /\ UNCHANGED <<intent, paid, gateway, unasked, handed, charged, fell, bills,
                 money, usage, manual, work, crashes>>

-----------------------------------------------------------------------------
(* complete_payment, from a gateway's callback or a reviewer's approval.   *)

(* The intent is loaded; a completed one returns at once, another closed   *)
(* one is refused with a 409.                                              *)
complete_payment(s, i) ==
  /\ ses[s].at = "idle"
  /\ intent[i] \in Open
  /\ handed[i] < MaxApply
  /\ Enters(s, Loaded("verify", i, 0))
  /\ UNCHANGED <<intent, sale, bills, money, usage, manual, crashes>>

(* What a completion does once the payment is believed.                    *)
Accepted(s) ==
  IF ses[s].on \in Topup
  THEN Enters(s, Loaded("credit", ses[s].on, balance))
  ELSE GoesTo(s, "deliver")

(* Mutant: the charge comes first and the goods are forgotten.             *)
Verify_ChargesFirst(s) ==
  LET i == ses[s].on IN
  /\ ses[s].at = "verify"
  /\ \/ /\ i \in Card \union paid
        /\ IF i \in Topup
           THEN Enters(s, Loaded("credit", i, balance))
           ELSE GoesTo(s, "tariff")
     \/ i \notin Card /\ Returns(s)
  /\ UNCHANGED <<intent, sale, bills, money, usage, manual, crashes>>

(* Mutant: the provider's refusal is ignored.                              *)
Verify_TakesAnyAnswer(s) ==
  /\ ses[s].at = "verify"
  /\ Accepted(s)
  /\ UNCHANGED <<intent, sale, bills, money, usage, manual, crashes>>

(* The provider's answer.  An approval carries the reviewer's word.  A     *)
(* registered gateway is asked over the network and may say no, or not     *)
(* answer; for one that is not registered get_provider falls back to the   *)
(* manual provider, which accepts everything.                              *)
Verify(s) ==
  LET i == ses[s].on IN
  /\ ses[s].at = "verify"
  /\ \/ /\ i \in Card \/ (gateway /\ i \in paid)
        /\ Accepted(s) /\ UNCHANGED unasked
     \/ i \notin Card /\ gateway /\ Returns(s) /\ UNCHANGED unasked
     \/ /\ i \notin Card /\ ~gateway
        /\ Accepted(s) /\ unasked' = unasked \union {i}
  /\ UNCHANGED <<intent, overdue, paid, gateway, handed, charged, fell, bills,
                 money, usage, manual, crashes>>

(* _apply_topup: the credit is committed before the intent is completed.   *)
ApplyTopup(s) ==
  LET i == ses[s].on IN
  /\ ses[s].at = "credit"
  /\ add_transaction(ses[s].bal, Amount)
  /\ handed' = [handed EXCEPT ![i] = @ + 1]
  /\ GoesTo(s, "bill")
  /\ UNCHANGED <<intent, overdue, paid, gateway, unasked, charged, fell, bills,
                 usage, manual, crashes>>

(* Mutant: the request ends with the order.                                *)
ApplyPortal_NoCompletion(s) ==
  LET i == ses[s].on IN
  /\ ses[s].at = "deliver"
  /\ handed' = [handed EXCEPT ![i] = @ + 1]
  /\ Returns(s)
  /\ UNCHANGED <<intent, overdue, paid, gateway, unasked, charged, fell, bills,
                 money, usage, manual, crashes>>

(* _apply_portal_renew and _apply_portal_purchase: the order, the plan or  *)
(* the new account and the applied mark are committed first.               *)
ApplyPortal(s) ==
  LET i == ses[s].on IN
  /\ ses[s].at = "deliver"
  /\ handed' = [handed EXCEPT ![i] = @ + 1]
  /\ GoesTo(s, "tariff")
  /\ UNCHANGED <<intent, overdue, paid, gateway, unasked, charged, fell, bills,
                 money, usage, manual, crashes>>

(* Mutant: an uncovered charge is skipped and the payment completed.       *)
LoadTariff_SkipsUncovered(s) ==
  /\ ses[s].at = "tariff"
  /\ IF Price > 0 /\ balance >= Price
     THEN Enters(s, Loaded("settle", ses[s].on, balance))
     ELSE GoesTo(s, "finish")
  /\ UNCHANGED <<intent, sale, bills, money, usage, manual, crashes>>

(* The goods are out and the completion ends: the intent stays open.       *)
Falls(i) == fell' = [fell EXCEPT ![i] = @ + 1]

(* charge_portal_plan_tariff: only now is the wallet looked at.  Too       *)
(* little raises, and the request ends with the intent as it was.          *)
LoadTariff(s) ==
  /\ ses[s].at = "tariff"
  /\ \/ Price = 0 /\ GoesTo(s, "finish") /\ UNCHANGED fell
     \/ /\ Price > 0 /\ balance >= Price
        /\ Enters(s, Loaded("settle", ses[s].on, balance))
        /\ UNCHANGED fell
     \/ Price > 0 /\ balance < Price /\ Returns(s) /\ Falls(ses[s].on)
  /\ UNCHANGED <<intent, overdue, paid, gateway, unasked, handed, charged,
                 bills, money, usage, manual, crashes>>

charge_reseller_tariff(s) ==
  LET i == ses[s].on IN
  /\ ses[s].at = "settle"
  /\ add_transaction(ses[s].bal, -Price)
  /\ charged' = [charged EXCEPT ![i] = @ + 1]
  /\ GoesTo(s, "finish")
  /\ UNCHANGED <<intent, overdue, paid, gateway, unasked, handed, fell, bills,
                 usage, manual, crashes>>

(* The last commit.  The row was expired by the commits before it, so the  *)
(* UPDATE is issued whatever its status has become.                        *)
Complete(s) ==
  /\ ses[s].at = "finish"
  /\ intent' = [intent EXCEPT ![ses[s].on] = "completed"]
  /\ Returns(s)
  /\ UNCHANGED <<sale, bills, money, usage, manual, crashes>>

-----------------------------------------------------------------------------
(* Receipts, rejection and expiry.                                         *)

(* A portal customer may submit while the checkout is pending and in time; *)
(* a reseller may submit a top-up's receipt again while it is reviewed.    *)
submit_card_payment(s, i) ==
  /\ ses[s].at = "idle"
  /\ i \in Card
  /\ \/ i \in Topup /\ intent[i] \in Open
     \/ i \in Portal /\ intent[i] = "pending" /\ i \notin overdue
  /\ Enters(s, [Loaded("submit", i, 0) EXCEPT !.seen = intent[i]])
  /\ UNCHANGED <<intent, sale, bills, money, usage, manual, crashes>>

(* The ORM writes a column only when its value differs from the loaded one. *)
Submit(s) ==
  LET i == ses[s].on IN
  /\ ses[s].at = "submit"
  /\ intent' = IF ses[s].seen = "awaiting_review" THEN intent
               ELSE [intent EXCEPT ![i] = "awaiting_review"]
  /\ Returns(s)
  /\ UNCHANGED <<sale, bills, money, usage, manual, crashes>>

(* Mutant: the status is not looked at.                                    *)
reject_AnyStatus(s, i) ==
  /\ ses[s].at = "idle"
  /\ intent[i] # "none"
  /\ Enters(s, Loaded("reject", i, 0))
  /\ UNCHANGED <<intent, sale, bills, money, usage, manual, crashes>>

reject_portal_payment(s, i) ==
  /\ ses[s].at = "idle"
  /\ intent[i] \in Open
  /\ Enters(s, Loaded("reject", i, 0))
  /\ UNCHANGED <<intent, sale, bills, money, usage, manual, crashes>>

Reject(s) ==
  /\ ses[s].at = "reject"
  /\ intent' = [intent EXCEPT ![ses[s].on] = "rejected"]
  /\ Returns(s)
  /\ UNCHANGED <<sale, bills, money, usage, manual, crashes>>

(* The five-minute job and the portal's own pages run the same sweep: all  *)
(* overdue pending portal intents are loaded, then expired in one commit.  *)
expire_stale_portal_payments(s) ==
  LET stale == {i \in Portal \intersect overdue : intent[i] = "pending"} IN
  /\ ses[s].at = "idle"
  /\ stale # {}
  /\ Enters(s, [Loaded("expire", None, 0) EXCEPT !.batch = stale])
  /\ UNCHANGED <<intent, sale, bills, money, usage, manual, crashes>>

Expire(s) ==
  /\ ses[s].at = "expire"
  /\ intent' = [i \in Intent |->
                  IF i \in ses[s].batch THEN "expired" ELSE intent[i]]
  /\ Returns(s)
  /\ UNCHANGED <<sale, bills, money, usage, manual, crashes>>

-----------------------------------------------------------------------------
(* Invoices, the operator's adjustments and prepaid packages.              *)

create_invoice(k) ==
  /\ invoice[k] = "none"
  /\ invoice' = [invoice EXCEPT ![k] = "pending"]
  /\ UNCHANGED <<intent, sale, debits, money, usage, manual, work, crashes>>

(* Mutant: the balance is not looked at.                                   *)
pay_invoice_Unchecked(s, k) ==
  /\ ses[s].at = "idle"
  /\ invoice[k] = "pending"
  /\ Enters(s, Loaded("pay", k, balance))
  /\ UNCHANGED <<intent, sale, bills, money, usage, manual, crashes>>

(* Mutant: the paid mark is committed before the debit.                    *)
pay_invoice_MarksFirst(s, k) ==
  /\ ses[s].at = "idle"
  /\ invoice[k] = "pending"
  /\ balance >= InvoiceAmount
  /\ invoice' = [invoice EXCEPT ![k] = "paid"]
  /\ Enters(s, Loaded("pay", k, balance))
  /\ UNCHANGED <<intent, sale, debits, money, usage, manual, crashes>>

pay_invoice(s, k) ==
  /\ ses[s].at = "idle"
  /\ invoice[k] = "pending"
  /\ balance >= InvoiceAmount
  /\ Enters(s, Loaded("pay", k, balance))
  /\ UNCHANGED <<intent, sale, bills, money, usage, manual, crashes>>

(* The paid mark and the debit are one commit.                             *)
Pay(s) ==
  LET k == ses[s].on IN
  /\ ses[s].at = "pay"
  /\ invoice' = [invoice EXCEPT ![k] = "paid"]
  /\ debits' = [debits EXCEPT ![k] = @ + 1]
  /\ add_transaction(ses[s].bal, -InvoiceAmount)
  /\ Returns(s)
  /\ UNCHANGED <<intent, sale, usage, manual, crashes>>

(* add_credit and adjust_wallet: an amount, or the difference that brings  *)
(* the loaded balance to the value asked for.                              *)
adjust_wallet(s) ==
  /\ ses[s].at = "idle"
  /\ manual < MaxManual
  /\ manual' = manual + 1
  /\ \E delta \in Deltas \union ({v - balance : v \in SetTo} \ {0}) :
       Enters(s, [Loaded("adjust", None, balance) EXCEPT !.amt = delta])
  /\ UNCHANGED <<intent, sale, bills, money, usage, crashes>>

Adjust(s) ==
  /\ ses[s].at = "adjust"
  /\ add_transaction(ses[s].bal, ses[s].amt)
  /\ GoesTo(s, "bill")
  /\ UNCHANGED <<intent, sale, bills, usage, manual, crashes>>

(* The rows are selected FOR UPDATE, but the wallet and the admin are      *)
(* already in the session and keep the values first loaded.                *)
purchase_package(s) ==
  /\ ses[s].at = "idle"
  /\ manual < MaxManual
  /\ manual' = manual + 1
  /\ balance >= PackagePrice
  /\ Enters(s, [Loaded("package", None, balance) EXCEPT !.pre = prepaid])
  /\ UNCHANGED <<intent, sale, bills, money, usage, crashes>>

Package(s) ==
  /\ ses[s].at = "package"
  /\ IF PackagePrice > 0 THEN add_transaction(ses[s].bal, -PackagePrice)
     ELSE UNCHANGED money
  /\ prepaid' = ses[s].pre + PackageBytes
  /\ Returns(s)
  /\ UNCHANGED <<intent, sale, bills, used, mark, metered, billed, manual,
                 crashes>>

-----------------------------------------------------------------------------
(* Pay-as-you-go.                                                          *)

(* record_usages adds to the admin's counter inside the database.          *)
Meter ==
  /\ metered < MaxMeter
  /\ metered' = metered + 1
  /\ used' = used + 1
  /\ UNCHANGED <<intent, sale, bills, money, prepaid, mark, billed, manual,
                 work, crashes>>

reset_admin_usage ==
  /\ used # 0
  /\ used' = 0
  /\ UNCHANGED <<intent, sale, bills, money, prepaid, mark, metered, billed,
                 manual, work, crashes>>

run_usage_billing(s) ==
  /\ ses[s].at = "idle"
  /\ Enters(s, Loaded("bill", None, 0))
  /\ UNCHANGED <<intent, sale, bills, money, usage, manual, crashes>>

Smaller(a, b) == IF a < b THEN a ELSE b

(* unbilled_usage_split: a counter below the watermark was reset, and      *)
(* nothing of the drop is charged.                                         *)
Unbilled(cur, last) == cur - Smaller(cur, last)

(* apply_prepaid_cover and compute_charge.                                 *)
Covered(r) == Smaller(Unbilled(r.cur, r.last), r.pre)
Cost(r) == ((Unbilled(r.cur, r.last) - Covered(r)) * Rate) \div Unit

(* Where a session goes on after bill_reseller_usage: a top-up still has   *)
(* its intent to complete.                                                 *)
AfterBilling(s) ==
  IF ses[s].on = None THEN Returns(s) ELSE GoesTo(s, "finish")

(* The usage counter, the watermark, the package and the wallet as they    *)
(* are now.                                                                *)
bill_reseller_usage(s) ==
  /\ ses[s].at = "bill"
  /\ IF Rate = 0 THEN AfterBilling(s)
     ELSE Enters(s, LoadedUsage(ses[s].on))
  /\ UNCHANGED <<intent, sale, bills, money, usage, manual, crashes>>

(* Mutant: the package pays for all of the traffic, past its end.          *)
BillUsage_Overdrawn(s) ==
  LET r == ses[s] IN
  /\ r.at = "usage"
  /\ IF r.pre > 0
     THEN /\ mark' = r.cur
          /\ billed' = billed + Unbilled(r.cur, r.last)
          /\ prepaid' = r.pre - Unbilled(r.cur, r.last)
     ELSE UNCHANGED <<mark, billed, prepaid>>
  /\ AfterBilling(s)
  /\ UNCHANGED <<intent, sale, bills, money, used, metered, manual, crashes>>

(* Mutant: the charge is posted and the watermark forgotten.               *)
BillUsage_NoWatermark(s) ==
  LET r == ses[s] IN
  /\ r.at = "usage"
  /\ IF Cost(r) > 0 /\ r.bal >= Cost(r)
     THEN /\ add_transaction(r.bal, -Cost(r))
          /\ billed' = billed + Unbilled(r.cur, r.last)
     ELSE UNCHANGED <<money, billed>>
  /\ AfterBilling(s)
  /\ UNCHANGED <<intent, sale, bills, prepaid, mark, used, metered, manual,
                 crashes>>

(* Its commit.  Nothing to charge: the watermark moves if there was        *)
(* nothing at all or a package covered some; a leftover below the smallest *)
(* charge waits.  Too little money: held.  Otherwise watermark, package    *)
(* and debit are written together.  A watermark equal to the loaded one is *)
(* not written.                                                            *)
BillUsage(s) ==
  LET r == ses[s]
      settles == \/ /\ Cost(r) = 0
                    /\ Covered(r) > 0 \/ Unbilled(r.cur, r.last) = 0
                 \/ Cost(r) > 0 /\ r.bal >= Cost(r)
  IN
  /\ r.at = "usage"
  /\ IF settles
     THEN /\ mark' = IF r.cur = r.last THEN mark ELSE r.cur
          /\ billed' = billed + Unbilled(r.cur, r.last)
          /\ prepaid' = IF Covered(r) > 0 THEN r.pre - Covered(r) ELSE prepaid
     ELSE UNCHANGED <<mark, billed, prepaid>>
  /\ IF settles /\ Cost(r) > 0
     THEN add_transaction(r.bal, -Cost(r))
     ELSE UNCHANGED money
  /\ AfterBilling(s)
  /\ UNCHANGED <<intent, sale, bills, used, metered, manual, crashes>>

-----------------------------------------------------------------------------
(* A process dies between two commits of a session.                        *)
Crash(s) ==
  /\ ses[s].at # "idle"
  /\ crashes < MaxCrash
  /\ crashes' = crashes + 1
  /\ Returns(s)
  /\ IF ses[s].on \in Intent /\ ses[s].at \in Post
     THEN Falls(ses[s].on) ELSE UNCHANGED fell
  /\ UNCHANGED <<intent, overdue, paid, gateway, unasked, handed, charged,
                 bills, money, usage, manual>>

Request(s) ==
  \/ \E i \in Intent : \/ create_payment(s, i)
                       \/ complete_payment(s, i)
                       \/ submit_card_payment(s, i)
                       \/ reject_portal_payment(s, i)
  \/ \E k \in Invoice : pay_invoice(s, k)
  \/ expire_stale_portal_payments(s)
  \/ adjust_wallet(s)
  \/ purchase_package(s)
  \/ run_usage_billing(s)

Work(s) ==
  \/ OpenCheckout(s) \/ Verify(s) \/ ApplyTopup(s) \/ ApplyPortal(s)
  \/ LoadTariff(s) \/ charge_reseller_tariff(s) \/ Complete(s)
  \/ Submit(s) \/ Reject(s) \/ Expire(s)
  \/ Pay(s) \/ Adjust(s) \/ Package(s)
  \/ bill_reseller_usage(s) \/ BillUsage(s)

Next ==
  \/ \E i \in Intent : CustomerPays(i) \/ TtlPasses(i)
  \/ reload_providers
  \/ \E k \in Invoice : create_invoice(k)
  \/ \E s \in Session : Request(s) \/ Work(s) \/ Crash(s)
  \/ Meter
  \/ reset_admin_usage

Spec == Init /\ [][Next]_vars

-----------------------------------------------------------------------------
(* However requests overlap and wherever they die.                         *)

(* A payment is shown as completed only after its goods were handed out,   *)
(* and a portal sale only after its tariff was debited: complete_payment   *)
(* writes the status last.                                                 *)
CompletedWasHanded ==
  \A i \in Intent : intent[i] = "completed" =>
    /\ handed[i] > 0
    /\ i \in Portal /\ Price > 0 => charged[i] > 0

(* An invoice is paid exactly when the ledger holds its debit, because     *)
(* pay_invoice leaves both to the commit of add_transaction.               *)
PaidInvoiceDebited ==
  \A k \in Invoice : invoice[k] = "paid" <=> debits[k] > 0

(* The reseller is never debited more often for a portal sale than its     *)
(* customer received the plan: the tariff is charged after the order.      *)
TariffAfterGoods == \A i \in Intent : charged[i] <= handed[i]

(* A gateway payment hands nothing out before the customer has paid: the   *)
(* provider is asked between the status check and the order.  The one      *)
(* exception is a completion that arrives while its gateway is switched    *)
(* off in the settings (providers.py:641-642): nobody is asked then.       *)
HandedWasPaid ==
  \A i \in Intent : handed[i] > 0 => i \in Card \union paid \union unasked

-----------------------------------------------------------------------------
(* Until two sessions hold the wallet loaded at the same time.  Sessions   *)
(* overlap at every other point, and die anywhere.                         *)

(* "A wallet balance is the running sum of its transactions"               *)
(* (app/billing/__init__.py:4).                                            *)
BalanceIsLedgerSum == ~overlap => balance = ledger

Adjusting == \E s \in Session : ses[s].at = "adjust" /\ ses'[s].at = "bill"

(* No charge (tariff, invoice, package, usage) takes the sum of the        *)
(* transactions below zero; only the operator's own adjustment may.        *)
ChargesCovered ==
  [][ledger' < ledger /\ ~Adjusting /\ ~overlap' => ledger' >= 0]_vars

(* No byte is settled twice, by a charge or by a package: what was billed  *)
(* and what the watermark still leaves to bill is never more than what was *)
(* metered, resets of the counter included.                                *)
UsageBilledOnce == ~overlap => billed + Unbilled(used, mark) <= metered

-----------------------------------------------------------------------------
(* Until two sessions hold the same intent at the same time.  Sessions on  *)
(* different intents overlap, are refused and die anywhere.                *)

(* A payment that was completed, rejected, expired or failed keeps that    *)
(* status: a handler that writes one has checked it, and the row is its    *)
(* own for the several commits between.                                    *)
FinalStatusStays ==
  [][\A i \in Intent \ crossed' :
       intent[i] \in Final => intent'[i] = intent[i]]_vars

(* Once the goods are committed the payment counts as delivered, although  *)
(* its status is written some commits later.                               *)
SettledStatus ==
  [i \in Intent |->
     IF \E s \in Session : ses[s].on = i /\ ses[s].at \in Post
     THEN "delivered" ELSE intent[i]]

Settlements == INSTANCE Settlement WITH status <- SettledStatus,
                                        given <- handed,
                                        contended <- crossed

(* The handlers implement a settlement: goods are handed out only to a     *)
(* payment that is open, once for each time it is delivered, a completed   *)
(* payment was delivered, and a payment is delivered again only after a    *)
(* completion that ended (a crash, a refused tariff) between its goods and *)
(* its status.                                                             *)
ImplementsSettlement == Settlements!Spec

=============================================================================
