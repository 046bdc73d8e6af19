----------------------------- MODULE Settlement -----------------------------
(***************************************************************************)
(* What a customer and a reseller expect of a payment, without sessions,   *)
(* wallets or commits: it is opened, perhaps reviewed, delivered, and then *)
(* closed for good.  Delivering it hands its goods out, once, in the same  *)
(* step; no other step hands anything out.  A delivered payment either     *)
(* completes or falls back to an open one.                                 *)
(*                                                                         *)
(* Nothing is promised of a payment two requests have worked on at once.   *)
(* The promise is made to each payment by itself, so that one step may     *)
(* expire many.                                                            *)
(***************************************************************************)
EXTENDS Integers

CONSTANT Intent

VARIABLES
  status,     \* status of each payment, "delivered" between goods and close
  given,      \* times its goods were handed out
  fell,       \* times it fell back after they were
  contended   \* payments two requests have worked on at once

vars == <<status, given, fell, contended>>

Open == {"pending", "awaiting_review"}

Init ==
  /\ status = [i \in Intent |-> "none"]
  /\ given = [i \in Intent |-> 0]
  /\ fell = [i \in Intent |-> 0]
  /\ contended = {}

Keeps(i) == given'[i] = given[i] /\ fell'[i] = fell[i]

Moves(i, from, to) == status[i] \in from /\ status'[i] \in to /\ Keeps(i)

Checkout(i) == Moves(i, {"none"}, {"pending"})
Fail(i)     == Moves(i, {"pending"}, {"failed"})
Submit(i)   == Moves(i, {"pending"}, {"awaiting_review"})
Reject(i)   == Moves(i, Open, {"rejected"})
Expire(i)   == Moves(i, {"pending"}, {"expired"})
Close(i)    == Moves(i, {"delivered"}, {"completed"})

Deliver(i) ==
  /\ status[i] \in Open /\ status'[i] = "delivered"
  /\ given'[i] = given[i] + 1 /\ fell'[i] = fell[i]

FallBack(i) ==
  /\ status[i] = "delivered" /\ status'[i] \in Open
  /\ given'[i] = given[i] /\ fell'[i] = fell[i] + 1

Rest(i) == status'[i] = status[i] /\ Keeps(i)

Step(i) ==
  \/ Checkout(i) \/ Fail(i) \/ Submit(i) \/ Reject(i) \/ Expire(i)
  \/ Deliver(i) \/ Close(i) \/ FallBack(i) \/ Rest(i)

Next ==
  /\ contended \subseteq contended'
  /\ \A i \in Intent : i \in contended' \/ Step(i)

Spec == Init /\ [][Next]_vars
=============================================================================
