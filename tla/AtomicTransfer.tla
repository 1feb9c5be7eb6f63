-------------------------- MODULE AtomicTransfer --------------------------
(***************************************************************************)
(* What a transfer between two shards promises (docs/05, section 8): the   *)
(* amount leaves the payer once, ends either with the payee or, returned,  *)
(* with the payer, and the outcome reported is where it ended.             *)
(***************************************************************************)
VARIABLES
    money,    \* where the amount is
    outcome   \* what the transfer is reported as

vars == <<money, outcome>>

Places == {"payer", "transit", "payee", "returned"}
Outcomes == {"open", "completed", "failed"}

TypeOK == money \in Places /\ outcome \in Outcomes

Init == money = "payer" /\ outcome = "open"

\* The amount moves while the transfer is open.
Carry(from, to) ==
    /\ outcome = "open"
    /\ money = from
    /\ money' = to
    /\ UNCHANGED outcome

Report(place, result) ==
    /\ outcome = "open"
    /\ money = place
    /\ outcome' = result
    /\ UNCHANGED money

Next ==
    \/ Carry("payer", "transit")
    \/ Carry("transit", "payee")
    \/ Carry("transit", "returned")
    \/ Report("payee", "completed")
    \/ Report("returned", "failed")

Spec == Init /\ [][Next]_vars
=============================================================================
