---------------------------- MODULE LedgerTies ----------------------------
(***************************************************************************)
(* What ties the tables of the ledger to one another: the reconciliation   *)
(* rules L2 and L3 of internal/application/reconcile.go, and the accounts  *)
(* of freeze orders, of value and of replies that follow from them.        *)
(***************************************************************************)
EXTENDS Ledger, Functions

\* freezeTieOut: per account, the orders still frozen against account.frozen.
FrozenOrders(h) == {b \in BizNos : freeze[b].status = "frozen" /\ freeze[b].holder = h}
FreezeSum(h) == SumFunction([b \in FrozenOrders(h) |-> freeze[b].amount])

\* reconstruct: the balances replayed from the entries of an account.
AvailableOf(p, h) == IF p.cmd = "Capture" THEN 0 ELSE p.legs[h]
FrozenOf(p, h) ==
    IF p.cmd = "Capture" THEN p.legs[h]
    ELSE IF p.cmd \in {"Freeze", "Release"} \/ p.unfreeze THEN -p.legs[h] ELSE 0

Replayed(h) ==
    [available |-> SumFunction([i \in DOMAIN journal |-> AvailableOf(journal[i], h)]),
     frozen    |-> SumFunction([i \in DOMAIN journal |-> FrozenOf(journal[i], h)])]

-----------------------------------------------------------------------------

\* L3 of the reconciliation rules: on every account the amounts of the orders
\* in status frozen add up to account.frozen, whatever commands raced.
FreezeTieOut == \A h \in Holders : FreezeSum(h) = frozen[h]

\* L2 as balanceTieOut computes it: the entries of an account, replayed by
\* reconstruct, give its two balances.
BalanceTieOut ==
    \A h \in Holders : Replayed(h) = [available |-> avail[h], frozen |-> frozen[h]]

\* What a voucher takes out of order b, and what it sets aside in it.
Takes(p, b) ==
    IF p.order = b /\ (p.unfreeze \/ p.cmd \in {"Capture", "Release"})
    THEN LET n == p.legs[freeze[b].holder] IN IF n > 0 THEN n ELSE -n
    ELSE 0

SetsAside(p, b) ==
    IF p.cmd = "Freeze" /\ p.order = b THEN -p.legs[freeze[b].holder] ELSE 0

Settled(b) == SumFunction([i \in DOMAIN journal |-> Takes(journal[i], b)])
SetAside(b) == SumFunction([i \in DOMAIN journal |-> SetsAside(journal[i], b)])
Remaining(o) == IF o.status = "frozen" THEN o.amount ELSE 0

\* The amount a Freeze set aside is settled once: what Capture, Release and
\* Reverse took out of the order and what remains in it make the whole.
OrderAccounted == \A b \in BizNos : Settled(b) + Remaining(freeze[b]) = SetAside(b)

\* What a voucher takes out of the books: value leaves only through Capture,
\* comes back only when that Capture is reversed, and is lost when a Release is
\* reversed (the released amount is taken from available and not put back into
\* frozen).
Outflow(p) ==
    IF p.cmd = "Capture" \/ (p.cmd = "Reverse" /\ p.order # NoBiz /\ ~p.unfreeze)
    THEN -p.legs[freeze[p.order].holder]
    ELSE 0

\* The balances of all accounts, system accounts included, and what has left
\* the books add up to zero: no command creates or loses value by itself.
ValueAccounted ==
    SumFunction([h \in Holders |-> avail[h] + frozen[h]])
        + SumFunction([i \in DOMAIN journal |-> Outflow(journal[i])]) = 0
=============================================================================
