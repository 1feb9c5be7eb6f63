----------------------------- MODULE MCExchange -----------------------------
(***************************************************************************)
(* A small foreign exchange desk: two users, three assets, a fee in the    *)
(* asset sold or in points, rates given, named and looked up, and rules    *)
(* that are reloaded.                                                      *)
(***************************************************************************)
EXTENDS Exchange

CONSTANTS u1, u2, CNY, USD, PTS, spot, back

MCUsers == {u1, u2}
MCAssets == {CNY, USD, PTS}
MCOpening == (u1 :> (CNY :> 8 @@ USD :> 1 @@ PTS :> 0))
             @@ (u2 :> (CNY :> 4 @@ USD :> 0 @@ PTS :> 1))

Half == [num |-> 1, den |-> 2]
Tenth == [num |-> 1, den |-> 10]
Double == [num |-> 2, den |-> 1]

Sell(b, u, from, n, to) ==
    [biz |-> b, user |-> u, from |-> from, amount |-> n, to |-> to,
     toAmount |-> 0, feeAsset |-> from, fee |-> 0, tolerance |-> 0,
     rateId |-> None, rate |-> NoRate]

\* e1 is priced at the latest rate, e2 names a snapshot and asks for an amount,
\* e3 pays a fee in the asset it sells, e4 pays one in points, e5 sells what it
\* bought, e6 is small enough for a limit that e1 has used and brings a rate of
\* its own under a rate_id that may not be saved.
MCExchanges ==
    {Sell("e1", u1, CNY, 3, USD),
     [Sell("e2", u1, CNY, 4, USD) EXCEPT !.toAmount = 1, !.rateId = spot, !.tolerance = 1],
     [Sell("e3", u2, CNY, 2, USD) EXCEPT !.fee = 1, !.rate = Half],
     [Sell("e4", u2, CNY, 2, USD) EXCEPT !.feeAsset = PTS, !.fee = 1, !.rate = Half],
     Sell("e5", u1, USD, 2, CNY),
     [Sell("e6", u1, CNY, 1, USD) EXCEPT !.rate = Double, !.rateId = back]}

MCReversals == {[biz |-> "r1", ref |-> "e1"], [biz |-> "r2", ref |-> "e1"]}

MCQuotes ==
    {[id |-> spot, base |-> CNY, quote |-> USD, rate |-> Half],
     [id |-> spot, base |-> CNY, quote |-> USD, rate |-> Tenth],
     [id |-> back, base |-> USD, quote |-> CNY, rate |-> Double]}

Limit(a, max, amount, count) ==
    [asset |-> a, maxAmount |-> max, dailyAmount |-> amount, dailyCount |-> count]

\* The second configuration has two rules that match a sale of CNY.
MCLoaded ==
    {<<Limit(CNY, 0, 5, 0)>>,
     <<Limit(None, 5, 0, 4), Limit(CNY, 0, 6, 0)>>}

\* Handlers are interchangeable.
Symmetry == Permutations(Handlers)
=============================================================================
