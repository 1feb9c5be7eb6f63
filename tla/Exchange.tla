------------------------------ MODULE Exchange ------------------------------
(***************************************************************************)
(* Exchange (internal/application/exchange.go) with what it stands on: the *)
(* rate snapshots and the jobs that replace them (fx_service.go, jobs.go,  *)
(* persistence/phase3_repos.go), the limits of limit.go with their daily   *)
(* usage rows, Reverse of an exchange (reverse.go), and the level 4 check  *)
(* of the reconciliation (reconcile.go fxTieOut), for one tenant, one      *)
(* source system and one day.                                              *)
(*                                                                         *)
(* A command is again one transaction of two phases: what it reads without *)
(* locks (the idempotency record, the rate, the limit rules in memory, the *)
(* voucher to reverse), then what it does under the locks of the usage row *)
(* and of the accounts, which it holds until it commits.                   *)
(***************************************************************************)
EXTENDS Integers, FiniteSets, SequencesExt

CONSTANTS
    Users,        \* the holders who exchange
    Assets,
    Overdraft,    \* the assets whose OverdraftAllowed is set
    Opening,      \* what each user holds of each asset to begin with
    Exchanges,    \* the Exchange requests callers may submit
    Reversals,    \* the Reverse requests
    RateIds,      \* rate_id values
    Quotes,       \* the rates the feed and the operators may save
    Loaded,       \* the limit rules a reload may find in the configuration
    Handlers,     \* concurrent executions of a command
    MaxPostings,  \* bound on the length of the journal
    MaxQuotes,    \* bound on the number of rates saved
    None,         \* an empty rate_id, and the asset of a rule, or of a
                  \* reconciliation job, for all assets
    Idle          \* a handler that executes nothing

Clearing == "fx_clearing"
FeeIncome == "fx_fee_income"
SystemHolders == {Clearing, FeeIncome}
Holders == Users \cup SystemHolders

\* A rate as the exact quotient of smallest units: the decimal of the source
\* with the two precisions worked in.  num = 0 stands for an omitted rate.
Rate == [num : Nat, den : Nat \ {0}]
NoRate == [num |-> 0, den |-> 1]

BizNos == {r.biz : r \in Exchanges \cup Reversals}

\* toAmount = 0 stands for an omitted amount.
ExchangeRequest ==
    [biz : BizNos, user : Users, from : Assets, amount : Nat \ {0}, to : Assets,
     toAmount : Nat, feeAsset : Assets, fee : Nat, tolerance : Nat,
     rateId : RateIds \cup {None}, rate : Rate]

Rule == [asset : Assets \cup {None}, maxAmount : Nat, dailyAmount : Nat,
         dailyCount : Nat]

Entry == [holder : Holders, asset : Assets, dir : {"IN", "OUT"}, amount : Nat \ {0}]

Posting == [cmd : {"Exchange", "Reverse"}, biz : BizNos, entries : Seq(Entry)]

Leg == [biz : BizNos, user : Users, from : Assets, fromAmount : Nat \ {0},
        to : Assets, toAmount : Nat \ {0}, feeAsset : Assets, fee : Nat,
        rateId : RateIds \cup {None}, rate : Rate]

\* at is the order of quoted_at.
Snapshot == [base : Assets, quote : Assets, rate : Rate, at : 1..MaxQuotes]

\* What exchange refuses before its transaction is left out.  A rate of the
\* caller's own may come with a rate_id, which is then not looked up.
ASSUME ExchangeAssumption ==
    /\ Users \cap SystemHolders = {}
    /\ Exchanges \subseteq ExchangeRequest
    /\ \A r \in Exchanges : r.to # r.from
    /\ \A r \in Reversals : r.biz \in BizNos /\ r.ref \in BizNos
    /\ \A q \in Quotes : /\ q.id \in RateIds /\ q.base \in Assets
                         /\ q.quote \in Assets /\ q.rate \in Rate \ {NoRate}
    /\ Overdraft \subseteq Assets
    /\ Opening \in [Users -> [Assets -> Nat]]
    /\ Loaded \subseteq Seq(Rule) /\ Loaded # {}
    /\ None \notin Assets \cup RateIds
    /\ MaxPostings \in Nat /\ MaxQuotes \in Nat

VARIABLES
    avail,    \* account.available of every holder in every asset
    usage,    \* ledger_limit_usage: amount and count of the day
    fx,       \* ledger_fx_rate, a row for each rate_id saved
    rules,    \* Limiter.rules
    journal,  \* the vouchers in commit order, with their entries
    legs,     \* ledger_exchange_leg in the order of its ids
    call      \* what each handler is executing, with what it read

vars == <<avail, usage, fx, rules, journal, legs, call>>

-----------------------------------------------------------------------------
(* Rates *)

Saved == DOMAIN fx
LastQuote == Max({fx[i].at : i \in Saved} \cup {0})

\* FxRateRepo.Save, which the feed calls with a rate_id fixed per pair and the
\* operators with any: on a known rate_id the upsert replaces the rate and its
\* time and leaves the pair the row was inserted with.
SaveRate(q) ==
    /\ LastQuote < MaxQuotes
    /\ LET row == [base |-> q.base, quote |-> q.quote, rate |-> q.rate,
                   at |-> LastQuote + 1]
       IN  fx' = IF q.id \in Saved
                 THEN [fx EXCEPT ![q.id].rate = row.rate, ![q.id].at = row.at]
                 ELSE [i \in Saved \cup {q.id} |-> IF i = q.id THEN row ELSE fx[i]]
    /\ UNCHANGED <<avail, usage, rules, journal, legs, call>>

\* FxRateRepo.Find: the latest quote of the pair.
Latest(base, quote) ==
    LET ofPair == {i \in Saved : fx[i].base = base /\ fx[i].quote = quote}
    IN  {i \in ofPair : \A j \in ofPair : fx[j].at <= fx[i].at}

\* resolveQuote: the rate the request brings, under the rate_id it brings with
\* it, or the snapshot it names (whose pair is not compared with the request's),
\* or the latest one of its pair.
Quoted(r) ==
    IF r.rate # NoRate THEN {[id |-> r.rateId, rate |-> r.rate]}
    ELSE {[id |-> i, rate |-> fx[i].rate] :
             i \in IF r.rateId # None THEN Saved \cap {r.rateId}
                   ELSE Latest(r.from, r.to)}

ExpectedToAmount(amount, rate) == (amount * rate.num) \div rate.den

WithinTolerance(expected, actual, tolerance) ==
    /\ actual <= expected + tolerance
    /\ expected <= actual + tolerance

\* A to amount left out is the expected one.
ToAmount(r, rate) ==
    IF r.toAmount > 0 THEN r.toAmount ELSE ExpectedToAmount(r.amount, rate)

\* Something is bought, at the rate but for the tolerance.
Priced(r, rate) ==
    /\ ToAmount(r, rate) > 0
    /\ WithinTolerance(ExpectedToAmount(r.amount, rate), ToAmount(r, rate), r.tolerance)

-----------------------------------------------------------------------------
(* Limits *)

\* The places of the rules for an asset in a configuration.
Matching(asset, loaded) == {k \in DOMAIN loaded : loaded[k].asset \in {None, asset}}

\* The rules of m that have been applied when the one at k has.
Applied(k, m) == Cardinality({j \in m : j <= k})

\* Fault: the usage is compared before the amount is added to it.
WithinRulesBefore(user, asset, n, loaded) ==
    LET m == Matching(asset, loaded)
        u == usage[user][asset]
    IN  \A k \in m :
           /\ loaded[k].maxAmount > 0 => n <= loaded[k].maxAmount
           /\ loaded[k].dailyAmount > 0 => u.amount < loaded[k].dailyAmount
           /\ loaded[k].dailyCount > 0 => u.count < loaded[k].dailyCount

\* Limiter.Check: every matching rule adds the amount to the usage row, which
\* all rules share, and compares what it then holds; 0 stands for no limit.
WithinRules(user, asset, n, loaded) ==
    LET m == Matching(asset, loaded)
        u == usage[user][asset]
    IN  \A k \in m :
           LET rule == loaded[k]
               times == Applied(k, m)
           IN  /\ rule.maxAmount > 0 => n <= rule.maxAmount
               /\ rule.dailyAmount > 0 => u.amount + times * n <= rule.dailyAmount
               /\ rule.dailyCount > 0 => u.count + times <= rule.dailyCount

\* LimitRepo.AddUsage, once per matching rule.
Used(user, asset, n, loaded) ==
    LET k == Cardinality(Matching(asset, loaded))
    IN  [usage EXCEPT ![user][asset] =
            [amount |-> @.amount + k * n, count |-> @.count + k]]

\* Limiter.Replace, at a configuration reload.
Reload(loaded) ==
    /\ rules' = loaded
    /\ UNCHANGED <<avail, usage, fx, journal, legs, call>>

-----------------------------------------------------------------------------
(* Entries and balances *)

Out(h, a, n) == [holder |-> h, asset |-> a, dir |-> "OUT", amount |-> n]
In(h, a, n) == [holder |-> h, asset |-> a, dir |-> "IN", amount |-> n]

\* The entries exchange writes, in its order; to is the amount bought.
ExchangeEntries(r, to) ==
    LET sold == Out(r.user, r.from, r.amount)
        bought == In(r.user, r.to, to)
        taken == In(Clearing, r.from, r.amount)
        given == Out(Clearing, r.to, to)
    IN  IF r.fee = 0 THEN <<sold, bought, taken, given>>
        ELSE <<sold, Out(r.user, r.feeAsset, r.fee), In(FeeIncome, r.feeAsset, r.fee),
               bought, taken, given>>

\* What Reverse writes for the entries of a voucher.
Mirrored(entries) ==
    [k \in DOMAIN entries |->
        [entries[k] EXCEPT !.dir = IF @ = "IN" THEN "OUT" ELSE "IN"]]

Signed(e) == IF e.dir = "IN" THEN e.amount ELSE -e.amount

\* What an entry, and a sequence of entries, adds to the balance of h in a.
Part(h, a, e) == IF e.holder = h /\ e.asset = a THEN Signed(e) ELSE 0
Net(h, a, entries) == SumFunction([k \in DOMAIN entries |-> Part(h, a, entries[k])])

\* Fault: amount and fee are taken from copies of one account, and the last
\* one written stays.
LastCopy(entries) ==
    [h \in Holders |-> [a \in Assets |->
        LET ks == {k \in DOMAIN entries : entries[k].holder = h /\ entries[k].asset = a}
        IN  avail[h][a] + IF ks = {} THEN 0 ELSE Signed(entries[Max(ks)])]]

\* UpdateBalances, on the locked rows and once for each entry.
Updated(entries) ==
    [h \in Holders |-> [a \in Assets |-> avail[h][a] + Net(h, a, entries)]]

Covers(h, a, n) == avail[h][a] >= n \/ a \in Overdraft \/ h \in SystemHolders

-----------------------------------------------------------------------------
(* Commands *)

\* checkIdempotency, and the unique index at the commit.
KeyTaken(cmd, b) == \E i \in DOMAIN journal : journal[i].cmd = cmd /\ journal[i].biz = b

Begin(c, what) ==
    /\ call[c] = Idle
    /\ ~KeyTaken(what.cmd, what.req.biz)
    /\ Len(journal) < MaxPostings
    /\ call' = [call EXCEPT ![c] = what]
    /\ UNCHANGED <<avail, usage, fx, rules, journal, legs>>

BeginExchange(c, r) ==
    \E q \in Quoted(r) :
        Begin(c, [cmd |-> "Exchange", req |-> r, quote |-> q, rules |-> rules])

\* The voucher of the first entry under the number; a Reverse is not reversed,
\* and whether the voucher has been reversed before is not asked.
BeginReverse(c, r) ==
    \E i \in DOMAIN journal :
        /\ journal[i].biz = r.ref
        /\ \A j \in DOMAIN journal : journal[j].biz = r.ref => i <= j
        /\ journal[i].cmd # "Reverse"
        /\ Begin(c, [cmd |-> "Reverse", req |-> r, entries |-> journal[i].entries])

\* writeJournal, UpdateBalances and writeEntry of each entry, saveIdempotency,
\* and the commit.
Record(c, entries) ==
    LET x == call[c]
    IN  /\ ~KeyTaken(x.cmd, x.req.biz)
        /\ avail' = Updated(entries)
        /\ journal' = Append(journal,
               [cmd |-> x.cmd, biz |-> x.req.biz, entries |-> entries])
        /\ call' = [call EXCEPT ![c] = Idle]
        /\ UNCHANGED <<fx, rules>>

\* Fault: the rate is read again when the leg is written.
LegAtCurrentRate(r, q, to) ==
    [biz |-> r.biz, user |-> r.user, from |-> r.from, fromAmount |-> r.amount,
     to |-> r.to, toAmount |-> to, feeAsset |-> r.feeAsset, fee |-> r.fee,
     rateId |-> q.id, rate |-> IF q.id \in Saved THEN fx[q.id].rate ELSE q.rate]

\* Fault: the leg records the expected amount instead of the one booked.
LegAsExpected(r, q, to) ==
    [biz |-> r.biz, user |-> r.user, from |-> r.from, fromAmount |-> r.amount,
     to |-> r.to, toAmount |-> ExpectedToAmount(r.amount, q.rate),
     feeAsset |-> r.feeAsset, fee |-> r.fee, rateId |-> q.id, rate |-> q.rate]

\* The row exchange writes for the reconciliation.
LegOf(r, q, to) ==
    [biz |-> r.biz, user |-> r.user, from |-> r.from, fromAmount |-> r.amount,
     to |-> r.to, toAmount |-> to, feeAsset |-> r.feeAsset, fee |-> r.fee,
     rateId |-> q.id, rate |-> q.rate]

\* Fault: the fee is left out of what must be covered.
NeedAmount(r) == r.amount

\* What the account sold from must hold.
Need(r) == r.amount + IF r.feeAsset = r.from THEN r.fee ELSE 0

\* A fee in the asset bought loads a second copy of that account, whose update
\* fails the version check.
FeeCovered(r) ==
    \/ r.fee = 0 \/ r.feeAsset = r.from
    \/ r.feeAsset # r.to /\ Covers(r.user, r.feeAsset, r.fee)

PostExchange(c) ==
    /\ call[c] # Idle
    /\ call[c].cmd = "Exchange"
    /\ LET r == call[c].req
           q == call[c].quote
           to == ToAmount(r, q.rate)
       IN  /\ WithinRules(r.user, r.from, r.amount, call[c].rules)
           /\ Priced(r, q.rate)
           /\ Covers(r.user, r.from, Need(r))
           /\ FeeCovered(r)
           /\ Record(c, ExchangeEntries(r, to))
           /\ usage' = Used(r.user, r.from, r.amount, call[c].rules)
           /\ legs' = Append(legs, LegOf(r, q, to))

\* Every entry of the voucher is undone, the fee's included; an IN entry must be
\* covered.  The leg stays as it is, and so does the usage.
PostReverse(c) ==
    /\ call[c] # Idle
    /\ call[c].cmd = "Reverse"
    /\ LET entries == call[c].entries
       IN  /\ \A k \in DOMAIN entries : entries[k].dir = "IN" =>
                 Covers(entries[k].holder, entries[k].asset, entries[k].amount)
           /\ Record(c, Mirrored(entries))
    /\ UNCHANGED <<usage, legs>>

\* Fault: the usage row is written outside the transaction.
AbortKeepsUsage(c) ==
    /\ call[c] # Idle
    /\ call' = [call EXCEPT ![c] = Idle]
    /\ usage' = IF call[c].cmd = "Exchange"
                THEN Used(call[c].req.user, call[c].req.from, call[c].req.amount,
                          call[c].rules)
                ELSE usage
    /\ UNCHANGED <<avail, fx, rules, journal, legs>>

\* A refusal, a deadlock in the database or a crash: everything the transaction
\* wrote is rolled back, its usage too.
Abort(c) ==
    /\ call[c] # Idle
    /\ call' = [call EXCEPT ![c] = Idle]
    /\ UNCHANGED <<avail, usage, fx, rules, journal, legs>>

-----------------------------------------------------------------------------
Init ==
    /\ avail = [h \in Holders |-> IF h \in Users THEN Opening[h] ELSE [a \in Assets |-> 0]]
    /\ usage = [u \in Users |-> [a \in Assets |-> [amount |-> 0, count |-> 0]]]
    /\ fx = <<>>
    /\ rules \in Loaded
    /\ journal = <<>>
    /\ legs = <<>>
    /\ call = [c \in Handlers |-> Idle]

Next ==
    \/ \E q \in Quotes : SaveRate(q)
    \/ \E loaded \in Loaded : Reload(loaded)
    \/ \E c \in Handlers :
          \/ \E r \in Exchanges : BeginExchange(c, r)
          \/ \E r \in Reversals : BeginReverse(c, r)
          \/ PostExchange(c)
          \/ PostReverse(c)
          \/ Abort(c)

Spec == Init /\ [][Next]_vars

-----------------------------------------------------------------------------
(* The level 4 check of the reconciliation *)

\* ExchangeLegRepo.GetByBizNo: the first leg under the number.
LegsUnder(b) == {i \in DOMAIN legs : legs[i].biz = b}

Sum(ks, entries) == SumFunction([k \in ks |-> entries[k].amount])

\* The asset of the last of some entries, as the loop over them leaves it.
AssetOf(ks, entries) == entries[Max(ks)].asset

\* The entries of the voucher p that RunJob loads for a job on one asset, or on
\* all of them (None).
Seen(p, asset) == {k \in DOMAIN p.entries : asset \in {None, p.entries[k].asset}}

\* fxTieOut reports nothing of the voucher p to a job on asset: none of its
\* entries is loaded, or those that are loaded are complete, and the sums of the
\* user's entries and of the fee's agree with the leg, whose rate_id is known.
FxTieOut(p, asset) ==
    LET es == p.entries
        seen == Seen(p, asset)
        outs == {k \in seen : es[k].holder \in Users /\ es[k].dir = "OUT"}
        ins == {k \in seen : es[k].holder \in Users /\ es[k].dir = "IN"}
        fees == {k \in seen : es[k].holder = FeeIncome /\ es[k].dir = "IN"}
        found == LegsUnder(p.biz)
    IN  seen # {} =>
        /\ outs # {} /\ ins # {}
        /\ Cardinality({es[k].asset : k \in seen}) >= 2
        /\ found # {}
        /\ LET leg == legs[Min(found)]
           IN  /\ Sum(outs, es) = leg.fromAmount /\ AssetOf(outs, es) = leg.from
               /\ Sum(ins, es) = leg.toAmount /\ AssetOf(ins, es) = leg.to
               /\ leg.fee > 0 => /\ Sum(fees, es) = leg.fee
                                 /\ AssetOf(fees, es) = leg.feeAsset
               /\ leg.rateId # None => leg.rateId \in Saved

-----------------------------------------------------------------------------
(* Properties *)

\* Every balance is the opening balance and the entries of all vouchers of that
\* holder and asset, whatever commands overlapped (the reconciliation
\* reconstructs accounts from their entries).
BalancesFromEntries ==
    \A h \in Holders, a \in Assets :
        avail[h][a] =
            (IF h \in Users THEN Opening[h][a] ELSE 0)
            + SumFunction([i \in DOMAIN journal |-> Net(h, a, journal[i].entries)])

\* No user goes below zero in an asset that may not be overdrawn: not by an
\* amount and a fee that only together exceed the balance, not by a reversal
\* that takes back what has been exchanged on, nor by overlapping commands.
UsersCovered ==
    \A u \in Users, a \in Assets \ Overdraft : avail[u][a] >= 0

\* The exchanges of u out of a that were posted, and what they sold.
Sold(u, a) == {i \in DOMAIN legs : legs[i].user = u /\ legs[i].from = a}
SoldAmount(u, a) == SumFunction([i \in Sold(u, a) |-> legs[i].fromAmount])

\* The daily amounts that loaded rules set for an asset.
DailyAmounts(a, loaded) ==
    {loaded[k].dailyAmount : k \in Matching(a, loaded)} \ {0}

\* Where every configuration sets a daily amount for an asset, what a user sells
\* of it in the day never exceeds all of them, however exchanges overlap
\* and whenever the rules are reloaded between the check and the commit.
WithinDailyAmount ==
    \A u \in Users, a \in Assets :
        (\A l \in Loaded : DailyAmounts(a, l) # {}) =>
            \E l \in Loaded : \E d \in DailyAmounts(a, l) : SoldAmount(u, a) <= d

\* The usage row counts the exchanges that were posted and no others, each once
\* per rule that matched it, the rules of some configuration at least and of
\* some configuration at most: refused and failed ones leave nothing behind.
UsageOfPosted ==
    \A u \in Users, a \in Assets :
        \E least, most \in {Cardinality(Matching(a, l)) : l \in Loaded} :
            /\ usage[u][a].amount >= least * SoldAmount(u, a)
            /\ usage[u][a].amount <= most * SoldAmount(u, a)
            /\ usage[u][a].count >= least * Cardinality(Sold(u, a))
            /\ usage[u][a].count <= most * Cardinality(Sold(u, a))

\* The amount bought is the amount sold at the rate the leg records, within the
\* tolerance of the request, although the snapshot it names may have been
\* replaced before the exchange committed.
PricedAtLegRate ==
    \A i \in DOMAIN legs : \E r \in Exchanges :
        /\ r.biz = legs[i].biz /\ r.user = legs[i].user
        /\ WithinTolerance(ExpectedToAmount(legs[i].fromAmount, legs[i].rate),
                           legs[i].toAmount, r.tolerance)

\* The request brought a rate of its own under a rate_id that is not saved.
Untraced(r) == r.rate # NoRate /\ r.rateId \notin Saved \cup {None}

Feeless(p) ==
    /\ p.cmd = "Exchange"
    /\ \A k \in DOMAIN p.entries : p.entries[k].holder # FeeIncome

\* Level 4 of the reconciliation reports an exchange without a fee in two cases
\* and no others, whatever commands and rates overlapped: to a job on all assets,
\* when its request brought a rate of its own under a rate_id that is not saved
\* (resolveQuote does not look such an id up, fxTieOut does); and to every job on
\* one of its two assets, which is given the entries of that asset only.
FeelessTieOut ==
    \A i \in DOMAIN journal :
        Feeless(journal[i]) =>
            LET p == journal[i]
            IN  /\ \/ FxTieOut(p, None)
                   \/ \E r \in Exchanges : r.biz = p.biz /\ Untraced(r)
                /\ \A a \in Assets : FxTieOut(p, a) <=> Seen(p, a) = {}
=============================================================================
