------------------------------- MODULE Expiry -------------------------------
(***************************************************************************)
(* Expiry of points (ExpireEngine) as the job `expire` runs it, beside the  *)
(* clients' Credits and Debits, their retries, and the purge of             *)
(* idempotency records.  The worker's tick and an operator's manual start   *)
(* are two runners; nothing keeps them apart, since the lease binds the     *)
(* worker only.  Time is counted in days.                                   *)
(***************************************************************************)
EXTENDS Integers, Sequences

CONSTANTS
    Account,      \* accounts of users and merchants (system subjects are passed over)
    HolderId,     \* [Account -> ids]; a user and a merchant may have one id
    Lists,        \* the accounts a run visits, one entry per tenant and asset with a policy
    Days,         \* days of the policy rolling_days
    NewYear,      \* the first and second of January
    Request,      \* clients' requests, by their biz_no
    Holder,       \* [Request -> Account]
    Change,       \* [Request -> Int]: a Credit's amount, or minus a Debit's
    FirstDays,    \* [Request -> days]: when a client may call it first
    Disableable,  \* accounts an operator may disable
    Bars,         \* sets of accounts whose Transfers a setting may come to refuse together
    Runner,       \* goroutines that run the job; "worker" is the ticker's
    MaxAttempts,  \* worker.max_attempts
    RetryDays,    \* how long after the first call a client may still retry it
    Retain,       \* idempotency_retain
    RunDays,      \* how many midnights a run may outlast
    MaxDay,       \* bound: the last day
    MaxFaults     \* bound: statements that fail and runners that die

Policies == {"rolling_days", "year_end"}
Day == 0 .. MaxDay
Never == -1

ASSUME ListsAssumption ==
    /\ Lists \in Seq([policy : Policies, rows : Seq(Account)]) /\ Len(Lists) > 0
    /\ \A l \in DOMAIN Lists : Len(Lists[l].rows) > 0
    /\ \A l, m \in DOMAIN Lists : \A i \in DOMAIN Lists[l].rows, j \in DOMAIN Lists[m].rows :
         Lists[l].rows[i] = Lists[m].rows[j] => l = m /\ i = j
ASSUME RequestAssumption ==
    Holder \in [Request -> Account] /\ Change \in [Request -> Int] 
    /\ FirstDays \in [Request -> SUBSET Day] /\ Disableable \subseteq Account
    /\ Bars \subseteq SUBSET Account
ASSUME TimeAssumption ==
    /\ Days \in Nat /\ MaxDay \in Nat /\ MaxAttempts \in Nat \ {0} /\ MaxFaults \in Nat
    /\ Retain \in Nat /\ RetryDays \in Nat /\ RunDays \in Nat
    /\ RetryDays <= Retain /\ RunDays <= Retain

VARIABLES
    day,        \* the clock
    available,  \* [Account -> Nat]
    disabled,   \* accounts an operator disabled
    barred,     \* accounts whose expiry a setting refuses: of an asset that is disabled or no
                \* longer takes their holder type, or under a rule of the limits or the ACL
    credited,   \* credited[a][d]: sum of the Credit entries of a made on day d or later
    spent,      \* the same of its Debit entries
    records,    \* idempotency records by key
    vouchers,   \* how often each key was posted
    first,      \* the day of each request's first call
    run,        \* run[p]: the runner's place, or how its last run ended
    late,       \* accounts an expiry was posted for after the day it was computed on
    faults

vars == <<day, available, disabled, barred, credited, spent, records, vouchers, first, run, late, faults>>
books == <<available, credited, spent, records, vouchers, late>>

----------------------------------------------------------------------------
(* Keys and records.  The key of an expiry has the asset, the holder's id   *)
(* without its type, and the date; the tenant is part of every key.         *)

ExpiryKeyAnyAsset(l, a, d) == <<1, HolderId[a], d>>      \* Fault: no asset in biz_no
ExpiryKey(l, a, d) == <<l, HolderId[a], d>>

ExpiryKeys == (DOMAIN Lists) \X {HolderId[a] : a \in Account} \X Day
Keys == Request \cup ExpiryKeys
ASSUME KeyAssumption == Request \cap ExpiryKeys = {}

\* What is kept of a record: the day it was created (its hash decides only between
\* replay and conflict, which end alike for the run).
Absent == Never

Add(f, a, n) == [f EXCEPT ![a] = [d \in Day |-> IF d <= day THEN @[d] + n ELSE @[d]]]

----------------------------------------------------------------------------
(* What the policy takes.                                                   *)

CutoffEarly(now) == IF now > Days THEN now - Days + 1 ELSE 0   \* Fault: one day too few
Cutoff(now) == IF now > Days THEN now - Days ELSE 0

\* expireAmount: everything on the two days of the new year, or what exceeds the
\* Credits of the last Days days.
ExpireAmount(l, a, have, now) ==
    IF Lists[l].policy = "year_end"
    THEN IF now \in NewYear THEN have ELSE 0
    ELSE IF have > credited[a][Cutoff(now)] THEN have - credited[a][Cutoff(now)] ELSE 0

----------------------------------------------------------------------------
(* Runs.                                                                    *)

Nothing == [a \in Account |-> 0]

Fresh(at, now, attempt) ==
    [at |-> at, now |-> now, list |-> 1, row |-> 0, seen |-> Nothing, amount |-> 0, attempt |-> attempt]
Ended(how, now) == Fresh(how, now, 1)
Moved(r, at, list, row, seen, amount) ==
    [at |-> at, now |-> r.now, list |-> list, row |-> row, seen |-> seen,
     amount |-> amount, attempt |-> r.attempt]

Running == {"list", "weigh", "post"}
Over == {"idle", "done", "failed", "dead"}
Busy(p) == run[p].at \in Running
This(p) == Lists[run[p].list].rows[run[p].row]
KeyOf(p) == ExpiryKey(run[p].list, This(p), run[p].now)

\* The next listed row with a balance, the next tenant and asset, or the end of the run.
Left(r) == {i \in DOMAIN Lists[r.list].rows : i > r.row /\ r.seen[Lists[r.list].rows[i]] > 0}
AdvanceFirst(r) == Ended("done", r.now)                   \* Fault: return instead of continue
Advance(r) ==
    IF Left(r) # {}
    THEN Moved(r, "weigh", r.list, CHOOSE i \in Left(r) : \A j \in Left(r) : i <= j, r.seen, 0)
    ELSE IF r.list < Len(Lists)
    THEN Moved(r, "list", r.list + 1, 0, Nothing, 0)
    ELSE Ended("done", r.now)

\* An error ends the whole run: track starts it again from the top, or records it.
Failed(r) ==
    IF r.attempt < MaxAttempts
    THEN Fresh("list", day, r.attempt + 1)
    ELSE Ended(IF MaxAttempts > 1 THEN "dead" ELSE "failed", 0)

Start(p) ==
    /\ ~Busy(p)
    /\ run' = [run EXCEPT ![p] = Fresh("list", day, 1)]
    /\ UNCHANGED <<day, disabled, barred, first, faults>> /\ UNCHANGED books

\* ListByTenant: the accounts of one asset with their balances, read without a lock.
List(p) ==
    /\ run[p].at = "list"
    /\ LET rows == Lists[run[p].list].rows
           seen == [a \in Account |-> IF \E i \in DOMAIN rows : rows[i] = a THEN available[a] ELSE 0]
       IN run' = [run EXCEPT ![p] = Advance(Moved(@, "list", @.list, 0, seen, 0))]
    /\ UNCHANGED <<day, disabled, barred, first, faults>> /\ UNCHANGED books

\* The entries of one account are read, and what is due is computed from them and the listed balance.
Weigh(p) ==
    /\ run[p].at = "weigh"
    /\ LET amount == ExpireAmount(run[p].list, This(p), run[p].seen[This(p)], run[p].now)
       IN run' = [run EXCEPT ![p] = IF amount > 0
                                            THEN Moved(@, "post", @.list, @.row, @.seen, amount)
                                            ELSE Advance(@)]
    /\ UNCHANGED <<day, disabled, barred, first, faults>> /\ UNCHANGED books

Covers(p) == run[p].amount <= available[This(p)]

\* The Transfer to point_sink commits.
Expire(p) ==
    /\ run[p].at = "post"
    /\ records[KeyOf(p)] = Absent
    /\ This(p) \notin disabled \cup barred
    /\ Covers(p)
    /\ available' = [available EXCEPT ![This(p)] = @ - run[p].amount]
    /\ records' = [records EXCEPT ![KeyOf(p)] = day]
    /\ vouchers' = [vouchers EXCEPT ![KeyOf(p)] = @ + 1]
    /\ late' = IF day = run[p].now THEN late ELSE late \cup {This(p)}
    /\ run' = [run EXCEPT ![p] = Advance(@)]
    /\ UNCHANGED <<day, disabled, barred, credited, spent, first, faults>>

\* The key is used: the stored answer, or an idempotency conflict, which is passed over.
Repeat(p) ==
    /\ run[p].at = "post"
    /\ records[KeyOf(p)] # Absent
    /\ run' = [run EXCEPT ![p] = Advance(@)]
    /\ UNCHANGED <<day, disabled, barred, first, faults>> /\ UNCHANGED books

\* The Transfer is refused: by a setting (the ACL is asked before the record is looked
\* for, the others after), or because the account is disabled, or was spent from since
\* it was listed.
Refuse(p) ==
    /\ run[p].at = "post"
    /\ \/ This(p) \in barred
       \/ records[KeyOf(p)] = Absent /\ (This(p) \in disabled \/ ~Covers(p))
    /\ run' = [run EXCEPT ![p] = Failed(@)]
    /\ UNCHANGED <<day, disabled, barred, first, faults>> /\ UNCHANGED books

\* A statement fails for any other reason.
Break(p) ==
    /\ Busy(p) /\ faults < MaxFaults
    /\ faults' = faults + 1
    /\ run' = [run EXCEPT ![p] = Failed(@)]
    /\ UNCHANGED <<day, disabled, barred, first>> /\ UNCHANGED books

\* The process ends.
Die(p) ==
    /\ Busy(p) /\ faults < MaxFaults
    /\ faults' = faults + 1
    /\ run' = [run EXCEPT ![p] = Ended("idle", 0)]
    /\ UNCHANGED <<day, disabled, barred, first>> /\ UNCHANGED books

Statement(p) == List(p) \/ Weigh(p) \/ Expire(p) \/ Repeat(p) \/ Refuse(p)

----------------------------------------------------------------------------
(* Clients, operators, the purge and the clock.                             *)

MayCall(r) == IF first[r] = Never THEN day \in FirstDays[r] ELSE day <= first[r] + RetryDays
Called(r) == [first EXCEPT ![r] = IF @ = Never THEN day ELSE @]

\* The first call of a request, or a retry that finds no record.  What bars the expiry of an
\* account may let its holder's commands through, as a rule about the source `worker` does.
Book(r) ==
    /\ MayCall(r)
    /\ records[r] = Absent
    /\ Holder[r] \notin disabled
    /\ available[Holder[r]] + Change[r] >= 0
    /\ available' = [available EXCEPT ![Holder[r]] = @ + Change[r]]
    /\ credited' = IF Change[r] > 0 THEN Add(credited, Holder[r], Change[r]) ELSE credited
    /\ spent' = IF Change[r] < 0 THEN Add(spent, Holder[r], -Change[r]) ELSE spent
    /\ records' = [records EXCEPT ![r] = day]
    /\ vouchers' = [vouchers EXCEPT ![r] = @ + 1]
    /\ first' = Called(r)
    /\ UNCHANGED <<day, disabled, barred, run, late, faults>>

\* A call that is refused, and may be retried.
Bounce(r) ==
    /\ MayCall(r)
    /\ records[r] = Absent
    /\ Holder[r] \in disabled \cup barred \/ available[Holder[r]] + Change[r] < 0
    /\ first' = Called(r)
    /\ UNCHANGED <<day, disabled, barred, run, faults>> /\ UNCHANGED books

SetStatus(a) ==
    /\ disabled' = IF a \in disabled THEN disabled \ {a} ELSE disabled \cup {a}
    /\ UNCHANGED <<day, barred, first, run, faults>> /\ UNCHANGED books

\* The status or the holder types of an asset are saved, or rules are reloaded.
SetBar(accounts) ==
    /\ barred' = IF accounts \subseteq barred THEN barred \ accounts ELSE barred \cup accounts
    /\ UNCHANGED <<day, disabled, first, run, faults>> /\ UNCHANGED books

\* PurgeIdempotency: records created before now - idempotency_retain are deleted.
KeptFewer(at) == at # Absent /\ at > day - Retain          \* Fault: a record of the last day too
Kept(at) == at # Absent /\ at >= day - Retain
Purge ==
    /\ records' = [k \in Keys |-> IF Kept(records[k]) THEN records[k] ELSE Absent]
    /\ records' # records
    /\ UNCHANGED <<day, available, disabled, barred, credited, spent, vouchers, first, run, late, faults>>

\* Midnight; no run lasts longer than RunDays of them.
Midnight ==
    /\ day < MaxDay
    /\ \A p \in Runner : Busy(p) => day < run[p].now + RunDays
    /\ day' = day + 1
    /\ UNCHANGED <<disabled, barred, first, run, faults>> /\ UNCHANGED books

Init ==
    /\ day = 0
    /\ available = Nothing
    /\ disabled = {}
    /\ barred = {}
    /\ credited = [a \in Account |-> [d \in Day |-> 0]]
    /\ spent = [a \in Account |-> [d \in Day |-> 0]]
    /\ records = [k \in Keys |-> Absent]
    /\ vouchers = [k \in Keys |-> 0]
    /\ first = [r \in Request |-> Never]
    /\ run = [p \in Runner |-> Ended("idle", 0)]
    /\ late = {}
    /\ faults = 0

Next ==
    \/ \E p \in Runner : Start(p) \/ Statement(p) \/ Break(p) \/ Die(p)
    \/ \E r \in Request : Book(r) \/ Bounce(r)
    \/ \E a \in Disableable : SetStatus(a)
    \/ \E accounts \in Bars : SetBar(accounts)
    \/ Purge
    \/ Midnight

Spec == Init /\ [][Next]_vars

\* The ticker starts the worker's run again and again, and its goroutine goes on.
Fairness == WF_vars(Start("worker") \/ Statement("worker"))
FairSpec == Spec /\ Fairness

----------------------------------------------------------------------------
(* Properties.                                                              *)

Places == [at : Running \cup Over, now : Day, list : DOMAIN Lists, row : Nat,
           seen : [Account -> Nat], amount : Nat, attempt : 1 .. MaxAttempts]

\* Types; a runner is at a row of its list.
TypeOK ==
    /\ day \in Day
    /\ available \in [Account -> Nat]
    /\ disabled \subseteq Account
    /\ barred \subseteq Account
    /\ credited \in [Account -> [Day -> Nat]]
    /\ spent \in [Account -> [Day -> Nat]]
    /\ records \in [Keys -> Day \cup {Absent}]
    /\ vouchers \in [Keys -> Nat]
    /\ first \in [Request -> Day \cup {Never}]
    /\ run \in [Runner -> Places]
    /\ \A p \in Runner : run[p].at \in {"weigh", "post"} => run[p].row \in DOMAIN Lists[run[p].list].rows
    /\ late \subseteq Account
    /\ faults \in 0 .. MaxFaults

Rolling == {a \in Account : \E l \in DOMAIN Lists :
              Lists[l].policy = "rolling_days" /\ \E i \in DOMAIN Lists[l].rows : Lists[l].rows[i] = a}

\* Points credited within the last Days days are never expired: whatever runs overlapped
\* and whatever was spent meanwhile, the account still has them, less what it spent in
\* those days.  (ExpireEngine computes the amount from an unlocked balance and later
\* entries; not claimed of a Transfer that was made after the midnight of its run.)
RecentPointsKept ==
    \A a \in Rolling \ late : \A d \in Day :
        d >= day - Days => available[a] + spent[a][d] >= credited[a][d]

\* Every key is posted at most once, although its record is purged: a client that retries
\* within the retention, and two runs of one day, do not post again.
PostedOnce == \A k \in Keys : vouchers[k] <= 1

\* More is due than was credited today (which may have come after the listing).
Overdue(l, a) == ExpireAmount(l, a, available[a], day) > credited[a][day]
Namesake(l, a) == \E i \in DOMAIN Lists[l].rows :
                      Lists[l].rows[i] # a /\ HolderId[Lists[l].rows[i]] = HolderId[a]

\* A run of today that ended without an error left nothing overdue, in any tenant and
\* asset, for a holder who shares the id with no other (that key has no holder type).
DoneMeansExpired ==
    \A p \in Runner : run[p].at = "done" /\ run[p].now = day =>
        \A l \in DOMAIN Lists : \A i \in DOMAIN Lists[l].rows :
            LET a == Lists[l].rows[i] IN ~Namesake(l, a) => ~Overdue(l, a)

\* Overdue points go in the end, however often runs fail, unless an account at or before
\* their own in the order of the run has points due and is disabled or barred: collect
\* returns at the refusal of that one in every run, and the accounts, assets and tenants
\* after it wait until somebody lifts it.
Ends(l, i) == /\ Lists[l].rows[i] \in disabled \cup barred
              /\ ExpireAmount(l, Lists[l].rows[i], available[Lists[l].rows[i]], day) > 0
Blocked(l, i) == \E m \in 1 .. l : \E j \in DOMAIN Lists[m].rows : (m < l \/ j <= i) /\ Ends(m, j)
OverduePointsGo ==
    []<>(\A l \in DOMAIN Lists : \A i \in DOMAIN Lists[l].rows :
            Overdue(l, Lists[l].rows[i]) => Blocked(l, i))
=============================================================================
