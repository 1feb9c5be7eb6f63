# A TLA+ model of ledger-hub

ledger-hub keeps points, balances and other assets of users in MySQL and moves
them by eight commands (Credit, Debit, Freeze, Capture, Release, Transfer,
Exchange, Reverse). This directory models the parts of it where an
interleaving, a crash or a retry decides whether money is counted once: the
bookkeeping kernel, exchanges with their rates and limits, the tie-outs of
reconciliation, the saga that moves money between two shards, the worker's
leases with the reconciliation jobs that run under them, the expiry of points
with the purge of idempotency records, the connector's inbox, the way of a
command through the gateway and the API's checks, and the console with its
tickets and reloads. `PROJECT.json` lists the runs, the mutants that show each
property can fail, the lines of source behind each definition, the hazards, the
findings and the theorems.

Paths below are relative to `src/`; `app/` is `internal/application/`, `db/` is
`internal/infrastructure/persistence/`.

## 1. Inventory

### 1.1 Bookkeeping kernel (`app/bookkeeping.go`, `reverse.go`, `guard.go`, `db/repos.go`)

State: accounts (available, frozen, status, version), freeze orders (amount,
status), entries and journals (append only), idempotency records. Operations:
`Execute` with the eight commands; operators set an account's status. Callers
are the HTTP API, the worker (expiry of freezes and points) and the saga.

Every command is one transaction at MySQL's REPEATABLE READ: the idempotency
lookup takes the snapshot, orders and old entries are read from it without
locks, the accounts are locked with `FOR UPDATE` (which reads the current row),
checked and updated under a version condition, and everything is recorded.
Hard: what was read from the snapshot is stale once the account is locked; two
executions of one request; several commands with different keys settling one
order; a failure in the middle. Correct when: no overdraft, one posting per
key, balances equal the replay of the entries, frozen orders equal the frozen
balance, settled orders stay settled, nothing moves on a disabled account.

### 1.2 Cross-shard saga (`app/saga.go`, `db/saga.go`)

State: one row per transfer (pending, out_done, in_done, compensating,
completed, failed) on the primary, an OUT leg on the payer's shard, an IN leg
on the payee's, a Reverse of the OUT leg, and the caller's idempotency record
on the payer's shard: five transactions in up to three databases. Drivers: the
request, the worker's tick every 15 s, the operator's retry and compensate.
Hard: nothing keeps two drivers apart, each works on its own copy of the row
and writes it back unconditionally; crash between any two transactions; an
error that does not say whether the leg was committed. Correct when: each leg
at most once, debit first, never both credited and refunded, the row tells
the truth, the caller's record only for a transfer that was made, and every
saga ends.

### 1.3 Exchange and limits (`app/exchange.go`, `fx.go`, `fx_service.go`, `limit.go`)

Exchange posts up to six entries on five or six accounts of two or three assets
in one transaction, with a rate snapshot, floor rounding and a tolerance.
Limits add usage inside the posting transaction. Hard: lock order against other
commands (the user's accounts by asset code, the clearing accounts from, then
to), a fee in the asset that is bought (two copies of one row, which the
version check refuses), usage counted once per matching rule, int64 narrowing.
Correct when: value per asset is conserved through clearing and fee accounts,
and a refused command uses up no limit.

### 1.4 Worker and leases (`internal/worker/runner.go`, `app/lease.go`, `app/jobs.go`, `db/lease.go`)

State: one lease row per job name, one row per job run. A worker that acquires
the lease runs the job and renews every third of the ttl; another takes over
after expiry; operators start jobs without a lease. Hard: the result of Renew
is ignored, so a job goes on after a takeover; nothing is released at the end.
Correct when: at most one holder at a time, and every job is safe under two
runners: two jobs that do the same work have two leases, operators need none,
and what a lease excludes depends on clocks and on renewals that arrive.

### 1.5 Reconciliation (`app/reconcile.go`, `db/reconcile_repo.go`)

State: jobs (queued, running, done, failed) with versions per key, diffs,
diff events. Enqueue reuses or adds a version, DrainQueued runs queued jobs,
RunJob compares entries with business lines, balances (L2), freezes (L3),
exchange legs (L4) and channel lines (L5). Hard: no claim, done before the
diffs are written, a crash while running. Correct when: versions are numbered
and earned, every queued job is taken up, a done job has its diffs, once.

### 1.6 Expiry and purge (`app/expire.go`, `app/jobs.go`)

State: none of its own but the job runs; it reads accounts and entries and
posts Transfers. Expired freezes are released under
`worker:expire:<freeze_id>`; points are moved to `point_sink` under one key per
asset, holder and day; idempotency records are deleted after the retention.
Hard: the amount is computed from a balance and entries read at two times
without a lock, two runs (worker and operator) of one day, a run that lasts over
midnight, one refused Transfer that ends the whole run, a retry after the purge.
Correct when: points credited lately are never taken, no key is posted twice
although its record is gone, and what is due is taken in the end unless a
Transfer before it is refused for good.

### 1.7 Connector inbox (`internal/connector/`, `db/inbox.go`)

State: one row per message (pending, retry, done, dead; attempts), the
directory of files, Kafka's offset. Ingest (HTTP, files, Kafka), DrainDue and
Replay process a message and write the row back unconditionally. Hard: two
processors of one message, order events out of order, five attempts while the
API is down, a result whose write is ignored. Correct when: done and renamed
mean posted, every row is settled in the end, and a file that can be posted is
(that it is posted once is the kernel's `ExactlyOnce`).

### 1.8 Gateway (`internal/gateway/server.go`, `db/nonce.go`)

State: one nonce row per signed request, a counter per second and limiter.
`auth` checks stamp, signature (V1 or V2), tenant and source, consumes the nonce,
the limiters count, the proxy forwards with the tenant's header set. Hard: the
stamp is checked before the nonce is inserted and old nonces are deleted
meanwhile, the limiter's second is read before its lock, gateway and API each
work out the tenant, the gateway from a body it may not be able to read, retries
with lost answers. Correct when: a nonce passes once per window, no second admits
more than its rate, a command whose body was read is posted in the tenant that was
granted, and what the caller is told is so.

### 1.9 HTTP API and console (`internal/iface/http/`, `domain/console.go`, `app/configrev.go`, `db/configrev.go`)

State: the diff tickets with their events, the record of operators' actions, the
access rules and limits in force, config revisions. A command passes `tenantID`,
`Ensure` and `Check`; the console has four roles; a ticket is read, changed and
written back as a whole; the file watcher and operators reload rules and limits.
Hard: two operators on one ticket, one statement of several failing, reloads
that overlap, a crash between a reload and its revision, a file changed before
the watcher looks, put back with an older mtime, or not readable when the watcher
tries. Correct when: a closed ticket is on record, revisions say what is in force,
and a good file that the watcher can tell is new takes effect.

### 1.10 Client (`pkg/client/client.go`, `pkg/sign/`)

`do` tries a bad gateway again, each try stamped and signed anew. It is modelled
with the gateway it talks to.

### 1.11 The rest

Tenants, assets and accounts are rows written one at a time; shards are a hash;
binaries, metrics, logs and demo data have no protocol of their own.

### 1.12 How the parts meet

The API, the worker and the connector (through the API) call `Execute`. The
saga calls `transferSameShard` and `reverse` of the kernel for its legs, and
what it relies on is what the kernel's `ExactlyOnce` says. Reconciliation reads
the kernel's tables. The worker calls saga, reconciliation, expiry and purge.
Every client's command comes through the gateway; the console starts jobs,
replays, reruns and compensations of the other parts, and `Gateway`, `Expiry` and
`ConnectorInbox` rely on the kernel's `ExactlyOnce` too.

## 2. Modules

| module | models | on top of |
|---|---|---|
| `Ledger` | the kernel: two-phase commands over one tenant, source and asset | |
| `LedgerTies` | reconciliation's L2 and L3 and the accounts of orders and value | `Ledger` |
| `MCLedger` | menus of requests for TLC | `LedgerTies` |
| `LedgerProofs` | proofs about `Ledger` and `LedgerTies` | `LedgerTies` |
| `AtomicTransfer` | abstract: money goes once and ends where the outcome says | |
| `TransferSaga` | one saga, its row, legs, records and drivers | `AtomicTransfer` |
| `MCTransferSaga` | symmetry for TLC | `TransferSaga` |
| `SagaProofs` | proofs about `TransferSaga` | `TransferSaga` |
| `JobLease` | the leases of the worker's jobs, with clocks | |
| `ReconQueue` | reconciliation jobs: enqueue, drain, run | |
| `ReconWorkers` | composed: replicas run `reconcile` and `queued-reconcile` under leases beside callers and operators | `JobLease`, `ReconQueue` |
| `MCReconWorkers` | clocks and keys for TLC | `ReconWorkers` |
| `ReconProofs` | proofs about leases, versions and the composition | `ReconWorkers` |
| `ConnectorInbox` | the inbox, the file poller, requests and replays | |
| `MCConnectorInbox` | an order's two events for TLC | `ConnectorInbox` |
| `InboxProofs` | proofs about `ConnectorInbox` | `ConnectorInbox` |
| `Exchange` | exchanges of several users and assets, rates, limits, their Reverse, and the L4 check | |
| `MCExchange` | requests, rates and rules for TLC | `Exchange` |
| `ExchangeProofs` | proofs about `Exchange` | `Exchange` |
| `Expiry` | runs of the point expiry, clients' retries, the purge, days | |
| `MCExpiry` | accounts, lists and requests for TLC | `Expiry` |
| `ExpiryProofs` | proofs about `Expiry` | `Expiry` |
| `Gateway` | a command from client to books: client, gateway, API's checks | |
| `MCGateway` | calls and configuration for TLC | `Gateway` |
| `GatewayProofs` | proofs about `Gateway` | `Gateway` |
| `Console` | roles, tickets, reloads and revisions | |
| `MCConsole` | what the operators ask, for TLC | `Console` |
| `ConsoleProofs` | proofs about `Console` | `Console` |

### 2.1 Ledger and the code

A command is `Begin...` and `Post...`. `Begin` is everything up to the first
lock: `checkIdempotency` finds no record (a found one answers or refuses and
changes nothing), and the order or the voucher to reverse is read from the
snapshot into `call`. `Post...` is the rest of the transaction, one step,
because all it writes is guarded by account locks it holds; between the two
anything may commit. `Rollback` is every way to end without commit: a refused
check, a deadlock victim, a crash. `Record` is `writeJournal`, `writeEntry` and
`saveIdempotency`; its guard is the unique index. `CloseOrder` is
`FreezeRepo.UpdateStatus` (conditional), `ShrinkOrder` is `FreezeRepo.Update`
(unconditional, from the stale copy). `status` is written by `SetStatus`
without the version. The system subjects `point_issuance` and `point_sink`
may go below zero.

A posting is one record with a leg per account instead of a journal and
entries; ids, times, source and asset are left out, `biz` names the freeze
order a Freeze creates. The caller's retry is the same request chosen again.
Expiry is a Release with a biz_no of its own. `HashKey` keeps the fields that
`requestHash` digests, so it has no counterparty.

### 2.2 LedgerTies and the code

`Replayed` is `reconstruct`; `FreezeSum` is the sum of `freezeTieOut`. The first
two invariants say that reconciliation would report no difference on any state;
`OrderAccounted` and `ValueAccounted` say what it does not look at: that what was
set aside in an order was taken out of it once, and that no value is made.
All of them are sums over the journal or over accounts (`SumFunction` of the
community modules), not counters beside it.

### 2.3 TransferSaga and the code

A driver is one execution of `resumeSaga`; `driver[d].at` is its next
statement. `BeginLeg` is a leg up to its idempotency lookup, `CommitLeg` the
rest, `RefuseLeg` the unique index, `FailLeg` a refusal, `Save` the write of
the row that belongs to the position (`Saves`, `Then`), `Finish` is
`finishSaga`'s transaction. `key` holds which form of the request each
record's hash is of: the worker rebuilds the request from the row and forgets
`to_asset_code` and `related_biz_no` (`Extras`). With `Outages` a shard may
also fail before a leg's lookup, lose the acknowledgement of a commit, or fail
to write the saga row. The balance of `pending_settlement` is not kept: it may
go below zero, so it never refuses a leg.

### 2.4 JobLease, ReconQueue, ReconWorkers and the code

`Acquire` is `claim` in its transaction (the row is locked, so it is one step)
followed by the start of the job inside `Hold`; `Renew` is `Hold`'s ticker, and
a renewal that fails or comes late is a step that does not happen, for at most
`Slack` ticks. `Finish` leaves the row as it is: nobody releases a lease. `Die`
is the end of a process: its successor has another instance id (`NewLease` adds
a uuid), so what the old one held is no one's and stays valid until it expires.
`left` is the time a row has left on the slowest clock; a replica whose clock is
`Skew` ahead sees less and writes more.

A runner of `ReconQueue` is one goroutine in `Enqueue`, `DrainQueued` or
`Jobs.track`; `run[r].at` is its next statement. Every statement is a step
because no transaction is around them, and one that fails changes nothing and
goes to the caller (`Fail`); a read that fails inside `RunJob` marks the job
failed (`MatchFails`, `MarkFailed`). `Recover` is `track`'s retry of the whole
job. A drain runs the jobs it listed in order of id and reads each again before
(`Get`). What a run finds is not modelled: `batches` counts, per kind of drain,
how often differences were written for a job. `ReconWorkers` takes both modules'
steps together: `Start` acquires the lease and begins, the last statement
finishes the hold, `End` kills both.

### 2.5 ConnectorInbox and the code

A request (`handleMQ`, `replayInbox`) and the poller (`PollFiles`) are
processes; `proc[p].at` is the next statement and `proc[p].here` the copy of the
row it works on. `Insert` is `InsertIfAbsent`, `Get` the read after it, `Drain`
is `ListDue`, `Reopen` is `Replay`'s first `Update`, `Apply` is `ApplyMQ`
through gateway and API, `Save` is the last `Update`, whose failure
(`SaveFails`) nobody sees, and `Leave` is what the caller does next: rename the
file or not, go on, or answer. `AfterTry` is the status `process` decides on.
Attempts stop counting at `MaxAttempts`: beyond that the code only asks whether
they are at least five. The ledger is a set of posted commands with, for each,
those it needs (`After`: a Capture its Freeze); that it posts once and answers
replays is `ExactlyOnce` of `Ledger`. `GiveUp` is a call that ends in an error
for the client (after `Client.do`'s own retries) and was executed or not.

### 2.6 Exchange and the code

Two phases as in `Ledger`. `BeginExchange` is the idempotency lookup, whose
snapshot also gives the rate (`Quoted` is `resolveQuote`), and the copy of the
rules that `Check` takes; `PostExchange` is the rest up to the commit.
`AddUsage` writes the usage row early and the transaction keeps its lock, so
what it reads is still the row at the commit and the whole phase is one step.
A posting keeps its entries one by one, in the order of the code, because L4
reads them back: `FxTieOut` is `fxTieOut` for one voucher and one job, which is on
all assets or on one and is given only the entries of that asset (`Seen`). A
request may bring a rate of its own and a `rate_id` beside it, as the design's
example does (通用账本中台技术方案.md:237); `Quoted` then takes the rate and looks
nothing up. `Updated` is all the
`UpdateBalances` of a voucher together. A rate is a quotient of smallest units
(precisions worked in), so `ExpectedToAmount` is the code's floor. `FeeCovered`
has the case where the fee is in the asset bought: the second copy of that row
fails the version check and the exchange is refused always. `Matching` are the
rules that apply to an asset; each adds the amount to the one usage row and the
next one reads it (`Applied`), so a sale under two rules counts twice. `SaveRate` is one
`Save`, by the feed or an operator; the feed saves its pairs one after the
other, each a statement of its own. `Abort` is every end without commit.

Left out: accounts and assets that are disabled (in `Ledger`), quotes dated in
the past and validity periods, the day's change, a second source system, rules
that filter by anything but the asset, alerts, and routing to shards.

### 2.7 Expiry and the code

A runner is one execution of the job (`track` around `ExpireEngine.Run`): the
worker's ticker or an operator's start; the lease binds only the worker, so
nothing keeps two apart. `List` is `ListByTenant` for one tenant and asset with
its balances, `Weigh` reads the entries of one account and computes
`ExpireAmount` (`expireAmount`, both policies), and `Expire`, `Repeat` or
`Refuse` is the Transfer: it commits, finds its key used (the stored answer and
an idempotency conflict are passed over alike), or is refused: by the account's
status, for want of points, or by a setting. `barred` holds the accounts a setting
refuses, whichever it is: an asset that is disabled (`bookkeeping.go:426`;
`ListByTenant` and the loop over assets do not ask) or no longer takes the holder
type, a rule of the limits (`:416`) or of the ACL. `SetBar` sets it and lifts it for
a set of accounts at once. Those commands of clients that it hits too are refused
or not, as the setting may be about the worker's Transfers alone. `Refuse` and
`Break` end the whole run, which `track` starts again from the top until
`MaxAttempts`. The key has asset, holder id and date, but not the holder's type
(`HolderId` may map two accounts to one id). `credited` and `spent` are the sums
of Credit and Debit entries on or after a day, which is all the policy reads.
Only Credits and Debits move points beside the expiry: a Transfer into an
account is not a lot for the code, and is left out. `Purge` deletes records
older than `Retain`; a client retries at most `RetryDays` after its first call;
`Midnight` lets a run last over at most `RunDays` of them. Those are assumptions
about the outside, and `PurgeSafe` shows that at most `Retain` is enough.

### 2.8 Gateway and the code

A call is one command of a client with a biz_no of its own; a request is one try
of it as the gateway gets it, the first time or, when the network copies it, the
second. `Send` is `roundTrip` (fresh stamp and nonce per try), `Heard` is what
`do` makes of an answer. `Arrive` is `auth` up to the nonce; `Consume` is
`NonceRepo.Consume`, an insert and a delete whose result is ignored, which is why
the pruning may or may not happen; `Queues` and `Count` are `over`, split at its
lock because `now` is read before it; `Ensure`, `Check` and `Book` are the
handler. `GatewayTenant` and `ApiTenant` are the two processes' own ideas of the
tenant. They read the body differently: the gateway as one JSON value to its end,
and when that fails it looks at no field and goes on (`server.go:201`), the API as
the first value (`ShouldBindJSON`). `Parses` are the calls whose body the gateway can
read; only of those does `Agrees` compare source and tenant. `posted`, a set of
tenants per call, is what the kernel makes of it
(`ExactlyOnce`). `Book` that ends in `bad_gateway` or `error` has committed;
`Unreachable` has not. `passed`, `admitted` and `spare` are history for the
properties.

Left out: refusals of the kernel (they are answers like `ok`), nonces in memory
(lost at a restart), the audit row (written after the answer, its error
ignored), bodies that the API refuses, bodies and signatures as such (`Signed` is
the tenant they cover).

### 2.9 Console and the code

A request is one operator's; `Arrive` is `consoleRole` and the route
(`ConsoleAllowed`), `Read`, `Update`, `Event` and `Record` are the statements of
`AssignDiff` and `ResolveDiff` with `Jobs.Record` after them, `Load` to `Show`
those of a reload, which for the handler is followed by a save of its own
(`round`). `Update` writes the ticket as read. `LastVersion` and `Insert` are
`ConfigRevisionRepo.Create` under its unique index. `Start`, `Watch`, `Notice`
and `Crash` are the process and its watcher, which polls the mtime and knows the
new one before it reads the file. `Edit` may leave the file with an mtime that is no
later than before, and `Load` may fail on a good file. `ask` is
chosen when a request arrives, from `Ask`. Contents of the file are model values
that stand for rules and limits together. `overlap`, `unseen`, `unsaved` and
`stale` are history: they name the cases the properties except.

Left out: a touch of the file without a change, a failing `Stat` (the watcher
tries again at the next tick), the one step in which `Peek` reads the two
sets under two locks, and an unlocked slice that is torn (contents are as long).

## 3. Runs

| run | instance | shows |
|---|---|---|
| `settle` | one user, two freeze orders, full Captures, Releases, expiry, Reverses, retries, an operator disabling, two handlers, 7 postings | orders and frozen balance stay tied out, each order is settled once, value leaves only through Capture, final orders stay final, disabled accounts untouched |
| `money` | two users, credits, debits, transfers, a freeze, partial captures, reversals, two handlers, 6 postings | no overdraft, one posting per key, balances equal the replay |
| `partial_race` (fails) | one order, two partial Captures | frozen orders no longer add up to frozen |
| `saga_serial` | one driver, 4 refused legs, 4 crashes | the saga implements `AtomicTransfer`, and every saga is answered |
| `saga_overlap` | two drivers, operators, outages, 2 failures, 2 crashes | legs once, debit first, the caller's record is backed |
| `saga_two_drivers` (fails) | two drivers, no fault at all | payee credited and payer refunded |
| `recon` | two replicas, both jobs, a caller who forces versions, two jobs, one failure or crash | leases exclude, versions are numbered and earned, no kind of drain reports a job twice, every queued job is taken up |
| `inbox` | created by HTTP, paid by file and HTTP, one request at a time beside the poller, two attempts, two replays, two faults | done and renamed mean posted, every row is settled, a file is posted once it can be |
| `exchange` | two users, three assets, six exchanges with and without fees, one with a rate of its own under an unknown `rate_id`, two Reverses, three quotes of two rates, two sets of rules, two handlers, 3 postings | balances are the replay of entries, users are covered, limits hold across reloads, usage counts what was posted, legs carry the rate they were priced at, L4 over all assets is clean without fees but for that one |
| `expiry` | a year-end and a rolling asset, three accounts, two of one holder id, three credits, a debit, worker and operator, four days, one fault, an account and an asset that may be disabled | recent points stay, nothing is posted twice, a run that is done has taken what was due, overdue points go in the end unless a refused account comes before them |
| `edge` | four calls of two clients (V2 with retries and a copy, V1, V2 without a tenant, V1 with a body only the API can read), one limiter, three seconds, one fault, one change of tenants or rules | rates hold, nonces for the window, commands are posted as meant unless their body was not read, callers are told what is so |
| `console` | one operator assigns or reloads, another closes with a role and a tenant that may or may not, two changes of the file with later or older mtimes, one fault | tickets are on record, revisions say what is in force, a file the watcher can tell is new takes effect |

Bounds. `MaxPostings` bounds the journal; the menus are small enough that the
bound only stops reversals of reversals' targets being repeated under new
names: every command of a menu fits in it together with its conflicts. Two
handlers are enough for each race listed in the hazards, because every race is
between a stale read of one command and one commit of another; the commits
before it need no handler of their own. Amounts are 1 to 3: they only need to
tell "covered" from "not covered" and partial from full. `MaxFailures` and
`MaxCrashes` are above the number of transactions on the longest path of a
saga divided by the drivers that could share them (four legs and saves), so
each place can fail and a second place after it. Handlers and drivers are
interchangeable and are made symmetric in the runs without liveness.

In `recon` a tick is half of the ttl (the code renews each third of it), so a
lease expires within a run, is taken over, and `Slack` = 1 lets one renewal
come late; two jobs of one key suffice for a version to be raced for, and the
one fault falls on any statement or process. Its clocks agree: clocks that
differ are covered by the theorem, for all `Skew` that leave
`Slack + Skew[v] - Skew[w] < TTL`, and that bound is the theorem's content.
In `inbox` two attempts stand for five (first, last), and the poller and one
request race for one message; three at a time were too many states. Replays are
bounded because two operators who replay one message at each other forever keep
it pending (each writes back the attempts it read): with two requests at a time
and replays unbounded TLC shows that, and nothing in the code or the documents
denies it.

In `exchange` three postings hold an exchange, the one that competes with it
for money or limit, and a reversal, or an exchange with two reversals. The
amounts are chosen so that a sale alone fits and two do not: by the limit (3
and 4 against 6), by the balance (2 and a fee of 1 against 4, twice), by what
the rate leaves after rounding (3 at a tenth is nothing). One of the sets of
rules has two that match a sale, so usage is counted twice. Two quotes are one
replacement between reading and committing.

In `expiry` the retention, the retries' reach and the days a run may outlast are
one day each, the largest the assumptions allow against each other, so a purge
falls between two calls and a midnight into a run. Rolling points last one day;
four days bring one credit's expiry, a second credit that must stay, a debit
between listing and Transfer, and January 2 for the year-end asset. The asset
that may be disabled is the first of the run, so everything can be behind it. In
`edge` the window is one second of three, the SDK's clock is right or ahead by one,
and the rate is one, so a nonce is pruned while a copy of its message waits, once
when the stamp is too old by then and once when it is still accepted, and a late
request finds a younger bucket. The calls are made one after the other, the
SDK's first: its tries, its copy and the requests that a fault has left on their way
meet the limiter, the nonces and the changes of the calls after it. In `console` two changes
of the file include one to a file that does not parse and any mtime from the first
on, and one fault is a statement, the reading of a good file, or the process.

`CHECK_DEADLOCK FALSE` everywhere but in the `exchange` run (rules can always be
reloaded): callers and operators may stop asking, a saga that is completed has no
further step, and the bound on days, seconds, edits, faults or jobs ends the
rest.

Fairness of the saga's `FairSpec`. `WF(Advance(d))`: a driver that runs
executes its next statement; it is weak, and a driver may still crash or be
refused instead, a bounded number of times. `WF(Resume)`: the worker's ticker
fires every 15 s while an open saga exists and some driver is idle
(`runner.go`). Nothing is assumed about callers or operators.

Fairness of `ReconWorkers`. Some replica's ticker starts a job that can be
started (`Start`), a replica goes on with its job and renews (`Step`, `Renew`),
and clocks advance (`Tick`). Callers and operators may stop anywhere, and
crashes and failures are bounded. Of `ConnectorInbox`: the poller's ticker
(`PollerStep`), goroutines that have begun (`Work`) and backoffs that pass
(`Wait`). Requests and replays may never come. It is the poller that needs
`connector.mq_dir` to be set.

Fairness of `Expiry`: the worker's ticker starts a run again and again and its
goroutine goes on (`Start`, `Statement`); nothing is assumed of operators,
clients, the purge or the clock. Of `Console`: the process is restarted, the
watcher looks, ticks and its statements end; operators need not come. `Gateway`
states no fairness: everything it promises is safety.

## 4. Theorems

`LedgerProofs`, for any users, menu, handlers, and no bound on postings that
matters: from `Spec` follow `TypeOK`, `NonNegative`, `ExactlyOnce` and
`DisabledUntouched`, and, assuming that Captures take whole orders,
`OrderLifecycle`. The only assumptions on the constants are those of `Ledger`,
among them that users are finitely many. `ExactlyOnce` is not inductive by its own statement of
journal positions alone; the invariant is its three parts together with
`TypeOK`, that the voucher a Reverse is about to undo exists
(`OriginalPosted`), and that the order named by a posted Freeze is the one it
created (`FreezeNamed`). One lemma per action shows it preserved. The
assumption of the last theorem is needed: partial Captures of a stale order
break the diagram (section 5).

The tie-outs of `LedgerTies` are proved in the same module. `BalancesAreReplayed`
(L2) and `ValueIsAccounted` hold of `Spec` as it is; `OrdersTieOut` (L3) and
`OrdersSettledOnce` assume `Undisturbed`: every Capture takes its whole order, or
there is one handler. Without it they are false, which is what the run
`partial_race` shows. The argument has three parts.
- Sums. `SumFunction` folds a set in an order of its own choice, and the
  provers have no induction over data. What they have is that a finite set has no
  endless descent of subsets (`FS_StrictSubsetOrderingWellFounded`), stated with a
  set of subsets in place of a predicate (`SubsetInduction`); from it the fold
  exists, is unique, and does not depend on the order (`SumRemove`). The lemmas
  used are then few: `TotalAppend` (one index more), `TotalChange` (one value
  changed), `TotalAdd`, `TotalAt`. `ExchangeProofs` has the same section again,
  because it shares no constants with this module.
- Commands. `Posts(c, p)` says of every command what its one voucher does:
  the entries are what happens to the balances (`Entered`), they are on the account
  of one order or add up to nothing (`Concerns`), and what remains in the order
  changes as the frozen balance does (`Balanced`). One lemma per command shows it
  (`PostFreezePosts` to `PostReversePosts`), and the tie-outs then follow from
  `Posts` without a look at the commands (`PostsKeepTies`, `BalanceStep`,
  `ValueStep`, `FreezeTieStep`, `OrderStepAccounted`).
- The invariant (`TieInv`): the copy of an order that a handler holds, read before
  the lock, is of an order that exists and of its holder (`OrdersKnown`), and
  vouchers stay on the account of their order (`LegsOfOrders`). Where nothing
  disturbs it, the copy also has the order's amount (`CopiesCurrent`): this is what
  a partial Capture beside another command breaks.

`SagaProofs`, for any number of drivers, crashes and failures, operators,
outages and every `Extras`: `SagaTypes`, `LegsOnce`, `PaidFirst`,
`AnswerBacked`. None of the last three is inductive: whether a driver may credit
the payee depends on a row that any other driver may have overwritten. The
invariant says that neither the row nor any driver's position is ever ahead of
the idempotency records of the legs (`RowBacked`, `DriversBacked`), that the
records appear in the order of the legs, and that a leg is posted exactly when
its record is there. What saves the program is that a row only claims what some
driver had seen committed, and commits are never undone, so a stale copy is late
but never wrong about a leg that was posted.

`SoloImplements` is the refinement: every step of the saga is a step of
`AtomicTransfer` or a stutter, and so `Spec => Implements`. It assumes `Solo`:
drivers that do not overlap, no outages, no operator who compensates, and a
request that the row keeps (`Extras # "to_asset_code"`). Each of the four is
needed, and section 5 says what breaks without it. The invariant (`SoloInv`) is
that the only driver's copy agrees with the row and the records up to the one
statement in flight (`Coherent`, `Placed`), and that a leg's record has the form
of the request the driver will send again (`OneForm`), so a repeated leg is a
replay and never a conflict.

`ReconProofs`. `LeaseExclusion`: leases alone, for any replicas, clocks and ttl.
The invariant (`LeaseInv`) is that whoever runs a job is the row's holder and
the row's remaining time plus the time since its last write is at least the ttl
on its own clock; with the age below `Slack` no other clock can see the row as
expired. `WorkersExclude` says the same of the composed system, whose steps are
lease steps whatever the queue does. `ReportsOnce` is `OneReportPerDrain`: by
exclusion at most one runner per kind of drain is between listing and reporting,
what it has listed was queued, and a job that was taken up never is again
(`ReconInv`). It assumes `Manual = {}`: operators who start a drain by hand
(docs/05:438) bypass the lease, and then it is false. `ReconTypes` is the type
invariant under the same assumption. `VersionsNumbered` is `VersionsEarned`: the
invariant (`VersionsInv`) adds that a job that is failed was once failed (`unmet`
is never forgotten), that no two jobs have one key and version, and that whoever
is about to insert has a version that is 1 or follows one in the table (`Follows`);
together with the unique index the inserted version is then exactly the next one,
however old the read it comes from.

`InboxProofs`, for any messages, files, requests, attempts and failures:
`DoneMeansPosted`, `RenamedMeansPosted` and `InboxTypes`. The invariant adds
that whoever is about to save success has its command in the books
(`Backed`). Rows are overwritten from stale copies at will; what helps is that
the books only grow, so a stale success is still true.

`ExchangeProofs`, for any requests, rates, rules and handlers. `LegsPriced`:
the invariant (`PriceInv`) is that the rate a command holds is a rate and its
request one a caller made, and that every leg is priced; the lemma
`LegIsPriced` shows that a leg built from what the command holds is priced,
whatever the snapshot it names says by then.
The other five need to know what a commit does to the books, so every step is
first shown to be an exchange (`Buys`), a reversal (`Undoes`) or neither (`Keeps`),
under an invariant (`BookInv`) on what handlers read before their locks and on the
one-to-one correspondence of vouchers of exchanges and legs (`LegsOfVouchers`).
`BalancesAreEntries`: the entries of an exchange sum, per holder and asset, to what
its update adds (`NetOfExchange`), and those of its reversal to the negative.
`UsersStayCovered`: an exchange takes no more than was found under the lock, amount
and fee together where both are in one asset (`FeeCovered`), and a reversal takes
what it checked. `FeelessExchangesTieOut` is level 4: for a job over all assets the
voucher of an exchange without a fee and its leg agree, unless the request brought
its own rate under a `rate_id` nobody saved, and for a job on one asset they never
do; with a fee, they may not (section 5).
`UsageCountsPosted` and `SalesWithinDailyAmount`: a reload may change the rules
between any two exchanges, so the invariant (`UsageInv`) does not say what a usage
row is but between which multiples of the sales it lies: the fewest and
the most rules that match the asset in any configuration. That is enough for the
daily amount, since a sale is refused by what its own copy of the rules makes of
the row, and the row counts at least the sales.

`ExpiryProofs`, for any accounts, lists, credits, clients, runners and days:
`ExpiryTypes`; `PurgeSafe`, whose invariant (`Used`, `Timely`) is that a posted
key has its record for as long as a client or a run may still use it, which needs
`RetryDays <= Retain` and `RunDays <= Retain`, the assumptions; and `RecentKept`.
Its invariant is `Lots` (what was credited since a day shrinks with the day, and
nothing was credited in the future), `Dated` (an expiry's record is no older than
the date in its key, so a key of today is never free again before midnight) and
`Sound`: what a run of today computed from a balance and entries it read without a
lock, an account that has not been expired since can still give without its recent
points. A second run's Transfer finds the first one's key; that, and not a lock,
is what keeps the stale amount from being taken twice. `DoneExpired` is
`DoneMeansExpired`. Whether something is overdue depends on balances that clients
change while the run is on its way, and on records that may be there because
another run was first. The invariant (`TodayInv`) says of an account that is the
only one of its id in a list: once a run passed it today, or once its key of today has a
record, nothing of it is overdue; of a run, that an account has no more than was
read of it and what it was credited since (`Listed`), and that the amount about to
be taken is all that is due of what was read (`Weighed`). It is kept because what is due
only shrinks within a day (`Milder`: whatever is credited is credited today), and it
starts anew at midnight because by `Dated` no key of the new day has a record.

`GatewayProofs`, for any calls, clients, clocks, windows, rates and bounds:
`GatewayTypes`; `GatewayNonces`, whose invariant (`Held`) is that a nonce that was
let through is either still stored or was let through more than a window ago. That
makes the prune safe against every copy of a message whose stamp was not ahead of
the gateway's clock, even one that had its stamp looked at before; the theorem says
so, and that the other stamps outlive their nonces is its exception (section 5);
`GatewayRate`, whose invariant says what the
bucket's count is worth: the admitted of its second are at most the count, those
of later seconds none, and each return to an earlier second is paid for by
`spare`; `GatewayTenants` (`Bonafide`: whoever is behind `auth` is authentic;
`OneTenant`: both processes mean the same tenant if the gateway could read the body
or the body names none; where neither is the case the theorem promises only that the
gateway's tenant was granted); and `GatewayTold`, where the
invariant ties each answer to what became of its requests (`Told`): a refusal
closes its request, and an open request of a first try that was not copied is the
only one the call has (`Sent`, `Open`, `Early`, `Closed`).

`ConsoleProofs`, for any requests, roles, tickets and owners:
`TicketsRecorded`. `TicketsOnRecord` looks only at what is finished; the invariant
(`ConsoleInv`) adds what a request under way carries. A ticket that was read
closed was closed by one who may close it (`ReadClosed`), so an assignment that
writes all of it back does not make up a closing; a request comes to the record
of actions only with its event or revision in the table (`Recorded`); and once it
has written its closing, the ticket is closed or on the list of those a stale
assignment reopened (`StaysClosed`).
`InForceOnRecord` is `InForceRecorded`. `RevsInv`: the versions are exactly 1 to the
number of revisions, and no reload knows a later one, so an insert that the unique
index lets through is the next. `ForceInv`: as long as no two reloads overlapped there
is one under way at most, and what it has loaded, put into force or is about to save
is tied to what is in force at each of its statements (`Config`); the latest revision
is what is in force unless a save is outstanding or was lost. Both were checked by TLC
as invariants of `console`, as `TodayInv` was of `expiry`.

Every invariant, action property and refinement that a passing run checks is thus
a theorem. Only checked by TLC: liveness (`Answered`, `QueuedDrained`,
`RowsFinish`, `FilesApplied`, `OverduePointsGo`, `FileTakesEffect`), which needs
ENABLED and is out of the prover's reach, and what breaks: `AllOrNothing`, and
`FreezeTieOut` where captures are partial and race. `RECURSIVE` is not used.

## 5. Where code and documents part

Shown by a run: partial Captures race (`bookkeeping.go:355`), and two drivers of
one saga (`saga.go:133`).

Met while modelling, and not given a run of their own:

- An error that hides a commit (`saga.go:181`): a lost acknowledgement of the IN
  leg, or a failed write of `in_done`, counts as a failed leg, and the OUT leg is
  reversed although the payee was credited.
- `resolveQuote` does not compare the pair of a named `rate_id` with the
  request's (the model's callers name one of their pair).
- A `rate_id` that comes with a rate of its own is not looked up
  (`exchange.go:252`; docs/05:328 asks for one of the tenant's): the exchange is
  posted and L4 reports its `rate_id` as missing (`reconcile.go:613`). The design's
  own example sends such a pair (通用账本中台技术方案.md:237). `FeelessTieOut` excepts it
  (`Untraced`).
- A job on one asset is given the entries of that asset only (`reconcile.go:176`), so
  its L4 finds fewer than two assets in every exchange and reports each one
  (`reconcile.go:592`). `FeelessTieOut` states that.
- `FxRateRepo.Save` with a known `rate_id` replaces the rate and leaves pair and
  tenant as they were (`db/phase3_repos.go:108`), so a rate can be saved under
  another pair; and a leg's `rate_id` does not lead back to the rate it used
  (the leg's own `rate` does).
- Every matching rule adds to the one usage row (`limit.go:107`): with two rules
  a user gets half of the daily amount.
- Alerts are written in the transaction of the command they refuse, so they
  are rolled back with it (docs/01:102 lists them as persisted).
- A fee in the asset that is bought is always refused by the version check.
- A partial Capture that overlaps a Release writes `frozen` back over
  `released` (`db/repos.go:448`), against the diagram of docs/05 7.4.
- `requestHash` leaves out the counterparty (docs/05:225 lists it): a Transfer
  to somebody else under a used biz_no is answered as a replay.
- A voucher can be reversed twice under two biz_no; `posted / reversed` of the
  design's journal status is never written.
- The L2 formula of the design document (available + frozen = opening + IN -
  OUT) fails after the first Freeze; `reconstruct` replays per command instead,
  and that is what `BalanceTieOut` states.
- Reversing a Release takes the amount from available and does not restore it
  to frozen: the amount leaves the books (`ValueAccounted` counts it).
- `SagaRepo.Update` can put a completed saga back to an open status.
- An operator can compensate a saga that stopped in in_done (`saga.go:95`).
- A resumed leg of a request with `to_asset_code` has another hash and is
  refused; for the IN leg that starts a compensation (`saga.go:140`).
- A saga finished by the worker stores a hash without `related_biz_no`, so the
  caller's retry is refused as a conflict.
- `ListOpen` returns the newest 50: older open sagas starve.
- A transfer refused for lack of money stays pending and may be executed later.
- The jobs `reconcile` and `queued-reconcile` have a lease each and drain the
  same queue, so two replicas can run one job side by side and each write its
  differences, under ids of their own; docs/01:118 calls the jobs mutually
  exclusive by lease.
- A reconciliation job whose runner dies stays running: it is not drained
  again, and Enqueue reuses it as if it were going to finish.
- A renewal that fails is ignored (`lease.go:126`): the job is not told.
- `DrainDue` is called by `PollFiles` alone (docs/05:500 draws it as timed):
  without `connector.mq_dir` no message is retried.
- Only DrainDue honours the limit of five attempts: a file, a redelivery and a
  replay process a dead message again, and Replay does not reset the attempts,
  so the first failure makes it dead again.
- A Kafka message whose insert failed is not committed, but a later one commits
  past it.
- `pending_settlement` is not zero while sagas are open, so reconciliation
  reports differences for transfers in flight.
- An exchange with a fee is reported by L4: it compares the leg's amounts with
  the vouchers' sums, fee included (`reconcile.go:604`).
- A saga whose `finishSaga` fails for good stays in in_done: every tick tries the
  same and nothing else is done (`saga.go:264`).
- A reconciliation job is marked done before its differences are written
  (`reconcile.go:241`, `:244`; docs/05:469 has the differences first): an error or
  a crash between leaves a job done without them, and nothing runs it again.
- Expiry: a run that lasts over midnight may take points that are recent by then
  (`late`). One account with points due whose Transfer is refused for good ends every
  run there (`expire.go:95`), and the accounts, assets and tenants after it wait
  (ReleaseExpired goes on). It may be a disabled account, an asset that is disabled
  (`bookkeeping.go:426`; neither the loop over assets, `expire.go:43`, nor the list,
  `db/repos.go:39`, looks at the status) or that no longer takes the holder type, a
  limit (`bookkeeping.go:416`) or the ACL; `OverduePointsGo` excepts what is behind
  such an account (`Blocked`). `year_end` on January 2 takes
  what was credited on January 1; a user and a merchant of one id share the key,
  so the second is passed over as if it had been expired.
- The purge is safe only while clients stop retrying within the retention. A saga
  that is resumed later than that finds the records of its legs gone.
- Gateway: requests refused by `auth` or the limiter leave no audit row, and the
  row of the others is written after the answer, its error ignored.
- A client built without `WithTenant` signs the tenant "", while the gateway
  verifies with its default tenant: every V2 request is refused, the connector's
  among them when it is configured so (`cmd/connector/main.go:41`; docs/02:38).
- docs/05:174 has the header before the body for the API's tenant; the code has
  the body first (the gateway refuses a request whose two differ).
- A retry may be told 403 or 429 although its first try was posted.
- Nonces in memory are lost at a restart, and with them the protection.
- A stamp that is ahead of the gateway's clock by d is accepted until d after its
  nonce may be deleted (`server.go:184`, `db/nonce.go:34`: the age counts from the
  insert, not from the stamp), so a copy that comes in between passes again; docs/05:149
  and docs/01:113 have a repeat within the window answered by 40102. `NonceHeld`
  excepts that case and the run `edge` reaches it; the command is posted once all the
  same (`ExactlyOnce`).
- A body that is not one JSON value to its end is not compared with the caller or the
  header (`server.go:201`), and the API posts its first value under the source and in the
  tenant that it names; docs/05:133 and docs/04:58 have them compared for every body.
  `PostedAsMeant` excepts it (`Parses`).
- Console: an assignment that had read a ticket open reopens it when it is
  written after the closing (`stale`); ResolveDiff may answer an error although
  the ticket is closed; AssignDiff ignores the error of its event.
- Revisions: docs/03:226 says that every reload writes one; of two saves at once
  the second fails on the unique version and the watcher does not look; an
  operator's reload writes two; the start writes none.
- Reloads that overlap can leave the access rules of one file and the limits of
  another in force, until the next reload (`overlap`).
- docs/05:514 has the API look at the file's mtime every 15 seconds. A change of the
  file between its first reading and the watcher's first look, one that leaves an
  mtime no later than the one the watcher knows (`cmd/api/main.go:34`), and one whose
  reading fails (`:37` notes the mtime before `:38` reads) are not taken up until the
  file gets a later mtime, an operator reloads or the process starts again (`unseen`).
- An unknown console role is treated as admin (`internal/domain/console.go:37`).

## 6. Not modelled

What keeps the components "partly" modelled, and why:

- The order in which commands lock their rows: a circle of waits ends with the
  database aborting one transaction, which is `Rollback` of `Ledger` and changes
  nothing in the books.
- Limits of commands other than Exchange, alerts, filters other than the asset,
  the change of day: the code is the same `Check` and `AddUsage` that `Exchange`
  has, over another row.
- Quotes dated by the caller, validity periods: reads of one row by a condition.
- L1 and L5, CSV files: comparisons of files that keep no state.
- The Kafka reader (offsets belong to the broker), payloads that are not JSON, the
  routes for orders and payments that pass the inbox by: a direct command with
  its answer, as in `Gateway`.
- The loop of `ReleaseExpired` (each of its Releases is one of `Ledger`), and
  Transfers and freezes of accounts whose points expire.
- Nonces kept in memory, audit rows of the gateway, metrics, health routes.
- Creating and updating tenants, assets, accounts and policies one row at a time,
  queries and pages of the console.
- Shard routing is a hash; what the models take from persistence is the
  transaction, the unique indexes and that a saga's legs are on two shards.
- Logs, metrics, demo data, test doubles and wiring of the binaries.
