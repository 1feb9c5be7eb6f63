----------------------------- MODULE JobLease -----------------------------
(***************************************************************************)
(* The leases that keep the replicas of the worker from running one job    *)
(* twice (internal/application/lease.go, worker/runner.go): one row of     *)
(* ledger_job_lease per job name with its holder and the time it expires,  *)
(* claimed in a transaction that locks the row.  Nobody releases a lease:  *)
(* the holder may claim it again, the others wait until it expires.        *)
(*                                                                         *)
(* Time is discrete.  Each replica reads its own clock, Skew[w] ticks      *)
(* ahead of the slowest one, and writes expiry times by it; left is the    *)
(* expiry as the slowest clock sees it, so that nothing grows for ever.    *)
(***************************************************************************)
EXTENDS Integers

CONSTANTS
    Worker,  \* replicas of the worker
    Jobs,    \* names of the jobs
    TTL,     \* worker.lease_ttl
    Slack,   \* the longest that renewals of a running job stay away
    Skew     \* how far each replica's clock is ahead

NoOne == "no one"
NoJob == "no job"

\* Hold renews every TTL/3 and ignores the result; Slack says how much of that
\* may fail or come late.
ASSUME LeaseAssumption ==
    /\ TTL \in Nat
    /\ Slack \in Nat
    /\ Skew \in [Worker -> Nat]
    /\ \A w, v \in Worker : Slack + Skew[v] - Skew[w] < TTL
    /\ NoOne \notin Worker
    /\ NoJob \notin Jobs

VARIABLES
    lease,    \* the row of each job: its holder, and how long it is still valid
    holding,  \* the job each replica runs inside Hold
    age       \* time since a running replica last wrote its lease

leaseVars == <<lease, holding, age>>

-----------------------------------------------------------------------------

\* Fault: a lease is up one tick before it expires.
FreeEarly(w, j) == lease[j].holder = w \/ lease[j].left <= Skew[w] + 1

\* Fault: whoever asks gets the lease.
FreeAlways(w, j) == TRUE

\* claim: refused while somebody else holds a lease that expires after now.  A
\* row that does not exist yet is no one's and expired.
Free(w, j) == lease[j].holder = w \/ lease[j].left <= Skew[w]

Write(w, j) ==
    /\ lease' = [lease EXCEPT ![j] = [holder |-> w, left |-> TTL + Skew[w]]]
    /\ age' = [age EXCEPT ![w] = 0]

\* runJob: Acquire, then run the job inside Hold.
Acquire(w, j) ==
    /\ holding[w] = NoJob
    /\ Free(w, j)
    /\ Write(w, j)
    /\ holding' = [holding EXCEPT ![w] = j]

\* Hold's ticker.  A renewal that fails, or finds another holder, changes nothing.
Renew(w) ==
    /\ holding[w] # NoJob
    /\ age[w] > 0
    /\ lease[holding[w]].holder = w
    /\ Write(w, holding[w])
    /\ UNCHANGED holding

\* The job returns; its lease stays until it expires.
Finish(w) ==
    /\ holding[w] # NoJob
    /\ holding' = [holding EXCEPT ![w] = NoJob]
    /\ age' = [age EXCEPT ![w] = 0]
    /\ UNCHANGED lease

\* The process ends.  The one that replaces it has another instance id, so the
\* old one's leases are no one's.
Die(w) ==
    /\ holding' = [holding EXCEPT ![w] = NoJob]
    /\ age' = [age EXCEPT ![w] = 0]
    /\ lease' = [j \in Jobs |-> IF lease[j].holder = w THEN [lease[j] EXCEPT !.holder = NoOne]
                                                       ELSE lease[j]]

Tick ==
    /\ \A w \in Worker : holding[w] # NoJob => age[w] < Slack
    /\ lease' = [j \in Jobs |-> [lease[j] EXCEPT !.left = IF @ = 0 THEN 0 ELSE @ - 1]]
    /\ age' = [w \in Worker |-> IF holding[w] = NoJob THEN 0 ELSE age[w] + 1]
    /\ UNCHANGED holding

LeaseInit ==
    /\ lease = [j \in Jobs |-> [holder |-> NoOne, left |-> 0]]
    /\ holding = [w \in Worker |-> NoJob]
    /\ age = [w \in Worker |-> 0]

LeaseNext ==
    \/ \E w \in Worker, j \in Jobs : Acquire(w, j)
    \/ \E w \in Worker : Renew(w) \/ Finish(w) \/ Die(w)
    \/ Tick

LeaseSpec == LeaseInit /\ [][LeaseNext]_leaseVars

-----------------------------------------------------------------------------
(* Properties. *)

LeaseTypeOK ==
    /\ lease \in [Jobs -> [holder : Worker \cup {NoOne}, left : Nat]]
    /\ holding \in [Worker -> Jobs \cup {NoJob}]
    /\ age \in [Worker -> Nat]

\* No two replicas run one job at a time, whatever their clocks and although
\* nothing tells a job that its lease is gone (Hold).
Exclusion ==
    \A w, v \in Worker : holding[w] # NoJob /\ holding[w] = holding[v] => w = v
=============================================================================
