--------------------------- MODULE ReconWorkers ---------------------------
(***************************************************************************)
(* Reconciliation as it runs: replicas of the worker start the jobs        *)
(* reconcile and queued-reconcile under a lease of each job's name         *)
(* (JobLease), and both drain one queue (ReconQueue).  The API's own       *)
(* processes enqueue, and operators start jobs there without a lease       *)
(* (POST /ops/jobs/{name}).                                                *)
(***************************************************************************)
EXTENDS JobLease, ReconQueue

CONSTANTS
    Forces,  \* how callers ask: without or with force_new_version (rerun)
    Manual,  \* the jobs operators start by hand
    Daily    \* the keys Jobs.Reconcile enqueues, in the order of tenants

ASSUME ReconAssumption ==
    /\ Worker \subseteq Runner
    /\ Forces \subseteq BOOLEAN
    /\ Drain = Jobs
    /\ Manual \subseteq Jobs
    /\ Daily \in Seq(Key)

vars == <<leaseVars, queueVars>>

Caller == Runner \ Worker

\* What a job enqueues before it drains.
KeysOf(j) == IF j = "reconcile" THEN Daily ELSE <<>>

-----------------------------------------------------------------------------

\* A replica starts a job with its lease, one at a time (Runner.Start); an
\* operator's request starts it without.
Start(r, j) ==
    /\ IF r \in Worker THEN Acquire(r, j) ELSE j \in Manual /\ UNCHANGED leaseVars
    /\ Begin(r, KeysOf(j), FALSE, j)

\* With MaxJobs jobs callers stop asking.
Submit(c, k, force) ==
    /\ Len(jobs) < MaxJobs
    /\ Begin(c, <<k>>, force, NoDrain)
    /\ UNCHANGED leaseVars

\* A replica leaves Hold with its job's last statement.
Step(r) ==
    /\ Advance(r)
    /\ IF r \in Worker /\ run'[r].at = "idle" THEN Finish(r) ELSE UNCHANGED leaseVars

End(r) ==
    /\ Crash(r)
    /\ IF r \in Worker THEN Die(r) ELSE UNCHANGED leaseVars

Init == LeaseInit /\ QueueInit

Next ==
    \/ \E r \in Runner, j \in Jobs : Start(r, j)
    \/ \E c \in Caller, k \in Key, force \in Forces : Submit(c, k, force)
    \/ \E r \in Runner : Step(r) \/ End(r)
    \/ \E w \in Worker : Renew(w) /\ UNCHANGED queueVars
    \/ Tick /\ UNCHANGED queueVars

Spec == Init /\ [][Next]_vars

\* Tickers fire, clocks go on, and a replica that runs a job goes on with it
\* until it ends or its process does.
Fairness ==
    /\ WF_vars(\E w \in Worker, j \in Jobs : Start(w, j))
    /\ \A w \in Worker : WF_vars(Step(w)) /\ WF_vars(Renew(w) /\ UNCHANGED queueVars)
    /\ WF_vars(Tick /\ UNCHANGED queueVars)

FairSpec == Spec /\ Fairness

-----------------------------------------------------------------------------
(* Properties. *)

TypeOK == LeaseTypeOK /\ QueueTypeOK

\* Every queued job is taken up, although the replica that holds the lease may
\* end, and every statement may fail (runner.go: "queued-reconcile" every 15 s).
QueuedDrained ==
    \A n \in 1..MaxJobs :
        (n \in DOMAIN jobs /\ jobs[n].status = "queued")
            ~> (n \in DOMAIN jobs /\ jobs[n].status # "queued")
=============================================================================
