---------------------------- MODULE ReconQueue ----------------------------
(***************************************************************************)
(* Reconciliation jobs (internal/application/reconcile.go): HTTP callers   *)
(* and the daily job enqueue them, one version per unfinished need; a      *)
(* drain lists the queued ones and runs them one by one.  Every read and   *)
(* write is a statement of its own: there is no transaction around them,   *)
(* UpdateJob is unconditional, and nothing claims a job for its runner.    *)
(*                                                                         *)
(* What a run finds is not modelled here (see LedgerTies), only that it    *)
(* writes its differences once: a batch.                                   *)
(***************************************************************************)
EXTENDS Integers, Sequences, FiniteSets

CONSTANTS
    Runner,       \* processes that enqueue and drain
    Key,          \* (tenant, date, source, asset, job_type)
    Drain,        \* the worker's jobs that drain
    Attempts,     \* how often Jobs.track tries a job
    MaxJobs,      \* bound on the jobs
    MaxFaults     \* bound on statements that fail and processes that end

NoDrain == "no drain"

ASSUME QueueAssumption ==
    /\ NoDrain \notin Drain
    /\ Attempts \in Nat \ {0}
    /\ MaxJobs \in Nat
    /\ MaxFaults \in Nat

VARIABLES
    jobs,      \* ledger_reconcile_job in the order of ids
    run,       \* where each runner is
    faults

queueVars == <<jobs, run, faults>>

\* forced: asked for with force_new_version; unmet: it has failed at some time;
\* batches: how often each kind of drain wrote its differences.
Job == [key : Key, version : Nat, status : {"queued", "running", "done", "failed"},
        forced : BOOLEAN, unmet : BOOLEAN, batches : [Drain -> Nat]]

Positions == {"idle", "enqueue", "insert", "list", "get", "running", "match",
              "diffs", "failed", "error"}

\* asks: the keys it was started for; keys: those not yet enqueued; drain: as
\* which job it drains; todo: the listed jobs it has not come to; job: the one
\* it runs.
Run == [at : Positions, asks : Seq(Key), keys : Seq(Key), force : BOOLEAN,
        drain : Drain \cup {NoDrain},
        version : Nat, todo : SUBSET Nat, job : Nat, attempt : Nat]

Idle == [at |-> "idle", asks |-> <<>>, keys |-> <<>>, force |-> FALSE, drain |-> NoDrain,
         version |-> 0, todo |-> {}, job |-> 0, attempt |-> 0]

At(r, at) == run[r].at = at
Become(r, here) == run' = [run EXCEPT ![r] = IF here.at = "idle" THEN Idle ELSE here]
Goto(r, at) == Become(r, [run[r] EXCEPT !.at = at])

-----------------------------------------------------------------------------
(* Enqueue. *)

\* POST /reconcile/jobs and .../rerun ask for one key and do not drain; the job
\* reconcile asks for the daily key of every tenant and drains; the job
\* queued-reconcile only drains.
Starting(keys, force, drain, attempt) ==
    [at |-> IF keys # <<>> THEN "enqueue" ELSE "list", asks |-> keys, keys |-> keys,
     force |-> force, drain |-> drain, version |-> 0, todo |-> {}, job |-> 0, attempt |-> attempt]

Begin(r, keys, force, drain) ==
    /\ At(r, "idle")
    /\ Become(r, Starting(keys, force, drain, 1))
    /\ UNCHANGED <<jobs, faults>>

JobsOf(k) == {n \in DOMAIN jobs : jobs[n].key = k}

\* FindJobByKey: the highest version.
Latest(n) == \A m \in JobsOf(jobs[n].key) : jobs[m].version <= jobs[n].version

\* reconReusable
Reusable(st) == st \in {"queued", "running", "done"}

\* With its first key settled a runner takes the next, drains, or is done.
KeyDone(here) ==
    [here EXCEPT !.keys = Tail(@), !.version = 0,
                 !.at = IF Len(here.keys) > 1 THEN "enqueue"
                        ELSE IF here.drain # NoDrain THEN "list" ELSE "idle"]

\* Enqueue reads the latest version, and returns it or sets out to create the next.
Enqueue(r) ==
    /\ At(r, "enqueue")
    /\ LET k == Head(run[r].keys)
           Create(v) == [run[r] EXCEPT !.at = "insert", !.version = v]
       IN  \/ JobsOf(k) = {} /\ Become(r, Create(1))
           \/ \E n \in JobsOf(k) :
                 /\ Latest(n)
                 /\ Become(r, IF ~run[r].force /\ Reusable(jobs[n].status)
                              THEN KeyDone(run[r]) ELSE Create(jobs[n].version + 1))
    /\ UNCHANGED <<jobs, faults>>

NewJob(r, version) ==
    [key |-> Head(run[r].keys), version |-> version, status |-> "queued",
     forced |-> run[r].force, unmet |-> FALSE,
     batches |-> [d \in Drain |-> 0]]

\* Fault: CreateJob takes the version that is next by now.
InsertNext(r) ==
    /\ At(r, "insert")
    /\ Len(jobs) < MaxJobs
    /\ jobs' = Append(jobs, NewJob(r, Cardinality(JobsOf(Head(run[r].keys))) + 1))
    /\ Become(r, KeyDone(run[r]))
    /\ UNCHANGED faults

\* CreateJob, against the unique index uk_recon_job.
Insert(r) ==
    /\ At(r, "insert")
    /\ IF \E n \in JobsOf(Head(run[r].keys)) : jobs[n].version = run[r].version
       THEN Goto(r, "error") /\ UNCHANGED jobs
       ELSE /\ Len(jobs) < MaxJobs
            /\ jobs' = Append(jobs, NewJob(r, run[r].version))
            /\ Become(r, KeyDone(run[r]))
    /\ UNCHANGED faults

-----------------------------------------------------------------------------
(* DrainQueued and RunJob. *)

SetStatus(n, st) ==
    jobs' = [jobs EXCEPT ![n] = [jobs[n] EXCEPT !.status = st, !.unmet = @ \/ st = "failed"]]

\* Fault: a job that has been superseded is not listed.
QueuedLatest == {n \in DOMAIN jobs : jobs[n].status = "queued" /\ Latest(n)}

Queued == {n \in DOMAIN jobs : jobs[n].status = "queued"}

\* ListQueuedJobs, at most 50 at a time: more than there ever are here.
List(r) ==
    /\ At(r, "list")
    /\ Become(r, [run[r] EXCEPT !.todo = Queued, !.at = IF Queued = {} THEN "idle" ELSE "get"])
    /\ UNCHANGED <<jobs, faults>>

\* What is left of the list when a job is behind.
AfterJob(here) ==
    [here EXCEPT !.job = 0, !.at = IF here.todo = {} THEN "idle" ELSE "get"]

\* RunJob reads the job again, the oldest first, and runs it unless it is done.
Get(r) ==
    /\ At(r, "get")
    /\ \E n \in run[r].todo :
          /\ \A m \in run[r].todo : n <= m
          /\ LET taken == [run[r] EXCEPT !.todo = @ \ {n}, !.job = n]
             IN  Become(r, IF jobs[n].status = "done" THEN AfterJob(taken)
                           ELSE [taken EXCEPT !.at = "running"])
    /\ UNCHANGED <<jobs, faults>>

MarkRunning(r) ==
    /\ At(r, "running")
    /\ SetStatus(run[r].job, "running")
    /\ Goto(r, "match")
    /\ UNCHANGED faults

\* A read failed: the job is failed, if that can be written.
MatchFails(r) ==
    /\ At(r, "match")
    /\ faults < MaxFaults
    /\ faults' = faults + 1
    /\ Goto(r, "failed")
    /\ UNCHANGED jobs

MarkFailed(r) ==
    /\ At(r, "failed")
    /\ SetStatus(run[r].job, "failed")
    /\ Goto(r, "error")
    /\ UNCHANGED faults

\* The day's entries, balances and freezes are read and compared.
MarkDone(r) ==
    /\ At(r, "match")
    /\ SetStatus(run[r].job, "done")
    /\ Goto(r, "diffs")
    /\ UNCHANGED faults

CreateDiffs(r) ==
    /\ At(r, "diffs")
    /\ jobs' = [jobs EXCEPT ![run[r].job].batches[run[r].drain] = @ + 1]
    /\ Become(r, AfterJob(run[r]))
    /\ UNCHANGED faults

-----------------------------------------------------------------------------
(* Failures. *)

\* A statement fails, other than a read in RunJob, and with it the rest of the
\* enqueue or the drain.
Fail(r) ==
    /\ run[r].at \in {"enqueue", "insert", "list", "get", "running", "match", "failed", "diffs"}
    /\ faults < MaxFaults
    /\ faults' = faults + 1
    /\ Goto(r, "error")
    /\ UNCHANGED jobs

\* Jobs.track tries a job again; a caller of Enqueue gets the error.
Recover(r) ==
    /\ At(r, "error")
    /\ IF run[r].drain # NoDrain /\ run[r].attempt < Attempts
       THEN Become(r, Starting(run[r].asks, FALSE, run[r].drain, run[r].attempt + 1))
       ELSE Goto(r, "idle")
    /\ UNCHANGED <<jobs, faults>>

Crash(r) ==
    /\ ~At(r, "idle")
    /\ faults < MaxFaults
    /\ faults' = faults + 1
    /\ Goto(r, "idle")
    /\ UNCHANGED jobs

QueueInit ==
    /\ jobs = <<>>
    /\ run = [r \in Runner |-> Idle]
    /\ faults = 0

\* What a runner that has begun does.
Advance(r) ==
    \/ Enqueue(r)
    \/ Insert(r)
    \/ List(r)
    \/ Get(r)
    \/ MarkRunning(r)
    \/ MatchFails(r)
    \/ MarkFailed(r)
    \/ MarkDone(r)
    \/ CreateDiffs(r)
    \/ Fail(r)
    \/ Recover(r)

-----------------------------------------------------------------------------
(* Properties. *)

QueueTypeOK ==
    /\ jobs \in Seq(Job)
    /\ run \in [Runner -> Run]
    /\ faults \in 0..MaxFaults

\* Enqueue's promise (05, 11.1; reconcile_enqueue_test.go): the versions of a
\* key are numbered without gap or repetition, and a version that nobody forced
\* follows one that has failed.  Enqueue reads and inserts in two statements.
VersionsEarned ==
    \A k \in Key :
        LET V == {jobs[n].version : n \in JobsOf(k)} IN
        /\ V = 1..Cardinality(JobsOf(k))
        /\ \A n, m \in JobsOf(k) :
              jobs[n].version = jobs[m].version + 1 /\ ~jobs[n].forced => jobs[m].unmet

\* No kind of drain writes a job's differences twice (each time they get new
\* ids).  RunJob claims nothing; a job that is taken up is never queued again.
OneReportPerDrain == \A n \in DOMAIN jobs : \A d \in Drain : jobs[n].batches[d] <= 1
=============================================================================
