---------------------------- MODULE ReconProofs ----------------------------
(***************************************************************************)
(* Proofs about the leases, and about reconciliation under them, for any   *)
(* number of replicas, callers, keys, jobs, failures and crashes.          *)
(***************************************************************************)
EXTENDS ReconWorkers, SequenceTheorems, FiniteSetTheorems, TLAPS

-----------------------------------------------------------------------------
(* The leases.  What keeps a holder safe is not that it checks its lease   *)
(* (it does not) but that the row is still valid on every clock.           *)

Holds(w) ==
    holding[w] # NoJob =>
        /\ lease[holding[w]].holder = w
        /\ age[w] <= Slack
        /\ lease[holding[w]].left + age[w] >= TTL + Skew[w]

LeaseInv == LeaseTypeOK /\ \A w \in Worker : Holds(w)

USE LeaseAssumption

LEMMA LeaseInvInit == LeaseInit => LeaseInv
BY DEF LeaseInit, LeaseInv, LeaseTypeOK, Holds

\* A lease that a running replica holds is not free for any other.
LEMMA NotFree ==
    ASSUME LeaseInv, NEW w \in Worker, NEW v \in Worker, holding[v] # NoJob, w # v
    PROVE  ~Free(w, holding[v])
<1>1. lease[holding[v]].left >= TTL + Skew[v] - Slack /\ lease[holding[v]].holder = v
  BY DEF LeaseInv, LeaseTypeOK, Holds
<1>2. Slack + Skew[w] - Skew[v] < TTL
  OBVIOUS
<1>3. lease[holding[v]].left \in Nat /\ Skew[w] \in Nat /\ Skew[v] \in Nat
  BY DEF LeaseInv, LeaseTypeOK
<1> QED
  BY <1>1, <1>2, <1>3 DEF Free

LEMMA AcquireStep ==
    ASSUME LeaseInv, NEW w \in Worker, NEW j \in Jobs, Acquire(w, j)
    PROVE  LeaseInv'
<1>1. LeaseTypeOK'
  BY DEF LeaseInv, LeaseTypeOK, Acquire, Write
<1>2. ASSUME NEW v \in Worker PROVE Holds(v)'
  <2>1. CASE v = w
    BY <2>1 DEF LeaseInv, LeaseTypeOK, Acquire, Write, Holds
  <2>2. CASE v # w
    <3>1. holding[v] # NoJob => holding[v] # j
      BY <2>2, NotFree DEF Acquire
    <3> QED
      BY <2>2, <3>1 DEF LeaseInv, LeaseTypeOK, Acquire, Write, Holds
  <2> QED
    BY <2>1, <2>2
<1> QED
  BY <1>1, <1>2 DEF LeaseInv

LEMMA RenewStep ==
    ASSUME LeaseInv, NEW w \in Worker, Renew(w)
    PROVE  LeaseInv'
<1>1. LeaseTypeOK'
  BY DEF LeaseInv, LeaseTypeOK, Renew, Write
<1>2. ASSUME NEW v \in Worker PROVE Holds(v)'
  <2>1. CASE v = w
    BY <2>1 DEF LeaseInv, LeaseTypeOK, Renew, Write, Holds
  <2>2. CASE v # w
    BY <2>2 DEF LeaseInv, LeaseTypeOK, Renew, Write, Holds
  <2> QED
    BY <2>1, <2>2
<1> QED
  BY <1>1, <1>2 DEF LeaseInv

LEMMA TickStep ==
    ASSUME LeaseInv, Tick
    PROVE  LeaseInv'
<1>1. LeaseTypeOK'
  BY DEF LeaseInv, LeaseTypeOK, Tick
<1>2. ASSUME NEW w \in Worker PROVE Holds(w)'
  <2> SUFFICES ASSUME holding[w] # NoJob
               PROVE  Holds(w)'
    BY DEF Tick, Holds
  <2> DEFINE j == holding[w]
  <2>1. j \in Jobs /\ lease[j].left \in Nat /\ age[w] \in Nat /\ age[w] < Slack
    BY DEF LeaseInv, LeaseTypeOK, Tick
  <2>2. Slack < TTL /\ Skew[w] \in Nat
    OBVIOUS
  <2>3. lease[j].left + age[w] >= TTL + Skew[w] /\ lease[j].holder = w
    BY DEF LeaseInv, Holds
  <2>4. lease[j].left # 0
    BY <2>1, <2>2, <2>3
  <2>5. lease'[j] = [lease[j] EXCEPT !.left = @ - 1] /\ age'[w] = age[w] + 1 /\ holding'[w] = j
    BY <2>1, <2>4 DEF Tick
  <2> QED
    BY <2>1, <2>2, <2>3, <2>5 DEF Holds, LeaseInv, LeaseTypeOK
<1> QED
  BY <1>1, <1>2 DEF LeaseInv

LEMMA FinishStep ==
    ASSUME LeaseInv, NEW w \in Worker, Finish(w) \/ Die(w)
    PROVE  LeaseInv'
<1>1. CASE Finish(w)
  BY <1>1 DEF LeaseInv, LeaseTypeOK, Finish, Holds
<1>2. CASE Die(w)
  <2>1. LeaseTypeOK'
    BY <1>2 DEF LeaseInv, LeaseTypeOK, Die
  <2>2. ASSUME NEW v \in Worker PROVE Holds(v)'
    BY <1>2, <2>2 DEF LeaseInv, LeaseTypeOK, Die, Holds
  <2> QED
    BY <2>1, <2>2 DEF LeaseInv
<1> QED
  BY <1>1, <1>2

LEMMA LeaseInvStep == LeaseInv /\ [LeaseNext]_leaseVars => LeaseInv'
<1> SUFFICES ASSUME LeaseInv, [LeaseNext]_leaseVars PROVE LeaseInv'
  OBVIOUS
<1>1. CASE UNCHANGED leaseVars
  BY <1>1 DEF leaseVars, LeaseInv, LeaseTypeOK, Holds
<1> QED
  BY <1>1, AcquireStep, RenewStep, TickStep, FinishStep DEF LeaseNext

LEMMA LeaseInvExcludes == LeaseInv => Exclusion
BY DEF LeaseInv, Holds, Exclusion

\* Leases alone: no two replicas run one job at a time, for any ttl, number of
\* replicas and clocks, as long as renewals are not away longer than Slack.
THEOREM LeaseExclusion == LeaseSpec => []Exclusion
<1> QED
  BY LeaseInvInit, LeaseInvStep, LeaseInvExcludes, PTL DEF LeaseSpec

-----------------------------------------------------------------------------
(* Reconciliation under leases. *)

LEMMA NextLeases == [Next]_vars => [LeaseNext]_leaseVars
BY DEF Next, vars, Start, Submit, Step, End, LeaseNext

\* The replicas keep to their leases whatever the queue, callers and operators do.
THEOREM WorkersExclude == Spec => []Exclusion
<1>1. Init => LeaseInv
  BY LeaseInvInit DEF Init
<1>2. LeaseInv /\ [Next]_vars => LeaseInv'
  BY NextLeases, LeaseInvStep
<1> QED
  BY <1>1, <1>2, LeaseInvExcludes, PTL DEF Spec

-----------------------------------------------------------------------------
(* One report per drain.  RunJob does not claim its job.  What helps is that  *)
(* a job which was taken up is never queued again, and that drains of one    *)
(* kind do not overlap: leases keep replicas apart, if operators keep off.    *)

Running == {"running", "match", "failed", "diffs"}

\* What a drain is yet to run it has not reported; what it runs was taken up.
RunOK(here, js) ==
    /\ here.at \in Running \cup {"list", "get"} => here.drain \in Drain
    /\ here.at \in Running \cup {"get"} =>
          \A n \in here.todo : n \in DOMAIN js /\ js[n].batches[here.drain] = 0
    /\ here.at \in Running => here.job \in DOMAIN js /\ js[here.job].batches[here.drain] = 0
    /\ here.at \in Running => here.job \notin here.todo
    /\ here.at = "diffs" => js[here.job].status # "queued"
    /\ here.at \in {"enqueue", "insert"} => here.keys # <<>>

JobsOK ==
    \A n \in DOMAIN jobs : \A d \in Drain :
        /\ jobs[n].batches[d] <= 1
        /\ jobs[n].status = "queued" => jobs[n].batches[d] = 0

RunsOK == \A r \in Runner : RunOK(run[r], jobs)

\* Whoever drains does so inside Hold of that job.
Held ==
    \A r \in Runner :
        run[r].at # "idle" /\ run[r].drain # NoDrain =>
            r \in Worker /\ holding[r] = run[r].drain

QueueInv == QueueTypeOK /\ JobsOK /\ RunsOK

LEMMA IdleFits == Idle \in Run /\ \A js : RunOK(Idle, js)
BY DEF Idle, Run, Positions, RunOK, Running

LEMMA Becoming ==
    ASSUME run \in [Runner -> Run], NEW r \in Runner, NEW here \in Run, Become(r, here)
    PROVE  /\ run' \in [Runner -> Run]
           /\ run'[r] \in {here, Idle}
           /\ \A s \in Runner : s # r => run'[s] = run[s]
BY IdleFits DEF Become

\* A step that leaves the jobs alone and takes its runner to a good place.
LEMMA MoveOnly ==
    ASSUME QueueInv, NEW r \in Runner, NEW here \in Run, Become(r, here), RunOK(here, jobs),
           UNCHANGED jobs, faults' \in 0..MaxFaults
    PROVE  QueueInv'
<1>1. run \in [Runner -> Run] /\ jobs \in Seq(Job)
  BY DEF QueueInv, QueueTypeOK
<1>2. QueueTypeOK' /\ JobsOK'
  BY <1>1, Becoming DEF QueueInv, QueueTypeOK, JobsOK
<1>3. ASSUME NEW s \in Runner PROVE RunOK(run'[s], jobs')
  <2>1. CASE s # r
    BY <1>1, <2>1, Becoming DEF QueueInv, RunsOK
  <2>2. CASE s = r
    BY <1>1, <2>2, Becoming, IdleFits
  <2> QED
    BY <2>1, <2>2
<1> QED
  BY <1>2, <1>3 DEF QueueInv, RunsOK

LEMMA KeyDoneFits ==
    ASSUME NEW here \in Run, NEW js, RunOK(here, js), here.at \in {"enqueue", "insert"}
    PROVE  KeyDone(here) \in Run /\ RunOK(KeyDone(here), js)
<1>1. here.keys \in Seq(Key) /\ here.keys # <<>>
  BY DEF Run, RunOK
<1>2. Tail(here.keys) \in Seq(Key) /\ (Len(here.keys) > 1 => Tail(here.keys) # <<>>)
  <2> DEFINE keys == here.keys
  <2>1. Tail(keys) \in Seq(Key) /\ Len(Tail(keys)) = Len(keys) - 1
    BY <1>1, HeadTailProperties
  <2>2. Len(keys) \in Nat /\ Len(<<>>) = 0
    BY <1>1
  <2> HIDE DEF keys
  <2>3. Len(keys) > 1 => Tail(keys) # <<>>
    <3> DEFINE rest == Tail(keys)
    <3>1. rest = <<>> => Len(rest) = 0
      BY <2>2
    <3>2. Len(rest) = Len(keys) - 1
      BY <2>1
    <3> HIDE DEF rest
    <3>3. Len(keys) > 1 => rest # <<>>
      BY <2>2, <3>1, <3>2
    <3> QED
      BY <3>3 DEF rest
  <2> QED
    BY <2>1, <2>3 DEF keys
<1>3. KeyDone(here) \in Run
  BY <1>2 DEF KeyDone, Run, Positions
<1>4. RunOK(KeyDone(here), js)
  BY <1>2 DEF KeyDone, RunOK, Run, Running
<1> QED
  BY <1>3, <1>4

LEMMA StartingFits ==
    ASSUME NEW keys \in Seq(Key), NEW force \in BOOLEAN, NEW drain \in Drain \cup {NoDrain},
           NEW attempt \in Nat, NEW js, keys # <<>> \/ drain # NoDrain
    PROVE  /\ Starting(keys, force, drain, attempt) \in Run
           /\ RunOK(Starting(keys, force, drain, attempt), js)
<1>1. Starting(keys, force, drain, attempt) \in Run
  BY DEF Starting, Run, Positions
<1>2. RunOK(Starting(keys, force, drain, attempt), js)
  BY DEF Starting, RunOK, Running
<1> QED
  BY <1>1, <1>2

LEMMA ReadSteps ==
    ASSUME QueueInv, NEW r \in Runner,
           Enqueue(r) \/ List(r) \/ Get(r) \/ Recover(r)
    PROVE  QueueInv'
<1>1. /\ run[r] \in Run /\ RunOK(run[r], jobs)
      /\ jobs \in Seq(Job) /\ faults \in 0..MaxFaults
  BY DEF QueueInv, QueueTypeOK, RunsOK
<1>2. CASE Enqueue(r)
  <2> DEFINE Create(v) == [run[r] EXCEPT !.at = "insert", !.version = v]
  <2>1. At(r, "enqueue") /\ UNCHANGED <<jobs, faults>>
    BY <1>2 DEF Enqueue
  <2>2. \/ Become(r, KeyDone(run[r]))
        \/ \E v \in Nat : Become(r, Create(v))
    <3>1. CASE Become(r, Create(1))
      BY <3>1
    <3>2. ASSUME NEW n \in DOMAIN jobs,
                 Become(r, IF ~run[r].force /\ Reusable(jobs[n].status)
                           THEN KeyDone(run[r]) ELSE Create(jobs[n].version + 1))
          PROVE  \/ Become(r, KeyDone(run[r]))
                 \/ \E v \in Nat : Become(r, Create(v))
      <4>1. jobs[n] \in Job
        BY <1>1
      <4>2. jobs[n].version + 1 \in Nat
        BY <4>1 DEF Job
      <4> QED
        BY <3>2, <4>2
    <3> QED
      BY <1>2, <3>1, <3>2 DEF Enqueue, JobsOf
  <2>3. ASSUME NEW v \in Nat PROVE Create(v) \in Run /\ RunOK(Create(v), jobs)
    BY <1>1, <2>1 DEF At, Run, Positions, RunOK, Running
  <2> QED
    BY <1>1, <2>1, <2>2, <2>3, KeyDoneFits, MoveOnly DEF At
<1>3. CASE List(r)
  <2> DEFINE here == [run[r] EXCEPT !.todo = Queued, !.at = IF Queued = {} THEN "idle" ELSE "get"]
  <2>1. Queued \subseteq Nat /\ \A n \in Queued : n \in DOMAIN jobs /\ \A d \in Drain : jobs[n].batches[d] = 0
    BY <1>1 DEF Queued, QueueInv, JobsOK, Job
  <2>2. here \in Run /\ Become(r, here)
    BY <1>1, <1>3, <2>1 DEF Run, Positions, List
  <2>3. RunOK(here, jobs)
    BY <1>1, <1>3, <2>1 DEF RunOK, List, At, Running, Run
  <2> QED
    BY <1>1, <1>3, <2>2, <2>3, MoveOnly DEF List
<1>4. CASE Get(r)
  <2>1. PICK n \in run[r].todo :
           Become(r, IF jobs[n].status = "done"
                     THEN AfterJob([run[r] EXCEPT !.todo = @ \ {n}, !.job = n])
                     ELSE [[run[r] EXCEPT !.todo = @ \ {n}, !.job = n] EXCEPT !.at = "running"])
    BY <1>4 DEF Get
  <2> DEFINE here == IF jobs[n].status = "done"
                     THEN AfterJob([run[r] EXCEPT !.todo = @ \ {n}, !.job = n])
                     ELSE [[run[r] EXCEPT !.todo = @ \ {n}, !.job = n] EXCEPT !.at = "running"]
  <2>2. here \in Run
    BY <1>1, <2>1 DEF Run, Positions, AfterJob
  <2>3. RunOK(here, jobs)
    BY <1>1, <1>4, <2>1 DEF RunOK, Get, At, Running, Run, AfterJob
  <2> QED
    BY <1>1, <1>4, <2>1, <2>2, <2>3, MoveOnly DEF Get
<1>5. CASE Recover(r)
  <2>1. PICK here : /\ Become(r, here)
                    /\ \/ /\ run[r].drain # NoDrain
                          /\ here = Starting(run[r].asks, FALSE, run[r].drain, run[r].attempt + 1)
                       \/ here = [run[r] EXCEPT !.at = "idle"]
    BY <1>5 DEF Recover, Goto
  <2>2. run[r].asks \in Seq(Key) /\ run[r].attempt + 1 \in Nat /\ run[r].drain \in Drain \cup {NoDrain}
    BY <1>1 DEF Run
  <2>3. here \in Run /\ RunOK(here, jobs)
    <3>1. CASE here = [run[r] EXCEPT !.at = "idle"]
      BY <1>1, <3>1 DEF Run, Positions, RunOK, Running
    <3> QED
      BY <2>1, <2>2, <3>1, StartingFits
  <2> QED
    BY <1>1, <1>5, <2>1, <2>3, MoveOnly DEF Recover
<1> QED
  BY <1>2, <1>3, <1>4, <1>5

\* What a runner's own failure changes is its place.
LEMMA FailSteps ==
    ASSUME QueueInv, NEW r \in Runner, MatchFails(r) \/ Fail(r) \/ Crash(r)
    PROVE  QueueInv'
<1>1. /\ run[r] \in Run /\ RunOK(run[r], jobs)
      /\ faults \in 0..MaxFaults
      /\ MaxFaults \in Nat
  BY QueueAssumption DEF QueueInv, QueueTypeOK, RunsOK
<1> DEFINE To(at) == [run[r] EXCEPT !.at = at]
<1>2. ASSUME NEW at \in {"idle", "error"} PROVE To(at) \in Run /\ RunOK(To(at), jobs)
  BY <1>1 DEF Run, Positions, RunOK, Running
<1>3. CASE MatchFails(r)
  <2>1. To("failed") \in Run /\ RunOK(To("failed"), jobs)
    BY <1>1, <1>3 DEF MatchFails, At, Run, Positions, RunOK, Running
  <2>2. Become(r, To("failed")) /\ UNCHANGED jobs
        /\ faults' \in 0..MaxFaults
    BY <1>1, <1>3 DEF MatchFails, Goto
  <2> QED
    BY <2>1, <2>2, MoveOnly
<1>4. CASE Fail(r)
  <2>1. Become(r, To("error")) /\ UNCHANGED jobs
        /\ faults' \in 0..MaxFaults
    BY <1>1, <1>4 DEF Fail, Goto
  <2> QED
    BY <1>2, <2>1, MoveOnly
<1>5. CASE Crash(r)
  <2>1. Become(r, To("idle")) /\ UNCHANGED jobs
        /\ faults' \in 0..MaxFaults
    BY <1>1, <1>5 DEF Crash, Goto
  <2> QED
    BY <1>2, <2>1, MoveOnly
<1> QED
  BY <1>3, <1>4, <1>5

LEMMA GrowOK ==
    ASSUME NEW js, NEW more, DOMAIN js \subseteq DOMAIN more,
           \A n \in DOMAIN js : more[n] = js[n], NEW here, RunOK(here, js)
    PROVE  RunOK(here, more)
<1>1. here.at = "diffs" => here.at \in Running
  BY DEF Running
<1> QED
  BY <1>1 DEF RunOK

\* A new job has no report and is on nobody's list.
LEMMA InsertStep ==
    ASSUME QueueInv, NEW r \in Runner, Insert(r)
    PROVE  QueueInv'
<1>1. /\ run \in [Runner -> Run] /\ run[r] \in Run /\ RunOK(run[r], jobs)
      /\ jobs \in Seq(Job) /\ faults \in 0..MaxFaults
  BY DEF QueueInv, QueueTypeOK, RunsOK
<1>2. CASE UNCHANGED jobs /\ Goto(r, "error")
  <2> DEFINE here == [run[r] EXCEPT !.at = "error"]
  <2>1. here \in Run /\ RunOK(here, jobs) /\ Become(r, here)
    BY <1>1, <1>2 DEF Run, Positions, RunOK, Running, Goto
  <2> QED
    BY <1>1, <1>2, <2>1, MoveOnly DEF Insert
<1>3. CASE /\ jobs' = Append(jobs, NewJob(r, run[r].version))
           /\ Become(r, KeyDone(run[r]))
  <2>1. At(r, "insert") /\ UNCHANGED faults
    BY DEF Insert
  <2>2. Head(run[r].keys) \in Key
    BY <1>1, <2>1 DEF At, Run, RunOK
  <2>3. NewJob(r, run[r].version) \in Job
    BY <1>1, <2>2 DEF NewJob, Job, Run
  <2>4. /\ jobs' \in Seq(Job)
        /\ DOMAIN jobs' = DOMAIN jobs \cup {Len(jobs) + 1}
        /\ \A n \in DOMAIN jobs : jobs'[n] = jobs[n]
        /\ jobs'[Len(jobs) + 1] = NewJob(r, run[r].version)
    BY <1>1, <1>3, <2>3
  <2>5. JobsOK'
    BY <2>4 DEF QueueInv, JobsOK, NewJob
  <2>6. ASSUME NEW here, RunOK(here, jobs) PROVE RunOK(here, jobs')
    BY <2>4, <2>6, GrowOK
  <2>7. KeyDone(run[r]) \in Run /\ RunOK(KeyDone(run[r]), jobs)
    BY <1>1, <2>1, KeyDoneFits DEF At
  <2>8. QueueTypeOK'
    BY <1>1, <1>3, <2>1, <2>4, <2>7, Becoming DEF QueueTypeOK
  <2>9. ASSUME NEW s \in Runner PROVE RunOK(run'[s], jobs')
    <3>1. run'[s] \in {run[s], KeyDone(run[r]), Idle}
      BY <1>1, <1>3, <2>7, Becoming
    <3> QED
      BY <2>6, <2>7, <3>1, IdleFits DEF QueueInv, RunsOK
  <2> QED
    BY <2>5, <2>8, <2>9 DEF QueueInv, RunsOK
<1> QED
  BY <1>2, <1>3 DEF Insert

\* No other runner drains as the same job.
Alone(r) ==
    \A s \in Runner :
        s # r /\ run[s].at \in Running \cup {"list", "get"} => run[s].drain # run[r].drain

\* A write as which no runner but its own depends on: it may count a batch of
\* its own drain, and puts no job back on the queue.
Writes(r) ==
    /\ jobs' \in Seq(Job) /\ DOMAIN jobs' = DOMAIN jobs /\ JobsOK'
    /\ \A n \in DOMAIN jobs :
          /\ \A d \in Drain : d # run[r].drain => jobs'[n].batches[d] = jobs[n].batches[d]
          /\ jobs[n].status # "queued" => jobs'[n].status # "queued"

LEMMA OthersFit ==
    ASSUME QueueInv, NEW r \in Runner, Alone(r), Writes(r), NEW s \in Runner, s # r
    PROVE  RunOK(run[s], jobs')
<1> DEFINE here == run[s]
<1>1. here \in Run /\ RunOK(here, jobs)
  BY DEF QueueInv, QueueTypeOK, RunsOK
<1>2. here.at \in Running \cup {"list", "get"} => here.drain \in Drain /\ here.drain # run[r].drain
  BY <1>1 DEF RunOK, Alone
<1>3. here.at = "diffs" => here.at \in Running
  BY DEF Running
<1> HIDE DEF here
<1>4. RunOK(here, jobs')
  BY <1>1, <1>2, <1>3 DEF RunOK, Writes
<1> QED
  BY <1>4 DEF here

\* Only a runner that drains depends on what others write to the jobs.
LEMMA WriteAlone ==
    ASSUME QueueInv, NEW r \in Runner, Alone(r), NEW here \in Run, Become(r, here),
           Writes(r), RunOK(here, jobs'), UNCHANGED faults
    PROVE  QueueInv'
<1>1. run \in [Runner -> Run] /\ QueueTypeOK' /\ JobsOK'
  BY Becoming DEF QueueInv, QueueTypeOK, Writes
<1>2. ASSUME NEW s \in Runner PROVE RunOK(run'[s], jobs')
  <2>1. CASE s = r
    BY <1>1, <2>1, Becoming, IdleFits
  <2>2. CASE s # r
    BY <1>1, <2>2, Becoming, OthersFit
  <2> QED
    BY <2>1, <2>2
<1> QED
  BY <1>1, <1>2 DEF QueueInv, RunsOK

LEMMA Rewrite ==
    ASSUME NEW m \in DOMAIN jobs, NEW job \in Job, jobs \in Seq(Job),
           jobs' = [jobs EXCEPT ![m] = job]
    PROVE  /\ jobs' \in Seq(Job) /\ DOMAIN jobs' = DOMAIN jobs /\ jobs'[m] = job
           /\ \A n \in DOMAIN jobs : n # m => jobs'[n] = jobs[n]
OBVIOUS

LEMMA WriteSteps ==
    ASSUME QueueInv, NEW r \in Runner, Alone(r),
           MarkRunning(r) \/ MarkFailed(r) \/ MarkDone(r) \/ CreateDiffs(r)
    PROVE  QueueInv'
<1> DEFINE m == run[r].job
           e == run[r].drain
<1>1. /\ run[r] \in Run /\ RunOK(run[r], jobs) /\ run[r].at \in Running
      /\ jobs \in Seq(Job) /\ JobsOK /\ UNCHANGED faults
  BY DEF QueueInv, QueueTypeOK, RunsOK, MarkRunning, MarkFailed, MarkDone, CreateDiffs, At, Running
<1>2. /\ m \in DOMAIN jobs /\ jobs[m] \in Job /\ jobs[m].batches[e] = 0
      /\ e \in Drain /\ m \notin run[r].todo
      /\ \A n \in run[r].todo : n \in DOMAIN jobs /\ jobs[n].batches[e] = 0
  BY <1>1 DEF RunOK
<1>3. ASSUME NEW st \in {"running", "failed", "done"}, SetStatus(m, st)
      PROVE  /\ Writes(r) /\ jobs'[m].status = st
             /\ \A n \in DOMAIN jobs : jobs'[n].batches = jobs[n].batches
  <2> DEFINE job == [jobs[m] EXCEPT !.status = st, !.unmet = @ \/ st = "failed"]
  <2>1. job \in Job /\ job.batches = jobs[m].batches /\ job.status = st
    BY <1>2 DEF Job
  <2>2. jobs' = [jobs EXCEPT ![m] = job]
    BY <1>3 DEF SetStatus
  <2> HIDE DEF job
  <2>3. /\ jobs' \in Seq(Job) /\ DOMAIN jobs' = DOMAIN jobs /\ jobs'[m].status = st
        /\ \A n \in DOMAIN jobs : jobs'[n].batches = jobs[n].batches
        /\ \A n \in DOMAIN jobs : n # m => jobs'[n] = jobs[n]
    BY <1>1, <1>2, <2>1, <2>2, Rewrite
  <2>4. JobsOK'
    BY <1>1, <2>3 DEF JobsOK
  <2> QED
    BY <2>3, <2>4 DEF Writes
<1> DEFINE To(at) == [run[r] EXCEPT !.at = at]
<1>4. ASSUME NEW at \in {"match", "diffs", "error"} PROVE To(at) \in Run /\ To(at).at = at
                 /\ To(at).drain = e /\ To(at).job = m /\ To(at).todo = run[r].todo
  BY <1>1 DEF Run, Positions
<1>5. ASSUME NEW st \in {"running", "failed", "done"}, SetStatus(m, st),
             NEW at \in {"match", "diffs", "error"}
      PROVE  RunOK(To(at), jobs')
  <2> DEFINE here == To(at)
  <2>1. /\ here.at = at /\ here.drain = e /\ here.job = m /\ here.todo = run[r].todo
        /\ DOMAIN jobs' = DOMAIN jobs /\ jobs'[m].status = st
        /\ \A n \in DOMAIN jobs : jobs'[n].batches = jobs[n].batches
    BY <1>3, <1>4, <1>5 DEF Writes
  <2> HIDE DEF here
  <2>2. RunOK(here, jobs')
    BY <1>2, <2>1 DEF RunOK, Running
  <2> QED
    BY <2>2 DEF here
<1> HIDE DEF To
<1>6. CASE MarkRunning(r)
  <2>1. SetStatus(m, "running") /\ Become(r, To("match"))
    BY <1>6 DEF MarkRunning, Goto, To
  <2> QED
    BY <1>1, <1>3, <1>4, <1>5, <2>1, WriteAlone
<1>7. CASE MarkFailed(r)
  <2>1. SetStatus(m, "failed") /\ Become(r, To("error"))
    BY <1>7 DEF MarkFailed, Goto, To
  <2> QED
    BY <1>1, <1>3, <1>4, <1>5, <2>1, WriteAlone
<1>8. CASE MarkDone(r)
  <2>1. SetStatus(m, "done") /\ Become(r, To("diffs"))
    BY <1>8 DEF MarkDone, Goto, To
  <2> QED
    BY <1>1, <1>3, <1>4, <1>5, <2>1, WriteAlone
<1>9. CASE CreateDiffs(r)
  <2>1. /\ run[r].at = "diffs" /\ Become(r, AfterJob(run[r]))
        /\ jobs' = [jobs EXCEPT ![m].batches[e] = @ + 1]
    BY <1>9 DEF CreateDiffs, At
  <2>2. /\ jobs' \in Seq(Job) /\ DOMAIN jobs' = DOMAIN jobs
        /\ jobs'[m].batches[e] = 1 /\ jobs'[m].status = jobs[m].status
        /\ \A d \in Drain : d # e => jobs'[m].batches[d] = jobs[m].batches[d]
        /\ \A n \in DOMAIN jobs : n # m => jobs'[n] = jobs[n]
    <3> DEFINE job == [jobs[m] EXCEPT !.batches[e] = @ + 1]
    <3>1. /\ job \in Job /\ job.batches[e] = 1 /\ job.status = jobs[m].status
          /\ \A d \in Drain : d # e => job.batches[d] = jobs[m].batches[d]
      BY <1>2 DEF Job
    <3>2. jobs' = [jobs EXCEPT ![m] = job]
      BY <2>1
    <3> HIDE DEF job
    <3> QED
      BY <1>1, <1>2, <3>1, <3>2, Rewrite
  <2>3. jobs[m].status # "queued"
    BY <1>1, <2>1 DEF RunOK
  <2>4. JobsOK'
    <3> SUFFICES ASSUME NEW n \in DOMAIN jobs, NEW d \in Drain
                 PROVE  /\ jobs'[n].batches[d] <= 1
                        /\ jobs'[n].status = "queued" => jobs'[n].batches[d] = 0
      BY <2>2 DEF JobsOK
    <3>1. CASE n = m /\ d = e
      BY <2>2, <2>3, <3>1
    <3>2. CASE ~(n = m /\ d = e)
      BY <1>1, <2>2, <3>2 DEF JobsOK
    <3> QED
      BY <3>1, <3>2
  <2>5. Writes(r)
    BY <2>2, <2>3, <2>4 DEF Writes
  <2>6. AfterJob(run[r]) \in Run
    BY <1>1 DEF AfterJob, Run, Positions
  <2>7. RunOK(AfterJob(run[r]), jobs')
    <3> DEFINE here == AfterJob(run[r])
    <3>1. here.at \in {"idle", "get"} /\ here.drain = e /\ here.todo = run[r].todo
      BY <1>1 DEF AfterJob, Run
    <3> HIDE DEF here
    <3>2. ASSUME NEW n \in here.todo PROVE n \in DOMAIN jobs' /\ jobs'[n].batches[e] = 0
      <4>1. n \in DOMAIN jobs /\ jobs[n].batches[e] = 0 /\ n # m
        BY <1>2, <3>1
      <4> QED
        BY <2>2, <4>1
    <3>3. RunOK(here, jobs')
      BY <1>2, <3>1, <3>2 DEF RunOK, Running
    <3> QED
      BY <3>3 DEF here
  <2> QED
    BY <1>1, <2>1, <2>5, <2>6, <2>7, WriteAlone
<1> QED
  BY <1>6, <1>7, <1>8, <1>9

-----------------------------------------------------------------------------
(* Leases and queue together. *)

LEMMA BeginStep ==
    ASSUME QueueInv, NEW r \in Runner, NEW keys \in Seq(Key), NEW force \in BOOLEAN,
           NEW drain \in Drain \cup {NoDrain}, keys # <<>> \/ drain # NoDrain, Begin(r, keys, force, drain)
    PROVE  QueueInv'
<1> DEFINE here == Starting(keys, force, drain, 1)
<1>1. here \in Run /\ RunOK(here, jobs)
  BY StartingFits
<1>2. /\ Become(r, here) /\ UNCHANGED jobs
      /\ faults' \in 0..MaxFaults
  BY DEF Begin, QueueInv, QueueTypeOK
<1> HIDE DEF here
<1> QED
  BY <1>1, <1>2, MoveOnly

\* A runner keeps its kind until it is idle, and the others their place.
Keeps(r) ==
    /\ run'[r].at # "idle" /\ run'[r].drain # NoDrain => run'[r].drain = run[r].drain
    /\ \A s \in Runner : s # r => run'[s] = run[s]

LEMMA BecomeKeeps ==
    ASSUME run \in [Runner -> Run], NEW r \in Runner, NEW here, Become(r, here),
           here.drain = run[r].drain
    PROVE  Keeps(r)
BY DEF Become, Idle, Keeps

LEMMA AdvanceKeeps ==
    ASSUME QueueInv, NEW r \in Runner, Advance(r)
    PROVE  run[r].at # "idle" /\ Keeps(r)
<1>1. run \in [Runner -> Run] /\ run[r] \in Run
  BY DEF QueueInv, QueueTypeOK
<1>2. run[r].at # "idle"
  BY DEF Advance, Enqueue, Insert, List, Get, MarkRunning, MatchFails, MarkFailed,
         MarkDone, CreateDiffs, Fail, Recover, At
<1> SUFFICES Keeps(r)
  BY <1>2
<1>3. ASSUME NEW at, Goto(r, at) PROVE Keeps(r)
  <2> DEFINE here == [run[r] EXCEPT !.at = at]
  <2>1. Become(r, here) /\ here.drain = run[r].drain
    BY <1>1, <1>3 DEF Goto, Run
  <2> HIDE DEF here
  <2> QED
    BY <1>1, <2>1, BecomeKeeps
<1>4. ASSUME Become(r, KeyDone(run[r])) PROVE Keeps(r)
  <2>1. KeyDone(run[r]).drain = run[r].drain
    BY <1>1 DEF KeyDone, Run
  <2> QED
    BY <1>1, <1>4, <2>1, BecomeKeeps
<1>5. CASE Enqueue(r)
  <2> DEFINE Create(v) == [run[r] EXCEPT !.at = "insert", !.version = v]
  <2>1. ASSUME NEW v PROVE Create(v).drain = run[r].drain
    BY <1>1 DEF Run
  <2>2. Become(r, KeyDone(run[r])) \/ \E v : Become(r, Create(v))
    BY <1>5 DEF Enqueue
  <2> QED
    BY <1>1, <1>4, <2>1, <2>2, BecomeKeeps
<1>6. CASE Insert(r)
  BY <1>3, <1>4, <1>6 DEF Insert
<1>7. CASE List(r)
  <2> DEFINE here == [run[r] EXCEPT !.todo = Queued, !.at = IF Queued = {} THEN "idle" ELSE "get"]
  <2>1. Become(r, here) /\ here.drain = run[r].drain
    BY <1>1, <1>7 DEF List, Run
  <2> HIDE DEF here
  <2> QED
    BY <1>1, <2>1, BecomeKeeps
<1>8. CASE Get(r)
  <2>1. PICK n \in run[r].todo :
           Become(r, IF jobs[n].status = "done"
                     THEN AfterJob([run[r] EXCEPT !.todo = @ \ {n}, !.job = n])
                     ELSE [[run[r] EXCEPT !.todo = @ \ {n}, !.job = n] EXCEPT !.at = "running"])
    BY <1>8 DEF Get
  <2> DEFINE taken == [run[r] EXCEPT !.todo = @ \ {n}, !.job = n]
             here == IF jobs[n].status = "done" THEN AfterJob(taken)
                     ELSE [taken EXCEPT !.at = "running"]
  <2>2. Become(r, here)
    BY <2>1
  <2>3. here.drain = run[r].drain
    BY <1>1 DEF AfterJob, Run
  <2> HIDE DEF here
  <2> QED
    BY <1>1, <2>2, <2>3, BecomeKeeps
<1>9. CASE CreateDiffs(r)
  <2>1. Become(r, AfterJob(run[r])) /\ AfterJob(run[r]).drain = run[r].drain
    BY <1>1, <1>9 DEF CreateDiffs, AfterJob, Run
  <2> QED
    BY <1>1, <2>1, BecomeKeeps
<1>10. CASE Recover(r)
  <2> DEFINE again == Starting(run[r].asks, FALSE, run[r].drain, run[r].attempt + 1)
  <2>1. Goto(r, "idle") \/ (Become(r, again) /\ again.drain = run[r].drain)
    BY <1>10 DEF Recover, Starting
  <2> HIDE DEF again
  <2> QED
    BY <1>1, <1>3, <2>1, BecomeKeeps
<1> QED
  BY <1>3, <1>5, <1>6, <1>7, <1>8, <1>9, <1>10
     DEF Advance, MarkRunning, MatchFails, MarkFailed, MarkDone, Fail

\* Two runners that drain as one job would be two replicas inside Hold of it.
LEMMA HeldAlone ==
    ASSUME LeaseInv, QueueInv, Held, NEW r \in Runner, run[r].at \in Running
    PROVE  Alone(r)
<1> SUFFICES ASSUME NEW s \in Runner, s # r, run[s].at \in Running \cup {"list", "get"},
                    run[s].drain = run[r].drain
             PROVE  FALSE
  BY DEF Alone
<1>1. RunOK(run[s], jobs) /\ RunOK(run[r], jobs)
  BY DEF QueueInv, RunsOK
<1>2. /\ run[s].drain \in Drain /\ run[s].at # "idle"
      /\ run[r].drain \in Drain /\ run[r].at # "idle"
  BY <1>1 DEF RunOK, Running
<1>3. r \in Worker /\ s \in Worker /\ holding[r] = run[r].drain /\ holding[s] = run[r].drain
  BY <1>2, QueueAssumption DEF Held
<1>4. holding[r] # NoJob
  BY <1>2, <1>3, ReconAssumption
<1> QED
  BY <1>3, <1>4, LeaseInvExcludes DEF Exclusion

LEMMA AdvanceStep ==
    ASSUME LeaseInv, QueueInv, Held, NEW r \in Runner, Advance(r)
    PROVE  QueueInv'
<1>1. CASE MarkRunning(r) \/ MarkFailed(r) \/ MarkDone(r) \/ CreateDiffs(r)
  <2>1. run[r].at \in Running
    BY <1>1 DEF MarkRunning, MarkFailed, MarkDone, CreateDiffs, At, Running
  <2> QED
    BY <1>1, <2>1, HeldAlone, WriteSteps
<1> QED
  BY <1>1, ReadSteps, InsertStep, FailSteps DEF Advance

\* What a step does to its own runner decides whether drains stay held.
LEMMA HeldKept ==
    ASSUME Held, NEW r \in Runner,
           \A s \in Runner : s # r => run'[s] = run[s] /\ (s \in Worker => holding'[s] = holding[s]),
           run'[r].at # "idle" /\ run'[r].drain # NoDrain =>
               r \in Worker /\ holding'[r] = run'[r].drain
    PROVE  Held'
BY DEF Held

LEMMA StartStep ==
    ASSUME Manual = {}, LeaseInv, QueueInv, Held, NEW r \in Runner, NEW j \in Jobs, Start(r, j)
    PROVE  QueueInv' /\ Held'
<1>1. r \in Worker /\ Acquire(r, j)
  BY DEF Start
<1>2. KeysOf(j) \in Seq(Key)
  BY ReconAssumption DEF KeysOf
<1>3. Begin(r, KeysOf(j), FALSE, j)
  BY DEF Start
<1>4. QueueInv'
  BY <1>2, <1>3, BeginStep, ReconAssumption, QueueAssumption
<1>5. \A s \in Runner : s # r => run'[s] = run[s] /\ (s \in Worker => holding'[s] = holding[s])
  BY <1>1, <1>3 DEF Begin, Become, Acquire, QueueInv, QueueTypeOK, LeaseInv, LeaseTypeOK
<1>6. run'[r].drain # NoDrain => holding'[r] = run'[r].drain
  <2> DEFINE here == Starting(KeysOf(j), FALSE, j, 1)
  <2>1. holding'[r] = j
    BY <1>1 DEF Acquire, LeaseInv, LeaseTypeOK
  <2>2. here \in Run /\ Become(r, here) /\ here.drain = j
    <3>1. here \in Run
      BY <1>2, StartingFits, ReconAssumption, QueueAssumption
    <3> QED
      BY <1>3, <3>1 DEF Begin, Starting
  <2> HIDE DEF here
  <2> QED
    BY <2>1, <2>2, Becoming DEF Idle, QueueInv, QueueTypeOK
<1> QED
  BY <1>1, <1>4, <1>5, <1>6, HeldKept

LEMMA SubmitStep ==
    ASSUME QueueInv, Held, NEW c \in Caller, NEW k \in Key, NEW force \in BOOLEAN,
           Submit(c, k, force)
    PROVE  QueueInv' /\ Held'
<1> DEFINE here == Starting(<<k>>, force, NoDrain, 1)
<1>1. c \in Runner /\ <<k>> \in Seq(Key) /\ <<k>> # <<>>
  BY DEF Caller
<1>2. Begin(c, <<k>>, force, NoDrain) /\ UNCHANGED leaseVars
  BY DEF Submit
<1>3. QueueInv'
  BY <1>1, <1>2, BeginStep
<1>4. here \in Run /\ Become(c, here) /\ here.drain = NoDrain /\ run \in [Runner -> Run]
  <2>1. here \in Run
    BY <1>1, StartingFits
  <2> QED
    BY <1>2, <2>1 DEF Begin, Starting, QueueInv, QueueTypeOK
<1> HIDE DEF here
<1>5. /\ run'[c].drain = NoDrain
      /\ \A s \in Runner : s # c => run'[s] = run[s]
  BY <1>1, <1>4, Becoming DEF Idle
<1> QED
  BY <1>1, <1>2, <1>3, <1>5, HeldKept DEF leaseVars

LEMMA RunnerStep ==
    ASSUME LeaseInv, QueueInv, Held, NEW r \in Runner, Step(r)
    PROVE  QueueInv' /\ Held'
<1>1. Advance(r)
  BY DEF Step
<1>2. QueueInv' /\ run[r].at # "idle" /\ Keeps(r)
  BY <1>1, AdvanceStep, AdvanceKeeps
<1>3. CASE run'[r].at = "idle"
  <2>1. \A s \in Worker : s # r => holding'[s] = holding[s]
    BY <1>3 DEF Step, Finish, leaseVars, LeaseInv, LeaseTypeOK
  <2> QED
    BY <1>2, <1>3, <2>1, HeldKept DEF Keeps
<1>4. CASE run'[r].at # "idle"
  <2>1. holding' = holding
    BY <1>4 DEF Step, leaseVars
  <2>2. run'[r].drain # NoDrain => r \in Worker /\ holding[r] = run'[r].drain
    BY <1>2, <1>4 DEF Keeps, Held
  <2> QED
    BY <1>2, <1>4, <2>1, <2>2, HeldKept DEF Keeps
<1> QED
  BY <1>3, <1>4

LEMMA EndStep ==
    ASSUME LeaseInv, QueueInv, Held, NEW r \in Runner, End(r)
    PROVE  QueueInv' /\ Held'
<1>1. Crash(r)
  BY DEF End
<1>2. QueueInv' /\ run \in [Runner -> Run]
  BY <1>1, FailSteps DEF QueueInv, QueueTypeOK
<1>3. run'[r] = Idle /\ \A s \in Runner : s # r => run'[s] = run[s]
  <2>1. run' = [run EXCEPT ![r] = Idle]
    BY <1>1, <1>2 DEF Crash, Goto, Become, Run
  <2> QED
    BY <1>2, <2>1
<1>4. \A s \in Worker : s # r => holding'[s] = holding[s]
  BY DEF End, Die, leaseVars, LeaseInv, LeaseTypeOK
<1> QED
  BY <1>2, <1>3, <1>4, HeldKept DEF Idle

ReconInv == LeaseInv /\ QueueInv /\ Held

LEMMA ReconInvInit == Init => ReconInv
<1> SUFFICES ASSUME Init PROVE ReconInv
  OBVIOUS
<1>1. LeaseInv
  BY LeaseInvInit DEF Init
<1>2. run = [r \in Runner |-> Idle] /\ jobs = <<>> /\ faults = 0
  BY DEF Init, QueueInit
<1>3. QueueTypeOK
  BY <1>2, IdleFits, QueueAssumption DEF QueueTypeOK
<1>4. JobsOK /\ RunsOK
  BY <1>2, IdleFits DEF JobsOK, RunsOK
<1>5. Held
  BY <1>2 DEF Held, Idle
<1> QED
  BY <1>1, <1>3, <1>4, <1>5 DEF ReconInv, QueueInv

LEMMA ReconInvStep ==
    ASSUME Manual = {}, ReconInv, [Next]_vars
    PROVE  ReconInv'
<1>1. LeaseInv /\ QueueInv /\ Held
  BY DEF ReconInv
<1>2. LeaseInv'
  BY <1>1, NextLeases, LeaseInvStep
<1>3. QueueInv' /\ Held'
  <2>1. CASE UNCHANGED queueVars /\ UNCHANGED holding
    <3>1. jobs' = jobs /\ run' = run /\ faults' = faults
      BY <2>1 DEF queueVars
    <3>2. QueueInv'
      BY <1>1, <3>1 DEF QueueInv, QueueTypeOK, JobsOK, RunsOK
    <3> QED
      BY <1>1, <2>1, <3>1, <3>2 DEF Held
  <2>2. CASE UNCHANGED vars
    BY <2>1, <2>2 DEF vars, leaseVars
  <2>3. ASSUME NEW r \in Runner, NEW j \in Jobs, Start(r, j) PROVE QueueInv' /\ Held'
    BY <1>1, <2>3, StartStep
  <2>4. ASSUME NEW c \in Caller, NEW k \in Key, NEW force \in Forces, Submit(c, k, force)
        PROVE  QueueInv' /\ Held'
    BY <1>1, <2>4, SubmitStep, ReconAssumption
  <2>5. ASSUME NEW r \in Runner, Step(r) \/ End(r) PROVE QueueInv' /\ Held'
    BY <1>1, <2>5, RunnerStep, EndStep
  <2>6. ASSUME NEW w \in Worker, Renew(w), UNCHANGED queueVars PROVE QueueInv' /\ Held'
    BY <2>1, <2>6 DEF Renew
  <2>7. ASSUME Tick, UNCHANGED queueVars PROVE QueueInv' /\ Held'
    BY <2>1, <2>7 DEF Tick
  <2> QED
    BY <2>2, <2>3, <2>4, <2>5, <2>6, <2>7 DEF Next
<1> QED
  BY <1>2, <1>3 DEF ReconInv

\* While operators keep off, no kind of drain writes a job's differences twice,
\* however many replicas, callers, failures, retries and crashes there are.
THEOREM ReportsOnce == ASSUME Manual = {} PROVE Spec => []OneReportPerDrain
<1>1. ReconInv /\ [Next]_vars => ReconInv'
  BY ReconInvStep
<1>2. ReconInv => OneReportPerDrain
  BY DEF ReconInv, QueueInv, JobsOK, OneReportPerDrain
<1> QED
  BY <1>1, <1>2, ReconInvInit, PTL DEF Spec

\* Types, under the same assumption.
THEOREM ReconTypes == ASSUME Manual = {} PROVE Spec => []TypeOK
<1>1. ReconInv /\ [Next]_vars => ReconInv'
  BY ReconInvStep
<1>2. ReconInv => TypeOK
  BY DEF ReconInv, LeaseInv, QueueInv, TypeOK
<1> QED
  BY <1>1, <1>2, ReconInvInit, PTL DEF Spec
-----------------------------------------------------------------------------
(* Versions.  Between reading the latest version and inserting the next, any  *)
(* number of others may insert; what decides is the unique index.  What was  *)
(* read stays true: versions are not taken away, and a job that has failed   *)
(* stays one that has.                                                       *)

Failed == \A n \in DOMAIN jobs : jobs[n].status = "failed" => jobs[n].unmet

OneEach == \A n, m \in DOMAIN jobs : jobs[n].key = jobs[m].key /\ jobs[n].version = jobs[m].version => n = m

\* What a runner is about to insert follows a version that is there.
Follows(here, js) ==
    here.at = "insert" =>
        /\ here.version >= 1
        /\ \/ here.version = 1
           \/ \E m \in DOMAIN js : /\ js[m].key = Head(here.keys) /\ here.version = js[m].version + 1
                                   /\ here.force \/ js[m].unmet

VersionsInv == VersionsEarned /\ Failed /\ OneEach /\ \A r \in Runner : Follows(run[r], jobs)

VersionsOf(k) == {jobs[n].version : n \in JobsOf(k)}

\* Jobs that keep what they were made with, and do not forget that they have failed.
Same(js, more) ==
    /\ DOMAIN more = DOMAIN js
    /\ \A n \in DOMAIN js :
          /\ more[n].key = js[n].key /\ more[n].version = js[n].version /\ more[n].forced = js[n].forced
          /\ js[n].unmet => more[n].unmet
          /\ more[n].status = "failed" => more[n].unmet

LEMMA SameKeeps ==
    ASSUME VersionsInv, Same(jobs, jobs'), NEW r \in Runner,
           \A s \in Runner : s # r => run'[s] = run[s],
           run'[r].at # "insert" \/ Follows(run'[r], jobs)
    PROVE  VersionsInv'
<1>1. \A k \in Key : JobsOf(k)' = JobsOf(k) /\ \A n \in JobsOf(k) : n \in DOMAIN jobs
  BY DEF Same, JobsOf
<1>2. \A k \in Key : VersionsOf(k)' = VersionsOf(k)
  BY <1>1 DEF Same, VersionsOf
<1>3. VersionsEarned'
  <2> SUFFICES ASSUME NEW k \in Key
               PROVE  /\ VersionsOf(k)' = 1..Cardinality(JobsOf(k)')
                      /\ \A n, m \in JobsOf(k)' :
                            jobs'[n].version = jobs'[m].version + 1 /\ ~jobs'[n].forced => jobs'[m].unmet
    BY DEF VersionsEarned, VersionsOf
  <2>1. /\ VersionsOf(k) = 1..Cardinality(JobsOf(k))
        /\ \A n, m \in JobsOf(k) :
              jobs[n].version = jobs[m].version + 1 /\ ~jobs[n].forced => jobs[m].unmet
    BY DEF VersionsInv, VersionsEarned, VersionsOf
  <2> QED
    BY <1>1, <1>2, <2>1 DEF Same
<1>4. Failed' /\ OneEach'
  BY DEF VersionsInv, Same, Failed, OneEach
<1>5. ASSUME NEW here, Follows(here, jobs) PROVE Follows(here, jobs')
  BY <1>5 DEF Follows, Same
<1>6. \A s \in Runner : Follows(run'[s], jobs')
  <2> SUFFICES ASSUME NEW s \in Runner PROVE Follows(run'[s], jobs')
    OBVIOUS
  <2>1. CASE s # r
    BY <1>5, <2>1 DEF VersionsInv
  <2>2. CASE s = r
    BY <1>5, <2>2 DEF Follows
  <2> QED
    BY <2>1, <2>2
<1> QED
  BY <1>3, <1>4, <1>6 DEF VersionsInv

LEMMA UnchangedSame == ASSUME Failed, UNCHANGED jobs PROVE Same(jobs, jobs')
BY DEF Same, Failed

LEMMA StatusSame ==
    ASSUME Failed, jobs \in Seq(Job), NEW m \in DOMAIN jobs,
           NEW st \in {"running", "failed", "done"}, SetStatus(m, st)
    PROVE  Same(jobs, jobs')
<1> DEFINE job == [jobs[m] EXCEPT !.status = st, !.unmet = @ \/ st = "failed"]
<1>1. jobs[m] \in Job
  OBVIOUS
<1>2. /\ job \in Job /\ job.key = jobs[m].key /\ job.version = jobs[m].version
      /\ job.forced = jobs[m].forced /\ (jobs[m].unmet => job.unmet)
      /\ (job.status = "failed" => job.unmet)
  BY <1>1 DEF Job
<1>3. jobs' = [jobs EXCEPT ![m] = job]
  BY DEF SetStatus
<1> HIDE DEF job
<1>4. DOMAIN jobs' = DOMAIN jobs /\ jobs'[m] = job /\ \A n \in DOMAIN jobs : n # m => jobs'[n] = jobs[n]
  BY <1>2, <1>3, Rewrite
<1> QED
  BY <1>2, <1>4 DEF Same, Failed

LEMMA BatchSame ==
    ASSUME Failed, jobs \in Seq(Job), NEW m \in DOMAIN jobs, NEW e \in Drain,
           jobs' = [jobs EXCEPT ![m].batches[e] = @ + 1]
    PROVE  Same(jobs, jobs')
<1> DEFINE b == [jobs[m].batches EXCEPT ![e] = @ + 1]
<1> DEFINE job == [jobs[m] EXCEPT !.batches = b]
<1>1. jobs[m] \in Job
  OBVIOUS
<1>2. b \in [Drain -> Nat]
  BY <1>1 DEF Job
<1>3. jobs' = [jobs EXCEPT ![m] = job]
  OBVIOUS
<1> HIDE DEF b
<1>4. /\ job \in Job /\ job.key = jobs[m].key /\ job.version = jobs[m].version
      /\ job.forced = jobs[m].forced /\ job.unmet = jobs[m].unmet /\ job.status = jobs[m].status
  BY <1>1, <1>2 DEF Job
<1> HIDE DEF job
<1>5. DOMAIN jobs' = DOMAIN jobs /\ jobs'[m] = job /\ \A n \in DOMAIN jobs : n # m => jobs'[n] = jobs[n]
  BY <1>3, <1>4, Rewrite
<1> QED
  BY <1>4, <1>5 DEF Same, Failed
\* The version that is inserted is the next of its key, or the index refuses it.
LEMMA InsertVersions ==
    ASSUME QueueInv, VersionsInv, NEW r \in Runner, Insert(r),
           \A s \in Runner : s # r => run'[s] = run[s], run'[r].at # "insert"
    PROVE  VersionsInv'
<1>1. run[r] \in Run /\ RunOK(run[r], jobs) /\ jobs \in Seq(Job) /\ run[r].at = "insert"
  BY DEF QueueInv, QueueTypeOK, RunsOK, Insert, At
<1>2. CASE UNCHANGED jobs
  BY <1>2, UnchangedSame, SameKeeps DEF VersionsInv
<1>3. CASE /\ ~ \E n \in JobsOf(Head(run[r].keys)) : jobs[n].version = run[r].version
           /\ jobs' = Append(jobs, NewJob(r, run[r].version))
  <2>0. PICK k, v, x, c : /\ k = Head(run[r].keys) /\ v = run[r].version
                          /\ x = Len(jobs) + 1 /\ c = Cardinality(JobsOf(k))
    OBVIOUS
  <2> DEFINE new == NewJob(r, v)
  <2>1. k \in Key /\ v \in Nat /\ v >= 1
    BY <1>1, <2>0 DEF Run, RunOK, VersionsInv, Follows
  <2>2. /\ new \in Job /\ new.key = k /\ new.version = v /\ new.forced = run[r].force
        /\ new.status = "queued"
    BY <1>1, <2>0, <2>1 DEF NewJob, Job, Run
  <2> HIDE DEF new
  <2>3. /\ jobs' \in Seq(Job)
        /\ DOMAIN jobs' = DOMAIN jobs \cup {x} /\ x \notin DOMAIN jobs
        /\ \A n \in DOMAIN jobs : jobs'[n] = jobs[n]
        /\ jobs'[x] = new
    <3>1. jobs' = Append(jobs, new)
      BY <1>3, <2>0 DEF new
    <3> QED
      BY <1>1, <2>0, <2>2, <3>1
  <2>4. \A l \in Key : IsFiniteSet(JobsOf(l)) /\ Cardinality(JobsOf(l)) \in Nat
    <3>1. Len(jobs) \in Int /\ 1 \in Int
      BY <1>1
    <3>2. IsFiniteSet(1..Len(jobs))
      BY <3>1, FS_Interval
    <3>3. \A l : JobsOf(l) \in SUBSET (1..Len(jobs))
      BY <1>1 DEF JobsOf
    <3> QED
      BY <3>2, <3>3, FS_Subset, FS_CardinalityType
  <2>5. /\ \A l \in Key : VersionsOf(l) = 1..Cardinality(JobsOf(l))
        /\ \A l \in Key : \A n, m \in JobsOf(l) :
              jobs[n].version = jobs[m].version + 1 /\ ~jobs[n].forced => jobs[m].unmet
    BY DEF VersionsInv, VersionsEarned, VersionsOf
  <2>6. \A n \in DOMAIN jobs : jobs[n] \in Job /\ jobs[n].version \in Nat
    <3>1. \A job \in Job : job.version \in Nat
      BY DEF Job
    <3> QED
      BY <1>1, <3>1
  <2>7. v = c + 1
    <3>1. v \notin VersionsOf(k)
      BY <1>3, <2>0 DEF VersionsOf
    <3>2. v = 1 \/ v - 1 \in VersionsOf(k)
      <4>1. v = 1 \/ \E m \in DOMAIN jobs : jobs[m].key = k /\ v = jobs[m].version + 1
        BY <1>1, <2>0 DEF VersionsInv, Follows
      <4>2. ASSUME NEW m \in DOMAIN jobs, jobs[m].key = k, v = jobs[m].version + 1
            PROVE  v - 1 \in VersionsOf(k)
        <5>1. v - 1 = jobs[m].version
          BY <2>6, <4>2
        <5> QED
          BY <4>2, <5>1 DEF VersionsOf, JobsOf
      <4> QED
        BY <4>1, <4>2
    <3>3. VersionsOf(k) = 1..c /\ c \in Nat
      BY <2>0, <2>1, <2>4, <2>5
    <3> QED
      BY <2>1, <3>1, <3>2, <3>3
  <2>8. JobsOf(k)' = JobsOf(k) \cup {x} /\ x \notin JobsOf(k)
        /\ \A l \in Key : l # k => JobsOf(l)' = JobsOf(l)
    BY <2>2, <2>3 DEF JobsOf
  <2>9. Cardinality(JobsOf(k)') = c + 1
    BY <2>0, <2>1, <2>4, <2>8, FS_AddElement
  <2>10. \A l \in Key : VersionsOf(l)' = 1..Cardinality(JobsOf(l)')
    <3> SUFFICES ASSUME NEW l \in Key PROVE VersionsOf(l)' = 1..Cardinality(JobsOf(l)')
      OBVIOUS
    <3>1. CASE l # k
      <4>1. VersionsOf(l)' = VersionsOf(l)
        BY <2>3, <2>8, <3>1 DEF VersionsOf, JobsOf
      <4> QED
        BY <2>5, <2>8, <3>1, <4>1
    <3>2. CASE l = k
      <4>1. VersionsOf(k)' = VersionsOf(k) \cup {v}
        <5>1. VersionsOf(k)' = {jobs'[n].version : n \in JobsOf(k)'}
          BY DEF VersionsOf
        <5>2. \A n \in JobsOf(k) : jobs'[n].version = jobs[n].version
          BY <2>3 DEF JobsOf
        <5>3. jobs'[x].version = v
          BY <2>2, <2>3
        <5> QED
          BY <2>8, <5>1, <5>2, <5>3 DEF VersionsOf
      <4>2. VersionsOf(k) = 1..c /\ c \in Nat
        BY <2>0, <2>1, <2>4, <2>5
      <4>3. VersionsOf(k)' = 1..(c + 1)
        <5>1. (1..c) \cup {c + 1} = 1..(c + 1)
          BY <4>2
        <5> QED
          BY <2>7, <4>1, <4>2, <5>1
      <4> QED
        BY <2>9, <3>2, <4>3
    <3> QED
      BY <3>1, <3>2
  <2>11. OneEach'
    <3> SUFFICES ASSUME NEW n \in DOMAIN jobs', NEW m \in DOMAIN jobs',
                        jobs'[n].key = jobs'[m].key, jobs'[n].version = jobs'[m].version
                 PROVE  n = m
      BY DEF OneEach
    <3>1. CASE n # x /\ m # x
      BY <2>3, <3>1 DEF VersionsInv, OneEach
    <3>2. \A i \in DOMAIN jobs : ~(jobs[i].key = k /\ jobs[i].version = v)
      BY <1>3, <2>0 DEF JobsOf
    <3>3. jobs'[x].key = k /\ jobs'[x].version = v
      BY <2>2, <2>3
    <3> QED
      BY <2>3, <3>1, <3>2, <3>3
  <2>12. \A l \in Key : \A n, m \in JobsOf(l)' :
             jobs'[n].version = jobs'[m].version + 1 /\ ~jobs'[n].forced => jobs'[m].unmet
    <3> SUFFICES ASSUME NEW l \in Key, NEW n \in JobsOf(l)', NEW m \in JobsOf(l)',
                        jobs'[n].version = jobs'[m].version + 1, ~jobs'[n].forced
                 PROVE  jobs'[m].unmet
      OBVIOUS
    <3>1. n \in DOMAIN jobs' /\ m \in DOMAIN jobs' /\ jobs'[n].key = l /\ jobs'[m].key = l
      BY DEF JobsOf
    <3>2. CASE n # x /\ m # x
      BY <2>3, <2>5, <3>1, <3>2 DEF JobsOf
    <3>3. CASE n = x /\ m # x
      <4>1. m \in DOMAIN jobs /\ jobs'[m] = jobs[m] /\ jobs[m].key = k /\ v = jobs[m].version + 1
        BY <2>2, <2>3, <3>1, <3>3
      <4>2. ~run[r].force
        BY <2>2, <2>3, <3>3
      <4>3. v # 1
        <5>1. jobs[m].version \in VersionsOf(k)
          BY <4>1 DEF VersionsOf, JobsOf
        <5>2. VersionsOf(k) = 1..c
          BY <2>0, <2>1, <2>5
        <5>3. jobs[m].version >= 1 /\ jobs[m].version \in Nat
          BY <2>6, <4>1, <5>1, <5>2
        <5> QED
          BY <4>1, <5>3
      <4>4. PICK i \in DOMAIN jobs : jobs[i].key = k /\ v = jobs[i].version + 1 /\ jobs[i].unmet
        BY <1>1, <2>0, <4>2, <4>3 DEF VersionsInv, Follows
      <4>5. jobs[i].version = jobs[m].version
        <5>1. PICK vi \in Nat, vm \in Nat : vi = jobs[i].version /\ vm = jobs[m].version
          BY <2>6, <4>1, <4>4
        <5>2. v = vi + 1 /\ v = vm + 1
          BY <4>1, <4>4, <5>1
        <5>3. vi = vm
          BY <5>2
        <5> QED
          BY <5>1, <5>3
      <4>6. i = m
        BY <4>1, <4>4, <4>5 DEF VersionsInv, OneEach
      <4> QED
        BY <4>1, <4>4, <4>6
    <3>4. CASE n # x /\ m = x
      <4>1. n \in DOMAIN jobs /\ jobs[n].key = k /\ jobs[n].version = v + 1
        BY <2>2, <2>3, <3>1, <3>4
      <4>2. jobs[n].version \in VersionsOf(k)
        BY <4>1 DEF VersionsOf, JobsOf
      <4>3. VersionsOf(k) = 1..c /\ c \in Nat
        BY <2>0, <2>1, <2>4, <2>5
      <4> QED
        BY <2>7, <4>1, <4>2, <4>3
    <3>5. CASE n = x /\ m = x
      <4>1. v = v + 1
        BY <2>2, <2>3, <3>5
      <4> QED
        BY <2>1, <4>1
    <3> QED
      BY <3>2, <3>3, <3>4, <3>5
  <2>13. VersionsEarned'
    BY <2>10, <2>12 DEF VersionsEarned, VersionsOf
  <2>14. Failed'
    BY <2>2, <2>3 DEF VersionsInv, Failed
  <2>15. ASSUME NEW s \in Runner PROVE Follows(run'[s], jobs')
    <3>1. ASSUME NEW here, Follows(here, jobs) PROVE Follows(here, jobs')
      BY <2>3, <3>1 DEF Follows
    <3>2. CASE s = r
      BY <3>2 DEF Follows
    <3> QED
      BY <3>1, <3>2 DEF VersionsInv
  <2> QED
    BY <2>11, <2>13, <2>14, <2>15 DEF VersionsInv
<1> QED
  BY <1>2, <1>3 DEF Insert
\* Only Enqueue sets out to insert.
LEMMA BecomeElsewhere ==
    ASSUME QueueInv, NEW r \in Runner, NEW here, Become(r, here), here.at # "insert"
    PROVE  run'[r].at # "insert" /\ \A s \in Runner : s # r => run'[s] = run[s]
BY DEF Become, Idle, QueueInv, QueueTypeOK

LEMMA GotoElsewhere ==
    ASSUME QueueInv, NEW r \in Runner, NEW at, Goto(r, at), at # "insert"
    PROVE  run'[r].at # "insert" /\ \A s \in Runner : s # r => run'[s] = run[s]
<1> DEFINE here == [run[r] EXCEPT !.at = at]
<1>1. Become(r, here) /\ here.at = at
  BY DEF Goto, QueueInv, QueueTypeOK, Run
<1> HIDE DEF here
<1> QED
  BY <1>1, BecomeElsewhere

LEMMA KeyDoneElsewhere ==
    ASSUME QueueInv, NEW r \in Runner, Become(r, KeyDone(run[r]))
    PROVE  run'[r].at # "insert" /\ \A s \in Runner : s # r => run'[s] = run[s]
<1> DEFINE here == KeyDone(run[r])
<1>1. Become(r, here) /\ here.at # "insert"
  BY DEF KeyDone, QueueInv, QueueTypeOK, Run
<1> HIDE DEF here
<1> QED
  BY <1>1, BecomeElsewhere

LEMMA StartElsewhere ==
    ASSUME QueueInv, NEW r \in Runner, NEW keys, NEW force, NEW drain, NEW attempt,
           Become(r, Starting(keys, force, drain, attempt))
    PROVE  run'[r].at # "insert" /\ \A s \in Runner : s # r => run'[s] = run[s]
<1> DEFINE here == Starting(keys, force, drain, attempt)
<1>1. Become(r, here) /\ here.at # "insert"
  BY DEF Starting
<1> HIDE DEF here
<1> QED
  BY <1>1, BecomeElsewhere

\* Enqueue reads the latest version, which is not taken up again or has failed.
LEMMA EnqueueVersions ==
    ASSUME QueueInv, VersionsInv, NEW r \in Runner, Enqueue(r)
    PROVE  VersionsInv'
<1>1. /\ run[r] \in Run /\ jobs \in Seq(Job) /\ run \in [Runner -> Run] /\ UNCHANGED jobs
      /\ Same(jobs, jobs')
  BY UnchangedSame DEF QueueInv, QueueTypeOK, Enqueue, VersionsInv
<1> DEFINE Create(v) == [run[r] EXCEPT !.at = "insert", !.version = v]
<1>2. ASSUME NEW v \in Nat, Become(r, Create(v)), Follows(Create(v), jobs) PROVE VersionsInv'
  <2>1. run' = [run EXCEPT ![r] = Create(v)]
    <3>1. Create(v).at = "insert"
      BY <1>1 DEF Run
    <3> HIDE DEF Create
    <3> QED
      BY <1>2, <3>1 DEF Become
  <2>2. run'[r] = Create(v) /\ \A s \in Runner : s # r => run'[s] = run[s]
    BY <1>1, <2>1
  <2> HIDE DEF Create
  <2> QED
    BY <1>1, <1>2, <2>2, SameKeeps
<1>3. CASE Become(r, KeyDone(run[r]))
  BY <1>1, <1>3, KeyDoneElsewhere, SameKeeps
<1>4. CASE Become(r, Create(1))
  <2>1. Follows(Create(1), jobs)
    BY <1>1 DEF Follows, Run
  <2> QED
    BY <1>2, <1>4, <2>1
<1>5. ASSUME NEW n \in JobsOf(Head(run[r].keys)),
             run[r].force \/ ~Reusable(jobs[n].status),
             Become(r, Create(jobs[n].version + 1))
      PROVE  VersionsInv'
  <2> DEFINE v == jobs[n].version + 1
  <2>1. n \in DOMAIN jobs /\ jobs[n].key = Head(run[r].keys) /\ jobs[n] \in Job
    BY <1>1 DEF JobsOf
  <2>2. jobs[n].version \in Nat /\ v \in Nat /\ v >= 1
    BY <2>1 DEF Job
  <2>3. run[r].force \/ jobs[n].unmet
    BY <1>5, <2>1 DEF Reusable, VersionsInv, Failed, Job
  <2>4. Follows(Create(v), jobs)
    <3>1. /\ Create(v).version = v /\ Create(v).keys = run[r].keys /\ Create(v).force = run[r].force
      BY <1>1 DEF Run
    <3> HIDE DEF Create
    <3> QED
      BY <2>1, <2>2, <2>3, <3>1 DEF Follows
  <2> QED
    BY <1>2, <1>5, <2>2, <2>4
<1>6. PICK here : Become(r, here) /\
          \/ here = Create(1)
          \/ \E n \in JobsOf(Head(run[r].keys)) :
                here = IF ~run[r].force /\ Reusable(jobs[n].status)
                       THEN KeyDone(run[r]) ELSE Create(jobs[n].version + 1)
  BY DEF Enqueue
<1> HIDE DEF Create
<1> QED
  BY <1>3, <1>4, <1>5, <1>6

LEMMA AdvanceVersions ==
    ASSUME QueueInv, VersionsInv, NEW r \in Runner, Advance(r)
    PROVE  VersionsInv'
<1>1. jobs \in Seq(Job) /\ run[r] \in Run /\ Failed /\ RunOK(run[r], jobs)
  BY DEF QueueInv, QueueTypeOK, VersionsInv, RunsOK
<1>2. ASSUME UNCHANGED jobs, run'[r].at # "insert", \A s \in Runner : s # r => run'[s] = run[s]
      PROVE  VersionsInv'
  BY <1>1, <1>2, UnchangedSame, SameKeeps
<1>3. CASE Insert(r)
  <2>1. run'[r].at # "insert" /\ \A s \in Runner : s # r => run'[s] = run[s]
    BY <1>3, GotoElsewhere, KeyDoneElsewhere DEF Insert
  <2> QED
    BY <1>3, <2>1, InsertVersions
<1>4. CASE List(r)
  <2> DEFINE here == [run[r] EXCEPT !.todo = Queued, !.at = IF Queued = {} THEN "idle" ELSE "get"]
  <2>1. Become(r, here) /\ here.at # "insert" /\ UNCHANGED jobs
    BY <1>1, <1>4 DEF List, Run
  <2> HIDE DEF here
  <2> QED
    BY <1>2, <2>1, BecomeElsewhere
<1>5. CASE Get(r)
  <2>1. PICK n \in run[r].todo :
           Become(r, IF jobs[n].status = "done"
                     THEN AfterJob([run[r] EXCEPT !.todo = @ \ {n}, !.job = n])
                     ELSE [[run[r] EXCEPT !.todo = @ \ {n}, !.job = n] EXCEPT !.at = "running"])
    BY <1>5 DEF Get
  <2> DEFINE here == IF jobs[n].status = "done"
                     THEN AfterJob([run[r] EXCEPT !.todo = @ \ {n}, !.job = n])
                     ELSE [[run[r] EXCEPT !.todo = @ \ {n}, !.job = n] EXCEPT !.at = "running"]
  <2>2. Become(r, here) /\ here.at # "insert" /\ UNCHANGED jobs
    BY <1>1, <1>5, <2>1 DEF Get, AfterJob, Run
  <2> HIDE DEF here
  <2> QED
    BY <1>2, <2>2, BecomeElsewhere
<1>6. CASE MarkRunning(r) \/ MarkFailed(r) \/ MarkDone(r)
  <2>1. /\ run[r].at \in Running
        /\ \E at \in {"match", "error", "diffs"} : Goto(r, at)
        /\ \E st \in {"running", "failed", "done"} : SetStatus(run[r].job, st)
    BY <1>6 DEF MarkRunning, MarkFailed, MarkDone, At, Running
  <2>2. run[r].job \in DOMAIN jobs
    BY <1>1, <2>1 DEF RunOK
  <2>3. Same(jobs, jobs')
    BY <1>1, <2>1, <2>2, StatusSame
  <2> QED
    BY <2>1, <2>3, GotoElsewhere, SameKeeps
<1>7. CASE CreateDiffs(r)
  <2>1. run[r].at = "diffs" /\ Become(r, AfterJob(run[r]))
        /\ jobs' = [jobs EXCEPT ![run[r].job].batches[run[r].drain] = @ + 1]
    BY <1>7 DEF CreateDiffs, At
  <2>2. run[r].job \in DOMAIN jobs /\ run[r].drain \in Drain
    BY <1>1, <2>1 DEF RunOK, Running
  <2>3. Same(jobs, jobs')
    BY <1>1, <2>1, <2>2, BatchSame
  <2> DEFINE here == AfterJob(run[r])
  <2>4. Become(r, here) /\ here.at # "insert"
    BY <1>1, <2>1 DEF AfterJob, Run
  <2> HIDE DEF here
  <2> QED
    BY <2>3, <2>4, BecomeElsewhere, SameKeeps
<1>8. CASE MatchFails(r) \/ Fail(r)
  BY <1>2, <1>8, GotoElsewhere DEF MatchFails, Fail
<1>9. CASE Recover(r)
  BY <1>2, <1>9, GotoElsewhere, StartElsewhere DEF Recover
<1>10. CASE Enqueue(r)
  BY <1>10, EnqueueVersions
<1> QED
  BY <1>3, <1>4, <1>5, <1>6, <1>7, <1>8, <1>9, <1>10 DEF Advance

LEMMA VersionsStep ==
    ASSUME QueueInv, VersionsInv, [Next]_vars
    PROVE  VersionsInv'
<1>1. ASSUME NEW r \in Runner, NEW keys, NEW force, NEW drain, Begin(r, keys, force, drain)
      PROVE  VersionsInv'
  BY <1>1, StartElsewhere, UnchangedSame, SameKeeps DEF Begin, VersionsInv
<1>2. ASSUME NEW r \in Runner, Crash(r) PROVE VersionsInv'
  BY <1>2, GotoElsewhere, UnchangedSame, SameKeeps DEF Crash, VersionsInv
<1>3. CASE UNCHANGED queueVars
  <2>1. jobs' = jobs /\ run' = run
    BY <1>3 DEF queueVars
  <2>2. VersionsEarned'
    <3>1. \A k : VersionsOf(k)' = VersionsOf(k) /\ JobsOf(k)' = JobsOf(k)
      BY <2>1 DEF VersionsOf, JobsOf
    <3>2. \A k \in Key : VersionsOf(k) = 1..Cardinality(JobsOf(k))
      BY DEF VersionsInv, VersionsEarned, VersionsOf
    <3>3. \A k \in Key : VersionsOf(k)' = 1..Cardinality(JobsOf(k)')
      BY <3>1, <3>2
    <3>4. \A k \in Key : \A n, m \in JobsOf(k) :
             jobs[n].version = jobs[m].version + 1 /\ ~jobs[n].forced => jobs[m].unmet
      BY DEF VersionsInv, VersionsEarned
    <3>5. \A k \in Key : \A n, m \in JobsOf(k)' :
             jobs'[n].version = jobs'[m].version + 1 /\ ~jobs'[n].forced => jobs'[m].unmet
      BY <2>1, <3>1, <3>4
    <3> QED
      BY <3>3, <3>5 DEF VersionsEarned, VersionsOf
  <2>3. Failed' /\ OneEach'
    BY <2>1 DEF VersionsInv, Failed, OneEach
  <2>4. (\A r \in Runner : Follows(run[r], jobs))'
    BY <2>1 DEF VersionsInv, Follows
  <2> QED
    BY <2>2, <2>3, <2>4 DEF VersionsInv
<1>4. ASSUME NEW c \in Caller, NEW k \in Key, NEW force \in Forces, Submit(c, k, force)
      PROVE  VersionsInv'
  BY <1>1, <1>4 DEF Submit, Caller
<1> QED
  BY <1>1, <1>2, <1>3, <1>4, AdvanceVersions DEF Next, vars, Start, Step, End

LEMMA VersionsInit == Init => VersionsInv
<1> SUFFICES ASSUME Init PROVE VersionsInv
  OBVIOUS
<1>1. jobs = <<>> /\ run = [r \in Runner |-> Idle]
  BY DEF Init, QueueInit
<1>2. \A k : JobsOf(k) = {}
  BY <1>1 DEF JobsOf
<1>3. Cardinality({}) = 0
  BY FS_EmptySet
<1>4. VersionsEarned
  <2>1. {jobs[n].version : n \in {}} = {} /\ 1..0 = {}
    OBVIOUS
  <2> QED
    BY <1>2, <1>3, <2>1 DEF VersionsEarned
<1>5. Failed /\ OneEach /\ \A r \in Runner : Follows(run[r], jobs)
  BY <1>1 DEF Failed, OneEach, Follows, Idle
<1> QED
  BY <1>4, <1>5 DEF VersionsInv

\* However many callers, reruns and daily jobs enqueue one key at a time: its versions are
\* numbered without gap, and one that nobody forced follows one that has failed.
THEOREM VersionsNumbered == ASSUME Manual = {} PROVE Spec => []VersionsEarned
<1>1. ReconInv /\ [Next]_vars => ReconInv'
  BY ReconInvStep
<1>2. ReconInv /\ VersionsInv /\ [Next]_vars => VersionsInv'
  BY VersionsStep DEF ReconInv
<1>3. VersionsInv => VersionsEarned
  BY DEF VersionsInv
<1> QED
  BY <1>1, <1>2, <1>3, ReconInvInit, VersionsInit, PTL DEF Spec
=============================================================================
