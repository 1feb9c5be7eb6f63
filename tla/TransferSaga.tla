--------------------------- MODULE TransferSaga ---------------------------
(***************************************************************************)
(* One transfer between holders of two shards                              *)
(* (internal/application/saga.go): an OUT leg to pending_settlement on the *)
(* payer's shard, an IN leg from pending_settlement on the payee's, and a  *)
(* Reverse of the OUT leg if the IN leg fails.  Each leg is a transaction  *)
(* of its own under its own biz_no; a row of ledger_transfer_saga says how *)
(* far the transfer has come, and is written between them, unconditionally *)
(* and whole (SagaRepo.Update).                                            *)
(*                                                                         *)
(* A driver is one execution of resumeSaga: on behalf of the caller, of    *)
(* the worker's 15 s tick, or of an operator's retry or compensate.  It    *)
(* works on the copy of the row it read at its start; nothing keeps two    *)
(* drivers apart.                                                          *)
(***************************************************************************)
EXTENDS Integers

CONSTANTS
    Drivers,         \* concurrent executions of resumeSaga
    Extras,          \* what the caller's request has that the row does not keep
    OpsCompensates,  \* operators use POST /ops/sagas/{id}/compensate
    Outages,         \* a shard may fail around a statement, not only refuse a leg
    MaxFailures,     \* bound on refused legs and on outages
    MaxCrashes       \* bound on drivers lost with their process

ASSUME SagaAssumption ==
    /\ Extras \in {"nothing", "related_biz_no", "to_asset_code"}
    /\ OpsCompensates \in BOOLEAN
    /\ Outages \in BOOLEAN
    /\ MaxFailures \in Nat
    /\ MaxCrashes \in Nat

VARIABLES
    saga,      \* status of the saga row, "none" before it is created
    posted,    \* how often each leg was posted
    key,       \* the request each idempotency record was written for
    driver,    \* where each driver is
    failures,
    crashes

vars == <<saga, posted, key, driver, failures, crashes>>

\* Fault: ListOpen leaves compensating sagas out.
OpenForgotten == {"pending", "out_done", "in_done"}

Open == {"pending", "out_done", "in_done", "compensating"}
Terminal == {"completed", "failed"}
Statuses == {"none"} \cup Open \cup Terminal

Legs == {"out", "in", "rollback"}

\* Which form of the request a record's hash is of.  sagaRequest rebuilds the
\* request from the row; requestHash also covers fields the row does not have.
Forms == {"caller", "saga"}
NoKey == "none"

LegForm(as, leg) ==
    IF as = "caller" /\ Extras = "to_asset_code" /\ leg # "rollback" THEN "caller" ELSE "saga"
MainForm(as) == IF as = "caller" /\ Extras # "nothing" THEN "caller" ELSE "saga"

\* Driver positions.  leg: about to start its transaction; Tx: it has read that
\* the leg is not posted; the rest are the writes of the saga row that follow.
TxOf == [out |-> "outTx", in |-> "inTx", rollback |-> "rollbackTx"]

\* Fault: the saga is failed as soon as its IN leg is.
SavesEarly == [outSave |-> "out_done", outErr |-> "pending", outSaveErr |-> "out_done",
          inSave |-> "in_done", inErr |-> "failed", mark |-> "compensating",
          rollbackErr |-> "compensating", fail |-> "failed",
          finishErr |-> "in_done", complete |-> "completed"]

Saves == [outSave |-> "out_done", outErr |-> "pending", outSaveErr |-> "out_done",
          inSave |-> "in_done", inErr |-> "compensating", mark |-> "compensating",
          rollbackErr |-> "compensating", fail |-> "failed",
          finishErr |-> "in_done", complete |-> "completed"]

Positions == {"idle", "load", "finish"} \cup Legs \cup DOMAIN Saves
                \cup {TxOf[leg] : leg \in Legs}

Driver == [at : Positions, as : Forms, resumed : BOOLEAN]
Idle == [at |-> "idle", as |-> "saga", resumed |-> FALSE]

-----------------------------------------------------------------------------

Goto(d, at) ==
    driver' = [driver EXCEPT ![d] = IF at = "idle" THEN Idle ELSE [@ EXCEPT !.at = at]]

At(d, at) == driver[d].at = at

\* Fault: a resumed out_done saga goes on one case too far.
EntrySkips == [pending |-> "out", out_done |-> "finish", in_done |-> "finish",
          compensating |-> "rollback", completed |-> "idle", failed |-> "idle"]

\* The switch of resumeSaga on the status of the copy.  A completed saga is
\* answered from its row, a failed one with its error.
Entry == [pending |-> "out", out_done |-> "in", in_done |-> "finish",
          compensating |-> "rollback", completed |-> "idle", failed |-> "idle"]

Enter(d, as, st) ==
    driver' = [driver EXCEPT ![d] =
        IF st \in Terminal THEN Idle
        ELSE [at |-> Entry[st], as |-> as, resumed |-> st = "compensating"]]

\* crossShardTransfer: a caller, or its retry, not answered from the record.
Submit(d) ==
    /\ At(d, "idle")
    /\ key["main"] = NoKey
    /\ driver' = [driver EXCEPT ![d] = [at |-> "load", as |-> "caller", resumed |-> FALSE]]
    /\ UNCHANGED <<saga, posted, key, failures, crashes>>

\* GetByBizNo, else Create, else (the unique index refused it) GetByBizNo.
Load(d) ==
    /\ At(d, "load")
    /\ saga' = IF saga = "none" THEN "pending" ELSE saga
    /\ Enter(d, "caller", saga')
    /\ UNCHANGED <<posted, key, failures, crashes>>

\* ResumeOpenSagas and ResumeSaga.
Resume(d) ==
    /\ At(d, "idle")
    /\ saga \in Open
    /\ Enter(d, "saga", saga)
    /\ UNCHANGED <<saga, posted, key, failures, crashes>>

\* CompensateSaga refuses a completed saga only.
Compensate(d) ==
    /\ OpsCompensates
    /\ At(d, "idle")
    /\ saga \in Open
    /\ driver' = [driver EXCEPT ![d] = [at |-> "mark", as |-> "saga", resumed |-> TRUE]]
    /\ UNCHANGED <<saga, posted, key, failures, crashes>>

-----------------------------------------------------------------------------
(* Legs *)

AfterLeg == [out |-> "outSave", in |-> "inSave", rollback |-> "fail"]

\* A failed rollback leaves its error in the row only if the driver started
\* from a compensating copy.
ErrorOf(d, leg) ==
    CASE leg = "out" -> "outErr"
      [] leg = "in" -> "inErr"
      [] leg = "rollback" -> IF driver[d].resumed THEN "rollbackErr" ELSE "idle"

\* Fault: the Reverse does not look for the voucher it undoes.
BeginLegBlind(d, leg) ==
    /\ At(d, leg)
    /\ Goto(d, IF key[leg] = NoKey THEN TxOf[leg]
               ELSE IF key[leg] = LegForm(driver[d].as, leg) \/ leg = "rollback"
                    THEN AfterLeg[leg]
               ELSE ErrorOf(d, leg))
    /\ UNCHANGED <<saga, posted, key, failures, crashes>>

\* transferSameShard and reverse up to the idempotency lookup: replayed if the
\* record is of the same request, a conflict if not.  The reversal of an OUT leg
\* that is not there is NotFound, and it and a conflict count as done.
BeginLeg(d, leg) ==
    /\ At(d, leg)
    /\ Goto(d, IF leg = "rollback" /\ posted["out"] = 0 THEN AfterLeg[leg]
               ELSE IF key[leg] = NoKey THEN TxOf[leg]
               ELSE IF key[leg] = LegForm(driver[d].as, leg) \/ leg = "rollback"
                    THEN AfterLeg[leg]
               ELSE ErrorOf(d, leg))
    /\ UNCHANGED <<saga, posted, key, failures, crashes>>

\* Fault: the idempotency table has lost its unique index.
PostTwice(d, leg) ==
    /\ At(d, TxOf[leg])
    /\ posted' = [posted EXCEPT ![leg] = @ + 1]
    /\ key' = [key EXCEPT ![leg] = LegForm(driver[d].as, leg)]
    /\ UNCHANGED saga

Post(d, leg) ==
    /\ At(d, TxOf[leg])
    /\ key[leg] = NoKey
    /\ posted' = [posted EXCEPT ![leg] = @ + 1]
    /\ key' = [key EXCEPT ![leg] = LegForm(driver[d].as, leg)]
    /\ UNCHANGED saga

CommitLeg(d, leg) ==
    /\ Post(d, leg)
    /\ Goto(d, AfterLeg[leg])
    /\ UNCHANGED <<failures, crashes>>

\* The commit is done but its acknowledgement is lost.
LoseCommit(d, leg) ==
    /\ Outages
    /\ failures < MaxFailures
    /\ Post(d, leg)
    /\ failures' = failures + 1
    /\ Goto(d, ErrorOf(d, leg))
    /\ UNCHANGED crashes

\* Another driver committed the leg since: the unique index refuses the second
\* record, and the error is like any other.
RefuseLeg(d, leg) ==
    /\ At(d, TxOf[leg])
    /\ key[leg] # NoKey
    /\ Goto(d, ErrorOf(d, leg))
    /\ UNCHANGED <<saga, posted, key, failures, crashes>>

\* Insufficient balance, a disabled account, a limit, a deadlock; in an outage
\* also a leg that cannot look for the record of its own earlier commit.
FailLeg(d, leg) ==
    /\ failures < MaxFailures
    /\ At(d, TxOf[leg]) \/ (Outages /\ At(d, leg))
    /\ failures' = failures + 1
    /\ Goto(d, ErrorOf(d, leg))
    /\ UNCHANGED <<saga, posted, key, crashes>>

-----------------------------------------------------------------------------
(* finishSaga and the saga row *)

\* saveIdempotency under the caller's biz_no, without a lookup before it.
Finish(d) ==
    /\ At(d, "finish")
    /\ IF key["main"] = NoKey
       THEN /\ key' = [key EXCEPT !["main"] = MainForm(driver[d].as)]
            /\ Goto(d, "complete")
       ELSE /\ Goto(d, "finishErr")
            /\ UNCHANGED key
    /\ UNCHANGED <<saga, posted, failures, crashes>>

FailFinish(d) ==
    /\ failures < MaxFailures
    /\ At(d, "finish")
    /\ failures' = failures + 1
    /\ \/ UNCHANGED key
       \/ /\ Outages
          /\ key["main"] = NoKey
          /\ key' = [key EXCEPT !["main"] = MainForm(driver[d].as)]
    /\ Goto(d, "finishErr")
    /\ UNCHANGED <<saga, posted, crashes>>

Saving(d) == driver[d].at \in DOMAIN Saves

Then(at) ==
    CASE at = "outSave" -> "in"
      [] at = "inSave" -> "finish"
      [] at \in {"inErr", "mark"} -> "rollback"
      [] OTHER -> "idle"

\* An error of the write after a leg is an error of the leg; others are ignored.
Otherwise(at) ==
    CASE at = "outSave" -> "outSaveErr"
      [] at = "inSave" -> "inErr"
      [] OTHER -> Then(at)

Save(d) ==
    /\ Saving(d)
    /\ saga' = Saves[driver[d].at]
    /\ Goto(d, Then(driver[d].at))
    /\ UNCHANGED <<posted, key, failures, crashes>>

LoseSave(d) ==
    /\ Outages
    /\ failures < MaxFailures
    /\ Saving(d)
    /\ failures' = failures + 1
    /\ Goto(d, Otherwise(driver[d].at))
    /\ UNCHANGED <<saga, posted, key, crashes>>

Crash(d) ==
    /\ crashes < MaxCrashes
    /\ ~At(d, "idle")
    /\ crashes' = crashes + 1
    /\ Goto(d, "idle")
    /\ UNCHANGED <<saga, posted, key, failures>>

-----------------------------------------------------------------------------

Init ==
    /\ saga = "none"
    /\ posted = [leg \in Legs |-> 0]
    /\ key = [k \in Legs \cup {"main"} |-> NoKey]
    /\ driver = [d \in Drivers |-> Idle]
    /\ failures = 0
    /\ crashes = 0

\* What a driver does once started.
Advance(d) ==
    \/ Load(d) \/ Finish(d) \/ Save(d)
    \/ \E leg \in Legs : BeginLeg(d, leg) \/ CommitLeg(d, leg) \/ RefuseLeg(d, leg)

Next ==
    \E d \in Drivers :
        \/ Submit(d) \/ Resume(d) \/ Compensate(d)
        \/ Advance(d)
        \/ FailFinish(d) \/ LoseSave(d) \/ Crash(d)
        \/ \E leg \in Legs : FailLeg(d, leg) \/ LoseCommit(d, leg)

Spec == Init /\ [][Next]_vars

\* A running process executes its next statement; the worker's ticker fires.
Fairness ==
    /\ \A d \in Drivers : WF_vars(Advance(d))
    /\ WF_vars(\E d \in Drivers : Resume(d))

FairSpec == Spec /\ Fairness

-----------------------------------------------------------------------------
(* Properties *)

TypeOK ==
    /\ saga \in Statuses
    /\ posted \in [Legs -> Nat]
    /\ key \in [Legs \cup {"main"} -> Forms \cup {NoKey}]
    /\ driver \in [Drivers -> Driver]
    /\ failures \in 0..MaxFailures
    /\ crashes \in 0..MaxCrashes

\* However many drivers run the saga at once, each leg is posted at most once:
\* the payer is debited, the payee credited and the debit undone at most once.
LegsOnce == \A leg \in Legs : posted[leg] <= 1

\* The payee is credited and the payer refunded only after the payer was
\* debited, also when an operator compensates a saga whose OUT leg is running.
PaidFirst == posted["in"] <= posted["out"] /\ posted["rollback"] <= posted["out"]

\* The caller's idempotency record, from which every retry is answered as
\* accepted, is there only when the payer was debited and the payee credited,
\* whichever drivers overwrote each other's row in between.
AnswerBacked == key["main"] # NoKey => posted["out"] = 1 /\ posted["in"] = 1

\* The payee keeps the amount or the payer gets it back, never both, and the
\* row says which (docs/05 section 8: compensating follows a failed IN leg).
AllOrNothing ==
    /\ ~(posted["in"] > 0 /\ posted["rollback"] > 0)
    /\ saga = "completed" => posted["in"] = 1
    /\ saga = "failed" => posted["in"] = 0 /\ posted["out"] = posted["rollback"]

\* Whatever crashes and failures it meets, a saga that was created becomes
\* final, or at least the caller's record is there to answer from.
Answered == (saga # "none") ~> (saga \in Terminal \/ key["main"] # NoKey)

\* What the saga implements while drivers do not overlap.
Abstract == INSTANCE AtomicTransfer WITH
    money <- IF posted["in"] > 0 THEN "payee"
             ELSE IF posted["out"] = 0 THEN "payer"
             ELSE IF posted["rollback"] = 0 THEN "transit" ELSE "returned",
    outcome <- IF saga \in Terminal THEN saga ELSE "open"

Implements == Abstract!Spec
=============================================================================
