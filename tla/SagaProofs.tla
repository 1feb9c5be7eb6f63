---------------------------- MODULE SagaProofs ----------------------------
(***************************************************************************)
(* Proofs about the transfer saga for any number of drivers, failures and  *)
(* crashes: what the idempotency keys of its legs guarantee by themselves, *)
(* when nothing keeps drivers from overwriting each other's saga row.      *)
(***************************************************************************)
EXTENDS TransferSaga, TLAPS

KeysType ==
    /\ saga \in Statuses
    /\ posted \in [Legs -> Nat]
    /\ key \in [Legs \cup {"main"} -> Forms \cup {NoKey}]
    /\ driver \in [Drivers -> Driver]

Done(leg) == key[leg] # NoKey

\* A leg is posted exactly when its idempotency record is there.
PostedByKey == \A leg \in Legs : posted[leg] = IF Done(leg) THEN 1 ELSE 0

\* The records appear in the order of the legs.
InOrder ==
    /\ Done("main") => Done("in")
    /\ Done("in") => Done("out")
    /\ Done("rollback") => Done("out")

\* Neither the row nor a driver is ahead of the legs, however stale its copy.
RowBacked ==
    /\ saga \in {"in_done", "completed"} => Done("in")
    /\ saga = "out_done" => Done("out")

DriverBacked(d) ==
    /\ driver[d].at \in {"inSave", "finish", "finishErr", "complete"} => Done("in")
    /\ driver[d].at \in {"outSave", "outSaveErr", "in", "inTx", "rollbackTx"} => Done("out")

DriversBacked == \A d \in Drivers : DriverBacked(d)

Inv == KeysType /\ PostedByKey /\ InOrder /\ RowBacked /\ DriversBacked

-----------------------------------------------------------------------------

\* A step of driver d that leaves the keys and the legs alone keeps the
\* invariant if the row and the driver's next position are backed.
LEMMA QuietStep ==
    ASSUME Inv, NEW d \in Drivers, UNCHANGED <<posted, key>>,
           NEW x \in Driver, driver' = [driver EXCEPT ![d] = x],
           x.at \in {"inSave", "finish", "finishErr", "complete"} => Done("in"),
           x.at \in {"outSave", "outSaveErr", "in", "inTx", "rollbackTx"} => Done("out"),
           saga' \in Statuses,
           saga' \in {"in_done", "completed"} => Done("in"),
           saga' = "out_done" => Done("out")
    PROVE  Inv'
<1>1. \A leg : Done(leg)' <=> Done(leg)
  BY DEF Done
<1>2. KeysType'
  BY DEF Inv, KeysType
<1>3. PostedByKey' /\ InOrder' /\ RowBacked'
  BY <1>1 DEF Inv, PostedByKey, InOrder, RowBacked
<1>4. DriversBacked'
  <2> SUFFICES ASSUME NEW e \in Drivers PROVE DriverBacked(e)'
    BY DEF DriversBacked
  <2>1. CASE e = d
    BY <1>1, <2>1 DEF DriverBacked, Inv, KeysType
  <2>2. CASE e # d
    BY <1>1, <2>2 DEF DriverBacked, DriversBacked, Inv, KeysType
  <2> QED
    BY <2>1, <2>2
<1> QED
  BY <1>2, <1>3, <1>4 DEF Inv

LEMMA PositionsOf ==
    /\ {"idle", "load", "finish", "out", "in", "rollback", "outTx", "inTx", "rollbackTx",
        "outSave", "outErr", "outSaveErr", "inSave", "inErr", "mark", "rollbackErr",
        "fail", "finishErr", "complete"} = Positions
    /\ TxOf["out"] = "outTx" /\ TxOf["in"] = "inTx" /\ TxOf["rollback"] = "rollbackTx"
<1>1. /\ TxOf["out"] = "outTx" /\ TxOf["in"] = "inTx" /\ TxOf["rollback"] = "rollbackTx"
  BY DEF TxOf
<1>2. {TxOf[leg] : leg \in Legs} = {"outTx", "inTx", "rollbackTx"}
  BY <1>1 DEF Legs
<1>3. DOMAIN Saves = {"outSave", "outErr", "outSaveErr", "inSave", "inErr", "mark",
                      "rollbackErr", "fail", "finishErr", "complete"}
  BY DEF Saves
<1> QED
  BY <1>1, <1>2, <1>3 DEF Positions, Legs

LEMMA GotoQuiet ==
    ASSUME Inv, NEW d \in Drivers, UNCHANGED <<posted, key>>,
           NEW at \in Positions, Goto(d, at),
           at \in {"inSave", "finish", "finishErr", "complete"} => Done("in"),
           at \in {"outSave", "outSaveErr", "in", "inTx", "rollbackTx"} => Done("out"),
           saga' \in Statuses,
           saga' \in {"in_done", "completed"} => Done("in"),
           saga' = "out_done" => Done("out")
    PROVE  Inv'
<1> DEFINE x == IF at = "idle" THEN Idle ELSE [driver[d] EXCEPT !.at = at]
<1>1. driver[d] \in Driver
  BY DEF Inv, KeysType
<1>2. x \in Driver /\ x.at = at
  BY <1>1, PositionsOf DEF Idle, Driver, Forms
<1>3. driver' = [driver EXCEPT ![d] = x]
  BY DEF Goto, Inv, KeysType
<1> HIDE DEF x
<1> QED
  BY <1>2, <1>3, QuietStep

LEMMA EnterQuiet ==
    ASSUME Inv, NEW d \in Drivers, UNCHANGED <<posted, key>>,
           NEW as \in Forms, saga' \in Open \cup Terminal, Enter(d, as, saga'),
           saga' \in {"in_done", "completed"} => Done("in"),
           saga' = "out_done" => Done("out")
    PROVE  Inv'
<1> DEFINE x == IF saga' \in Terminal THEN Idle
                ELSE [at |-> Entry[saga'], as |-> as, resumed |-> saga' = "compensating"]
<1>1. saga' \in Open => Entry[saga'] \in {"out", "in", "finish", "rollback"}
  BY DEF Open, Entry
<1>2. /\ Entry[saga'] = "in" /\ saga' \in Open => saga' = "out_done"
      /\ Entry[saga'] = "finish" /\ saga' \in Open => saga' = "in_done"
  BY DEF Open, Entry
<1>3. x \in Driver
  BY <1>1, PositionsOf DEF Idle, Driver, Forms, Terminal, Open
<1>4. /\ x.at \in {"inSave", "finish", "finishErr", "complete"} => Done("in")
      /\ x.at \in {"outSave", "outSaveErr", "in", "inTx", "rollbackTx"} => Done("out")
  BY <1>1, <1>2 DEF Idle, Terminal, Open
<1>5. driver' = [driver EXCEPT ![d] = x]
  BY DEF Enter
<1>6. saga' \in Statuses
  BY DEF Statuses
<1> HIDE DEF x
<1> QED
  BY <1>3, <1>4, <1>5, <1>6, QuietStep

LEMMA StartStep ==
    ASSUME Inv, NEW d \in Drivers, Submit(d) \/ Load(d) \/ Resume(d) \/ Compensate(d)
    PROVE  Inv'
<1>1. RowBacked /\ saga \in Statuses
  BY DEF Inv, KeysType
<1>2. CASE Submit(d)
  <2>1. [at |-> "load", as |-> "caller", resumed |-> FALSE] \in Driver
    BY PositionsOf DEF Driver, Forms
  <2> QED
    BY <1>1, <1>2, <2>1, QuietStep DEF Submit, RowBacked
<1>3. CASE Load(d)
  <2>1. saga' \in Open \cup Terminal /\ Enter(d, "caller", saga') /\ UNCHANGED <<posted, key>>
    BY <1>1, <1>3 DEF Load, Statuses, Open
  <2>2. saga' = saga \/ saga' = "pending"
    BY <1>3 DEF Load
  <2> QED
    BY <1>1, <2>1, <2>2, EnterQuiet DEF RowBacked, Forms
<1>4. CASE Resume(d)
  <2>1. saga' = saga /\ saga' \in Open /\ Enter(d, "saga", saga') /\ UNCHANGED <<posted, key>>
    BY <1>4 DEF Resume
  <2> QED
    BY <1>1, <2>1, EnterQuiet DEF RowBacked, Forms
<1>5. CASE Compensate(d)
  <2>1. [at |-> "mark", as |-> "saga", resumed |-> TRUE] \in Driver
    BY PositionsOf DEF Driver, Forms
  <2> QED
    BY <1>1, <1>5, <2>1, QuietStep DEF Compensate, RowBacked
<1> QED
  BY <1>2, <1>3, <1>4, <1>5

\* The positions an error of a leg leads to claim nothing.
LEMMA ErrorQuiet ==
    ASSUME NEW d, NEW leg \in Legs
    PROVE  ErrorOf(d, leg) \in {"outErr", "inErr", "rollbackErr", "idle"}
BY DEF ErrorOf, Legs

LEMMA QuietLeg ==
    ASSUME Inv, NEW d \in Drivers, NEW leg \in Legs,
           BeginLeg(d, leg) \/ RefuseLeg(d, leg) \/ FailLeg(d, leg)
    PROVE  Inv'
<1> DEFINE next == IF leg = "rollback" /\ posted["out"] = 0 THEN AfterLeg[leg]
               ELSE IF key[leg] = NoKey THEN TxOf[leg]
               ELSE IF key[leg] = LegForm(driver[d].as, leg) \/ leg = "rollback"
                    THEN AfterLeg[leg]
               ELSE ErrorOf(d, leg)
<1>1. RowBacked /\ saga \in Statuses
  BY DEF Inv, KeysType
<1>2. /\ AfterLeg["out"] = "outSave" /\ AfterLeg["in"] = "inSave"
      /\ AfterLeg["rollback"] = "fail"
  BY DEF AfterLeg
<1>3. CASE BeginLeg(d, leg)
  <2>1. driver[d].at = leg /\ Goto(d, next) /\ UNCHANGED <<saga, posted, key>>
    BY <1>3 DEF BeginLeg, At
  <2>2. leg = "in" => Done("out")
    BY <2>1 DEF Inv, DriversBacked, DriverBacked
  <2>3. leg = "rollback" /\ posted["out"] # 0 => Done("out")
    BY DEF Inv, PostedByKey, Legs
  <2>4. CASE leg = "out"
    <3>1. next \in {"outTx", "outErr", "outSave"} /\ (next = "outSave" => Done("out"))
      BY <2>4, <1>2, PositionsOf, ErrorQuiet DEF Done, ErrorOf
    <3> QED
      BY <1>1, <2>1, <3>1, PositionsOf, GotoQuiet DEF RowBacked
  <2>5. CASE leg = "in"
    <3>1. next \in {"inTx", "inErr", "inSave"} /\ (next = "inSave" => Done("in"))
      BY <2>5, <1>2, PositionsOf, ErrorQuiet DEF Done, ErrorOf
    <3> QED
      BY <1>1, <2>1, <2>2, <2>5, <3>1, PositionsOf, GotoQuiet DEF RowBacked
  <2>6. CASE leg = "rollback"
    <3>1. next \in {"rollbackTx", "fail"} /\ (next = "rollbackTx" => Done("out"))
      BY <2>3, <2>6, <1>2, PositionsOf DEF Done
    <3> QED
      BY <1>1, <2>1, <3>1, PositionsOf, GotoQuiet DEF RowBacked
  <2> QED
    BY <2>4, <2>5, <2>6 DEF Legs
<1>4. CASE RefuseLeg(d, leg) \/ FailLeg(d, leg)
  <2>1. Goto(d, ErrorOf(d, leg)) /\ UNCHANGED <<saga, posted, key>>
    BY <1>4 DEF RefuseLeg, FailLeg
  <2> QED
    BY <1>1, <2>1, ErrorQuiet, PositionsOf, GotoQuiet DEF RowBacked
<1> QED
  BY <1>3, <1>4

\* A leg is posted and its driver told so, or told of an error.
LEMMA PostStep ==
    ASSUME Inv, NEW d \in Drivers, NEW leg \in Legs, Post(d, leg),
           NEW at \in {AfterLeg[leg], ErrorOf(d, leg)}, Goto(d, at)
    PROVE  Inv'
<1> DEFINE x == IF at = "idle" THEN Idle ELSE [driver[d] EXCEPT !.at = at]
<1>1. /\ driver[d].at = TxOf[leg]
      /\ ~Done(leg)
      /\ posted' = [posted EXCEPT ![leg] = @ + 1]
      /\ key' = [key EXCEPT ![leg] = LegForm(driver[d].as, leg)]
      /\ saga' = saga
  BY DEF Post, At, Done
<1>2. /\ posted \in [Legs -> Nat]
      /\ key \in [Legs \cup {"main"} -> Forms \cup {NoKey}]
      /\ driver \in [Drivers -> Driver]
      /\ saga \in Statuses
  BY DEF Inv, KeysType
<1>3. LegForm(driver[d].as, leg) \in Forms /\ LegForm(driver[d].as, leg) # NoKey
  BY DEF LegForm, Forms, NoKey
<1>4. \A k \in Legs \cup {"main"} : Done(k)' <=> Done(k) \/ k = leg
  BY <1>1, <1>2, <1>3 DEF Done
<1>5. /\ leg = "in" => Done("out")
      /\ leg = "rollback" => Done("out")
  BY <1>1, PositionsOf DEF Inv, DriversBacked, DriverBacked
<1>6. /\ AfterLeg["out"] = "outSave" /\ AfterLeg["in"] = "inSave"
      /\ AfterLeg["rollback"] = "fail"
  BY DEF AfterLeg
<1>7. /\ x \in Driver /\ x.at = at
      /\ at \in {"outSave", "inSave", "fail", "outErr", "inErr", "rollbackErr", "idle"}
      /\ at = "outSave" => leg = "out"
      /\ at = "inSave" => leg = "in"
  <2>1. driver[d] \in Driver
    BY <1>2
  <2>2. /\ at \in {"outSave", "inSave", "fail", "outErr", "inErr", "rollbackErr", "idle"}
        /\ at = "outSave" => leg = "out"
        /\ at = "inSave" => leg = "in"
    BY <1>6, ErrorQuiet DEF Legs
  <2>3. at \in Positions
    BY <2>2, PositionsOf
  <2>4. x \in Driver /\ x.at = at
    BY <2>1, <2>3 DEF Idle, Driver, Forms
  <2> QED
    BY <2>2, <2>4
<1>8. driver' = [driver EXCEPT ![d] = x]
  BY <1>2 DEF Goto
<1>9. KeysType'
  <2> HIDE DEF x
  <2> QED
    BY <1>1, <1>2, <1>3, <1>7, <1>8 DEF KeysType
<1>10. PostedByKey'
  BY <1>1, <1>2, <1>4 DEF PostedByKey, Inv
<1>11. InOrder'
  BY <1>4, <1>5 DEF InOrder, Inv, Legs
<1>12. RowBacked'
  BY <1>1, <1>4 DEF RowBacked, Inv, Legs
<1>13. DriversBacked'
  <2> SUFFICES ASSUME NEW e \in Drivers PROVE DriverBacked(e)'
    BY DEF DriversBacked
  <2>1. DriverBacked(e)
    BY DEF Inv, DriversBacked
  <2>2. CASE e = d
    <3>1. driver'[e].at = at
      BY <1>2, <1>7, <1>8, <2>2
    <3>2. leg = "out" => Done("out")'
      BY <1>4
    <3>3. leg = "in" => Done("in")'
      BY <1>4
    <3> QED
      BY <1>7, <3>1, <3>2, <3>3 DEF DriverBacked
  <2>3. CASE e # d
    <3>1. driver'[e] = driver[e]
      BY <1>2, <1>8, <2>3
    <3>2. (Done("in") => Done("in")') /\ (Done("out") => Done("out")')
      BY <1>4 DEF Legs
    <3> QED
      BY <2>1, <3>1, <3>2 DEF DriverBacked
  <2> QED
    BY <2>2, <2>3
<1> QED
  BY <1>9, <1>10, <1>11, <1>12, <1>13 DEF Inv

LEMMA FinishStep ==
    ASSUME Inv, NEW d \in Drivers, Finish(d) \/ FailFinish(d)
    PROVE  Inv'
<1>1. RowBacked /\ saga \in Statuses
  BY DEF Inv, KeysType
<1>2. driver[d].at = "finish" /\ Done("in")
  BY DEF Finish, FailFinish, At, Inv, DriversBacked, DriverBacked
<1>3. CASE UNCHANGED key
  <2>1. CASE Goto(d, "finishErr")
    BY <1>1, <1>2, <1>3, <2>1, PositionsOf, GotoQuiet DEF Finish, FailFinish, RowBacked
  <2>2. CASE Goto(d, "complete")
    BY <1>1, <1>2, <1>3, <2>2, PositionsOf, GotoQuiet DEF Finish, FailFinish, RowBacked
  <2> QED
    BY <2>1, <2>2 DEF Finish, FailFinish
<1>4. ASSUME NEW at \in {"complete", "finishErr"},
             key' = [key EXCEPT !["main"] = MainForm(driver[d].as)],
             Goto(d, at), UNCHANGED <<saga, posted>>
      PROVE  Inv'
  <2> DEFINE x == [driver[d] EXCEPT !.at = at]
  <2>1. /\ key \in [Legs \cup {"main"} -> Forms \cup {NoKey}]
        /\ driver \in [Drivers -> Driver]
    BY DEF Inv, KeysType
  <2>2. MainForm(driver[d].as) \in Forms /\ MainForm(driver[d].as) # NoKey
    BY DEF MainForm, Forms, NoKey
  <2>3. \A leg \in Legs : Done(leg)' <=> Done(leg)
    BY <1>4, <2>1 DEF Done, Legs
  <2>4. x \in Driver /\ driver' = [driver EXCEPT ![d] = x]
    BY <1>4, <2>1, PositionsOf DEF Goto, Driver
  <2>5. KeysType'
    <3> HIDE DEF x
    <3> QED
      BY <1>4, <2>1, <2>2, <2>4 DEF KeysType, Inv
  <2>6. PostedByKey' /\ InOrder' /\ RowBacked'
    BY <1>2, <1>4, <2>3 DEF Inv, PostedByKey, InOrder, RowBacked, Legs
  <2>7. DriversBacked'
    <3> SUFFICES ASSUME NEW e \in Drivers PROVE DriverBacked(e)'
      BY DEF DriversBacked
    <3>1. (Done("in")' <=> Done("in")) /\ (Done("out")' <=> Done("out"))
      BY <2>3 DEF Legs
    <3>2. CASE e = d
      BY <1>2, <2>1, <2>4, <3>1, <3>2 DEF DriverBacked
    <3>3. CASE e # d
      BY <2>1, <2>4, <3>1, <3>3 DEF DriverBacked, DriversBacked, Inv
    <3> QED
      BY <3>2, <3>3
  <2> QED
    BY <2>5, <2>6, <2>7 DEF Inv
<1> QED
  BY <1>3, <1>4 DEF Finish, FailFinish

LEMMA SaveStep ==
    ASSUME Inv, NEW d \in Drivers, Save(d) \/ LoseSave(d)
    PROVE  Inv'
<1> DEFINE at == driver[d].at
<1>1. RowBacked /\ saga \in Statuses /\ DriverBacked(d)
  BY DEF Inv, KeysType, DriversBacked
<1>2. at \in DOMAIN Saves /\ UNCHANGED <<posted, key>>
  BY DEF Save, LoseSave, Saving
<1>3. /\ Then(at) \in {"in", "finish", "rollback", "idle"}
      /\ Then(at) = "in" => at = "outSave"
      /\ Then(at) = "finish" => at = "inSave"
  BY DEF Then
<1>4. CASE Save(d)
  <2>1. saga' = Saves[at] /\ Goto(d, Then(at))
    BY <1>4 DEF Save
  <2>2. /\ Saves[at] \in Statuses
        /\ Saves[at] \in {"in_done", "completed"} => at \in {"inSave", "finishErr", "complete"}
        /\ Saves[at] = "out_done" => at \in {"outSave", "outSaveErr"}
    BY <1>2 DEF Saves, Statuses, Open, Terminal
  <2> HIDE DEF at
  <2>3. /\ at = driver[d].at
        /\ at \in {"inSave", "finishErr", "complete"} => Done("in")
        /\ at \in {"outSave", "outSaveErr"} => Done("out")
    BY <1>1 DEF at, DriverBacked
  <2> QED
    BY <1>2, <1>3, <2>1, <2>2, <2>3, PositionsOf, GotoQuiet
<1>5. CASE LoseSave(d)
  <2>1. saga' = saga /\ Goto(d, Otherwise(at))
    BY <1>5 DEF LoseSave
  <2>2. /\ Otherwise(at) \in {"outSaveErr", "inErr", "rollback", "idle"}
        /\ Otherwise(at) = "outSaveErr" => at = "outSave"
    BY DEF Otherwise, Then
  <2> HIDE DEF at
  <2>3. at = "outSave" => Done("out")
    BY <1>1 DEF at, DriverBacked
  <2> QED
    BY <1>1, <1>2, <2>1, <2>2, <2>3, PositionsOf, GotoQuiet DEF RowBacked
<1> QED
  BY <1>4, <1>5

LEMMA InvInit == Init => Inv
<1> SUFFICES ASSUME Init PROVE Inv
  OBVIOUS
<1>1. Idle \in Driver
  BY PositionsOf DEF Idle, Driver, Forms
<1>2. KeysType
  BY <1>1 DEF Init, KeysType, Statuses
<1>3. \A k \in Legs \cup {"main"} : ~Done(k)
  BY DEF Init, Done
<1>4. PostedByKey /\ InOrder
  BY <1>3 DEF Init, PostedByKey, InOrder, Legs
<1>5. RowBacked
  BY DEF Init, RowBacked
<1>6. DriversBacked
  BY DEF Init, DriversBacked, DriverBacked, Idle
<1> QED
  BY <1>2, <1>4, <1>5, <1>6 DEF Inv

LEMMA InvStep == Inv /\ [Next]_vars => Inv'
<1> SUFFICES ASSUME Inv, [Next]_vars PROVE Inv'
  OBVIOUS
<1>1. ASSUME NEW d \in Drivers, Submit(d) \/ Load(d) \/ Resume(d) \/ Compensate(d)
      PROVE  Inv'
  BY <1>1, StartStep
<1>2. ASSUME NEW d \in Drivers, NEW leg \in Legs,
             BeginLeg(d, leg) \/ RefuseLeg(d, leg) \/ FailLeg(d, leg)
      PROVE  Inv'
  BY <1>2, QuietLeg
<1>3. ASSUME NEW d \in Drivers, NEW leg \in Legs, CommitLeg(d, leg) \/ LoseCommit(d, leg)
      PROVE  Inv'
  BY <1>3, PostStep DEF CommitLeg, LoseCommit
<1>4. ASSUME NEW d \in Drivers, Finish(d) \/ FailFinish(d) PROVE Inv'
  BY <1>4, FinishStep
<1>5. ASSUME NEW d \in Drivers, Save(d) \/ LoseSave(d) PROVE Inv'
  BY <1>5, SaveStep
<1>6. ASSUME NEW d \in Drivers, Crash(d) PROVE Inv'
  <2>1. Goto(d, "idle") /\ UNCHANGED <<saga, posted, key>>
    BY <1>6 DEF Crash
  <2> QED
    BY <2>1, PositionsOf, GotoQuiet DEF Inv, KeysType, RowBacked
<1>7. CASE UNCHANGED vars
  <2>1. \A leg : Done(leg)' <=> Done(leg)
    BY <1>7 DEF vars, Done
  <2> QED
    BY <1>7, <2>1
    DEF vars, Inv, KeysType, PostedByKey, InOrder, RowBacked, DriversBacked, DriverBacked
<1> QED
  BY <1>1, <1>2, <1>3, <1>4, <1>5, <1>6, <1>7 DEF Next, Advance

THEOREM InvHolds == Spec => []Inv
<1> QED
  BY InvInit, InvStep, PTL DEF Spec

\* However many drivers, crashes and failed writes: the payer is debited, the
\* payee credited and the debit undone at most once.
THEOREM EachLegOnce == Spec => []LegsOnce
<1>1. Inv => LegsOnce
  BY DEF Inv, PostedByKey, LegsOnce
<1> QED
  BY <1>1, InvHolds, PTL

\* The payee is not credited, and the payer not refunded, without a debit.
THEOREM DebitComesFirst == Spec => []PaidFirst
<1>1. Inv => PaidFirst
  BY DEF Inv, KeysType, PostedByKey, InOrder, PaidFirst, Legs
<1> QED
  BY <1>1, InvHolds, PTL

\* A caller answered from the idempotency record is told the truth: payer
\* debited, payee credited, whatever the saga row says by then.
THEOREM AnswersAreBacked == Spec => []AnswerBacked
<1>1. Inv => AnswerBacked
  BY DEF Inv, PostedByKey, InOrder, AnswerBacked, Done, Legs
<1> QED
  BY <1>1, InvHolds, PTL
-----------------------------------------------------------------------------

LEMMA CountersStep ==
    ASSUME failures \in 0..MaxFailures, crashes \in 0..MaxCrashes, [Next]_vars
    PROVE  failures' \in 0..MaxFailures /\ crashes' \in 0..MaxCrashes
<1>1. /\ MaxFailures \in Nat /\ MaxCrashes \in Nat
      /\ failures \in Nat /\ failures <= MaxFailures
      /\ crashes \in Nat /\ crashes <= MaxCrashes
  BY SagaAssumption
<1>2. CASE UNCHANGED <<failures, crashes>>
  BY <1>2
<1>3. CASE failures < MaxFailures /\ failures' = failures + 1 /\ UNCHANGED crashes
  BY <1>1, <1>3
<1>4. CASE crashes < MaxCrashes /\ crashes' = crashes + 1 /\ UNCHANGED failures
  BY <1>1, <1>4
<1>5. \/ UNCHANGED <<failures, crashes>>
      \/ failures < MaxFailures /\ failures' = failures + 1 /\ UNCHANGED crashes
      \/ crashes < MaxCrashes /\ crashes' = crashes + 1 /\ UNCHANGED failures
  BY DEF Next, vars, Advance, Submit, Load, Resume, Compensate, BeginLeg, CommitLeg, LoseCommit,
         RefuseLeg, FailLeg, Finish, FailFinish, Save, LoseSave, Crash
<1> QED
  BY <1>2, <1>3, <1>4, <1>5

\* Types of the row, the records and the drivers, and the bounds of the faults.
THEOREM SagaTypes == Spec => []TypeOK
<1> DEFINE Counters == failures \in 0..MaxFailures /\ crashes \in 0..MaxCrashes
<1>1. Init => Counters
  BY SagaAssumption DEF Init
<1>2. Counters /\ [Next]_vars => Counters'
  BY CountersStep
<1>3. Inv /\ Counters => TypeOK
  BY DEF Inv, KeysType, TypeOK
<1> HIDE DEF Counters
<1> QED
  BY <1>1, <1>2, <1>3, InvHolds, PTL DEF Spec

-----------------------------------------------------------------------------
(* One driver at a time, whose request the row keeps, no outages, and       *)
(* operators who do not compensate: the saga implements AtomicTransfer.     *)

Solo ==
    /\ \A d, e \in Drivers : d = e
    /\ ~Outages /\ ~OpsCompensates
    /\ Extras # "to_asset_code"

\* A resumed leg is of the request it was posted for.
OneForm == \A leg \in Legs : key[leg] \in {NoKey, "saga"}

\* What the row says of the legs.
Coherent ==
    /\ saga = "none" => ~Done("out")
    /\ saga = "pending" => ~Done("in") /\ ~Done("rollback")
    /\ saga = "out_done" => Done("out") /\ ~Done("rollback")
    /\ saga \in {"in_done", "completed"} => Done("in") /\ ~Done("rollback")
    /\ saga \in {"compensating", "failed"} => Done("out") /\ ~Done("in")
    /\ saga = "failed" => Done("rollback")

\* What a driver's place says of the row and the legs.
Placed(at) ==
    /\ at \in {"out", "outTx", "outSave", "outErr"} => saga = "pending"
    /\ at \in {"in", "inTx", "inSave", "inErr"} => saga = "out_done"
    /\ at \in {"rollback", "rollbackTx", "rollbackErr", "fail"} => saga = "compensating"
    /\ at \in {"finish", "finishErr", "complete"} => saga = "in_done"
    /\ at = "outTx" => ~Done("out")
    /\ at \in {"inTx", "inErr"} => ~Done("in")
    /\ at = "rollbackTx" => ~Done("rollback")
    /\ at = "fail" => Done("rollback")
    /\ at \notin {"mark", "outSaveErr"}

SoloInv == Inv /\ OneForm /\ Coherent /\ \A d \in Drivers : Placed(driver[d].at)

\* The transfer's step of the abstract specification, or none.
Maps == Abstract!Next \/ UNCHANGED Abstract!vars

LEMMA MapsQuiet ==
    ASSUME UNCHANGED posted, saga' = saga \/ (saga \notin Terminal /\ saga' \notin Terminal)
    PROVE  Maps
BY DEF Maps, Abstract!vars

LEMMA MapsReport ==
    ASSUME Inv, UNCHANGED posted, saga \in Open,
           \/ saga' = "completed" /\ Done("in")
           \/ saga' = "failed" /\ Done("rollback") /\ Done("out") /\ ~Done("in")
    PROVE  Maps
<1>1. /\ Done("in") => posted["in"] = 1
      /\ ~Done("in") => posted["in"] = 0
      /\ Done("out") => posted["out"] = 1
      /\ Done("rollback") => posted["rollback"] = 1
  BY DEF Inv, PostedByKey, Legs
<1>2. saga \notin Terminal /\ saga' \in Terminal
  BY DEF Open, Terminal
<1> QED
  BY <1>1, <1>2 DEF Maps, Abstract!Next, Abstract!Report

LEMMA MapsPost ==
    ASSUME Inv, NEW leg \in Legs, ~Done(leg), posted' = [posted EXCEPT ![leg] = @ + 1],
           saga \in Open, UNCHANGED saga,
           leg = "out" => ~Done("in") /\ ~Done("rollback"),
           leg = "in" => Done("out") /\ ~Done("rollback"),
           leg = "rollback" => Done("out") /\ ~Done("in")
    PROVE  Maps
<1>1. posted \in [Legs -> Nat] /\ \A l \in Legs : posted[l] = IF Done(l) THEN 1 ELSE 0
  BY DEF Inv, KeysType, PostedByKey
<1>2. saga \notin Terminal
  BY DEF Open, Terminal
<1>3. CASE leg = "out"
  BY <1>1, <1>2, <1>3 DEF Maps, Abstract!Next, Abstract!Carry, Legs
<1>4. CASE leg = "in"
  BY <1>1, <1>2, <1>4 DEF Maps, Abstract!Next, Abstract!Carry, Legs
<1>5. CASE leg = "rollback"
  BY <1>1, <1>2, <1>5 DEF Maps, Abstract!Next, Abstract!Carry, Legs
<1> QED
  BY <1>3, <1>4, <1>5 DEF Legs

\* A step of the only driver that leaves the records alone.
LEMMA SoloQuiet ==
    ASSUME Solo, SoloInv, Inv', NEW d \in Drivers, UNCHANGED key,
           Coherent', Placed(driver[d].at)'
    PROVE  SoloInv'
<1>1. OneForm'
  BY DEF OneForm, SoloInv
<1>2. \A e \in Drivers : Placed(driver[e].at)'
  BY DEF Solo
<1> QED
  BY <1>1, <1>2 DEF SoloInv

LEMMA GotoAt ==
    ASSUME Inv, NEW d \in Drivers, NEW at, Goto(d, at)
    PROVE  driver'[d].at = at
BY DEF Inv, KeysType, Goto, Idle, Driver
LEMMA EnterAt ==
    ASSUME Inv, NEW d \in Drivers, NEW as, NEW st, Enter(d, as, st)
    PROVE  driver'[d].at = IF st \in Terminal THEN "idle" ELSE Entry[st]
BY DEF Inv, KeysType, Enter, Idle, Driver

LEMMA SoloStart ==
    ASSUME Solo, SoloInv, Inv', NEW d \in Drivers, Submit(d) \/ Load(d) \/ Resume(d)
    PROVE  SoloInv' /\ Maps
<1>1. UNCHANGED <<posted, key>> /\ Inv /\ saga \in Statuses /\ Coherent
  BY DEF Submit, Load, Resume, SoloInv, Inv, KeysType
<1>2. \A k : Done(k)' <=> Done(k)
  BY <1>1 DEF Done
<1>3. Done("in") \/ Done("rollback") => Done("out")
  BY DEF SoloInv, Inv, InOrder
<1>4. saga' = saga \/ (saga = "none" /\ saga' = "pending")
  BY DEF Submit, Load, Resume
<1>5. Coherent'
  BY <1>1, <1>2, <1>3, <1>4 DEF Coherent
<1>6. Placed(driver[d].at)'
  <2>1. CASE Submit(d)
    <3>1. driver'[d].at = "load"
      BY <1>1, <2>1 DEF Submit, Inv, KeysType
    <3> QED
      BY <3>1 DEF Placed
  <2>2. CASE Load(d) \/ Resume(d)
    <3>1. driver'[d].at = IF saga' \in Terminal THEN "idle" ELSE Entry[saga']
      BY <1>1, <2>2, EnterAt DEF Load, Resume
    <3>2. saga' \in Open \cup Terminal
      BY <1>1, <2>2 DEF Load, Resume, Statuses, Open
    <3>3. \/ driver'[d].at = "idle"
          \/ saga' = "pending" /\ driver'[d].at = "out"
          \/ saga' = "out_done" /\ driver'[d].at = "in"
          \/ saga' = "in_done" /\ driver'[d].at = "finish"
          \/ saga' = "compensating" /\ driver'[d].at = "rollback"
      BY <3>1, <3>2 DEF Open, Terminal, Entry
    <3> QED
      BY <3>3 DEF Placed
  <2> QED
    BY <2>1, <2>2
<1>7. Maps
  BY <1>1, <1>4, MapsQuiet DEF Terminal
<1> QED
  BY <1>1, <1>5, <1>6, <1>7, SoloQuiet

\* No leg of the only driver is a conflict or refused: its error is a failure.
LEMMA SoloLeg ==
    ASSUME Solo, SoloInv, Inv', NEW d \in Drivers, NEW leg \in Legs,
           BeginLeg(d, leg) \/ RefuseLeg(d, leg) \/ FailLeg(d, leg)
    PROVE  SoloInv' /\ Maps
<1>1. UNCHANGED <<saga, posted, key>> /\ Inv /\ Coherent /\ Placed(driver[d].at)
  BY DEF BeginLeg, RefuseLeg, FailLeg, SoloInv
<1>2. \A k : Done(k)' <=> Done(k)
  BY <1>1 DEF Done
<1>3. Coherent'
  BY <1>1, <1>2 DEF Coherent
<1>4. key[leg] = NoKey \/ key[leg] = LegForm(driver[d].as, leg)
  BY DEF SoloInv, OneForm, Solo, LegForm
<1>5. leg = "rollback" /\ driver[d].at = "rollback" => posted["out"] # 0
  BY <1>1 DEF Placed, Coherent, Inv, PostedByKey, Legs
<1>6. Placed(driver[d].at)'
  <2>1. CASE BeginLeg(d, leg)
    <3>1. driver[d].at = leg
      BY <2>1 DEF BeginLeg, At
    <3>2. driver'[d].at = IF key[leg] = NoKey THEN TxOf[leg] ELSE AfterLeg[leg]
      BY <1>1, <1>4, <1>5, <2>1, <3>1, GotoAt DEF BeginLeg
    <3> QED
      BY <1>1, <1>2, <3>1, <3>2, PositionsOf DEF Placed, AfterLeg, Done, Legs
  <2>2. CASE RefuseLeg(d, leg)
    BY <1>1, <2>2, PositionsOf DEF RefuseLeg, Placed, At, Done, Legs
  <2>3. CASE FailLeg(d, leg)
    <3>1. driver[d].at = TxOf[leg] /\ driver'[d].at = ErrorOf(d, leg)
      BY <1>1, <2>3, GotoAt DEF FailLeg, At, Solo
    <3>2. ErrorOf(d, leg) = IF leg = "out" THEN "outErr" ELSE IF leg = "in" THEN "inErr"
                            ELSE IF driver[d].resumed THEN "rollbackErr" ELSE "idle"
      BY DEF ErrorOf, Legs
    <3> QED
      BY <1>1, <1>2, <3>1, <3>2, PositionsOf DEF Placed, Legs
  <2> QED
    BY <2>1, <2>2, <2>3
<1>7. Maps
  BY <1>1, MapsQuiet
<1> QED
  BY <1>1, <1>3, <1>6, <1>7, SoloQuiet

LEMMA SoloPost ==
    ASSUME Solo, SoloInv, Inv', NEW d \in Drivers, NEW leg \in Legs, CommitLeg(d, leg)
    PROVE  SoloInv' /\ Maps
<1>1. /\ Inv /\ Coherent /\ Placed(driver[d].at) /\ OneForm
      /\ driver[d].at = TxOf[leg] /\ ~Done(leg) /\ UNCHANGED saga
      /\ posted' = [posted EXCEPT ![leg] = @ + 1]
      /\ key' = [key EXCEPT ![leg] = LegForm(driver[d].as, leg)]
      /\ driver'[d].at = AfterLeg[leg]
  BY GotoAt DEF CommitLeg, Post, At, Done, SoloInv
<1>2. LegForm(driver[d].as, leg) = "saga"
  BY DEF LegForm, Solo
<1>3. key \in [Legs \cup {"main"} -> Forms \cup {NoKey}]
  BY <1>1 DEF Inv, KeysType
<1>4. \A k \in Legs \cup {"main"} : Done(k)' <=> Done(k) \/ k = leg
  BY <1>1, <1>2, <1>3 DEF Done, NoKey
<1>5. OneForm'
  BY <1>1, <1>2, <1>3 DEF OneForm
<1>6. /\ leg = "out" => saga = "pending"
      /\ leg = "in" => saga = "out_done"
      /\ leg = "rollback" => saga = "compensating"
  BY <1>1, PositionsOf DEF Placed
<1>7. Coherent'
  BY <1>1, <1>4, <1>6 DEF Coherent, Legs
<1>8. Placed(driver[d].at)'
  BY <1>1, <1>4, <1>6 DEF Placed, AfterLeg, Legs
<1>9. \A e \in Drivers : Placed(driver[e].at)'
  BY <1>8 DEF Solo
<1>10. Maps
  BY <1>1, <1>6, MapsPost DEF Coherent, Open, Legs
<1> QED
  BY <1>5, <1>7, <1>9, <1>10 DEF SoloInv

LEMMA SoloFinish ==
    ASSUME Solo, SoloInv, Inv', NEW d \in Drivers, Finish(d) \/ FailFinish(d)
    PROVE  SoloInv' /\ Maps
<1>1. /\ Inv /\ Coherent /\ Placed(driver[d].at) /\ OneForm
      /\ driver[d].at = "finish" /\ UNCHANGED <<saga, posted>>
      /\ UNCHANGED key \/ key' = [key EXCEPT !["main"] = MainForm(driver[d].as)]
  BY DEF Finish, FailFinish, At, SoloInv
<1>2. driver'[d].at \in {"complete", "finishErr"}
  BY <1>1, GotoAt DEF Finish, FailFinish
<1>3. \A leg \in Legs : key'[leg] = key[leg]
  BY <1>1 DEF Inv, KeysType, Legs
<1>4. \A leg \in Legs : Done(leg)' <=> Done(leg)
  BY <1>3 DEF Done
<1>5. OneForm'
  BY <1>1, <1>3 DEF OneForm
<1>6. Coherent'
  BY <1>1, <1>4 DEF Coherent, Legs
<1>7. \A e \in Drivers : Placed(driver[e].at)'
  BY <1>1, <1>2, <1>4 DEF Placed, Legs, Solo
<1>8. Maps
  BY <1>1, MapsQuiet
<1> QED
  BY <1>5, <1>6, <1>7, <1>8 DEF SoloInv

LEMMA SoloSave ==
    ASSUME Solo, SoloInv, Inv', NEW d \in Drivers, Save(d) \/ LoseSave(d)
    PROVE  SoloInv' /\ Maps
<1>1. Save(d) /\ driver[d].at \in DOMAIN Saves
  BY DEF Solo, Save, LoseSave, Saving
<1>2. /\ Inv /\ Coherent /\ Placed(driver[d].at) /\ DriverBacked(d) /\ InOrder
      /\ UNCHANGED <<posted, key>>
      /\ driver'[d].at = Then(driver[d].at) /\ saga' = Saves[driver[d].at]
  BY <1>1, GotoAt DEF Save, SoloInv, Inv, DriversBacked
<1>3. \A k : Done(k)' <=> Done(k)
  BY <1>2 DEF Done
<1>4. /\ driver[d].at \in {"outSave", "outErr", "inSave", "inErr", "rollbackErr", "fail",
                           "finishErr", "complete"}
  BY <1>1, <1>2 DEF Saves, Placed
<1>5. Coherent' /\ Placed(driver[d].at)'
  BY <1>2, <1>3, <1>4 DEF Coherent, Placed, Saves, Then, DriverBacked, InOrder
<1>6. Maps
  <2>1. CASE driver[d].at \in {"complete", "fail"}
    <3>1. \/ saga = "in_done" /\ saga' = "completed" /\ Done("in")
          \/ saga = "compensating" /\ saga' = "failed" /\ Done("rollback") /\ Done("out") /\ ~Done("in")
      BY <1>2, <2>1 DEF Coherent, Placed, Saves
    <3> QED
      BY <1>2, <3>1, MapsReport DEF Open
  <2>2. CASE driver[d].at \notin {"complete", "fail"}
    <3>1. saga \notin Terminal /\ saga' \notin Terminal
      BY <1>2, <1>4, <2>2 DEF Placed, Saves, Terminal
    <3> QED
      BY <1>2, <3>1, MapsQuiet
  <2> QED
    BY <2>1, <2>2
<1> QED
  BY <1>2, <1>5, <1>6, SoloQuiet

LEMMA SoloInit == Init => SoloInv /\ Abstract!Init
<1> SUFFICES ASSUME Init PROVE SoloInv /\ Abstract!Init
  OBVIOUS
<1>1. \A leg \in Legs : ~Done(leg) /\ key[leg] = NoKey /\ posted[leg] = 0
  BY DEF Init, Done
<1>2. OneForm /\ Coherent
  BY <1>1 DEF Init, OneForm, Coherent, Legs
<1>3. \A d \in Drivers : Placed(driver[d].at)
  BY DEF Init, Placed, Idle
<1>4. Abstract!Init
  BY <1>1 DEF Init, Abstract!Init, Terminal, Legs
<1> QED
  BY <1>2, <1>3, <1>4, InvInit DEF SoloInv

LEMMA SoloStep == Solo /\ SoloInv /\ [Next]_vars => SoloInv' /\ Maps
<1> SUFFICES ASSUME Solo, SoloInv, [Next]_vars PROVE SoloInv' /\ Maps
  OBVIOUS
<1>1. Inv'
  BY InvStep DEF SoloInv
<1>2. ASSUME NEW d \in Drivers, Submit(d) \/ Load(d) \/ Resume(d) \/ Compensate(d)
      PROVE  SoloInv' /\ Maps
  BY <1>1, <1>2, SoloStart DEF Solo, Compensate
<1>3. ASSUME NEW d \in Drivers, NEW leg \in Legs,
             BeginLeg(d, leg) \/ RefuseLeg(d, leg) \/ FailLeg(d, leg)
      PROVE  SoloInv' /\ Maps
  BY <1>1, <1>3, SoloLeg
<1>4. ASSUME NEW d \in Drivers, NEW leg \in Legs, CommitLeg(d, leg) \/ LoseCommit(d, leg)
      PROVE  SoloInv' /\ Maps
  BY <1>1, <1>4, SoloPost DEF Solo, LoseCommit
<1>5. ASSUME NEW d \in Drivers, Finish(d) \/ FailFinish(d) PROVE SoloInv' /\ Maps
  BY <1>1, <1>5, SoloFinish
<1>6. ASSUME NEW d \in Drivers, Save(d) \/ LoseSave(d) PROVE SoloInv' /\ Maps
  BY <1>1, <1>6, SoloSave
<1>7. ASSUME UNCHANGED <<saga, posted, key>>,
             \A d \in Drivers : driver'[d].at \in {driver[d].at, "idle"}
      PROVE  SoloInv' /\ Maps
  <2>1. \A k : Done(k)' <=> Done(k)
    BY <1>7 DEF Done
  <2>2. OneForm' /\ Coherent'
    BY <1>7, <2>1 DEF SoloInv, OneForm, Coherent
  <2>3. \A d \in Drivers : Placed(driver[d].at)'
    BY <1>7, <2>1 DEF SoloInv, Placed
  <2>4. Maps
    BY <1>7, MapsQuiet
  <2> QED
    BY <1>1, <2>2, <2>3, <2>4 DEF SoloInv
<1>8. ASSUME NEW d \in Drivers, Crash(d) PROVE SoloInv' /\ Maps
  <2>1. driver'[d].at = "idle" /\ UNCHANGED <<saga, posted, key>>
    BY <1>8, GotoAt DEF Crash, SoloInv
  <2>2. \A e \in Drivers : e = d
    BY DEF Solo
  <2> QED
    BY <1>7, <2>1, <2>2
<1>9. CASE UNCHANGED vars
  BY <1>7, <1>9 DEF vars
<1> QED
  BY <1>2, <1>3, <1>4, <1>5, <1>6, <1>8, <1>9 DEF Next, Advance

\* With drivers that do not overlap, a request that the row keeps, no outages and no
\* operator who compensates: whatever legs are refused and wherever processes crash, the
\* saga is an atomic transfer.  (Two drivers break it: AllOrNothing.)
THEOREM SoloImplements ==
    ASSUME Solo PROVE Spec => Implements
<1>1. Init => SoloInv /\ Abstract!Init
  BY SoloInit
<1>2. SoloInv /\ [Next]_vars => SoloInv' /\ [Abstract!Next]_(Abstract!vars)
  BY SoloStep DEF Maps
<1> QED
  BY <1>1, <1>2, PTL DEF Spec, Implements, Abstract!Spec
=============================================================================
