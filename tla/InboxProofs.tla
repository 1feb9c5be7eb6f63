---------------------------- MODULE InboxProofs ----------------------------
(***************************************************************************)
(* Proofs about the connector's inbox, for any messages, files, requests,  *)
(* attempts, replays and failures.                                         *)
(***************************************************************************)
EXTENDS ConnectorInbox, TLAPS

USE InboxAssumption

\* A goroutine past Insert has a message in hand.
InHand(p) == proc[p].at \in {"insert", "get", "reopen", "apply", "save"} => proc[p].here \in Copies

\* What Save is about to call done is in the books already.  The books only
\* grow, so this survives whatever others do to the row meanwhile.
Backed(p) == proc[p].at = "save" /\ proc[p].ok => Msg(p) \in posted

InboxInv ==
    /\ TypeOK
    /\ \A p \in Proc : InHand(p) /\ Backed(p)
    /\ DoneIsPosted
    /\ RenamedIsPosted

LEMMA InitInv == Init => InboxInv
BY DEF Init, InboxInv, TypeOK, Row, Absent, Place, Idle, InHand, Backed, DoneIsPosted, RenamedIsPosted

\* What the handlers leave alone stays right while the books grow.
LEMMA OthersKept ==
    ASSUME InboxInv, NEW p \in Proc, posted \subseteq posted',
           NEW place, proc' = [proc EXCEPT ![p] = place]
    PROVE  \A q \in Proc \ {p} : InHand(q)' /\ Backed(q)'
BY DEF InboxInv, TypeOK, InHand, Backed, Msg

\* A step that only moves one goroutine, and not to save.
LEMMA MoveStep ==
    ASSUME InboxInv, NEW p \in Proc, NEW place \in Place,
           place.at # "save",
           place.at \in {"insert", "get", "reopen", "apply"} => place.here \in Copies,
           Become(p, place), UNCHANGED <<inbox, dir, posted>>,
           replays' \in 0..MaxReplays, faults' \in 0..MaxFaults
    PROVE  InboxInv'
<1>1. TypeOK'
  BY DEF InboxInv, TypeOK, Become
<1>2. InHand(p)' /\ Backed(p)'
  BY DEF InboxInv, TypeOK, Become, InHand, Backed
<1>3. \A q \in Proc \ {p} : InHand(q)' /\ Backed(q)'
  BY OthersKept DEF Become
<1> QED
  BY <1>1, <1>2, <1>3 DEF InboxInv, DoneIsPosted, RenamedIsPosted

\* Leaving a message: whoever leaves it as processed has it in the books.
LEMMA LeaveStep ==
    ASSUME InboxInv, NEW p \in Proc, NEW ok \in BOOLEAN,
           proc[p].at \in {"insert", "get", "reopen", "apply", "save"},
           Leave(p, ok), ok => Msg(p) \in posted,
           UNCHANGED <<posted, replays>>, faults' \in 0..MaxFaults,
           inbox' \in [Message -> Row],
           \A m \in Message : inbox'[m].status = "retry" => inbox'[m].attempts < MaxAttempts,
           \A m \in Message : inbox'[m].status = "done" => m \in posted
    PROVE  InboxInv'
<1> DEFINE place == CASE p # Poller -> Idle
                      [] p = Poller -> [proc[p] EXCEPT !.here = NoCopy, !.ok = FALSE,
                                           !.at = IF proc[p].drains THEN "due" ELSE "files"]
<1>1. Become(p, place)
  BY DEF Leave
<1>2. place \in Place /\ place.at \in {"idle", "due", "files"}
  <2>1. proc[p] \in Place
    BY DEF InboxInv, TypeOK
  <2>2. CASE p # Poller
    BY <2>2 DEF Place, Idle
  <2>3. CASE p = Poller
    <3>1. place = [proc[p] EXCEPT !.here = NoCopy, !.ok = FALSE,
                                  !.at = IF proc[p].drains THEN "due" ELSE "files"]
      BY <2>3
    <3> QED
      BY <2>1, <3>1 DEF Place
  <2> QED
    BY <2>2, <2>3
<1> HIDE DEF place
<1>3. InHand(p)' /\ Backed(p)'
  BY <1>1, <1>2 DEF InboxInv, TypeOK, Become, InHand, Backed
<1>4. \A q \in Proc \ {p} : InHand(q)' /\ Backed(q)'
  BY <1>1, OthersKept DEF Become
<1>5. dir' \subseteq Files /\ RenamedIsPosted'
  BY DEF InboxInv, TypeOK, Leave, RenamedIsPosted
<1>6. TypeOK'
  BY <1>1, <1>2, <1>5 DEF InboxInv, TypeOK, Become
<1> QED
  BY <1>3, <1>4, <1>5, <1>6 DEF InboxInv, DoneIsPosted

-----------------------------------------------------------------------------
(* Arrivals, and what comes before process. *)

LEMMA Fresh == \A m \in Message : [msg |-> m, attempts |-> 0] \in Copies
BY DEF Copies

LEMMA RequestStep ==
    ASSUME InboxInv, NEW h \in Handler, NEW m \in Message, Request(h, m)
    PROVE  InboxInv'
<1>0. proc[h] \in Place
  BY DEF InboxInv, TypeOK, Proc
<1>1. Ingesting(h, m) \in Place /\ Ingesting(h, m).at = "insert" /\ Ingesting(h, m).here \in Copies
  BY <1>0, Fresh DEF Place, Ingesting
<1> QED
  BY <1>1, MoveStep DEF InboxInv, TypeOK, Request, Proc

LEMMA PollerSteps ==
    ASSUME InboxInv, PollerStep
    PROVE  InboxInv'
<1> USE DEF Proc
<1>0. proc[Poller] \in Place /\ dir \subseteq Files /\ replays \in 0..MaxReplays /\ faults \in 0..MaxFaults
  BY DEF InboxInv, TypeOK
<1>1. CASE Poll
  <2>1. [Idle EXCEPT !.at = "files", !.files = dir] \in Place
    BY <1>0 DEF Place, Idle
  <2> QED
    BY <1>0, <1>1, <2>1, MoveStep DEF Poll, Idle
<1>2. ASSUME NEW m \in Message, NextFile(m) PROVE InboxInv'
  <2>1. [Ingesting(Poller, m) EXCEPT !.files = @ \ {m}] \in Place
    BY <1>0, Fresh DEF Place, Ingesting
  <2>2. [Ingesting(Poller, m) EXCEPT !.files = @ \ {m}].at = "insert"
        /\ [Ingesting(Poller, m) EXCEPT !.files = @ \ {m}].here \in Copies
    BY <1>0, Fresh DEF Place, Ingesting
  <2> QED
    BY <1>0, <1>2, <2>1, <2>2, MoveStep DEF NextFile
<1>3. CASE Drain
  <2>1. {Copy(m) : m \in Due} \subseteq Copies
    BY DEF InboxInv, TypeOK, Row, Due, Copy, Copies
  <2> DEFINE draining == [Idle EXCEPT !.at = "due", !.drains = TRUE, !.todo = {Copy(m) : m \in Due}]
  <2>2. draining \in Place /\ draining.at = "due"
    BY <2>1 DEF Place, Idle
  <2>3. Become(Poller, draining) /\ UNCHANGED <<inbox, dir, posted, replays, faults>>
    BY <1>3 DEF Drain
  <2> HIDE DEF draining
  <2> QED
    BY <1>0, <2>2, <2>3, MoveStep
<1>4. ASSUME NEW c \in proc[Poller].todo, NextDue(c) PROVE InboxInv'
  <2> DEFINE place == [proc[Poller] EXCEPT !.at = "apply", !.here = c, !.todo = @ \ {c}]
  <2>1. c \in Copies
    BY <1>0 DEF Place
  <2>2. place \in Place /\ place.at = "apply" /\ place.here \in Copies
    BY <1>0, <2>1 DEF Place
  <2> QED
    BY <1>0, <1>4, <2>2, MoveStep DEF NextDue
<1>5. CASE Drained
  <2>1. Idle \in Place /\ Idle.at = "idle"
    BY DEF Place, Idle
  <2> QED
    BY <1>0, <1>5, <2>1, MoveStep DEF Drained
<1> QED
  BY <1>1, <1>2, <1>3, <1>4, <1>5 DEF PollerStep

LEMMA InsertStep ==
    ASSUME InboxInv, NEW p \in Proc, Insert(p)
    PROVE  InboxInv'
<1>1. Msg(p) \in Message /\ proc[p] \in Place /\ proc[p].here \in Copies
  BY DEF InboxInv, TypeOK, Insert, At, InHand, Msg, Copies
<1>2. [proc[p] EXCEPT !.at = "get"] \in Place
  BY <1>1 DEF Place
<1>3. TypeOK'
  BY <1>1, <1>2 DEF InboxInv, TypeOK, Insert, Goto, Become, Row
<1>4. InHand(p)' /\ Backed(p)'
  BY <1>1 DEF InboxInv, TypeOK, Insert, Goto, Become, InHand, Backed, Place
<1>5. \A q \in Proc \ {p} : InHand(q)' /\ Backed(q)'
  BY OthersKept DEF Insert, Goto, Become
<1>6. DoneIsPosted' /\ RenamedIsPosted'
  BY <1>1 DEF InboxInv, TypeOK, Insert, DoneIsPosted, RenamedIsPosted
<1> QED
  BY <1>3, <1>4, <1>5, <1>6 DEF InboxInv

LEMMA GetStep ==
    ASSUME InboxInv, NEW p \in Proc, Get(p)
    PROVE  InboxInv'
<1>1. Msg(p) \in Message /\ proc[p] \in Place /\ proc[p].at = "get"
  BY DEF InboxInv, TypeOK, Get, GetUnless, At, InHand, Msg, Copies
<1>2. CASE inbox[Msg(p)].status = "done"
  <2>1. Leave(p, TRUE) /\ UNCHANGED <<inbox, posted, replays, faults>>
    BY <1>2 DEF Get, GetUnless
  <2>2. Msg(p) \in posted
    BY <1>1, <1>2 DEF InboxInv, DoneIsPosted
  <2> QED
    BY <1>1, <2>1, <2>2, LeaveStep DEF InboxInv, TypeOK, DoneIsPosted
<1>3. CASE inbox[Msg(p)].status # "done"
  <2> DEFINE place == [proc[p] EXCEPT !.at = "apply", !.here = Copy(Msg(p))]
  <2>1. Copy(Msg(p)) \in Copies
    BY <1>1 DEF InboxInv, TypeOK, Row, Copy, Copies
  <2>2. place \in Place /\ place.at = "apply" /\ place.here \in Copies
    BY <1>1, <2>1 DEF Place
  <2>3. Become(p, place) /\ UNCHANGED <<inbox, dir, posted, replays, faults>>
    BY <1>3 DEF Get, GetUnless
  <2> HIDE DEF place
  <2> QED
    BY <2>2, <2>3, MoveStep DEF InboxInv, TypeOK
<1> QED
  BY <1>2, <1>3

LEMMA ReplayStep ==
    ASSUME InboxInv, NEW h \in Handler, NEW m \in Message, Replay(h, m)
    PROVE  InboxInv'
<1> DEFINE place == [proc[h] EXCEPT !.at = "reopen", !.here = Copy(m)]
<1>1. Copy(m) \in Copies /\ proc[h] \in Place
  BY DEF InboxInv, TypeOK, Row, Copy, Copies, Proc
<1>2. place \in Place /\ place.at = "reopen" /\ place.here \in Copies
  BY <1>1 DEF Place
<1>3. Become(h, place) /\ UNCHANGED <<inbox, dir, posted, faults>> /\ replays' \in 0..MaxReplays
  BY DEF InboxInv, TypeOK, Replay
<1> HIDE DEF place
<1> QED
  BY <1>2, <1>3, MoveStep DEF InboxInv, TypeOK, Proc

LEMMA ReopenStep ==
    ASSUME InboxInv, NEW p \in Proc, Reopen(p)
    PROVE  InboxInv'
<1>1. Msg(p) \in Message /\ proc[p] \in Place /\ proc[p].here \in Copies
  BY DEF InboxInv, TypeOK, Reopen, At, InHand, Msg, Copies
<1>2. [proc[p] EXCEPT !.at = "apply"] \in Place
  BY <1>1 DEF Place
<1>3. TypeOK'
  BY <1>1, <1>2 DEF InboxInv, TypeOK, Reopen, Goto, Become, Row, Copies
<1>4. InHand(p)' /\ Backed(p)'
  BY <1>1 DEF InboxInv, TypeOK, Reopen, Goto, Become, InHand, Backed, Place
<1>5. \A q \in Proc \ {p} : InHand(q)' /\ Backed(q)'
  BY OthersKept DEF Reopen, Goto, Become
<1>6. DoneIsPosted' /\ RenamedIsPosted'
  BY <1>1 DEF InboxInv, TypeOK, Reopen, DoneIsPosted, RenamedIsPosted
<1> QED
  BY <1>3, <1>4, <1>5, <1>6 DEF InboxInv

-----------------------------------------------------------------------------
(* process. *)

\* Apply and GiveUp: a copy goes to Save with what the ledger said of it.
LEMMA EndsStep ==
    ASSUME InboxInv, NEW p \in Proc, NEW ok \in BOOLEAN, At(p, "apply"), Ends(p, ok),
           posted' \in {posted, posted \cup {Msg(p)}}, ok => Msg(p) \in posted',
           UNCHANGED <<inbox, dir, replays>>, faults' \in 0..MaxFaults
    PROVE  InboxInv'
<1>1. Msg(p) \in Message /\ proc[p] \in Place /\ proc[p].here \in Copies
  BY DEF InboxInv, TypeOK, At, InHand, Msg, Copies
<1>2. [proc[p] EXCEPT !.at = "save", !.ok = ok] \in Place
  BY <1>1 DEF Place
<1>3. TypeOK'
  BY <1>1, <1>2 DEF InboxInv, TypeOK, Ends, Become
<1>4. InHand(p)' /\ Backed(p)'
  BY <1>1 DEF InboxInv, TypeOK, Ends, Become, InHand, Backed, Place, Msg
<1>5. \A q \in Proc \ {p} : InHand(q)' /\ Backed(q)'
  BY OthersKept DEF Ends, Become
<1>6. DoneIsPosted' /\ RenamedIsPosted'
  BY DEF InboxInv, DoneIsPosted, RenamedIsPosted
<1> QED
  BY <1>3, <1>4, <1>5, <1>6 DEF InboxInv

LEMMA ApplyStep ==
    ASSUME InboxInv, NEW p \in Proc, Apply(p) \/ GiveUp(p)
    PROVE  InboxInv'
<1>1. CASE Apply(p)
  <2>1. Accepts(Msg(p)) \in BOOLEAN
    BY DEF Accepts
  <2> QED
    BY <1>1, <2>1, EndsStep DEF Apply, InboxInv, TypeOK
<1>2. CASE GiveUp(p)
  <2>1. faults \in 0..MaxFaults /\ faults < MaxFaults /\ faults' = faults + 1
    BY <1>2 DEF GiveUp, InboxInv, TypeOK
  <2>2. faults' \in 0..MaxFaults
    BY <2>1
  <2>3. posted' \in {posted, posted \cup {Msg(p)}}
    BY <1>2 DEF GiveUp
  <2> QED
    BY <1>2, <2>2, <2>3, EndsStep DEF GiveUp
<1> QED
  BY <1>1, <1>2

LEMMA SaveStep ==
    ASSUME InboxInv, NEW p \in Proc, Save(p)
    PROVE  InboxInv'
<1>1. Msg(p) \in Message /\ proc[p] \in Place /\ proc[p].here \in Copies /\ proc[p].at = "save"
  BY DEF InboxInv, TypeOK, Save, At, InHand, Msg, Copies
<1>2. proc[p].ok \in BOOLEAN /\ proc[p].here.attempts \in 0..MaxAttempts
  BY <1>1 DEF Place, Copies
<1> DEFINE row == AfterTry(proc[p].here, proc[p].ok)
<1>3. row \in Row /\ (row.status = "retry" => row.attempts < MaxAttempts)
      /\ (row.status = "done" => proc[p].ok)
  BY <1>2 DEF AfterTry, Tried, Row
<1>4. proc[p].ok => Msg(p) \in posted
  BY <1>1 DEF InboxInv, Backed
<1>5. inbox' = [inbox EXCEPT ![Msg(p)] = row] /\ Leave(p, proc[p].ok) /\ UNCHANGED <<posted, replays, faults>>
  BY DEF Save
<1> HIDE DEF row
<1>6. inbox' \in [Message -> Row]
      /\ (\A m \in Message : inbox'[m].status = "retry" => inbox'[m].attempts < MaxAttempts)
      /\ (\A m \in Message : inbox'[m].status = "done" => m \in posted)
  BY <1>1, <1>3, <1>4, <1>5 DEF InboxInv, TypeOK, DoneIsPosted
<1> QED
  BY <1>1, <1>2, <1>4, <1>5, <1>6, LeaveStep DEF InboxInv, TypeOK

\* A statement that fails, the last Update's included.
LEMMA FailStep ==
    ASSUME InboxInv, NEW p \in Proc, SaveFails(p) \/ Fail(p)
    PROVE  InboxInv'
<1>1. proc[p] \in Place /\ inbox \in [Message -> Row] /\ faults \in 0..MaxFaults
  BY DEF InboxInv, TypeOK
<1>0. faults < MaxFaults /\ faults' = faults + 1 => faults' \in 0..MaxFaults
  BY <1>1
<1>2. CASE SaveFails(p)
  <2>1. proc[p].ok \in BOOLEAN /\ (proc[p].ok => Msg(p) \in posted)
    BY <1>1, <1>2 DEF InboxInv, Backed, SaveFails, At, Place
  <2> QED
    BY <1>0, <1>1, <1>2, <2>1, LeaveStep DEF SaveFails, At, InboxInv, TypeOK, DoneIsPosted
<1>3. CASE Fail(p)
  BY <1>0, <1>1, <1>3, LeaveStep DEF Fail, InboxInv, TypeOK, DoneIsPosted
<1> QED
  BY <1>2, <1>3

LEMMA CrashStep ==
    ASSUME InboxInv, Crash
    PROVE  InboxInv'
BY DEF InboxInv, TypeOK, Crash, InHand, Backed, DoneIsPosted, RenamedIsPosted, Idle, Place

LEMMA WaitStep ==
    ASSUME InboxInv, NEW m \in Message, Wait(m)
    PROVE  InboxInv'
<1>1. TypeOK' /\ DoneIsPosted' /\ RenamedIsPosted'
  BY DEF InboxInv, TypeOK, Wait, Row, DoneIsPosted, RenamedIsPosted
<1>2. \A p \in Proc : InHand(p)' /\ Backed(p)'
  BY DEF InboxInv, Wait, InHand, Backed, Msg
<1> QED
  BY <1>1, <1>2 DEF InboxInv

LEMMA InvStep == InboxInv /\ [Next]_vars => InboxInv'
<1> SUFFICES ASSUME InboxInv, [Next]_vars PROVE InboxInv'
  OBVIOUS
<1>1. CASE UNCHANGED vars
  BY <1>1 DEF vars, InboxInv, TypeOK, InHand, Backed, Msg, DoneIsPosted, RenamedIsPosted
<1>2. CASE Next
  BY <1>2, RequestStep, ReplayStep, PollerSteps, InsertStep, GetStep, ReopenStep, ApplyStep,
     SaveStep, FailStep, WaitStep, CrashStep DEF Next, Work
<1> QED
  BY <1>1, <1>2

-----------------------------------------------------------------------------
(* Results. *)

\* The types, and that a row that is to be retried has attempts left
\* (process), however many goroutines write it from stale copies.
THEOREM InboxTypes == Spec => []TypeOK
<1>1. InboxInv => TypeOK
  BY DEF InboxInv
<1> QED
  BY <1>1, InitInv, InvStep, PTL DEF Spec

\* Done means posted, for any number of goroutines that process one message
\* from copies of its row, and whatever fails (Processor.process).
THEOREM DoneMeansPosted == Spec => []DoneIsPosted
<1>1. InboxInv => DoneIsPosted
  BY DEF InboxInv
<1> QED
  BY <1>1, InitInv, InvStep, PTL DEF Spec

\* A file that PollFiles renamed is in the books.
THEOREM RenamedMeansPosted == Spec => []RenamedIsPosted
<1>1. InboxInv => RenamedIsPosted
  BY DEF InboxInv
<1> QED
  BY <1>1, InitInv, InvStep, PTL DEF Spec
=============================================================================
