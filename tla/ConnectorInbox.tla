-------------------------- MODULE ConnectorInbox --------------------------
(***************************************************************************)
(* The connector (internal/connector): business events arrive as files or  *)
(* by HTTP, are written to ledger_mq_inbox, and each is turned into one    *)
(* command of the ledger.  Requests send messages, or have one replayed;   *)
(* one goroutine polls the files and drains what is due.  They share the   *)
(* table and nothing keeps two of them from one message: each works on the *)
(* copy of the row that it read.                                           *)
(*                                                                         *)
(* The ledger is taken at its word (LedgerProofs, ExactlyOnce): a command  *)
(* that was posted is answered as accepted, and is not posted again.       *)
(***************************************************************************)
EXTENDS Integers

CONSTANTS
    Message,      \* by message_id; their payloads are events
    Files,        \* those that somebody puts into connector.mq_dir
    Posts,        \* those that are sent by HTTP
    Handler,      \* HTTP requests at a time
    After,        \* what the ledger must have posted before each message
    MaxAttempts,  \* maxInboxAttempts
    MaxReplays,   \* bound on the replays that operators ask for
    MaxFaults     \* bound on calls that fail, answers that are lost and crashes

Poller == "poller"

Proc == Handler \cup {Poller}

ASSUME InboxAssumption ==
    /\ Files \subseteq Message
    /\ Posts \subseteq Message
    /\ Poller \notin Handler
    /\ After \in [Message -> SUBSET Message]
    /\ MaxAttempts \in Nat \ {0}
    /\ MaxReplays \in Nat
    /\ MaxFaults \in Nat

VARIABLES
    inbox,      \* ledger_mq_inbox
    dir,        \* files that are not renamed to .done
    posted,     \* commands in the ledger's books
    proc,       \* where each goroutine is
    replays,
    faults

vars == <<inbox, dir, posted, proc, replays, faults>>

\* Attempts count to MaxAttempts and stay: that is all the code asks of them.
\* due: next_retry_at has passed.
Row == [status : {"absent", "pending", "retry", "done", "dead"},
        attempts : 0..MaxAttempts, due : BOOLEAN]

Absent == [status |-> "absent", attempts |-> 0, due |-> FALSE]

Copies == [msg : Message, attempts : 0..MaxAttempts]

NoCopy == [msg |-> "no message", attempts |-> 0]

\* here: the copy it works on, and ok what the ledger said of it; files, todo:
\* what the poller has yet to ingest, and to drain.
Place == [at : {"idle", "files", "due", "insert", "get", "reopen", "apply", "save"},
          here : Copies \cup {NoCopy}, ok : BOOLEAN, drains : BOOLEAN,
          files : SUBSET Files, todo : SUBSET Copies]

Idle == [at |-> "idle", here |-> NoCopy, ok |-> FALSE, drains |-> FALSE,
         files |-> {}, todo |-> {}]

At(p, at) == proc[p].at = at
Msg(p) == proc[p].here.msg
Copy(m) == [msg |-> m, attempts |-> inbox[m].attempts]
Become(p, place) == proc' = [proc EXCEPT ![p] = place]
Goto(p, at) == Become(p, [proc[p] EXCEPT !.at = at])

-----------------------------------------------------------------------------
(* Arrivals.  handleMQ and PollFiles both call Ingest. *)

Ingesting(p, m) == [proc[p] EXCEPT !.at = "insert", !.here = [msg |-> m, attempts |-> 0]]

\* A message may be sent any number of times, also one that is a file as well.
Request(h, m) ==
    /\ h \in Handler
    /\ m \in Posts
    /\ At(h, "idle")
    /\ Become(h, Ingesting(h, m))
    /\ UNCHANGED <<inbox, dir, posted, replays, faults>>

\* PollFiles reads the directory, ingests one file after the other, then drains.
Poll ==
    /\ At(Poller, "idle")
    /\ Become(Poller, [Idle EXCEPT !.at = "files", !.files = dir])
    /\ UNCHANGED <<inbox, dir, posted, replays, faults>>

NextFile(m) ==
    /\ At(Poller, "files")
    /\ m \in proc[Poller].files
    /\ Become(Poller, [Ingesting(Poller, m) EXCEPT !.files = @ \ {m}])
    /\ UNCHANGED <<inbox, dir, posted, replays, faults>>

\* The message is behind.  A request is answered; the poller goes on, and renames
\* a file that was ingested without error.
Leave(p, ok) ==
    /\ Become(p, CASE p # Poller -> Idle
                   [] p = Poller -> [proc[p] EXCEPT !.here = NoCopy, !.ok = FALSE,
                                        !.at = IF proc[p].drains THEN "due" ELSE "files"])
    /\ dir' = IF p = Poller /\ ~proc[p].drains /\ ok THEN dir \ {Msg(p)} ELSE dir

-----------------------------------------------------------------------------
(* Ingest, DrainDue and Replay up to process. *)

\* InsertIfAbsent.  Of two that insert at once one fails (Fail).
Insert(p) ==
    /\ At(p, "insert")
    /\ inbox' = IF inbox[Msg(p)].status # "absent" THEN inbox
                ELSE [inbox EXCEPT ![Msg(p)] = [status |-> "pending", attempts |-> 0, due |-> TRUE]]
    /\ Goto(p, "get")
    /\ UNCHANGED <<dir, posted, replays, faults>>

\* Ingest does not process what is settled.
GetUnless(p, settled) ==
    /\ At(p, "get")
    /\ IF settled
       THEN Leave(p, inbox[Msg(p)].status # "dead")
       ELSE /\ Become(p, [proc[p] EXCEPT !.at = "apply", !.here = Copy(Msg(p))])
            /\ UNCHANGED dir
    /\ UNCHANGED <<inbox, posted, replays, faults>>

\* Fault: a message that was tried before is taken for processed.
GetSkipsTried(p) == GetUnless(p, inbox[Msg(p)].attempts > 0)

\* Fault: a dead message is left to the operators.
GetSkipsDead(p) == GetUnless(p, inbox[Msg(p)].status \in {"done", "dead"})

\* Only a done message is not processed again; retry and dead ones are.
Get(p) == GetUnless(p, inbox[Msg(p)].status = "done")

\* Fault: messages that were never tried are not due.
DueRetries == {m \in Message : inbox[m].status = "retry" /\ inbox[m].due}

Due == {m \in Message : inbox[m].status \in {"pending", "retry"} /\ inbox[m].due}

\* DrainDue takes copies of all rows that are due (at most 50, more than there
\* are here) and processes them as they were.
Drain ==
    /\ At(Poller, "files")
    /\ proc[Poller].files = {}
    /\ Become(Poller, [Idle EXCEPT !.at = "due", !.drains = TRUE, !.todo = {Copy(m) : m \in Due}])
    /\ UNCHANGED <<inbox, dir, posted, replays, faults>>

NextDue(c) ==
    /\ At(Poller, "due")
    /\ c \in proc[Poller].todo
    /\ Become(Poller, [proc[Poller] EXCEPT !.at = "apply", !.here = c, !.todo = @ \ {c}])
    /\ UNCHANGED <<inbox, dir, posted, replays, faults>>

Drained ==
    /\ At(Poller, "due")
    /\ proc[Poller].todo = {}
    /\ Become(Poller, Idle)
    /\ UNCHANGED <<inbox, dir, posted, replays, faults>>

\* Replay reads any message, whatever its status, sets it pending and processes it.
Replay(h, m) ==
    /\ h \in Handler
    /\ At(h, "idle")
    /\ inbox[m].status # "absent"
    /\ replays < MaxReplays
    /\ replays' = replays + 1
    /\ Become(h, [proc[h] EXCEPT !.at = "reopen", !.here = Copy(m)])
    /\ UNCHANGED <<inbox, dir, posted, faults>>

Reopen(p) ==
    /\ At(p, "reopen")
    /\ inbox' = [inbox EXCEPT ![Msg(p)] =
                    [status |-> "pending", attempts |-> proc[p].here.attempts, due |-> TRUE]]
    /\ Goto(p, "apply")
    /\ UNCHANGED <<dir, posted, replays, faults>>

-----------------------------------------------------------------------------
(* process. *)

\* A Capture needs its Freeze; what was posted before is accepted as a replay.
Accepts(m) == m \in posted \/ After[m] \subseteq posted

Ends(p, ok) == Become(p, [proc[p] EXCEPT !.at = "save", !.ok = ok])

\* ApplyMQ, one command through the gateway.
Apply(p) ==
    /\ At(p, "apply")
    /\ Ends(p, Accepts(Msg(p)))
    /\ posted' = IF Accepts(Msg(p)) THEN posted \cup {Msg(p)} ELSE posted
    /\ UNCHANGED <<inbox, dir, replays, faults>>

\* The call fails for the client, who gives up after 10 s; it was executed or not.
GiveUp(p) ==
    /\ At(p, "apply")
    /\ faults < MaxFaults
    /\ faults' = faults + 1
    /\ Ends(p, FALSE)
    /\ posted' \in {posted, IF Accepts(Msg(p)) THEN posted \cup {Msg(p)} ELSE posted}
    /\ UNCHANGED <<inbox, dir, replays>>

Tried(here) == IF here.attempts < MaxAttempts THEN here.attempts + 1 ELSE MaxAttempts

\* Fault: an error of the ledger is not looked at.
AfterTryBlind(here, ok) == [status |-> "done", attempts |-> Tried(here), due |-> FALSE]

\* The row that is written over whatever the table has by now.
AfterTry(here, ok) ==
    [status |-> IF ok THEN "done" ELSE IF Tried(here) >= MaxAttempts THEN "dead" ELSE "retry",
     attempts |-> Tried(here), due |-> FALSE]

Save(p) ==
    /\ At(p, "save")
    /\ inbox' = [inbox EXCEPT ![Msg(p)] = AfterTry(proc[p].here, proc[p].ok)]
    /\ Leave(p, proc[p].ok)
    /\ UNCHANGED <<posted, replays, faults>>

\* The result of the last Update is ignored.
SaveFails(p) ==
    /\ At(p, "save")
    /\ faults < MaxFaults
    /\ faults' = faults + 1
    /\ Leave(p, proc[p].ok)
    /\ UNCHANGED <<inbox, posted, replays>>

-----------------------------------------------------------------------------
(* Time and failures. *)

\* The backoff of a retry is over.
Wait(m) ==
    /\ inbox[m].status = "retry" /\ ~inbox[m].due
    /\ inbox' = [inbox EXCEPT ![m].due = TRUE]
    /\ UNCHANGED <<dir, posted, proc, replays, faults>>

\* A statement before process fails: the error goes to the caller.
Fail(p) ==
    /\ proc[p].at \in {"insert", "get", "reopen"}
    /\ faults < MaxFaults
    /\ faults' = faults + 1
    /\ Leave(p, FALSE)
    /\ UNCHANGED <<inbox, posted, replays>>

\* The connector is one process.
Crash ==
    /\ \E p \in Proc : ~At(p, "idle")
    /\ faults < MaxFaults
    /\ faults' = faults + 1
    /\ proc' = [p \in Proc |-> Idle]
    /\ UNCHANGED <<inbox, dir, posted, replays>>

Init ==
    /\ inbox = [m \in Message |-> Absent]
    /\ dir = Files
    /\ posted = {}
    /\ proc = [p \in Proc |-> Idle]
    /\ replays = 0
    /\ faults = 0

\* What a goroutine with a message in hand does.
Work(p) ==
    \/ Insert(p)
    \/ Get(p)
    \/ Reopen(p)
    \/ Apply(p)
    \/ GiveUp(p)
    \/ Save(p)
    \/ SaveFails(p)
    \/ Fail(p)

PollerStep ==
    \/ Poll
    \/ \E m \in Message : NextFile(m)
    \/ Drain
    \/ \E c \in proc[Poller].todo : NextDue(c)
    \/ Drained

Next ==
    \/ \E h \in Handler, m \in Message : Request(h, m) \/ Replay(h, m)
    \/ PollerStep
    \/ \E p \in Proc : Work(p)
    \/ \E m \in Message : Wait(m)
    \/ Crash

Spec == Init /\ [][Next]_vars

\* The poller's ticker fires, goroutines go on, and backoffs end.
Fairness ==
    /\ WF_vars(PollerStep)
    /\ \A p \in Proc : WF_vars(Work(p))
    /\ \A m \in Message : WF_vars(Wait(m))

FairSpec == Spec /\ Fairness

-----------------------------------------------------------------------------
(* Properties. *)

\* The tables' types; a row that is to be retried has attempts left
\* (maxInboxAttempts in process).
TypeOK ==
    /\ inbox \in [Message -> Row]
    /\ \A m \in Message : inbox[m].status = "retry" => inbox[m].attempts < MaxAttempts
    /\ dir \subseteq Files
    /\ posted \subseteq Message
    /\ proc \in [Proc -> Place]
    /\ replays \in 0..MaxReplays
    /\ faults \in 0..MaxFaults

\* A message that is done is in the books, although process writes the row from
\* a copy that others may have overtaken.
DoneIsPosted == \A m \in Message : inbox[m].status = "done" => m \in posted

\* A file is renamed only when its command is in the books (PollFiles; 05, 12).
RenamedIsPosted == \A m \in Files \ dir : m \in posted

\* Every message that reached the inbox is done or dead in the end, also after
\* a crash between its insert and its processing, however it is sent again
\* meanwhile (DrainDue).  (Two operators who replay one message forever would
\* keep it pending: Replay writes back the attempts that it read.)
RowsFinish ==
    \A m \in Message :
        inbox[m].status \in {"pending", "retry"} ~> inbox[m].status \in {"done", "dead"}

\* A file whose command the ledger accepts is posted in the end, also when its
\* row was dead before that: the poller sends a file until it succeeds (an order
\* that was paid before it was created).
FilesApplied ==
    \A m \in Files : m \in dir /\ Accepts(m) ~> m \in posted
=============================================================================
