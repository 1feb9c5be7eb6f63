------------------------------- MODULE Console -------------------------------
(***************************************************************************)
(* Operators at the console: the role that decides which requests pass, the *)
(* tickets of the reconciliation's differences, which handlers read, change *)
(* and write back, and the access rules and limits of one API process, which *)
(* a watcher of the configuration file and operators reload while revisions *)
(* are kept of them.                                                         *)
(***************************************************************************)
EXTENDS Integers, FiniteSets, FiniteSetsExt

CONSTANTS
    Request,      \* requests of operators
    Watcher,      \* the goroutine that watches the file
    Diff, Tenant,
    Ask,          \* [Request -> set of what it may be]: kind (assign, resolve, reload), role (X-Console-Role, None when
                  \* the header is missing), tenant and difference
    Owner,        \* [Diff -> Tenant]: the tenant of the job that found the difference
    Content,      \* what the file may hold, Bad when it cannot be read or parsed
    Bad, None,
    Shipped,      \* what the file holds at first
    MaxEdits, MaxFaults     \* bounds

ASSUME ConsoleAssumption ==
    /\ Watcher \notin Request /\ None \notin Request
    /\ Owner \in [Diff -> Tenant]
    /\ \A r \in Request : \A a \in Ask[r] :
          /\ DOMAIN a = {"kind", "role", "tenant", "diff"} /\ a.kind \in {"assign", "resolve", "reload"}
          /\ a.role \in {"admin", "readonly", "correction", "jobs", None}
          /\ a.tenant \in Tenant /\ a.diff \in Diff
    /\ Bad \in Content /\ None \notin Content /\ Shipped \in Content \ {Bad}
    /\ MaxEdits \in Nat /\ MaxFaults \in Nat

Proc == Request \cup {Watcher}
Ticket == [status : {"open", "resolved"}, assignee : Request \cup {None}, closedBy : Request \cup {None}]

VARIABLES
    file,      \* config.yaml: content and mtime
    up,        \* the API runs
    acl, limits,   \* the rules in force: content of the file they come from
    shown,     \* Server.limits, the handler's copy of the limits
    watched,   \* the mtime the watcher knows
    at,        \* at[p]: the next statement of p
    ask,       \* ask[r]: what a request is, once it has arrived
    told,      \* told[r]: what the operator was told
    ticket,    \* rows of ledger_reconcile_diff
    events,    \* rows of ledger_reconcile_diff_event
    actions,   \* rows of ledger_ops_audit: requests that were recorded
    copy,      \* copy[r]: the ticket as read
    fresh, payload, last,   \* fresh[p]: the file as read; what p saves; the latest version p saw
    round,     \* round[p]: 1 in the shared reload, 2 in the handler's own save
    revs,      \* rows of ledger_config_revision
    edits, faults,
    overlap,   \* history: a reload began while another was under way
    unseen,    \* history: nobody has read the file as it is, and the watcher sees nothing new in it
    unsaved,   \* history: the rules in force are younger than the latest revision
    stale      \* history: tickets whose closing was overwritten by an assignment that had read them before

books == <<ticket, events, copy, stale>>
config == <<acl, limits, shown, fresh, payload, last, round, revs, overlap, unsaved>>
disk == <<file, edits, unseen, watched>>
vars == <<books, config, disk, up, at, ask, told, actions, faults>>

Nil == [acl |-> None, limits |-> None]

----------------------------------------------------------------------------
(* Roles.                                                                   *)

CorrectionWrites == {"reverse", "capture", "release", "resolve", "assign"}
JobsWrites == {"reload", "enqueue", "rerun", "job", "saga_retry", "saga_compensate"}

Normalized(role) == IF role \in {"readonly", "correction", "jobs"} THEN role ELSE "admin"
ConsoleAllowed(role, kind) ==
    \/ kind = "read" \/ Normalized(role) = "admin"
    \/ Normalized(role) = "correction" /\ kind \in CorrectionWrites
    \/ Normalized(role) = "jobs" /\ kind \in JobsWrites

----------------------------------------------------------------------------
(* Requests.                                                                *)

Goes(p, place) == at' = [at EXCEPT ![p] = place] /\ UNCHANGED told
End(r, answer) == at' = [at EXCEPT ![r] = "over"] /\ told' = [told EXCEPT ![r] = answer]

\* consoleRole, and the route.  (What the other routes do is in the other modules.)
First(kind) == IF kind = "reload" THEN "load" ELSE "read"
Arrive(r) ==
    /\ up /\ at[r] = "idle"
    /\ \E a \in Ask[r] :
        /\ ask' = [ask EXCEPT ![r] = a]
        /\ IF ConsoleAllowed(a.role, a.kind) THEN Goes(r, First(a.kind)) ELSE End(r, "denied")
    /\ UNCHANGED <<up, actions, faults>> /\ UNCHANGED books /\ UNCHANGED config /\ UNCHANGED disk

Fails == faults < MaxFaults /\ faults' = faults + 1

\* diffInTenant: a ticket of another tenant is not found.
Read(r) ==
    /\ at[r] = "read"
    /\ LET d == ask[r].diff IN
       \/ /\ Owner[d] = ask[r].tenant
          /\ copy' = [copy EXCEPT ![r] = ticket[d]]
          /\ Goes(r, "update") /\ UNCHANGED faults
       \/ Owner[d] # ask[r].tenant /\ End(r, "not_found") /\ UNCHANGED <<copy, faults>>
       \/ Fails /\ End(r, "error") /\ UNCHANGED copy
    /\ UNCHANGED <<up, ask, actions, ticket, events, stale>> /\ UNCHANGED config /\ UNCHANGED disk

\* What AssignDiff and ResolveDiff make of the ticket they have read.
Changed(r) ==
    IF ask[r].kind = "assign" THEN [copy[r] EXCEPT !.assignee = r]
    ELSE [copy[r] EXCEPT !.status = "resolved", !.closedBy = r]

\* UpdateDiff writes every column, whatever the row says now.
Update(r) ==
    /\ at[r] = "update"
    /\ LET d == ask[r].diff
           closed == ticket[d].status = "resolved" /\ copy[r].status = "open"
           Written == /\ ticket' = [ticket EXCEPT ![d] = Changed(r)]
                      /\ stale' = IF closed /\ ask[r].kind = "assign" THEN stale \cup {d}
                                  ELSE IF ask[r].kind = "resolve" THEN stale \ {d} ELSE stale
       IN \/ Written /\ Goes(r, "event") /\ UNCHANGED faults
          \/ Fails /\ (Written \/ UNCHANGED <<ticket, stale>>) /\ End(r, "error")
    /\ UNCHANGED <<up, ask, actions, events, copy>> /\ UNCHANGED config /\ UNCHANGED disk

\* CreateDiffEvent: ResolveDiff returns its error, AssignDiff does not look at it.
EventLostIgnored(r) == Goes(r, "record")              \* Fault: nor does ResolveDiff
EventLost(r) == IF ask[r].kind = "resolve" THEN End(r, "error") ELSE Goes(r, "record")
Event(r) ==
    /\ at[r] = "event"
    /\ LET row == [diff |-> ask[r].diff, action |-> ask[r].kind, by |-> r] IN
       \/ events' = events \cup {row} /\ Goes(r, "record") /\ UNCHANGED faults
       \/ Fails /\ events' \in {events, events \cup {row}} /\ EventLost(r)
    /\ UNCHANGED <<up, ask, actions, ticket, copy, stale>> /\ UNCHANGED config /\ UNCHANGED disk

\* Jobs.Record, whose error nobody sees.
Record(r) ==
    /\ at[r] = "record"
    /\ \/ actions' = actions \cup {r} /\ UNCHANGED faults
       \/ Fails /\ UNCHANGED actions
    /\ End(r, "ok")
    /\ UNCHANGED <<up, ask>> /\ UNCHANGED books /\ UNCHANGED config /\ UNCHANGED disk

----------------------------------------------------------------------------
(* Reloads.                                                                 *)

\* What a reload goes through, in the order of its statements.
Reloading == {"acl", "limits", "peek", "version", "insert", "show"}

\* config.Load, which fails on a bad file and may fail on a good one; the watcher goes on, and
\* as it knows the mtime already, it reads the file again only when that is later.
NotLoadedReturn(p) == IF p = Watcher THEN Goes(p, "down") ELSE End(p, "error")    \* Fault: it returns
NotLoaded(p) == IF p = Watcher THEN Goes(p, "idle") ELSE End(p, "error")
Load(p) ==
    /\ at[p] = "load"
    /\ overlap' = (overlap \/ \E q \in Proc \ {p} : at[q] \in Reloading)
    /\ \/ /\ file.content # Bad
          /\ fresh' = [fresh EXCEPT ![p] = file.content]
          /\ round' = [round EXCEPT ![p] = 1] /\ unseen' = FALSE
          /\ Goes(p, "acl") /\ UNCHANGED faults
       \/ /\ IF file.content = Bad THEN UNCHANGED faults ELSE Fails
          /\ unseen' = (unseen \/ (p = Watcher /\ file.mtime <= watched))
          /\ UNCHANGED <<fresh, round>>
          /\ NotLoaded(p)
    /\ UNCHANGED <<up, ask, actions, acl, limits, shown, payload, last, revs, unsaved, file, edits, watched>>
    /\ UNCHANGED books

\* ACL.Replace, then Limiter.Replace: two locks.
ReplaceACL(p) ==
    /\ at[p] = "acl"
    /\ acl' = fresh[p] /\ unsaved' = TRUE
    /\ Goes(p, "limits")
    /\ UNCHANGED <<up, ask, actions, faults, limits, shown, fresh, payload, last, round, revs, overlap>>
    /\ UNCHANGED books /\ UNCHANGED disk
ReplaceLimits(p) ==
    /\ at[p] = "limits"
    /\ limits' = fresh[p] /\ fresh' = [fresh EXCEPT ![p] = None]
    /\ Goes(p, "peek")
    /\ UNCHANGED <<up, ask, actions, faults, acl, shown, payload, last, round, revs, overlap, unsaved>>
    /\ UNCHANGED books /\ UNCHANGED disk

\* The handler's copy of the limits, which all requests write without a lock (the rules of
\* all contents are as many, so a torn slice is one of them).
Show(p) ==
    /\ at[p] = "show"
    /\ shown' = limits /\ round' = [round EXCEPT ![p] = 2]
    /\ Goes(p, "peek")
    /\ UNCHANGED <<up, ask, actions, faults, acl, limits, fresh, payload, last, revs, overlap, unsaved>>
    /\ UNCHANGED books /\ UNCHANGED disk

\* SaveConfigRevision is called with the rules in force (read one lock after the other, which
\* nobody can tell but a reload that overlaps); the handler passes its copy of the limits.
LimitsToSaveShown(p) == shown                         \* Fault: the shared reload saves the handler's copy
LimitsToSave(p) == IF round[p] = 1 THEN limits ELSE shown
Peek(p) ==
    /\ at[p] = "peek"
    /\ payload' = [payload EXCEPT ![p] = [acl |-> acl, limits |-> LimitsToSave(p)]]
    /\ Goes(p, "version")
    /\ UNCHANGED <<up, ask, actions, faults, acl, limits, shown, fresh, last, round, revs, overlap, unsaved>>
    /\ UNCHANGED books /\ UNCHANGED disk

\* A save has ended: the shared reload does not look at its result, the handler does.
Saved(p) ==
    /\ payload' = [payload EXCEPT ![p] = Nil] /\ last' = [last EXCEPT ![p] = 0]
    /\ CASE round[p] = 1 /\ p = Watcher -> Goes(p, "idle")
         [] round[p] = 1 /\ p # Watcher -> Goes(p, "show")
         [] round[p] = 2 -> Goes(p, "record")
SaveFailed(p) == IF round[p] = 1 THEN Saved(p)
                 ELSE /\ payload' = [payload EXCEPT ![p] = Nil] /\ last' = [last EXCEPT ![p] = 0]
                      /\ End(p, "error")

\* ConfigRevisionRepo.Create: the latest version is read, and the next one inserted, under a
\* unique index.
Versions == {v.version : v \in revs}
LastVersion(p) ==
    /\ at[p] = "version"
    /\ \/ last' = [last EXCEPT ![p] = Max(Versions \cup {0})] /\ Goes(p, "insert") /\ UNCHANGED <<payload, faults>>
       \/ Fails /\ SaveFailed(p)
    /\ UNCHANGED <<up, ask, actions, acl, limits, shown, fresh, round, revs, overlap, unsaved>>
    /\ UNCHANGED books /\ UNCHANGED disk

Revision(p) == [version |-> last[p] + 1, by |-> IF round[p] = 1 THEN Watcher ELSE p,
                acl |-> payload[p].acl, limits |-> payload[p].limits]
Insert(p) ==
    /\ at[p] = "insert"
    /\ LET Inserted == /\ last[p] + 1 \notin Versions
                       /\ revs' = revs \cup {Revision(p)} /\ unsaved' = FALSE
       IN \/ Inserted /\ Saved(p) /\ UNCHANGED faults
          \/ last[p] + 1 \in Versions /\ SaveFailed(p) /\ UNCHANGED <<revs, unsaved, faults>>
          \/ Fails /\ (Inserted \/ UNCHANGED <<revs, unsaved>>) /\ SaveFailed(p)
    /\ UNCHANGED <<up, ask, actions, acl, limits, shown, fresh, round, overlap>>
    /\ UNCHANGED books /\ UNCHANGED disk

----------------------------------------------------------------------------
(* The file, the watcher and the process.                                   *)

\* The file is changed, or replaced by one whose mtime is no later (a copy, or within the
\* same tick of the clock).  The watcher will read it if its mtime is later than the one it
\* knows, or it is about to read the file anyway.
Edit(c) ==
    /\ c # file.content /\ edits < MaxEdits /\ edits' = edits + 1
    /\ \E m \in 1 .. file.mtime + 1 :
        /\ file' = [content |-> c, mtime |-> m]
        /\ unseen' = (at[Watcher] = "off" \/ (at[Watcher] # "load" /\ m <= watched))
    /\ UNCHANGED <<up, at, ask, told, actions, faults, watched>> /\ UNCHANGED books /\ UNCHANGED config

\* main: the file is loaded, and no revision is made of it; with a bad one the process does
\* not start.
Start ==
    /\ ~up /\ file.content # Bad
    /\ up' = TRUE /\ acl' = file.content /\ limits' = file.content /\ shown' = file.content
    /\ at' = [at EXCEPT ![Watcher] = "off"]
    /\ overlap' = FALSE /\ unseen' = FALSE /\ unsaved' = TRUE
    /\ UNCHANGED <<ask, told, actions, faults, fresh, payload, last, round, revs, file, edits, watched>>
    /\ UNCHANGED books

\* watchConfig: what it finds first it takes to be what is in force.
Watch ==
    /\ at[Watcher] = "off"
    /\ watched' = file.mtime /\ Goes(Watcher, "idle")
    /\ UNCHANGED <<up, ask, actions, faults, file, edits, unseen>> /\ UNCHANGED books /\ UNCHANGED config

\* Every 15 seconds; the mtime is known before the file is read.
Notice ==
    /\ at[Watcher] = "idle" /\ file.mtime > watched
    /\ watched' = file.mtime
    /\ Goes(Watcher, "load")
    /\ UNCHANGED <<up, ask, actions, faults, file, edits, unseen>> /\ UNCHANGED books /\ UNCHANGED config

\* The process dies, and everything under way with it.
Crash ==
    /\ up /\ Fails /\ up' = FALSE
    /\ at' = [p \in Proc |-> IF p = Watcher THEN "down" ELSE IF at[p] = "idle" THEN "idle" ELSE "over"]
    /\ acl' = None /\ limits' = None /\ shown' = None
    /\ fresh' = [p \in Proc |-> None] /\ payload' = [p \in Proc |-> Nil] /\ last' = [p \in Proc |-> 0]
    /\ UNCHANGED <<ask, told, actions, round, revs, overlap, unsaved>> /\ UNCHANGED books /\ UNCHANGED disk

----------------------------------------------------------------------------
Init ==
    /\ file = [content |-> Shipped, mtime |-> 1]
    /\ up = FALSE /\ acl = None /\ limits = None /\ shown = None /\ watched = 0
    /\ at = [p \in Proc |-> IF p = Watcher THEN "down" ELSE "idle"]
    /\ ask = [r \in Request |-> None] /\ told = [r \in Request |-> "none"]
    /\ ticket = [d \in Diff |-> [status |-> "open", assignee |-> None, closedBy |-> None]]
    /\ events = {} /\ actions = {} /\ copy = [r \in Request |-> None] /\ stale = {}
    /\ fresh = [p \in Proc |-> None] /\ payload = [p \in Proc |-> Nil]
    /\ last = [p \in Proc |-> 0] /\ round = [p \in Proc |-> 1] /\ revs = {}
    /\ edits = 0 /\ faults = 0 /\ overlap = FALSE /\ unseen = FALSE /\ unsaved = TRUE

Handles(r) == Read(r) \/ Update(r) \/ Event(r) \/ Record(r)
Reloads(p) ==
    \/ Load(p) \/ ReplaceACL(p) \/ ReplaceLimits(p) \/ Show(p) \/ Peek(p)
    \/ LastVersion(p) \/ Insert(p)

Next ==
    \/ \E r \in Request : Arrive(r) \/ Handles(r)
    \/ \E p \in Proc : Reloads(p)
    \/ \E c \in Content : Edit(c)
    \/ Start \/ Watch \/ Notice \/ Crash

\* The process is restarted, its goroutines run, and statements end.
Fairness == WF_vars(Start) /\ WF_vars(Watch) /\ WF_vars(Notice) /\ \A p \in Proc : WF_vars(Reloads(p))
Spec == Init /\ [][Next]_vars /\ Fairness

----------------------------------------------------------------------------
(* Properties.                                                              *)

\* What the documentation lets a role do to tickets and to the configuration (docs/03,
\* section 1).
MayCorrect == {"admin", "correction", None}
MayReload == {"admin", "jobs", None}

\* ResolveDiff, AssignDiff: whatever requests read and write back the same ticket, and
\* whatever fails: a closed ticket names one whose role may close it, and has its event
\* unless that one still runs, was told an error, or died; and when somebody was told that
\* it is closed, it is, unless an assignment that had read it open was written afterwards.
\* Nothing is on the record of operators' actions that is not in the tables.
TicketsOnRecord ==
    /\ \A d \in Diff : ticket[d].status = "resolved" =>
        LET r == ticket[d].closedBy IN
        /\ r # None /\ ask[r].kind = "resolve" /\ ask[r].role \in MayCorrect /\ ask[r].tenant = Owner[d]
        /\ told[r] = "ok" \/ at[r] = "record" => [diff |-> d, action |-> "resolve", by |-> r] \in events
    /\ \A r \in Request : told[r] = "ok" /\ ask[r].kind = "resolve" =>
        ticket[ask[r].diff].status = "resolved" \/ ask[r].diff \in stale
    /\ \A r \in actions :
        /\ ask[r].kind = "resolve" => \E e \in events : e.by = r /\ e.action = "resolve"
        /\ ask[r].kind = "reload" => \E v \in revs : v.by = r

\* reload, SaveConfigRevision: versions count the revisions, however many processes save at
\* once; and when nobody reloads, and no two have reloaded at once since the start, the rules
\* in force are of one file, and what the latest revision says unless its save has failed.
InForceRecorded ==
    /\ Versions = 1 .. Cardinality(revs)
    /\ \A v \in revs : v.by # Watcher => ask[v.by].role \in MayReload
    /\ up /\ ~overlap /\ (\A p \in Proc : at[p] \notin Reloading) =>
        /\ acl = limits
        /\ ~unsaved => \E v \in revs :
              v.version = Max(Versions) /\ v.acl = acl /\ v.limits = limits

\* watchConfig: a good file that is left alone comes into force, whatever crashes, unless
\* reloads overlapped, or nobody has read it and the watcher sees nothing new in it, as it
\* was changed before the watcher's first look, has an mtime no later than the one the
\* watcher knows, or could not be read when the watcher tried.
FileTakesEffect ==
    <>[](file.content = Bad \/ overlap \/ unseen \/ (acl = file.content /\ limits = file.content))
=============================================================================
