---------------------------- MODULE ConsoleProofs ----------------------------
(***************************************************************************)
(* Proofs about Console: what is on record of the tickets and of operators' *)
(* actions, and that the rules in force are those of the latest revision.   *)
(***************************************************************************)
EXTENDS Console, FiniteSetTheorems, TLAPS

----------------------------------------------------------------------------
(* The invariant.                                                           *)

Places == {"off", "down", "idle", "load", "read", "update", "event", "record", "over"} \cup Reloading
Arrived(r) == at[r] # "idle"

Shape ==
    /\ at \in [Proc -> Places]
    /\ told \in [Request -> {"none", "ok", "denied", "not_found", "error"}]
    /\ ask = [r \in Request |-> ask[r]] /\ copy = [r \in Request |-> copy[r]]
    /\ round \in [Proc -> {1, 2}]
    /\ ticket \in [Diff -> Ticket]
    /\ actions \subseteq Request

\* A request that has arrived is one it may be, and is at a place of its kind that its role
\* may reach; what it has read of a ticket is of its own tenant.
OnItsWay(r) ==
    /\ Arrived(r) => ask[r] \in Ask[r]
    /\ ~Arrived(r) => told[r] = "none" /\ r \notin actions
    /\ told[r] = "ok" \/ r \in actions => at[r] = "over"
    /\ at[r] \in {"read", "update", "event"} =>
         ask[r].kind \in {"assign", "resolve"} /\ ConsoleAllowed(ask[r].role, ask[r].kind)
    /\ at[r] \in {"update", "event"} => Owner[ask[r].diff] = ask[r].tenant
    /\ at[r] \in {"load"} \cup Reloading => ask[r].kind = "reload"
    /\ at[r] = "update" => copy[r] \in Ticket

\* Who may close ticket d, and has asked to.
Closer(r, d) ==
    /\ r \in Request /\ Arrived(r)
    /\ ask[r].kind = "resolve" /\ ask[r].role \in MayCorrect
    /\ ask[r].tenant = Owner[d] /\ ask[r].diff = d

Closed == \A d \in Diff : ticket[d].status = "resolved" => Closer(ticket[d].closedBy, d)
ReadClosed(r) == at[r] = "update" /\ copy[r].status = "resolved" => Closer(copy[r].closedBy, ask[r].diff)

\* A request that has come to the record of actions, or beyond, has its event or revision.
HasEvent(r) == [diff |-> ask[r].diff, action |-> "resolve", by |-> r] \in events
Recorded(r) ==
    /\ ask[r].kind = "resolve" /\ (at[r] = "record" \/ told[r] = "ok" \/ r \in actions) => HasEvent(r)
    /\ ask[r].kind = "reload" /\ (at[r] = "record" \/ r \in actions) => \E v \in revs : v.by = r

\* A ticket that somebody has closed is closed, unless it was reopened by a stale assignment.
ClosedOrStale(d) == ticket[d].status = "resolved" \/ d \in stale
StaysClosed(r) ==
    Arrived(r) /\ ask[r].kind = "resolve" /\ (at[r] \in {"event", "record"} \/ told[r] = "ok")
        => ClosedOrStale(ask[r].diff)

Kept(r) == OnItsWay(r) /\ ReadClosed(r) /\ Recorded(r) /\ StaysClosed(r)
ConsoleInv == Shape /\ Closed /\ \A r \in Request : Kept(r)

LEMMA InvRecords == ConsoleInv => TicketsOnRecord
<1> SUFFICES ASSUME ConsoleInv PROVE TicketsOnRecord OBVIOUS
<1> USE ConsoleAssumption
<1>1. ASSUME NEW d \in Diff, ticket[d].status = "resolved", NEW r, r = ticket[d].closedBy
      PROVE  /\ r # None /\ ask[r].kind = "resolve" /\ ask[r].role \in MayCorrect /\ ask[r].tenant = Owner[d]
             /\ told[r] = "ok" \/ at[r] = "record" => [diff |-> d, action |-> "resolve", by |-> r] \in events
  <2>1. Closer(r, d) BY <1>1 DEF ConsoleInv, Closed
  <2>2. r \in Request /\ Recorded(r) BY <2>1 DEF Closer, ConsoleInv, Kept
  <2> QED BY <2>1, <2>2 DEF Closer, Recorded, HasEvent
<1>2. ASSUME NEW r \in Request, told[r] = "ok", ask[r].kind = "resolve"
      PROVE  ticket[ask[r].diff].status = "resolved" \/ ask[r].diff \in stale
  BY <1>2 DEF ConsoleInv, Kept, OnItsWay, StaysClosed, ClosedOrStale
<1>3. ASSUME NEW r \in actions
      PROVE  /\ ask[r].kind = "resolve" => \E e \in events : e.by = r /\ e.action = "resolve"
             /\ ask[r].kind = "reload" => \E v \in revs : v.by = r
  <2>1. r \in Request BY DEF ConsoleInv, Shape
  <2>2. Recorded(r) BY <2>1 DEF ConsoleInv, Kept
  <2>3. ASSUME ask[r].kind = "resolve" PROVE \E e \in events : e.by = r /\ e.action = "resolve"
    <3>1. [diff |-> ask[r].diff, action |-> "resolve", by |-> r] \in events
      BY <2>2, <2>3 DEF Recorded, HasEvent
    <3> QED BY <3>1
  <2> QED BY <2>2, <2>3 DEF Recorded
<1> QED BY <1>1, <1>2, <1>3 DEF TicketsOnRecord

----------------------------------------------------------------------------
(* Steps.                                                                   *)

\* The requests that do not move keep what they have, whatever others add to the tables.
LEMMA Moves ==
    ASSUME ConsoleInv, Shape', NEW R \in SUBSET Request,
           \A q \in Request \ R :
               /\ at'[q] = at[q] /\ told'[q] = told[q] /\ ask'[q] = ask[q] /\ copy'[q] = copy[q]
               /\ q \in actions' <=> q \in actions,
           \A q \in R : Arrived(q)' /\ (Arrived(q) => ask'[q] = ask[q]),
           events \subseteq events', revs \subseteq revs',
           \A d \in Diff : ClosedOrStale(d) => ClosedOrStale(d)',
           \A d \in Diff : ticket'[d].status = "resolved" =>
               \/ ticket[d].status = "resolved" /\ ticket'[d].closedBy = ticket[d].closedBy
               \/ Closer(ticket[d].closedBy, d)',
           \A q \in R : Kept(q)'
    PROVE  ConsoleInv'
<1> USE ConsoleAssumption
<1>1. ASSUME NEW q, NEW d, Closer(q, d) PROVE Closer(q, d)'
  <2>1. q \in Request /\ Arrived(q) BY <1>1 DEF Closer
  <2>2. Arrived(q)' /\ ask'[q] = ask[q]
    <3>1. CASE q \in R BY <2>1, <3>1
    <3>2. CASE q \notin R
      <4>1. at'[q] = at[q] /\ ask'[q] = ask[q] BY <2>1, <3>2
      <4> QED BY <2>1, <4>1 DEF Arrived
    <3> QED BY <3>1, <3>2
  <2> QED BY <1>1, <2>2 DEF Closer
<1>2. Closed'
  <2> SUFFICES ASSUME NEW d \in Diff, ticket'[d].status = "resolved" PROVE Closer(ticket[d].closedBy, d)'
    BY DEF Closed
  <2>1. PICK q : q = ticket'[d].closedBy OBVIOUS
  <2>2. Closer(q, d) => Closer(q, d)' BY <1>1
  <2>3. Closer(q, d)'
    <3>1. CASE ticket[d].status = "resolved" /\ q = ticket[d].closedBy
      <4>1. Closer(q, d) BY <3>1 DEF ConsoleInv, Closed
      <4> QED BY <2>2, <4>1
    <3>2. CASE Closer(ticket[d].closedBy, d)'
      BY <2>1, <3>2 DEF Closer
    <3> QED BY <2>1, <3>1, <3>2
  <2> QED BY <2>1, <2>3 DEF Closer
<1>3. ASSUME NEW q \in Request \ R PROVE Kept(q)'
  <2>1. /\ at'[q] = at[q] /\ told'[q] = told[q] /\ ask'[q] = ask[q] /\ copy'[q] = copy[q]
        /\ q \in actions' <=> q \in actions
    OBVIOUS
  <2>2. OnItsWay(q) /\ ReadClosed(q) /\ Recorded(q) /\ StaysClosed(q) BY DEF ConsoleInv, Kept
  <2>3. OnItsWay(q)' BY <2>1, <2>2 DEF OnItsWay, Arrived
  <2>4. ReadClosed(q)'
    <3> SUFFICES ASSUME at[q] = "update", copy[q].status = "resolved"
                 PROVE  Closer(copy[q].closedBy, ask[q].diff)'
      BY <2>1 DEF ReadClosed
    <3>1. PICK c, d : c = copy[q].closedBy /\ d = ask[q].diff OBVIOUS
    <3>2. Closer(c, d)' BY <1>1, <2>2, <3>1 DEF ReadClosed
    <3> QED BY <2>1, <3>1, <3>2 DEF Closer
  <2>5. Recorded(q)' BY <2>1, <2>2 DEF Recorded, HasEvent
  <2>6. StaysClosed(q)'
    <3> SUFFICES ASSUME Arrived(q), ask[q].kind = "resolve", at[q] \in {"event", "record"} \/ told[q] = "ok"
                 PROVE  ClosedOrStale(ask[q].diff)'
      BY <2>1 DEF StaysClosed, Arrived
    <3>1. PICK d : d = ask[q].diff OBVIOUS
    <3>2. d \in Diff BY <2>2, <3>1 DEF OnItsWay
    <3>3. ClosedOrStale(d)' BY <2>2, <3>1, <3>2 DEF StaysClosed
    <3> QED BY <2>1, <3>1, <3>3 DEF ClosedOrStale
  <2> QED BY <2>3, <2>4, <2>5, <2>6 DEF Kept
<1>4. \A q \in Request : Kept(q)' BY <1>3
<1> QED BY <1>2, <1>4 DEF ConsoleInv

\* What a step that touches no request leaves.
LEMMA Quiet ==
    ASSUME ConsoleInv, \E x \in Places : at' = [at EXCEPT ![Watcher] = x], UNCHANGED books,
           ask' = ask, told' = told, actions' = actions, revs' = revs, round' \in [Proc -> {1, 2}]
    PROVE  ConsoleInv'
<1> USE ConsoleAssumption
<1>1. ticket' = ticket /\ copy' = copy /\ events' = events /\ stale' = stale BY DEF books
<1>2. at' \in [Proc -> Places] /\ \A q \in Request : at'[q] = at[q]
  BY DEF ConsoleInv, Shape, Proc
<1>3. Shape' BY <1>1, <1>2 DEF ConsoleInv, Shape
<1>4. \A d \in Diff : ClosedOrStale(d) => ClosedOrStale(d)' BY <1>1 DEF ClosedOrStale
<1> DEFINE R == {}
<1>5. /\ R \in SUBSET Request
      /\ \A q \in Request \ R :
             /\ at'[q] = at[q] /\ told'[q] = told[q] /\ ask'[q] = ask[q] /\ copy'[q] = copy[q]
             /\ q \in actions' <=> q \in actions
      /\ \A q \in R : Arrived(q)' /\ (Arrived(q) => ask'[q] = ask[q])
      /\ \A q \in R : Kept(q)'
      /\ events \subseteq events' /\ revs \subseteq revs'
  BY <1>1, <1>2
<1>6. \A d \in Diff : ticket'[d].status = "resolved" =>
          ticket[d].status = "resolved" /\ ticket'[d].closedBy = ticket[d].closedBy
  BY <1>1
<1> HIDE DEF R
<1> QED BY <1>3, <1>4, <1>5, <1>6, Moves

\* One request moves, and at most the ticket it is about is written.
LEMMA OneMoves ==
    ASSUME ConsoleInv, Shape', NEW r \in Request,
           \A q \in Request : q # r =>
               /\ at'[q] = at[q] /\ told'[q] = told[q] /\ ask'[q] = ask[q] /\ copy'[q] = copy[q]
               /\ q \in actions' <=> q \in actions,
           Arrived(r)', Arrived(r) => ask'[r] = ask[r],
           events \subseteq events', revs \subseteq revs',
           \A d \in Diff : ClosedOrStale(d) => ClosedOrStale(d)',
           \A d \in Diff : ticket'[d].status = "resolved" =>
               \/ ticket[d].status = "resolved" /\ ticket'[d].closedBy = ticket[d].closedBy
               \/ Closer(ticket[d].closedBy, d)',
           Kept(r)'
    PROVE  ConsoleInv'
<1> DEFINE R == {r}
<1>1. /\ R \in SUBSET Request
      /\ \A q \in Request \ R :
            /\ at'[q] = at[q] /\ told'[q] = told[q] /\ ask'[q] = ask[q] /\ copy'[q] = copy[q]
            /\ q \in actions' <=> q \in actions
  OBVIOUS
<1>2. \A q \in R : Arrived(q)' /\ (Arrived(q) => ask'[q] = ask[q])
  BY DEF Arrived
<1>3. \A q \in R : Kept(q)' OBVIOUS
<1> HIDE DEF R
<1> QED BY <1>1, <1>2, <1>3, Moves

LEMMA ArriveKept == ASSUME ConsoleInv, NEW r \in Request, Arrive(r) PROVE ConsoleInv'
<1> USE ConsoleAssumption
<1>1. PICK a \in Ask[r] :
        /\ ask' = [ask EXCEPT ![r] = a]
        /\ IF ConsoleAllowed(a.role, a.kind) THEN Goes(r, First(a.kind)) ELSE End(r, "denied")
  BY DEF Arrive
<1>2. /\ ticket' = ticket /\ copy' = copy /\ events' = events /\ stale' = stale /\ revs' = revs
      /\ actions' = actions /\ round' = round
  BY DEF Arrive, books, config
<1>3. at[r] = "idle" /\ told[r] = "none" /\ r \notin actions /\ r \in Proc
  BY DEF Arrive, ConsoleInv, Kept, OnItsWay, Arrived, Proc
<1>4. PICK x \in {"load", "read", "over"} : at' = [at EXCEPT ![r] = x]
  BY <1>1 DEF Goes, End, First
<1>5. at'[r] = x /\ at' \in [Proc -> Places] /\ \A q \in Request : q # r => at'[q] = at[q]
  BY <1>3, <1>4 DEF ConsoleInv, Shape, Places, Proc
<1>6. ask'[r] = a /\ (\A q \in Request : q # r => ask'[q] = ask[q]) /\ ask' = [q \in Request |-> ask'[q]]
  BY <1>1 DEF ConsoleInv, Shape
<1>7. told' \in {told, [told EXCEPT ![r] = "denied"]}
  BY <1>1 DEF Goes, End
<1>8. Shape' BY <1>2, <1>5, <1>6, <1>7 DEF ConsoleInv, Shape
<1>9. /\ x \in {"load", "read"} => ConsoleAllowed(a.role, a.kind) /\ x = First(a.kind)
      /\ told'[r] \in {"none", "denied"} /\ \A q \in Request : q # r => told'[q] = told[q]
  <2>1. at[r] = "idle" /\ r \in Proc BY <1>3
  <2>2. CASE ConsoleAllowed(a.role, a.kind) BY <1>1, <1>3, <1>5, <2>2 DEF Goes, ConsoleInv, Shape
  <2>3. CASE ~ConsoleAllowed(a.role, a.kind)
    BY <1>1, <1>3, <1>5, <2>3 DEF End, ConsoleInv, Shape
  <2> QED BY <2>2, <2>3
<1>10. /\ x = "load" => a.kind = "reload"
       /\ x = "read" => a.kind \in {"assign", "resolve"}
  BY <1>9 DEF First
<1>11. Kept(r)'
  <2>1. OnItsWay(r)'
    BY <1>2, <1>3, <1>5, <1>6, <1>9, <1>10 DEF OnItsWay, Arrived, Reloading
  <2>2. ReadClosed(r)' /\ Recorded(r)' /\ StaysClosed(r)'
    BY <1>2, <1>3, <1>5, <1>9 DEF ReadClosed, Recorded, StaysClosed
  <2> QED BY <2>1, <2>2 DEF Kept
<1>12. \A d \in Diff : ClosedOrStale(d) => ClosedOrStale(d)' BY <1>2 DEF ClosedOrStale
<1>13. /\ \A q \in Request : q # r =>
             /\ at'[q] = at[q] /\ told'[q] = told[q] /\ ask'[q] = ask[q] /\ copy'[q] = copy[q]
             /\ q \in actions' <=> q \in actions
       /\ Arrived(r)' /\ ~Arrived(r)
  BY <1>2, <1>3, <1>4, <1>5, <1>6, <1>9 DEF Arrived
<1>14. /\ events \subseteq events' /\ revs \subseteq revs'
       /\ \A d \in Diff : ticket'[d].status = "resolved" =>
             ticket[d].status = "resolved" /\ ticket'[d].closedBy = ticket[d].closedBy
  BY <1>2
<1> QED BY <1>8, <1>11, <1>12, <1>13, <1>14, OneMoves

\* A request at work on a ticket is a closing or an assignment; where it goes and what it
\* answers change nothing for the others.
LEMMA Going ==
    ASSUME ConsoleInv, NEW r \in Request, Arrived(r), NEW x \in Places,
           \/ Goes(r, x)
           \/ x = "over" /\ \E answer \in {"ok", "denied", "not_found", "error"} : End(r, answer)
    PROVE  /\ at' \in [Proc -> Places] /\ at'[r] = x
           /\ told' \in [Request -> {"none", "ok", "denied", "not_found", "error"}]
           /\ \A q \in Request : q # r => at'[q] = at[q] /\ told'[q] = told[q]
BY DEF ConsoleInv, Shape, Goes, End, Proc

LEMMA ReadKept == ASSUME ConsoleInv, NEW r \in Request, Read(r) PROVE ConsoleInv'
<1> USE ConsoleAssumption
<1>1. /\ ticket' = ticket /\ events' = events /\ stale' = stale /\ revs' = revs /\ actions' = actions
      /\ round' = round /\ ask' = ask
  BY DEF Read, config
<1>2. /\ at[r] = "read" /\ OnItsWay(r) /\ Arrived(r) /\ ask[r] \in Ask[r] /\ ask[r].diff \in Diff
      /\ ask[r].kind \in {"assign", "resolve"} /\ ConsoleAllowed(ask[r].role, ask[r].kind)
      /\ told[r] # "ok" /\ r \notin actions
  BY DEF Read, ConsoleInv, Kept, OnItsWay, Arrived
<1>3. PICK x \in {"update", "over"} :
        \/ x = "update" /\ Goes(r, x) /\ Owner[ask[r].diff] = ask[r].tenant
           /\ copy' = [copy EXCEPT ![r] = ticket[ask[r].diff]]
        \/ x = "over" /\ copy' = copy /\ (End(r, "not_found") \/ End(r, "error"))
  BY DEF Read
<1>4. x \in Places BY DEF Places
<1>5. /\ at' \in [Proc -> Places] /\ at'[r] = x
      /\ told' \in [Request -> {"none", "ok", "denied", "not_found", "error"}]
      /\ \A q \in Request : q # r => at'[q] = at[q] /\ told'[q] = told[q]
  BY <1>2, <1>3, <1>4, Going
<1>6. told'[r] # "ok" BY <1>2, <1>3 DEF Goes, End, ConsoleInv, Shape
<1>7. /\ copy' = [q \in Request |-> copy'[q]] /\ \A q \in Request : q # r => copy'[q] = copy[q]
      /\ x = "update" => copy'[r] = ticket[ask[r].diff]
  BY <1>3 DEF ConsoleInv, Shape
<1>8. Shape' BY <1>1, <1>5, <1>7 DEF ConsoleInv, Shape
<1>9. OnItsWay(r)'
  <2>1. x = "update" => copy'[r] \in Ticket BY <1>2, <1>7 DEF ConsoleInv, Shape
  <2> QED BY <1>1, <1>2, <1>3, <1>5, <1>6, <2>1 DEF OnItsWay, Arrived, Reloading
<1>10. ReadClosed(r)'
  <2> SUFFICES ASSUME at'[r] = "update", copy'[r].status = "resolved"
               PROVE  Closer(copy[r].closedBy, ask[r].diff)'
    BY DEF ReadClosed
  <2>1. PICK d \in Diff : d = ask[r].diff BY <1>2
  <2>2. PICK c : c = ticket[d].closedBy OBVIOUS
  <2>3. Closer(c, d) BY <1>5, <1>7, <2>1, <2>2 DEF ConsoleInv, Closed
  <2>4. Closer(c, d)'
    <3>1. at'[c] # "idle" BY <1>2, <1>5, <2>3 DEF Closer, Arrived
    <3> QED BY <1>1, <2>3, <3>1 DEF Closer, Arrived
  <2>5. copy'[r].closedBy = c /\ ask'[r].diff = d BY <1>1, <1>5, <1>7, <2>1, <2>2
  <2> QED BY <2>4, <2>5 DEF Closer
<1>11. Recorded(r)' /\ StaysClosed(r)'
  BY <1>1, <1>2, <1>3, <1>5, <1>6 DEF Recorded, StaysClosed
<1>12. Kept(r)' BY <1>9, <1>10, <1>11 DEF Kept
<1>13. \A d \in Diff : ClosedOrStale(d) => ClosedOrStale(d)' BY <1>1 DEF ClosedOrStale
<1>14. Arrived(r)' BY <1>5 DEF Arrived
<1>15. /\ \A q \in Request : q # r =>
             /\ at'[q] = at[q] /\ told'[q] = told[q] /\ ask'[q] = ask[q] /\ copy'[q] = copy[q]
             /\ q \in actions' <=> q \in actions
       /\ ask'[r] = ask[r] /\ events \subseteq events' /\ revs \subseteq revs'
       /\ \A d \in Diff : ticket'[d].status = "resolved" =>
             ticket[d].status = "resolved" /\ ticket'[d].closedBy = ticket[d].closedBy
  BY <1>1, <1>5, <1>7
<1> QED BY <1>8, <1>12, <1>13, <1>14, <1>15, OneMoves

\* UpdateDiff writes what the request made of the ticket it had read: closed by one who may,
\* or as closed as it was then.
LEMMA UpdateKept == ASSUME ConsoleInv, NEW r \in Request, Update(r) PROVE ConsoleInv'
<1> USE ConsoleAssumption
<1>1. /\ copy' = copy /\ events' = events /\ revs' = revs /\ actions' = actions
      /\ round' = round /\ ask' = ask
  BY DEF Update, config
<1>2. /\ at[r] = "update" /\ OnItsWay(r) /\ Arrived(r) /\ ask[r] \in Ask[r] /\ ask[r].diff \in Diff
      /\ ask[r].kind \in {"assign", "resolve"} /\ ConsoleAllowed(ask[r].role, ask[r].kind)
      /\ told[r] # "ok" /\ r \notin actions /\ Owner[ask[r].diff] = ask[r].tenant
      /\ copy[r] \in Ticket /\ ReadClosed(r)
  BY DEF Update, ConsoleInv, Kept, OnItsWay, Arrived
<1>3. PICK b \in Diff : b = ask[r].diff BY <1>2
<1>4. PICK w \in BOOLEAN :
        w = (/\ ticket' = [ticket EXCEPT ![b] = Changed(r)]
             /\ stale' = IF ticket[b].status = "resolved" /\ copy[r].status = "open" /\ ask[r].kind = "assign"
                         THEN stale \cup {b}
                         ELSE IF ask[r].kind = "resolve" THEN stale \ {b} ELSE stale)
  OBVIOUS
<1>5. PICK x \in {"event", "over"} :
        \/ x = "event" /\ w /\ Goes(r, x)
        \/ x = "over" /\ (w \/ (ticket' = ticket /\ stale' = stale)) /\ End(r, "error")
  BY <1>3, <1>4 DEF Update
<1>6. x \in Places BY DEF Places
<1>7. /\ at' \in [Proc -> Places] /\ at'[r] = x
      /\ told' \in [Request -> {"none", "ok", "denied", "not_found", "error"}]
      /\ \A q \in Request : q # r => at'[q] = at[q] /\ told'[q] = told[q]
  BY <1>2, <1>5, <1>6, Going
<1>8. told'[r] # "ok" BY <1>2, <1>5 DEF Goes, End, ConsoleInv, Shape
<1>9. /\ Changed(r) \in Ticket
      /\ ask[r].kind = "resolve" => Changed(r).status = "resolved" /\ Changed(r).closedBy = r
      /\ ask[r].kind = "assign" => Changed(r).status = copy[r].status /\ Changed(r).closedBy = copy[r].closedBy
  BY <1>2 DEF Changed, Ticket
<1>10. /\ ticket' \in [Diff -> Ticket]
       /\ \A d \in Diff : d # b => ticket'[d] = ticket[d]
       /\ w => ticket'[b] = Changed(r)
       /\ ~w => ticket' = ticket /\ stale' = stale
  BY <1>4, <1>5, <1>9 DEF ConsoleInv, Shape
<1>11. Shape' BY <1>1, <1>7, <1>10 DEF ConsoleInv, Shape
<1>12. ASSUME NEW q, NEW d, Closer(q, d) PROVE Closer(q, d)'
  <2>1. at'[q] # "idle" BY <1>2, <1>7, <1>12 DEF Closer, Arrived
  <2> QED BY <1>1, <1>12, <2>1 DEF Closer, Arrived
<1>13. ASSUME NEW d \in Diff, ticket'[d].status = "resolved"
       PROVE  \/ ticket[d].status = "resolved" /\ ticket'[d].closedBy = ticket[d].closedBy
              \/ Closer(ticket[d].closedBy, d)'
  <2>1. CASE ~(d = b /\ w)
    <3>1. ticket'[d] = ticket[d]
      <4>1. CASE d # b BY <1>10, <4>1
      <4>2. CASE ~w BY <1>10, <4>2
      <4> QED BY <2>1, <4>1, <4>2
    <3> QED BY <1>13, <3>1
  <2>2. CASE d = b /\ w
    <3>1. PICK c : c = Changed(r).closedBy OBVIOUS
    <3>2. ticket'[d].closedBy = c /\ Changed(r).status = "resolved" BY <1>10, <1>13, <2>2, <3>1
    <3>3. CASE ask[r].kind = "resolve"
      <4>1. c = r /\ ask[r].role \in MayCorrect
        <5>1. ask[r].role \in {"admin", "readonly", "correction", "jobs", None} BY <1>2
        <5> QED BY <1>2, <1>9, <3>1, <3>3, <5>1 DEF ConsoleAllowed, Normalized, MayCorrect,
                CorrectionWrites, JobsWrites
      <4>2. Closer(r, b) BY <1>2, <1>3, <3>3, <4>1 DEF Closer
      <4>3. Closer(r, b)' BY <1>12, <4>2
      <4> QED BY <2>2, <3>2, <4>1, <4>3 DEF Closer
    <3>4. CASE ask[r].kind = "assign"
      <4>1. copy[r].status = "resolved" /\ c = copy[r].closedBy BY <1>9, <3>1, <3>2, <3>4
      <4>2. Closer(c, b) BY <1>2, <1>3, <4>1 DEF ReadClosed
      <4>3. Closer(c, b)' BY <1>12, <4>2
      <4> QED BY <2>2, <3>2, <4>3 DEF Closer
    <3> QED BY <1>2, <3>3, <3>4
  <2> QED BY <2>1, <2>2
<1>14. ASSUME NEW d \in Diff, ClosedOrStale(d) PROVE ClosedOrStale(d)'
  <2>1. CASE ~w BY <1>10, <1>14, <2>1 DEF ClosedOrStale
  <2>2. CASE w
    <3>1. CASE d # b BY <1>4, <1>10, <1>14, <2>2, <3>1 DEF ClosedOrStale
    <3>2. CASE d = b /\ ask[r].kind = "resolve" BY <1>9, <1>10, <2>2, <3>2 DEF ClosedOrStale
    <3>3. CASE d = b /\ ask[r].kind = "assign"
      <4>1. copy[r].status = "open" \/ ticket'[b].status = "resolved"
        BY <1>2, <1>9, <1>10, <2>2, <3>3 DEF Ticket
      <4> QED BY <1>4, <1>14, <2>2, <3>3, <4>1 DEF ClosedOrStale
    <3> QED BY <1>2, <3>1, <3>2, <3>3
  <2> QED BY <2>1, <2>2
<1>15. Kept(r)'
  <2>1. OnItsWay(r)' BY <1>1, <1>2, <1>5, <1>7, <1>8 DEF OnItsWay, Arrived, Reloading
  <2>2. ReadClosed(r)' /\ Recorded(r)' BY <1>1, <1>2, <1>5, <1>7, <1>8 DEF ReadClosed, Recorded
  <2>3. StaysClosed(r)'
    <3> SUFFICES ASSUME ask[r].kind = "resolve", at'[r] = "event" PROVE ClosedOrStale(ask[r].diff)'
      BY <1>1, <1>5, <1>7, <1>8 DEF StaysClosed
    <3>1. ticket'[b].status = "resolved" BY <1>5, <1>7, <1>9, <1>10
    <3> QED BY <1>1, <1>3, <3>1 DEF ClosedOrStale
  <2> QED BY <2>1, <2>2, <2>3 DEF Kept
<1>16. Arrived(r)' BY <1>7 DEF Arrived
<1>17. /\ \A q \in Request : q # r =>
             /\ at'[q] = at[q] /\ told'[q] = told[q] /\ ask'[q] = ask[q] /\ copy'[q] = copy[q]
             /\ q \in actions' <=> q \in actions
       /\ ask'[r] = ask[r] /\ events \subseteq events' /\ revs \subseteq revs'
  BY <1>1, <1>7
<1> QED BY <1>11, <1>13, <1>14, <1>15, <1>16, <1>17, OneMoves

\* The event, and the record of the action.
LEMMA LastKept == ASSUME ConsoleInv, NEW r \in Request, Event(r) \/ Record(r) PROVE ConsoleInv'
<1> USE ConsoleAssumption
<1>1. /\ copy' = copy /\ ticket' = ticket /\ stale' = stale /\ revs' = revs /\ round' = round /\ ask' = ask
      /\ events \subseteq events'
  BY DEF Event, Record, config, books
<1>2. /\ at[r] \in {"event", "record"} /\ OnItsWay(r) /\ Arrived(r) /\ ask[r] \in Ask[r] /\ ask[r].diff \in Diff
      /\ told[r] # "ok" /\ r \notin actions /\ Recorded(r) /\ StaysClosed(r)
  BY DEF Event, Record, ConsoleInv, Kept, OnItsWay, Arrived
<1>3. PICK x \in {"record", "over"} :
        \/ /\ at[r] = "event" /\ x = "record" /\ Goes(r, x) /\ actions' = actions
           /\ ask[r].kind = "resolve" => HasEvent(r)'
        \/ at[r] = "event" /\ x = "over" /\ End(r, "error") /\ actions' = actions
        \/ at[r] = "record" /\ x = "over" /\ End(r, "ok") /\ actions' \in {actions, actions \cup {r}}
  <2>1. CASE Record(r) BY <2>1 DEF Record
  <2>2. CASE Event(r)
    <3>1. at[r] = "event" /\ actions' = actions BY <2>2 DEF Event
    <3>2. \/ events' = events \cup {[diff |-> ask[r].diff, action |-> ask[r].kind, by |-> r]} /\ Goes(r, "record")
          \/ EventLost(r)
      BY <2>2 DEF Event
    <3>3. CASE EventLost(r) BY <3>1, <3>3 DEF EventLost
    <3>4. CASE events' = events \cup {[diff |-> ask[r].diff, action |-> ask[r].kind, by |-> r]}
               /\ Goes(r, "record")
      <4>1. ask[r].kind = "resolve" => HasEvent(r)' BY <1>1, <3>4 DEF HasEvent
      <4> QED BY <3>1, <3>4, <4>1
    <3> QED BY <3>2, <3>3, <3>4
  <2> QED BY <2>1, <2>2
<1>4. x \in Places BY DEF Places
<1>5. /\ at' \in [Proc -> Places] /\ at'[r] = x
      /\ told' \in [Request -> {"none", "ok", "denied", "not_found", "error"}]
      /\ \A q \in Request : q # r => at'[q] = at[q] /\ told'[q] = told[q]
  BY <1>2, <1>3, <1>4, Going
<1>6. Shape' BY <1>1, <1>3, <1>5 DEF ConsoleInv, Shape
<1>7. told'[r] = "ok" => at[r] = "record" /\ x = "over"
  BY <1>2, <1>3 DEF Goes, End, ConsoleInv, Shape
<1>8. Kept(r)'
  <2>1. OnItsWay(r)' BY <1>1, <1>2, <1>3, <1>5, <1>7 DEF OnItsWay, Arrived, Reloading
  <2>2. ReadClosed(r)' BY <1>5 DEF ReadClosed
  <2>3. HasEvent(r) => HasEvent(r)' BY <1>1 DEF HasEvent
  <2>4. CASE at[r] = "event"
    <3>1. ask[r].kind \in {"assign", "resolve"} BY <1>2, <2>4 DEF OnItsWay
    <3>2. ~(told'[r] = "ok") /\ r \notin actions' BY <1>2, <1>3, <1>7, <2>4
    <3>3. Recorded(r)' BY <1>1, <1>3, <1>5, <2>4, <3>1, <3>2 DEF Recorded
    <3>4. StaysClosed(r)' BY <1>1, <1>2, <2>4, <3>2 DEF StaysClosed, ClosedOrStale
    <3> QED BY <2>1, <2>2, <3>3, <3>4 DEF Kept
  <2>5. CASE at[r] = "record"
    <3>1. Recorded(r)' BY <1>1, <1>2, <2>3, <2>5 DEF Recorded
    <3>2. StaysClosed(r)' BY <1>1, <1>2, <2>5 DEF StaysClosed, ClosedOrStale
    <3> QED BY <2>1, <2>2, <3>1, <3>2 DEF Kept
  <2> QED BY <1>2, <2>4, <2>5
<1>9. Arrived(r)' BY <1>5 DEF Arrived
<1>10. \A d \in Diff : ClosedOrStale(d) => ClosedOrStale(d)' BY <1>1 DEF ClosedOrStale
<1>11. /\ \A q \in Request : q # r =>
             /\ at'[q] = at[q] /\ told'[q] = told[q] /\ ask'[q] = ask[q] /\ copy'[q] = copy[q]
             /\ q \in actions' <=> q \in actions
       /\ ask'[r] = ask[r] /\ revs \subseteq revs'
       /\ \A d \in Diff : ticket'[d].status = "resolved" =>
             ticket[d].status = "resolved" /\ ticket'[d].closedBy = ticket[d].closedBy
  BY <1>1, <1>3, <1>5
<1> QED BY <1>1, <1>6, <1>8, <1>9, <1>10, <1>11, OneMoves

\* A reload says where it goes, and comes to the record of actions with a revision of its own.
LEMMA ReloadGoes ==
    ASSUME ConsoleInv, NEW p \in Proc, Reloads(p)
    PROVE  /\ ticket' = ticket /\ copy' = copy /\ events' = events /\ stale' = stale
           /\ ask' = ask /\ actions' = actions /\ revs \subseteq revs' /\ round' \in [Proc -> {1, 2}]
           /\ at[p] \in {"load"} \cup Reloading
           /\ \E x \in {"idle", "record", "over"} \cup Reloading :
                /\ Goes(p, x) \/ (x = "over" /\ End(p, "error"))
                /\ x = "idle" => p = Watcher
                /\ x = "record" => \E v \in revs' : v.by = p
<1>1. round \in [Proc -> {1, 2}] BY DEF ConsoleInv, Shape
<1>2. CASE Load(p)
  BY <1>1, <1>2 DEF Load, NotLoaded, books, Reloading
<1>3. CASE ReplaceACL(p) \/ ReplaceLimits(p)
  BY <1>1, <1>3 DEF ReplaceACL, ReplaceLimits, books, Reloading
<1>4. CASE Show(p) \/ Peek(p)
  BY <1>1, <1>4 DEF Show, Peek, books, Reloading
<1>5. CASE LastVersion(p)
  <2>1. /\ ticket' = ticket /\ copy' = copy /\ events' = events /\ stale' = stale
        /\ ask' = ask /\ actions' = actions /\ revs' = revs /\ round' = round /\ at[p] = "version"
    BY <1>5 DEF LastVersion, books
  <2>2. CASE Goes(p, "insert") BY <1>1, <2>1, <2>2 DEF Reloading
  <2>3. CASE SaveFailed(p)
    <3>1. CASE round[p] = 1
      <4>1. CASE p = Watcher
        <5>1. Goes(p, "idle") BY <2>3, <3>1, <4>1 DEF SaveFailed, Saved
        <5> QED BY <1>1, <2>1, <4>1, <5>1 DEF Reloading
      <4>2. CASE p # Watcher
        <5>1. Goes(p, "show") BY <2>3, <3>1, <4>2 DEF SaveFailed, Saved
        <5> QED BY <1>1, <2>1, <5>1 DEF Reloading
      <4> QED BY <4>1, <4>2
    <3>2. CASE round[p] # 1
      <4>1. End(p, "error") BY <2>3, <3>2 DEF SaveFailed
      <4> QED BY <1>1, <2>1, <4>1 DEF Reloading
    <3> QED BY <3>1, <3>2
  <2> QED BY <1>5, <2>2, <2>3 DEF LastVersion
<1>6. CASE Insert(p)
  <2>1. /\ ticket' = ticket /\ copy' = copy /\ events' = events /\ stale' = stale
        /\ ask' = ask /\ actions' = actions /\ round' = round /\ at[p] = "insert"
    BY <1>6 DEF Insert, books
  <2>2. \/ Saved(p) /\ revs' = revs \cup {Revision(p)}
        \/ SaveFailed(p) /\ revs \subseteq revs'
    BY <1>6 DEF Insert
  <2>3. revs \subseteq revs' BY <2>2
  <2>4. CASE round[p] = 1
    <3>1. Saved(p) BY <2>2, <2>4 DEF SaveFailed
    <3>2. CASE p = Watcher
      <4>1. Goes(p, "idle") BY <2>4, <3>1, <3>2 DEF Saved
      <4> QED BY <1>1, <2>1, <2>3, <3>2, <4>1 DEF Reloading
    <3>3. CASE p # Watcher
      <4>1. Goes(p, "show") BY <2>4, <3>1, <3>3 DEF Saved
      <4> QED BY <1>1, <2>1, <2>3, <4>1 DEF Reloading
    <3> QED BY <3>2, <3>3
  <2>5. CASE round[p] = 2
    <3>1. CASE SaveFailed(p)
      <4>1. End(p, "error") BY <2>5, <3>1 DEF SaveFailed
      <4> QED BY <1>1, <2>1, <2>3, <4>1 DEF Reloading
    <3>2. CASE Saved(p) /\ revs' = revs \cup {Revision(p)}
      <4>1. Goes(p, "record") BY <2>5, <3>2 DEF Saved
      <4>2. Revision(p).by = p BY <2>5 DEF Revision
      <4>3. \E v \in revs' : v.by = p BY <3>2, <4>2
      <4> QED BY <1>1, <2>1, <2>3, <4>1, <4>3 DEF Reloading
    <3> QED BY <2>2, <3>1, <3>2
  <2> QED BY <1>1, <2>4, <2>5
<1> QED BY <1>2, <1>3, <1>4, <1>5, <1>6 DEF Reloads

LEMMA ReloadsKept == ASSUME ConsoleInv, NEW p \in Proc, Reloads(p) PROVE ConsoleInv'
<1> USE ConsoleAssumption
<1>1. /\ ticket' = ticket /\ copy' = copy /\ events' = events /\ stale' = stale
      /\ ask' = ask /\ actions' = actions /\ revs \subseteq revs' /\ round' \in [Proc -> {1, 2}]
      /\ at[p] \in {"load"} \cup Reloading
  BY ReloadGoes
<1>2. PICK x \in {"idle", "record", "over"} \cup Reloading :
         /\ Goes(p, x) \/ (x = "over" /\ End(p, "error"))
         /\ x = "idle" => p = Watcher
         /\ x = "record" => \E v \in revs' : v.by = p
  BY ReloadGoes
<1>3. x \in Places BY DEF Places
<1>4. at' = [at EXCEPT ![p] = x] BY <1>2 DEF Goes, End
<1>5. at' \in [Proc -> Places] /\ at'[p] = x /\ \A q \in Proc : q # p => at'[q] = at[q]
  BY <1>3, <1>4 DEF ConsoleInv, Shape
<1>6. told' \in [Request -> {"none", "ok", "denied", "not_found", "error"}]
      /\ \A q \in Request : q # p => told'[q] = told[q]
  BY <1>2 DEF Goes, End, ConsoleInv, Shape
<1>7. Shape' BY <1>1, <1>5, <1>6 DEF ConsoleInv, Shape
<1>8. /\ \A d \in Diff : ClosedOrStale(d) => ClosedOrStale(d)'
      /\ \A d \in Diff : ticket'[d].status = "resolved" =>
             ticket[d].status = "resolved" /\ ticket'[d].closedBy = ticket[d].closedBy
  BY <1>1 DEF ClosedOrStale
<1>9. CASE p = Watcher
  <2> DEFINE R == {}
  <2>1. /\ R \in SUBSET Request
        /\ \A q \in Request \ R :
               /\ at'[q] = at[q] /\ told'[q] = told[q] /\ ask'[q] = ask[q] /\ copy'[q] = copy[q]
               /\ q \in actions' <=> q \in actions
        /\ \A q \in R : Arrived(q)' /\ (Arrived(q) => ask'[q] = ask[q])
        /\ \A q \in R : Kept(q)'
        /\ events \subseteq events' /\ revs \subseteq revs'
    BY <1>1, <1>5, <1>6, <1>9 DEF Proc
  <2> HIDE DEF R
  <2> QED BY <1>7, <1>8, <2>1, Moves
<1>10. CASE p \in Request
  <2>1. /\ OnItsWay(p) /\ Recorded(p) /\ Arrived(p) /\ ask[p] \in Ask[p] /\ ask[p].kind = "reload"
        /\ told[p] # "ok" /\ p \notin actions
    BY <1>1, <1>10 DEF ConsoleInv, Kept, OnItsWay, Arrived, Reloading
  <2>2. told'[p] # "ok" BY <1>2, <1>10, <2>1 DEF Goes, End, ConsoleInv, Shape
  <2>3. x \in {"record", "over"} \cup Reloading
    BY <1>2, <1>10
  <2>4. OnItsWay(p)' BY <1>1, <1>5, <2>1, <2>2, <2>3 DEF OnItsWay, Arrived, Reloading
  <2>5. ReadClosed(p)' BY <1>5, <2>3 DEF ReadClosed, Reloading
  <2>6. Recorded(p)' /\ StaysClosed(p)' BY <1>1, <1>2, <1>5, <2>1 DEF Recorded, StaysClosed
  <2>7. Kept(p)' BY <2>4, <2>5, <2>6 DEF Kept
  <2>8. Arrived(p)' BY <1>5, <2>3 DEF Arrived, Reloading
  <2>9. /\ \A q \in Request : q # p =>
               /\ at'[q] = at[q] /\ told'[q] = told[q] /\ ask'[q] = ask[q] /\ copy'[q] = copy[q]
               /\ q \in actions' <=> q \in actions
        /\ ask'[p] = ask[p] /\ events \subseteq events'
    BY <1>1, <1>5, <1>6 DEF Proc
  <2> QED BY <1>1, <1>7, <1>8, <1>10, <2>7, <2>8, <2>9, OneMoves
<1> QED BY <1>9, <1>10 DEF Proc

\* What was under way when the process died is over; nothing of it is undone.
LEMMA CrashKept == ASSUME ConsoleInv, Crash PROVE ConsoleInv'
<1> USE ConsoleAssumption
<1>1. /\ ticket' = ticket /\ copy' = copy /\ events' = events /\ stale' = stale /\ ask' = ask /\ told' = told
      /\ actions' = actions /\ revs' = revs /\ round' = round
  BY DEF Crash, books
<1>2. at' = [p \in Proc |-> IF p = Watcher THEN "down" ELSE IF at[p] = "idle" THEN "idle" ELSE "over"]
  BY DEF Crash
<1>3. at' \in [Proc -> Places] /\ \A q \in Request : at'[q] = IF at[q] = "idle" THEN "idle" ELSE "over"
  BY <1>2 DEF Proc, Places
<1>4. Shape' BY <1>1, <1>3 DEF ConsoleInv, Shape
<1> DEFINE R == {q \in Request : at[q] # "idle"}
<1>5. ASSUME NEW q \in R PROVE Kept(q)'
  <2>1. /\ q \in Request /\ Arrived(q) /\ at'[q] = "over"
        /\ OnItsWay(q) /\ Recorded(q) /\ StaysClosed(q)
    BY <1>3 DEF Arrived, ConsoleInv, Kept
  <2>2. OnItsWay(q)' BY <1>1, <2>1 DEF OnItsWay, Arrived, Reloading
  <2>3. ReadClosed(q)' /\ Recorded(q)' BY <1>1, <2>1 DEF ReadClosed, Recorded, HasEvent
  <2>4. StaysClosed(q)' BY <1>1, <2>1 DEF StaysClosed, Arrived, ClosedOrStale
  <2> QED BY <2>2, <2>3, <2>4 DEF Kept
<1>6. /\ R \in SUBSET Request
      /\ \A q \in Request \ R :
             /\ at'[q] = at[q] /\ told'[q] = told[q] /\ ask'[q] = ask[q] /\ copy'[q] = copy[q]
             /\ q \in actions' <=> q \in actions
  BY <1>1, <1>3
<1>7. \A q \in R : Arrived(q)' /\ (Arrived(q) => ask'[q] = ask[q])
  BY <1>1, <1>3 DEF Arrived
<1>8. /\ \A d \in Diff : ClosedOrStale(d) => ClosedOrStale(d)'
      /\ \A d \in Diff : ticket'[d].status = "resolved" =>
             ticket[d].status = "resolved" /\ ticket'[d].closedBy = ticket[d].closedBy
      /\ events \subseteq events' /\ revs \subseteq revs'
  BY <1>1 DEF ClosedOrStale
<1>9. \A q \in R : Kept(q)' BY <1>5
<1> HIDE DEF R
<1> QED BY <1>4, <1>6, <1>7, <1>8, <1>9, Moves

LEMMA ConsoleInit == Init => ConsoleInv
<1> SUFFICES ASSUME Init PROVE ConsoleInv OBVIOUS
<1> USE ConsoleAssumption
<1>1. /\ at = [p \in Proc |-> IF p = Watcher THEN "down" ELSE "idle"]
      /\ ask = [r \in Request |-> None] /\ told = [r \in Request |-> "none"]
      /\ ticket = [d \in Diff |-> [status |-> "open", assignee |-> None, closedBy |-> None]]
      /\ actions = {} /\ copy = [r \in Request |-> None] /\ round = [p \in Proc |-> 1]
  BY DEF Init
<1>2. \A r \in Request : at[r] = "idle" BY <1>1 DEF Proc
<1>3. Shape BY <1>1 DEF Shape, Places, Ticket
<1>4. Closed BY <1>1 DEF Closed
<1>5. ASSUME NEW r \in Request PROVE Kept(r)
  BY <1>1, <1>2 DEF Kept, OnItsWay, ReadClosed, Recorded, StaysClosed, Arrived, Reloading
<1> QED BY <1>3, <1>4, <1>5 DEF ConsoleInv

LEMMA ConsoleStep == ConsoleInv /\ [Next]_vars => ConsoleInv'
<1> SUFFICES ASSUME ConsoleInv, [Next]_vars PROVE ConsoleInv' OBVIOUS
<1>1. ASSUME NEW r \in Request, Arrive(r) \/ Handles(r) PROVE ConsoleInv'
  BY <1>1, ArriveKept, ReadKept, UpdateKept, LastKept DEF Handles
<1>2. ASSUME NEW p \in Proc, Reloads(p) PROVE ConsoleInv' BY <1>2, ReloadsKept
<1>3. /\ round \in [Proc -> {1, 2}] /\ at = [at EXCEPT ![Watcher] = at[Watcher]] /\ at[Watcher] \in Places
      /\ {"off", "idle", "load"} \subseteq Places
  BY DEF ConsoleInv, Shape, Proc, Places
<1>4. CASE (\E c \in Content : Edit(c)) \/ UNCHANGED vars
  <2>1. UNCHANGED books /\ UNCHANGED config /\ at' = at /\ ask' = ask /\ told' = told /\ actions' = actions
    BY <1>4 DEF Edit, vars
  <2>2. revs' = revs /\ round' = round BY <2>1 DEF config
  <2>3. \E x \in Places : at' = [at EXCEPT ![Watcher] = x] BY <1>3, <2>1
  <2> QED BY <1>3, <2>1, <2>2, <2>3, Quiet
<1>5. CASE Start
  BY <1>3, <1>5, Quiet DEF Start
<1>6. CASE Watch \/ Notice
  <2>1. UNCHANGED books /\ UNCHANGED config /\ ask' = ask /\ told' = told /\ actions' = actions
        /\ \E x \in {"idle", "load"} : at' = [at EXCEPT ![Watcher] = x]
    BY <1>6 DEF Watch, Notice, Goes
  <2>2. revs' = revs /\ round' = round BY <2>1 DEF config
  <2>3. \E x \in Places : at' = [at EXCEPT ![Watcher] = x] BY <1>3, <2>1
  <2> QED BY <1>3, <2>1, <2>2, <2>3, Quiet
<1>7. CASE Crash BY <1>7, CrashKept
<1> QED BY <1>1, <1>2, <1>4, <1>5, <1>6, <1>7 DEF Next

----------------------------------------------------------------------------
(* Tickets.                                                                 *)

\* ResolveDiff, AssignDiff, ConfigReload: for every set of requests, roles and tickets,
\* whatever fails or crashes between their statements, a closed ticket names one whose role
\* and tenant may close it, and what was answered or recorded is in the tables.
THEOREM TicketsRecorded == Spec => []TicketsOnRecord
<1>1. Init => ConsoleInv BY ConsoleInit
<1>2. ConsoleInv /\ [Next]_vars => ConsoleInv' BY ConsoleStep
<1>3. ConsoleInv => TicketsOnRecord BY InvRecords
<1> QED BY <1>1, <1>2, <1>3, PTL DEF Spec

----------------------------------------------------------------------------
(* Revisions and the rules in force.                                        *)

\* Versions count the revisions; nobody knows a later one, and who made one by himself may.
\* No reload is under way in a process that is down; a watcher saves once.
RevsInv ==
    /\ IsFiniteSet(revs) /\ Versions = 1 .. Cardinality(revs)
    /\ last \in [Proc -> 0 .. Cardinality(revs)]
    /\ \A v \in revs : v.by # Watcher =>
          v.by \in Request /\ Arrived(v.by) /\ ask[v.by].role \in MayReload
    /\ \A r \in Request : at[r] \in {"load"} \cup Reloading => ask[r].role \in MayReload
    /\ \A p \in Proc : at[p] \in Reloading =>
          /\ round[p] = 2 => p # Watcher
          /\ at[p] \in {"acl", "limits"} => round[p] = 1
          /\ at[p] = "show" => round[p] = 1 /\ p # Watcher

Down ==
    ~up => at[Watcher] = "down" /\ \A p \in Proc : at[p] \notin {"load"} \cup Reloading

\* What the one reload that is under way has put into force and is about to save; the latest
\* revision is in force once it is saved.
Config(p) ==
    /\ at[p] = "limits" => acl = fresh[p] /\ unsaved
    /\ at[p] = "peek" /\ round[p] = 2 => shown = limits
    /\ at[p] \in {"version", "insert"} => payload[p] = [acl |-> acl, limits |-> limits]

Latest == \E v \in revs : v.version = Cardinality(revs) /\ v.acl = acl /\ v.limits = limits

ForceInv ==
    /\ Down
    /\ fresh = [p \in Proc |-> fresh[p]] /\ payload = [p \in Proc |-> payload[p]]
    /\ up /\ ~overlap =>
        /\ \A p, q \in Proc : at[p] \in Reloading /\ at[q] \in Reloading => p = q
        /\ \A p \in Proc : Config(p)
        /\ (\A p \in Proc : at[p] # "limits") => acl = limits
        /\ ~unsaved => Latest

\* The greatest of the versions so far is how many there are.
LEMMA MaxOfVersions == ASSUME NEW S, NEW n \in S, n \in Nat, S \subseteq 0 .. n PROVE Max(S) = n
<1>1. \A y \in S : y \in Nat /\ n >= y OBVIOUS
<1>2. Max(S) \in S /\ \A y \in S : Max(S) >= y BY <1>1, Zenon DEF Max
<1>3. Max(S) \in Nat /\ Max(S) >= n /\ n >= Max(S) BY <1>1, <1>2
<1> QED BY <1>3

\* Steps that leave the revisions and what reloads have read of them.
LEMMA RevsLeft ==
    ASSUME ConsoleInv, ConsoleInv', RevsInv, revs' = revs, last' \in [Proc -> 0 .. Cardinality(revs)],
           \A r \in Request : Arrived(r) => Arrived(r)' /\ ask'[r] = ask[r],
           \A r \in Request : at'[r] \in {"load"} \cup Reloading =>
               ask'[r].role \in MayReload,
           \A p \in Proc : at'[p] \in Reloading =>
               /\ round'[p] = 2 => p # Watcher
               /\ at'[p] \in {"acl", "limits"} => round'[p] = 1
               /\ at'[p] = "show" => round'[p] = 1 /\ p # Watcher
    PROVE  RevsInv'
<1>1. IsFiniteSet(revs)' /\ (Versions = 1 .. Cardinality(revs))' /\ (last \in [Proc -> 0 .. Cardinality(revs)])'
  BY DEF RevsInv, Versions
<1>2. ASSUME NEW v \in revs', v.by # Watcher
      PROVE  v.by \in Request /\ Arrived(v.by)' /\ ask'[v.by].role \in MayReload
  <2>1. PICK q : q = v.by OBVIOUS
  <2>2. q \in Request /\ Arrived(q) /\ ask[q].role \in MayReload BY <1>2, <2>1 DEF RevsInv
  <2>3. Arrived(q)' /\ ask'[q] = ask[q] BY <2>2
  <2> QED BY <2>1, <2>2, <2>3 DEF Arrived
<1> QED BY <1>1, <1>2 DEF RevsInv, Arrived

\* What of the configuration a step of a request or of the file leaves.
LEMMA ConfigLeft ==
    ASSUME ConsoleInv, ConsoleInv', RevsInv, ForceInv, UNCHANGED config, up' = up,
           \A r \in Request : Arrived(r) => Arrived(r)' /\ ask'[r] = ask[r],
           \A r \in Request : at'[r] \in {"load"} \cup Reloading =>
               ask'[r].role \in MayReload /\ (up \/ at'[r] = at[r]),
           ~up => at'[Watcher] = "down",
           \A p \in Proc : at'[p] \in Reloading => at'[p] = at[p],
           \A p \in Proc : at[p] = "limits" => at'[p] = at[p]
    PROVE  RevsInv' /\ ForceInv'
<1> USE ConsoleAssumption
<1>1. /\ acl' = acl /\ limits' = limits /\ shown' = shown /\ fresh' = fresh /\ payload' = payload /\ last' = last
      /\ round' = round /\ revs' = revs /\ overlap' = overlap /\ unsaved' = unsaved
  BY DEF config
<1>2. RevsInv'
  <2>1. \A p \in Proc : at'[p] \in Reloading =>
               /\ round'[p] = 2 => p # Watcher
               /\ at'[p] \in {"acl", "limits"} => round'[p] = 1
               /\ at'[p] = "show" => round'[p] = 1 /\ p # Watcher
    <3> SUFFICES ASSUME NEW p \in Proc, at'[p] \in Reloading
                 PROVE  /\ round'[p] = 2 => p # Watcher
                        /\ at'[p] \in {"acl", "limits"} => round'[p] = 1
                        /\ at'[p] = "show" => round'[p] = 1 /\ p # Watcher
      OBVIOUS
    <3>1. at'[p] = at[p] OBVIOUS
    <3> QED BY <1>1, <3>1 DEF RevsInv
  <2>2. last' \in [Proc -> 0 .. Cardinality(revs)] BY <1>1 DEF RevsInv
  <2> QED BY <1>1, <2>1, <2>2, RevsLeft
<1>3. Down'
  <2> SUFFICES ASSUME ~up PROVE at'[Watcher] = "down" /\ \A p \in Proc : at'[p] \notin {"load"} \cup Reloading
    BY DEF Down
  <2>1. ASSUME NEW p \in Proc, at'[p] \in {"load"} \cup Reloading PROVE FALSE
    <3>1. p # Watcher BY <2>1 DEF Reloading
    <3>2. p \in Request BY <3>1 DEF Proc
    <3>3. at'[p] = at[p] BY <2>1, <3>2
    <3> QED BY <2>1, <3>3 DEF ForceInv, Down
  <2> QED BY <2>1
<1>4. ASSUME up, ~overlap
      PROVE  /\ \A p, q \in Proc : at'[p] \in Reloading /\ at'[q] \in Reloading => p = q
             /\ \A p \in Proc : Config(p)'
             /\ (\A p \in Proc : at'[p] # "limits") => acl = limits
             /\ ~unsaved => Latest'
  <2>1. \A p, q \in Proc : at'[p] \in Reloading /\ at'[q] \in Reloading => p = q
    BY <1>4 DEF ForceInv
  <2>2. ASSUME NEW p \in Proc PROVE Config(p)'
    <3>1. CASE at'[p] \in Reloading
      <4>1. at'[p] = at[p] /\ Config(p) BY <1>4, <3>1 DEF ForceInv
      <4> QED BY <1>1, <4>1 DEF Config
    <3>2. CASE at'[p] \notin Reloading
      BY <3>2 DEF Config, Reloading
    <3> QED BY <3>1, <3>2
  <2>3. (\A p \in Proc : at'[p] # "limits") => acl = limits
    BY <1>4 DEF ForceInv
  <2>4. ~unsaved => Latest' BY <1>1, <1>4 DEF ForceInv, Latest
  <2> QED BY <2>1, <2>2, <2>3, <2>4
<1>5. (fresh = [p \in Proc |-> fresh[p]] /\ payload = [p \in Proc |-> payload[p]])'
  BY <1>1 DEF ForceInv
<1> QED BY <1>1, <1>2, <1>3, <1>4, <1>5 DEF ForceInv

\* The steps that touch neither the rules in force nor the revisions.
LEMMA OthersConfig ==
    ASSUME ConsoleInv, ConsoleInv', RevsInv, ForceInv,
           \/ \E r \in Request : Arrive(r) \/ Handles(r)
           \/ \E c \in Content : Edit(c)
           \/ Watch \/ Notice \/ UNCHANGED vars
    PROVE  RevsInv' /\ ForceInv'
<1> USE ConsoleAssumption
<1>0. at \in [Proc -> Places] /\ Watcher \in Proc /\ Request \subseteq Proc
  BY DEF ConsoleInv, Shape, Proc
<1>1. ASSUME NEW r \in Request, Arrive(r) PROVE RevsInv' /\ ForceInv'
  <2>1. /\ up /\ up' = up /\ UNCHANGED config /\ at[r] = "idle"
    BY <1>1 DEF Arrive
  <2>2. PICK a \in Ask[r] :
            /\ ask' = [ask EXCEPT ![r] = a]
            /\ IF ConsoleAllowed(a.role, a.kind) THEN Goes(r, First(a.kind)) ELSE End(r, "denied")
    BY <1>1 DEF Arrive
  <2>3. PICK x \in {"load", "read", "over"} :
            /\ at' = [at EXCEPT ![r] = x]
            /\ x = "load" => a.kind = "reload" /\ ConsoleAllowed(a.role, a.kind)
    BY <2>2 DEF Goes, End, First
  <2>4. x = "load" => a.role \in MayReload
    BY <2>3 DEF ConsoleAllowed, Normalized, CorrectionWrites, JobsWrites, MayReload
  <2>5. /\ at'[r] = x /\ ask'[r] = a
        /\ \A q \in Proc : q # r => at'[q] = at[q]
        /\ \A q \in Request : q # r => ask'[q] = ask[q]
    <3>1. ask = [q \in Request |-> ask[q]] BY DEF ConsoleInv, Shape
    <3> QED BY <1>0, <2>2, <2>3, <3>1
  <2>6. \A q \in Request : Arrived(q) => Arrived(q)' /\ ask'[q] = ask[q]
    BY <1>0, <2>1, <2>5 DEF Arrived
  <2>7. \A q \in Request : at'[q] \in {"load"} \cup Reloading =>
               ask'[q].role \in MayReload /\ (up \/ at'[q] = at[q])
    BY <1>0, <2>1, <2>4, <2>5 DEF RevsInv, Reloading
  <2>8. /\ \A p \in Proc : at'[p] \in Reloading => at'[p] = at[p]
        /\ \A p \in Proc : at[p] = "limits" => at'[p] = at[p]
    BY <2>1, <2>5 DEF Reloading
  <2> QED BY <2>1, <2>6, <2>7, <2>8, ConfigLeft
<1>2. ASSUME UNCHANGED config, up' = up, ask' = ask, NEW p \in Proc,
             NEW x \in {"load", "idle", "update", "event", "record", "over"},
             at' = [at EXCEPT ![p] = x], p = Watcher => up,
             x = "load" \/ x = "idle" => p = Watcher, at[p] \notin Reloading
      PROVE  RevsInv' /\ ForceInv'
  <2>1. at'[p] = x /\ \A q \in Proc : q # p => at'[q] = at[q]
    BY <1>0, <1>2
  <2>2. \A q \in Request : Arrived(q) => Arrived(q)' /\ ask'[q] = ask[q]
    BY <1>0, <1>2, <2>1 DEF Arrived
  <2>3. \A q \in Request : at'[q] \in {"load"} \cup Reloading =>
               ask'[q].role \in MayReload /\ (up \/ at'[q] = at[q])
    BY <1>0, <1>2, <2>1 DEF RevsInv, Reloading
  <2>4. ~up => at'[Watcher] = "down"
    BY <1>0, <1>2, <2>1 DEF ForceInv, Down
  <2>5. /\ \A q \in Proc : at'[q] \in Reloading => at'[q] = at[q]
        /\ \A q \in Proc : at[q] = "limits" => at'[q] = at[q]
    BY <1>2, <2>1 DEF Reloading
  <2> QED BY <1>2, <2>2, <2>3, <2>4, <2>5, ConfigLeft
<1>3. ASSUME NEW r \in Request, Handles(r) PROVE RevsInv' /\ ForceInv'
  <2>1. UNCHANGED config /\ up' = up /\ ask' = ask
        /\ at[r] \in {"read", "update", "event", "record"}
    BY <1>3 DEF Handles, Read, Update, Event, Record
  <2>2. PICK x \in {"update", "event", "record", "over"} : at' = [at EXCEPT ![r] = x]
    BY <1>3 DEF Handles, Read, Update, Event, EventLost, Record, Goes, End
  <2>3. /\ r \in Proc /\ r # Watcher /\ x \in {"load", "idle", "update", "event", "record", "over"}
        /\ x \notin {"load", "idle"} /\ at[r] \notin {"load", "idle", "off"} \cup Reloading
    BY <1>0, <2>1, <2>2 DEF Reloading
  <2> QED BY <1>2, <2>1, <2>2, <2>3
<1>4. CASE Watch \/ Notice
  <2>1. UNCHANGED config /\ up' = up /\ ask' = ask
        /\ at[Watcher] \in {"off", "idle"}
        /\ \E x \in {"load", "idle"} : at' = [at EXCEPT ![Watcher] = x]
    BY <1>4 DEF Watch, Notice, Goes
  <2>2. up BY <2>1 DEF ForceInv, Down
  <2> QED BY <1>0, <1>2, <2>1, <2>2 DEF Reloading
<1>5. CASE (\E c \in Content : Edit(c)) \/ UNCHANGED vars
  <2>1. UNCHANGED config /\ up' = up /\ ask' = ask /\ at' = at
    BY <1>5 DEF Edit, vars
  <2>2. \A q \in Request : Arrived(q) => Arrived(q)' /\ ask'[q] = ask[q]
    BY <2>1 DEF Arrived
  <2>3. \A q \in Request : at'[q] \in {"load"} \cup Reloading =>
               ask'[q].role \in MayReload /\ (up \/ at'[q] = at[q])
    BY <2>1 DEF RevsInv
  <2>4. ~up => at'[Watcher] = "down" BY <2>1 DEF ForceInv, Down
  <2> QED BY <2>1, <2>2, <2>3, <2>4, ConfigLeft
<1> QED BY <1>1, <1>3, <1>4, <1>5

\* The process comes up with the file in force and no revision of it, or goes down with every
\* reload that was under way.
LEMMA ProcessConfig ==
    ASSUME ConsoleInv, ConsoleInv', RevsInv, ForceInv, Start \/ Crash
    PROVE  RevsInv' /\ ForceInv'
<1> USE ConsoleAssumption
<1>0. at \in [Proc -> Places] /\ Watcher \in Proc /\ Request \subseteq Proc
  BY DEF ConsoleInv, Shape, Proc
<1>1. CASE Start
  <2>1. /\ ~up /\ up' /\ acl' = file.content /\ limits' = file.content /\ unsaved' = TRUE
        /\ at' = [at EXCEPT ![Watcher] = "off"] /\ ask' = ask /\ fresh' = fresh /\ payload' = payload
        /\ last' = last /\ round' = round /\ revs' = revs
    BY <1>1 DEF Start
  <2>2. at'[Watcher] = "off" /\ \A q \in Proc : q # Watcher => at'[q] = at[q]
    BY <1>0, <2>1
  <2>3. \A p \in Proc : at'[p] \notin {"load"} \cup Reloading
    BY <2>1, <2>2 DEF ForceInv, Down, Reloading
  <2>4. RevsInv'
    <3>1. \A r \in Request : Arrived(r) => Arrived(r)' /\ ask'[r] = ask[r]
      BY <1>0, <2>1, <2>2 DEF Arrived
    <3>2. last' \in [Proc -> 0 .. Cardinality(revs)] BY <2>1 DEF RevsInv
    <3> QED BY <1>0, <2>1, <2>3, <3>1, <3>2, RevsLeft
  <2>5. \A p \in Proc : Config(p)' BY <2>3 DEF Config, Reloading
  <2> QED BY <2>1, <2>3, <2>4, <2>5 DEF ForceInv, Down
<1>2. CASE Crash
  <2>1. /\ ~up' /\ ask' = ask /\ revs' = revs
        /\ at' = [p \in Proc |-> IF p = Watcher THEN "down" ELSE IF at[p] = "idle" THEN "idle" ELSE "over"]
        /\ fresh' = [p \in Proc |-> None] /\ payload' = [p \in Proc |-> Nil] /\ last' = [p \in Proc |-> 0]
    BY <1>2 DEF Crash
  <2>2. /\ at'[Watcher] = "down"
        /\ \A p \in Proc : at'[p] \notin {"load"} \cup Reloading
        /\ \A q \in Request : at[q] # "idle" => at'[q] = "over"
    BY <1>0, <2>1 DEF Reloading
  <2>3. RevsInv'
    <3>1. \A r \in Request : Arrived(r) => Arrived(r)' /\ ask'[r] = ask[r]
      BY <1>0, <2>1, <2>2 DEF Arrived
    <3>2. last' \in [Proc -> 0 .. Cardinality(revs)]
      <4>1. Cardinality(revs) \in Nat BY FS_CardinalityType DEF RevsInv
      <4> QED BY <2>1, <4>1
    <3> QED BY <1>0, <2>1, <2>2, <3>1, <3>2, RevsLeft
  <2>4. (fresh = [p \in Proc |-> fresh[p]] /\ payload = [p \in Proc |-> payload[p]])' BY <2>1
  <2>5. Down' BY <2>2 DEF Down
  <2> QED BY <2>1, <2>3, <2>4, <2>5 DEF ForceInv
<1> QED BY <1>1, <1>2

\* Where a save leads that has ended, and what it leaves.
LEMMA SaveEnds ==
    ASSUME ConsoleInv, RevsInv, NEW p \in Proc, at[p] \in {"version", "insert"}, Saved(p) \/ SaveFailed(p)
    PROVE  /\ last' = [last EXCEPT ![p] = 0] /\ payload' = [payload EXCEPT ![p] = Nil]
           /\ \E x \in {"idle", "show", "record", "over"} :
                /\ at' = [at EXCEPT ![p] = x]
                /\ x = "idle" => p = Watcher
                /\ x = "show" => round[p] = 1 /\ p # Watcher
<1>1. CASE Saved(p)
  <2>1. round[p] \in {1, 2} BY DEF ConsoleInv, Shape
  <2>2. CASE round[p] = 1 /\ p = Watcher BY <1>1, <2>2 DEF Saved, Goes
  <2>3. CASE round[p] = 1 /\ p # Watcher BY <1>1, <2>3 DEF Saved, Goes
  <2>4. CASE round[p] = 2 BY <1>1, <2>4 DEF Saved, Goes
  <2> QED BY <2>1, <2>2, <2>3, <2>4
<1>2. CASE SaveFailed(p) /\ ~Saved(p)
  BY <1>2 DEF SaveFailed, End
<1> QED BY <1>1, <1>2

\* What a reload leaves to the revisions: none, or the next one.
LEMMA ReloadRevs ==
    ASSUME ConsoleInv, ConsoleInv', RevsInv, NEW p \in Proc, Reloads(p)
    PROVE  RevsInv'
<1> USE ConsoleAssumption
<1>0. /\ at \in [Proc -> Places] /\ Request \subseteq Proc /\ Watcher \in Proc
      /\ round \in [Proc -> {1, 2}] /\ ask' = ask /\ at[p] \in {"load"} \cup Reloading
  BY ReloadGoes DEF ConsoleInv, Shape, Proc
<1>1. PICK N \in Nat : /\ N = Cardinality(revs) /\ IsFiniteSet(revs) /\ Versions = 1 .. N
                       /\ last \in [Proc -> 0 .. N]
  BY FS_CardinalityType DEF RevsInv
<1>2. \A r \in Request : at[r] = "idle" => r # p BY <1>0 DEF Reloading
<1>3. \A q \in Proc : at[q] \in Reloading =>
          /\ round[q] = 2 => q # Watcher
          /\ at[q] \in {"acl", "limits"} => round[q] = 1
          /\ at[q] = "show" => round[q] = 1 /\ q # Watcher
  BY DEF RevsInv
<1>4. ASSUME NEW x \in {"idle", "record", "over"} \cup Reloading, at' = [at EXCEPT ![p] = x], x = "idle" => p = Watcher,
             \A q \in Proc : q # p => round'[q] = round[q],
             x \in {"acl", "limits", "show"} => round'[p] = 1, x = "show" => p # Watcher,
             round'[p] = 2 /\ x \in Reloading => p # Watcher
      PROVE  /\ \A r \in Request : Arrived(r) => Arrived(r)' /\ ask'[r] = ask[r]
             /\ \A r \in Request : at'[r] \in {"load"} \cup Reloading => ask'[r].role \in MayReload
             /\ \A q \in Proc : at'[q] \in Reloading =>
                   /\ round'[q] = 2 => q # Watcher
                   /\ at'[q] \in {"acl", "limits"} => round'[q] = 1
                   /\ at'[q] = "show" => round'[q] = 1 /\ q # Watcher
  <2>1. at'[p] = x /\ \A q \in Proc : q # p => at'[q] = at[q] BY <1>0, <1>4
  <2>2. \A r \in Request : Arrived(r) => Arrived(r)' /\ ask'[r] = ask[r]
    BY <1>0, <1>4, <2>1 DEF Arrived, Reloading
  <2>3. \A r \in Request : at'[r] \in {"load"} \cup Reloading => ask'[r].role \in MayReload
    BY <1>0, <2>1 DEF RevsInv
  <2>4. ASSUME NEW q \in Proc, at'[q] \in Reloading
        PROVE  /\ round'[q] = 2 => q # Watcher
               /\ at'[q] \in {"acl", "limits"} => round'[q] = 1
               /\ at'[q] = "show" => round'[q] = 1 /\ q # Watcher
    <3>1. CASE q = p BY <1>4, <2>1, <2>4, <3>1
    <3>2. CASE q # p BY <1>3, <1>4, <2>1, <2>4, <3>2
    <3> QED BY <3>1, <3>2
  <2> QED BY <2>2, <2>3, <2>4
<1>5. ASSUME NEW x \in {"idle", "record", "over"} \cup Reloading, at' = [at EXCEPT ![p] = x], x = "idle" => p = Watcher,
             \A q \in Proc : q # p => round'[q] = round[q],
             x \in {"acl", "limits", "show"} => round'[p] = 1, x = "show" => p # Watcher,
             round'[p] = 2 /\ x \in Reloading => p # Watcher,
             revs' = revs, last' \in [Proc -> 0 .. N]
      PROVE  RevsInv'
  BY <1>1, <1>4, <1>5, RevsLeft
<1>6. CASE Load(p)
  <2>1. revs' = revs /\ last' = last BY <1>6 DEF Load
  <2>2. CASE round' = [round EXCEPT ![p] = 1] /\ Goes(p, "acl")
    <3>1. at' = [at EXCEPT ![p] = "acl"] /\ round'[p] = 1 /\ \A q \in Proc : q # p => round'[q] = round[q]
      BY <1>0, <2>2 DEF Goes
    <3> QED BY <1>1, <1>5, <2>1, <3>1 DEF Reloading
  <2>3. CASE round' = round /\ NotLoaded(p)
    <3>1. PICK x \in {"idle", "over"} : at' = [at EXCEPT ![p] = x] /\ (x = "idle" => p = Watcher)
      BY <2>3 DEF NotLoaded, Goes, End
    <3> QED BY <1>1, <1>5, <2>1, <2>3, <3>1 DEF Reloading
  <2> QED BY <1>6, <2>2, <2>3 DEF Load
<1>7. CASE ReplaceACL(p) \/ ReplaceLimits(p) \/ Peek(p)
  <2>1. /\ revs' = revs /\ last' = last /\ round' = round /\ at[p] \in {"acl", "limits", "peek"}
        /\ \E x \in {"limits", "peek", "version"} :
              at' = [at EXCEPT ![p] = x] /\ (x = "limits" => at[p] = "acl")
    BY <1>7 DEF ReplaceACL, ReplaceLimits, Peek, Goes
  <2>2. PICK x \in {"limits", "peek", "version"} :
              at' = [at EXCEPT ![p] = x] /\ (x = "limits" => at[p] = "acl")
    BY <2>1
  <2>3. round[p] = 2 => p # Watcher BY <1>3, <2>1 DEF Reloading
  <2>4. x = "limits" => round[p] = 1 BY <1>3, <2>2 DEF Reloading
  <2> QED BY <1>1, <1>5, <2>1, <2>2, <2>3, <2>4 DEF Reloading
<1>8. CASE Show(p)
  <2>1. /\ revs' = revs /\ last' = last /\ at[p] = "show"
        /\ round' = [round EXCEPT ![p] = 2] /\ at' = [at EXCEPT ![p] = "peek"]
    BY <1>8 DEF Show, Goes
  <2>2. p # Watcher BY <1>3, <2>1 DEF Reloading
  <2>3. \A q \in Proc : q # p => round'[q] = round[q] BY <1>0, <2>1
  <2> QED BY <1>1, <1>5, <2>1, <2>2, <2>3 DEF Reloading
<1>9. ASSUME Saved(p) \/ SaveFailed(p), at[p] \in {"version", "insert"}, round' = round
      PROVE  /\ \E x \in {"idle", "record", "over"} \cup Reloading :
                  /\ at' = [at EXCEPT ![p] = x] /\ (x = "idle" => p = Watcher)
                  /\ (x \in {"acl", "limits", "show"} => round'[p] = 1) /\ (x = "show" => p # Watcher)
                  /\ (round'[p] = 2 /\ x \in Reloading => p # Watcher)
             /\ last' \in [Proc -> 0 .. N]
  <2>1. last' = [last EXCEPT ![p] = 0] BY <1>9, SaveEnds
  <2>2. PICK x \in {"idle", "show", "record", "over"} :
                /\ at' = [at EXCEPT ![p] = x]
                /\ x = "idle" => p = Watcher
                /\ x = "show" => round[p] = 1 /\ p # Watcher
    BY <1>9, SaveEnds
  <2>3. x \in {"idle", "record", "over"} \cup Reloading /\ (x \in Reloading => x = "show")
        /\ x \notin {"acl", "limits"}
    BY <2>2 DEF Reloading
  <2>4. last' \in [Proc -> 0 .. N] BY <1>1, <2>1
  <2> QED BY <1>9, <2>2, <2>3, <2>4
<1>10. CASE LastVersion(p)
  <2>1. revs' = revs /\ round' = round /\ at[p] = "version" BY <1>10 DEF LastVersion
  <2>2. CASE last' = [last EXCEPT ![p] = Max(Versions \cup {0})] /\ Goes(p, "insert")
    <3>1. Max(Versions \cup {0}) = N
      <4> DEFINE S == Versions \cup {0}
      <4>1. N \in S /\ S \subseteq 0 .. N BY <1>1
      <4> HIDE DEF S
      <4>2. Max(S) = N BY <1>1, <4>1, MaxOfVersions
      <4> QED BY <4>2 DEF S
    <3>2. last' \in [Proc -> 0 .. N] BY <1>1, <2>2, <3>1
    <3>3. at' = [at EXCEPT ![p] = "insert"] BY <2>2 DEF Goes
    <3>4. round[p] = 2 => p # Watcher BY <1>3, <2>1 DEF Reloading
    <3> QED BY <1>5, <2>1, <3>2, <3>3, <3>4 DEF Reloading
  <2>3. CASE SaveFailed(p) BY <1>5, <1>9, <2>1, <2>3
  <2> QED BY <1>10, <2>2, <2>3 DEF LastVersion
<1>11. CASE Insert(p)
  <2>1. round' = round /\ at[p] = "insert" /\ (Saved(p) \/ SaveFailed(p)) BY <1>11 DEF Insert
  <2>2. CASE revs' = revs BY <1>5, <1>9, <2>1, <2>2
  <2>3. CASE last[p] + 1 \notin Versions /\ revs' = revs \cup {Revision(p)}
    <3>1. last[p] = N BY <1>1, <2>3
    <3>2. PICK w : w = Revision(p) OBVIOUS
    <3>3. w.version = N + 1 /\ w.by = (IF round[p] = 1 THEN Watcher ELSE p) BY <3>1, <3>2 DEF Revision
    <3>4. w \notin revs BY <1>1, <2>3, <3>1, <3>3 DEF Versions
    <3>5. IsFiniteSet(revs') /\ Cardinality(revs') = N + 1
      BY <1>1, <2>3, <3>2, <3>4, FS_AddElement
    <3>6. Versions' = 1 .. N + 1
      <4>1. Versions' = Versions \cup {N + 1} BY <2>3, <3>2, <3>3 DEF Versions
      <4> QED BY <1>1, <4>1
    <3>7. PICK x \in {"idle", "record", "over"} \cup Reloading :
                  /\ at' = [at EXCEPT ![p] = x] /\ (x = "idle" => p = Watcher)
                  /\ (x \in {"acl", "limits", "show"} => round'[p] = 1) /\ (x = "show" => p # Watcher)
                  /\ (round'[p] = 2 /\ x \in Reloading => p # Watcher)
      BY <1>9, <2>1
    <3>8. /\ \A r \in Request : Arrived(r) => Arrived(r)' /\ ask'[r] = ask[r]
          /\ \A r \in Request : at'[r] \in {"load"} \cup Reloading => ask'[r].role \in MayReload
          /\ \A q \in Proc : at'[q] \in Reloading =>
                /\ round'[q] = 2 => q # Watcher
                /\ at'[q] \in {"acl", "limits"} => round'[q] = 1
                /\ at'[q] = "show" => round'[q] = 1 /\ q # Watcher
      <4>1. \A q \in Proc : q # p => round'[q] = round[q] BY <2>1
      <4> QED BY <1>4, <3>7, <4>1
    <3>9. last' \in [Proc -> 0 .. N + 1]
      <4>1. last' \in [Proc -> 0 .. N] BY <1>9, <2>1
      <4> QED BY <4>1
    <3>10. ASSUME NEW v \in revs', v.by # Watcher
           PROVE  v.by \in Request /\ Arrived(v.by)' /\ ask'[v.by].role \in MayReload
      <4>1. PICK q : q = v.by OBVIOUS
      <4>2. q \in Request /\ Arrived(q) /\ ask[q].role \in MayReload
        <5>1. CASE v \in revs BY <3>10, <4>1, <5>1 DEF RevsInv
        <5>2. CASE v = w
          <6>1. q = p /\ p # Watcher BY <3>3, <3>10, <4>1, <5>2
          <6>2. p \in Request BY <6>1 DEF Proc
          <6> QED BY <2>1, <6>1, <6>2 DEF RevsInv, Arrived, Reloading
        <5> QED BY <2>3, <3>2, <5>1, <5>2
      <4>3. Arrived(q)' /\ ask'[q] = ask[q] BY <3>8, <4>2
      <4> QED BY <4>1, <4>2, <4>3 DEF Arrived
    <3> QED BY <3>5, <3>6, <3>8, <3>9, <3>10 DEF RevsInv, Arrived
  <2> QED BY <1>11, <2>2, <2>3 DEF Insert
<1> QED BY <1>6, <1>7, <1>8, <1>10, <1>11 DEF Reloads

\* The one reload that is under way puts the file into force, and saves what is in force.
LEMMA ReloadForce ==
    ASSUME ConsoleInv, ConsoleInv', RevsInv, RevsInv', ForceInv, NEW p \in Proc, Reloads(p)
    PROVE  ForceInv'
<1> USE ConsoleAssumption
<1>0. /\ at \in [Proc -> Places] /\ Watcher \in Proc /\ round \in [Proc -> {1, 2}]
      /\ at[p] \in {"load"} \cup Reloading
      /\ fresh = [q \in Proc |-> fresh[q]] /\ payload = [q \in Proc |-> payload[q]]
  BY ReloadGoes DEF ConsoleInv, Shape, Proc, ForceInv
<1>1. up /\ up' = up
  <2>1. up BY <1>0 DEF ForceInv, Down
  <2>2. up' = up
    BY DEF Reloads, Load, ReplaceACL, ReplaceLimits, Show, Peek, LastVersion, Insert
  <2> QED BY <2>1, <2>2
<1>2. PICK x \in Places : at' = [at EXCEPT ![p] = x]
  <2>1. \E x \in {"idle", "record", "over"} \cup Reloading : Goes(p, x) \/ (x = "over" /\ End(p, "error"))
    BY ReloadGoes
  <2> QED BY <2>1 DEF Goes, End, Places
<1>3. at'[p] = x /\ \A q \in Proc : q # p => at'[q] = at[q]
  BY <1>0, <1>2
<1>4. Down' BY <1>1 DEF Down
<1>5. (fresh = [q \in Proc |-> fresh[q]] /\ payload = [q \in Proc |-> payload[q]])'
  <2>1. fresh' = fresh \/ \E y : fresh' = [fresh EXCEPT ![p] = y]
    BY DEF Reloads, Load, ReplaceACL, ReplaceLimits, Show, Peek, LastVersion, Insert
  <2>2. payload' = payload \/ \E y : payload' = [payload EXCEPT ![p] = y]
    BY DEF Reloads, Load, ReplaceACL, ReplaceLimits, Show, Peek, LastVersion, Insert, Saved, SaveFailed
  <2>3. fresh' = [q \in Proc |-> fresh'[q]]
    <3>1. CASE fresh' = fresh BY <1>0, <3>1
    <3>2. ASSUME NEW y, fresh' = [fresh EXCEPT ![p] = y] PROVE fresh' = [q \in Proc |-> fresh'[q]]
      BY <1>0, <3>2
    <3> QED BY <2>1, <3>1, <3>2
  <2>4. payload' = [q \in Proc |-> payload'[q]]
    <3>1. CASE payload' = payload BY <1>0, <3>1
    <3>2. ASSUME NEW y, payload' = [payload EXCEPT ![p] = y] PROVE payload' = [q \in Proc |-> payload'[q]]
      BY <1>0, <3>2
    <3> QED BY <2>2, <3>1, <3>2
  <2> QED BY <2>3, <2>4
<1>6. ASSUME ~overlap', Config(p)', x # "limits" => acl' = limits', ~unsaved' => Latest'
      PROVE  ForceInv'
  <2>1. ASSUME NEW q \in Proc, q # p PROVE at[q] \notin Reloading /\ at'[q] = at[q]
    <3>1. at'[q] = at[q] BY <1>3, <2>1
    <3>2. CASE at[p] \in Reloading
      <4>1. ~Load(p) BY <3>2 DEF Load, Reloading
      <4>2. overlap' = overlap
        BY <4>1 DEF Reloads, ReplaceACL, ReplaceLimits, Show, Peek, LastVersion, Insert
      <4> QED BY <1>1, <1>6, <2>1, <3>1, <3>2, <4>2 DEF ForceInv
    <3>3. CASE at[p] = "load"
      <4>1. Load(p)
        BY <3>3 DEF Reloads, ReplaceACL, ReplaceLimits, Show, Peek, LastVersion, Insert
      <4> QED BY <1>6, <2>1, <3>1, <4>1 DEF Load
    <3> QED BY <1>0, <3>2, <3>3
  <2>2. \A q, r \in Proc : at'[q] \in Reloading /\ at'[r] \in Reloading => q = r
    BY <2>1
  <2>3. ASSUME NEW q \in Proc PROVE Config(q)'
    <3>1. CASE q = p BY <1>6, <3>1
    <3>2. CASE q # p BY <2>1, <3>2 DEF Config, Reloading
    <3> QED BY <3>1, <3>2
  <2>4. (\A q \in Proc : at'[q] # "limits") => acl' = limits' BY <1>3, <1>6
  <2> QED BY <1>4, <1>5, <1>6, <2>2, <2>3, <2>4 DEF ForceInv
<1>7. SUFFICES ASSUME ~overlap'
               PROVE  Config(p)' /\ (x # "limits" => acl' = limits') /\ (~unsaved' => Latest')
  BY <1>4, <1>5, <1>6 DEF ForceInv
<1>8. ~overlap
  BY <1>7 DEF Reloads, Load, ReplaceACL, ReplaceLimits, Show, Peek, LastVersion, Insert
<1>9. /\ Config(p) /\ (~unsaved => Latest)
      /\ \A q \in Proc : at[q] \in Reloading /\ at[p] \in Reloading => q = p
      /\ (\A q \in Proc : at[q] # "limits") => acl = limits
  BY <1>1, <1>8 DEF ForceInv
<1>10. at[p] \in Reloading \ {"limits"} => acl = limits
  BY <1>9 DEF Reloading
<1>11. CASE Load(p)
  <2>1. /\ at[p] = "load" /\ acl' = acl /\ limits' = limits /\ unsaved' = unsaved /\ revs' = revs
        /\ x \in {"acl", "idle", "over"} /\ \A q \in Proc \ {p} : at[q] \notin Reloading
    BY <1>0, <1>3, <1>7, <1>11 DEF Load, NotLoaded, Goes, End
  <2>2. acl = limits BY <1>9, <2>1 DEF Reloading
  <2>3. Config(p)' BY <1>3, <2>1 DEF Config
  <2>4. ~unsaved' => Latest' BY <1>9, <2>1 DEF Latest
  <2> QED BY <2>1, <2>2, <2>3, <2>4
<1>12. CASE ReplaceACL(p)
  <2>1. x = "limits" /\ acl' = fresh[p] /\ fresh' = fresh /\ unsaved' = TRUE
    BY <1>0, <1>3, <1>12 DEF ReplaceACL, Goes
  <2> QED BY <1>3, <2>1 DEF Config
<1>13. CASE ReplaceLimits(p)
  <2>1. /\ at[p] = "limits" /\ x = "peek" /\ limits' = fresh[p] /\ acl' = acl /\ unsaved' = unsaved
        /\ round' = round
    BY <1>0, <1>3, <1>13 DEF ReplaceLimits, Goes
  <2>2. acl = fresh[p] /\ unsaved /\ round[p] = 1
    BY <1>9, <2>1 DEF Config, RevsInv, Reloading
  <2> QED BY <1>3, <2>1, <2>2 DEF Config
<1>14. CASE Show(p)
  <2>1. /\ at[p] = "show" /\ x = "peek" /\ shown' = limits /\ acl' = acl /\ limits' = limits
        /\ unsaved' = unsaved /\ revs' = revs
    BY <1>0, <1>3, <1>14 DEF Show, Goes
  <2>2. acl = limits BY <1>10, <2>1 DEF Reloading
  <2>3. Config(p)' BY <1>3, <2>1 DEF Config
  <2>4. ~unsaved' => Latest' BY <1>9, <2>1 DEF Latest
  <2> QED BY <2>1, <2>2, <2>3, <2>4
<1>15. CASE Peek(p)
  <2>1. /\ at[p] = "peek" /\ x = "version" /\ acl' = acl /\ limits' = limits
        /\ unsaved' = unsaved /\ revs' = revs
        /\ payload' = [payload EXCEPT ![p] = [acl |-> acl, limits |-> LimitsToSave(p)]]
    BY <1>0, <1>3, <1>15 DEF Peek, Goes
  <2>2. acl = limits BY <1>10, <2>1 DEF Reloading
  <2>3. LimitsToSave(p) = limits BY <1>0, <1>9, <2>1 DEF LimitsToSave, Config
  <2>4. payload'[p] = [acl |-> acl, limits |-> limits] BY <1>0, <2>1, <2>3
  <2>5. Config(p)' BY <1>3, <2>1, <2>4 DEF Config
  <2>6. ~unsaved' => Latest' BY <1>9, <2>1 DEF Latest
  <2> QED BY <2>1, <2>2, <2>5, <2>6
<1>16. CASE LastVersion(p)
  <2>1. /\ at[p] = "version" /\ acl' = acl /\ limits' = limits /\ unsaved' = unsaved /\ revs' = revs
    BY <1>16 DEF LastVersion
  <2>2. acl = limits BY <1>10, <2>1 DEF Reloading
  <2>3. ~unsaved' => Latest' BY <1>9, <2>1 DEF Latest
  <2>4. CASE payload' = payload /\ Goes(p, "insert")
    <3>1. x = "insert" BY <1>0, <1>3, <2>4 DEF Goes
    <3>2. payload'[p] = [acl |-> acl, limits |-> limits] BY <1>9, <2>1, <2>4 DEF Config
    <3>3. Config(p)' BY <1>3, <2>1, <3>1, <3>2 DEF Config
    <3> QED BY <2>1, <2>2, <2>3, <3>3
  <2>5. CASE SaveFailed(p)
    <3>1. PICK y \in {"idle", "show", "record", "over"} : at' = [at EXCEPT ![p] = y]
      BY <2>1, <2>5, SaveEnds
    <3>2. at'[p] \in {"idle", "show", "record", "over"} BY <1>0, <3>1
    <3>3. Config(p)' BY <3>2 DEF Config
    <3> QED BY <2>1, <2>2, <2>3, <3>3
  <2> QED BY <1>16, <2>4, <2>5 DEF LastVersion
<1>17. CASE Insert(p)
  <2>1. /\ at[p] = "insert" /\ acl' = acl /\ limits' = limits /\ (Saved(p) \/ SaveFailed(p))
    BY <1>17 DEF Insert
  <2>2. acl = limits /\ payload[p] = [acl |-> acl, limits |-> limits]
    BY <1>9, <1>10, <2>1 DEF Reloading, Config
  <2>3. Config(p)'
    <3>1. PICK y \in {"idle", "show", "record", "over"} : at' = [at EXCEPT ![p] = y]
      BY <2>1, SaveEnds
    <3>2. at'[p] \in {"idle", "show", "record", "over"} BY <1>0, <3>1
    <3> QED BY <3>2 DEF Config
  <2>4. CASE revs' = revs /\ unsaved' = unsaved
    <3>1. ~unsaved' => Latest' BY <1>9, <2>1, <2>4 DEF Latest
    <3> QED BY <2>1, <2>2, <2>3, <3>1
  <2>5. CASE last[p] + 1 \notin Versions /\ revs' = revs \cup {Revision(p)}
    <3>1. PICK w : w = Revision(p) OBVIOUS
    <3>2. w \in revs' /\ w.acl = acl /\ w.limits = limits /\ w.version = last[p] + 1
      BY <2>2, <2>5, <3>1 DEF Revision
    <3>3. w.version = Cardinality(revs)'
      <4>1. PICK N \in Nat : N = Cardinality(revs) /\ Versions = 1 .. N /\ last[p] \in 0 .. N /\ IsFiniteSet(revs)
        BY FS_CardinalityType DEF RevsInv
      <4>2. last[p] = N BY <2>5, <4>1
      <4>3. w \notin revs
        <5>1. w.version \notin Versions BY <2>5, <3>2
        <5> QED BY <5>1 DEF Versions
      <4>4. Cardinality(revs') = N + 1 BY <2>5, <3>1, <4>1, <4>3, FS_AddElement
      <4> QED BY <3>2, <4>2, <4>4
    <3>4. Latest' BY <2>1, <3>2, <3>3 DEF Latest
    <3> QED BY <2>1, <2>2, <2>3, <3>4
  <2> QED BY <1>17, <2>4, <2>5 DEF Insert
<1> QED BY <1>11, <1>12, <1>13, <1>14, <1>15, <1>16, <1>17 DEF Reloads

\* Before the first start no revision is saved, and the process is down.
LEMMA ForceInit == Init => RevsInv /\ ForceInv
<1> SUFFICES ASSUME Init PROVE RevsInv /\ ForceInv OBVIOUS
<1>1. /\ ~up /\ revs = {} /\ last = [p \in Proc |-> 0] /\ Watcher \in Proc
      /\ at = [p \in Proc |-> IF p = Watcher THEN "down" ELSE "idle"]
      /\ fresh = [p \in Proc |-> None] /\ payload = [p \in Proc |-> Nil]
  BY DEF Init, Proc
<1>2. \A p \in Proc : at[p] \notin {"load"} \cup Reloading BY <1>1 DEF Reloading
<1>3. IsFiniteSet(revs) /\ Cardinality(revs) = 0 BY <1>1, FS_EmptySet
<1>4. Versions = 1 .. 0 BY <1>1 DEF Versions
<1>5. RevsInv
  <2>1. \A r \in Request : at[r] \notin {"load"} \cup Reloading BY <1>2 DEF Proc
  <2>2. last \in [Proc -> 0 .. 0] BY <1>1
  <2> QED BY <1>1, <1>2, <1>3, <1>4, <2>1, <2>2 DEF RevsInv
<1>6. ForceInv BY <1>1, <1>2 DEF ForceInv, Down
<1> QED BY <1>5, <1>6

\* Every step keeps the count of the versions and what is in force.
LEMMA ForceStep ==
    ASSUME ConsoleInv, RevsInv, ForceInv, [Next]_vars
    PROVE  RevsInv' /\ ForceInv'
<1>1. ConsoleInv' BY ConsoleStep
<1>2. ASSUME NEW p \in Proc, Reloads(p) PROVE RevsInv' /\ ForceInv'
  <2>1. RevsInv' BY <1>1, <1>2, ReloadRevs
  <2> QED BY <1>1, <1>2, <2>1, ReloadForce
<1>3. CASE Start \/ Crash BY <1>1, <1>3, ProcessConfig
<1>4. CASE \/ \E r \in Request : Arrive(r) \/ Handles(r)
           \/ \E c \in Content : Edit(c)
           \/ Watch \/ Notice \/ UNCHANGED vars
  BY <1>1, <1>4, OthersConfig
<1> QED BY <1>2, <1>3, <1>4 DEF Next

\* ConfigReload, watchConfig, SaveConfigRevision: however the watcher and operators reload,
\* whatever saves collide or fail and however often the process dies: versions count the
\* revisions, each by one who may, and once the only reload is over the rules in force are
\* of one file and, if they were saved, those of the latest revision.
THEOREM InForceOnRecord == Spec => []InForceRecorded
<1>1. Init => ConsoleInv /\ RevsInv /\ ForceInv BY ConsoleInit, ForceInit
<1>2. ConsoleInv /\ RevsInv /\ ForceInv /\ [Next]_vars => (ConsoleInv /\ RevsInv /\ ForceInv)'
  BY ConsoleStep, ForceStep
<1>3. RevsInv /\ ForceInv => InForceRecorded
  <2> SUFFICES ASSUME RevsInv, ForceInv PROVE InForceRecorded OBVIOUS
  <2>1. PICK N \in Nat : N = Cardinality(revs) /\ Versions = 1 .. N
    BY FS_CardinalityType DEF RevsInv
  <2>2. \A v \in revs : v.by # Watcher => ask[v.by].role \in MayReload BY DEF RevsInv
  <2>3. ASSUME up, ~overlap, \A p \in Proc : at[p] \notin Reloading
        PROVE  /\ acl = limits
               /\ ~unsaved => \E v \in revs :
                     v.version = Max(Versions) /\ v.acl = acl /\ v.limits = limits
    <3>1. acl = limits BY <2>3 DEF ForceInv, Reloading
    <3>2. ASSUME ~unsaved
          PROVE  \E v \in revs : v.version = Max(Versions) /\ v.acl = acl /\ v.limits = limits
      <4>1. PICK v \in revs : v.version = N /\ v.acl = acl /\ v.limits = limits
        BY <2>1, <2>3, <3>2 DEF ForceInv, Latest
      <4>2. N \in Versions BY <4>1 DEF Versions
      <4>3. Max(Versions) = N
        <5> DEFINE S == Versions
        <5>1. N \in S /\ S \subseteq 0 .. N BY <2>1, <4>2
        <5> HIDE DEF S
        <5>2. Max(S) = N BY <2>1, <5>1, MaxOfVersions
        <5> QED BY <5>2 DEF S
      <4> QED BY <4>1, <4>3
    <3> QED BY <3>1, <3>2
  <2> QED BY <2>1, <2>2, <2>3 DEF InForceRecorded, RevsInv
<1> QED BY <1>1, <1>2, <1>3, PTL DEF Spec
=============================================================================
