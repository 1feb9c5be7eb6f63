---------------------------- MODULE ExpiryProofs ----------------------------
(***************************************************************************)
(* Proofs about Expiry: types, that a key is posted once although records   *)
(* are purged, that recent points are kept, and that a run that is done has *)
(* expired what was due.                                                    *)
(***************************************************************************)
EXTENDS Expiry, WellFoundedInduction, TLAPS

----------------------------------------------------------------------------
(* Types.                                                                   *)

\* A nonempty set of naturals has a least element.
LEMMA Least == ASSUME NEW S \in SUBSET Nat, S # {} PROVE \E x \in S : \A y \in S : x <= y
<1> DEFINE R == OpToRel(<, Nat)
<1>1. IsWellFoundedOn(R, Nat) BY NatLessThanWellFounded
<1>2. \A x, y \in Nat : x < y => <<x, y>> \in R BY DEF OpToRel
<1> HIDE DEF R
<1>3. PICK x \in S : \A y \in S : ~(<<y, x>> \in R) BY <1>1, WFMin
<1>4. ASSUME NEW y \in S PROVE x <= y
  <2>1. x \in Nat /\ y \in Nat OBVIOUS
  <2>2. ~(y < x) BY <1>2, <1>3, <2>1, Zenon
  <2> QED BY <2>1, <2>2, SMT
<1> QED BY <1>4

\* What the assumption on Lists says of its parts.
LEMMA ListsType ==
    /\ Len(Lists) \in Nat \ {0} /\ DOMAIN Lists = 1 .. Len(Lists)
    /\ \A l \in DOMAIN Lists :
         /\ Lists[l].policy \in Policies
         /\ DOMAIN Lists[l].rows \subseteq Nat
         /\ 1 \in DOMAIN Lists[l].rows
         /\ \A i \in DOMAIN Lists[l].rows : Lists[l].rows[i] \in Account
<1> DEFINE Entry == [policy : Policies, rows : Seq(Account)]
<1>1. Lists \in Seq(Entry) /\ Len(Lists) > 0 BY ListsAssumption
<1>2. \A e \in Entry : e.policy \in Policies /\ e.rows \in Seq(Account) OBVIOUS
<1>3. \A l \in DOMAIN Lists : Len(Lists[l].rows) > 0 BY ListsAssumption
<1> HIDE DEF Entry
<1>4. Len(Lists) \in Nat \ {0} /\ DOMAIN Lists = 1 .. Len(Lists) BY <1>1
<1>5. ASSUME NEW l \in DOMAIN Lists
      PROVE  /\ Lists[l].policy \in Policies
             /\ DOMAIN Lists[l].rows \subseteq Nat
             /\ 1 \in DOMAIN Lists[l].rows
             /\ \A i \in DOMAIN Lists[l].rows : Lists[l].rows[i] \in Account
  <2>1. Lists[l] \in Entry BY <1>1, <1>4
  <2>2. Lists[l].rows \in Seq(Account) /\ Lists[l].policy \in Policies BY <1>2, <2>1
  <2>3. Len(Lists[l].rows) > 0 BY <1>3
  <2> DEFINE rows == Lists[l].rows
  <2>4. rows \in Seq(Account) /\ Len(rows) > 0 BY <2>2, <2>3
  <2> HIDE DEF rows
  <2>5. DOMAIN rows \subseteq Nat /\ 1 \in DOMAIN rows /\ \A i \in DOMAIN rows : rows[i] \in Account
        BY <2>4
  <2> QED BY <2>2, <2>5 DEF rows
<1> QED BY <1>4, <1>5

\* A key of an expiry is a key.
LEMMA ExpiryKeyType ==
    ASSUME NEW l \in DOMAIN Lists, NEW a \in Account, NEW d \in Day
    PROVE  ExpiryKey(l, a, d) \in ExpiryKeys /\ ExpiryKey(l, a, d) \in Keys
BY DEF ExpiryKey, ExpiryKeys, Keys

\* A place whose row is one of its list, where it has one.
Place(r) == r \in Places /\ (r.at \in {"weigh", "post"} => r.row \in DOMAIN Lists[r.list].rows)

LEMMA FreshType ==
    ASSUME NEW at \in Over \cup {"list"}, NEW now \in Day, NEW attempt \in 1 .. MaxAttempts
    PROVE  Place(Fresh(at, now, attempt))
<1>1. 1 \in DOMAIN Lists BY ListsType
<1> QED BY <1>1 DEF Place, Places, Fresh, Nothing, Running, Over

LEMMA MovedType ==
    ASSUME NEW r \in Places, NEW at \in Running, NEW list \in DOMAIN Lists, NEW row \in Nat,
           NEW seen \in [Account -> Nat], NEW amount \in Nat,
           at \in {"weigh", "post"} => row \in DOMAIN Lists[list].rows
    PROVE  Place(Moved(r, at, list, row, seen, amount))
BY DEF Place, Places, Moved

LEMMA AdvanceType == ASSUME NEW r \in Places PROVE Place(Advance(r))
<1>1. CASE Left(r) # {}
  <2> DEFINE i == CHOOSE i \in Left(r) : \A j \in Left(r) : i <= j
  <2>1. Left(r) \in SUBSET Nat BY ListsType DEF Left, Places
  <2>2. i \in Left(r) BY <1>1, <2>1, Least
  <2>3. i \in Nat /\ i \in DOMAIN Lists[r.list].rows BY <2>1, <2>2 DEF Left
  <2>4. Advance(r) = Moved(r, "weigh", r.list, i, r.seen, 0) BY <1>1 DEF Advance
  <2>5. r.list \in DOMAIN Lists /\ r.seen \in [Account -> Nat] BY DEF Places
  <2> HIDE DEF i
  <2> QED BY <2>3, <2>4, <2>5, MovedType DEF Running
<1>2. CASE Left(r) = {} /\ r.list < Len(Lists)
  <2>1. Advance(r) = Moved(r, "list", r.list + 1, 0, Nothing, 0) BY <1>2 DEF Advance
  <2>2. r.list + 1 \in DOMAIN Lists BY <1>2, ListsType DEF Places
  <2>3. Nothing \in [Account -> Nat] BY DEF Nothing
  <2> QED BY <2>1, <2>2, <2>3, MovedType DEF Running
<1>3. CASE Left(r) = {} /\ ~(r.list < Len(Lists))
  <2>1. Advance(r) = Fresh("done", r.now, 1) /\ r.now \in Day BY <1>3 DEF Advance, Places, Ended
  <2> QED BY <2>1, FreshType, TimeAssumption DEF Over
<1> QED BY <1>1, <1>2, <1>3

LEMMA FailedType == ASSUME NEW r \in Places, day \in Day PROVE Place(Failed(r))
<1>1. 0 \in Day /\ 1 \in 1 .. MaxAttempts BY TimeAssumption DEF Day
<1>2. Place(Fresh("dead", 0, 1)) /\ Place(Fresh("failed", 0, 1)) BY <1>1, FreshType DEF Over
<1>3. CASE r.attempt < MaxAttempts
  <2>1. r.attempt + 1 \in 1 .. MaxAttempts BY <1>3, TimeAssumption DEF Places
  <2> QED BY <1>3, <2>1, FreshType DEF Failed
<1> QED BY <1>2, <1>3 DEF Failed, Ended

----------------------------------------------------------------------------
LEMMA InitTypes == Init => TypeOK
<1> SUFFICES ASSUME Init PROVE TypeOK OBVIOUS
<1>1. 0 \in Day /\ 1 \in 1 .. MaxAttempts /\ 0 \in 0 .. MaxFaults BY TimeAssumption DEF Day
<1>2. Place(Fresh("idle", 0, 1)) BY <1>1, FreshType DEF Over
<1> QED BY <1>1, <1>2 DEF Init, TypeOK, Nothing, Never, Absent, Ended, Place

\* What a run computes is a natural number.
LEMMA AmountType ==
    ASSUME TypeOK, NEW l \in DOMAIN Lists, NEW a \in Account, NEW have \in Nat, NEW now \in Day
    PROVE  /\ Cutoff(now) \in Day
           /\ ExpireAmount(l, a, have, now) \in Nat
<1>1. Cutoff(now) \in Day BY TimeAssumption DEF Cutoff, Day
<1>2. credited[a][Cutoff(now)] \in Nat BY <1>1 DEF TypeOK
<1> QED BY <1>1, <1>2 DEF ExpireAmount

LEMMA AddType ==
    ASSUME NEW f \in [Account -> [Day -> Nat]], NEW a \in Account, NEW n \in Nat, day \in Day
    PROVE  Add(f, a, n) \in [Account -> [Day -> Nat]]
BY DEF Add

\* The step of one runner changes only its place.
LEMMA RunType ==
    ASSUME TypeOK, NEW p \in Runner, NEW s, Place(s), run' = [run EXCEPT ![p] = s]
    PROVE  /\ run' \in [Runner -> Places]
           /\ \A q \in Runner : run'[q].at \in {"weigh", "post"}
                                  => run'[q].row \in DOMAIN Lists[run'[q].list].rows
BY DEF TypeOK, Place

\* The account and the key a runner is at.
LEMMA AtType ==
    ASSUME TypeOK, NEW p \in Runner, run[p].at \in {"weigh", "post"}
    PROVE  /\ run[p] \in Places /\ run[p].list \in DOMAIN Lists /\ run[p].now \in Day
           /\ run[p].amount \in Nat /\ run[p].seen \in [Account -> Nat]
           /\ run[p].row \in DOMAIN Lists[run[p].list].rows /\ run[p].row \in Nat
           /\ This(p) \in Account
           /\ KeyOf(p) \in ExpiryKeys /\ KeyOf(p) \in Keys
<1>1. run[p] \in Places /\ run[p].row \in DOMAIN Lists[run[p].list].rows BY DEF TypeOK
<1>2. /\ run[p].list \in DOMAIN Lists /\ run[p].now \in Day /\ run[p].row \in Nat
      /\ run[p].amount \in Nat /\ run[p].seen \in [Account -> Nat] BY <1>1 DEF Places
<1>3. This(p) \in Account BY <1>1, <1>2, ListsType DEF This
<1> QED BY <1>1, <1>2, <1>3, ExpiryKeyType DEF KeyOf

\* What operators do to accounts, assets and rules leaves the books and the runs alone.
Setting == (\E a \in Disableable : SetStatus(a)) \/ (\E accounts \in Bars : SetBar(accounts))

LEMMA SettingKeeps ==
    Setting => UNCHANGED <<day, first, run, faults, available, credited, spent, records, vouchers, late>>
BY DEF Setting, SetStatus, SetBar, books

LEMMA StepTypes == TypeOK /\ [Next]_vars => TypeOK'
<1> SUFFICES ASSUME TypeOK, [Next]_vars PROVE TypeOK' OBVIOUS
<1>0. day \in Day /\ run \in [Runner -> Places] /\ MaxDay \in Nat /\ MaxFaults \in Nat /\ faults \in Nat
      BY TimeAssumption DEF TypeOK
<1>1. ASSUME NEW p \in Runner, Start(p) PROVE TypeOK'
  <2>1. 1 \in 1 .. MaxAttempts BY TimeAssumption
  <2>2. Place(Fresh("list", day, 1)) BY <1>0, <2>1, FreshType
  <2> QED BY <1>1, <2>2, RunType DEF Start, TypeOK, books
<1>2. ASSUME NEW p \in Runner, List(p) PROVE TypeOK'
  <2> DEFINE rows == Lists[run[p].list].rows
             seen == [a \in Account |-> IF \E i \in DOMAIN rows : rows[i] = a THEN available[a] ELSE 0]
             s == Moved(run[p], "list", run[p].list, 0, seen, 0)
  <2>1. seen \in [Account -> Nat] BY DEF TypeOK
  <2>2. run[p] \in Places /\ run[p].list \in DOMAIN Lists BY <1>0 DEF Places
  <2> HIDE DEF seen
  <2>3. s \in Places BY <2>1, <2>2, MovedType DEF Running, Place
  <2>4. Place(Advance(s)) BY <2>3, AdvanceType
  <2>5. run' = [run EXCEPT ![p] = Advance(s)] BY <1>2, <1>0 DEF List, seen
  <2> HIDE DEF s
  <2> QED BY <1>2, <2>4, <2>5, RunType DEF List, TypeOK, books
<1>3. ASSUME NEW p \in Runner, Weigh(p) PROVE TypeOK'
  <2> DEFINE amount == ExpireAmount(run[p].list, This(p), run[p].seen[This(p)], run[p].now)
             s == IF amount > 0 THEN Moved(run[p], "post", run[p].list, run[p].row, run[p].seen, amount)
                                ELSE Advance(run[p])
  <2>1. amount \in Nat BY <1>3, AtType, AmountType DEF Weigh
  <2>2. run' = [run EXCEPT ![p] = s] BY <1>3, <1>0 DEF Weigh
  <2> HIDE DEF amount
  <2>3. Place(s) BY <1>3, <2>1, AtType, MovedType, AdvanceType DEF Weigh, Running
  <2> HIDE DEF s
  <2> QED BY <1>3, <2>2, <2>3, RunType DEF Weigh, TypeOK, books
<1>4. ASSUME NEW p \in Runner, Expire(p) PROVE TypeOK'
  <2>1. Place(Advance(run[p])) BY <1>0, AdvanceType
  <2>2. run' = [run EXCEPT ![p] = Advance(run[p])] BY <1>4, <1>0 DEF Expire
  <2>3. This(p) \in Account /\ KeyOf(p) \in Keys /\ run[p].amount \in Nat BY <1>4, AtType DEF Expire
  <2>4. available' \in [Account -> Nat]
    <3>1. run[p].amount <= available[This(p)] /\ available[This(p)] \in Nat
          BY <1>4, <2>3 DEF Expire, Covers, TypeOK
    <3>2. available[This(p)] - run[p].amount \in Nat BY <2>3, <3>1
    <3> QED BY <1>4, <2>3, <3>2 DEF Expire, TypeOK
  <2>5. records' \in [Keys -> Day \cup {Absent}] BY <1>4, <1>0, <2>3 DEF Expire, TypeOK
  <2>6. vouchers' \in [Keys -> Nat]
    <3>1. vouchers[KeyOf(p)] + 1 \in Nat BY <2>3 DEF TypeOK
    <3> QED BY <1>4, <2>3, <3>1 DEF Expire, TypeOK
  <2>7. late' \subseteq Account BY <1>4, <2>3 DEF Expire, TypeOK
  <2>8. UNCHANGED <<day, disabled, barred, credited, spent, first, faults>> BY <1>4 DEF Expire
  <2> QED BY <2>1, <2>2, <2>4, <2>5, <2>6, <2>7, <2>8, RunType DEF TypeOK
<1>5. ASSUME NEW p \in Runner, Repeat(p) PROVE TypeOK'
  <2>1. Place(Advance(run[p])) BY <1>0, AdvanceType
  <2>2. run' = [run EXCEPT ![p] = Advance(run[p])] BY <1>5, <1>0 DEF Repeat
  <2> QED BY <1>5, <2>1, <2>2, RunType DEF Repeat, TypeOK, books
<1>6. ASSUME NEW p \in Runner, Refuse(p) PROVE TypeOK'
  <2>1. Place(Failed(run[p])) BY <1>0, FailedType
  <2>2. run' = [run EXCEPT ![p] = Failed(run[p])] BY <1>6, <1>0 DEF Refuse
  <2> QED BY <1>6, <2>1, <2>2, RunType DEF Refuse, TypeOK, books
<1>7. ASSUME NEW p \in Runner, Break(p) PROVE TypeOK'
  <2>1. Place(Failed(run[p])) BY <1>0, FailedType
  <2>2. run' = [run EXCEPT ![p] = Failed(run[p])] BY <1>7, <1>0 DEF Break
  <2>3. faults' \in 0 .. MaxFaults BY <1>0, <1>7 DEF Break, TypeOK
  <2> QED BY <1>7, <2>1, <2>2, <2>3, RunType DEF Break, TypeOK, books
<1>8. ASSUME NEW p \in Runner, Die(p) PROVE TypeOK'
  <2>1. Place(Fresh("idle", 0, 1)) BY FreshType, TimeAssumption DEF Over, Day
  <2>2. run' = [run EXCEPT ![p] = Fresh("idle", 0, 1)] BY <1>8 DEF Die, Ended
  <2>3. faults' \in 0 .. MaxFaults BY <1>0, <1>8 DEF Die, TypeOK
  <2> QED BY <1>8, <2>1, <2>2, <2>3, RunType DEF Die, TypeOK, books
<1>9. ASSUME NEW r \in Request, Book(r) PROVE TypeOK'
  <2> DEFINE a == Holder[r]
  <2>1. a \in Account /\ Change[r] \in Int /\ r \in Keys BY RequestAssumption DEF Keys
  <2>2. available[a] \in Nat /\ available[a] + Change[r] \in Nat BY <1>9, <2>1 DEF Book, TypeOK
  <2>3. available' \in [Account -> Nat] BY <1>9, <2>1, <2>2 DEF Book, TypeOK
  <2>4. credited' \in [Account -> [Day -> Nat]]
    <3>1. Change[r] > 0 => Change[r] \in Nat BY <2>1
    <3> QED BY <1>9, <1>0, <2>1, <3>1, AddType DEF Book, TypeOK
  <2>5. spent' \in [Account -> [Day -> Nat]]
    <3>1. Change[r] < 0 => -Change[r] \in Nat BY <2>1
    <3> QED BY <1>9, <1>0, <2>1, <3>1, AddType DEF Book, TypeOK
  <2>6. records' \in [Keys -> Day \cup {Absent}] BY <1>9, <1>0, <2>1 DEF Book, TypeOK
  <2>7. vouchers' \in [Keys -> Nat]
    <3>1. vouchers[r] + 1 \in Nat BY <2>1 DEF TypeOK
    <3> QED BY <1>9, <2>1, <3>1 DEF Book, TypeOK
  <2>8. first' \in [Request -> Day \cup {Never}] BY <1>9, <1>0 DEF Book, Called, TypeOK
  <2>9. UNCHANGED <<day, disabled, barred, run, late, faults>> BY <1>9 DEF Book
  <2> QED BY <2>3, <2>4, <2>5, <2>6, <2>7, <2>8, <2>9 DEF TypeOK
<1>10. ASSUME NEW r \in Request, Bounce(r) PROVE TypeOK'
  BY <1>10, <1>0 DEF Bounce, Called, TypeOK, books
<1>11. ASSUME Setting PROVE TypeOK'
  <2>1. disabled' \subseteq Account /\ barred' \subseteq Account
    BY <1>11, RequestAssumption DEF Setting, SetStatus, SetBar, TypeOK
  <2>2. UNCHANGED <<day, first, run, faults, available, credited, spent, records, vouchers, late>>
    BY <1>11, SettingKeeps
  <2> QED BY <2>1, <2>2 DEF TypeOK
<1>12. CASE Purge
  <2>1. records' \in [Keys -> Day \cup {Absent}] BY <1>12 DEF Purge, TypeOK
  <2> QED BY <1>12, <2>1 DEF Purge, TypeOK
<1>13. CASE Midnight
  <2>1. day' \in Day BY <1>13, <1>0 DEF Midnight, Day
  <2> QED BY <1>13, <2>1 DEF Midnight, TypeOK, books
<1>14. CASE UNCHANGED vars BY <1>14 DEF vars, TypeOK
<1> QED BY <1>1, <1>2, <1>3, <1>4, <1>5, <1>6, <1>7, <1>8, <1>9, <1>10, <1>11, <1>12, <1>13, <1>14
        DEF Next, Statement, Setting

\* Types hold on every behaviour.
THEOREM ExpiryTypes == Spec => []TypeOK
<1>1. Init => TypeOK BY InitTypes
<1>2. TypeOK /\ [Next]_vars => TypeOK' BY StepTypes
<1> QED BY <1>1, <1>2, PTL DEF Spec

----------------------------------------------------------------------------
(* A key is posted once.                                                    *)

\* A key that was posted has a record until its owner no longer uses it: a client stops
\* RetryDays after its first call, a run ends within RunDays of its date.
Used ==
    /\ \A k \in Keys : vouchers[k] <= 1
    /\ \A r \in Request : first[r] <= day
    /\ \A r \in Request : vouchers[r] # 0 =>
         /\ first[r] # Never
         /\ IF records[r] = Absent THEN first[r] + Retain < day ELSE first[r] <= records[r]
    /\ \A e \in ExpiryKeys : vouchers[e] # 0 =>
         IF records[e] = Absent THEN e[3] + Retain < day ELSE e[3] <= records[e]
Timely == \A p \in Runner : Busy(p) => run[p].now <= day /\ day <= run[p].now + RunDays

LEMMA NowKept ==
    ASSUME NEW r \in Places
    PROVE  /\ Advance(r).now = r.now
           /\ Advance(r).at \in Running => Advance(r).at \in {"list", "weigh"}
           /\ Failed(r).at \in Running => Failed(r).at = "list" /\ Failed(r).now = day
<1>1. /\ Advance(r).now = r.now
      /\ Advance(r).at \in Running => Advance(r).at \in {"list", "weigh"}
  BY DEF Advance, Moved, Ended, Fresh, Running
<1>2. Failed(r).at \in Running => Failed(r).at = "list" /\ Failed(r).now = day
  BY DEF Failed, Ended, Fresh, Running
<1> QED BY <1>1, <1>2

LEMMA StepTimely == TypeOK /\ Timely /\ [Next]_vars => Timely'
<1> SUFFICES ASSUME TypeOK, Timely, [Next]_vars PROVE Timely' OBVIOUS
<1>0. day \in Nat /\ RunDays \in Nat /\ \A p \in Runner : run[p] \in Places /\ run[p].now \in Nat
      BY TimeAssumption DEF TypeOK, Day, Places
<1>1. ASSUME NEW p \in Runner, Start(p) PROVE Timely'
  <2>1. day' = day /\ run' = [run EXCEPT ![p] = Fresh("list", day, 1)] BY <1>1 DEF Start
  <2> QED BY <1>0, <2>1 DEF Timely, Busy, TypeOK, Fresh
<1>2. ASSUME NEW p \in Runner, NEW s, run' = [run EXCEPT ![p] = s], day' = day, Busy(p),
             s.at \in Running => s.now = run[p].now \/ s.now = day
      PROVE  Timely'
  <2>1. ASSUME NEW q \in Runner, q # p PROVE run'[q] = run[q] BY <1>2, <2>1 DEF TypeOK
  <2>2. run'[p] = s BY <1>2 DEF TypeOK
  <2> QED BY <1>0, <1>2, <2>1, <2>2 DEF Timely, Busy
<1>3. ASSUME NEW p \in Runner, Statement(p) \/ Break(p) \/ Die(p) PROVE Timely'
  <2>1. Busy(p) BY <1>3 DEF Statement, List, Weigh, Expire, Repeat, Refuse, Break, Die, Busy, Running
  <2>2. CASE List(p)
    <3> DEFINE rows == Lists[run[p].list].rows
               seen == [a \in Account |-> IF \E i \in DOMAIN rows : rows[i] = a THEN available[a] ELSE 0]
               s == Moved(run[p], "list", run[p].list, 0, seen, 0)
    <3>1. seen \in [Account -> Nat] BY DEF TypeOK
    <3>2. run[p].list \in DOMAIN Lists BY <1>0 DEF Places
    <3>3. run' = [run EXCEPT ![p] = Advance(s)] /\ day' = day BY <2>2, <1>0 DEF List, TypeOK
    <3> HIDE DEF seen
    <3>4. s \in Places /\ s.now = run[p].now
          BY <1>0, <3>1, <3>2, MovedType DEF Running, Place, Moved
    <3> HIDE DEF s
    <3>5. Advance(s).now = run[p].now BY <3>4, NowKept
    <3> QED BY <1>2, <2>1, <3>3, <3>5
  <2>3. CASE Weigh(p)
    <3>1. PICK amount : run' = [run EXCEPT ![p] =
                 IF amount > 0 THEN Moved(run[p], "post", run[p].list, run[p].row, run[p].seen, amount)
                               ELSE Advance(run[p])]
          BY <2>3, <1>0 DEF Weigh, TypeOK
    <3> DEFINE s == IF amount > 0 THEN Moved(run[p], "post", run[p].list, run[p].row, run[p].seen, amount)
                                  ELSE Advance(run[p])
    <3>2. s.now = run[p].now BY <1>0, NowKept DEF Moved
    <3>3. run' = [run EXCEPT ![p] = s] /\ day' = day BY <2>3, <3>1 DEF Weigh
    <3> HIDE DEF s
    <3> QED BY <1>2, <2>1, <3>2, <3>3
  <2>4. CASE Expire(p) \/ Repeat(p)
    <3>1. run' = [run EXCEPT ![p] = Advance(run[p])] /\ day' = day
          BY <2>4, <1>0 DEF Expire, Repeat, TypeOK
    <3>2. Advance(run[p]).now = run[p].now BY <1>0, NowKept
    <3> QED BY <1>2, <2>1, <3>1, <3>2
  <2>5. CASE Refuse(p) \/ Break(p)
    <3>1. run' = [run EXCEPT ![p] = Failed(run[p])] /\ day' = day
          BY <2>5, <1>0 DEF Refuse, Break, TypeOK
    <3>2. Failed(run[p]).at \in Running => Failed(run[p]).now = day BY <1>0, NowKept
    <3> QED BY <1>2, <2>1, <3>1, <3>2
  <2>6. CASE Die(p)
    <3>1. run' = [run EXCEPT ![p] = Fresh("idle", 0, 1)] /\ day' = day BY <2>6 DEF Die, Ended
    <3>2. Fresh("idle", 0, 1).at \notin Running BY DEF Fresh, Running
    <3> QED BY <1>2, <2>1, <3>1, <3>2
  <2> QED BY <1>3, <2>2, <2>3, <2>4, <2>5, <2>6 DEF Statement
<1>4. CASE UNCHANGED <<run, day>> BY <1>4 DEF Timely, Busy
<1>5. CASE Midnight BY <1>0, <1>5 DEF Midnight, Timely, Busy
<1>6. ASSUME NEW r \in Request, Book(r) \/ Bounce(r) PROVE UNCHANGED <<run, day>>
  BY <1>6 DEF Book, Bounce
<1>7. Setting => UNCHANGED <<run, day>> BY SettingKeeps
<1>8. Purge \/ UNCHANGED vars => UNCHANGED <<run, day>> BY DEF Purge, vars
<1> QED BY <1>1, <1>3, <1>4, <1>5, <1>6, <1>7, <1>8 DEF Next, Setting

\* Posting under key k adds its record of today.
LEMMA PostKeepsUsed ==
    ASSUME TypeOK, Used, NEW k \in Keys, vouchers[k] = 0, day' = day,
           records' = [records EXCEPT ![k] = day], vouchers' = [vouchers EXCEPT ![k] = @ + 1],
           \A r \in Request : first'[r] = first[r] \/ (first[r] = Never /\ first'[r] = day),
           k \in Request => first'[k] # Never,
           k \in ExpiryKeys => k[3] <= day
    PROVE  Used'
<1>0. day \in Nat /\ day # Absent /\ Request \subseteq Keys /\ ExpiryKeys \subseteq Keys
  BY DEF TypeOK, Day, Keys, Absent, Never
<1>1. /\ \A m \in Keys : m # k => records'[m] = records[m] /\ vouchers'[m] = vouchers[m]
      /\ records'[k] = day /\ vouchers'[k] = 1 BY DEF TypeOK
<1>2. \A m \in Keys : vouchers'[m] <= 1 BY <1>1 DEF Used
<1>3. \A r \in Request : first'[r] <= day' BY <1>0 DEF Used
<1>4. ASSUME NEW r \in Request, vouchers'[r] # 0
      PROVE  /\ first'[r] # Never
             /\ IF records'[r] = Absent THEN first'[r] + Retain < day' ELSE first'[r] <= records'[r]
  <2>1. CASE r = k BY <1>0, <1>1, <1>3, <2>1
  <2>2. CASE r # k
    <3>1. vouchers[r] # 0 /\ records'[r] = records[r] BY <1>0, <1>1, <1>4, <2>2
    <3>2. first[r] # Never /\ first'[r] = first[r] BY <3>1 DEF Used
    <3> QED BY <3>1, <3>2 DEF Used
  <2> QED BY <2>1, <2>2
<1>5. ASSUME NEW e \in ExpiryKeys, vouchers'[e] # 0
      PROVE  IF records'[e] = Absent THEN e[3] + Retain < day' ELSE e[3] <= records'[e]
  <2>1. CASE e = k BY <1>0, <1>1, <2>1
  <2>2. CASE e # k BY <1>0, <1>1, <1>5, <2>2 DEF Used
  <2> QED BY <2>1, <2>2
<1> QED BY <1>2, <1>3, <1>4, <1>5 DEF Used

LEMMA StepUsed == TypeOK /\ Timely /\ Used /\ [Next]_vars => Used'
<1> SUFFICES ASSUME TypeOK, Timely, Used, [Next]_vars PROVE Used' OBVIOUS
<1>0. /\ day \in Nat /\ Retain \in Nat /\ RetryDays \in Nat /\ RunDays \in Nat
      /\ RetryDays <= Retain /\ RunDays <= Retain
      /\ Request \subseteq Keys /\ ExpiryKeys \subseteq Keys
      /\ \A k \in Keys : vouchers[k] \in Nat
      /\ \A r \in Request : first[r] # Never => first[r] \in Nat
  BY TimeAssumption DEF TypeOK, Day, Keys, Never
<1>1. CASE UNCHANGED <<day, records, vouchers, first>> BY <1>1 DEF Used
<1>2. ASSUME NEW p \in Runner, Expire(p) PROVE Used'
  <2>1. /\ KeyOf(p) \in ExpiryKeys /\ KeyOf(p) \in Keys /\ run[p].now \in Nat
        /\ run[p].now <= day /\ day <= run[p].now + RunDays
    BY <1>2, AtType DEF Expire, Timely, Busy, Running, Day
  <2>2. KeyOf(p)[3] = run[p].now BY DEF KeyOf, ExpiryKey
  <2>3. records[KeyOf(p)] = Absent BY <1>2 DEF Expire
  <2>4. vouchers[KeyOf(p)] = 0
    <3> SUFFICES ASSUME vouchers[KeyOf(p)] # 0 PROVE FALSE OBVIOUS
    <3>1. KeyOf(p)[3] + Retain < day BY <2>1, <2>3 DEF Used
    <3> QED BY <1>0, <2>1, <2>2, <3>1
  <2>5. KeyOf(p) \notin Request BY <2>1, KeyAssumption
  <2>6. /\ records' = [records EXCEPT ![KeyOf(p)] = day]
        /\ vouchers' = [vouchers EXCEPT ![KeyOf(p)] = @ + 1]
        /\ first' = first /\ day' = day
    BY <1>2 DEF Expire
  <2> HIDE DEF KeyOf
  <2> QED BY <2>1, <2>2, <2>4, <2>5, <2>6, PostKeepsUsed
<1>3. ASSUME NEW r \in Request, Book(r) PROVE Used'
  <2>1. records[r] = Absent /\ r \in Keys /\ r \notin ExpiryKeys BY <1>0, <1>3, KeyAssumption DEF Book
  <2>2. vouchers[r] = 0
    <3> SUFFICES ASSUME vouchers[r] # 0 PROVE FALSE OBVIOUS
    <3>1. first[r] # Never /\ first[r] + Retain < day BY <2>1 DEF Used
    <3>2. day <= first[r] + RetryDays BY <1>3, <3>1 DEF Book, MayCall
    <3> QED BY <1>0, <3>1, <3>2
  <2>3. /\ records' = [records EXCEPT ![r] = day]
        /\ vouchers' = [vouchers EXCEPT ![r] = @ + 1] /\ day' = day
        /\ first' = [first EXCEPT ![r] = IF @ = Never THEN day ELSE @]
    BY <1>3 DEF Book, Called
  <2>4. \A q \in Request : first'[q] = first[q] \/ (first[q] = Never /\ first'[q] = day)
    BY <2>3 DEF TypeOK
  <2>5. first'[r] # Never BY <1>0, <2>3 DEF TypeOK, Never
  <2> QED BY <2>1, <2>2, <2>3, <2>4, <2>5, PostKeepsUsed
<1>4. ASSUME NEW r \in Request, Bounce(r) PROVE Used'
  <2>1. UNCHANGED <<day, records, vouchers>> BY <1>4 DEF Bounce, books
  <2>2. first' = [first EXCEPT ![r] = IF @ = Never THEN day ELSE @] BY <1>4 DEF Bounce, Called
  <2>3. \A q \in Request : first'[q] = first[q] \/ (first[q] = Never /\ first'[q] = day)
    BY <2>2 DEF TypeOK
  <2> QED BY <1>0, <2>1, <2>3 DEF Used
<1>5. CASE Purge
  <2>1. UNCHANGED <<day, vouchers, first>> BY <1>5 DEF Purge
  <2>2. \A k \in Keys : IF records'[k] = Absent THEN records[k] = Absent \/ records[k] < day - Retain
                                               ELSE records'[k] = records[k]
    <3> SUFFICES ASSUME NEW k \in Keys
                 PROVE  IF records'[k] = Absent THEN records[k] = Absent \/ records[k] < day - Retain
                                                ELSE records'[k] = records[k]
      OBVIOUS
    <3>1. records'[k] = IF Kept(records[k]) THEN records[k] ELSE Absent BY <1>5 DEF Purge
    <3>2. records[k] \in Day \cup {Absent} BY DEF TypeOK
    <3> QED BY <1>0, <3>1, <3>2 DEF Kept, Day
  <2>3. ASSUME NEW r \in Request, vouchers'[r] # 0
        PROVE  /\ first'[r] # Never
               /\ IF records'[r] = Absent THEN first'[r] + Retain < day' ELSE first'[r] <= records'[r]
    <3>1. r \in Keys /\ first[r] # Never
          /\ IF records[r] = Absent THEN first[r] + Retain < day ELSE first[r] <= records[r]
      BY <1>0, <2>1, <2>3 DEF Used
    <3>2. records[r] \in Day \cup {Absent} /\ first[r] \in Nat BY <1>0, <3>1 DEF TypeOK
    <3> QED BY <1>0, <2>1, <2>2, <3>1, <3>2 DEF Day, Absent, Never
  <2>4. ASSUME NEW e \in ExpiryKeys, vouchers'[e] # 0
        PROVE  IF records'[e] = Absent THEN e[3] + Retain < day' ELSE e[3] <= records'[e]
    <3>1. e \in Keys /\ IF records[e] = Absent THEN e[3] + Retain < day ELSE e[3] <= records[e]
      BY <1>0, <2>1, <2>4 DEF Used
    <3>2. records[e] \in Day \cup {Absent} BY <3>1 DEF TypeOK
    <3>3. e[3] \in Nat BY DEF ExpiryKeys, Day
    <3> QED BY <1>0, <2>1, <2>2, <3>1, <3>2, <3>3 DEF Day, Absent, Never
  <2> QED BY <2>1, <2>3, <2>4 DEF Used
<1>6. CASE Midnight
  <2>1. UNCHANGED <<records, vouchers, first>> /\ day' = day + 1 BY <1>6 DEF Midnight, books
  <2>2. \A e \in ExpiryKeys : e[3] \in Nat BY DEF ExpiryKeys, Day
  <2>3. \A r \in Request : first[r] \in Int BY DEF TypeOK, Day, Never
  <2> QED BY <1>0, <2>1, <2>2, <2>3 DEF Used
<1>7. ASSUME NEW p \in Runner, Start(p) \/ List(p) \/ Weigh(p) \/ Repeat(p) \/ Refuse(p) \/ Break(p) \/ Die(p)
      PROVE  UNCHANGED <<day, records, vouchers, first>>
  BY <1>7 DEF Start, List, Weigh, Repeat, Refuse, Break, Die, books
<1>8. Setting => UNCHANGED <<day, records, vouchers, first>> BY SettingKeeps
<1>9. UNCHANGED vars => UNCHANGED <<day, records, vouchers, first>> BY DEF vars
<1> QED BY <1>1, <1>2, <1>3, <1>4, <1>5, <1>6, <1>7, <1>8, <1>9 DEF Next, Statement, Setting

LEMMA InitUsed == Init => Used /\ Timely
<1> SUFFICES ASSUME Init PROVE Used /\ Timely OBVIOUS
<1>1. Timely BY DEF Init, Timely, Busy, Ended, Fresh, Running
<1>2. \A r \in Request : r \in Keys BY DEF Keys
<1>3. \A e \in ExpiryKeys : e \in Keys BY DEF Keys
<1>4. Used BY <1>2, <1>3 DEF Init, Used, Never
<1> QED BY <1>1, <1>4

\* PostedOnce holds on every behaviour: whatever the purge deletes, no retry within the
\* retention and no two runs of one day post a key again.
THEOREM PurgeSafe == Spec => []PostedOnce
<1>1. Init => TypeOK /\ Timely /\ Used BY InitTypes, InitUsed
<1>2. TypeOK /\ Timely /\ Used /\ [Next]_vars => (TypeOK /\ Timely /\ Used)'
  BY StepTypes, StepTimely, StepUsed
<1>3. Used => PostedOnce BY DEF Used, PostedOnce
<1> QED BY <1>1, <1>2, <1>3, PTL DEF Spec

----------------------------------------------------------------------------
(* Recent points are kept.                                                  *)

\* What an account was credited lately only shrinks with the day it is counted from, and
\* nothing is credited in the future.
Lots == \A a \in Account : \A d, e \in Day :
          /\ d <= e => credited[a][e] <= credited[a][d]
          /\ d > day => credited[a][d] = 0

\* A record of an expiry is not older than the date in its key, so no purge of that day
\* deletes it.
Dated == \A e \in ExpiryKeys : records[e] # Absent => e[3] <= records[e]

\* Account a can give x and keep what was credited on the days the policy spares.
Room(a, x) == \A d \in Day : Cutoff(day) <= d /\ d <= day => x <= available[a] + spent[a][d] - credited[a][d]

\* Row i of the list that p goes through today, unless an expiry was posted for it.
Row(p, i) == Lists[run[p].list].rows[i]
Pending(p, i) ==
    /\ run[p].at \in {"weigh", "post"} /\ run[p].now = day
    /\ Lists[run[p].list].policy = "rolling_days" /\ i \in DOMAIN Lists[run[p].list].rows
    /\ Row(p, i) \notin late /\ records[ExpiryKey(run[p].list, Row(p, i), day)] = Absent

\* What a run of today computed, or will compute, of balances it read before, an account
\* that was not expired since can give.
Sound(p) == \A i \in Nat : Pending(p, i) =>
    /\ Room(Row(p, i), run[p].seen[Row(p, i)] - credited[Row(p, i)][Cutoff(day)])
    /\ run[p].at = "post" /\ i = run[p].row => Room(Row(p, i), run[p].amount)

RecentInv == Lots /\ Dated /\ RecentPointsKept /\ \A p \in Runner : Sound(p)

\* What an account can give stays as it is, as far as the past goes.
Same(a) == \A d \in Day : d <= day =>
    /\ available'[a] + spent'[a][d] - credited'[a][d] = available[a] + spent[a][d] - credited[a][d]
    /\ credited[a][d] <= credited'[a][d]

LEMMA BookTypes ==
    ASSUME TypeOK
    PROVE  /\ day \in Nat /\ Cutoff(day) \in Day /\ Cutoff(day) <= day
           /\ \A d \in Day : d \in Nat /\ (d >= day - Days => Cutoff(day) <= d)
           /\ \A a \in Account : available[a] \in Nat
           /\ \A a \in Account : \A d \in Day : spent[a][d] \in Nat /\ credited[a][d] \in Nat
<1> QED BY TimeAssumption DEF TypeOK, Day, Cutoff

\* An account is on one list, and once.
LEMMA OneRow ==
    ASSUME NEW l \in DOMAIN Lists, NEW m \in DOMAIN Lists, NEW i \in DOMAIN Lists[l].rows,
           NEW j \in DOMAIN Lists[m].rows, Lists[l].rows[i] = Lists[m].rows[j]
    PROVE  l = m /\ i = j
BY ListsAssumption

LEMMA RowType ==
    ASSUME TypeOK, NEW p \in Runner, NEW i \in DOMAIN Lists[run[p].list].rows
    PROVE  /\ run[p].list \in DOMAIN Lists /\ Row(p, i) \in Account /\ i \in Nat
           /\ run[p].seen[Row(p, i)] \in Nat /\ run[p].amount \in Nat
<1>1. run[p] \in Places BY DEF TypeOK
<1>2. run[p].list \in DOMAIN Lists /\ run[p].seen \in [Account -> Nat] /\ run[p].amount \in Nat
  BY <1>1 DEF Places
<1> QED BY <1>2, ListsType DEF Row

\* A step that leaves a run where it was, or takes it to the next row, keeps what it
\* computed sound, if the accounts that were not expired meanwhile can give what they could.
LEMMA KeepsSound ==
    ASSUME TypeOK, TypeOK', NEW p \in Runner, Sound(p), day' = day, late \subseteq late',
           run'[p].at \in {"weigh", "post"} =>
               /\ run[p].at \in {"weigh", "post"}
               /\ run'[p].list = run[p].list /\ run'[p].now = run[p].now /\ run'[p].seen = run[p].seen
               /\ run'[p].at = "post" =>
                     run[p].at = "post" /\ run'[p].row = run[p].row /\ run'[p].amount = run[p].amount,
           \A l \in DOMAIN Lists : \A i \in DOMAIN Lists[l].rows :
               Lists[l].rows[i] \notin late' /\ records'[ExpiryKey(l, Lists[l].rows[i], day)] = Absent =>
                   records[ExpiryKey(l, Lists[l].rows[i], day)] = Absent /\ Same(Lists[l].rows[i])
    PROVE  Sound(p)'
<1> SUFFICES ASSUME NEW i \in Nat, Pending(p, i)'
             PROVE  /\ Room(Row(p, i), run[p].seen[Row(p, i)] - credited[Row(p, i)][Cutoff(day)])'
                    /\ (run[p].at = "post" /\ i = run[p].row => Room(Row(p, i), run[p].amount))'
  BY DEF Sound
<1>1. /\ run'[p].at \in {"weigh", "post"} /\ run[p].at \in {"weigh", "post"}
      /\ run'[p].list = run[p].list /\ run'[p].now = run[p].now /\ run'[p].seen = run[p].seen
      /\ i \in DOMAIN Lists[run[p].list].rows
  BY DEF Pending
<1>2. PICK a : a = Row(p, i) OBVIOUS
<1>3. a \in Account /\ Row(p, i)' = a /\ a = Lists[run[p].list].rows[i] /\ run[p].list \in DOMAIN Lists
  BY <1>1, <1>2, RowType DEF Row
<1>4. Pending(p, i) /\ Same(a)
  <2>1. a \notin late' /\ records'[ExpiryKey(run[p].list, a, day)] = Absent
    BY <1>1, <1>3 DEF Pending
  <2>2. records[ExpiryKey(run[p].list, a, day)] = Absent /\ Same(a) BY <1>1, <1>3, <2>1
  <2>3. a \notin late BY <2>1
  <2>4. run[p].now = day /\ Lists[run[p].list].policy = "rolling_days" BY <1>1 DEF Pending
  <2> QED BY <1>1, <1>2, <2>2, <2>3, <2>4 DEF Pending
<1>5. /\ Room(a, run[p].seen[a] - credited[a][Cutoff(day)])
      /\ run[p].at = "post" /\ i = run[p].row => Room(a, run[p].amount)
  BY <1>2, <1>4 DEF Sound
<1>6. Cutoff(day)' = Cutoff(day) BY DEF Cutoff
<1>7. PICK x : x = run[p].seen[a] BY <1>1
<1>8. PICK y : y = run[p].amount BY <1>1
<1>9. x \in Nat /\ y \in Nat BY <1>1, <1>2, <1>7, <1>8, RowType
<1>10. ASSUME NEW d \in Day, Cutoff(day) <= d, d <= day
       PROVE  x - credited'[a][Cutoff(day)] <= available'[a] + spent'[a][d] - credited'[a][d]
  <2>1. x - credited[a][Cutoff(day)] <= available[a] + spent[a][d] - credited[a][d]
    BY <1>5, <1>7, <1>10 DEF Room
  <2>2. credited[a][Cutoff(day)] <= credited'[a][Cutoff(day)] BY <1>4, BookTypes DEF Same
  <2>3. available'[a] + spent'[a][d] - credited'[a][d] = available[a] + spent[a][d] - credited[a][d]
    BY <1>4, <1>10 DEF Same
  <2>4. PICK c, e, m : c = credited[a][Cutoff(day)] /\ e = credited'[a][Cutoff(day)]
                       /\ m = available[a] + spent[a][d] - credited[a][d]
    OBVIOUS
  <2>5. c \in Nat /\ e \in Nat /\ m \in Int
    <3>1. c \in Nat BY <1>3, <2>4, BookTypes
    <3>2. e \in Nat
      <4>1. credited' \in [Account -> [Day -> Nat]] BY DEF TypeOK
      <4>2. Cutoff(day) \in Day BY BookTypes
      <4> QED BY <1>3, <2>4, <4>1, <4>2
    <3>3. available[a] \in Nat /\ spent[a][d] \in Nat /\ credited[a][d] \in Nat BY <1>3, BookTypes
    <3> QED BY <2>4, <3>1, <3>2, <3>3
  <2>6. x - c <= m /\ c <= e BY <2>1, <2>2, <2>4
  <2>7. x - e <= m BY <1>9, <2>5, <2>6
  <2> QED BY <2>3, <2>4, <2>7
<1>11. (Room(a, x - credited[a][Cutoff(day)]))'
  BY <1>6, <1>10 DEF Room
<1>12. run'[p].at = "post" /\ i = run'[p].row => Room(a, y)'
  <2> SUFFICES ASSUME run'[p].at = "post", i = run'[p].row, NEW d \in Day, Cutoff(day) <= d, d <= day
               PROVE  y <= available'[a] + spent'[a][d] - credited'[a][d]
    BY <1>6 DEF Room
  <2>1. Room(a, y) BY <1>1, <1>5, <1>8
  <2>2. available'[a] + spent'[a][d] - credited'[a][d] = available[a] + spent[a][d] - credited[a][d]
    BY <1>4 DEF Same
  <2> QED BY <2>1, <2>2 DEF Room
<1>13. run'[p].seen[a] = x /\ (run'[p].at = "post" => run'[p].amount = y)
  BY <1>1, <1>7, <1>8
<1> QED BY <1>3, <1>6, <1>11, <1>12, <1>13 DEF Room

LEMMA AdvanceKeeps ==
    ASSUME NEW r \in Places
    PROVE  /\ Advance(r).at # "post" /\ Advance(r).now = r.now
           /\ Advance(r).at = "weigh" => Advance(r).list = r.list /\ Advance(r).seen = r.seen
BY DEF Advance, Moved, Ended, Fresh

\* The books of an account that nobody writes.
LEMMA QuietSame ==
    ASSUME TypeOK, NEW a \in Account,
           available'[a] = available[a], spent'[a] = spent[a], credited'[a] = credited[a]
    PROVE  Same(a)
BY BookTypes DEF Same

\* A Credit or a Debit adds alike to what is there and to what counts since every day past.
LEMMA BookSame ==
    ASSUME TypeOK, NEW r \in Request, Book(r)
    PROVE  /\ Lots => Lots'
           /\ \A a \in Account : Same(a)
<1> DEFINE b == Holder[r]
<1>0. b \in Account /\ Change[r] \in Int /\ day \in Nat /\ day' = day
  BY RequestAssumption, BookTypes DEF Book
<1>1. PICK n \in Int : n = Change[r] BY <1>0
<1>2. /\ available' = [available EXCEPT ![b] = @ + n]
      /\ credited' = IF n > 0 THEN Add(credited, b, n) ELSE credited
      /\ spent' = IF n < 0 THEN Add(spent, b, -n) ELSE spent
  BY <1>1 DEF Book
<1>3. ASSUME NEW a \in Account, a # b
      PROVE  available'[a] = available[a] /\ spent'[a] = spent[a] /\ credited'[a] = credited[a]
  BY <1>0, <1>2, <1>3 DEF TypeOK, Add
<1>4. available'[b] = available[b] + n
  BY <1>0, <1>2 DEF TypeOK
<1>5. \A d \in Day : credited'[b][d] = IF n > 0 /\ d <= day THEN credited[b][d] + n ELSE credited[b][d]
  BY <1>0, <1>2 DEF TypeOK, Add
<1>6. \A d \in Day : spent'[b][d] = IF n < 0 /\ d <= day THEN spent[b][d] - n ELSE spent[b][d]
  BY <1>0, <1>2, BookTypes DEF TypeOK, Add
<1>7. Same(b)
  BY <1>0, <1>4, <1>5, <1>6, BookTypes DEF Same
<1>8. \A a \in Account : Same(a)
  BY <1>3, <1>7, QuietSame
<1>9. Lots => Lots'
  <2> SUFFICES ASSUME Lots, NEW a \in Account, NEW d \in Day, NEW e \in Day
               PROVE  /\ d <= e => credited'[a][e] <= credited'[a][d]
                      /\ d > day => credited'[a][d] = 0
    BY <1>0 DEF Lots
  <2>1. /\ d <= e => credited[a][e] <= credited[a][d]
        /\ d > day => credited[a][d] = 0
    BY DEF Lots
  <2>2. CASE a = b
    BY <1>0, <1>5, <2>1, <2>2, BookTypes
  <2>3. CASE a # b
    BY <1>3, <2>1, <2>3
  <2> QED BY <2>2, <2>3
<1> QED BY <1>8, <1>9

\* Of the points credited lately only the days past matter.
LEMMA PastMatters ==
    ASSUME TypeOK, TypeOK', Lots', day' = day, RecentPointsKept,
           \A a \in Rolling : a \notin late' =>
               \A d \in Day : day - Days <= d /\ d <= day => available'[a] + spent'[a][d] >= credited'[a][d]
    PROVE  RecentPointsKept'
<1> SUFFICES ASSUME NEW a \in Rolling, a \notin late', NEW d \in Day, d >= day - Days
             PROVE  available'[a] + spent'[a][d] >= credited'[a][d]
  BY DEF RecentPointsKept
<1>1. a \in Account BY DEF Rolling
<1>2. CASE d <= day BY <1>2
<1>3. CASE d > day
  <2>1. credited'[a][d] = 0 BY <1>1, <1>3 DEF Lots
  <2>2. available'[a] \in Nat /\ spent'[a][d] \in Nat BY <1>1 DEF TypeOK
  <2> QED BY <2>1, <2>2
<1>4. d \in Int /\ day \in Int BY BookTypes
<1> QED BY <1>2, <1>3, <1>4

\* Where every account in question can give what it could, the points stay.
LEMMA SameKept ==
    ASSUME TypeOK, TypeOK', Lots', day' = day, late \subseteq late', RecentPointsKept,
           \A a \in Account : a \notin late' => Same(a)
    PROVE  RecentPointsKept'
<1>1. ASSUME NEW a \in Rolling, a \notin late', NEW d \in Day, day - Days <= d, d <= day
      PROVE  available'[a] + spent'[a][d] >= credited'[a][d]
  <2>1. a \in Account /\ a \notin late BY <1>1 DEF Rolling
  <2>2. available[a] + spent[a][d] >= credited[a][d] BY <1>1, <2>1, BookTypes DEF RecentPointsKept
  <2>3. available'[a] + spent'[a][d] - credited'[a][d] = available[a] + spent[a][d] - credited[a][d]
    BY <1>1, <2>1 DEF Same
  <2>4. /\ available[a] \in Nat /\ spent[a][d] \in Nat /\ credited[a][d] \in Nat
        /\ available'[a] \in Nat /\ spent'[a][d] \in Nat /\ credited'[a][d] \in Nat
    BY <2>1 DEF TypeOK
  <2> QED BY <2>2, <2>3, <2>4
<1> QED BY <1>1, PastMatters

\* Steps that leave the books alone.
LEMMA BooksQuiet ==
    ASSUME TypeOK, TypeOK', RecentInv, day' = day, UNCHANGED books,
           \A p \in Runner : Sound(p)'
    PROVE  RecentInv'
<1>1. /\ available' = available /\ credited' = credited /\ spent' = spent /\ records' = records /\ late' = late
  BY DEF books
<1>2. Lots' BY <1>1 DEF RecentInv, Lots
<1>3. Dated' BY <1>1 DEF RecentInv, Dated
<1>4. RecentPointsKept' BY <1>1 DEF RecentInv, RecentPointsKept
<1> QED BY <1>2, <1>3, <1>4 DEF RecentInv

\* A runner that others do not disturb.
LEMMA StillSound ==
    ASSUME TypeOK, TypeOK', RecentInv, day' = day, UNCHANGED books, NEW p \in Runner,
           run'[p].at \in {"weigh", "post"} =>
               /\ run[p].at \in {"weigh", "post"}
               /\ run'[p].list = run[p].list /\ run'[p].now = run[p].now /\ run'[p].seen = run[p].seen
               /\ run'[p].at = "post" =>
                     run[p].at = "post" /\ run'[p].row = run[p].row /\ run'[p].amount = run[p].amount
    PROVE  Sound(p)'
<1>1. /\ available' = available /\ credited' = credited /\ spent' = spent /\ records' = records /\ late' = late
  BY DEF books
<1>2. \A a \in Account : Same(a) BY <1>1, QuietSame
<1>3. \A l \in DOMAIN Lists : \A i \in DOMAIN Lists[l].rows : Same(Lists[l].rows[i])
  BY <1>2, ListsType
<1> QED BY <1>1, <1>3, KeepsSound DEF RecentInv

\* The steps of a run that only read.
LEMMA ReadsRecent ==
    ASSUME TypeOK, TypeOK', RecentInv, NEW p \in Runner,
           Start(p) \/ List(p) \/ Weigh(p) \/ Repeat(p) \/ Refuse(p) \/ Break(p) \/ Die(p)
    PROVE  RecentInv'
<1>0. /\ day' = day /\ UNCHANGED books /\ run[p] \in Places
      /\ \A q \in Runner : q # p => run'[q] = run[q]
  BY DEF Start, List, Weigh, Repeat, Refuse, Break, Die, TypeOK
<1>1. \A q \in Runner : q # p => Sound(q)'
  BY <1>0, StillSound
<1>2. SUFFICES Sound(p)'
  BY <1>0, <1>1, BooksQuiet
<1>3. ASSUME run'[p].at \notin {"weigh", "post"} PROVE Sound(p)'
  BY <1>3 DEF Sound, Pending
<1>4. CASE Start(p) \/ Die(p)
  <2>1. run'[p].at \notin {"weigh", "post"} BY <1>4 DEF Start, Die, Fresh, Ended, TypeOK
  <2> QED BY <1>3, <2>1
<1>5. CASE Refuse(p) \/ Break(p)
  <2>1. run'[p] = Failed(run[p]) BY <1>5 DEF Refuse, Break, TypeOK
  <2>2. Failed(run[p]).at \notin {"weigh", "post"} BY DEF Failed, Fresh, Ended
  <2> QED BY <1>3, <2>1, <2>2
<1>6. CASE Repeat(p)
  <2>1. run'[p] = Advance(run[p]) /\ run[p].at = "post" BY <1>6 DEF Repeat, TypeOK
  <2> QED BY <1>0, <2>1, AdvanceKeeps, StillSound
<1>7. CASE Weigh(p)
  <2> DEFINE amount == ExpireAmount(run[p].list, This(p), run[p].seen[This(p)], run[p].now)
  <2>1. /\ run'[p] = IF amount > 0 THEN Moved(run[p], "post", run[p].list, run[p].row, run[p].seen, amount)
                                   ELSE Advance(run[p])
        /\ run[p].at = "weigh"
    BY <1>7 DEF Weigh, TypeOK
  <2>2. CASE ~(amount > 0)
    <3>1. run'[p] = Advance(run[p]) BY <2>1, <2>2
    <3> QED BY <1>0, <2>1, <3>1, AdvanceKeeps, StillSound
  <2>3. CASE amount > 0
    <3>1. /\ run'[p].at = "post" /\ run'[p].list = run[p].list /\ run'[p].now = run[p].now
          /\ run'[p].seen = run[p].seen /\ run'[p].row = run[p].row /\ run'[p].amount = amount
      BY <2>1, <2>3 DEF Moved
    <3>2. /\ available' = available /\ credited' = credited /\ spent' = spent /\ records' = records
          /\ late' = late
      BY <1>0 DEF books
    <3>3. SUFFICES ASSUME NEW i \in Nat, Pending(p, i)'
                   PROVE  /\ Room(Row(p, i), run[p].seen[Row(p, i)] - credited[Row(p, i)][Cutoff(day)])'
                          /\ (run[p].at = "post" /\ i = run[p].row => Room(Row(p, i), run[p].amount))'
      BY DEF Sound
    <3>4. Row(p, i)' = Row(p, i) /\ Cutoff(day)' = Cutoff(day) /\ \A a, x : Room(a, x)' <=> Room(a, x)
      BY <1>0, <3>1, <3>2 DEF Row, Room, Cutoff
    <3>5. Pending(p, i)
      <4>1. /\ run[p].now = day /\ Lists[run[p].list].policy = "rolling_days"
            /\ i \in DOMAIN Lists[run[p].list].rows
        BY <1>0, <3>1, <3>3 DEF Pending
      <4>2. ExpiryKey(run[p].list, Row(p, i), day)' = ExpiryKey(run[p].list, Row(p, i), day)
        BY <1>0, <3>1, <3>4 DEF ExpiryKey
      <4>3. Row(p, i) \notin late /\ records[ExpiryKey(run[p].list, Row(p, i), day)] = Absent
        BY <3>2, <3>3, <3>4, <4>2 DEF Pending
      <4> QED BY <2>1, <4>1, <4>3 DEF Pending
    <3>6. Room(Row(p, i), run[p].seen[Row(p, i)] - credited[Row(p, i)][Cutoff(day)])
      BY <3>5 DEF RecentInv, Sound
    <3>7. (i = run[p].row) => amount = run[p].seen[Row(p, i)] - credited[Row(p, i)][Cutoff(day)]
      <4> SUFFICES ASSUME i = run[p].row
                   PROVE  amount = run[p].seen[Row(p, i)] - credited[Row(p, i)][Cutoff(day)]
        OBVIOUS
      <4>1. This(p) = Row(p, i) BY DEF This, Row
      <4>2. Lists[run[p].list].policy # "year_end" /\ run[p].now = day BY <3>5 DEF Pending
      <4> QED BY <2>3, <4>1, <4>2 DEF ExpireAmount
    <3> HIDE DEF amount
    <3>8. PICK a, x, y : a = Row(p, i) /\ y = amount
                         /\ x = run[p].seen[Row(p, i)] - credited[Row(p, i)][Cutoff(day)]
      OBVIOUS
    <3>9. Room(a, x)' /\ (i = run[p].row => Room(a, y)')
      BY <3>4, <3>6, <3>7, <3>8
    <3>10. /\ Row(p, i)' = a /\ (run'[p].at = "post" /\ i = run'[p].row => i = run[p].row /\ run'[p].amount = y)
           /\ (run[p].seen[Row(p, i)] - credited[Row(p, i)][Cutoff(day)])' = x
      BY <3>1, <3>2, <3>4, <3>8
    <3> QED BY <3>9, <3>10 DEF Room
  <2> QED BY <2>2, <2>3
<1>8. CASE List(p)
  <2> DEFINE rows == Lists[run[p].list].rows
             seen == [a \in Account |-> IF \E i \in DOMAIN rows : rows[i] = a THEN available[a] ELSE 0]
             s == Moved(run[p], "list", run[p].list, 0, seen, 0)
  <2>1. run'[p] = Advance(s) BY <1>8 DEF List, TypeOK
  <2>2. s \in Places /\ s.list = run[p].list /\ s.seen = seen /\ s.now = run[p].now
    <3>1. seen \in [Account -> Nat] /\ run[p].list \in DOMAIN Lists BY <1>0 DEF TypeOK, Places
    <3> HIDE DEF seen
    <3> QED BY <1>0, <3>1, MovedType DEF Running, Place, Moved
  <2> HIDE DEF s
  <2>3. CASE run'[p].at \notin {"weigh", "post"} BY <1>3, <2>3
  <2>4. CASE run'[p].at \in {"weigh", "post"}
    <3>1. run'[p].at = "weigh" /\ run'[p].list = run[p].list /\ run'[p].now = run[p].now /\ run'[p].seen = seen
      BY <2>1, <2>2, <2>4, AdvanceKeeps
    <3>2. /\ available' = available /\ credited' = credited /\ spent' = spent /\ records' = records
          /\ late' = late /\ Cutoff(day)' = Cutoff(day)
      BY <1>0 DEF books, Cutoff
    <3>3. SUFFICES ASSUME NEW i \in Nat, Pending(p, i)'
                   PROVE  Room(Row(p, i), run[p].seen[Row(p, i)] - credited[Row(p, i)][Cutoff(day)])'
      BY <3>1 DEF Sound
    <3>4. i \in DOMAIN rows /\ Row(p, i)' = rows[i]
      <4>1. i \in DOMAIN Lists[run'[p].list].rows BY <3>3 DEF Pending
      <4> QED BY <3>1, <4>1 DEF Row
    <3>5. PICK a \in Account : a = rows[i] BY <1>0, <3>4, ListsType DEF Places
    <3>6. seen[a] = available[a] BY <3>4, <3>5
    <3>7. ASSUME NEW d \in Day, Cutoff(day) <= d
          PROVE  available[a] - credited[a][Cutoff(day)] <= available[a] + spent[a][d] - credited[a][d]
      <4>1. credited[a][d] <= credited[a][Cutoff(day)] BY <3>7, BookTypes DEF RecentInv, Lots
      <4> QED BY <4>1, BookTypes
    <3>8. (Room(a, available[a] - credited[a][Cutoff(day)]))' BY <1>0, <3>2, <3>7 DEF Room
    <3>9. /\ Row(p, i)' = a
          /\ (run[p].seen[Row(p, i)] - credited[Row(p, i)][Cutoff(day)])'
                = (available[a] - credited[a][Cutoff(day)])'
      BY <3>1, <3>2, <3>4, <3>5, <3>6
    <3> HIDE DEF seen
    <3> QED BY <3>8, <3>9 DEF Room
  <2> QED BY <2>3, <2>4
<1> QED BY <1>4, <1>5, <1>6, <1>7, <1>8

\* The Transfer takes no more than the account can give, and its key keeps other runs of the
\* day from taking what they computed before it.
LEMMA ExpireRecent ==
    ASSUME TypeOK, TypeOK', RecentInv, Timely, NEW p \in Runner, Expire(p)
    PROVE  RecentInv'
<1> DEFINE k == KeyOf(p)
           b == This(p)
           l == run[p].list
<1>1. /\ run[p].at = "post" /\ records[k] = Absent /\ day' = day /\ credited' = credited /\ spent' = spent
      /\ available' = [available EXCEPT ![b] = @ - run[p].amount]
      /\ records' = [records EXCEPT ![k] = day]
      /\ late' = IF day = run[p].now THEN late ELSE late \cup {b}
      /\ run'[p] = Advance(run[p]) /\ \A q \in Runner : q # p => run'[q] = run[q]
      /\ run[p] \in Places
  BY DEF Expire, TypeOK
<1>2. /\ k \in ExpiryKeys /\ k \in Keys /\ b \in Account /\ l \in DOMAIN Lists
      /\ run[p].row \in DOMAIN Lists[l].rows /\ b = Lists[l].rows[run[p].row]
      /\ k = ExpiryKey(l, b, run[p].now) /\ run[p].amount \in Nat
      /\ run[p].now <= day
  BY <1>1, AtType DEF This, KeyOf, Timely, Busy, Running
<1>3. PICK x \in Nat : x = run[p].amount BY <1>2
<1>4. /\ \A a \in Account : a # b => available'[a] = available[a]
      /\ available'[b] = available[b] - x
      /\ records'[k] = day /\ \A m \in Keys : m # k => records'[m] = records[m]
  BY <1>1, <1>2, <1>3 DEF TypeOK
<1>5. day \in Nat /\ day # Absent BY BookTypes DEF Absent, Never
<1>6. Lots' BY <1>1 DEF RecentInv, Lots
<1>7. Dated'
  <2> SUFFICES ASSUME NEW e \in ExpiryKeys, records'[e] # Absent PROVE e[3] <= records'[e]
    BY DEF Dated
  <2>1. CASE e = k
    <3>1. k[3] = run[p].now BY <1>2 DEF ExpiryKey
    <3> QED BY <1>2, <1>4, <2>1, <3>1
  <2>2. CASE e # k
    <3>1. e \in Keys BY DEF Keys
    <3> QED BY <1>4, <2>2, <3>1 DEF RecentInv, Dated
  <2> QED BY <2>1, <2>2
<1>8. ASSUME NEW a \in Account, a # b PROVE Same(a)
  BY <1>1, <1>4, <1>8, QuietSame
<1>9. RecentPointsKept'
  <2>1. ASSUME NEW a \in Rolling, a \notin late', NEW d \in Day, day - Days <= d, d <= day
        PROVE  available'[a] + spent'[a][d] >= credited'[a][d]
    <3>0. a \in Account /\ a \notin late BY <1>1, <2>1 DEF Rolling
    <3>1. CASE a # b
      <4>1. available[a] + spent[a][d] >= credited[a][d]
        BY <2>1, <3>0, BookTypes DEF RecentInv, RecentPointsKept
      <4> QED BY <1>1, <1>4, <3>0, <3>1, <4>1
    <3>2. CASE a = b
      <4>1. run[p].now = day BY <1>1, <2>1, <3>2
      <4>2. Lists[l].policy = "rolling_days"
        <5>1. PICK m \in DOMAIN Lists : Lists[m].policy = "rolling_days"
                                        /\ \E i \in DOMAIN Lists[m].rows : Lists[m].rows[i] = a
          BY DEF Rolling
        <5>2. m = l BY <1>2, <3>2, <5>1, OneRow
        <5> QED BY <5>1, <5>2
      <4>3. Row(p, run[p].row) = b BY <1>2 DEF Row
      <4>4. Pending(p, run[p].row)
        BY <1>1, <1>2, <3>0, <3>2, <4>1, <4>2, <4>3 DEF Pending
      <4>5. run[p].row \in Nat BY <1>1 DEF Places
      <4>6. Room(b, x) BY <1>1, <1>3, <4>3, <4>4, <4>5 DEF RecentInv, Sound
      <4>7. x <= available[b] + spent[b][d] - credited[b][d] BY <2>1, <4>6, BookTypes DEF Room
      <4>8. /\ available[b] \in Nat /\ spent[b][d] \in Nat /\ credited[b][d] \in Nat
        BY <1>2, BookTypes
      <4>9. available[b] - x + spent[b][d] >= credited[b][d]
        BY <4>7, <4>8
      <4>10. available'[a] = available[b] - x /\ spent'[a] = spent[b] /\ credited'[a] = credited[b]
        BY <1>1, <1>4, <3>2
      <4> QED BY <4>9, <4>10
    <3> QED BY <3>1, <3>2
  <2> QED BY <1>1, <1>6, <2>1, PastMatters DEF RecentInv
<1>10. ASSUME NEW m \in DOMAIN Lists, NEW i \in DOMAIN Lists[m].rows, Lists[m].rows[i] \notin late',
              records'[ExpiryKey(m, Lists[m].rows[i], day)] = Absent
       PROVE  records[ExpiryKey(m, Lists[m].rows[i], day)] = Absent /\ Same(Lists[m].rows[i])
  <2>1. PICK a \in Account : a = Lists[m].rows[i] BY ListsType
  <2>2. ExpiryKey(m, a, day) \in Keys BY ExpiryKeyType DEF TypeOK
  <2>3. ExpiryKey(m, a, day) # k BY <1>4, <1>5, <1>10, <2>1
  <2>4. a # b
    <3> SUFFICES ASSUME a = b PROVE FALSE OBVIOUS
    <3>1. m = l BY <1>2, <2>1, OneRow
    <3>2. run[p].now = day BY <1>1, <1>10, <2>1
    <3> QED BY <1>2, <2>3, <3>1, <3>2
  <2> QED BY <1>4, <1>8, <1>10, <2>1, <2>2, <2>3, <2>4
<1>11. ASSUME NEW q \in Runner PROVE Sound(q)'
  <2>1. late \subseteq late' BY <1>1
  <2>2. CASE q # p
    <3>1. Sound(q) /\ run'[q] = run[q] /\ day' = day BY <1>1, <2>2 DEF RecentInv
    <3> QED BY <1>10, <2>1, <3>1, KeepsSound
  <2>3. CASE q = p
    <3>1. /\ run'[p].at # "post" /\ run'[p].now = run[p].now
          /\ run'[p].at = "weigh" => run'[p].list = run[p].list /\ run'[p].seen = run[p].seen
      BY <1>1, AdvanceKeeps
    <3>2. Sound(p) /\ day' = day /\ run[p].at \in {"weigh", "post"} BY <1>1 DEF RecentInv
    <3>3. Sound(p)'
      BY <1>10, <2>1, <3>1, <3>2, KeepsSound
    <3> QED BY <2>3, <3>3
  <2> QED BY <2>2, <2>3
<1> QED BY <1>6, <1>7, <1>9, <1>11 DEF RecentInv

LEMMA BookRecent ==
    ASSUME TypeOK, TypeOK', RecentInv, NEW r \in Request, Book(r)
    PROVE  RecentInv'
<1>1. day' = day /\ run' = run /\ late' = late /\ records' = [records EXCEPT ![r] = day]
  BY DEF Book
<1>2. ASSUME NEW e \in ExpiryKeys PROVE records'[e] = records[e]
  <2>1. e # r /\ e \in Keys BY KeyAssumption DEF Keys
  <2> QED BY <1>1, <2>1 DEF TypeOK
<1>3. Lots' /\ \A a \in Account : Same(a) BY BookSame DEF RecentInv
<1>4. Dated' BY <1>2 DEF RecentInv, Dated
<1>5. RecentPointsKept' BY <1>1, <1>3, SameKept DEF RecentInv
<1>6. \A l \in DOMAIN Lists : \A i \in DOMAIN Lists[l].rows :
          /\ Same(Lists[l].rows[i])
          /\ records'[ExpiryKey(l, Lists[l].rows[i], day)] = records[ExpiryKey(l, Lists[l].rows[i], day)]
  <2> SUFFICES ASSUME NEW l \in DOMAIN Lists, NEW i \in DOMAIN Lists[l].rows
               PROVE  /\ Same(Lists[l].rows[i])
                      /\ records'[ExpiryKey(l, Lists[l].rows[i], day)]
                            = records[ExpiryKey(l, Lists[l].rows[i], day)]
    OBVIOUS
  <2>1. Lists[l].rows[i] \in Account /\ day \in Day BY ListsType DEF TypeOK
  <2>2. ExpiryKey(l, Lists[l].rows[i], day) \in ExpiryKeys BY <2>1, ExpiryKeyType
  <2> QED BY <1>2, <1>3, <2>1, <2>2
<1>7. \A p \in Runner : Sound(p)' BY <1>1, <1>6, KeepsSound DEF RecentInv
<1> QED BY <1>3, <1>4, <1>5, <1>7 DEF RecentInv

\* The purge deletes no record of an expiry of today.
LEMMA PurgeRecent ==
    ASSUME TypeOK, TypeOK', RecentInv, Purge
    PROVE  RecentInv'
<1>1. /\ day' = day /\ run' = run /\ late' = late /\ credited' = credited /\ spent' = spent
      /\ available' = available
      /\ \A m \in Keys : records'[m] = IF Kept(records[m]) THEN records[m] ELSE Absent
  BY DEF Purge
<1>2. Lots' /\ RecentPointsKept' BY <1>1 DEF RecentInv, Lots, RecentPointsKept
<1>3. Dated'
  <2> SUFFICES ASSUME NEW e \in ExpiryKeys, records'[e] # Absent PROVE e[3] <= records'[e]
    BY DEF Dated
  <2>1. e \in Keys BY DEF Keys
  <2>2. records'[e] = records[e] BY <1>1, <2>1
  <2> QED BY <2>2 DEF RecentInv, Dated
<1>4. ASSUME NEW l \in DOMAIN Lists, NEW i \in DOMAIN Lists[l].rows,
             records'[ExpiryKey(l, Lists[l].rows[i], day)] = Absent
      PROVE  records[ExpiryKey(l, Lists[l].rows[i], day)] = Absent /\ Same(Lists[l].rows[i])
  <2>1. Lists[l].rows[i] \in Account /\ day \in Day /\ Retain \in Nat /\ day \in Nat
    BY ListsType, TimeAssumption, BookTypes DEF TypeOK
  <2>2. PICK e : e = ExpiryKey(l, Lists[l].rows[i], day) OBVIOUS
  <2>3. e \in ExpiryKeys /\ e \in Keys /\ e[3] = day BY <2>1, <2>2, ExpiryKeyType DEF ExpiryKey
  <2>4. records[e] # Absent => day <= records[e] BY <2>3 DEF RecentInv, Dated
  <2>5. records[e] \in Day \cup {Absent} BY <2>3 DEF TypeOK
  <2>6. records[e] = Absent
    <3> SUFFICES ASSUME records[e] # Absent PROVE FALSE OBVIOUS
    <3>1. records[e] \in Nat /\ day <= records[e] BY <2>4, <2>5 DEF Day
    <3>2. Kept(records[e]) BY <2>1, <3>1 DEF Kept
    <3>3. records'[e] = records[e] BY <1>1, <2>3, <3>2
    <3> QED BY <1>4, <2>2, <3>3
  <2> QED BY <1>1, <2>1, <2>2, <2>6, QuietSame
<1>5. \A p \in Runner : Sound(p)' BY <1>1, <1>4, KeepsSound DEF RecentInv
<1> QED BY <1>2, <1>3, <1>5 DEF RecentInv

\* What a run of yesterday computed is no longer of today.
LEMMA MidnightRecent ==
    ASSUME TypeOK, TypeOK', RecentInv, Timely, Midnight
    PROVE  RecentInv'
<1>1. /\ day' = day + 1 /\ run' = run /\ late' = late /\ credited' = credited /\ spent' = spent
      /\ available' = available /\ records' = records /\ day \in Nat
  BY BookTypes DEF Midnight, books
<1>2. Lots' BY <1>1, BookTypes DEF RecentInv, Lots
<1>3. RecentPointsKept' BY <1>1, BookTypes, TimeAssumption DEF RecentInv, RecentPointsKept
<1>4. Dated' BY <1>1 DEF RecentInv, Dated
<1>5. ASSUME NEW p \in Runner PROVE Sound(p)'
  <2> SUFFICES ASSUME NEW i \in Nat, Pending(p, i)' PROVE FALSE
    BY DEF Sound
  <2>1. run[p].at \in {"weigh", "post"} /\ run[p].now = day + 1 BY <1>1 DEF Pending
  <2>2. run[p].now <= day BY <2>1 DEF Timely, Busy, Running
  <2> QED BY <1>1, <2>1, <2>2
<1> QED BY <1>2, <1>3, <1>4, <1>5 DEF RecentInv

LEMMA StepRecent ==
    ASSUME TypeOK, Timely, RecentInv, [Next]_vars
    PROVE  RecentInv'
<1>0. TypeOK' BY StepTypes
<1>1. ASSUME NEW p \in Runner, Start(p) \/ Statement(p) \/ Break(p) \/ Die(p) PROVE RecentInv'
  BY <1>0, <1>1, ReadsRecent, ExpireRecent DEF Statement
<1>2. CASE day' = day /\ UNCHANGED books /\ run' = run
  <2>1. \A p \in Runner : Sound(p)' BY <1>0, <1>2, StillSound
  <2> QED BY <1>0, <1>2, <2>1, BooksQuiet
<1>3. ASSUME NEW r \in Request, Bounce(r) PROVE RecentInv' BY <1>2, <1>3 DEF Bounce
<1>4. ASSUME Setting PROVE RecentInv' BY <1>2, <1>4, SettingKeeps DEF books
<1>5. CASE UNCHANGED vars BY <1>2, <1>5 DEF vars, books
<1> QED BY <1>0, <1>1, <1>3, <1>4, <1>5, BookRecent, PurgeRecent, MidnightRecent DEF Next, Setting

LEMMA InitRecent == Init => RecentInv
<1> SUFFICES ASSUME Init PROVE RecentInv OBVIOUS
<1>1. Lots BY DEF Init, Lots
<1>2. Dated
  <2>1. \A e \in ExpiryKeys : e \in Keys BY DEF Keys
  <2> QED BY <2>1 DEF Init, Dated
<1>3. RecentPointsKept
  <2>1. \A a \in Rolling : a \in Account BY DEF Rolling
  <2> QED BY <2>1 DEF Init, RecentPointsKept, Nothing
<1>4. \A p \in Runner : Sound(p) BY DEF Init, Sound, Pending, Ended, Fresh
<1> QED BY <1>1, <1>2, <1>3, <1>4 DEF RecentInv

\* However runs overlap with each other and with Credits and Debits, and whatever fails: an
\* account on a rolling list keeps what it was credited lately, but for what it spent.
THEOREM RecentKept == Spec => []RecentPointsKept
<1>1. Init => TypeOK /\ Timely /\ RecentInv BY InitTypes, InitUsed, InitRecent
<1>2. TypeOK /\ Timely /\ RecentInv /\ [Next]_vars => (TypeOK /\ Timely /\ RecentInv)'
  BY StepTypes, StepTimely, StepRecent
<1>3. RecentInv => RecentPointsKept BY DEF RecentInv
<1> QED BY <1>1, <1>2, <1>3, PTL DEF Spec

----------------------------------------------------------------------------
(* A run that is done has expired everything.                               *)

\* Of a row whose holder shares the id with no other in its list: nothing is overdue; the
\* Transfer of today was made.
Single(l, i) == ~Namesake(l, Lists[l].rows[i])
Cleared(l, i) == ~Overdue(l, Lists[l].rows[i])
Posted(l, i) == records[ExpiryKey(l, Lists[l].rows[i], day)] # Absent

\* Runner p went beyond row i of list l today.
Passed(p, l, i) ==
    /\ run[p].now = day
    /\ \/ run[p].at = "done"
       \/ run[p].at \in Running /\ (l < run[p].list \/ (l = run[p].list /\ i < run[p].row))

\* An account has no more than p read of it and what it was credited today; p takes what is
\* still due of what it read.
Listed(p) ==
    run[p].at \in {"weigh", "post"} /\ run[p].now = day =>
        \A i \in DOMAIN Lists[run[p].list].rows :
            available[Row(p, i)] <= run[p].seen[Row(p, i)] + credited[Row(p, i)][day]
Weighed(p) ==
    run[p].at = "post" /\ run[p].now = day =>
        ExpireAmount(run[p].list, This(p), run[p].seen[This(p)], day) <= run[p].amount

TodayInv ==
    /\ \A k \in Keys : records[k] <= day
    /\ \A p \in Runner : run[p].now <= day /\ Listed(p) /\ Weighed(p)
    /\ \A l \in DOMAIN Lists : \A i \in DOMAIN Lists[l].rows : Single(l, i) =>
         /\ Posted(l, i) => Cleared(l, i)
         /\ \A p \in Runner : Passed(p, l, i) => Cleared(l, i)

\* Within a day an account gets no more than it is credited.
Milder(a) == \E n \in Nat :
    /\ available'[a] <= available[a] + n
    /\ \A d \in Day : d <= day => credited'[a][d] = credited[a][d] + n

\* The rows of a list are accounts, numbered from 1.
LEMMA RowsType ==
    ASSUME NEW l \in DOMAIN Lists, NEW i \in DOMAIN Lists[l].rows
    PROVE  /\ l \in Nat /\ l <= Len(Lists) /\ i \in Nat /\ i >= 1
           /\ Lists[l].rows[i] \in Account
<1> DEFINE Entry == [policy : Policies, rows : Seq(Account)]
           rows == Lists[l].rows
<1>1. Lists \in Seq(Entry) BY ListsAssumption
<1>2. \A e \in Entry : e.rows \in Seq(Account) OBVIOUS
<1> HIDE DEF Entry
<1>3. Lists[l] \in Entry BY <1>1
<1>4. rows \in Seq(Account) BY <1>2, <1>3
<1>5. i \in DOMAIN rows OBVIOUS
<1> HIDE DEF rows
<1>6. i \in Nat /\ i >= 1 BY <1>4, <1>5
<1> QED BY <1>6, ListsType

\* What it takes that nothing of an account is due, without the operators in between.
LEMMA ClearedMeans ==
    ASSUME TypeOK, NEW l \in DOMAIN Lists, NEW i \in DOMAIN Lists[l].rows, NEW a, a = Lists[l].rows[i]
    PROVE  Cleared(l, i) <=>
             IF Lists[l].policy = "year_end" THEN day \in NewYear => available[a] <= credited[a][day]
             ELSE available[a] <= credited[a][Cutoff(day)] + credited[a][day]
<1>1. a \in Account /\ day \in Day BY RowsType DEF TypeOK
<1>2. /\ Cutoff(day) \in Day /\ available[a] \in Nat
      /\ credited[a][day] \in Nat /\ credited[a][Cutoff(day)] \in Nat
  BY <1>1, BookTypes
<1> QED BY <1>1, <1>2 DEF Cleared, Overdue, ExpireAmount

LEMMA ClearedNext ==
    ASSUME TypeOK', NEW l \in DOMAIN Lists, NEW i \in DOMAIN Lists[l].rows, NEW a, a = Lists[l].rows[i],
           day' = day
    PROVE  Cleared(l, i)' <=>
             IF Lists[l].policy = "year_end" THEN day \in NewYear => available'[a] <= credited'[a][day]
             ELSE available'[a] <= credited'[a][Cutoff(day)] + credited'[a][day]
<1>1. a \in Account /\ day \in Day BY RowsType DEF TypeOK
<1>2. Cutoff(day)' = Cutoff(day) /\ Cutoff(day) \in Day BY <1>1, TimeAssumption DEF Cutoff, Day
<1>3. available'[a] \in Nat /\ credited'[a][day] \in Nat /\ credited'[a][Cutoff(day)] \in Nat
  BY <1>1, <1>2 DEF TypeOK
<1> QED BY <1>1, <1>2, <1>3 DEF Cleared, Overdue, ExpireAmount

\* What is due only shrinks in a day.
LEMMA StaysCleared ==
    ASSUME TypeOK, TypeOK', NEW l \in DOMAIN Lists, NEW i \in DOMAIN Lists[l].rows, day' = day,
           \A a \in Account : Milder(a), Cleared(l, i)
    PROVE  Cleared(l, i)'
<1>1. PICK a \in Account : a = Lists[l].rows[i] BY RowsType
<1>2. PICK n \in Nat : /\ available'[a] <= available[a] + n
                       /\ \A d \in Day : d <= day => credited'[a][d] = credited[a][d] + n
  BY <1>1 DEF Milder
<1>3. day \in Day /\ day \in Nat /\ Cutoff(day) \in Day /\ Cutoff(day) <= day BY BookTypes DEF TypeOK
<1>4. /\ available[a] \in Nat /\ credited[a][day] \in Nat /\ credited[a][Cutoff(day)] \in Nat
      /\ available'[a] \in Nat
      /\ credited'[a][day] = credited[a][day] + n
      /\ credited'[a][Cutoff(day)] = credited[a][Cutoff(day)] + n
  <2>1. available'[a] \in Nat BY DEF TypeOK
  <2>2. available[a] \in Nat /\ credited[a][day] \in Nat /\ credited[a][Cutoff(day)] \in Nat
    BY <1>3, BookTypes
  <2>3. day <= day BY <1>3
  <2>4. /\ credited'[a][day] = credited[a][day] + n
        /\ credited'[a][Cutoff(day)] = credited[a][Cutoff(day)] + n
    BY <1>2, <1>3, <2>3, Zenon
  <2> QED BY <2>1, <2>2, <2>4
<1>5. IF Lists[l].policy = "year_end" THEN day \in NewYear => available[a] <= credited[a][day]
      ELSE available[a] <= credited[a][Cutoff(day)] + credited[a][day]
  BY <1>1, ClearedMeans
<1>6. IF Lists[l].policy = "year_end" THEN day \in NewYear => available'[a] <= credited'[a][day]
      ELSE available'[a] <= credited'[a][Cutoff(day)] + credited'[a][day]
  BY <1>2, <1>4, <1>5
<1> QED BY <1>1, <1>6, ClearedNext

\* Only a Credit adds to an account, and what it adds was credited on every day since.
LEMMA StepMilder ==
    ASSUME TypeOK, [Next]_vars, day' = day, NEW a \in Account
    PROVE  Milder(a)
<1>1. CASE available' = available /\ credited' = credited
  <2>1. /\ available'[a] <= available[a] + 0
        /\ \A d \in Day : d <= day => credited'[a][d] = credited[a][d] + 0
    BY <1>1, BookTypes
  <2> QED BY <2>1 DEF Milder
<1>2. ASSUME NEW r \in Request, Book(r) PROVE Milder(a)
  <2> DEFINE b == Holder[r]
  <2>0. b \in Account /\ Change[r] \in Int BY RequestAssumption
  <2>1. PICK n \in Int : n = Change[r] BY <2>0
  <2>2. /\ available' = [available EXCEPT ![b] = @ + n]
        /\ credited' = IF n > 0 THEN Add(credited, b, n) ELSE credited
    BY <1>2, <2>1 DEF Book
  <2>3. CASE a = b /\ n > 0
    <3>1. available'[a] <= available[a] + n BY <2>0, <2>2, <2>3, BookTypes DEF TypeOK
    <3>2. \A d \in Day : d <= day => credited'[a][d] = credited[a][d] + n
      BY <2>0, <2>2, <2>3 DEF TypeOK, Add
    <3> QED BY <2>3, <3>1, <3>2 DEF Milder
  <2>4. CASE ~(a = b /\ n > 0)
    <3>1. available'[a] <= available[a] + 0 BY <2>0, <2>2, <2>4, BookTypes DEF TypeOK
    <3>2. credited'[a] = credited[a] BY <2>0, <2>2, <2>4 DEF TypeOK, Add
    <3>3. \A d \in Day : d <= day => credited'[a][d] = credited[a][d] + 0 BY <3>2, BookTypes
    <3> QED BY <3>1, <3>3 DEF Milder
  <2> QED BY <2>3, <2>4
<1>3. ASSUME NEW p \in Runner, Expire(p) PROVE Milder(a)
  <2>1. /\ available' = [available EXCEPT ![This(p)] = @ - run[p].amount] /\ credited' = credited
        /\ This(p) \in Account /\ run[p].amount \in Nat
    BY <1>3, AtType DEF Expire
  <2>2. PICK x \in Nat : x = run[p].amount BY <2>1
  <2>3. available'[a] <= available[a] + 0 BY <2>1, <2>2, BookTypes DEF TypeOK
  <2>4. \A d \in Day : d <= day => credited'[a][d] = credited[a][d] + 0 BY <2>1, BookTypes
  <2> QED BY <2>3, <2>4 DEF Milder
<1>4. ASSUME NEW p \in Runner, Start(p) \/ Statement(p) \/ Break(p) \/ Die(p), ~Expire(p)
      PROVE  available' = available /\ credited' = credited
  BY <1>4 DEF Start, Statement, List, Weigh, Repeat, Refuse, Break, Die, books
<1>5. ASSUME NEW r \in Request, Bounce(r) PROVE available' = available /\ credited' = credited
  BY <1>5 DEF Bounce, books
<1>6. Setting => available' = available /\ credited' = credited BY SettingKeeps
<1>7. Purge \/ UNCHANGED vars => available' = available /\ credited' = credited
  BY DEF Purge, vars
<1>8. ~Midnight BY BookTypes DEF Midnight
<1> QED BY <1>1, <1>2, <1>3, <1>4, <1>5, <1>6, <1>7, <1>8 DEF Next, Setting

\* Advance passes over rows that were listed without a balance.
LEMMA AdvancePasses ==
    ASSUME NEW r \in Places, NEW s, s = Advance(r), NEW l \in DOMAIN Lists,
           NEW i \in DOMAIN Lists[l].rows,
           s.at = "done" \/ l < s.list \/ (l = s.list /\ i < s.row)
    PROVE  l < r.list \/ (l = r.list /\ (i <= r.row \/ r.seen[Lists[l].rows[i]] = 0))
<1>1. /\ r.list \in DOMAIN Lists /\ r.row \in Nat /\ r.seen \in [Account -> Nat]
      /\ l \in Nat /\ i \in Nat /\ r.list \in Nat /\ l <= Len(Lists) /\ Len(Lists) \in Nat
      /\ Lists[l].rows[i] \in Account
  BY RowsType, ListsType DEF Places
<1>2. PICK n \in Nat : n = r.seen[Lists[l].rows[i]] BY <1>1
<1>3. l = r.list /\ i > r.row /\ n # 0 => i \in Left(r)
  BY <1>1, <1>2 DEF Left
<1>4. CASE Left(r) # {}
  <2> DEFINE j == CHOOSE j \in Left(r) : \A m \in Left(r) : j <= m
  <2>1. Left(r) \in SUBSET Nat BY ListsType DEF Left, Places
  <2>2. j \in Nat /\ \A m \in Left(r) : j <= m BY <1>4, <2>1, Least
  <2>3. s = Moved(r, "weigh", r.list, j, r.seen, 0) BY <1>4 DEF Advance
  <2> HIDE DEF j
  <2>4. s.at = "weigh" /\ s.list = r.list /\ s.row = j BY <2>3 DEF Moved
  <2>5. l < r.list \/ (l = r.list /\ i < j) BY <2>4
  <2> QED BY <1>1, <1>2, <1>3, <2>2, <2>5
<1>5. CASE Left(r) = {} /\ r.list < Len(Lists)
  <2>1. s = Moved(r, "list", r.list + 1, 0, Nothing, 0) BY <1>5 DEF Advance
  <2>2. s.at = "list" /\ s.list = r.list + 1 /\ s.row = 0 BY <2>1 DEF Moved
  <2>3. l < r.list + 1 \/ (l = r.list + 1 /\ i < 0) BY <2>2
  <2> QED BY <1>1, <1>2, <1>3, <1>5, <2>3
<1>6. CASE Left(r) = {} /\ ~(r.list < Len(Lists))
  <2>1. l <= r.list BY <1>1, <1>6
  <2> QED BY <1>1, <1>2, <1>3, <1>6, <2>1
<1> QED BY <1>4, <1>5, <1>6

\* An account that has no more than it was credited today has nothing overdue.
LEMMA NothingListed ==
    ASSUME TypeOK, NEW l \in DOMAIN Lists, NEW i \in DOMAIN Lists[l].rows, NEW a, a = Lists[l].rows[i],
           available[a] <= credited[a][day]
    PROVE  Cleared(l, i)
<1>1. a \in Account /\ day \in Day BY RowsType DEF TypeOK
<1>2. /\ Cutoff(day) \in Day /\ available[a] \in Nat
      /\ credited[a][day] \in Nat /\ credited[a][Cutoff(day)] \in Nat
  BY <1>1, BookTypes
<1>3. available[a] <= credited[a][Cutoff(day)] + credited[a][day] BY <1>2
<1> QED BY <1>3, ClearedMeans

\* What p read of an account bounds what it has, as long as p goes through the list.
LEMMA ListedKept ==
    ASSUME TypeOK, TypeOK', NEW p \in Runner, Listed(p), day' = day, \A a \in Account : Milder(a),
           run'[p].at \in {"weigh", "post"} =>
               /\ run[p].at \in {"weigh", "post"}
               /\ run'[p].list = run[p].list /\ run'[p].now = run[p].now /\ run'[p].seen = run[p].seen
    PROVE  Listed(p)'
<1> SUFFICES ASSUME run'[p].at \in {"weigh", "post"}, run'[p].now = day,
                    NEW i \in DOMAIN Lists[run[p].list].rows
             PROVE  available'[Row(p, i)] <= run[p].seen[Row(p, i)] + credited'[Row(p, i)][day]
  BY DEF Listed, Row
<1>1. PICK a \in Account, x \in Nat : a = Row(p, i) /\ x = run[p].seen[a]
  BY RowType
<1>2. day \in Day /\ day <= day /\ available[a] \in Nat /\ credited[a][day] \in Nat
  <2>1. day \in Day /\ day \in Nat BY BookTypes DEF TypeOK
  <2> QED BY <2>1, BookTypes
<1>3. PICK n \in Nat : available'[a] <= available[a] + n /\ credited'[a][day] = credited[a][day] + n
  BY <1>2 DEF Milder
<1>4. available[a] <= x + credited[a][day]
  BY <1>1 DEF Listed
<1>5. available'[a] \in Nat BY DEF TypeOK
<1>6. available'[a] <= x + credited'[a][day]
  BY <1>2, <1>3, <1>4, <1>5
<1> QED BY <1>1, <1>6

\* And what p takes is enough as long as p is about to take it.
LEMMA WeighedKept ==
    ASSUME TypeOK, TypeOK', NEW p \in Runner, Weighed(p), day' = day, \A a \in Account : Milder(a),
           run'[p].at = "post" => run'[p] = run[p]
    PROVE  Weighed(p)'
<1> SUFFICES ASSUME run'[p].at = "post", run'[p].now = day
             PROVE  (ExpireAmount(run[p].list, This(p), run[p].seen[This(p)], day) <= run[p].amount)'
  BY DEF Weighed
<1>1. run'[p] = run[p] /\ run[p].at = "post" OBVIOUS
<1>2. PICK l, a, x, y : l = run[p].list /\ a = This(p) /\ x = run[p].seen[a] /\ y = run[p].amount
  OBVIOUS
<1>3. l \in DOMAIN Lists /\ a \in Account /\ x \in Nat /\ y \in Nat
  BY <1>1, <1>2, AtType
<1>4. ExpireAmount(l, a, x, day) <= y
  BY <1>1, <1>2 DEF Weighed
<1>5. /\ day \in Day /\ Cutoff(day) \in Day /\ Cutoff(day) <= day
      /\ credited[a][Cutoff(day)] \in Nat
  BY <1>3, BookTypes DEF TypeOK
<1>6. PICK n \in Nat : credited'[a][Cutoff(day)] = credited[a][Cutoff(day)] + n
  BY <1>3, <1>5 DEF Milder
<1>7. Cutoff(day)' = Cutoff(day) BY DEF Cutoff
<1>8. (ExpireAmount(l, a, x, day) <= y)'
  BY <1>3, <1>4, <1>5, <1>6, <1>7 DEF ExpireAmount
<1>9. /\ run'[p].list = l /\ This(p)' = a /\ run'[p].seen[a] = x /\ run'[p].amount = y
  BY <1>1, <1>2 DEF This
<1> QED BY <1>8, <1>9 DEF ExpireAmount

\* The Transfer of today takes everything that was due.
LEMMA ExpireClears ==
    ASSUME TypeOK, TypeOK', TodayInv, NEW p \in Runner, Expire(p), run[p].now = day
    PROVE  \A l \in DOMAIN Lists : \A i \in DOMAIN Lists[l].rows :
               l = run[p].list /\ i = run[p].row => Cleared(l, i)'
<1> SUFFICES ASSUME NEW l \in DOMAIN Lists, NEW i \in DOMAIN Lists[l].rows,
                    l = run[p].list, i = run[p].row
             PROVE  Cleared(l, i)'
  OBVIOUS
<1>1. PICK a, x, y : a = This(p) /\ x = run[p].seen[a] /\ y = run[p].amount
  OBVIOUS
<1>2. /\ run[p].at = "post" /\ day' = day /\ credited' = credited
      /\ available' = [available EXCEPT ![a] = @ - y]
  BY <1>1 DEF Expire
<1>3. a \in Account /\ x \in Nat /\ y \in Nat /\ a = Lists[l].rows[i]
  BY <1>1, <1>2, AtType DEF This
<1>4. /\ day \in Day /\ Cutoff(day) \in Day
      /\ available[a] \in Nat /\ credited[a][day] \in Nat /\ credited[a][Cutoff(day)] \in Nat
  BY <1>3, BookTypes DEF TypeOK
<1>5. available[a] <= x + credited[a][day]
  BY <1>1, <1>2, <1>3 DEF TodayInv, Listed, Row
<1>6. ExpireAmount(l, a, x, day) <= y
  BY <1>1, <1>2 DEF TodayInv, Weighed
<1>7. available'[a] = available[a] - y
  BY <1>2, <1>3 DEF TypeOK
<1>8. PICK v, w, c, t : v = available[a] /\ w = available'[a]
                         /\ c = credited[a][Cutoff(day)] /\ t = credited[a][day]
  OBVIOUS
<1>9. /\ v \in Nat /\ c \in Nat /\ t \in Nat
      /\ v <= x + t /\ w = v - y
  BY <1>4, <1>5, <1>7, <1>8
<1>10. IF Lists[l].policy = "year_end" THEN day \in NewYear => w <= t ELSE w <= c + t
  <2>1. CASE Lists[l].policy = "year_end"
    <3>1. day \in NewYear => x <= y BY <1>6, <2>1 DEF ExpireAmount
    <3>2. day \in NewYear => w <= t BY <1>3, <1>9, <3>1
    <3> QED BY <2>1, <3>2
  <2>2. CASE Lists[l].policy # "year_end"
    <3>1. (IF x > c THEN x - c ELSE 0) <= y BY <1>6, <1>8, <2>2, Zenon DEF ExpireAmount
    <3>2. w <= c + t BY <1>3, <1>9, <3>1
    <3> QED BY <2>2, <3>2
  <2> QED BY <2>1, <2>2
<1>11. credited'[a] = credited[a]
  BY <1>2
<1> QED BY <1>2, <1>3, <1>8, <1>10, <1>11, ClearedNext

\* A runner at a row goes on: it passes the row, which has nothing overdue, and rows that
\* were listed without a balance.
LEMMA AdvanceToday ==
    ASSUME TypeOK, TypeOK', TodayInv, NEW p \in Runner, run[p].at \in {"weigh", "post"},
           run'[p] = Advance(run[p]), day' = day, \A a \in Account : Milder(a),
           NEW l \in DOMAIN Lists, NEW i \in DOMAIN Lists[l].rows, Single(l, i), Passed(p, l, i)',
           run[p].now = day /\ l = run[p].list /\ i = run[p].row => Cleared(l, i)'
    PROVE  Cleared(l, i)'
<1>1. PICK r : r = run[p] OBVIOUS
<1>2. r \in Places /\ r.at \in {"weigh", "post"} BY <1>1 DEF TypeOK
<1>3. r.now = day
  BY <1>1, <1>2, AdvanceKeeps DEF Passed
<1>4. l < r.list \/ (l = r.list /\ (i <= r.row \/ r.seen[Lists[l].rows[i]] = 0))
  <2>1. PICK s : s = Advance(r) OBVIOUS
  <2>2. s.at = "done" \/ l < s.list \/ (l = s.list /\ i < s.row)
    BY <1>1, <2>1 DEF Passed
  <2> QED BY <1>2, <2>1, <2>2, AdvancePasses
<1>5. r.list \in Nat /\ r.row \in Nat /\ l \in Nat /\ i \in Nat
  BY <1>2, RowsType DEF Places
<1>6. CASE l < r.list \/ (l = r.list /\ i < r.row)
  <2>1. Passed(p, l, i) BY <1>1, <1>2, <1>3, <1>6 DEF Passed, Running
  <2>2. Cleared(l, i) BY <2>1 DEF TodayInv
  <2> QED BY <2>2, StaysCleared
<1>7. CASE l = r.list /\ i = r.row
  BY <1>1, <1>3, <1>7
<1>8. CASE l = r.list /\ r.seen[Lists[l].rows[i]] = 0
  <2>1. PICK a \in Account : a = Lists[l].rows[i] BY RowsType
  <2>2. available[a] <= 0 + credited[a][day]
    BY <1>1, <1>2, <1>3, <1>8, <2>1 DEF TodayInv, Listed, Row
  <2>3. available[a] <= credited[a][day]
    <3>1. day \in Day BY DEF TypeOK
    <3>2. credited[a][day] \in Nat BY <3>1, BookTypes
    <3> QED BY <2>2, <3>2
  <2>4. Cleared(l, i) BY <2>1, <2>3, NothingListed
  <2> QED BY <2>4, StaysCleared
<1> QED BY <1>4, <1>5, <1>6, <1>7, <1>8

\* What the invariant says of one runner.
RunToday(p) ==
    /\ run[p].now <= day /\ Listed(p) /\ Weighed(p)
    /\ \A l \in DOMAIN Lists : \A i \in DOMAIN Lists[l].rows :
          Single(l, i) /\ Passed(p, l, i) => Cleared(l, i)

\* A runner that starts again, or ends otherwise than done.
LEMMA AnewToday ==
    ASSUME TypeOK, TypeOK', day' = day, NEW p \in Runner, NEW at \in {"idle", "failed", "dead", "list"},
           NEW now, NEW attempt, run'[p] = Fresh(at, now, attempt), now \in {0, day}
    PROVE  RunToday(p)'
<1>1. /\ run'[p].at = at /\ run'[p].now = now /\ run'[p].list = 1 /\ run'[p].row = 0
  BY DEF Fresh
<1>2. run'[p].now <= day' BY <1>1, BookTypes
<1>3. Listed(p)' /\ Weighed(p)' BY <1>1 DEF Listed, Weighed
<1>4. ASSUME NEW l \in DOMAIN Lists, NEW i \in DOMAIN Lists[l].rows, Passed(p, l, i)' PROVE FALSE
  <2>1. l \in Nat /\ i \in Nat /\ l >= 1 /\ i >= 1
    BY RowsType, ListsType
  <2>2. l < 1 \/ (l = 1 /\ i < 0) BY <1>1, <1>4 DEF Passed
  <2> QED BY <2>1, <2>2
<1> QED BY <1>2, <1>3, <1>4 DEF RunToday

\* The listing: every row is read with what it has.
LEMMA ListToday ==
    ASSUME TypeOK, TypeOK', TodayInv, NEW p \in Runner, List(p)
    PROVE  RunToday(p)'
<1> DEFINE rows == Lists[run[p].list].rows
           seen == [a \in Account |-> IF \E i \in DOMAIN rows : rows[i] = a THEN available[a] ELSE 0]
           s == Moved(run[p], "list", run[p].list, 0, seen, 0)
<1>0. /\ run[p].at = "list" /\ run[p] \in Places /\ run[p].list \in DOMAIN Lists
      /\ day' = day /\ available' = available /\ credited' = credited /\ run'[p] = Advance(s)
  BY DEF List, TypeOK, Places, books
<1>1. s \in Places /\ s.list = run[p].list /\ s.seen = seen /\ s.now = run[p].now /\ s.row = 0
  <2>1. seen \in [Account -> Nat] BY DEF TypeOK
  <2> HIDE DEF seen
  <2> QED BY <1>0, <2>1, MovedType DEF Running, Place, Moved
<1> HIDE DEF s
<1>2. run'[p].now = run[p].now /\ run'[p].at # "post"
      /\ (run'[p].at = "weigh" => run'[p].list = run[p].list /\ run'[p].seen = seen)
  BY <1>0, <1>1, AdvanceKeeps
<1>3. \A i \in DOMAIN rows : seen[rows[i]] = available[rows[i]] /\ rows[i] \in Account
  BY <1>0, RowsType
<1> HIDE DEF seen
<1>4. run'[p].now <= day' BY <1>0, <1>2 DEF TodayInv
<1>5. Weighed(p)' BY <1>2 DEF Weighed
<1>6. Listed(p)'
  <2> SUFFICES ASSUME run'[p].at = "weigh", NEW i \in DOMAIN rows
               PROVE  available[rows[i]] <= seen[rows[i]] + credited[rows[i]][day]
    BY <1>0, <1>2 DEF Listed, Row
  <2>1. PICK a \in Account : a = rows[i] BY <1>3
  <2>2. seen[a] = available[a] BY <1>3, <2>1
  <2>3. day \in Day BY DEF TypeOK
  <2>4. available[a] \in Nat /\ credited[a][day] \in Nat BY <2>3, BookTypes
  <2>5. available[a] <= available[a] + credited[a][day] BY <2>4
  <2> QED BY <2>1, <2>2, <2>5
<1>7. ASSUME NEW l \in DOMAIN Lists, NEW i \in DOMAIN Lists[l].rows, Single(l, i), Passed(p, l, i)'
      PROVE  Cleared(l, i)'
  <2>1. run[p].now = day BY <1>0, <1>2, <1>7 DEF Passed
  <2>2. l < run[p].list \/ (l = run[p].list /\ (i <= 0 \/ seen[Lists[l].rows[i]] = 0))
    <3>1. PICK t : t = Advance(s) OBVIOUS
    <3>2. t.at = "done" \/ l < t.list \/ (l = t.list /\ i < t.row)
      BY <1>0, <1>7, <3>1 DEF Passed
    <3> QED BY <1>1, <3>1, <3>2, AdvancePasses
  <2>3. i \in Nat /\ i >= 1 BY RowsType
  <2>4. Cleared(l, i)
    <3>1. CASE l < run[p].list
      <4>1. Passed(p, l, i) BY <1>0, <2>1, <3>1 DEF Passed, Running
      <4> QED BY <1>7, <4>1 DEF TodayInv
    <3>2. CASE l = run[p].list /\ seen[Lists[l].rows[i]] = 0
      <4>1. PICK a \in Account : a = Lists[l].rows[i] BY RowsType
      <4>2. available[a] = 0 BY <1>3, <3>2, <4>1
      <4>3. day \in Day BY DEF TypeOK
      <4>4. credited[a][day] \in Nat BY <4>3, BookTypes
      <4>5. available[a] <= credited[a][day] BY <4>2, <4>4
      <4> QED BY <4>1, <4>5, NothingListed
    <3> QED BY <2>2, <2>3, <3>1, <3>2
  <2>5. Cleared(l, i)' <=> Cleared(l, i) BY <1>0 DEF Cleared, Overdue, ExpireAmount, Cutoff
  <2> QED BY <2>4, <2>5
<1> QED BY <1>4, <1>5, <1>6, <1>7 DEF RunToday

\* A row at which the amount is nothing has nothing overdue.
LEMMA NoneDue ==
    ASSUME TypeOK, TodayInv, NEW p \in Runner, run[p].at = "weigh", run[p].now = day,
           ~(ExpireAmount(run[p].list, This(p), run[p].seen[This(p)], run[p].now) > 0),
           NEW l \in DOMAIN Lists, NEW i \in DOMAIN Lists[l].rows, l = run[p].list, i = run[p].row
    PROVE  Cleared(l, i)
<1>1. PICK a, x : a = This(p) /\ x = run[p].seen[a] OBVIOUS
<1>2. a \in Account /\ x \in Nat /\ a = Lists[l].rows[i] BY <1>1, AtType DEF This
<1>3. /\ day \in Day /\ Cutoff(day) \in Day
      /\ available[a] \in Nat /\ credited[a][day] \in Nat /\ credited[a][Cutoff(day)] \in Nat
  BY <1>2, BookTypes DEF TypeOK
<1>4. available[a] <= x + credited[a][day] BY <1>1, <1>2 DEF TodayInv, Listed, Row
<1>5. ~(ExpireAmount(l, a, x, day) > 0) BY <1>1
<1>6. PICK v, c, t : v = available[a] /\ c = credited[a][Cutoff(day)] /\ t = credited[a][day]
  OBVIOUS
<1>7. v \in Nat /\ c \in Nat /\ t \in Nat /\ v <= x + t BY <1>3, <1>4, <1>6
<1>8. IF Lists[l].policy = "year_end" THEN day \in NewYear => v <= t ELSE v <= c + t
  <2>1. CASE Lists[l].policy = "year_end"
    <3>1. day \in NewYear => ~(x > 0) BY <1>5, <2>1 DEF ExpireAmount
    <3>2. day \in NewYear => v <= t BY <1>2, <1>7, <3>1
    <3> QED BY <2>1, <3>2
  <2>2. CASE Lists[l].policy # "year_end"
    <3>1. ~((IF x > c THEN x - c ELSE 0) > 0) BY <1>5, <1>6, <2>2, Zenon DEF ExpireAmount
    <3>2. v <= c + t BY <1>2, <1>7, <3>1
    <3> QED BY <2>2, <3>2
  <2> QED BY <2>1, <2>2
<1> QED BY <1>2, <1>6, <1>8, ClearedMeans

\* A runner that goes on from a row.
LEMMA OnwardToday ==
    ASSUME TypeOK, TypeOK', TodayInv, NEW p \in Runner, run[p].at \in {"weigh", "post"},
           run'[p] = Advance(run[p]), day' = day, \A a \in Account : Milder(a),
           run[p].now = day =>
               \A l \in DOMAIN Lists : \A i \in DOMAIN Lists[l].rows :
                   Single(l, i) /\ l = run[p].list /\ i = run[p].row => Cleared(l, i)'
    PROVE  RunToday(p)'
<1>1. /\ run[p] \in Places /\ run'[p].now = run[p].now /\ run'[p].at # "post"
      /\ run'[p].at = "weigh" => run'[p].list = run[p].list /\ run'[p].seen = run[p].seen
  BY AdvanceKeeps DEF TypeOK
<1>2. run'[p].now <= day' BY <1>1 DEF TodayInv
<1>3. Listed(p)' BY <1>1, ListedKept DEF TodayInv
<1>4. Weighed(p)' BY <1>1 DEF Weighed
<1>5. ASSUME NEW l \in DOMAIN Lists, NEW i \in DOMAIN Lists[l].rows, Single(l, i), Passed(p, l, i)'
      PROVE  Cleared(l, i)'
  <2>1. run[p].now = day /\ l = run[p].list /\ i = run[p].row => Cleared(l, i)'
    BY <1>5
  <2> QED BY <1>5, <2>1, AdvanceToday
<1> QED BY <1>2, <1>3, <1>4, <1>5 DEF RunToday

\* Where nothing is due of what was read, nothing is due of what there is.
LEMMA WeighToday ==
    ASSUME TypeOK, TypeOK', TodayInv, NEW p \in Runner, Weigh(p), \A a \in Account : Milder(a)
    PROVE  RunToday(p)'
<1> DEFINE amount == ExpireAmount(run[p].list, This(p), run[p].seen[This(p)], run[p].now)
<1>1. /\ run'[p] = IF amount > 0 THEN Moved(run[p], "post", run[p].list, run[p].row, run[p].seen, amount)
                                 ELSE Advance(run[p])
      /\ run[p].at = "weigh" /\ day' = day /\ available' = available /\ credited' = credited
      /\ run[p] \in Places
  BY DEF Weigh, TypeOK, books
<1>2. CASE ~(amount > 0)
  <2>1. run'[p] = Advance(run[p]) BY <1>1, <1>2
  <2>2. ASSUME NEW l \in DOMAIN Lists, NEW i \in DOMAIN Lists[l].rows,
               run[p].now = day, l = run[p].list, i = run[p].row
        PROVE  Cleared(l, i)'
    <3>1. Cleared(l, i) BY <1>1, <1>2, <2>2, NoneDue
    <3> QED BY <1>1, <3>1, StaysCleared
  <2> HIDE DEF amount
  <2> QED BY <1>1, <2>1, <2>2, OnwardToday
<1>3. CASE amount > 0
  <2>1. /\ run'[p].at = "post" /\ run'[p].list = run[p].list /\ run'[p].now = run[p].now
        /\ run'[p].seen = run[p].seen /\ run'[p].row = run[p].row /\ run'[p].amount = amount
    BY <1>1, <1>3 DEF Moved
  <2>2. run'[p].now <= day' BY <1>1, <2>1 DEF TodayInv
  <2>3. Listed(p)' BY <1>1, <2>1, ListedKept DEF TodayInv
  <2>4. Weighed(p)'
    <3> SUFFICES ASSUME run[p].now = day
                 PROVE  (ExpireAmount(run[p].list, This(p), run[p].seen[This(p)], day) <= run[p].amount)'
      BY <1>1, <2>1 DEF Weighed
    <3>1. PICK l, a, x, y : l = run[p].list /\ a = This(p) /\ x = run[p].seen[a] /\ y = amount
      OBVIOUS
    <3>2. y = ExpireAmount(l, a, x, day) BY <3>1
    <3>3. y \in Nat
      <4>1. l \in DOMAIN Lists /\ a \in Account /\ x \in Nat /\ day \in Day
        BY <1>1, <3>1, AtType
      <4> QED BY <3>2, <4>1, AmountType
    <3>4. (ExpireAmount(l, a, x, day) <= y)'
      BY <1>1, <3>2, <3>3 DEF ExpireAmount, Cutoff
    <3>5. run'[p].list = l /\ This(p)' = a /\ run'[p].seen[a] = x /\ run'[p].amount = y
      BY <2>1, <3>1 DEF This
    <3> QED BY <3>4, <3>5 DEF ExpireAmount
  <2>5. ASSUME NEW l \in DOMAIN Lists, NEW i \in DOMAIN Lists[l].rows, Single(l, i), Passed(p, l, i)'
        PROVE  Cleared(l, i)'
    <3>1. Passed(p, l, i) BY <1>1, <2>1, <2>5 DEF Passed, Running
    <3>2. Cleared(l, i) BY <2>5, <3>1 DEF TodayInv
    <3> QED BY <1>1, <3>2, StaysCleared
  <2> QED BY <2>2, <2>3, <2>4, <2>5 DEF RunToday
<1> QED BY <1>2, <1>3

\* A run that finds its key used: where the account is the only one of its id in the list,
\* the record is there because that account was expired today, so it is cleared.
LEMMA RepeatToday ==
    ASSUME TypeOK, TypeOK', TodayInv, NEW p \in Runner, Repeat(p), \A a \in Account : Milder(a)
    PROVE  RunToday(p)'
<1>1. /\ run[p].at = "post" /\ run'[p] = Advance(run[p]) /\ day' = day /\ records[KeyOf(p)] # Absent
  BY DEF Repeat, TypeOK
<1>2. ASSUME NEW l \in DOMAIN Lists, NEW i \in DOMAIN Lists[l].rows, Single(l, i),
             run[p].now = day, l = run[p].list, i = run[p].row
      PROVE  Cleared(l, i)'
  <2>1. Posted(l, i) BY <1>1, <1>2 DEF Posted, KeyOf, This
  <2>2. Cleared(l, i) BY <1>2, <2>1 DEF TodayInv
  <2> QED BY <1>1, <2>2, StaysCleared
<1> QED BY <1>1, <1>2, OnwardToday

\* Every step of a day keeps what a run knows of the rows it passed.
LEMMA RunnersToday ==
    ASSUME TypeOK, TypeOK', TodayInv, [Next]_vars, day' = day, \A a \in Account : Milder(a), NEW p \in Runner
    PROVE  RunToday(p)'
<1>0. run[p] \in Places /\ day \in Nat BY BookTypes DEF TypeOK
<1>1. CASE run'[p] = run[p]
  <2>1. run'[p].now <= day' BY <1>1 DEF TodayInv
  <2>2. Listed(p)' BY <1>1, ListedKept DEF TodayInv
  <2>3. Weighed(p)' BY <1>1, WeighedKept DEF TodayInv
  <2>4. ASSUME NEW l \in DOMAIN Lists, NEW i \in DOMAIN Lists[l].rows, Single(l, i), Passed(p, l, i)'
        PROVE  Cleared(l, i)'
    <3>1. Passed(p, l, i) BY <1>1, <2>4 DEF Passed
    <3> QED BY <2>4, <3>1, StaysCleared DEF TodayInv
  <2> QED BY <2>1, <2>2, <2>3, <2>4 DEF RunToday
<1>2. CASE Start(p)
  <2>1. run'[p] = Fresh("list", day, 1) BY <1>2 DEF Start, TypeOK
  <2> QED BY <2>1, AnewToday
<1>3. CASE Die(p)
  <2>1. run'[p] = Fresh("idle", 0, 1) BY <1>3 DEF Die, Ended, TypeOK
  <2> QED BY <2>1, AnewToday
<1>4. CASE Refuse(p) \/ Break(p)
  <2>1. run'[p] = Failed(run[p]) BY <1>4 DEF Refuse, Break, TypeOK
  <2>2. CASE run[p].attempt < MaxAttempts
    <3>1. run'[p] = Fresh("list", day, run[p].attempt + 1) BY <2>1, <2>2 DEF Failed
    <3> QED BY <3>1, AnewToday
  <2>3. CASE ~(run[p].attempt < MaxAttempts)
    <3>1. run'[p] = Fresh("dead", 0, 1) \/ run'[p] = Fresh("failed", 0, 1) BY <2>1, <2>3 DEF Failed, Ended
    <3> QED BY <3>1, AnewToday
  <2> QED BY <2>2, <2>3
<1>5. CASE Expire(p)
  <2>1. run[p].at = "post" /\ run'[p] = Advance(run[p]) BY <1>5 DEF Expire, TypeOK
  <2>2. run[p].now = day =>
            \A l \in DOMAIN Lists : \A i \in DOMAIN Lists[l].rows :
                Single(l, i) /\ l = run[p].list /\ i = run[p].row => Cleared(l, i)'
    BY <1>5, ExpireClears
  <2> QED BY <2>1, <2>2, OnwardToday
<1>6. CASE List(p) BY <1>6, ListToday
<1>7. CASE Weigh(p) BY <1>7, WeighToday
<1>8. CASE Repeat(p) BY <1>8, RepeatToday
<1>9. ASSUME NEW q \in Runner, q # p, Start(q) \/ Statement(q) \/ Break(q) \/ Die(q)
      PROVE  run'[p] = run[p]
  BY <1>9 DEF Start, Statement, List, Weigh, Expire, Repeat, Refuse, Break, Die, TypeOK
<1>10. ASSUME NEW r \in Request, Book(r) \/ Bounce(r) PROVE run' = run BY <1>10 DEF Book, Bounce
<1>11. Setting => run' = run BY SettingKeeps
<1>12. Purge \/ Midnight \/ UNCHANGED vars => run' = run BY DEF Purge, Midnight, vars
<1> QED
  BY <1>1, <1>2, <1>3, <1>4, <1>5, <1>6, <1>7, <1>8, <1>9, <1>10, <1>11, <1>12 DEF Next, Statement, Setting

\* What is posted and what is purged of the keys of today.
LEMMA KeysToday ==
    ASSUME TypeOK, TypeOK', TodayInv, [Next]_vars, day' = day, \A a \in Account : Milder(a),
           NEW l \in DOMAIN Lists, NEW i \in DOMAIN Lists[l].rows, Single(l, i), Posted(l, i)'
    PROVE  Cleared(l, i)'
<1>1. PICK a \in Account : a = Lists[l].rows[i] BY RowsType
<1>2. PICK e : e = ExpiryKey(l, a, day) OBVIOUS
<1>3. e \in ExpiryKeys /\ e \in Keys /\ e = <<l, HolderId[a], day>> /\ day # Absent
  <2>1. day \in Day /\ day # Absent BY BookTypes DEF TypeOK, Absent, Never
  <2> QED BY <1>2, <2>1, ExpiryKeyType DEF ExpiryKey
<1>4. records'[e] # Absent BY <1>1, <1>2 DEF Posted, ExpiryKey
<1>5. CASE records[e] # Absent
  <2>1. Posted(l, i) BY <1>1, <1>2, <1>5 DEF Posted
  <2>2. Cleared(l, i) BY <2>1 DEF TodayInv
  <2> QED BY <2>2, StaysCleared
<1>6. ASSUME NEW p \in Runner, Expire(p), records[e] = Absent PROVE Cleared(l, i)'
  <2>1. run[p].at = "post" /\ records' = [records EXCEPT ![KeyOf(p)] = day] BY <1>6 DEF Expire
  <2>2. e = KeyOf(p) BY <1>3, <1>4, <1>6, <2>1 DEF TypeOK
  <2>3. l = run[p].list /\ HolderId[This(p)] = HolderId[a] /\ run[p].now = day
    BY <1>3, <2>2 DEF KeyOf, ExpiryKey
  <2>4. run[p].row \in DOMAIN Lists[l].rows /\ This(p) = Lists[l].rows[run[p].row]
    BY <2>1, <2>3, AtType DEF This
  <2>5. This(p) = a BY <1>1, <2>3, <2>4 DEF Single, Namesake
  <2>6. i = run[p].row BY <1>1, <2>4, <2>5, OneRow
  <2> QED BY <1>6, <2>3, <2>6, ExpireClears
<1>7. ASSUME NEW r \in Request, Book(r) PROVE records'[e] = records[e]
  <2>1. e # r BY <1>3, KeyAssumption
  <2> QED BY <1>3, <1>7, <2>1 DEF Book, TypeOK
<1>8. Purge => records'[e] \in {records[e], Absent} BY <1>3 DEF Purge
<1>9. ASSUME NEW p \in Runner, Start(p) \/ Statement(p) \/ Break(p) \/ Die(p), ~Expire(p)
      PROVE  records' = records
  BY <1>9 DEF Start, Statement, List, Weigh, Repeat, Refuse, Break, Die, books
<1>10. ASSUME NEW r \in Request, Bounce(r) PROVE records' = records BY <1>10 DEF Bounce, books
<1>11. Setting => records' = records BY SettingKeeps
<1>12. Midnight \/ UNCHANGED vars => records' = records BY DEF Midnight, vars, books
<1> QED
  BY <1>4, <1>5, <1>6, <1>7, <1>8, <1>9, <1>10, <1>11, <1>12 DEF Next, Setting

\* No record is of the future.
LEMMA RecordsPast ==
    ASSUME TypeOK, TypeOK', TodayInv, [Next]_vars, NEW k \in Keys
    PROVE  records'[k] <= day'
<1>0. day \in Nat /\ records[k] \in Int /\ records[k] <= day
  BY BookTypes DEF TypeOK, TodayInv, Day, Absent, Never
<1>1. CASE records'[k] = records[k] /\ day' \in {day, day + 1} BY <1>0, <1>1
<1>2. CASE records'[k] = day /\ day' = day BY <1>0, <1>2
<1>3. CASE records'[k] = Absent /\ day' = day BY <1>0, <1>3 DEF Absent, Never
<1>4. ASSUME NEW p \in Runner, Expire(p)
      PROVE  day' = day /\ records'[k] \in {records[k], day}
  BY <1>4 DEF Expire, TypeOK
<1>5. ASSUME NEW r \in Request, Book(r)
      PROVE  day' = day /\ records'[k] \in {records[k], day}
  BY <1>5 DEF Book, TypeOK
<1>6. Purge => day' = day /\ records'[k] \in {records[k], Absent} BY DEF Purge
<1>7. ASSUME NEW p \in Runner, Start(p) \/ Statement(p) \/ Break(p) \/ Die(p), ~Expire(p)
      PROVE  records' = records /\ day' = day
  BY <1>7 DEF Start, Statement, List, Weigh, Repeat, Refuse, Break, Die, books
<1>8. ASSUME NEW r \in Request, Bounce(r) PROVE records' = records /\ day' = day
  BY <1>8 DEF Bounce, books
<1>9. Setting => records' = records /\ day' = day BY SettingKeeps
<1>10. Midnight \/ UNCHANGED vars => records' = records /\ day' \in {day, day + 1}
  BY DEF Midnight, vars, books
<1> QED
  BY <1>1, <1>2, <1>3, <1>4, <1>5, <1>6, <1>7, <1>8, <1>9, <1>10 DEF Next, Setting

\* At midnight no run is of today, and no key of the new day has a record.
LEMMA MidnightToday ==
    ASSUME TypeOK, TypeOK', Dated, TodayInv, Midnight
    PROVE  TodayInv'
<1>1. /\ day' = day + 1 /\ run' = run /\ records' = records /\ day \in Nat
  BY BookTypes DEF Midnight, books
<1>2. \A k \in Keys : records'[k] <= day' BY <1>1, RecordsPast DEF Next
<1>3. \A p \in Runner : run[p].now \in Nat /\ run[p].now <= day
  BY DEF TodayInv, TypeOK, Places, Day
<1>4. \A p \in Runner : run'[p].now # day' /\ run'[p].now <= day' BY <1>1, <1>3
<1>5. \A p \in Runner : run'[p].now <= day' /\ Listed(p)' /\ Weighed(p)'
  BY <1>4 DEF Listed, Weighed
<1>6. ASSUME NEW l \in DOMAIN Lists, NEW i \in DOMAIN Lists[l].rows PROVE ~Posted(l, i)'
  <2>1. PICK a \in Account : a = Lists[l].rows[i] BY RowsType
  <2>2. PICK e : e = ExpiryKey(l, a, day') OBVIOUS
  <2>3. e \in ExpiryKeys /\ e \in Keys /\ e[3] = day + 1
    <3>1. day' \in Day BY DEF TypeOK
    <3> QED BY <1>1, <2>2, <3>1, ExpiryKeyType DEF ExpiryKey
  <2>4. records[e] <= day /\ records[e] \in Int
    BY <2>3 DEF TodayInv, TypeOK, Day, Absent, Never
  <2>5. records[e] = Absent
    <3>1. records[e] # Absent => day + 1 <= records[e] BY <2>3 DEF Dated
    <3> QED BY <1>1, <2>4, <3>1
  <2> QED BY <1>1, <2>1, <2>2, <2>5 DEF Posted, ExpiryKey
<1>7. ASSUME NEW l \in DOMAIN Lists, NEW i \in DOMAIN Lists[l].rows, NEW p \in Runner PROVE ~Passed(p, l, i)'
  BY <1>4 DEF Passed
<1> QED BY <1>2, <1>5, <1>6, <1>7 DEF TodayInv

LEMMA StepToday ==
    ASSUME TypeOK, Dated, TodayInv, [Next]_vars
    PROVE  TodayInv'
<1>0. TypeOK' BY StepTypes
<1>1. CASE Midnight BY <1>0, <1>1, MidnightToday
<1>2. CASE day' = day
  <2>1. \A a \in Account : Milder(a) BY <1>2, StepMilder
  <2>2. \A k \in Keys : records'[k] <= day' BY <1>0, RecordsPast
  <2>3. \A p \in Runner : RunToday(p)' BY <1>0, <1>2, <2>1, RunnersToday
  <2>4. \A p \in Runner : run'[p].now <= day' /\ Listed(p)' /\ Weighed(p)'
    BY <2>3 DEF RunToday
  <2>5. ASSUME NEW l \in DOMAIN Lists, NEW i \in DOMAIN Lists[l].rows, Single(l, i)
        PROVE  /\ Posted(l, i)' => Cleared(l, i)'
               /\ \A p \in Runner : Passed(p, l, i)' => Cleared(l, i)'
    <3>1. Posted(l, i)' => Cleared(l, i)' BY <1>0, <1>2, <2>1, <2>5, KeysToday
    <3>2. \A p \in Runner : Passed(p, l, i)' => Cleared(l, i)' BY <2>3, <2>5 DEF RunToday
    <3> QED BY <3>1, <3>2
  <2>6. \A l \in DOMAIN Lists : \A i \in DOMAIN Lists[l].rows : Single(l, i)' <=> Single(l, i)
    BY DEF Single, Namesake
  <2> QED BY <2>2, <2>4, <2>5, <2>6 DEF TodayInv
<1>3. ~Midnight => day' = day
  BY DEF Next, Start, Statement, List, Weigh, Expire, Repeat, Refuse, Break, Die, Book, Bounce, SetStatus,
         SetBar, Purge, vars
<1> QED BY <1>1, <1>2, <1>3

LEMMA InitToday == Init => TodayInv
<1> SUFFICES ASSUME Init PROVE TodayInv OBVIOUS
<1>1. day = 0 /\ records = [k \in Keys |-> Absent] /\ run = [p \in Runner |-> Fresh("idle", 0, 1)]
  BY DEF Init, Ended
<1>2. \A k \in Keys : records[k] <= day BY <1>1 DEF Absent, Never
<1>3. \A p \in Runner : run[p].now <= day /\ Listed(p) /\ Weighed(p)
  BY <1>1 DEF Fresh, Listed, Weighed
<1>4. ASSUME NEW l \in DOMAIN Lists, NEW i \in DOMAIN Lists[l].rows
      PROVE  ~Posted(l, i) /\ \A p \in Runner : ~Passed(p, l, i)
  <2>1. day \in Day BY <1>1, TimeAssumption DEF Day
  <2>2. ExpiryKey(l, Lists[l].rows[i], day) \in Keys BY <2>1, RowsType, ExpiryKeyType
  <2>3. ~Posted(l, i) BY <1>1, <2>2 DEF Posted
  <2>4. \A p \in Runner : ~Passed(p, l, i) BY <1>1 DEF Passed, Fresh, Running
  <2> QED BY <2>3, <2>4
<1> QED BY <1>2, <1>3, <1>4 DEF TodayInv

\* Whatever is credited, spent, expired by another run or purged meanwhile, and whatever
\* failed before: a run of today that is done left nothing overdue, but for accounts that
\* share their id with another of their list.
THEOREM DoneExpired == Spec => []DoneMeansExpired
<1>1. Init => TypeOK /\ Timely /\ RecentInv /\ TodayInv BY InitTypes, InitUsed, InitRecent, InitToday
<1>2. TypeOK /\ Timely /\ RecentInv /\ TodayInv /\ [Next]_vars
        => (TypeOK /\ Timely /\ RecentInv /\ TodayInv)'
  BY StepTypes, StepTimely, StepRecent, StepToday DEF RecentInv
<1>3. TodayInv => DoneMeansExpired
  BY DEF TodayInv, DoneMeansExpired, Passed, Single, Cleared
<1> QED BY <1>1, <1>2, <1>3, PTL DEF Spec
=============================================================================
