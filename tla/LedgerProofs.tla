--------------------------- MODULE LedgerProofs ---------------------------
(***************************************************************************)
(* Proofs about the bookkeeping kernel for every set of users, requests    *)
(* and handlers: types, the sign of balances, idempotency, what an         *)
(* operator's disabling of an account and a settled freeze order exclude,  *)
(* and the tie-outs of LedgerTies: balances against entries, frozen against*)
(* orders, orders against their vouchers, and the value in the books.      *)
(***************************************************************************)
EXTENDS LedgerTies, FiniteSetTheorems, TLAPS

\* What a Reverse in progress undoes is in the journal.
OriginalPosted ==
    \A c \in Handlers :
        call[c] # Idle /\ call[c].req.cmd = "Reverse" => call[c].orig \in DOMAIN journal

\* The voucher of a Freeze names the order it created.
FreezeNamed ==
    \A i \in DOMAIN journal : journal[i].cmd = "Freeze" => journal[i].order \in BizNos

Inv == TypeOK /\ OriginalPosted /\ FreezeNamed

-----------------------------------------------------------------------------
(* What a handler in progress holds, and what Record does. *)

LEMMA InProgress ==
    ASSUME TypeOK, NEW c \in Handlers, call[c] # Idle
    PROVE  /\ call[c] \in Call
           /\ call[c].req \in Menu
           /\ call[c].req \in Request
           /\ call[c].order \in FreezeOrder
           /\ call[c].orig \in Nat
BY LedgerAssumption DEF TypeOK, Call

LEMMA LegType ==
    ASSUME NEW h \in Holders, NEW n \in Int
    PROVE  Leg(h, n) \in [Holders -> Int]
BY DEF Leg

LEMMA RecordType ==
    ASSUME TypeOK, NEW c \in Handlers, call[c] # Idle,
           NEW legs \in [Holders -> Int], NEW order \in BizNos \cup {NoBiz},
           NEW unfreeze \in BOOLEAN, Record(c, legs, order, unfreeze)
    PROVE  /\ idem' \subseteq HashKey
           /\ journal' \in Seq(Posting)
           /\ call' \in [Handlers -> Call \cup {Idle}]
           /\ DOMAIN journal \subseteq DOMAIN journal'
           /\ status' = status
<1> DEFINE r == call[c].req
           p == [cmd |-> r.cmd, biz |-> r.biz, to |-> r.to, legs |-> legs,
                 order |-> order, unfreeze |-> unfreeze, orig |-> call[c].orig]
<1>1. r \in Request /\ call[c].orig \in Nat
  BY InProgress
<1>2. HashOf(r) \in HashKey
  BY <1>1 DEF HashOf, HashKey, Request
<1>3. p \in Posting
  BY <1>1 DEF Posting, Request
<1>4. /\ idem' = idem \cup {HashOf(r)}
      /\ journal' = Append(journal, p)
      /\ call' = [call EXCEPT ![c] = Idle]
      /\ status' = status
  BY DEF Record
<1>5. journal \in Seq(Posting)
  BY DEF TypeOK
<1> HIDE DEF p, r
<1>6. journal' \in Seq(Posting) /\ DOMAIN journal \subseteq DOMAIN journal'
  BY <1>3, <1>4, <1>5
<1> QED
  BY <1>2, <1>4, <1>6 DEF TypeOK

\* A transaction that commits ends its handler and leaves the others as they
\* are; a voucher once written stays in the journal.
LEMMA CommitType ==
    ASSUME Inv, NEW c \in Handlers, call[c] # Idle,
           NEW legs \in [Holders -> Int], NEW order \in BizNos \cup {NoBiz},
           NEW unfreeze \in BOOLEAN, Record(c, legs, order, unfreeze),
           call[c].req.cmd = "Freeze" => order \in BizNos,
           avail' \in [Holders -> Int], frozen' \in [Holders -> Int],
           freeze' \in [BizNos -> FreezeOrder]
    PROVE  Inv'
<1>1. /\ idem' \subseteq HashKey
      /\ journal' \in Seq(Posting)
      /\ call' \in [Handlers -> Call \cup {Idle}]
      /\ DOMAIN journal \subseteq DOMAIN journal'
      /\ status' = status
  BY RecordType DEF Inv
<1>2. call' = [call EXCEPT ![c] = Idle]
  BY DEF Record
<1>3. TypeOK'
  BY <1>1 DEF Inv, TypeOK
<1>4. OriginalPosted'
  BY <1>1, <1>2 DEF Inv, TypeOK, OriginalPosted
<1>5. FreezeNamed'
  <2> DEFINE p == [cmd |-> call[c].req.cmd, biz |-> call[c].req.biz,
                   to |-> call[c].req.to, legs |-> legs, order |-> order,
                   unfreeze |-> unfreeze, orig |-> call[c].orig]
  <2>1. p.cmd = "Freeze" => p.order \in BizNos
    OBVIOUS
  <2>2. journal' = Append(journal, p) /\ journal \in Seq(Posting)
    BY DEF Record, Inv, TypeOK
  <2> HIDE DEF p
  <2>3. \A i \in DOMAIN journal' : i \in DOMAIN journal \/ journal'[i] = p
    BY <2>2
  <2>4. \A i \in DOMAIN journal : journal'[i] = journal[i]
    BY <2>2
  <2> QED
    BY <2>1, <2>3, <2>4 DEF Inv, FreezeNamed
<1> QED
  BY <1>3, <1>4, <1>5 DEF Inv

LEMMA BeginType ==
    ASSUME Inv, NEW c \in Handlers, NEW r \in Menu, NEW o \in FreezeOrder, NEW i \in Nat,
           r.cmd = "Reverse" => i \in DOMAIN journal, Begin(c, r, o, i)
    PROVE  Inv'
<1>1. [req |-> r, order |-> o, orig |-> i] \in Call
  BY DEF Call
<1>2. /\ call' = [call EXCEPT ![c] = [req |-> r, order |-> o, orig |-> i]]
      /\ UNCHANGED <<avail, frozen, status, freeze, idem, journal>>
  BY DEF Begin
<1>3. TypeOK'
  BY <1>1, <1>2 DEF Inv, TypeOK
<1>4. OriginalPosted'
  BY <1>2 DEF Inv, TypeOK, OriginalPosted
<1>5. FreezeNamed'
  BY <1>2 DEF Inv, FreezeNamed
<1> QED
  BY <1>3, <1>4, <1>5 DEF Inv

LEMMA MoveType ==
    ASSUME Inv, NEW c \in Handlers, call[c] # Idle, call[c].req.cmd # "Freeze",
           NEW from \in Holders, NEW to \in Holders, Move(c, from, to)
    PROVE  Inv'
<1> DEFINE n == call[c].req.amount
           legs == [Leg(to, n) EXCEPT ![from] = -n]
<1>1. n \in Nat
  BY InProgress DEF Inv, Request
<1>2. legs \in [Holders -> Int]
  BY <1>1 DEF Leg
<1>3. /\ avail' = [avail EXCEPT ![from] = @ - n, ![to] = @ + n]
      /\ Record(c, legs, NoBiz, FALSE)
      /\ UNCHANGED <<frozen, freeze>>
  BY DEF Move
<1> HIDE DEF legs
<1>4. avail' \in [Holders -> Int]
  <2> HIDE DEF n
  <2> QED
    BY <1>1, <1>3 DEF Inv, TypeOK
<1> QED
  BY <1>2, <1>3, <1>4, CommitType DEF Inv, TypeOK

\* The order a Capture or a Release read, the amount it takes, its freeze_id.
LEMMA SettlesType ==
    ASSUME Inv, NEW c \in Handlers, NEW cmd \in {"Capture", "Release"}, Settles(c, cmd)
    PROVE  /\ call[c] # Idle /\ call[c].req.cmd = cmd
           /\ call[c].order.holder \in Holders
           /\ call[c].order.amount \in Nat
           /\ call[c].req.amount \in Nat
           /\ call[c].req.ref \in BizNos
<1>1. call[c] # Idle /\ call[c].req.cmd = cmd
  BY DEF Settles, Executing
<1>2. call[c].req \in Menu /\ call[c].req \in Request /\ call[c].order \in FreezeOrder
  BY <1>1, InProgress DEF Inv
<1> QED
  BY <1>1, <1>2, MenuAssumption DEF Request, FreezeOrder

LEMMA CloseOrderType ==
    ASSUME TypeOK, NEW b, NEW to \in {"captured", "released"}, CloseOrder(b, to)
    PROVE  freeze' \in [BizNos -> FreezeOrder]
BY DEF CloseOrder, TypeOK, FreezeOrder

LEMMA PostFreezeType ==
    ASSUME Inv, NEW c \in Handlers, PostFreeze(c)
    PROVE  Inv'
<1> DEFINE r == call[c].req
<1>1. call[c] # Idle /\ r \in Request
  BY InProgress DEF PostFreeze, Executing, Inv
<1>2. r.holder \in Holders /\ r.amount \in Nat /\ r.biz \in BizNos
  BY <1>1 DEF Request
<1>3. /\ avail' = [avail EXCEPT ![r.holder] = @ - r.amount]
      /\ frozen' = [frozen EXCEPT ![r.holder] = @ + r.amount]
      /\ freeze' = [freeze EXCEPT ![r.biz] =
             [status |-> "frozen", amount |-> r.amount, holder |-> r.holder]]
      /\ Record(c, Leg(r.holder, -r.amount), r.biz, FALSE)
  BY DEF PostFreeze
<1> HIDE DEF r
<1>4. /\ avail' \in [Holders -> Int]
      /\ frozen' \in [Holders -> Int]
      /\ freeze' \in [BizNos -> FreezeOrder]
  BY <1>2, <1>3 DEF Inv, TypeOK, FreezeOrder
<1>5. Leg(r.holder, -r.amount) \in [Holders -> Int]
  BY <1>2, LegType
<1> QED
  BY <1>1, <1>2, <1>3, <1>4, <1>5, CommitType

LEMMA PostFullCaptureType ==
    ASSUME Inv, NEW c \in Handlers, PostFullCapture(c)
    PROVE  Inv'
<1> DEFINE r == call[c].req
           o == call[c].order
<1>1. /\ Settles(c, "Capture")
      /\ frozen' = [frozen EXCEPT ![o.holder] = @ - o.amount]
      /\ CloseOrder(r.ref, "captured")
      /\ Record(c, Leg(o.holder, -o.amount), r.ref, FALSE)
      /\ avail' = avail
  BY DEF PostFullCapture
<1>2. /\ call[c] # Idle /\ call[c].req.cmd # "Freeze"
      /\ o.holder \in Holders /\ o.amount \in Nat /\ r.ref \in BizNos
  BY <1>1, SettlesType
<1> HIDE DEF r, o
<1>3. /\ avail' \in [Holders -> Int]
      /\ frozen' \in [Holders -> Int]
      /\ freeze' \in [BizNos -> FreezeOrder]
  BY <1>1, <1>2, CloseOrderType DEF Inv, TypeOK
<1>4. Leg(o.holder, -o.amount) \in [Holders -> Int]
  BY <1>2, LegType
<1> QED
  BY <1>1, <1>2, <1>3, <1>4, CommitType

LEMMA PostPartialCaptureType ==
    ASSUME Inv, NEW c \in Handlers, PostPartialCapture(c)
    PROVE  Inv'
<1> DEFINE r == call[c].req
           o == call[c].order
<1>1. /\ Settles(c, "Capture")
      /\ r.amount < o.amount
      /\ frozen' = [frozen EXCEPT ![o.holder] = @ - r.amount]
      /\ ShrinkOrder(r.ref, o, r.amount)
      /\ Record(c, Leg(o.holder, -r.amount), r.ref, FALSE)
      /\ avail' = avail
  BY DEF PostPartialCapture
<1>2. /\ call[c] # Idle /\ call[c].req.cmd # "Freeze"
      /\ o.holder \in Holders /\ o.amount \in Nat
      /\ r.ref \in BizNos /\ r.amount \in Nat
  BY <1>1, SettlesType
<1>3. o \in FreezeOrder
  BY <1>2, InProgress DEF Inv
<1> HIDE DEF r, o
<1>4. freeze' \in [BizNos -> FreezeOrder]
  <2> DEFINE left == o.amount - r.amount
             shrunk == [freeze[r.ref] EXCEPT !.amount = left, !.status = o.status]
  <2>1. left \in Nat
    BY <1>1, <1>2
  <2>2. freeze \in [BizNos -> FreezeOrder]
    BY DEF Inv, TypeOK
  <2>3. shrunk \in FreezeOrder
    BY <1>2, <1>3, <2>1, <2>2 DEF FreezeOrder
  <2>4. freeze' = [freeze EXCEPT ![r.ref] = shrunk]
    BY <1>1, <1>2, <2>2 DEF ShrinkOrder
  <2> QED
    BY <2>2, <2>3, <2>4
<1>5. avail' \in [Holders -> Int] /\ frozen' \in [Holders -> Int]
  BY <1>1, <1>2 DEF Inv, TypeOK
<1>6. Leg(o.holder, -r.amount) \in [Holders -> Int]
  BY <1>2, LegType
<1> QED
  BY <1>1, <1>2, <1>4, <1>5, <1>6, CommitType

LEMMA PostReleaseType ==
    ASSUME Inv, NEW c \in Handlers, PostRelease(c)
    PROVE  Inv'
<1> DEFINE r == call[c].req
           o == call[c].order
<1>1. /\ Settles(c, "Release")
      /\ frozen' = [frozen EXCEPT ![o.holder] = @ - o.amount]
      /\ avail' = [avail EXCEPT ![o.holder] = @ + o.amount]
      /\ CloseOrder(r.ref, "released")
      /\ Record(c, Leg(o.holder, o.amount), r.ref, FALSE)
  BY DEF PostRelease
<1>2. /\ call[c] # Idle /\ call[c].req.cmd # "Freeze"
      /\ o.holder \in Holders /\ o.amount \in Nat /\ r.ref \in BizNos
  BY <1>1, SettlesType
<1> HIDE DEF r, o
<1>3. /\ avail' \in [Holders -> Int]
      /\ frozen' \in [Holders -> Int]
      /\ freeze' \in [BizNos -> FreezeOrder]
  BY <1>1, <1>2, CloseOrderType DEF Inv, TypeOK
<1>4. Leg(o.holder, o.amount) \in [Holders -> Int]
  BY <1>2, LegType
<1> QED
  BY <1>1, <1>2, <1>3, <1>4, CommitType

\* The voucher a Reverse undoes, and the order it read if that is a Freeze.
LEMMA UndoingType ==
    ASSUME Inv, NEW c \in Handlers, Executing(c, "Reverse")
    PROVE  /\ call[c] # Idle /\ call[c].req.cmd = "Reverse"
           /\ Undoing(c) \in Posting
           /\ call[c].order.holder \in Holders
           /\ call[c].order.amount \in Nat
<1>1. call[c] # Idle /\ call[c].req.cmd = "Reverse"
  BY DEF Executing
<1>2. call[c].order \in FreezeOrder
  BY <1>1, InProgress DEF Inv
<1>3. call[c].orig \in DOMAIN journal
  BY <1>1 DEF Inv, OriginalPosted
<1>4. journal[call[c].orig] \in Posting
  BY <1>3 DEF Inv, TypeOK
<1> QED
  BY <1>1, <1>2, <1>4 DEF FreezeOrder, Undoing

LEMMA PostUnfreezeType ==
    ASSUME Inv, NEW c \in Handlers, PostUnfreeze(c)
    PROVE  Inv'
<1> DEFINE o == call[c].order
           b == Undoing(c).order
<1>1. /\ Executing(c, "Reverse")
      /\ frozen' = [frozen EXCEPT ![o.holder] = @ - o.amount]
      /\ avail' = [avail EXCEPT ![o.holder] = @ + o.amount]
      /\ CloseOrder(b, "released")
      /\ Record(c, Leg(o.holder, o.amount), b, TRUE)
  BY DEF PostUnfreeze
<1>2. /\ call[c] # Idle /\ call[c].req.cmd # "Freeze"
      /\ o.holder \in Holders /\ o.amount \in Nat
  BY <1>1, UndoingType
<1>3. b \in BizNos \cup {NoBiz}
  BY <1>1, UndoingType DEF Posting
<1> HIDE DEF b, o
<1>4. /\ avail' \in [Holders -> Int]
      /\ frozen' \in [Holders -> Int]
      /\ freeze' \in [BizNos -> FreezeOrder]
  BY <1>1, <1>2, CloseOrderType DEF Inv, TypeOK
<1>5. Leg(o.holder, o.amount) \in [Holders -> Int]
  BY <1>2, LegType
<1> QED
  BY <1>1, <1>2, <1>3, <1>4, <1>5, CommitType

LEMMA PostReverseType ==
    ASSUME Inv, NEW c \in Handlers, PostReverse(c)
    PROVE  Inv'
<1> DEFINE legs == Undoing(c).legs
<1>1. /\ Executing(c, "Reverse")
      /\ avail' = [h \in Holders |-> avail[h] - legs[h]]
      /\ Record(c, [h \in Holders |-> -legs[h]], Undoing(c).order, FALSE)
      /\ UNCHANGED <<frozen, freeze>>
  BY DEF PostReverse
<1>2. /\ call[c] # Idle /\ call[c].req.cmd # "Freeze"
      /\ legs \in [Holders -> Int]
      /\ Undoing(c).order \in BizNos \cup {NoBiz}
  BY <1>1, UndoingType DEF Posting
<1> HIDE DEF legs
<1>3. /\ avail' \in [Holders -> Int]
      /\ frozen' \in [Holders -> Int]
      /\ freeze' \in [BizNos -> FreezeOrder]
  BY <1>1, <1>2 DEF Inv, TypeOK
<1>4. [h \in Holders |-> -legs[h]] \in [Holders -> Int]
  BY <1>2
<1> QED
  BY <1>1, <1>2, <1>3, <1>4, CommitType

\* The order a command starts from, if any, is one of the table.
LEMMA BeginsType ==
    ASSUME Inv, NEW c \in Handlers, NEW r \in Menu,
           BeginPosting(c, r) \/ BeginSettle(c, r) \/ BeginReverse(c, r)
    PROVE  Inv'
<1>1. NoOrder \in FreezeOrder
  BY DEF NoOrder, FreezeOrder, Holders, SystemHolders
<1>2. CASE BeginPosting(c, r)
  BY <1>1, <1>2, BeginType DEF BeginPosting
<1>3. CASE BeginSettle(c, r)
  <2>1. freeze[r.ref] \in FreezeOrder
    BY <1>3, MenuAssumption DEF BeginSettle, Inv, TypeOK
  <2> QED
    BY <1>3, <2>1, BeginType DEF BeginSettle
<1>4. CASE BeginReverse(c, r)
  <2>1. PICK i \in DOMAIN journal :
            Begin(c, r, IF journal[i].cmd = "Freeze" THEN freeze[journal[i].order]
                        ELSE NoOrder, i)
    BY <1>4 DEF BeginReverse
  <2>2. i \in Nat /\ journal[i] \in Posting
    BY DEF Inv, TypeOK
  <2>3. journal[i].cmd = "Freeze" => journal[i].order \in BizNos
    BY DEF Inv, FreezeNamed
  <2>4. (IF journal[i].cmd = "Freeze" THEN freeze[journal[i].order] ELSE NoOrder)
            \in FreezeOrder
    BY <1>1, <2>3 DEF Inv, TypeOK
  <2> QED
    BY <2>1, <2>2, <2>4, BeginType
<1> QED
  BY <1>2, <1>3, <1>4

\* Credit, Debit and Transfer: between which accounts the amount moves.
LEMMA Moves ==
    ASSUME Inv, NEW c \in Handlers, PostCredit(c) \/ PostDebit(c) \/ PostTransfer(c)
    PROVE  /\ call[c] # Idle /\ call[c].req.cmd # "Freeze"
           /\ call[c].req.amount \in Nat
           /\ \E from, to \in Holders : Move(c, from, to)
<1>1. call[c] # Idle /\ call[c].req.cmd # "Freeze"
  BY DEF PostCredit, PostDebit, PostTransfer, Executing
<1>2. call[c].req \in Request
  BY <1>1, InProgress DEF Inv
<1>3. Issuance \in Holders /\ Sink \in Holders
  BY DEF Holders, SystemHolders
<1> QED
  BY <1>1, <1>2, <1>3 DEF PostCredit, PostDebit, PostTransfer, Request

LEMMA InvInit == Init => Inv
<1> SUFFICES ASSUME Init PROVE Inv
  OBVIOUS
<1>1. NoOrder \in FreezeOrder
  BY DEF NoOrder, FreezeOrder, Holders, SystemHolders
<1>2. TypeOK
  BY <1>1 DEF Init, TypeOK
<1>3. OriginalPosted /\ FreezeNamed
  BY DEF Init, OriginalPosted, FreezeNamed
<1> QED
  BY <1>2, <1>3 DEF Inv

LEMMA InvStep == Inv /\ [Next]_vars => Inv'
<1> SUFFICES ASSUME Inv, [Next]_vars PROVE Inv'
  OBVIOUS
<1>1. ASSUME NEW c \in Handlers, NEW r \in Menu,
             BeginPosting(c, r) \/ BeginSettle(c, r) \/ BeginReverse(c, r)
      PROVE  Inv'
  BY <1>1, BeginsType
<1>2. ASSUME NEW c \in Handlers, PostCredit(c) \/ PostDebit(c) \/ PostTransfer(c)
      PROVE  Inv'
  BY <1>2, Moves, MoveType
<1>3. ASSUME NEW c \in Handlers, PostFreeze(c) PROVE Inv'
  BY <1>3, PostFreezeType
<1>4. ASSUME NEW c \in Handlers, PostFullCapture(c) PROVE Inv'
  BY <1>4, PostFullCaptureType
<1>5. ASSUME NEW c \in Handlers, PostPartialCapture(c) PROVE Inv'
  BY <1>5, PostPartialCaptureType
<1>6. ASSUME NEW c \in Handlers, PostRelease(c) PROVE Inv'
  BY <1>6, PostReleaseType
<1>7. ASSUME NEW c \in Handlers, PostUnfreeze(c) PROVE Inv'
  BY <1>7, PostUnfreezeType
<1>8. ASSUME NEW c \in Handlers, PostReverse(c) PROVE Inv'
  BY <1>8, PostReverseType
<1>9. ASSUME NEW c \in Handlers, Rollback(c) PROVE Inv'
  BY <1>9 DEF Rollback, Inv, TypeOK, OriginalPosted, FreezeNamed
<1>10. ASSUME NEW h \in Disableable, NEW s \in {"active", "disabled"}, SetStatus(h, s)
       PROVE  Inv'
  BY <1>10 DEF SetStatus, Inv, TypeOK, OriginalPosted, FreezeNamed
<1>11. CASE UNCHANGED vars
  BY <1>11 DEF vars, Inv, TypeOK, OriginalPosted, FreezeNamed
<1> QED
  BY <1>1, <1>2, <1>3, <1>4, <1>5, <1>6, <1>7, <1>8, <1>9, <1>10, <1>11 DEF Next

\* Types, and with them that a Reverse in progress undoes a voucher that is
\* there and that a Freeze voucher names its order.
THEOREM InvHolds == Spec => []Inv
<1> QED
  BY InvInit, InvStep, PTL DEF Spec

\* Every table keeps its type, for any menu of requests: in particular amounts
\* of freeze orders never go negative, whatever stale copy is written back.
THEOREM TypeCorrect == Spec => []TypeOK
<1>1. Inv => TypeOK
  BY DEF Inv
<1> QED
  BY <1>1, InvHolds, PTL

-----------------------------------------------------------------------------
(* The sign of balances. *)

LEMMA UsersHold == ASSUME NEW u \in Users PROVE u \in Holders /\ u \notin SystemHolders
BY LedgerAssumption DEF Holders

LEMMA MoveNonNegative ==
    ASSUME Inv, NonNegative, NEW c \in Handlers, call[c].req.amount \in Nat,
           NEW from \in Holders, NEW to \in Holders, Move(c, from, to)
    PROVE  NonNegative'
<1> DEFINE n == call[c].req.amount
<1>1. /\ Covers(from, n)
      /\ avail' = [avail EXCEPT ![from] = @ - n, ![to] = @ + n]
      /\ frozen' = frozen
  BY DEF Move
<1>2. n \in Nat
  OBVIOUS
<1> HIDE DEF n
<1> SUFFICES ASSUME NEW u \in Users PROVE (OverdraftAllowed \/ avail'[u] >= 0) /\ frozen'[u] >= 0
  BY DEF NonNegative
<1>3. u \in Holders /\ u \notin SystemHolders
  BY UsersHold
<1>4. (OverdraftAllowed \/ avail[u] >= 0) /\ frozen[u] >= 0
  BY DEF NonNegative
<1>5. CASE OverdraftAllowed
  BY <1>1, <1>4, <1>5
<1>6. CASE ~OverdraftAllowed
  <2>1. avail[from] >= n \/ from # u
    BY <1>1, <1>3, <1>6 DEF Covers
  <2>2. avail[u] >= 0
    BY <1>4, <1>6
  <2>3. avail'[u] >= 0
    BY <1>1, <1>2, <1>3, <2>1, <2>2 DEF Inv, TypeOK
  <2> QED
    BY <1>1, <1>4, <2>3
<1> QED
  BY <1>5, <1>6

\* Capture, Release and the Reverse of a Freeze take from a frozen balance at
\* most what it covers, and give to an available balance.
LEMMA ThawNonNegative ==
    ASSUME Inv, NonNegative, NEW h \in Holders, NEW n \in Nat, NEW m \in Nat,
           frozen[h] >= n,
           frozen' = [frozen EXCEPT ![h] = @ - n],
           avail' = [avail EXCEPT ![h] = @ + m]
    PROVE  NonNegative'
<1> SUFFICES ASSUME NEW u \in Users PROVE (OverdraftAllowed \/ avail'[u] >= 0) /\ frozen'[u] >= 0
  BY DEF NonNegative
<1>1. u \in Holders
  BY UsersHold
<1>2. (OverdraftAllowed \/ avail[u] >= 0) /\ frozen[u] >= 0
  BY DEF NonNegative
<1> QED
  BY <1>1, <1>2 DEF Inv, TypeOK

LEMMA PostFreezeNonNegative ==
    ASSUME Inv, NonNegative, NEW c \in Handlers, PostFreeze(c)
    PROVE  NonNegative'
<1> DEFINE h == call[c].req.holder
           n == call[c].req.amount
<1>1. call[c] # Idle
  BY DEF PostFreeze, Executing
<1>2. h \in Holders /\ n \in Nat
  BY <1>1, InProgress DEF Inv, Request
<1>3. /\ avail[h] >= n \/ OverdraftAllowed
      /\ avail' = [avail EXCEPT ![h] = @ - n]
      /\ frozen' = [frozen EXCEPT ![h] = @ + n]
  BY DEF PostFreeze
<1> HIDE DEF h, n
<1> SUFFICES ASSUME NEW u \in Users PROVE (OverdraftAllowed \/ avail'[u] >= 0) /\ frozen'[u] >= 0
  BY DEF NonNegative
<1>4. u \in Holders
  BY UsersHold
<1>5. frozen'[u] >= 0
  BY <1>2, <1>3, <1>4 DEF NonNegative, Inv, TypeOK
<1>6. CASE OverdraftAllowed
  BY <1>5, <1>6
<1>7. CASE ~OverdraftAllowed
  <2>1. avail[h] >= n /\ avail[u] >= 0
    BY <1>3, <1>7 DEF NonNegative
  <2>2. avail'[u] >= 0
    BY <1>2, <1>3, <1>4, <2>1 DEF Inv, TypeOK
  <2> QED
    BY <1>5, <2>2
<1> QED
  BY <1>6, <1>7

LEMMA PostReverseNonNegative ==
    ASSUME Inv, NonNegative, NEW c \in Handlers, PostReverse(c)
    PROVE  NonNegative'
<1> DEFINE legs == Undoing(c).legs
<1>1. /\ \A h \in Holders : legs[h] > 0 => Covers(h, legs[h])
      /\ avail' = [h \in Holders |-> avail[h] - legs[h]]
      /\ frozen' = frozen
      /\ legs \in [Holders -> Int]
  <2>1. Undoing(c) \in Posting
    BY UndoingType DEF PostReverse
  <2>2. legs \in [Holders -> Int]
    BY <2>1 DEF Posting
  <2>3. \A h \in Holders : legs[h] > 0 => h \in {x \in Holders : legs[x] # 0}
    BY <2>2
  <2> QED
    BY <2>2, <2>3 DEF PostReverse
<1> HIDE DEF legs
<1> SUFFICES ASSUME NEW u \in Users PROVE (OverdraftAllowed \/ avail'[u] >= 0) /\ frozen'[u] >= 0
  BY DEF NonNegative
<1>2. u \in Holders /\ u \notin SystemHolders
  BY UsersHold
<1>3. frozen'[u] >= 0
  BY <1>1 DEF NonNegative
<1>4. CASE OverdraftAllowed
  BY <1>3, <1>4
<1>5. CASE ~OverdraftAllowed
  <2>1. avail[u] >= 0
    BY <1>5 DEF NonNegative
  <2>2. legs[u] > 0 => avail[u] >= legs[u]
    BY <1>1, <1>2, <1>5 DEF Covers
  <2>3. avail'[u] >= 0
    BY <1>1, <1>2, <2>1, <2>2 DEF Inv, TypeOK
  <2> QED
    BY <1>3, <2>3
<1> QED
  BY <1>4, <1>5

LEMMA NonNegativeStep == Inv /\ NonNegative /\ [Next]_vars => NonNegative'
<1> SUFFICES ASSUME Inv, NonNegative, [Next]_vars PROVE NonNegative'
  OBVIOUS
<1>1. ASSUME NEW c \in Handlers, PostCredit(c) \/ PostDebit(c) \/ PostTransfer(c)
      PROVE  NonNegative'
  BY <1>1, Moves, MoveNonNegative
<1>2. ASSUME NEW c \in Handlers, PostFreeze(c) PROVE NonNegative'
  BY <1>2, PostFreezeNonNegative
<1>3. ASSUME NEW c \in Handlers, PostFullCapture(c) PROVE NonNegative'
  <2> DEFINE o == call[c].order
  <2>1. o.holder \in Holders /\ o.amount \in Nat /\ frozen[o.holder] >= o.amount
    BY <1>3, SettlesType DEF PostFullCapture, Settles
  <2>2. frozen' = [frozen EXCEPT ![o.holder] = @ - o.amount] /\ avail' = avail
    BY <1>3 DEF PostFullCapture
  <2> HIDE DEF o
  <2>3. avail' = [avail EXCEPT ![o.holder] = @ + 0]
    BY <2>1, <2>2 DEF Inv, TypeOK
  <2> QED
    BY <2>1, <2>2, <2>3, ThawNonNegative
<1>4. ASSUME NEW c \in Handlers, PostPartialCapture(c) PROVE NonNegative'
  <2> DEFINE o == call[c].order
             n == call[c].req.amount
  <2>1. /\ o.holder \in Holders /\ o.amount \in Nat /\ n \in Nat
        /\ frozen[o.holder] >= o.amount
    BY <1>4, SettlesType DEF PostPartialCapture, Settles
  <2>2. n < o.amount /\ frozen' = [frozen EXCEPT ![o.holder] = @ - n] /\ avail' = avail
    BY <1>4 DEF PostPartialCapture
  <2> HIDE DEF o, n
  <2>3. frozen[o.holder] >= n
    BY <2>1, <2>2 DEF Inv, TypeOK
  <2>4. avail' = [avail EXCEPT ![o.holder] = @ + 0]
    BY <2>1, <2>2 DEF Inv, TypeOK
  <2> QED
    BY <2>1, <2>2, <2>3, <2>4, ThawNonNegative
<1>5. ASSUME NEW c \in Handlers, PostRelease(c) PROVE NonNegative'
  <2>1. /\ call[c].order.holder \in Holders
        /\ call[c].order.amount \in Nat
        /\ frozen[call[c].order.holder] >= call[c].order.amount
    BY <1>5, SettlesType DEF PostRelease, Settles
  <2> QED
    BY <1>5, <2>1, ThawNonNegative DEF PostRelease
<1>6. ASSUME NEW c \in Handlers, PostUnfreeze(c) PROVE NonNegative'
  <2>1. call[c].order.holder \in Holders /\ call[c].order.amount \in Nat
    BY <1>6, UndoingType DEF PostUnfreeze
  <2> QED
    BY <1>6, <2>1, ThawNonNegative DEF PostUnfreeze
<1>7. ASSUME NEW c \in Handlers, PostReverse(c) PROVE NonNegative'
  BY <1>7, PostReverseNonNegative
<1>8. (\E c \in Handlers, r \in Menu :
           BeginPosting(c, r) \/ BeginSettle(c, r) \/ BeginReverse(c, r))
      => UNCHANGED <<avail, frozen>>
  BY DEF BeginPosting, BeginSettle, BeginReverse, Begin
<1>9. (\E c \in Handlers : Rollback(c)) => UNCHANGED <<avail, frozen>>
  BY DEF Rollback
<1>10. (\E h \in Disableable, s \in {"active", "disabled"} : SetStatus(h, s))
       => UNCHANGED <<avail, frozen>>
  BY DEF SetStatus
<1>11. UNCHANGED vars => UNCHANGED <<avail, frozen>>
  BY DEF vars
<1>12. UNCHANGED <<avail, frozen>> => NonNegative'
  BY DEF NonNegative
<1> QED
  BY <1>1, <1>2, <1>3, <1>4, <1>5, <1>6, <1>7, <1>8, <1>9, <1>10, <1>11, <1>12 DEF Next

\* No interleaving of commands over any menu overdraws a user whose asset does
\* not allow it, or drives a user's frozen balance negative.
THEOREM BalancesNonNegative == Spec => []NonNegative
<1>1. Init => NonNegative
  BY UsersHold DEF Init, NonNegative
<1> QED
  BY <1>1, InvHolds, NonNegativeStep, PTL DEF Spec

-----------------------------------------------------------------------------
(* Idempotency. *)

\* Every command that commits does so through Record; nothing else touches the
\* idempotency table and the journal.
LEMMA OnlyRecordWrites ==
    ASSUME Inv, [Next]_vars
    PROVE  \/ \E c \in Handlers : \E legs, order, unfreeze :
                 call[c] # Idle /\ Record(c, legs, order, unfreeze)
           \/ UNCHANGED <<idem, journal>>
<1>1. ASSUME NEW c \in Handlers, PostCredit(c) \/ PostDebit(c) \/ PostTransfer(c)
      PROVE  \E legs, order, unfreeze : call[c] # Idle /\ Record(c, legs, order, unfreeze)
  BY <1>1, Moves DEF Move
<1>2. ASSUME NEW c \in Handlers,
             PostFreeze(c) \/ PostFullCapture(c) \/ PostPartialCapture(c) \/ PostRelease(c)
      PROVE  \E legs, order, unfreeze : call[c] # Idle /\ Record(c, legs, order, unfreeze)
  <2>1. call[c] # Idle
    BY <1>2 DEF PostFreeze, PostFullCapture, PostPartialCapture, PostRelease, Settles, Executing
  <2> QED
    BY <1>2, <2>1 DEF PostFreeze, PostFullCapture, PostPartialCapture, PostRelease
<1>3. ASSUME NEW c \in Handlers, PostUnfreeze(c) \/ PostReverse(c)
      PROVE  \E legs, order, unfreeze : call[c] # Idle /\ Record(c, legs, order, unfreeze)
  BY <1>3 DEF PostUnfreeze, PostReverse, Executing
<1>4. ASSUME NEW c \in Handlers, NEW r \in Menu,
             BeginPosting(c, r) \/ BeginSettle(c, r) \/ BeginReverse(c, r)
      PROVE  UNCHANGED <<idem, journal>>
  BY <1>4 DEF BeginPosting, BeginSettle, BeginReverse, Begin
<1>5. ASSUME NEW c \in Handlers, Rollback(c) PROVE UNCHANGED <<idem, journal>>
  BY <1>5 DEF Rollback
<1>6. ASSUME NEW h \in Disableable, NEW s \in {"active", "disabled"}, SetStatus(h, s)
      PROVE  UNCHANGED <<idem, journal>>
  BY <1>6 DEF SetStatus
<1>7. CASE UNCHANGED vars
  BY <1>7 DEF vars
<1> QED
  BY <1>1, <1>2, <1>3, <1>4, <1>5, <1>6, <1>7 DEF Next

LEMMA ExactlyOnceStep == Inv /\ ExactlyOnce /\ [Next]_vars => ExactlyOnce'
<1> SUFFICES ASSUME Inv, ExactlyOnce, [Next]_vars PROVE ExactlyOnce'
  OBVIOUS
<1>1. ASSUME NEW c \in Handlers, NEW legs, NEW order, NEW unfreeze,
             Record(c, legs, order, unfreeze)
      PROVE  ExactlyOnce'
  <2> DEFINE r == call[c].req
             p == [cmd |-> r.cmd, biz |-> r.biz, to |-> r.to, legs |-> legs,
                   order |-> order, unfreeze |-> unfreeze, orig |-> call[c].orig]
             k == HashOf(r)
  <2>1. /\ ~KeyTaken(r)
        /\ idem' = idem \cup {k}
        /\ journal' = Append(journal, p)
    BY <1>1 DEF Record
  <2>2. p.cmd = r.cmd /\ p.biz = r.biz /\ k.cmd = r.cmd /\ k.biz = r.biz
    BY DEF HashOf
  <2> HIDE DEF k, p, r
  <2>3. journal \in Seq(Posting)
    BY DEF Inv, TypeOK
  <2>4. /\ DOMAIN journal' = DOMAIN journal \cup {Len(journal) + 1}
        /\ Len(journal) + 1 \notin DOMAIN journal
        /\ \A i \in DOMAIN journal : journal'[i] = journal[i]
        /\ journal'[Len(journal) + 1] = p
    BY <2>1, <2>3
  <2>5. \A i \in DOMAIN journal : ~(journal[i].cmd = p.cmd /\ journal[i].biz = p.biz)
    BY <2>1, <2>2 DEF ExactlyOnce, KeyTaken
  <2>6. \A i, j \in DOMAIN journal' :
            journal'[i].cmd = journal'[j].cmd /\ journal'[i].biz = journal'[j].biz => i = j
    BY <2>4, <2>5 DEF ExactlyOnce
  <2>7. \A i \in DOMAIN journal' : \E x \in idem' :
            x.cmd = journal'[i].cmd /\ x.biz = journal'[i].biz
    BY <2>1, <2>2, <2>4 DEF ExactlyOnce, KeyTaken
  <2>8. \A x \in idem' : \E i \in DOMAIN journal' :
            journal'[i].cmd = x.cmd /\ journal'[i].biz = x.biz
    BY <2>1, <2>2, <2>4 DEF ExactlyOnce
  <2> QED
    BY <2>6, <2>7, <2>8 DEF ExactlyOnce, KeyTaken
<1>2. CASE UNCHANGED <<idem, journal>>
  BY <1>2 DEF ExactlyOnce, KeyTaken
<1> QED
  BY <1>1, <1>2, OnlyRecordWrites

\* One voucher per (biz_no, command), and a voucher exactly where there is an
\* idempotency record, for every number of concurrent retries.
THEOREM PostedExactlyOnce == Spec => []ExactlyOnce
<1>1. Init => ExactlyOnce
  BY DEF Init, ExactlyOnce
<1> QED
  BY <1>1, InvHolds, ExactlyOnceStep, PTL DEF Spec

-----------------------------------------------------------------------------
(* Disabled accounts. *)

DisabledStep ==
    \A h \in Holders : status[h] = "disabled" => avail'[h] = avail[h] /\ frozen'[h] = frozen[h]

LEMMA DisabledKept == Inv /\ [Next]_vars => DisabledStep
<1> SUFFICES ASSUME Inv, [Next]_vars, NEW h \in Holders, status[h] = "disabled"
             PROVE  avail'[h] = avail[h] /\ frozen'[h] = frozen[h]
  BY DEF DisabledStep
<1> DEFINE Kept == avail'[h] = avail[h] /\ frozen'[h] = frozen[h]
<1>1. ASSUME NEW c \in Handlers, PostCredit(c) \/ PostDebit(c) \/ PostTransfer(c) PROVE Kept
  <2>1. PICK from \in Holders, to \in Holders : Move(c, from, to)
    BY <1>1, Moves
  <2>2. h # from /\ h # to
    BY <2>1 DEF Move, Usable
  <2> QED
    BY <2>1, <2>2 DEF Move, Inv, TypeOK
<1>2. ASSUME NEW c \in Handlers, PostFreeze(c) PROVE Kept
  BY <1>2 DEF PostFreeze, Usable, Inv, TypeOK
<1>3. ASSUME NEW c \in Handlers,
             PostFullCapture(c) \/ PostPartialCapture(c) \/ PostRelease(c)
      PROVE  Kept
  <2>1. h # call[c].order.holder
    BY <1>3 DEF PostFullCapture, PostPartialCapture, PostRelease, Settles, Usable
  <2> QED
    BY <1>3, <2>1 DEF PostFullCapture, PostPartialCapture, PostRelease, Inv, TypeOK
<1>4. ASSUME NEW c \in Handlers, PostUnfreeze(c) PROVE Kept
  BY <1>4 DEF PostUnfreeze, Usable, Inv, TypeOK
<1>5. ASSUME NEW c \in Handlers, PostReverse(c) PROVE Kept
  <2> DEFINE legs == Undoing(c).legs
  <2>1. /\ Usable({x \in Holders : legs[x] # 0})
        /\ avail' = [x \in Holders |-> avail[x] - legs[x]]
        /\ frozen' = frozen
    BY <1>5 DEF PostReverse
  <2> HIDE DEF legs
  <2>2. legs[h] = 0
    BY <2>1 DEF Usable
  <2> QED
    BY <2>1, <2>2 DEF Inv, TypeOK
<1>6. UNCHANGED <<avail, frozen>> => Kept
  OBVIOUS
<1>7. ASSUME NEW c \in Handlers, NEW r \in Menu,
             BeginPosting(c, r) \/ BeginSettle(c, r) \/ BeginReverse(c, r)
      PROVE  Kept
  BY <1>7 DEF BeginPosting, BeginSettle, BeginReverse, Begin
<1>8. ASSUME NEW c \in Handlers, Rollback(c) PROVE Kept
  BY <1>8 DEF Rollback
<1>9. ASSUME NEW x \in Disableable, NEW s \in {"active", "disabled"}, SetStatus(x, s)
      PROVE  Kept
  BY <1>9 DEF SetStatus
<1>10. CASE UNCHANGED vars
  BY <1>10 DEF vars
<1> QED
  BY <1>1, <1>2, <1>3, <1>4, <1>5, <1>7, <1>8, <1>9, <1>10 DEF Next

\* No step changes a balance of an account that is disabled when it is taken,
\* whatever the command had read before the account was disabled.
THEOREM DisabledStaysUntouched == Spec => DisabledUntouched
<1>1. Inv /\ [Next]_vars => [DisabledStep]_vars
  BY DisabledKept
<1> QED
  BY <1>1, InvHolds, PTL DEF Spec, DisabledUntouched, DisabledStep

-----------------------------------------------------------------------------
(* Freeze orders. *)

\* Without partial captures an order changes only through CloseOrder, which is
\* conditional on its status.  With them OrderLifecycle does not hold: a copy
\* read before another settlement is written back whole.
CapturesInFull == \A r \in Menu : r.cmd = "Capture" => r.amount = 0

OrderStep ==
    \A b \in BizNos :
        /\ freeze[b].status \in {"captured", "released"} => freeze'[b] = freeze[b]
        /\ freeze[b].status = "none" => freeze'[b].status \in {"none", "frozen"}
        /\ freeze[b].status = "frozen" =>
              freeze'[b].status # "none" /\ freeze'[b].amount <= freeze[b].amount

LEMMA ClosedOnce ==
    ASSUME Inv, NEW b, NEW to \in {"captured", "released"}, CloseOrder(b, to)
    PROVE  OrderStep
<1> SUFFICES ASSUME NEW x \in BizNos
             PROVE  /\ freeze[x].status \in {"captured", "released"} => freeze'[x] = freeze[x]
                    /\ freeze[x].status = "none" => freeze'[x].status \in {"none", "frozen"}
                    /\ freeze[x].status = "frozen" =>
                          freeze'[x].status # "none" /\ freeze'[x].amount <= freeze[x].amount
  BY DEF OrderStep
<1>1. freeze[x] \in FreezeOrder
  BY DEF Inv, TypeOK
<1>2. x = b \/ freeze'[x] = freeze[x]
  BY DEF CloseOrder, Inv, TypeOK
<1>3. x = b => freeze[x].status = "frozen" /\ freeze'[x] = [freeze[x] EXCEPT !.status = to]
  BY DEF CloseOrder, Inv, TypeOK
<1> QED
  BY <1>1, <1>2, <1>3 DEF FreezeOrder

LEMMA OrderStepHolds == ASSUME CapturesInFull PROVE Inv /\ [Next]_vars => OrderStep
<1> SUFFICES ASSUME Inv, [Next]_vars PROVE OrderStep
  OBVIOUS
<1>1. \A b \in BizNos : freeze[b].amount \in Nat
  BY DEF Inv, TypeOK, FreezeOrder
<1>2. freeze' = freeze => OrderStep
  BY <1>1 DEF OrderStep
<1>3. ASSUME NEW c \in Handlers, PostCredit(c) \/ PostDebit(c) \/ PostTransfer(c)
      PROVE  freeze' = freeze
  BY <1>3, Moves DEF Move
<1>4. ASSUME NEW c \in Handlers, PostFreeze(c) PROVE OrderStep
  BY <1>1, <1>4 DEF PostFreeze, OrderStep, Inv, TypeOK
<1>5. ASSUME NEW c \in Handlers, PostFullCapture(c) \/ PostRelease(c) \/ PostUnfreeze(c)
      PROVE  OrderStep
  BY <1>5, ClosedOnce DEF PostFullCapture, PostRelease, PostUnfreeze
<1>6. ASSUME NEW c \in Handlers, PostPartialCapture(c) PROVE FALSE
  <2>1. call[c] # Idle /\ call[c].req.cmd = "Capture" /\ call[c].req.amount > 0
    BY <1>6, SettlesType DEF PostPartialCapture
  <2>2. call[c].req \in Menu
    BY <2>1, InProgress DEF Inv
  <2> QED
    BY <2>1, <2>2 DEF CapturesInFull
<1>7. ASSUME NEW c \in Handlers, PostReverse(c) PROVE freeze' = freeze
  BY <1>7 DEF PostReverse
<1>8. ASSUME NEW c \in Handlers, NEW r \in Menu,
             BeginPosting(c, r) \/ BeginSettle(c, r) \/ BeginReverse(c, r)
      PROVE  freeze' = freeze
  BY <1>8 DEF BeginPosting, BeginSettle, BeginReverse, Begin
<1>9. ASSUME NEW c \in Handlers, Rollback(c) PROVE freeze' = freeze
  BY <1>9 DEF Rollback
<1>10. ASSUME NEW h \in Disableable, NEW s \in {"active", "disabled"}, SetStatus(h, s)
       PROVE  freeze' = freeze
  BY <1>10 DEF SetStatus
<1>11. UNCHANGED vars => freeze' = freeze
  BY DEF vars
<1> QED
  BY <1>2, <1>3, <1>4, <1>5, <1>6, <1>7, <1>8, <1>9, <1>10, <1>11 DEF Next

\* Where every Capture takes the whole order, a freeze order follows the state
\* diagram of docs/05: captured and released are final, whatever commands race.
THEOREM OrdersFollowLifecycle == ASSUME CapturesInFull PROVE Spec => OrderLifecycle
<1>1. Inv /\ [Next]_vars => [OrderStep]_vars
  BY OrderStepHolds
<1> QED
  BY <1>1, InvHolds, PTL DEF Spec, OrderLifecycle, OrderStep

-----------------------------------------------------------------------------
(* Sums over finite sets: MapThenFoldSet takes the elements one by one in   *)
(* the order of its own choice.  Its unfolding is shown to exist, and to    *)
(* be the only one, because no family of subsets of a finite set goes down  *)
(* for ever; then the order is shown not to matter.                         *)

Pick(s) == CHOOSE x \in s : TRUE

Adds(w, S, g) ==
    g = [s \in SUBSET S |-> IF s = {} THEN 0 ELSE w[Pick(s)] + g[s \ {Pick(s)}]]

Adder(w, S) == CHOOSE g : Adds(w, S, g)

\* A family of subsets of a finite set that holds a set whenever it holds every
\* smaller one holds them all.
LEMMA SubsetInduction ==
    ASSUME NEW S, IsFiniteSet(S), NEW F,
           \A T \in SUBSET S : (\A U \in SUBSET T : U # T => U \in F) => T \in F
    PROVE  SUBSET S \subseteq F
<1> DEFINE R == StrictSubsetOrdering(S)
           Bad == (SUBSET S) \ F
<1>1. IsWellFoundedOn(R, SUBSET S)
  BY FS_StrictSubsetOrderingWellFounded, FS_FiniteSubsetsOfFinite
<1>2. SUFFICES ASSUME Bad # {} PROVE FALSE
  OBVIOUS
<1>3. Bad \subseteq SUBSET S
  OBVIOUS
<1> HIDE DEF R, Bad
<1>4. PICK T \in Bad : \A U \in Bad : <<U, T>> \notin R
  BY <1>1, <1>2, <1>3, WFMin
<1> USE DEF Bad
<1>5. ASSUME NEW U \in SUBSET T, U # T PROVE U \in F
  <2>1. U \in SUBSET S /\ T \in SUBSET S
    BY <1>4, <1>5
  <2>2. <<U, T>> \in R
    BY <1>5, <2>1 DEF R, StrictSubsetOrdering
  <2> QED
    BY <1>4, <2>1, <2>2
<1> QED
  BY <1>4, <1>5

\* The sum of the community modules is the one its unfolding gives.
LEMMA SumIsAdder ==
    ASSUME NEW w, NEW S
    PROVE  SumFunctionOnSet(w, S) = Adder(w, S)[S]
BY DEF SumFunctionOnSet, FoldFunctionOnSet, MapThenFoldSet, Adder, Adds, Pick

LEMMA PickIn == ASSUME NEW s, s # {} PROVE Pick(s) \in s
BY DEF Pick

\* Two unfoldings agree on the subsets both have.
LEMMA AdderUnique ==
    ASSUME NEW w, NEW S, IsFiniteSet(S), NEW T \in SUBSET S, NEW g, NEW h,
           Adds(w, S, g), Adds(w, T, h)
    PROVE  \A s \in SUBSET T : g[s] = h[s]
<1> DEFINE F == {s \in SUBSET T : g[s] = h[s]}
<1>1. ASSUME NEW s \in SUBSET T, \A U \in SUBSET s : U # s => U \in F
      PROVE  s \in F
  <2>1. /\ g[s] = IF s = {} THEN 0 ELSE w[Pick(s)] + g[s \ {Pick(s)}]
        /\ h[s] = IF s = {} THEN 0 ELSE w[Pick(s)] + h[s \ {Pick(s)}]
    BY DEF Adds
  <2>2. s # {} => s \ {Pick(s)} \in F
    BY <1>1, PickIn
  <2> QED
    BY <2>1, <2>2
<1>2. IsFiniteSet(T)
  BY FS_Subset
<1> HIDE DEF F
<1>3. SUBSET T \subseteq F
  BY <1>1, <1>2, SubsetInduction
<1> QED
  BY <1>3 DEF F

\* There is an unfolding, made of those of the smaller sets.
LEMMA AdderExists ==
    ASSUME NEW w, NEW S, IsFiniteSet(S)
    PROVE  Adds(w, S, Adder(w, S))
<1> DEFINE F == {T \in SUBSET S : Adds(w, T, Adder(w, T))}
           V(s) == Adder(w, s)[s]
<1>1. ASSUME NEW T \in SUBSET S, \A U \in SUBSET T : U # T => U \in F
      PROVE  T \in F
  <2> DEFINE val == [s \in SUBSET T |->
                        IF s = {} THEN 0 ELSE w[Pick(s)] + V(s \ {Pick(s)})]
  <2>1. ASSUME NEW s \in SUBSET T, s # T PROVE val[s] = V(s)
    <3>1. Adds(w, s, Adder(w, s))
      BY <1>1, <2>1
    <3>2. V(s) = IF s = {} THEN 0 ELSE w[Pick(s)] + Adder(w, s)[s \ {Pick(s)}]
      BY <3>1 DEF Adds
    <3>3. ASSUME s # {} PROVE Adder(w, s)[s \ {Pick(s)}] = V(s \ {Pick(s)})
      <4>1. Pick(s) \in s
        BY <3>3, PickIn
      <4>2. Adds(w, s \ {Pick(s)}, Adder(w, s \ {Pick(s)}))
        BY <1>1, <4>1
      <4>3. IsFiniteSet(s)
        BY FS_Subset
      <4> QED
        BY <3>1, <4>2, <4>3, AdderUnique
    <3> QED
      BY <3>2, <3>3
  <2>2. Adds(w, T, val)
    <3>1. ASSUME NEW s \in SUBSET T, s # {} PROVE val[s \ {Pick(s)}] = V(s \ {Pick(s)})
      <4>1. s \ {Pick(s)} \in SUBSET T /\ s \ {Pick(s)} # T
        BY <3>1, PickIn
      <4> HIDE DEF val, V
      <4> QED
        BY <2>1, <4>1
    <3> QED
      BY <3>1 DEF Adds
  <2> QED
    BY <2>2 DEF Adder
<1> HIDE DEF F
<1>2. SUBSET S \subseteq F
  BY <1>1, SubsetInduction
<1> QED
  BY <1>2 DEF F

LEMMA SumEmpty == ASSUME NEW w PROVE SumFunctionOnSet(w, {}) = 0
<1>1. Adds(w, {}, Adder(w, {}))
  BY AdderExists, FS_EmptySet
<1> QED
  BY <1>1, SumIsAdder DEF Adds

\* A sum is the element picked and the sum of the others.
LEMMA SumPicks ==
    ASSUME NEW w, NEW S, IsFiniteSet(S), S # {}
    PROVE  SumFunctionOnSet(w, S) = w[Pick(S)] + SumFunctionOnSet(w, S \ {Pick(S)})
<1> DEFINE T == S \ {Pick(S)}
<1>1. Adds(w, S, Adder(w, S))
  BY AdderExists
<1>2. Adds(w, T, Adder(w, T))
  BY AdderExists, FS_RemoveElement
<1>3. Adder(w, S)[T] = Adder(w, T)[T]
  <2>1. T \in SUBSET S /\ T \in SUBSET T
    OBVIOUS
  <2> HIDE DEF T
  <2> QED
    BY <1>1, <1>2, <2>1, AdderUnique
<1>4. Adder(w, S)[S] = w[Pick(S)] + Adder(w, S)[T]
  BY <1>1 DEF Adds
<1> QED
  BY <1>3, <1>4, SumIsAdder

LEMMA SumInt ==
    ASSUME NEW w, NEW S, IsFiniteSet(S), \A x \in S : w[x] \in Int
    PROVE  SumFunctionOnSet(w, S) \in Int
<1> DEFINE F == {T \in SUBSET S : SumFunctionOnSet(w, T) \in Int}
<1>1. ASSUME NEW T \in SUBSET S, \A U \in SUBSET T : U # T => U \in F
      PROVE  T \in F
  <2>1. CASE T = {}
    BY <2>1, SumEmpty
  <2>2. CASE T # {}
    <3>1. Pick(T) \in T /\ IsFiniteSet(T)
      BY <2>2, PickIn, FS_Subset
    <3>2. SumFunctionOnSet(w, T \ {Pick(T)}) \in Int /\ w[Pick(T)] \in Int
      BY <1>1, <3>1
    <3>3. SumFunctionOnSet(w, T) = w[Pick(T)] + SumFunctionOnSet(w, T \ {Pick(T)})
      BY <2>2, <3>1, SumPicks
    <3> QED
      BY <3>2, <3>3
  <2> QED
    BY <2>1, <2>2
<1> HIDE DEF F
<1>2. SUBSET S \subseteq F
  BY <1>1, SubsetInduction
<1> QED
  BY <1>2 DEF F

\* Any element may be taken out first.
LEMMA SumRemove ==
    ASSUME NEW w, NEW S, IsFiniteSet(S), \A x \in S : w[x] \in Int, NEW x \in S
    PROVE  SumFunctionOnSet(w, S) = w[x] + SumFunctionOnSet(w, S \ {x})
<1> DEFINE Tot(T) == SumFunctionOnSet(w, T)
           F == {T \in SUBSET S : \A y \in T : Tot(T) = w[y] + Tot(T \ {y})}
<1>1. ASSUME NEW T \in SUBSET S, \A U \in SUBSET T : U # T => U \in F
      PROVE  T \in F
  <2> SUFFICES ASSUME NEW y \in T PROVE Tot(T) = w[y] + Tot(T \ {y})
    OBVIOUS
  <2> DEFINE p == Pick(T)
  <2>1. p \in T
    BY PickIn
  <2>2. IsFiniteSet(T)
    BY FS_Subset
  <2>3. Tot(T) = w[p] + Tot(T \ {p})
    BY <2>2, SumPicks
  <2>4. CASE p = y
    BY <2>3, <2>4
  <2>5. CASE p # y
    <3>1. Tot(T \ {p}) = w[y] + Tot((T \ {p}) \ {y})
      BY <1>1, <2>1, <2>5
    <3>2. Tot(T \ {y}) = w[p] + Tot((T \ {y}) \ {p})
      BY <1>1, <2>1, <2>5
    <3>3. (T \ {y}) \ {p} = (T \ {p}) \ {y}
      OBVIOUS
    <3>4. w[p] \in Int /\ w[y] \in Int
      BY <2>1
    <3>5. Tot((T \ {p}) \ {y}) \in Int
      <4>1. IsFiniteSet((T \ {p}) \ {y})
        BY <2>2, FS_Subset
      <4> QED
        BY <4>1, SumInt
    <3>6. Tot((T \ {y}) \ {p}) = Tot((T \ {p}) \ {y})
      BY <3>3
    <3> DEFINE rest == Tot((T \ {p}) \ {y})
    <3>7. Tot(T \ {p}) = w[y] + rest /\ Tot(T \ {y}) = w[p] + rest /\ rest \in Int
      BY <3>1, <3>2, <3>5, <3>6
    <3> HIDE DEF Tot, p, rest
    <3> QED
      BY <2>3, <3>4, <3>7
  <2> QED
    BY <2>4, <2>5
<1> HIDE DEF F
<1>2. SUBSET S \subseteq F
  BY <1>1, SubsetInduction
<1>3. S \in F
  BY <1>2
<1> QED
  BY <1>3 DEF F

\* A sum depends on nothing but what the function is on the set.
LEMMA SumSame ==
    ASSUME NEW S, IsFiniteSet(S), NEW w, NEW v, \A x \in S : w[x] = v[x]
    PROVE  SumFunctionOnSet(w, S) = SumFunctionOnSet(v, S)
<1> DEFINE F == {T \in SUBSET S : SumFunctionOnSet(w, T) = SumFunctionOnSet(v, T)}
<1>1. ASSUME NEW T \in SUBSET S, \A U \in SUBSET T : U # T => U \in F
      PROVE  T \in F
  <2>1. CASE T = {}
    BY <2>1, SumEmpty
  <2>2. CASE T # {}
    <3>1. Pick(T) \in T /\ IsFiniteSet(T)
      BY <2>2, PickIn, FS_Subset
    <3>2. SumFunctionOnSet(w, T \ {Pick(T)}) = SumFunctionOnSet(v, T \ {Pick(T)})
      BY <1>1, <3>1
    <3>3. w[Pick(T)] = v[Pick(T)]
      BY <3>1
    <3> QED
      BY <2>2, <3>1, <3>2, <3>3, SumPicks
  <2> QED
    BY <2>1, <2>2
<1> HIDE DEF F
<1>2. SUBSET S \subseteq F
  BY <1>1, SubsetInduction
<1> QED
  BY <1>2 DEF F

(* What the proofs below use: the total of a function on a finite set. *)

LEMMA TotalType ==
    ASSUME NEW S, IsFiniteSet(S), NEW w \in [S -> Int]
    PROVE  SumFunction(w) \in Int
BY SumInt DEF SumFunction

LEMMA TotalEmpty == ASSUME NEW w, DOMAIN w = {} PROVE SumFunction(w) = 0
BY SumEmpty DEF SumFunction

\* An index more.
LEMMA TotalAppend ==
    ASSUME NEW S, IsFiniteSet(S), NEW x, x \notin S, NEW w \in [S -> Int],
           NEW v \in [S \cup {x} -> Int], \A y \in S : v[y] = w[y]
    PROVE  SumFunction(v) = SumFunction(w) + v[x]
<1> DEFINE T == S \cup {x}
<1>1. IsFiniteSet(T) /\ x \in T /\ T \ {x} = S /\ DOMAIN v = T /\ DOMAIN w = S
  BY FS_AddElement
<1>2. \A y \in T : v[y] \in Int
  OBVIOUS
<1> HIDE DEF T
<1>3. SumFunctionOnSet(v, T) = v[x] + SumFunctionOnSet(v, S)
  BY <1>1, <1>2, SumRemove
<1>4. SumFunctionOnSet(v, S) = SumFunctionOnSet(w, S)
  BY SumSame
<1>5. SumFunctionOnSet(w, S) \in Int
  BY SumInt
<1> QED
  BY <1>1, <1>2, <1>3, <1>4, <1>5 DEF SumFunction

\* Another value at one index.
LEMMA TotalChange ==
    ASSUME NEW S, IsFiniteSet(S), NEW x \in S, NEW w \in [S -> Int],
           NEW v \in [S -> Int], \A y \in S : y # x => v[y] = w[y]
    PROVE  SumFunction(v) = SumFunction(w) - w[x] + v[x]
<1> DEFINE R == S \ {x}
<1>1. IsFiniteSet(R)
  BY FS_RemoveElement
<1>2. /\ SumFunctionOnSet(v, S) = v[x] + SumFunctionOnSet(v, R)
      /\ SumFunctionOnSet(w, S) = w[x] + SumFunctionOnSet(w, R)
  BY SumRemove
<1>3. SumFunctionOnSet(v, R) = SumFunctionOnSet(w, R) /\ SumFunctionOnSet(w, R) \in Int
  BY <1>1, SumSame, SumInt
<1>4. SumFunction(v) = SumFunctionOnSet(v, S) /\ SumFunction(w) = SumFunctionOnSet(w, S)
  BY DEF SumFunction
<1> HIDE DEF R
<1> QED
  BY <1>2, <1>3, <1>4

\* Two functions added index by index.
LEMMA TotalAdd ==
    ASSUME NEW S, IsFiniteSet(S), NEW w \in [S -> Int], NEW v \in [S -> Int],
           NEW z \in [S -> Int], \A y \in S : z[y] = w[y] + v[y]
    PROVE  SumFunction(z) = SumFunction(w) + SumFunction(v)
<1> DEFINE Sum(f, T) == SumFunctionOnSet(f, T)
           F == {T \in SUBSET S : Sum(z, T) = Sum(w, T) + Sum(v, T)}
<1>1. ASSUME NEW T \in SUBSET S, \A U \in SUBSET T : U # T => U \in F
      PROVE  T \in F
  <2>1. CASE T = {}
    BY <2>1, SumEmpty
  <2>2. CASE T # {}
    <3> DEFINE p == Pick(T)
               U == T \ {p}
    <3>1. p \in T /\ p \in S /\ IsFiniteSet(T) /\ IsFiniteSet(U)
      BY <2>2, PickIn, FS_Subset
    <3>2. Sum(z, U) = Sum(w, U) + Sum(v, U)
      BY <1>1, <3>1
    <3>3. /\ Sum(z, T) = z[p] + Sum(z, U)
          /\ Sum(w, T) = w[p] + Sum(w, U)
          /\ Sum(v, T) = v[p] + Sum(v, U)
      BY <2>2, <3>1, SumPicks
    <3>4. Sum(w, U) \in Int /\ Sum(v, U) \in Int
      BY <3>1, SumInt
    <3>5. z[p] = w[p] + v[p] /\ w[p] \in Int /\ v[p] \in Int
      BY <3>1
    <3> HIDE DEF Sum, U, p
    <3>6. Sum(z, T) = Sum(w, T) + Sum(v, T)
      BY <3>2, <3>3, <3>4, <3>5
    <3> QED
      BY <3>6
  <2> QED
    BY <2>1, <2>2
<1> HIDE DEF F
<1>2. SUBSET S \subseteq F
  BY <1>1, SubsetInduction
<1>3. S \in F
  BY <1>2
<1> QED
  BY <1>3 DEF F, SumFunction

LEMMA TotalZero ==
    ASSUME NEW S, IsFiniteSet(S), NEW w \in [S -> Int], \A y \in S : w[y] = 0
    PROVE  SumFunction(w) = 0
<1>1. SumFunction(w) = SumFunction(w) + SumFunction(w)
  BY TotalAdd
<1>2. PICK n \in Int : n = SumFunction(w)
  BY TotalType
<1>3. n = n + n
  BY <1>1, <1>2, Zenon
<1>4. n = 0
  BY <1>3
<1> QED
  BY <1>2, <1>4

\* A function that is zero at all indexes but one.
LEMMA TotalAt ==
    ASSUME NEW S, IsFiniteSet(S), NEW x \in S, NEW w \in [S -> Int],
           \A y \in S : y # x => w[y] = 0
    PROVE  SumFunction(w) = w[x]
<1> DEFINE zero == [y \in S |-> 0]
<1>1. zero \in [S -> Int] /\ zero[x] = 0 /\ \A y \in S : y # x => w[y] = zero[y]
  OBVIOUS
<1>2. SumFunction(zero) = 0
  BY TotalZero
<1> HIDE DEF zero
<1>3. SumFunction(w) = SumFunction(zero) - zero[x] + w[x]
  BY <1>1, TotalChange
<1> QED
  BY <1>1, <1>2, <1>3

\* A set of indexes and values that differ at one index at most.
LEMMA TotalElsewhere ==
    ASSUME NEW S, IsFiniteSet(S), NEW T, NEW x, S \ {x} = T \ {x},
           NEW w \in [S -> Int], NEW v \in [T -> Int],
           \A y \in S : y # x /\ y \in T => v[y] = w[y]
    PROVE  SumFunction(v) = SumFunction(w) - (IF x \in S THEN w[x] ELSE 0)
                                           + (IF x \in T THEN v[x] ELSE 0)
<1>1. SumFunction(w) \in Int
  BY TotalType
<1>2. CASE x \in S /\ x \in T
  <2>1. S = T
    BY <1>2
  <2> QED
    BY <1>2, <2>1, TotalChange
<1>3. CASE x \in S /\ x \notin T
  <2>1. S = T \cup {x} /\ IsFiniteSet(T)
    BY <1>3, FS_RemoveElement
  <2>2. SumFunction(w) = SumFunction(v) + w[x]
    BY <1>3, <2>1, TotalAppend
  <2>3. SumFunction(v) \in Int /\ w[x] \in Int
    BY <1>3, <2>1, TotalType
  <2> QED
    BY <1>1, <1>3, <2>2, <2>3
<1>4. CASE x \notin S /\ x \in T
  <2>1. T = S \cup {x}
    BY <1>4
  <2>2. SumFunction(v) = SumFunction(w) + v[x]
    BY <1>4, <2>1, TotalAppend
  <2> QED
    BY <1>1, <1>4, <2>2
<1>5. CASE x \notin S /\ x \notin T
  <2>1. S = T
    BY <1>5
  <2>2. SumFunction(v) = SumFunction(w)
    BY <1>5, <2>1, SumSame DEF SumFunction
  <2> QED
    BY <1>1, <1>5, <2>2
<1> QED
  BY <1>2, <1>3, <1>4, <1>5

-----------------------------------------------------------------------------
(* Orders and what handlers know of them. *)

\* The order a command in progress settles, and whether it settles one: its
\* Capture, Release, or Reverse of a Freeze read the order before locking.
Named(c) ==
    IF call[c].req.cmd = "Reverse" THEN Undoing(c).order ELSE call[c].req.ref

Settling(c) ==
    /\ call[c] # Idle
    /\ \/ call[c].req.cmd \in {"Capture", "Release"}
       \/ call[c].req.cmd = "Reverse" /\ Undoing(c).cmd = "Freeze"

Created == {b \in BizNos : freeze[b].status # "none"}

\* The copy a handler holds is of an order that exists, of the same holder.
OrdersKnown ==
    \A c \in Handlers : Settling(c) =>
        /\ Named(c) \in Created
        /\ call[c].order.holder = freeze[Named(c)].holder
        /\ call[c].req.cmd # "Reverse" => call[c].order.status = "frozen"

\* The entries of a voucher of an order are on the account of the order, those
\* of any other voucher add up to nothing.
LegsOfOrders ==
    \A i \in DOMAIN journal :
        LET p == journal[i]
        IN  IF p.order = NoBiz THEN SumFunction(p.legs) = 0 /\ p.cmd # "Capture"
            ELSE /\ p.order \in Created
                 /\ \A h \in Holders : h # freeze[p.order].holder => p.legs[h] = 0

TieInv == Inv /\ OrdersKnown /\ LegsOfOrders /\ IsFiniteSet(Created)

\* What the entries of a voucher say is what its command does to the balances.
Entered(p) ==
    /\ p \in Posting
    /\ journal' = Append(journal, p)
    /\ avail' \in [Holders -> Int]
    /\ frozen' \in [Holders -> Int]
    /\ \A h \in Holders : /\ avail'[h] = avail[h] + AvailableOf(p, h)
                          /\ frozen'[h] = frozen[h] + FrozenOf(p, h)

\* An order once created keeps its holder and is never forgotten.
OrdersKept ==
    \A b \in Created : freeze'[b].status # "none" /\ freeze'[b].holder = freeze[b].holder

\* A voucher concerns one order at most, and then one account.
Concerns(p) ==
    /\ p.cmd \in {"Freeze", "Capture", "Release"} \/ p.unfreeze => p.order \in BizNos
    /\ p.unfreeze => p.cmd = "Reverse"
    /\ p.cmd \in {"Credit", "Debit", "Transfer"} => p.order = NoBiz
    /\ p.order = NoBiz => SumFunction(p.legs) = 0
    /\ p.order \in BizNos =>
          /\ freeze'[p.order].status # "none"
          /\ \A h \in Holders : h # freeze'[p.order].holder => p.legs[h] = 0
          /\ p.cmd = "Capture" => p.legs[freeze'[p.order].holder] <= 0
          /\ p.cmd = "Release" \/ p.unfreeze => p.legs[freeze'[p.order].holder] >= 0
    /\ \A b \in BizNos : b # p.order => freeze'[b] = freeze[b]
    /\ OrdersKept

\* Every Capture takes its whole order, or commands run one at a time: no copy
\* of an order is written back after another command has changed the order.
Alone == \A c, d \in Handlers : c = d
Undisturbed == CapturesInFull \/ Alone

CopiesCurrent ==
    \A c \in Handlers : Settling(c) =>
        /\ CapturesInFull => call[c].order.amount = freeze[Named(c)].amount
        /\ Alone => call[c].order = freeze[Named(c)]

\* What is left of the order of a voucher changes as the frozen balance does.
Balanced(p) ==
    p.order \in BizNos =>
        Remaining(freeze'[p.order]) = Remaining(freeze[p.order]) + FrozenOf(p, freeze'[p.order].holder)

Posts(c, p) ==
    /\ Entered(p)
    /\ Concerns(p)
    /\ Undisturbed /\ CopiesCurrent => Balanced(p)
    /\ call' = [call EXCEPT ![c] = Idle]

LEMMA HoldersFinite == IsFiniteSet(Holders)
<1>1. Holders = (Users \cup {Issuance}) \cup {Sink}
  BY DEF Holders, SystemHolders
<1>2. IsFiniteSet(Users \cup {Issuance})
  BY LedgerAssumption, FS_AddElement
<1> QED
  BY <1>1, <1>2, FS_AddElement

\* Record writes a voucher of the request in progress.
LEMMA RecordPosts ==
    ASSUME TypeOK, NEW c \in Handlers, call[c] # Idle,
           NEW legs \in [Holders -> Int], NEW order \in BizNos \cup {NoBiz},
           NEW unfreeze \in BOOLEAN, Record(c, legs, order, unfreeze)
    PROVE  \E p \in Posting :
              /\ p.cmd = call[c].req.cmd /\ p.legs = legs
              /\ p.order = order /\ p.unfreeze = unfreeze
              /\ journal' = Append(journal, p)
              /\ call' = [call EXCEPT ![c] = Idle]
<1> DEFINE r == call[c].req
           p == [cmd |-> r.cmd, biz |-> r.biz, to |-> r.to, legs |-> legs,
                 order |-> order, unfreeze |-> unfreeze, orig |-> call[c].orig]
<1>1. r \in Request /\ call[c].orig \in Nat
  BY InProgress
<1>2. p \in Posting
  BY <1>1 DEF Posting, Request
<1>3. journal' = Append(journal, p) /\ call' = [call EXCEPT ![c] = Idle]
  BY DEF Record
<1>4. p.cmd = r.cmd /\ p.legs = legs /\ p.order = order /\ p.unfreeze = unfreeze
  OBVIOUS
<1> HIDE DEF p
<1> QED
  BY <1>2, <1>3, <1>4

LEMMA MovePosts ==
    ASSUME TieInv, NEW c \in Handlers, call[c] # Idle,
           call[c].req.cmd \in {"Credit", "Debit", "Transfer"},
           NEW from \in Holders, NEW to \in Holders, Move(c, from, to)
    PROVE  \E p : Posts(c, p)
<1> DEFINE n == call[c].req.amount
           legs == [Leg(to, n) EXCEPT ![from] = -n]
<1>1. n \in Nat
  BY InProgress DEF TieInv, Inv, Request
<1>2. /\ avail' = [avail EXCEPT ![from] = @ - n, ![to] = @ + n]
      /\ Record(c, legs, NoBiz, FALSE)
      /\ from # to /\ frozen' = frozen /\ freeze' = freeze
  BY DEF Move
<1>3. avail \in [Holders -> Int] /\ frozen \in [Holders -> Int]
  BY DEF TieInv, Inv, TypeOK
<1> HIDE DEF n
<1>4. /\ Leg(to, n) \in [Holders -> Int] /\ legs \in [Holders -> Int]
      /\ legs[from] = -n /\ Leg(to, n)[from] = 0 /\ Leg(to, n)[to] = n
      /\ \A h \in Holders : h # from => legs[h] = Leg(to, n)[h]
      /\ \A h \in Holders : h # to => Leg(to, n)[h] = 0
  BY <1>1, <1>2 DEF Leg
<1>5. \A h \in Holders : avail'[h] = avail[h] + legs[h]
  BY <1>1, <1>2, <1>3 DEF Leg
<1>6. avail' \in [Holders -> Int]
  BY <1>1, <1>2, <1>3
<1> HIDE DEF legs
<1>7. SumFunction(legs) = 0
  <2>1. SumFunction(Leg(to, n)) = n
    BY <1>4, HoldersFinite, TotalAt
  <2>2. SumFunction(legs) = SumFunction(Leg(to, n)) - Leg(to, n)[from] + legs[from]
    BY <1>4, HoldersFinite, TotalChange
  <2> QED
    BY <1>1, <1>4, <2>1, <2>2
<1>8. PICK p \in Posting :
              /\ p.cmd = call[c].req.cmd /\ p.legs = legs
              /\ p.order = NoBiz /\ p.unfreeze = FALSE
              /\ journal' = Append(journal, p)
              /\ call' = [call EXCEPT ![c] = Idle]
  BY <1>2, <1>4, RecordPosts DEF TieInv, Inv
<1>9. Entered(p)
  BY <1>2, <1>3, <1>5, <1>6, <1>8 DEF Entered, AvailableOf, FrozenOf
<1>10. OrdersKept
  BY <1>2 DEF OrdersKept, Created
<1>11. Concerns(p)
  BY <1>2, <1>7, <1>8, <1>10, LedgerAssumption DEF Concerns
<1>12. Balanced(p)
  BY <1>8, LedgerAssumption DEF Balanced
<1> QED
  BY <1>8, <1>9, <1>11, <1>12 DEF Posts

\* A command that writes one entry of n on the account of its order, taking da
\* into available and df into frozen.
OneLeg(c, h, n, b, u, da, df) ==
    LET cmd == call[c].req.cmd
    IN  /\ call[c] # Idle
        /\ h \in Holders /\ b \in BizNos /\ u \in BOOLEAN
        /\ n \in Int /\ da \in Int /\ df \in Int
        /\ Record(c, Leg(h, n), b, u)
        /\ avail' \in [Holders -> Int] /\ frozen' \in [Holders -> Int]
        /\ \A x \in Holders : avail'[x] = IF x = h THEN avail[x] + da ELSE avail[x]
        /\ \A x \in Holders : frozen'[x] = IF x = h THEN frozen[x] + df ELSE frozen[x]
        /\ u => cmd = "Reverse"
        /\ cmd \notin {"Credit", "Debit", "Transfer"}
        /\ da = IF cmd = "Capture" THEN 0 ELSE n
        /\ df = IF cmd = "Capture" THEN n
                ELSE IF cmd \in {"Freeze", "Release"} \/ u THEN -n ELSE 0
        /\ cmd = "Capture" => n <= 0
        /\ cmd = "Release" \/ u => n >= 0
        /\ \A x \in BizNos : x # b => freeze'[x] = freeze[x]
        /\ freeze'[b].status # "none" /\ freeze'[b].holder = h
        /\ freeze[b].status # "none" => freeze[b].holder = h
        /\ Undisturbed /\ CopiesCurrent =>
              Remaining(freeze'[b]) = Remaining(freeze[b]) + df

LEMMA LegPosts ==
    ASSUME TieInv, NEW c \in Handlers, NEW h, NEW n, NEW b, NEW u, NEW da, NEW df,
           OneLeg(c, h, n, b, u, da, df)
    PROVE  \E p : Posts(c, p)
<1> DEFINE cmd == call[c].req.cmd
<1>1. avail \in [Holders -> Int] /\ frozen \in [Holders -> Int]
  BY DEF TieInv, Inv, TypeOK
<1>2. Leg(h, n) \in [Holders -> Int]
  BY LegType DEF OneLeg
<1>3. Leg(h, n)[h] = n /\ \A x \in Holders : x # h => Leg(h, n)[x] = 0
  BY DEF Leg, OneLeg
<1>4. PICK p \in Posting :
              /\ p.cmd = cmd /\ p.legs = Leg(h, n) /\ p.order = b /\ p.unfreeze = u
              /\ journal' = Append(journal, p)
              /\ call' = [call EXCEPT ![c] = Idle]
  <2>1. /\ call[c] # Idle /\ b \in BizNos \cup {NoBiz} /\ u \in BOOLEAN
        /\ Record(c, Leg(h, n), b, u) /\ TypeOK
    BY DEF OneLeg, TieInv, Inv
  <2> QED
    BY <1>2, <2>1, RecordPosts DEF cmd
<1> HIDE DEF cmd
<1>5. /\ AvailableOf(p, h) = da /\ FrozenOf(p, h) = df
      /\ \A x \in Holders : x # h => AvailableOf(p, x) = 0 /\ FrozenOf(p, x) = 0
  BY <1>3, <1>4 DEF AvailableOf, FrozenOf, cmd, OneLeg
<1>6. Entered(p)
  <2>1. ASSUME NEW x \in Holders
        PROVE  /\ avail'[x] = avail[x] + AvailableOf(p, x)
               /\ frozen'[x] = frozen[x] + FrozenOf(p, x)
    <3>1. avail[x] \in Int /\ frozen[x] \in Int
      BY <1>1
    <3>2. CASE x = h
      BY <1>5, <3>2 DEF OneLeg
    <3>3. CASE x # h
      BY <1>5, <3>1, <3>3 DEF OneLeg
    <3> QED
      BY <3>2, <3>3
  <2> QED
    BY <1>4, <2>1 DEF Entered, OneLeg
<1>7. OrdersKept
  BY DEF OrdersKept, Created, OneLeg
<1>8. Concerns(p)
  BY <1>3, <1>4, <1>7, LedgerAssumption DEF Concerns, cmd, OneLeg
<1>9. Undisturbed /\ CopiesCurrent => Balanced(p)
  BY <1>4, <1>5 DEF Balanced, OneLeg
<1> QED
  BY <1>4, <1>6, <1>8, <1>9 DEF Posts

LEMMA PostFreezePosts ==
    ASSUME TieInv, NEW c \in Handlers, PostFreeze(c)
    PROVE  \E p : Posts(c, p)
<1> DEFINE r == call[c].req
           h == r.holder
           n == r.amount
<1>1. call[c] # Idle /\ r \in Request /\ r.cmd = "Freeze"
  BY InProgress DEF PostFreeze, Executing, TieInv, Inv
<1>2. h \in Holders /\ n \in Nat /\ r.biz \in BizNos
  BY <1>1 DEF Request
<1>3. /\ avail' = [avail EXCEPT ![h] = @ - n]
      /\ frozen' = [frozen EXCEPT ![h] = @ + n]
      /\ freeze[r.biz].status = "none"
      /\ freeze' = [freeze EXCEPT ![r.biz] = [status |-> "frozen", amount |-> n, holder |-> h]]
      /\ Record(c, Leg(h, -n), r.biz, FALSE)
  BY DEF PostFreeze
<1>4. /\ avail \in [Holders -> Int] /\ frozen \in [Holders -> Int]
      /\ freeze \in [BizNos -> FreezeOrder]
  BY DEF TieInv, Inv, TypeOK
<1>5. call[c].req.cmd = "Freeze"
  BY <1>1
<1> HIDE DEF r, h, n
<1> DEFINE m == -n
<1>6. m \in Int /\ n \in Int /\ n = -m
  BY <1>2
<1>10. /\ avail' \in [Holders -> Int] /\ frozen' \in [Holders -> Int]
       /\ \A x \in Holders : avail'[x] = IF x = h THEN avail[x] + m ELSE avail[x]
       /\ \A x \in Holders : frozen'[x] = IF x = h THEN frozen[x] + n ELSE frozen[x]
  BY <1>2, <1>3, <1>4
<1>7. /\ \A x \in BizNos : x # r.biz => freeze'[x] = freeze[x]
      /\ freeze'[r.biz] = [status |-> "frozen", amount |-> n, holder |-> h]
  BY <1>2, <1>3, <1>4
<1>8. Remaining(freeze'[r.biz]) = Remaining(freeze[r.biz]) + n
  BY <1>2, <1>3, <1>7 DEF Remaining
<1>9. freeze'[r.biz].status # "none" /\ freeze'[r.biz].holder = h
  BY <1>7
<1>11. Record(c, Leg(h, m), r.biz, FALSE) /\ freeze[r.biz].status = "none"
  BY <1>3
<1>12. OneLeg(c, h, m, r.biz, FALSE, m, n)
  BY <1>1, <1>2, <1>5, <1>6, <1>7, <1>8, <1>9, <1>10, <1>11 DEF OneLeg
<1> QED
  BY <1>12, LegPosts

\* The order a settling command closes is the one it read.
LEMMA ClosePosts ==
    ASSUME TieInv, NEW c \in Handlers, Settling(c), NEW b, b = Named(c),
           NEW to \in {"captured", "released"}, CloseOrder(b, to)
    PROVE  /\ b \in BizNos /\ call[c].order.holder \in Holders
           /\ freeze[b].holder = call[c].order.holder
           /\ freeze'[b].holder = call[c].order.holder
           /\ freeze'[b].status # "none"
           /\ \A x \in BizNos : x # b => freeze'[x] = freeze[x]
           /\ Undisturbed /\ CopiesCurrent =>
                 Remaining(freeze'[b]) = Remaining(freeze[b]) + (-call[c].order.amount)
<1>1. b \in BizNos /\ freeze[b].holder = call[c].order.holder
  BY DEF TieInv, OrdersKnown, Created
<1>2. freeze \in [BizNos -> FreezeOrder]
  BY DEF TieInv, Inv, TypeOK
<1>3. freeze[b].holder \in Holders /\ freeze[b].amount \in Nat
  BY <1>1, <1>2 DEF FreezeOrder
<1>4. /\ freeze[b].status = "frozen"
      /\ freeze'[b] = [freeze[b] EXCEPT !.status = to]
      /\ \A x \in BizNos : x # b => freeze'[x] = freeze[x]
  BY <1>1, <1>2 DEF CloseOrder
<1>5. freeze'[b].status = to /\ freeze'[b].holder = freeze[b].holder
  BY <1>1, <1>2, <1>4 DEF FreezeOrder
<1>6. ASSUME Undisturbed, CopiesCurrent
      PROVE  Remaining(freeze'[b]) = Remaining(freeze[b]) + (-call[c].order.amount)
  <2>1. call[c].order.amount = freeze[b].amount
    BY <1>6 DEF Undisturbed, CopiesCurrent
  <2>2. Remaining(freeze[b]) = freeze[b].amount /\ Remaining(freeze'[b]) = 0
    BY <1>4, <1>5 DEF Remaining
  <2> QED
    BY <1>3, <2>1, <2>2
<1> QED
  BY <1>1, <1>3, <1>4, <1>5, <1>6

LEMMA PostFullCapturePosts ==
    ASSUME TieInv, NEW c \in Handlers, PostFullCapture(c)
    PROVE  \E p : Posts(c, p)
<1> DEFINE b == call[c].req.ref
           o == call[c].order
<1>1. /\ Settles(c, "Capture")
      /\ frozen' = [frozen EXCEPT ![o.holder] = @ - o.amount]
      /\ CloseOrder(b, "captured")
      /\ Record(c, Leg(o.holder, -o.amount), b, FALSE)
      /\ avail' = avail
  BY DEF PostFullCapture
<1>2. /\ call[c] # Idle /\ call[c].req.cmd = "Capture"
      /\ o.holder \in Holders /\ o.amount \in Nat
  BY <1>1, SettlesType DEF TieInv
<1>3. Settling(c) /\ b = Named(c)
  BY <1>2 DEF Settling, Named
<1>4. /\ b \in BizNos /\ freeze[b].holder = o.holder
      /\ freeze'[b].holder = o.holder /\ freeze'[b].status # "none"
      /\ \A x \in BizNos : x # b => freeze'[x] = freeze[x]
      /\ Undisturbed /\ CopiesCurrent => Remaining(freeze'[b]) = Remaining(freeze[b]) + (-o.amount)
  BY <1>1, <1>3, ClosePosts
<1>5. avail \in [Holders -> Int] /\ frozen \in [Holders -> Int]
  BY DEF TieInv, Inv, TypeOK
<1> DEFINE h == o.holder
           m == -o.amount
           zero == 0
<1>6. m \in Int /\ m <= 0 /\ zero \in Int /\ zero = 0
  BY <1>2
<1>10. Record(c, Leg(h, m), b, FALSE)
  BY <1>1
<1>7. /\ avail' \in [Holders -> Int] /\ frozen' \in [Holders -> Int]
      /\ \A x \in Holders : avail'[x] = IF x = h THEN avail[x] + zero ELSE avail[x]
      /\ \A x \in Holders : frozen'[x] = IF x = h THEN frozen[x] + m ELSE frozen[x]
  <2> HIDE DEF o
  <2> QED
    BY <1>1, <1>2, <1>5
<1>8. /\ h \in Holders /\ freeze[b].holder = h /\ freeze'[b].holder = h
      /\ Undisturbed /\ CopiesCurrent => Remaining(freeze'[b]) = Remaining(freeze[b]) + m
  BY <1>2, <1>4
<1> HIDE DEF b, o, h, m, zero
<1>9. OneLeg(c, h, m, b, FALSE, zero, m)
  BY <1>2, <1>4, <1>6, <1>7, <1>8, <1>10 DEF OneLeg
<1> QED
  BY <1>9, LegPosts

LEMMA PostPartialCapturePosts ==
    ASSUME TieInv, NEW c \in Handlers, PostPartialCapture(c)
    PROVE  \E p : Posts(c, p)
<1> DEFINE b == call[c].req.ref
           o == call[c].order
           n == call[c].req.amount
<1>1. /\ Settles(c, "Capture")
      /\ n > 0 /\ n < o.amount
      /\ frozen' = [frozen EXCEPT ![o.holder] = @ - n]
      /\ ShrinkOrder(b, o, n)
      /\ Record(c, Leg(o.holder, -n), b, FALSE)
      /\ avail' = avail
  BY DEF PostPartialCapture
<1>2. /\ call[c] # Idle /\ call[c].req.cmd = "Capture"
      /\ o.holder \in Holders /\ o.amount \in Nat /\ n \in Nat
  BY <1>1, SettlesType DEF TieInv
<1>3. Settling(c) /\ b = Named(c)
  BY <1>2 DEF Settling, Named
<1>4. b \in BizNos /\ freeze[b].holder = o.holder /\ o.status = "frozen"
  BY <1>2, <1>3 DEF TieInv, OrdersKnown, Created
<1>5. /\ avail \in [Holders -> Int] /\ frozen \in [Holders -> Int]
      /\ freeze \in [BizNos -> FreezeOrder]
  BY DEF TieInv, Inv, TypeOK
<1>6. Undisturbed /\ CopiesCurrent => o = freeze[b]
  <2>1. ~CapturesInFull
    BY <1>1, <1>2, InProgress DEF CapturesInFull, TieInv, Inv
  <2> QED
    BY <1>3, <2>1 DEF Undisturbed, CopiesCurrent
<1> HIDE DEF b, o, n
<1>7. /\ freeze'[b].status = o.status /\ freeze'[b].amount = o.amount - n
      /\ freeze'[b].holder = freeze[b].holder
      /\ \A x \in BizNos : x # b => freeze'[x] = freeze[x]
  <2> DEFINE shrunk == [freeze[b] EXCEPT !.amount = o.amount - n, !.status = o.status]
  <2>1. freeze' = [freeze EXCEPT ![b] = shrunk]
    BY <1>1, <1>4, <1>5 DEF ShrinkOrder
  <2>2. /\ shrunk.status = o.status /\ shrunk.amount = o.amount - n
        /\ shrunk.holder = freeze[b].holder
    BY <1>4, <1>5 DEF FreezeOrder
  <2> HIDE DEF shrunk
  <2> QED
    BY <1>4, <1>5, <2>1, <2>2
<1>8. Undisturbed /\ CopiesCurrent => Remaining(freeze'[b]) = Remaining(freeze[b]) + (-n)
  BY <1>2, <1>4, <1>6, <1>7 DEF Remaining
<1> DEFINE h == o.holder
           m == -n
           zero == 0
<1>9. m \in Int /\ m <= 0 /\ zero \in Int /\ zero = 0
  BY <1>1, <1>2
<1>14. Record(c, Leg(h, m), b, FALSE)
  BY <1>1
<1>10. /\ avail' \in [Holders -> Int] /\ frozen' \in [Holders -> Int]
       /\ \A x \in Holders : avail'[x] = IF x = h THEN avail[x] + zero ELSE avail[x]
       /\ \A x \in Holders : frozen'[x] = IF x = h THEN frozen[x] + m ELSE frozen[x]
  BY <1>1, <1>2, <1>5
<1>11. /\ h \in Holders /\ freeze[b].holder = h /\ freeze'[b].holder = h
       /\ freeze'[b].status # "none"
       /\ Undisturbed /\ CopiesCurrent => Remaining(freeze'[b]) = Remaining(freeze[b]) + m
  BY <1>2, <1>4, <1>7, <1>8
<1> HIDE DEF h, m, zero
<1>12. call[c].req.cmd = "Capture"
  BY <1>2
<1>13. OneLeg(c, h, m, b, FALSE, zero, m)
  BY <1>2, <1>4, <1>7, <1>9, <1>10, <1>11, <1>12, <1>14 DEF OneLeg
<1> QED
  BY <1>13, LegPosts

LEMMA PostReleasePosts ==
    ASSUME TieInv, NEW c \in Handlers, PostRelease(c)
    PROVE  \E p : Posts(c, p)
<1> DEFINE b == call[c].req.ref
           o == call[c].order
<1>1. /\ Settles(c, "Release")
      /\ frozen' = [frozen EXCEPT ![o.holder] = @ - o.amount]
      /\ avail' = [avail EXCEPT ![o.holder] = @ + o.amount]
      /\ CloseOrder(b, "released")
      /\ Record(c, Leg(o.holder, o.amount), b, FALSE)
  BY DEF PostRelease
<1>2. /\ call[c] # Idle /\ call[c].req.cmd = "Release"
      /\ o.holder \in Holders /\ o.amount \in Nat
  BY <1>1, SettlesType DEF TieInv
<1>3. Settling(c) /\ b = Named(c)
  BY <1>2 DEF Settling, Named
<1>4. /\ b \in BizNos /\ freeze[b].holder = o.holder
      /\ freeze'[b].holder = o.holder /\ freeze'[b].status # "none"
      /\ \A x \in BizNos : x # b => freeze'[x] = freeze[x]
      /\ Undisturbed /\ CopiesCurrent => Remaining(freeze'[b]) = Remaining(freeze[b]) + (-o.amount)
  BY <1>1, <1>3, ClosePosts
<1>5. avail \in [Holders -> Int] /\ frozen \in [Holders -> Int]
  BY DEF TieInv, Inv, TypeOK
<1> DEFINE h == o.holder
           n == o.amount
           m == -n
<1>6. n \in Int /\ m \in Int /\ n >= 0 /\ m = -n
  BY <1>2
<1>10. Record(c, Leg(h, n), b, FALSE)
  BY <1>1
<1>7. /\ avail' \in [Holders -> Int] /\ frozen' \in [Holders -> Int]
      /\ \A x \in Holders : avail'[x] = IF x = h THEN avail[x] + n ELSE avail[x]
      /\ \A x \in Holders : frozen'[x] = IF x = h THEN frozen[x] + m ELSE frozen[x]
  <2> HIDE DEF o
  <2> QED
    BY <1>1, <1>2, <1>5
<1>8. /\ h \in Holders /\ freeze[b].holder = h /\ freeze'[b].holder = h
      /\ Undisturbed /\ CopiesCurrent => Remaining(freeze'[b]) = Remaining(freeze[b]) + m
  BY <1>2, <1>4
<1> HIDE DEF b, o, h, n, m
<1>9. OneLeg(c, h, n, b, FALSE, n, m)
  BY <1>2, <1>4, <1>6, <1>7, <1>8, <1>10 DEF OneLeg
<1> QED
  BY <1>9, LegPosts

LEMMA PostUnfreezePosts ==
    ASSUME TieInv, NEW c \in Handlers, PostUnfreeze(c)
    PROVE  \E p : Posts(c, p)
<1> DEFINE b == Undoing(c).order
           o == call[c].order
<1>1. /\ Executing(c, "Reverse") /\ Undoing(c).cmd = "Freeze"
      /\ frozen' = [frozen EXCEPT ![o.holder] = @ - o.amount]
      /\ avail' = [avail EXCEPT ![o.holder] = @ + o.amount]
      /\ CloseOrder(b, "released")
      /\ Record(c, Leg(o.holder, o.amount), b, TRUE)
  BY DEF PostUnfreeze
<1>2. /\ call[c] # Idle /\ call[c].req.cmd = "Reverse"
      /\ o.holder \in Holders /\ o.amount \in Nat
  BY <1>1, UndoingType DEF TieInv
<1>3. Settling(c) /\ b = Named(c)
  BY <1>1, <1>2 DEF Settling, Named
<1>4. /\ b \in BizNos /\ freeze[b].holder = o.holder
      /\ freeze'[b].holder = o.holder /\ freeze'[b].status # "none"
      /\ \A x \in BizNos : x # b => freeze'[x] = freeze[x]
      /\ Undisturbed /\ CopiesCurrent => Remaining(freeze'[b]) = Remaining(freeze[b]) + (-o.amount)
  BY <1>1, <1>3, ClosePosts
<1>5. avail \in [Holders -> Int] /\ frozen \in [Holders -> Int]
  BY DEF TieInv, Inv, TypeOK
<1> DEFINE h == o.holder
           n == o.amount
           m == -n
<1>6. n \in Int /\ m \in Int /\ n >= 0 /\ m = -n
  BY <1>2
<1>10. Record(c, Leg(h, n), b, TRUE)
  BY <1>1
<1>7. /\ avail' \in [Holders -> Int] /\ frozen' \in [Holders -> Int]
      /\ \A x \in Holders : avail'[x] = IF x = h THEN avail[x] + n ELSE avail[x]
      /\ \A x \in Holders : frozen'[x] = IF x = h THEN frozen[x] + m ELSE frozen[x]
  <2> HIDE DEF o
  <2> QED
    BY <1>1, <1>2, <1>5
<1>8. /\ h \in Holders /\ freeze[b].holder = h /\ freeze'[b].holder = h
      /\ Undisturbed /\ CopiesCurrent => Remaining(freeze'[b]) = Remaining(freeze[b]) + m
  BY <1>2, <1>4
<1> HIDE DEF b, o, h, n, m
<1>9. OneLeg(c, h, n, b, TRUE, n, m)
  BY <1>2, <1>4, <1>6, <1>7, <1>8, <1>10 DEF OneLeg
<1> QED
  BY <1>9, LegPosts

LEMMA PostReversePosts ==
    ASSUME TieInv, NEW c \in Handlers, PostReverse(c)
    PROVE  \E p : Posts(c, p)
<1> DEFINE q == Undoing(c)
           legs == [h \in Holders |-> -q.legs[h]]
<1>1. /\ Executing(c, "Reverse")
      /\ avail' = [h \in Holders |-> avail[h] - q.legs[h]]
      /\ Record(c, legs, q.order, FALSE)
      /\ frozen' = frozen /\ freeze' = freeze
  BY DEF PostReverse
<1>2. /\ call[c] # Idle /\ call[c].req.cmd = "Reverse" /\ q \in Posting
      /\ call[c].orig \in DOMAIN journal /\ q = journal[call[c].orig]
  BY <1>1, UndoingType DEF TieInv, Inv, OriginalPosted, Undoing
<1>3. q.legs \in [Holders -> Int] /\ q.order \in BizNos \cup {NoBiz}
  BY <1>2 DEF Posting
<1>4. IF q.order = NoBiz THEN SumFunction(q.legs) = 0 /\ q.cmd # "Capture"
      ELSE /\ q.order \in Created
           /\ \A h \in Holders : h # freeze[q.order].holder => q.legs[h] = 0
  BY <1>2 DEF TieInv, LegsOfOrders
<1>16. freeze \in [BizNos -> FreezeOrder] /\ NoBiz \notin BizNos
  BY LedgerAssumption DEF TieInv, Inv, TypeOK
<1> HIDE DEF q
<1>5. legs \in [Holders -> Int] /\ \A h \in Holders : legs[h] = -q.legs[h]
  BY <1>3
<1>6. q.order = NoBiz => SumFunction(legs) = 0
  <2> DEFINE zero == [h \in Holders |-> 0]
  <2>1. /\ zero \in [Holders -> Int]
        /\ \A h \in Holders : zero[h] = legs[h] + q.legs[h]
        /\ \A h \in Holders : zero[h] = 0
    BY <1>3, <1>5
  <2> DEFINE undone == q.legs
  <2>4. undone \in [Holders -> Int] /\ \A h \in Holders : zero[h] = legs[h] + undone[h]
    BY <1>3, <2>1
  <2> HIDE DEF zero, legs, undone
  <2>2. SumFunction(zero) = SumFunction(legs) + SumFunction(undone)
    BY <1>5, <2>1, <2>4, HoldersFinite, TotalAdd
  <2>3. SumFunction(zero) = 0 /\ SumFunction(legs) \in Int
    BY <1>5, <2>1, HoldersFinite, TotalZero, TotalType
  <2> QED
    BY <1>4, <2>2, <2>3 DEF undone
<1> HIDE DEF legs
<1>7. PICK p \in Posting :
              /\ p.cmd = call[c].req.cmd /\ p.legs = legs
              /\ p.order = q.order /\ p.unfreeze = FALSE
              /\ journal' = Append(journal, p)
              /\ call' = [call EXCEPT ![c] = Idle]
  BY <1>1, <1>2, <1>3, <1>5, RecordPosts DEF TieInv, Inv
<1>8. avail \in [Holders -> Int] /\ frozen \in [Holders -> Int]
  BY DEF TieInv, Inv, TypeOK
<1>9. /\ avail' \in [Holders -> Int]
      /\ \A h \in Holders : avail'[h] = avail[h] + legs[h]
  BY <1>1, <1>3, <1>5, <1>8
<1>10. \A h \in Holders : AvailableOf(p, h) = legs[h] /\ FrozenOf(p, h) = 0
  BY <1>2, <1>7 DEF AvailableOf, FrozenOf
<1>11. Entered(p)
  <2>1. \A h \in Holders : frozen'[h] = frozen[h] + FrozenOf(p, h)
    BY <1>1, <1>8, <1>10
  <2>2. \A h \in Holders : avail'[h] = avail[h] + AvailableOf(p, h)
    BY <1>9, <1>10
  <2> QED
    BY <1>1, <1>7, <1>8, <1>9, <2>1, <2>2 DEF Entered
<1>12. OrdersKept
  BY <1>1 DEF OrdersKept, Created
<1>13. q.order \in BizNos =>
          /\ freeze'[q.order].status # "none"
          /\ freeze'[q.order].holder \in Holders
          /\ \A h \in Holders : h # freeze'[q.order].holder => legs[h] = 0
  <2> SUFFICES ASSUME q.order \in BizNos
               PROVE  /\ freeze[q.order].status # "none"
                      /\ freeze[q.order].holder \in Holders
                      /\ \A h \in Holders : h # freeze[q.order].holder => legs[h] = 0
    BY <1>1
  <2>1. /\ freeze[q.order].status # "none"
        /\ \A h \in Holders : h # freeze[q.order].holder => q.legs[h] = 0
    BY <1>4, <1>16 DEF Created
  <2>2. freeze[q.order].holder \in Holders
    BY <1>16 DEF FreezeOrder
  <2> QED
    BY <1>5, <2>1, <2>2
<1>14. Concerns(p)
  BY <1>1, <1>2, <1>6, <1>7, <1>12, <1>13 DEF Concerns
<1>15. Balanced(p)
  <2> SUFFICES ASSUME p.order \in BizNos
               PROVE  Remaining(freeze'[p.order]) = Remaining(freeze[p.order])
                                            + FrozenOf(p, freeze'[p.order].holder)
    BY DEF Balanced
  <2>1. FrozenOf(p, freeze'[p.order].holder) = 0
    BY <1>7, <1>10, <1>13
  <2>2. Remaining(freeze'[p.order]) = Remaining(freeze[p.order])
    BY <1>1 DEF Remaining
  <2>3. Remaining(freeze[p.order]) \in Int
    BY DEF Remaining, TieInv, Inv, TypeOK, FreezeOrder
  <2> QED
    BY <2>1, <2>2, <2>3
<1> QED
  BY <1>7, <1>11, <1>14, <1>15 DEF Posts

\* A step posts a voucher, or starts a command, or leaves the tables alone.
LEMMA StepPosts ==
    ASSUME TieInv, [Next]_vars
    PROVE  \/ \E c \in Handlers : \E p : Posts(c, p)
           \/ \E c \in Handlers, r \in Menu :
                  BeginPosting(c, r) \/ BeginSettle(c, r) \/ BeginReverse(c, r)
           \/ /\ UNCHANGED <<avail, frozen, freeze, journal>>
              /\ \A c \in Handlers : call'[c] \in {call[c], Idle}
<1>1. ASSUME NEW c \in Handlers, PostCredit(c) \/ PostDebit(c) \/ PostTransfer(c)
      PROVE  \E p : Posts(c, p)
  <2>1. call[c] # Idle /\ call[c].req.cmd \in {"Credit", "Debit", "Transfer"}
    BY <1>1 DEF PostCredit, PostDebit, PostTransfer, Executing
  <2>2. PICK from \in Holders, to \in Holders : Move(c, from, to)
    BY <1>1, Moves DEF TieInv
  <2> QED
    BY <2>1, <2>2, MovePosts
<1>2. ASSUME NEW c \in Handlers, Rollback(c)
      PROVE  /\ UNCHANGED <<avail, frozen, freeze, journal>>
             /\ \A d \in Handlers : call'[d] \in {call[d], Idle}
  BY <1>2 DEF Rollback, TieInv, Inv, TypeOK
<1>3. ASSUME NEW h \in Disableable, NEW s \in {"active", "disabled"}, SetStatus(h, s)
      PROVE  /\ UNCHANGED <<avail, frozen, freeze, journal>>
             /\ \A d \in Handlers : call'[d] \in {call[d], Idle}
  BY <1>3 DEF SetStatus
<1>4. CASE UNCHANGED vars
  BY <1>4 DEF vars
<1> QED
  BY <1>1, <1>2, <1>3, <1>4, PostFreezePosts, PostFullCapturePosts,
     PostPartialCapturePosts, PostReleasePosts, PostUnfreezePosts, PostReversePosts
     DEF Next

\* What an appended voucher does to the journal.
LEMMA Appended ==
    ASSUME TypeOK, NEW p \in Posting, journal' = Append(journal, p)
    PROVE  \E k : /\ k \notin DOMAIN journal
                  /\ IsFiniteSet(DOMAIN journal)
                  /\ DOMAIN journal' = DOMAIN journal \cup {k}
                  /\ journal'[k] = p
                  /\ \A i \in DOMAIN journal : journal'[i] = journal[i]
                  /\ \A i \in DOMAIN journal : journal[i] \in Posting
<1>1. journal \in Seq(Posting) /\ Len(journal) \in Nat /\ DOMAIN journal = 1 .. Len(journal)
  BY DEF TypeOK
<1>2. IsFiniteSet(DOMAIN journal)
  BY <1>1, FS_Interval
<1>3. /\ Len(journal) + 1 \notin DOMAIN journal
      /\ DOMAIN journal' = DOMAIN journal \cup {Len(journal) + 1}
      /\ journal'[Len(journal) + 1] = p
      /\ \A i \in DOMAIN journal : journal'[i] = journal[i]
      /\ \A i \in DOMAIN journal : journal[i] \in Posting
  BY <1>1
<1> QED
  BY <1>2, <1>3

LEMMA PostsKeepTies ==
    ASSUME TieInv, Inv', NEW c \in Handlers, NEW p, Posts(c, p)
    PROVE  TieInv'
<1>1. /\ p \in Posting /\ journal' = Append(journal, p) /\ OrdersKept
      /\ call' = [call EXCEPT ![c] = Idle]
  BY DEF Posts, Entered, Concerns
<1>2. PICK k : /\ DOMAIN journal' = DOMAIN journal \cup {k}
               /\ journal'[k] = p
               /\ \A i \in DOMAIN journal : journal'[i] = journal[i]
  BY <1>1, Appended DEF TieInv, Inv
<1>3. \A b \in Created : b \in Created' /\ freeze'[b].holder = freeze[b].holder
  BY <1>1 DEF OrdersKept, Created
<1>4. OrdersKnown'
  <2> SUFFICES ASSUME NEW d \in Handlers, Settling(d)'
               PROVE  /\ Named(d)' \in Created'
                      /\ call'[d].order.holder = freeze'[Named(d)'].holder
                      /\ call'[d].req.cmd # "Reverse" => call'[d].order.status = "frozen"
    BY DEF OrdersKnown
  <2>1. call[d] # Idle /\ call'[d] = call[d]
    BY <1>1 DEF Settling, TieInv, Inv, TypeOK
  <2>2. call[d].req.cmd = "Reverse" => Undoing(d)' = Undoing(d)
    BY <1>2, <2>1 DEF Undoing, TieInv, Inv, OriginalPosted
  <2>3. Settling(d) /\ Named(d)' = Named(d)
    BY <2>1, <2>2 DEF Settling, Named
  <2>4. /\ Named(d) \in Created
        /\ call[d].order.holder = freeze[Named(d)].holder
        /\ call[d].req.cmd # "Reverse" => call[d].order.status = "frozen"
    BY <2>3 DEF TieInv, OrdersKnown
  <2> QED
    BY <1>3, <2>1, <2>3, <2>4
<1>5. LegsOfOrders'
  <2> SUFFICES ASSUME NEW i \in DOMAIN journal'
               PROVE  IF journal'[i].order = NoBiz
                      THEN SumFunction(journal'[i].legs) = 0 /\ journal'[i].cmd # "Capture"
                      ELSE /\ journal'[i].order \in Created'
                           /\ \A h \in Holders : h # freeze'[journal'[i].order].holder
                                  => journal'[i].legs[h] = 0
    BY DEF LegsOfOrders
  <2>1. CASE i \in DOMAIN journal
    <3>1. journal'[i] = journal[i]
      BY <1>2, <2>1
    <3>2. IF journal[i].order = NoBiz
          THEN SumFunction(journal[i].legs) = 0 /\ journal[i].cmd # "Capture"
          ELSE /\ journal[i].order \in Created
               /\ \A h \in Holders : h # freeze[journal[i].order].holder
                      => journal[i].legs[h] = 0
      BY <2>1 DEF TieInv, LegsOfOrders
    <3> QED
      BY <1>3, <3>1, <3>2
  <2>2. CASE i = k
    <3>1. p.order \in BizNos \cup {NoBiz}
      BY <1>1 DEF Posting
    <3>2. CASE p.order = NoBiz
      BY <1>2, <2>2, <3>2, LedgerAssumption DEF Posts, Concerns
    <3>3. CASE p.order \in BizNos /\ p.order # NoBiz
      BY <1>2, <2>2, <3>3 DEF Posts, Concerns, Created
    <3> QED
      BY <3>1, <3>2, <3>3
  <2> QED
    BY <1>2, <2>1, <2>2
<1>6. IsFiniteSet(Created')
  <2>1. Created' \in SUBSET (Created \cup {p.order})
    BY DEF Posts, Concerns, Created
  <2>2. IsFiniteSet(Created \cup {p.order})
    BY FS_AddElement DEF TieInv
  <2> QED
    BY <2>1, <2>2, FS_Subset
<1> QED
  BY <1>4, <1>5, <1>6 DEF TieInv

\* The order a command starts with is the current one.
LEMMA BeginReads ==
    ASSUME TieInv, NEW c \in Handlers, NEW r \in Menu,
           BeginPosting(c, r) \/ BeginSettle(c, r) \/ BeginReverse(c, r)
    PROVE  /\ UNCHANGED <<avail, frozen, freeze, journal>>
           /\ \A d \in Handlers : d # c => call'[d] = call[d]
           /\ Settling(c)' => /\ Named(c)' \in Created
                              /\ call'[c].order = freeze[Named(c)']
                              /\ call'[c].req.cmd # "Reverse" =>
                                    call'[c].order.status = "frozen"
<1>1. PICK o, i : Begin(c, r, o, i)
  BY DEF BeginPosting, BeginSettle, BeginReverse
<1>2. /\ UNCHANGED <<avail, frozen, freeze, journal>>
      /\ \A d \in Handlers : d # c => call'[d] = call[d]
  BY <1>1 DEF Begin, TieInv, Inv, TypeOK
<1>3. ASSUME Settling(c)'
      PROVE  /\ Named(c)' \in Created
             /\ call'[c].order = freeze[Named(c)']
             /\ call'[c].req.cmd # "Reverse" => call'[c].order.status = "frozen"
  <2>1. CASE BeginPosting(c, r)
    <3>1. call'[c].req.cmd \in {"Credit", "Debit", "Freeze", "Transfer"}
      BY <2>1 DEF BeginPosting, Begin, TieInv, Inv, TypeOK
    <3> QED
      BY <1>3, <3>1 DEF Settling
  <2>2. CASE BeginSettle(c, r)
    <3>1. /\ call'[c].req = r /\ call'[c].order = freeze[r.ref]
          /\ r.cmd \in {"Capture", "Release"} /\ freeze[r.ref].status = "frozen"
      BY <2>2 DEF BeginSettle, Begin, TieInv, Inv, TypeOK
    <3>2. r.ref \in BizNos /\ Named(c)' = r.ref
      BY <3>1, MenuAssumption DEF Named
    <3> QED
      BY <3>1, <3>2 DEF Created
  <2>3. CASE BeginReverse(c, r)
    <3>1. PICK j \in DOMAIN journal :
             Begin(c, r, IF journal[j].cmd = "Freeze" THEN freeze[journal[j].order]
                         ELSE NoOrder, j)
      BY <2>3 DEF BeginReverse
    <3>2. /\ call'[c].req = r /\ call'[c].orig = j /\ journal' = journal
          /\ journal[j].cmd = "Freeze" => call'[c].order = freeze[journal[j].order]
      BY <3>1 DEF Begin, TieInv, Inv, TypeOK
    <3>3. r.cmd = "Reverse"
      BY <2>3 DEF BeginReverse
    <3>4. journal[j].cmd = "Freeze" /\ Named(c)' = journal[j].order
      BY <1>3, <3>2, <3>3 DEF Settling, Named, Undoing
    <3>5. journal[j].order \in BizNos /\ journal[j].order # NoBiz
      BY <3>4, LedgerAssumption DEF TieInv, Inv, FreezeNamed
    <3>6. journal[j].order \in Created
      BY <3>5 DEF TieInv, LegsOfOrders
    <3> QED
      BY <3>2, <3>3, <3>4, <3>6
  <2> QED
    BY <2>1, <2>2, <2>3
<1> QED
  BY <1>2, <1>3

LEMMA TieStep == TieInv /\ [Next]_vars => TieInv'
<1> SUFFICES ASSUME TieInv, [Next]_vars PROVE TieInv'
  OBVIOUS
<1>1. Inv'
  BY InvStep DEF TieInv
<1>2. CASE \E c \in Handlers : \E p : Posts(c, p)
  BY <1>1, <1>2, PostsKeepTies
<1>3. ASSUME UNCHANGED <<avail, frozen, freeze, journal>>
      PROVE  LegsOfOrders' /\ Created' = Created
  BY <1>3 DEF TieInv, LegsOfOrders, Created
<1>4. ASSUME UNCHANGED <<freeze, journal>>, NEW d \in Handlers, call'[d] = call[d]
      PROVE  Settling(d)' = Settling(d) /\ Named(d)' = Named(d)
  BY <1>4 DEF Settling, Named, Undoing
<1>5. ASSUME NEW c \in Handlers, NEW r \in Menu,
             BeginPosting(c, r) \/ BeginSettle(c, r) \/ BeginReverse(c, r)
      PROVE  TieInv'
  <2>1. /\ UNCHANGED <<avail, frozen, freeze, journal>>
        /\ \A d \in Handlers : d # c => call'[d] = call[d]
        /\ Settling(c)' => /\ Named(c)' \in Created
                           /\ call'[c].order = freeze[Named(c)']
                           /\ call'[c].req.cmd # "Reverse" =>
                                 call'[c].order.status = "frozen"
    BY <1>5, BeginReads
  <2>2. Created' = Created /\ LegsOfOrders'
    BY <1>3, <2>1
  <2>3. OrdersKnown'
    <3> SUFFICES ASSUME NEW d \in Handlers, Settling(d)'
                 PROVE  /\ Named(d)' \in Created'
                        /\ call'[d].order.holder = freeze'[Named(d)'].holder
                        /\ call'[d].req.cmd # "Reverse" => call'[d].order.status = "frozen"
      BY DEF OrdersKnown
    <3>1. CASE d = c
      BY <2>1, <2>2, <3>1
    <3>2. CASE d # c
      <4>1. call'[d] = call[d] /\ Settling(d) /\ Named(d)' = Named(d)
        BY <1>4, <2>1, <3>2
      <4> QED
        BY <2>1, <2>2, <4>1 DEF TieInv, OrdersKnown
    <3> QED
      BY <3>1, <3>2
  <2> QED
    BY <1>1, <2>2, <2>3 DEF TieInv
<1>6. ASSUME UNCHANGED <<avail, frozen, freeze, journal>>,
             \A c \in Handlers : call'[c] \in {call[c], Idle}
      PROVE  TieInv'
  <2>1. Created' = Created /\ LegsOfOrders'
    BY <1>3, <1>6
  <2>2. OrdersKnown'
    <3> SUFFICES ASSUME NEW d \in Handlers, Settling(d)'
                 PROVE  /\ Named(d)' \in Created'
                        /\ call'[d].order.holder = freeze'[Named(d)'].holder
                        /\ call'[d].req.cmd # "Reverse" => call'[d].order.status = "frozen"
      BY DEF OrdersKnown
    <3>1. call'[d] = call[d]
      BY <1>6 DEF Settling
    <3>2. Settling(d) /\ Named(d)' = Named(d)
      BY <1>4, <1>6, <3>1
    <3> QED
      BY <1>6, <2>1, <3>1, <3>2 DEF TieInv, OrdersKnown
  <2> QED
    BY <1>1, <2>1, <2>2 DEF TieInv
<1> QED
  BY <1>2, <1>5, <1>6, StepPosts

LEMMA TieInit == Init => TieInv
<1> SUFFICES ASSUME Init PROVE TieInv
  OBVIOUS
<1>1. Created = {}
  BY DEF Init, Created, NoOrder
<1>2. DOMAIN journal = {}
  BY DEF Init
<1>3. OrdersKnown
  BY DEF Init, OrdersKnown, Settling
<1>4. LegsOfOrders
  BY <1>2 DEF LegsOfOrders
<1> QED
  BY <1>1, <1>3, <1>4, InvInit, FS_EmptySet DEF TieInv

LEMMA TieHolds == Spec => []TieInv
BY TieInit, TieStep, PTL DEF Spec

-----------------------------------------------------------------------------
(* The balances replayed from the entries (L2). *)

LEMMA EntryInt ==
    ASSUME NEW p \in Posting, NEW h \in Holders
    PROVE  AvailableOf(p, h) \in Int /\ FrozenOf(p, h) \in Int
<1>1. p.legs[h] \in Int
  BY DEF Posting
<1> QED
  BY <1>1 DEF AvailableOf, FrozenOf

LEMMA BalanceStep == TieInv /\ BalanceTieOut /\ [Next]_vars => BalanceTieOut'
<1> SUFFICES ASSUME TieInv, BalanceTieOut, [Next]_vars PROVE BalanceTieOut'
  OBVIOUS
<1>1. ASSUME NEW c \in Handlers, NEW p, Posts(c, p)
      PROVE  BalanceTieOut'
  <2> SUFFICES ASSUME NEW h \in Holders
               PROVE  Replayed(h)' = [available |-> avail'[h], frozen |-> frozen'[h]]
    BY DEF BalanceTieOut
  <2>1. /\ p \in Posting /\ journal' = Append(journal, p)
        /\ avail'[h] = avail[h] + AvailableOf(p, h)
        /\ frozen'[h] = frozen[h] + FrozenOf(p, h)
    BY <1>1 DEF Posts, Entered
  <2>2. PICK k : /\ k \notin DOMAIN journal
                 /\ IsFiniteSet(DOMAIN journal)
                 /\ DOMAIN journal' = DOMAIN journal \cup {k}
                 /\ journal'[k] = p
                 /\ \A i \in DOMAIN journal : journal'[i] = journal[i]
                 /\ \A i \in DOMAIN journal : journal[i] \in Posting
    BY <2>1, Appended DEF TieInv, Inv
  <2> DEFINE a == [i \in DOMAIN journal |-> AvailableOf(journal[i], h)]
             b == [i \in DOMAIN journal' |-> AvailableOf(journal'[i], h)]
             f == [i \in DOMAIN journal |-> FrozenOf(journal[i], h)]
             g == [i \in DOMAIN journal' |-> FrozenOf(journal'[i], h)]
  <2>3. /\ a \in [DOMAIN journal -> Int] /\ f \in [DOMAIN journal -> Int]
        /\ b \in [DOMAIN journal \cup {k} -> Int] /\ g \in [DOMAIN journal \cup {k} -> Int]
        /\ b[k] = AvailableOf(p, h) /\ g[k] = FrozenOf(p, h)
        /\ \A i \in DOMAIN journal : b[i] = a[i] /\ g[i] = f[i]
    BY <2>1, <2>2, EntryInt
  <2>4. Replayed(h) = [available |-> SumFunction(a), frozen |-> SumFunction(f)]
    BY DEF Replayed
  <2>5. Replayed(h)' = [available |-> SumFunction(b), frozen |-> SumFunction(g)]
    BY DEF Replayed
  <2>6. SumFunction(a) = avail[h] /\ SumFunction(f) = frozen[h]
    BY <2>4 DEF BalanceTieOut
  <2> HIDE DEF a, b, f, g
  <2>7. SumFunction(b) = SumFunction(a) + b[k] /\ SumFunction(g) = SumFunction(f) + g[k]
    BY <2>2, <2>3, TotalAppend
  <2> QED
    BY <2>1, <2>3, <2>5, <2>6, <2>7
<1>2. UNCHANGED <<avail, frozen, journal>> => BalanceTieOut'
  BY DEF BalanceTieOut, Replayed
<1> QED
  BY <1>1, <1>2, StepPosts, BeginReads

\* Rule L2 for every menu of requests, partial captures and reversals of any
\* voucher included, and every number of handlers: the entries of an account,
\* replayed by reconstruct, give both its balances.
THEOREM BalancesAreReplayed == Spec => []BalanceTieOut
<1>1. Init => BalanceTieOut
  <2> SUFFICES ASSUME Init, NEW h \in Holders
               PROVE  Replayed(h) = [available |-> avail[h], frozen |-> frozen[h]]
    BY DEF BalanceTieOut
  <2> DEFINE a == [i \in DOMAIN journal |-> AvailableOf(journal[i], h)]
             f == [i \in DOMAIN journal |-> FrozenOf(journal[i], h)]
  <2>1. DOMAIN a = {} /\ DOMAIN f = {}
    BY DEF Init
  <2>2. Replayed(h) = [available |-> SumFunction(a), frozen |-> SumFunction(f)]
    BY DEF Replayed
  <2>3. avail[h] = 0 /\ frozen[h] = 0
    BY DEF Init
  <2> HIDE DEF a, f
  <2> QED
    BY <2>1, <2>2, <2>3, TotalEmpty
<1> QED
  BY <1>1, TieHolds, BalanceStep, PTL DEF Spec

-----------------------------------------------------------------------------
(* The value in the books. *)

LEMMA ValueStep == TieInv /\ ValueAccounted /\ [Next]_vars => ValueAccounted'
<1> SUFFICES ASSUME TieInv, ValueAccounted, [Next]_vars PROVE ValueAccounted'
  OBVIOUS
<1>1. ASSUME NEW c \in Handlers, NEW p, Posts(c, p)
      PROVE  ValueAccounted'
  <2> DEFINE Out(q) == IF q.cmd = "Capture" \/ (q.cmd = "Reverse" /\ q.order # NoBiz /\ ~q.unfreeze)
                       THEN -q.legs[freeze'[q.order].holder] ELSE 0
             total == [h \in Holders |-> avail[h] + frozen[h]]
             after == [h \in Holders |-> avail'[h] + frozen'[h]]
             moved == [h \in Holders |-> AvailableOf(p, h) + FrozenOf(p, h)]
             out == [i \in DOMAIN journal |-> Outflow(journal[i])]
             outAfter == [i \in DOMAIN journal' |-> Out(journal'[i])]
  <2>1. /\ p \in Posting /\ journal' = Append(journal, p)
        /\ avail' \in [Holders -> Int] /\ frozen' \in [Holders -> Int]
        /\ \A h \in Holders : /\ avail'[h] = avail[h] + AvailableOf(p, h)
                              /\ frozen'[h] = frozen[h] + FrozenOf(p, h)
    BY <1>1 DEF Posts, Entered
  <2>2. PICK k : /\ k \notin DOMAIN journal
                 /\ IsFiniteSet(DOMAIN journal)
                 /\ DOMAIN journal' = DOMAIN journal \cup {k}
                 /\ journal'[k] = p
                 /\ \A i \in DOMAIN journal : journal'[i] = journal[i]
                 /\ \A i \in DOMAIN journal : journal[i] \in Posting
    BY <2>1, Appended DEF TieInv, Inv
  <2>3. avail \in [Holders -> Int] /\ frozen \in [Holders -> Int]
    BY DEF TieInv, Inv, TypeOK
  <2>4. /\ p.cmd \in {"Freeze", "Capture", "Release"} \/ p.unfreeze => p.order \in BizNos
        /\ p.unfreeze => p.cmd = "Reverse"
        /\ p.cmd \in {"Credit", "Debit", "Transfer"} => p.order = NoBiz
        /\ p.order = NoBiz => SumFunction(p.legs) = 0
        /\ p.order \in BizNos =>
              /\ freeze'[p.order].status # "none"
              /\ \A h \in Holders : h # freeze'[p.order].holder => p.legs[h] = 0
        /\ OrdersKept
    BY <1>1 DEF Posts, Concerns
  <2>5. p.legs \in [Holders -> Int] /\ p.order \in BizNos \cup {NoBiz}
    BY <2>1 DEF Posting
  <2>6. Inv'
    BY InvStep DEF TieInv
  <2>7. p.order \in BizNos => freeze'[p.order].holder \in Holders
    BY <2>6 DEF Inv, TypeOK, FreezeOrder
  \* The entries of the voucher add up to what it takes out of the books.
  <2>8. SumFunction(moved) = -Out(p)
    <3>1. moved \in [Holders -> Int]
      BY <2>1, EntryInt
    <3>2. CASE p.order = NoBiz
      <4>1. /\ p.cmd \notin {"Freeze", "Capture", "Release"} /\ ~p.unfreeze
        BY <2>4, <3>2, LedgerAssumption
      <4>2. \A h \in Holders : AvailableOf(p, h) = p.legs[h] /\ FrozenOf(p, h) = 0
        BY <4>1 DEF AvailableOf, FrozenOf
      <4>3. moved = p.legs
        BY <2>5, <4>2
      <4>4. Out(p) = 0
        BY <3>2, <4>1
      <4> HIDE DEF moved, Out
      <4> QED
        BY <2>4, <3>2, <4>3, <4>4
    <3>3. CASE p.order \in BizNos
      <4> DEFINE u == freeze'[p.order].holder
      <4>1. u \in Holders /\ \A h \in Holders : h # u => p.legs[h] = 0
        BY <2>4, <2>7, <3>3
      <4> HIDE DEF u
      <4>2. \A h \in Holders : h # u => moved[h] = 0
        BY <4>1 DEF AvailableOf, FrozenOf
      <4>3. moved[u] = AvailableOf(p, u) + FrozenOf(p, u)
        BY <4>1
      <4>4. p.legs[u] \in Int /\ p.order # NoBiz
        BY <2>5, <3>3, <4>1, LedgerAssumption
      <4>5. Out(p) = IF p.cmd = "Capture" \/ (p.cmd = "Reverse" /\ ~p.unfreeze)
                     THEN -p.legs[u] ELSE 0
        BY <4>4 DEF u
      <4>6. p.cmd \in Commands
        BY <2>1 DEF Posting
      <4> HIDE DEF moved, Out
      <4>7. SumFunction(moved) = moved[u]
        BY <3>1, <4>1, <4>2, HoldersFinite, TotalAt
      <4> QED
        BY <2>4, <4>3, <4>4, <4>5, <4>6, <4>7 DEF Commands, AvailableOf, FrozenOf
    <3> QED
      BY <2>5, <3>2, <3>3
  <2>9. ASSUME NEW i \in DOMAIN journal
        PROVE  outAfter[i] = out[i] /\ out[i] \in Int
    <3> DEFINE q == journal[i]
    <3>1. /\ q.legs \in [Holders -> Int] /\ q.order \in BizNos \cup {NoBiz}
          /\ outAfter[i] = Out(q) /\ out[i] = Outflow(q)
      BY <2>2 DEF Posting
    <3>2. IF q.order = NoBiz THEN q.cmd # "Capture" ELSE q.order \in Created
      BY DEF TieInv, LegsOfOrders
    <3> HIDE DEF q, out, outAfter
    <3>3. q.order \in Created =>
             /\ freeze'[q.order].holder = freeze[q.order].holder
             /\ freeze[q.order].holder \in Holders
      BY <2>4 DEF OrdersKept, Created, TieInv, Inv, TypeOK, FreezeOrder
    <3> QED
      BY <3>1, <3>2, <3>3 DEF Outflow
  <2>10. Out(p) \in Int
    BY <2>4, <2>5, <2>7
  <2>11. /\ total \in [Holders -> Int] /\ after \in [Holders -> Int]
         /\ moved \in [Holders -> Int]
         /\ \A h \in Holders : after[h] = total[h] + moved[h]
    BY <2>1, <2>3, EntryInt
  <2>12. outAfter[k] = Out(p)
    BY <2>2
  <2>13. /\ out \in [DOMAIN journal -> Int]
         /\ outAfter \in [DOMAIN journal \cup {k} -> Int]
    BY <2>2, <2>9, <2>10, <2>12
  <2>14. SumFunction(total) + SumFunction(out) = 0
    BY DEF ValueAccounted
  <2>15. ValueAccounted' <=> (SumFunction(after) + SumFunction(outAfter) = 0)
    BY DEF ValueAccounted, Outflow
  <2> HIDE DEF Out, total, after, moved, out, outAfter
  <2>16. SumFunction(after) = SumFunction(total) + SumFunction(moved)
    BY <2>11, HoldersFinite, TotalAdd
  <2>17. SumFunction(outAfter) = SumFunction(out) + outAfter[k]
    BY <2>2, <2>9, <2>13, TotalAppend
  <2>18. SumFunction(total) \in Int /\ SumFunction(out) \in Int
    BY <2>2, <2>11, <2>13, HoldersFinite, TotalType
  <2>19. SumFunction(after) + SumFunction(outAfter) = 0
    BY <2>8, <2>10, <2>12, <2>14, <2>16, <2>17, <2>18
  <2> QED
    BY <2>15, <2>19
<1>2. UNCHANGED <<avail, frozen, freeze, journal>> => ValueAccounted'
  BY DEF ValueAccounted, Outflow
<1> QED
  BY <1>1, <1>2, StepPosts, BeginReads

\* For every menu of requests and every interleaving, partial captures
\* included: the balances of all accounts and what captures took out of the
\* books add up to zero, and a command moves value only as its voucher says.
THEOREM ValueIsAccounted == Spec => []ValueAccounted
<1>1. Init => ValueAccounted
  <2> SUFFICES ASSUME Init PROVE ValueAccounted
    OBVIOUS
  <2> DEFINE total == [h \in Holders |-> avail[h] + frozen[h]]
             out == [i \in DOMAIN journal |-> Outflow(journal[i])]
  <2>1. /\ total \in [Holders -> Int] /\ DOMAIN out = {}
        /\ \A h \in Holders : total[h] = 0
    BY DEF Init
  <2>2. ValueAccounted <=> (SumFunction(total) + SumFunction(out) = 0)
    BY DEF ValueAccounted
  <2> HIDE DEF total, out
  <2>3. SumFunction(total) = 0 /\ SumFunction(out) = 0
    BY <2>1, HoldersFinite, TotalZero, TotalEmpty
  <2> QED
    BY <2>2, <2>3
<1> QED
  BY <1>1, TieHolds, ValueStep, PTL DEF Spec

-----------------------------------------------------------------------------
(* Orders against the frozen balances (L3), and an order against its        *)
(* vouchers.  Both fail when a partial capture writes back a copy of an     *)
(* order that another command has changed, so they are proved where every   *)
(* capture takes its whole order and where commands run one at a time.      *)

LEMMA AmountsKept ==
    ASSUME TieInv, [Next]_vars, CapturesInFull
    PROVE  \A b \in Created : freeze'[b].amount = freeze[b].amount
<1> SUFFICES ASSUME NEW b \in BizNos, freeze[b].status # "none"
             PROVE  freeze'[b].amount = freeze[b].amount
  BY DEF Created
<1>1. freeze \in [BizNos -> FreezeOrder]
  BY DEF TieInv, Inv, TypeOK
<1>2. ASSUME NEW c \in Handlers, PostCredit(c) \/ PostDebit(c) \/ PostTransfer(c)
      PROVE  freeze' = freeze
  BY <1>2, Moves DEF TieInv, Move
<1>3. ASSUME NEW c \in Handlers, PostFreeze(c) PROVE freeze'[b] = freeze[b]
  BY <1>1, <1>3 DEF PostFreeze
<1>4. ASSUME NEW x, NEW to, CloseOrder(x, to) PROVE freeze'[b].amount = freeze[b].amount
  BY <1>1, <1>4 DEF CloseOrder, FreezeOrder
<1>5. ASSUME NEW c \in Handlers, PostFullCapture(c) \/ PostRelease(c) \/ PostUnfreeze(c)
      PROVE  \E x, to : CloseOrder(x, to)
  BY <1>5 DEF PostFullCapture, PostRelease, PostUnfreeze
<1>6. ASSUME NEW c \in Handlers, PostPartialCapture(c) PROVE FALSE
  <2>1. call[c] # Idle /\ call[c].req.cmd = "Capture" /\ call[c].req.amount > 0
    BY <1>6, SettlesType DEF PostPartialCapture, TieInv
  <2>2. call[c].req \in Menu
    BY <2>1, InProgress DEF TieInv, Inv
  <2> QED
    BY <2>1, <2>2 DEF CapturesInFull
<1>7. ASSUME NEW c \in Handlers, PostReverse(c) PROVE freeze' = freeze
  BY <1>7 DEF PostReverse
<1>8. ASSUME NEW c \in Handlers, NEW r \in Menu,
             BeginPosting(c, r) \/ BeginSettle(c, r) \/ BeginReverse(c, r)
      PROVE  freeze' = freeze
  BY <1>8 DEF BeginPosting, BeginSettle, BeginReverse, Begin
<1>9. ASSUME NEW c \in Handlers, Rollback(c) PROVE freeze' = freeze
  BY <1>9 DEF Rollback
<1>10. ASSUME NEW h \in Disableable, NEW x \in {"active", "disabled"}, SetStatus(h, x)
       PROVE  freeze' = freeze
  BY <1>10 DEF SetStatus
<1>11. UNCHANGED vars => freeze' = freeze
  BY DEF vars
<1> QED
  BY <1>2, <1>3, <1>4, <1>5, <1>6, <1>7, <1>8, <1>9, <1>10, <1>11 DEF Next

LEMMA CopiesStep == TieInv /\ CopiesCurrent /\ [Next]_vars => CopiesCurrent'
<1> SUFFICES ASSUME TieInv, CopiesCurrent, [Next]_vars, NEW d \in Handlers, Settling(d)'
             PROVE  /\ CapturesInFull => call'[d].order.amount = freeze'[Named(d)'].amount
                    /\ Alone => call'[d].order = freeze'[Named(d)']
  BY DEF CopiesCurrent
<1>1. ASSUME NEW c \in Handlers, NEW p, Posts(c, p)
      PROVE  /\ CapturesInFull => call'[d].order.amount = freeze'[Named(d)'].amount
             /\ Alone => call'[d].order = freeze'[Named(d)']
  <2>1. /\ p \in Posting /\ journal' = Append(journal, p)
        /\ call' = [call EXCEPT ![c] = Idle]
    BY <1>1 DEF Posts, Entered
  <2>2. d # c /\ call[d] # Idle /\ call'[d] = call[d]
    BY <2>1 DEF Settling, TieInv, Inv, TypeOK
  <2>3. \A i \in DOMAIN journal : journal'[i] = journal[i]
    BY <2>1, Appended DEF TieInv, Inv
  <2>4. call[d].req.cmd = "Reverse" => Undoing(d)' = Undoing(d)
    BY <2>2, <2>3 DEF Undoing, TieInv, Inv, OriginalPosted
  <2>5. Settling(d) /\ Named(d)' = Named(d)
    BY <2>2, <2>4 DEF Settling, Named
  <2>6. ASSUME CapturesInFull PROVE call'[d].order.amount = freeze'[Named(d)'].amount
    <3>1. Named(d) \in Created
      BY <2>5 DEF TieInv, OrdersKnown
    <3>2. freeze'[Named(d)].amount = freeze[Named(d)].amount
      BY <2>6, <3>1, AmountsKept
    <3> QED
      BY <2>2, <2>5, <2>6, <3>2 DEF CopiesCurrent
  <2>7. ~Alone
    BY <2>2 DEF Alone
  <2> QED
    BY <2>6, <2>7
<1>2. ASSUME UNCHANGED <<freeze, journal>>, call'[d] = call[d]
      PROVE  /\ CapturesInFull => call'[d].order.amount = freeze'[Named(d)'].amount
             /\ Alone => call'[d].order = freeze'[Named(d)']
  <2>1. Settling(d) /\ Named(d)' = Named(d)
    BY <1>2 DEF Settling, Named, Undoing
  <2> QED
    BY <1>2, <2>1 DEF CopiesCurrent
<1>3. ASSUME NEW c \in Handlers, NEW r \in Menu,
             BeginPosting(c, r) \/ BeginSettle(c, r) \/ BeginReverse(c, r)
      PROVE  /\ CapturesInFull => call'[d].order.amount = freeze'[Named(d)'].amount
             /\ Alone => call'[d].order = freeze'[Named(d)']
  <2>1. /\ UNCHANGED <<avail, frozen, freeze, journal>>
        /\ \A x \in Handlers : x # c => call'[x] = call[x]
        /\ Settling(c)' => call'[c].order = freeze[Named(c)']
    BY <1>3, BeginReads
  <2>2. CASE d = c
    BY <2>1, <2>2
  <2>3. CASE d # c
    BY <1>2, <2>1, <2>3
  <2> QED
    BY <2>2, <2>3
<1>4. ASSUME UNCHANGED <<avail, frozen, freeze, journal>>,
             \A c \in Handlers : call'[c] \in {call[c], Idle}
      PROVE  /\ CapturesInFull => call'[d].order.amount = freeze'[Named(d)'].amount
             /\ Alone => call'[d].order = freeze'[Named(d)']
  <2>1. call'[d] = call[d]
    BY <1>4 DEF Settling
  <2> QED
    BY <1>2, <1>4, <2>1
<1> QED
  BY <1>1, <1>3, <1>4, StepPosts

LEMMA CopiesHold == Spec => [](TieInv /\ CopiesCurrent)
<1>1. Init => CopiesCurrent
  BY DEF Init, CopiesCurrent, Settling
<1> QED
  BY <1>1, TieInit, TieStep, CopiesStep, PTL DEF Spec

LEMMA FreezeTieStep ==
    ASSUME Undisturbed
    PROVE  TieInv /\ CopiesCurrent /\ FreezeTieOut /\ [Next]_vars => FreezeTieOut'
<1> SUFFICES ASSUME TieInv, CopiesCurrent, FreezeTieOut, [Next]_vars PROVE FreezeTieOut'
  OBVIOUS
<1>1. ASSUME NEW c \in Handlers, NEW p, Posts(c, p)
      PROVE  FreezeTieOut'
  <2> SUFFICES ASSUME NEW h \in Holders PROVE FreezeSum(h)' = frozen'[h]
    BY DEF FreezeTieOut
  <2> DEFINE b == p.order
             S == FrozenOrders(h)
             T == FrozenOrders(h)'
             w == [x \in S |-> freeze[x].amount]
             v == [x \in T |-> freeze'[x].amount]
  <2>1. /\ p \in Posting
        /\ frozen'[h] = frozen[h] + FrozenOf(p, h)
        /\ \A x \in BizNos : x # p.order => freeze'[x] = freeze[x]
        /\ Balanced(p)
        /\ p.order \in BizNos =>
              \A x \in Holders : x # freeze'[p.order].holder => p.legs[x] = 0
        /\ p.cmd \in {"Freeze", "Capture", "Release"} \/ p.unfreeze => p.order \in BizNos
        /\ OrdersKept
    BY <1>1 DEF Posts, Entered, Concerns
  <2>2. /\ freeze \in [BizNos -> FreezeOrder] /\ freeze' \in [BizNos -> FreezeOrder]
        /\ frozen[h] \in Int
    BY InvStep DEF TieInv, Inv, TypeOK
  <2>3. S \subseteq BizNos /\ T \subseteq BizNos
    BY DEF FrozenOrders
  <2>4. IsFiniteSet(S)
    <3>1. S \in SUBSET Created
      BY DEF FrozenOrders, Created
    <3> HIDE DEF S
    <3> QED
      BY <3>1, FS_Subset DEF TieInv
  <2>5. S \ {b} = T \ {b}
    BY <2>1 DEF FrozenOrders
  <2>6. w \in [S -> Int] /\ v \in [T -> Int] /\ \A x \in S : x # b /\ x \in T => v[x] = w[x]
    BY <2>1, <2>2, <2>3 DEF FreezeOrder
  <2>7. FreezeSum(h) = SumFunction(w) /\ FreezeSum(h)' = SumFunction(v)
    BY DEF FreezeSum
  <2>8. SumFunction(w) = frozen[h]
    BY <2>7 DEF FreezeTieOut
  <2> DEFINE before == IF b \in S THEN w[b] ELSE 0
             after == IF b \in T THEN v[b] ELSE 0
  <2>9. after = before + FrozenOf(p, h)
    <3>1. CASE b \notin BizNos
      <4>1. b \notin S /\ b \notin T
        BY <2>3, <3>1
      <4>2. FrozenOf(p, h) = 0
        BY <2>1, <3>1 DEF FrozenOf
      <4> QED
        BY <4>1, <4>2
    <3>2. CASE b \in BizNos /\ h = freeze'[b].holder
      <4>1. Remaining(freeze'[b]) = Remaining(freeze[b]) + FrozenOf(p, h)
        BY <2>1, <3>2 DEF Balanced
      <4>2. freeze[b].status = "frozen" => freeze[b].holder = h
        BY <2>1, <3>2 DEF OrdersKept, Created
      <4>3. before = Remaining(freeze[b]) /\ after = Remaining(freeze'[b])
        BY <3>2, <4>2 DEF FrozenOrders, Remaining
      <4> QED
        BY <4>1, <4>3
    <3>3. CASE b \in BizNos /\ h # freeze'[b].holder
      <4>1. b \notin T
        BY <3>3 DEF FrozenOrders
      <4>2. b \notin S
        BY <2>1, <3>3 DEF FrozenOrders, OrdersKept, Created
      <4>3. FrozenOf(p, h) = 0
        BY <2>1, <3>3 DEF FrozenOf
      <4> QED
        BY <4>1, <4>2, <4>3
    <3> QED
      BY <3>1, <3>2, <3>3
  <2>10. before \in Int /\ after \in Int /\ FrozenOf(p, h) \in Int
    BY <2>1, <2>6, EntryInt
  <2> HIDE DEF w, v, S, T, b
  <2>11. SumFunction(v) = SumFunction(w) - before + after
    BY <2>4, <2>5, <2>6, TotalElsewhere
  <2> HIDE DEF before, after
  <2> QED
    BY <2>1, <2>2, <2>7, <2>8, <2>9, <2>10, <2>11
<1>2. UNCHANGED <<frozen, freeze>> => FreezeTieOut'
  BY DEF FreezeTieOut, FreezeSum, FrozenOrders
<1> QED
  BY <1>1, <1>2, StepPosts, BeginReads

\* Rule L3 where every Capture takes its whole order, or commands run one at a
\* time: the orders in status frozen add up to the frozen balance of their
\* account, whatever is captured, released, expired or reversed.
THEOREM OrdersTieOut == ASSUME Undisturbed PROVE Spec => []FreezeTieOut
<1>1. Init => FreezeTieOut
  <2> SUFFICES ASSUME Init, NEW h \in Holders PROVE FreezeSum(h) = frozen[h]
    BY DEF FreezeTieOut
  <2> DEFINE w == [b \in FrozenOrders(h) |-> freeze[b].amount]
  <2>1. DOMAIN w = {} /\ frozen[h] = 0
    BY DEF Init, FrozenOrders, NoOrder
  <2>2. FreezeSum(h) = SumFunction(w)
    BY DEF FreezeSum
  <2> HIDE DEF w
  <2> QED
    BY <2>1, <2>2, TotalEmpty
<1> QED
  BY <1>1, CopiesHold, FreezeTieStep, PTL DEF Spec

\* The voucher of an order changes what is set aside in it, less what has been
\* taken out, as it changes the frozen balance of the account of the order.
LEMMA VoucherAccounted ==
    ASSUME NEW p \in Posting, NEW o \in FreezeOrder, p.unfreeze => p.cmd = "Reverse",
           p.cmd \notin {"Credit", "Debit", "Transfer"},
           p.cmd = "Capture" => p.legs[o.holder] <= 0,
           p.cmd = "Release" \/ p.unfreeze => p.legs[o.holder] >= 0
    PROVE  LET n == p.legs[o.holder]
               taken == IF p.unfreeze \/ p.cmd \in {"Capture", "Release"}
                        THEN IF n > 0 THEN n ELSE -n ELSE 0
               aside == IF p.cmd = "Freeze" THEN -n ELSE 0
           IN  aside - taken = FrozenOf(p, o.holder)
<1>1. p.legs[o.holder] \in Int /\ p.unfreeze \in BOOLEAN
  BY DEF Posting, FreezeOrder
<1> QED
  BY <1>1 DEF FrozenOf

LEMMA OrderStepAccounted ==
    ASSUME Undisturbed
    PROVE  TieInv /\ CopiesCurrent /\ OrderAccounted /\ [Next]_vars => OrderAccounted'
<1> SUFFICES ASSUME TieInv, CopiesCurrent, OrderAccounted, [Next]_vars
             PROVE  OrderAccounted'
  OBVIOUS
<1>1. ASSUME NEW c \in Handlers, NEW p, Posts(c, p)
      PROVE  OrderAccounted'
  <2> SUFFICES ASSUME NEW b \in BizNos
               PROVE  Settled(b)' + Remaining(freeze'[b]) = SetAside(b)'
    BY DEF OrderAccounted
  <2> DEFINE u == freeze'[b].holder
             Took(q) == IF q.order = b /\ (q.unfreeze \/ q.cmd \in {"Capture", "Release"})
                        THEN IF q.legs[u] > 0 THEN q.legs[u] ELSE -q.legs[u]
                        ELSE 0
             Laid(q) == IF q.cmd = "Freeze" /\ q.order = b THEN -q.legs[u] ELSE 0
             s == [i \in DOMAIN journal |-> Takes(journal[i], b)]
             t == [i \in DOMAIN journal' |-> Took(journal'[i])]
             x == [i \in DOMAIN journal |-> SetsAside(journal[i], b)]
             y == [i \in DOMAIN journal' |-> Laid(journal'[i])]
  <2>1. /\ p \in Posting /\ journal' = Append(journal, p)
        /\ b # p.order => freeze'[b] = freeze[b]
        /\ Balanced(p) /\ OrdersKept
        /\ p.unfreeze => p.cmd = "Reverse"
        /\ p.order = b => /\ p.cmd = "Capture" => p.legs[u] <= 0
                          /\ p.cmd = "Release" \/ p.unfreeze => p.legs[u] >= 0
        /\ p.cmd \in {"Credit", "Debit", "Transfer"} => p.order = NoBiz
    BY <1>1 DEF Posts, Entered, Concerns
  <2>2. PICK k : /\ k \notin DOMAIN journal
                 /\ IsFiniteSet(DOMAIN journal)
                 /\ DOMAIN journal' = DOMAIN journal \cup {k}
                 /\ journal'[k] = p
                 /\ \A i \in DOMAIN journal : journal'[i] = journal[i]
                 /\ \A i \in DOMAIN journal : journal[i] \in Posting
    BY <2>1, Appended DEF TieInv, Inv
  <2>3. freeze \in [BizNos -> FreezeOrder] /\ freeze' \in [BizNos -> FreezeOrder]
    BY InvStep DEF TieInv, Inv, TypeOK
  <2>4. freeze'[b] \in FreezeOrder /\ u \in Holders
    BY <2>3 DEF FreezeOrder
  <2>5. ASSUME NEW q \in Posting PROVE Took(q) \in Int /\ Laid(q) \in Int
    <3>1. q.legs[u] \in Int
      BY <2>4 DEF Posting
    <3> HIDE DEF u
    <3> QED
      BY <3>1
  <2>6. ASSUME NEW i \in DOMAIN journal
        PROVE  Took(journal[i]) = Takes(journal[i], b) /\ Laid(journal[i]) = SetsAside(journal[i], b)
    <3>1. CASE journal[i].order = b
      <4>1. b \in Created
        BY <3>1, LedgerAssumption DEF TieInv, LegsOfOrders
      <4>2. freeze[b].holder = u
        BY <2>1, <4>1 DEF OrdersKept
      <4> HIDE DEF u
      <4> QED
        BY <4>2 DEF Takes, SetsAside
    <3>2. CASE journal[i].order # b
      BY <3>2 DEF Takes, SetsAside
    <3> QED
      BY <3>1, <3>2
  <2>7. Laid(p) - Took(p) = Remaining(freeze'[b]) - Remaining(freeze[b])
    <3>1. Remaining(freeze'[b]) \in Int /\ Remaining(freeze[b]) \in Int
      BY <2>3 DEF Remaining, FreezeOrder
    <3>2. CASE p.order = b
      <4>1. p.cmd \notin {"Credit", "Debit", "Transfer"}
        BY <2>1, <3>2, LedgerAssumption
      <4>2. Laid(p) - Took(p) = FrozenOf(p, u)
        BY <2>1, <2>4, <3>2, <4>1, VoucherAccounted
      <4>3. Remaining(freeze'[b]) = Remaining(freeze[b]) + FrozenOf(p, u)
        BY <2>1, <3>2 DEF Balanced
      <4>4. FrozenOf(p, u) \in Int
        BY <2>1, <2>4, EntryInt
      <4> HIDE DEF u, Laid, Took
      <4> QED
        BY <3>1, <4>2, <4>3, <4>4
    <3>3. CASE p.order # b
      BY <2>1, <3>1, <3>3
    <3> QED
      BY <3>2, <3>3
  <2>8. /\ Settled(b) = SumFunction(s) /\ Settled(b)' = SumFunction(t)
        /\ SetAside(b) = SumFunction(x) /\ SetAside(b)' = SumFunction(y)
    BY DEF Settled, SetAside, Takes, SetsAside
  <2>9. SumFunction(s) + Remaining(freeze[b]) = SumFunction(x)
    BY <2>8 DEF OrderAccounted
  <2>10. t[k] = Took(p) /\ y[k] = Laid(p) /\ Took(p) \in Int /\ Laid(p) \in Int
    BY <2>1, <2>2, <2>5
  <2>11. ASSUME NEW i \in DOMAIN journal
         PROVE  t[i] = s[i] /\ y[i] = x[i] /\ s[i] \in Int /\ x[i] \in Int
    <3> HIDE DEF Took, Laid
    <3>1. t[i] = Took(journal[i]) /\ y[i] = Laid(journal[i])
      BY <2>2
    <3>2. s[i] = Takes(journal[i], b) /\ x[i] = SetsAside(journal[i], b)
      OBVIOUS
    <3> QED
      BY <2>2, <2>5, <2>6, <3>1, <3>2
  <2>12. /\ s \in [DOMAIN journal -> Int] /\ x \in [DOMAIN journal -> Int]
         /\ t \in [DOMAIN journal \cup {k} -> Int] /\ y \in [DOMAIN journal \cup {k} -> Int]
    <3> HIDE DEF Took, Laid
    <3>1. \A i \in DOMAIN journal' : t[i] \in Int /\ y[i] \in Int
      <4> HIDE DEF t, y, s, x
      <4> QED
        BY <2>2, <2>10, <2>11
    <3> QED
      BY <2>2, <2>11, <3>1
  <2> HIDE DEF s, t, x, y, Took, Laid, u
  <2>13. SumFunction(t) = SumFunction(s) + t[k] /\ SumFunction(y) = SumFunction(x) + y[k]
    BY <2>2, <2>11, <2>12, TotalAppend
  <2>14. SumFunction(s) \in Int /\ SumFunction(x) \in Int
    BY <2>2, <2>12, TotalType
  <2>15. Remaining(freeze'[b]) \in Int /\ Remaining(freeze[b]) \in Int
    BY <2>3 DEF Remaining, FreezeOrder
  <2>16. SumFunction(t) + Remaining(freeze'[b]) = SumFunction(y)
    BY <2>7, <2>9, <2>10, <2>13, <2>14, <2>15
  <2> QED
    BY <2>8, <2>16
<1>2. UNCHANGED <<freeze, journal>> => OrderAccounted'
  BY DEF OrderAccounted, Settled, SetAside, Takes, SetsAside
<1> QED
  BY <1>1, <1>2, StepPosts, BeginReads

\* Under the same condition the amount a Freeze set aside is settled exactly
\* once: no two of capture, release, expiry and reversal take it twice.
THEOREM OrdersSettledOnce == ASSUME Undisturbed PROVE Spec => []OrderAccounted
<1>1. Init => OrderAccounted
  <2> SUFFICES ASSUME Init, NEW b \in BizNos
               PROVE  Settled(b) + Remaining(freeze[b]) = SetAside(b)
    BY DEF OrderAccounted
  <2> DEFINE s == [i \in DOMAIN journal |-> Takes(journal[i], b)]
             x == [i \in DOMAIN journal |-> SetsAside(journal[i], b)]
  <2>1. DOMAIN s = {} /\ DOMAIN x = {} /\ Remaining(freeze[b]) = 0
    BY DEF Init, NoOrder, Remaining
  <2>2. Settled(b) = SumFunction(s) /\ SetAside(b) = SumFunction(x)
    BY DEF Settled, SetAside
  <2> HIDE DEF s, x
  <2> QED
    BY <2>1, <2>2, TotalEmpty
<1> QED
  BY <1>1, CopiesHold, OrderStepAccounted, PTL DEF Spec
=============================================================================
