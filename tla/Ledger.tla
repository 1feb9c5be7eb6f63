------------------------------ MODULE Ledger ------------------------------
(***************************************************************************)
(* The bookkeeping kernel (internal/application/bookkeeping.go and         *)
(* reverse.go) over the MySQL repositories it runs on, for one tenant, one *)
(* source system and one asset: Credit, Debit, Freeze, Capture, Release,   *)
(* Transfer inside a shard, and Reverse.                                   *)
(*                                                                         *)
(* A command is one database transaction of two phases.  Its first read    *)
(* (the idempotency lookup) fixes the REPEATABLE READ snapshot, from which *)
(* freeze orders and original postings are read too, without locks; then   *)
(* it locks the accounts it needs (SELECT ... FOR UPDATE reads the current *)
(* row), checks, writes and commits.  Everything written is guarded by the *)
(* account locks, so the second phase is one step; other commands may run  *)
(* between the two.                                                        *)
(***************************************************************************)
EXTENDS Integers, Sequences, FiniteSets

CONSTANTS
    Users,             \* holders of ordinary accounts
    Disableable,       \* the users whose account operators may disable
    BizNos,            \* biz_no values; a freeze order is named by its Freeze's
    Menu,              \* the requests callers may submit, any number of times
    Handlers,          \* concurrent executions of a command
    OverdraftAllowed,  \* asset.OverdraftAllowed
    FreezeSupported,   \* asset.FreezeSupported
    MaxPostings,       \* bound on the length of the journal
    NoBiz,             \* an empty freeze_id or related_biz_no
    Idle               \* a handler that executes nothing

Issuance == "point_issuance"
Sink == "point_sink"

SystemHolders == {Issuance, Sink}
Holders == Users \cup SystemHolders

Commands ==
    {"Credit", "Debit", "Freeze", "Capture", "Release", "Transfer", "Reverse"}

\* amount = 0 stands for an omitted amount, ref for freeze_id/related_biz_no.
Request == [cmd : Commands, biz : BizNos, holder : Holders, to : Holders,
            amount : Nat, ref : BizNos \cup {NoBiz}]

FreezeOrder == [status : {"none", "frozen", "captured", "released"},
                amount : Nat, holder : Holders]
NoOrder == [status |-> "none", amount |-> 0, holder |-> Sink]

\* The fields requestHash digests: every one that tells requests apart here
\* except the counterparty of a Transfer.
HashKey == [cmd : Commands, biz : BizNos, holder : Holders, amount : Nat,
            ref : BizNos \cup {NoBiz}]

\* One voucher with its entries: legs[h] > 0 is an IN entry of h, legs[h] < 0
\* an OUT entry.  unfreeze is the biz_type Reverse gives the entry of a
\* dissolved freeze, orig the position of the voucher a Reverse undoes.
Posting == [cmd : Commands, biz : BizNos, to : Holders, legs : [Holders -> Int],
            order : BizNos \cup {NoBiz}, unfreeze : BOOLEAN, orig : Nat]

Call == [req : Menu, order : FreezeOrder, orig : Nat]

ASSUME LedgerAssumption ==
    /\ IsFiniteSet(Users)
    /\ Users \cap SystemHolders = {}
    /\ Disableable \subseteq Users
    /\ NoBiz \notin BizNos
    /\ Menu \subseteq Request
    /\ Idle \notin Call
    /\ OverdraftAllowed \in BOOLEAN
    /\ FreezeSupported \in BOOLEAN
    /\ MaxPostings \in Nat

\* What validateBase and the command handlers refuse before touching state,
\* and what callers must supply: an explicit counterparty or reference.
ASSUME MenuAssumption ==
    \A r \in Menu :
        /\ r.cmd \in {"Credit", "Debit", "Freeze", "Transfer"} =>
              r.holder \in Users /\ r.amount > 0
        /\ r.cmd \in {"Capture", "Release", "Reverse"} => r.ref \in BizNos

VARIABLES
    avail,    \* account.available of every holder, 0 before it is opened
    frozen,   \* account.frozen
    status,   \* account.status
    freeze,   \* the freeze order created under each biz_no
    idem,     \* the idempotency records, as the hashed fields of each
    journal,  \* the postings in commit order
    call      \* what each handler is executing, with what it read

vars == <<avail, frozen, status, freeze, idem, journal, call>>

-----------------------------------------------------------------------------
(* Reads *)

HashOf(r) == [cmd |-> r.cmd, biz |-> r.biz, holder |-> r.holder,
              amount |-> r.amount, ref |-> r.ref]

\* checkIdempotency finds a record, and the unique index on
\* (tenant, source, biz_no, command) rejects a second one.
KeyTaken(r) == \E k \in idem : k.cmd = r.cmd /\ k.biz = r.biz

\* AccountUsable on the locked row.
Usable(H) == \A h \in H : status[h] = "active"

\* Fault: the balance is looked at before the amount is taken.
CoversAnything(h, n) == avail[h] >= 0 \/ OverdraftAllowed \/ h \in SystemHolders

\* The balance check of Debit, Transfer and Reverse: system subjects may
\* overdraw, users only if the asset says so.
Covers(h, n) == avail[h] >= n \/ OverdraftAllowed \/ h \in SystemHolders

\* entries.ListByBizNo, then the voucher of the first entry it lists.
IsFirst(i, b) ==
    /\ journal[i].biz = b
    /\ \A j \in DOMAIN journal : journal[j].biz = b => i <= j

-----------------------------------------------------------------------------
(* First phase: what a command reads before it locks anything.  A request   *)
(* whose key is recorded is answered from the record (or refused) and does  *)
(* not get further.                                                         *)

Begin(c, r, o, i) ==
    /\ call[c] = Idle
    /\ ~KeyTaken(r)
    /\ Len(journal) < MaxPostings
    /\ call' = [call EXCEPT ![c] = [req |-> r, order |-> o, orig |-> i]]
    /\ UNCHANGED <<avail, frozen, status, freeze, idem, journal>>

BeginPosting(c, r) ==
    /\ r.cmd \in {"Credit", "Debit", "Freeze", "Transfer"}
    /\ Begin(c, r, NoOrder, 0)

BeginSettle(c, r) ==
    /\ r.cmd \in {"Capture", "Release"}
    /\ freeze[r.ref].status = "frozen"
    /\ Begin(c, r, freeze[r.ref], 0)

\* Only the voucher of a Reverse is refused: what has been reversed already is
\* not looked up.
BeginReverse(c, r) ==
    /\ r.cmd = "Reverse"
    /\ \E i \in DOMAIN journal :
          /\ IsFirst(i, r.ref)
          /\ journal[i].cmd # "Reverse"
          /\ Begin(c, r, IF journal[i].cmd = "Freeze" THEN freeze[journal[i].order]
                         ELSE NoOrder, i)

-----------------------------------------------------------------------------
(* Second phase: lock, check, write, commit. *)

Executing(c, cmd) == call[c] # Idle /\ call[c].req.cmd = cmd

\* Fault: the idempotency table has lost its unique index.
RecordTwice(c, legs, order, unfreeze) ==
    LET r == call[c].req
    IN  /\ idem' = idem \cup {HashOf(r)}
        /\ journal' = Append(journal,
              [cmd |-> r.cmd, biz |-> r.biz, to |-> r.to, legs |-> legs,
               order |-> order, unfreeze |-> unfreeze, orig |-> call[c].orig])
        /\ call' = [call EXCEPT ![c] = Idle]
        /\ UNCHANGED status

\* writeJournal, writeEntry and saveIdempotency, then the commit.
Record(c, legs, order, unfreeze) ==
    LET r == call[c].req
    IN  /\ ~KeyTaken(r)
        /\ idem' = idem \cup {HashOf(r)}
        /\ journal' = Append(journal,
              [cmd |-> r.cmd, biz |-> r.biz, to |-> r.to, legs |-> legs,
               order |-> order, unfreeze |-> unfreeze, orig |-> call[c].orig])
        /\ call' = [call EXCEPT ![c] = Idle]
        /\ UNCHANGED status

Leg(h, n) == [x \in Holders |-> IF x = h THEN n ELSE 0]

\* Credit, Debit and Transfer take an amount from one account and give it to
\* another.  Two copies of one row fail the version check of UpdateBalances.
Move(c, from, to) ==
    LET n == call[c].req.amount
    IN  /\ from # to
        /\ Usable({from, to})
        /\ Covers(from, n)
        /\ avail' = [avail EXCEPT ![from] = @ - n, ![to] = @ + n]
        /\ Record(c, [Leg(to, n) EXCEPT ![from] = -n], NoBiz, FALSE)
        /\ UNCHANGED <<frozen, freeze>>

PostCredit(c) ==
    /\ Executing(c, "Credit")
    /\ Move(c, Issuance, call[c].req.holder)

PostDebit(c) ==
    /\ Executing(c, "Debit")
    /\ Move(c, call[c].req.holder, Sink)

PostTransfer(c) ==
    /\ Executing(c, "Transfer")
    /\ Move(c, call[c].req.holder, call[c].req.to)

PostFreeze(c) ==
    LET r == call[c].req
        h == r.holder
    IN  /\ Executing(c, "Freeze")
        /\ FreezeSupported
        /\ Usable({h})
        /\ avail[h] >= r.amount \/ OverdraftAllowed
        /\ freeze[r.biz].status = "none"
        /\ avail' = [avail EXCEPT ![h] = @ - r.amount]
        /\ frozen' = [frozen EXCEPT ![h] = @ + r.amount]
        /\ freeze' = [freeze EXCEPT ![r.biz] =
                         [status |-> "frozen", amount |-> r.amount, holder |-> h]]
        /\ Record(c, Leg(h, -r.amount), r.biz, FALSE)

\* Fault: a Capture or Release does not ask whether the account is disabled.
SettlesDisabled(c, cmd) ==
    /\ Executing(c, cmd)
    /\ frozen[call[c].order.holder] >= call[c].order.amount

\* What Capture and Release check once the account is locked: the order is the
\* one read in the first phase, the balance is the current one.
Settles(c, cmd) ==
    /\ Executing(c, cmd)
    /\ Usable({call[c].order.holder})
    /\ frozen[call[c].order.holder] >= call[c].order.amount

\* Fault: UpdateStatus without its condition on the current status.
CloseOrderAgain(b, to) == freeze' = [freeze EXCEPT ![b].status = to]

\* FreezeRepo.UpdateStatus: WHERE freeze_id = ? AND status = 'frozen'.
CloseOrder(b, to) ==
    /\ freeze[b].status = "frozen"
    /\ freeze' = [freeze EXCEPT ![b].status = to]

\* Fault: a full capture writes a status of its own.
PostFullCaptureSettled(c) ==
    LET r == call[c].req
        o == call[c].order
    IN  /\ Settles(c, "Capture")
        /\ r.amount \in {0, o.amount}
        /\ frozen' = [frozen EXCEPT ![o.holder] = @ - o.amount]
        /\ CloseOrder(r.ref, "settled")
        /\ Record(c, Leg(o.holder, -o.amount), r.ref, FALSE)
        /\ UNCHANGED avail

PostFullCapture(c) ==
    LET r == call[c].req
        o == call[c].order
    IN  /\ Settles(c, "Capture")
        /\ r.amount \in {0, o.amount}
        /\ frozen' = [frozen EXCEPT ![o.holder] = @ - o.amount]
        /\ CloseOrder(r.ref, "captured")
        /\ Record(c, Leg(o.holder, -o.amount), r.ref, FALSE)
        /\ UNCHANGED avail

\* FreezeRepo.Update writes the amount and the status of the copy read in the
\* first phase, WHERE freeze_id = ? alone.
ShrinkOrder(b, o, n) ==
    freeze' = [freeze EXCEPT ![b].amount = o.amount - n, ![b].status = o.status]

PostPartialCapture(c) ==
    LET r == call[c].req
        o == call[c].order
    IN  /\ Settles(c, "Capture")
        /\ r.amount > 0
        /\ r.amount < o.amount
        /\ frozen' = [frozen EXCEPT ![o.holder] = @ - r.amount]
        /\ ShrinkOrder(r.ref, o, r.amount)
        /\ Record(c, Leg(o.holder, -r.amount), r.ref, FALSE)
        /\ UNCHANGED avail

\* Fault: Release thaws the amount without giving it back.
PostReleaseLost(c) ==
    LET r == call[c].req
        o == call[c].order
    IN  /\ Settles(c, "Release")
        /\ frozen' = [frozen EXCEPT ![o.holder] = @ - o.amount]
        /\ CloseOrder(r.ref, "released")
        /\ Record(c, Leg(o.holder, o.amount), r.ref, FALSE)
        /\ UNCHANGED avail

\* Release ignores the amount of the request.
PostRelease(c) ==
    LET r == call[c].req
        o == call[c].order
    IN  /\ Settles(c, "Release")
        /\ frozen' = [frozen EXCEPT ![o.holder] = @ - o.amount]
        /\ avail' = [avail EXCEPT ![o.holder] = @ + o.amount]
        /\ CloseOrder(r.ref, "released")
        /\ Record(c, Leg(o.holder, o.amount), r.ref, FALSE)

Undoing(c) == journal[call[c].orig]

\* Reverse of a Freeze: the order as read must be frozen, or there is nothing
\* left to undo and the command fails.
PostUnfreeze(c) ==
    LET o == call[c].order
        b == Undoing(c).order
    IN  /\ Executing(c, "Reverse")
        /\ Undoing(c).cmd = "Freeze"
        /\ o.status = "frozen"
        /\ Usable({o.holder})
        /\ frozen[o.holder] >= o.amount
        /\ frozen' = [frozen EXCEPT ![o.holder] = @ - o.amount]
        /\ avail' = [avail EXCEPT ![o.holder] = @ + o.amount]
        /\ CloseOrder(b, "released")
        /\ Record(c, Leg(o.holder, o.amount), b, TRUE)

\* Fault: the direction of the reversing entries is not turned round.
PostReverseSameWay(c) ==
    LET legs == Undoing(c).legs
        touched == {h \in Holders : legs[h] # 0}
    IN  /\ Executing(c, "Reverse")
        /\ Undoing(c).cmd # "Freeze"
        /\ Usable(touched)
        /\ \A h \in touched : legs[h] > 0 => Covers(h, legs[h])
        /\ avail' = [h \in Holders |-> avail[h] - legs[h]]
        /\ Record(c, legs, Undoing(c).order, FALSE)
        /\ UNCHANGED <<frozen, freeze>>

\* Reverse of any other voucher: an opposite entry for each of its entries, on
\* the available balance whatever the original command did.
PostReverse(c) ==
    LET legs == Undoing(c).legs
        touched == {h \in Holders : legs[h] # 0}
    IN  /\ Executing(c, "Reverse")
        /\ Undoing(c).cmd # "Freeze"
        /\ Usable(touched)
        /\ \A h \in touched : legs[h] > 0 => Covers(h, legs[h])
        /\ avail' = [h \in Holders |-> avail[h] - legs[h]]
        /\ Record(c, [h \in Holders |-> -legs[h]], Undoing(c).order, FALSE)
        /\ UNCHANGED <<frozen, freeze>>

\* A failed check, a deadlock victim, a lost connection or a crash before the
\* commit: the transaction leaves no trace.
Rollback(c) ==
    /\ call[c] # Idle
    /\ call' = [call EXCEPT ![c] = Idle]
    /\ UNCHANGED <<avail, frozen, status, freeze, idem, journal>>

\* AccountService.SetStatus, which takes no part in the account's version.
SetStatus(h, s) ==
    /\ h \in Disableable
    /\ status' = [status EXCEPT ![h] = s]
    /\ UNCHANGED <<avail, frozen, freeze, idem, journal, call>>

-----------------------------------------------------------------------------

Init ==
    /\ avail = [h \in Holders |-> 0]
    /\ frozen = [h \in Holders |-> 0]
    /\ status = [h \in Holders |-> "active"]
    /\ freeze = [b \in BizNos |-> NoOrder]
    /\ idem = {}
    /\ journal = <<>>
    /\ call = [c \in Handlers |-> Idle]

Next ==
    \/ \E c \in Handlers, r \in Menu :
           BeginPosting(c, r) \/ BeginSettle(c, r) \/ BeginReverse(c, r)
    \/ \E c \in Handlers :
           \/ PostCredit(c) \/ PostDebit(c) \/ PostTransfer(c) \/ PostFreeze(c)
           \/ PostFullCapture(c) \/ PostPartialCapture(c) \/ PostRelease(c)
           \/ PostUnfreeze(c) \/ PostReverse(c)
           \/ Rollback(c)
    \/ \E h \in Disableable, s \in {"active", "disabled"} : SetStatus(h, s)

Spec == Init /\ [][Next]_vars

-----------------------------------------------------------------------------
(* Properties *)

TypeOK ==
    /\ avail \in [Holders -> Int]
    /\ frozen \in [Holders -> Int]
    /\ status \in [Holders -> {"active", "disabled"}]
    /\ freeze \in [BizNos -> FreezeOrder]
    /\ idem \subseteq HashKey
    /\ journal \in Seq(Posting)
    /\ call \in [Handlers -> Call \cup {Idle}]

\* No interleaving of commands overdraws a user or drives a frozen balance
\* below zero, although balances are checked against orders and postings read
\* before the account was locked (README: idempotency key, row lock, version).
NonNegative ==
    \A u \in Users : (OverdraftAllowed \/ avail[u] >= 0) /\ frozen[u] >= 0

\* A command takes effect exactly once per (biz_no, command): concurrent
\* retries that both miss the record before either commits post one voucher,
\* and a voucher and its idempotency record are never there without the other.
ExactlyOnce ==
    /\ \A i, j \in DOMAIN journal :
          journal[i].cmd = journal[j].cmd /\ journal[i].biz = journal[j].biz => i = j
    /\ \A i \in DOMAIN journal : KeyTaken(journal[i])
    /\ \A k \in idem : \E i \in DOMAIN journal :
          journal[i].cmd = k.cmd /\ journal[i].biz = k.biz

\* A freeze order follows the state diagram of docs/05 7.4: it is created
\* frozen, captured and released are final, and its amount only shrinks.
OrderLifecycle ==
    [][\A b \in BizNos :
          /\ freeze[b].status \in {"captured", "released"} => freeze'[b] = freeze[b]
          /\ freeze[b].status = "none" => freeze'[b].status \in {"none", "frozen"}
          /\ freeze[b].status = "frozen" =>
                freeze'[b].status # "none" /\ freeze'[b].amount <= freeze[b].amount]_vars

\* A command that read its order, or its original voucher, before an operator
\* disabled the account does not change the disabled account's balances.
DisabledUntouched ==
    [][\A h \in Holders : status[h] = "disabled" =>
          avail'[h] = avail[h] /\ frozen'[h] = frozen[h]]_vars
=============================================================================
