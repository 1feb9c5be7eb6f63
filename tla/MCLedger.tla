----------------------------- MODULE MCLedger -----------------------------
(***************************************************************************)
(* Small instances of LedgerTies: the request menus of the runs.           *)
(***************************************************************************)
EXTENDS LedgerTies, TLC

CONSTANTS u1, u2, c1, c2, f1, f2, k1, k2, l1, t1, d1, v1, v2

Req(cmd, biz, holder, to, amount, ref) ==
    [cmd |-> cmd, biz |-> biz, holder |-> holder, to |-> to,
     amount |-> amount, ref |-> ref]

CreditReq(b, u, n) == Req("Credit", b, u, Sink, n, NoBiz)
FreezeReq(b, u, n) == Req("Freeze", b, u, Sink, n, NoBiz)
CaptureReq(b, u, n, f) == Req("Capture", b, u, Sink, n, f)
ReleaseReq(b, u, f) == Req("Release", b, u, Sink, 0, f)
DebitReq(b, u, n) == Req("Debit", b, u, Sink, n, NoBiz)
TransferReq(b, u, to, n) == Req("Transfer", b, u, to, n, NoBiz)
ReverseReq(b, u, ref) == Req("Reverse", b, u, Sink, 0, ref)

\* The frozen balance exceeds either order, so that the check against the
\* balance alone does not stop a second settlement of one of them.
Seeded == {CreditReq(c1, u1, 4), FreezeReq(f1, u1, 2), FreezeReq(f2, u1, 2)}

\* Two freeze orders of one user: captured in full, released by the business
\* or by the expiry job (k2, its own biz_no), undone; then the capture undone.
SettleMenu == Seeded \cup
    {CaptureReq(k1, u1, 0, f1), ReleaseReq(l1, u1, f1), ReleaseReq(k2, u1, f1),
     CaptureReq(k2, u1, 0, f2), ReverseReq(v1, u1, f1), ReverseReq(v2, u1, k1),
     ReverseReq(t1, u1, l1)}

\* The same orders with partial captures of one of them.
PartialMenu == Seeded \cup
    {CaptureReq(k1, u1, 1, f1), CaptureReq(k2, u1, 1, f1), ReleaseReq(l1, u1, f1),
     ReverseReq(v1, u1, f1)}

\* Two users spending, paying one another and undoing it, and partial captures
\* of an order of one of them.
MoneyMenu ==
    {CreditReq(c1, u1, 2), CreditReq(c2, u2, 1), DebitReq(d1, u1, 1),
     TransferReq(t1, u1, u2, 2), TransferReq(f1, u2, Sink, 1), FreezeReq(f1, u2, 2),
     CaptureReq(k2, u2, 1, f1), CaptureReq(l1, u2, 1, f1),
     ReverseReq(v1, u1, t1), ReverseReq(v2, u1, c1), ReverseReq(k1, u2, v1)}

Handlers2 == Permutations(Handlers)
=============================================================================
