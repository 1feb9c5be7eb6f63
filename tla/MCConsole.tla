------------------------------ MODULE MCConsole ------------------------------
(* One operator assigns the difference or reloads the configuration, while    *)
(* another closes it, with a role and a tenant that may or may not.           *)
EXTENDS Console

CONSTANTS o1, o2, d1, t1, t2, none

AskFor(kind, role, t) == [kind |-> kind, role |-> role, tenant |-> t, diff |-> d1]
MCAsk == [r \in {o1, o2} |->
    IF r = o1
    THEN {AskFor("assign", "correction", t1), AskFor("reload", "jobs", t1)}
    ELSE {AskFor("resolve", none, t1), AskFor("resolve", "jobs", t1), AskFor("resolve", "correction", t2)}]
MCOwner == [d \in {d1} |-> t1]
=============================================================================
