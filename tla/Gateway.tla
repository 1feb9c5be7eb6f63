------------------------------- MODULE Gateway -------------------------------
(***************************************************************************)
(* A command on its way from a client through the gateway (signature, stamp *)
(* and nonce, rate per second) and the API's handler (tenant, access rules)  *)
(* to the books, with the client's retries, copies the network delivers      *)
(* twice, answers that are lost or late, and operators who disable tenants   *)
(* and replace the access rules meanwhile.  Time is counted in seconds.      *)
(***************************************************************************)
EXTENDS Integers, FiniteSets

CONSTANTS
    Call,         \* commands, each with a biz_no of its own
    Client, Tenant, None,
    After,        \* [Call -> SUBSET Call]: the calls that are over before it begins
    By,           \* [Call -> Client]: X-Client-Id
    Source,       \* [Call -> Client]: source_system of the body
    Parses,       \* calls whose body is one JSON value to its end.  Of the others the gateway
                  \* can read no field, and the API reads the first value
    Header,       \* [Call -> Tenant or None]: X-Tenant-Id
    Body,         \* [Call -> Tenant or None]: tenant_id of the body
    Signed,       \* [Call -> Tenant or None]: the tenant its signature covers
    Version,      \* [Call -> "v1" or "v2"]: V1 covers neither tenant nor nonce
    Tries,        \* [Call -> Nat]: retries + 1
    Granted,      \* [Client -> SUBSET Tenant]: its tenants in the gateway's configuration
    GatewayDefault, ApiDefault,   \* default_tenant of either process
    Limiter,      \* the global limiter and those of clients with a rate of their own
    LimiterOf,    \* [Client -> Limiter]
    Rps,          \* [Limiter -> Nat]
    Window,       \* max_skew_seconds
    Drift,        \* [Client -> SUBSET Int]: their clocks, relative to the gateway's
    Copied,       \* calls whose messages may be delivered twice
    Disableable,  \* tenants an operator may disable
    InitRules,    \* the clients the access rules allow at first,
    RuleSets,     \* and after a reload
    MaxClock, MaxFaults, MaxCopies, MaxChanges     \* bounds

ASSUME CallAssumption ==
    /\ After \in [Call -> SUBSET Call]
    /\ By \in [Call -> Client] /\ Source \in [Call -> Client] /\ Version \in [Call -> {"v1", "v2"}]
    /\ None \notin Tenant /\ Parses \subseteq Call
    /\ Header \in [Call -> Tenant \cup {None}] /\ Body \in [Call -> Tenant \cup {None}]
    /\ Signed \in [Call -> Tenant \cup {None}] /\ Tries \in [Call -> Nat \ {0}]
ASSUME ConfigAssumption ==
    /\ Granted \in [Client -> SUBSET Tenant] /\ GatewayDefault \in Tenant /\ ApiDefault \in Tenant
    /\ LimiterOf \in [Client -> Limiter] /\ Rps \in [Limiter -> Nat \ {0}]
    /\ Window \in Nat /\ Drift \in [Client -> SUBSET Int] /\ InitRules \subseteq Client /\ RuleSets \subseteq SUBSET Client
    /\ Copied \subseteq Call /\ Disableable \subseteq Tenant
    /\ MaxClock \in Nat /\ MaxFaults \in Nat /\ MaxCopies \in Nat /\ MaxChanges \in Nat

Never == -1
Second == 0 .. MaxClock
\* A message is one try of a call, with a stamp and a nonce of its own; a request is a
\* message as the gateway got it, the first time or the second.
Message == UNION {{c} \X (1 .. Tries[c]) : c \in Call}
Request == UNION {{c} \X (1 .. Tries[c]) \X {1, 2} : c \in Call}
Msg(r) == <<r[1], r[2]>>

VARIABLES
    clock,     \* the gateway's
    call,      \* call[c]: idle, waiting for its n-th try, or over, and what the caller was told
    stamp,     \* stamp[m]: X-Timestamp, or Never
    req,       \* req[r]: the place of a request, and the second the limiter read
    seen,      \* seen[m]: when the nonce was stored, or Never
    passed,    \* history, passed[m]: how often the nonce was let through, and when last
    bucket,    \* bucket[l]: the second that is counted, and the count
    admitted,  \* history, admitted[l][s]: requests let through in second s
    spare,     \* history, spare[l]: what late requests added to the rates of all seconds
    active,    \* tenants not disabled
    rules,     \* clients the access rules allow
    posted,    \* posted[c]: the tenants in whose books the command is
    faults, copies, changes

vars == <<clock, call, stamp, req, seen, passed, bucket, admitted, spare, active, rules, posted,
          faults, copies, changes>>
sender == <<call, stamp>>
nonces == <<seen, passed>>
rate == <<bucket, admitted, spare>>
upstream == <<active, rules, posted>>
bounds == <<faults, copies, changes>>

----------------------------------------------------------------------------
(* What the gateway and the API decide by the call alone.                   *)

\* The gateway: the header, else the body if it can read it, else its default.
GatewayTenant(c) ==
    IF Header[c] # None THEN Header[c]
    ELSE IF c \in Parses /\ Body[c] # None THEN Body[c] ELSE GatewayDefault

\* The API: the body, else the header, which the gateway has set, else its own default.
ApiTenantBare(c) == IF Body[c] # None THEN Body[c] ELSE IF Header[c] # None THEN Header[c] ELSE ApiDefault
                    \* Fault: the gateway does not set the header
ApiTenant(c) == IF Body[c] # None THEN Body[c] ELSE GatewayTenant(c)

\* What the body says is held against the caller and the header only if it could be read.
Agrees(c) ==
    c \in Parses => Source[c] = By[c] /\ (Header[c] # None /\ Body[c] # None => Header[c] = Body[c])
Grants(c) == Granted[By[c]] = {} \/ GatewayTenant(c) \in Granted[By[c]]
Verifies(c) == Version[c] = "v2" => Signed[c] = GatewayTenant(c)
Authentic(c) == Agrees(c) /\ Grants(c) /\ Verifies(c)

InWindow(m) == clock - stamp[m] <= Window /\ stamp[m] - clock <= Window

----------------------------------------------------------------------------
(* Clients.                                                                 *)

At(place) == [at |-> place, now |-> Never]

\* do: only a bad gateway is tried again, and only so often.
Retryable(code) == code = "bad_gateway"
HeardAnyTry(c, code) ==                              \* Fault: the number of retries is not looked at
    [at |-> IF Retryable(code) THEN "idle" ELSE "over", try |-> call[c].try,
     told |-> IF Retryable(code) THEN "none" ELSE code]
HeardSameNonce(c, code) ==                           \* Fault: one stamp and nonce for all tries
    IF Retryable(code) /\ call[c].try < Tries[c]
    THEN [at |-> "idle", try |-> call[c].try - 1, told |-> "none"]
    ELSE [at |-> "over", try |-> call[c].try, told |-> code]
Heard(c, code) ==
    IF Retryable(code) /\ call[c].try < Tries[c]
    THEN [at |-> "idle", try |-> call[c].try, told |-> "none"]
    ELSE [at |-> "over", try |-> call[c].try, told |-> code]

Awaited(r) == r[3] = 1 /\ call[r[1]].at = "waiting" /\ call[r[1]].try = r[2]

\* The request ends, and its caller hears the answer if it still waits for it; the answer
\* to a copy goes nowhere.
End(r, code) ==
    /\ req' = [req EXCEPT ![r] = At("over")]
    /\ call' = IF Awaited(r) THEN [call EXCEPT ![r[1]] = Heard(r[1], code)] ELSE call
Goes(r, place) == req' = [req EXCEPT ![r] = At(place)] /\ UNCHANGED call

\* over, up to the lock: the limiter's second is read before it.
Queues(r) == req' = [req EXCEPT ![r] = [at |-> "lock", now |-> clock]] /\ UNCHANGED call

\* roundTrip: every try is stamped and signed anew, with a fresh nonce.
Send(c) ==
    /\ call[c].at = "idle" /\ call[c].try < Tries[c] /\ \A d \in After[c] : call[d].at = "over"
    /\ LET n == call[c].try + 1 IN
       /\ call' = [call EXCEPT ![c] = [at |-> "waiting", try |-> n, told |-> "none"]]
       /\ \E d \in Drift[By[c]] : stamp' = [stamp EXCEPT ![<<c, n>>] = clock + d]
       /\ req' = [req EXCEPT ![<<c, n, 1>>] = At("net")]
    /\ UNCHANGED <<clock>> /\ UNCHANGED nonces /\ UNCHANGED rate /\ UNCHANGED upstream /\ UNCHANGED bounds

\* The network delivers the message a second time.
Copy(r) ==
    /\ r[1] \in Copied /\ r[3] = 2 /\ req[r].at = "unsent" /\ req[<<r[1], r[2], 1>>].at # "unsent"
    /\ copies < MaxCopies
    /\ copies' = copies + 1
    /\ req' = [req EXCEPT ![r] = At("net")]
    /\ UNCHANGED <<clock, faults, changes>> /\ UNCHANGED sender /\ UNCHANGED nonces
    /\ UNCHANGED rate /\ UNCHANGED upstream

\* The client's timeout, or a connection that breaks: no status, and no retry.
GiveUp(c) ==
    /\ call[c].at = "waiting" /\ faults < MaxFaults
    /\ faults' = faults + 1
    /\ call' = [call EXCEPT ![c] = [at |-> "over", try |-> @.try, told |-> "none"]]
    /\ UNCHANGED <<clock, stamp, req, copies, changes>> /\ UNCHANGED nonces /\ UNCHANGED rate
    /\ UNCHANGED upstream

----------------------------------------------------------------------------
(* The gateway.                                                             *)

\* auth up to the nonce.  The stamp is looked at first, before the body is read.
Arrive(r) ==
    /\ req[r].at = "net"
    /\ CASE ~InWindow(Msg(r)) -> End(r, "skew")
         [] InWindow(Msg(r)) /\ ~Authentic(r[1]) -> End(r, "denied")
         [] InWindow(Msg(r)) /\ Authentic(r[1]) ->
              IF Version[r[1]] = "v2" THEN Goes(r, "consume") ELSE Queues(r)
    /\ UNCHANGED <<clock>> /\ UNCHANGED stamp /\ UNCHANGED nonces /\ UNCHANGED rate
    /\ UNCHANGED upstream /\ UNCHANGED bounds

\* NonceRepo.Consume: a unique insert, after which older nonces are deleted (or not: the
\* result is ignored).
OutdatedEarly(m) == seen[m] # Never /\ seen[m] + Window <= clock        \* Fault: <= for <
Outdated(m) == seen[m] # Never /\ seen[m] + Window < clock
Stored(m) == [seen EXCEPT ![m] = clock]
Pruned(f) == [m \in Message |-> IF Outdated(m) THEN Never ELSE f[m]]

Consume(r) ==
    /\ req[r].at = "consume"
    /\ \/ /\ seen[Msg(r)] # Never
          /\ End(r, "replay")
          /\ UNCHANGED nonces
       \/ /\ seen[Msg(r)] = Never
          /\ \E f \in {Stored(Msg(r)), Pruned(Stored(Msg(r)))} : seen' = f
          /\ passed' = [passed EXCEPT ![Msg(r)] = [n |-> @.n + 1, at |-> clock]]
          /\ Queues(r)
    /\ UNCHANGED <<clock>> /\ UNCHANGED stamp /\ UNCHANGED rate /\ UNCHANGED upstream /\ UNCHANGED bounds

\* The insert fails, with or without having been made.
ConsumeFails(r) ==
    /\ req[r].at = "consume" /\ seen[Msg(r)] = Never /\ faults < MaxFaults
    /\ faults' = faults + 1
    /\ \E f \in {seen, Stored(Msg(r))} : seen' = f
    /\ End(r, "error")
    /\ UNCHANGED <<clock, passed, copies, changes>> /\ UNCHANGED stamp /\ UNCHANGED rate /\ UNCHANGED upstream

\* A request with another second than the bucket's empties the bucket, be it a later
\* second or an earlier one.
OverByOne(l, n) == n > Rps[l] + 1                            \* Fault: one too many
Over(l, n) == n > Rps[l]
CountOf(l, now) == IF bucket[l].slot # now THEN 1 ELSE bucket[l].count + 1

Count(r) ==
    /\ req[r].at = "lock"
    /\ LET l == LimiterOf[By[r[1]]]
           s == req[r].now
           n == CountOf(l, s)
       IN /\ bucket' = [bucket EXCEPT ![l] = [slot |-> s, count |-> n]]
          /\ spare' = [spare EXCEPT ![l] = IF s < bucket[l].slot THEN @ + Rps[l] ELSE @]
          /\ \/ /\ Over(l, n)
                /\ End(r, "limited")
                /\ UNCHANGED admitted
             \/ /\ ~Over(l, n)
                /\ Goes(r, "ensure")
                /\ admitted' = [admitted EXCEPT ![l] = [admitted[l] EXCEPT ![s] = admitted[l][s] + 1]]
    /\ UNCHANGED <<clock>> /\ UNCHANGED stamp /\ UNCHANGED nonces /\ UNCHANGED upstream /\ UNCHANGED bounds

----------------------------------------------------------------------------
(* The API's handler, behind the proxy.                                     *)

\* TenantService.Ensure.
Ensure(r) ==
    /\ req[r].at = "ensure"
    /\ \/ ApiTenant(r[1]) \in active /\ Goes(r, "check")
       \/ ApiTenant(r[1]) \notin active /\ End(r, "disabled")
    /\ UNCHANGED <<clock>> /\ UNCHANGED stamp /\ UNCHANGED nonces /\ UNCHANGED rate
    /\ UNCHANGED upstream /\ UNCHANGED bounds

\* ACL.Check, on what the rules are now.
Check(r) ==
    /\ req[r].at = "check"
    /\ \/ Source[r[1]] \in rules /\ Goes(r, "book")
       \/ Source[r[1]] \notin rules /\ End(r, "forbidden")
    /\ UNCHANGED <<clock>> /\ UNCHANGED stamp /\ UNCHANGED nonces /\ UNCHANGED rate
    /\ UNCHANGED upstream /\ UNCHANGED bounds

\* The kernel's transaction: posted once per tenant, source and biz_no, else replayed
\* (Ledger!ExactlyOnce).  The answer may get lost, which the proxy makes a bad gateway, and
\* so may the database's word that it has committed, which is an internal error.
Breaks == {"bad_gateway", "error"}
Book(r) ==
    /\ req[r].at = "book"
    /\ posted' = [posted EXCEPT ![r[1]] = @ \cup {ApiTenant(r[1])}]
    /\ \/ End(r, "ok") /\ UNCHANGED faults
       \/ faults < MaxFaults /\ faults' = faults + 1 /\ \E code \in Breaks : End(r, code)
    /\ UNCHANGED <<clock, active, rules, copies, changes>> /\ UNCHANGED stamp
    /\ UNCHANGED nonces /\ UNCHANGED rate

\* The API cannot be reached, dies with the request, or its database fails.
Unreachable(r) ==
    /\ req[r].at \in {"ensure", "check", "book"} /\ faults < MaxFaults
    /\ faults' = faults + 1
    /\ \E code \in Breaks : End(r, code)
    /\ UNCHANGED <<clock, copies, changes>> /\ UNCHANGED stamp /\ UNCHANGED nonces
    /\ UNCHANGED rate /\ UNCHANGED upstream

\* Operators: TenantService.SetStatus, and ACL.Replace at a reload.
SetStatus(t) ==
    /\ changes < MaxChanges /\ changes' = changes + 1
    /\ active' = IF t \in active THEN active \ {t} ELSE active \cup {t}
    /\ UNCHANGED <<clock, req, rules, posted, faults, copies>> /\ UNCHANGED sender
    /\ UNCHANGED nonces /\ UNCHANGED rate
Replace ==
    /\ changes < MaxChanges /\ changes' = changes + 1
    /\ \E R \in RuleSets : rules' = R
    /\ UNCHANGED <<clock, req, active, posted, faults, copies>> /\ UNCHANGED sender
    /\ UNCHANGED nonces /\ UNCHANGED rate

Tick ==
    /\ clock < MaxClock /\ clock' = clock + 1
    /\ UNCHANGED <<req>> /\ UNCHANGED sender /\ UNCHANGED nonces /\ UNCHANGED rate
    /\ UNCHANGED upstream /\ UNCHANGED bounds

----------------------------------------------------------------------------
Init ==
    /\ clock = 0
    /\ call = [c \in Call |-> [at |-> "idle", try |-> 0, told |-> "none"]]
    /\ stamp = [m \in Message |-> 0]
    /\ req = [r \in Request |-> At("unsent")]
    /\ seen = [m \in Message |-> Never]
    /\ passed = [m \in Message |-> [n |-> 0, at |-> 0]]
    /\ bucket = [l \in Limiter |-> [slot |-> Never, count |-> 0]]
    /\ admitted = [l \in Limiter |-> [s \in Second |-> 0]]
    /\ spare = [l \in Limiter |-> 0]
    /\ active = Tenant /\ rules = InitRules
    /\ posted = [c \in Call |-> {}]
    /\ faults = 0 /\ copies = 0 /\ changes = 0

Next ==
    \/ \E c \in Call : Send(c) \/ GiveUp(c)
    \/ \E r \in Request :
         \/ Copy(r) \/ Arrive(r) \/ Consume(r) \/ ConsumeFails(r)
         \/ Count(r) \/ Ensure(r) \/ Check(r) \/ Book(r) \/ Unreachable(r)
    \/ \E t \in Disableable : SetStatus(t)
    \/ Replace \/ Tick

Spec == Init /\ [][Next]_vars

----------------------------------------------------------------------------
(* Properties.                                                              *)

Places == {"unsent", "net", "consume", "lock", "ensure", "check", "book", "over"}
Codes == {"none", "skew", "denied", "replay", "error", "limited", "disabled", "forbidden", "bad_gateway", "ok"}
Uncertain == {"none", "bad_gateway", "error"}

\* Types.  A request holds a second read from the gateway's clock exactly while it waits
\* for the limiter's lock, so what the lock finds can be older than the clock; and do leaves
\* no call without an answer: one that is to be tried again has a try left.
TypeOK ==
    /\ clock \in Second
    /\ call \in [Call -> [at : {"idle", "waiting", "over"}, try : Nat, told : Codes]]
    /\ \A c \in Call : call[c].at = "idle" => call[c].try < Tries[c]
    /\ stamp \in [Message -> Int]
    /\ req \in [Request -> [at : Places, now : {Never} \cup Second]]
    /\ \A r \in Request : IF req[r].at = "lock" THEN req[r].now \in 0 .. clock ELSE req[r].now = Never
    /\ seen \in [Message -> {Never} \cup Second]
    /\ \A m \in Message : seen[m] <= clock
    /\ passed \in [Message -> [n : Nat, at : Second]]
    /\ bucket \in [Limiter -> [slot : {Never} \cup Second, count : Nat]]
    /\ \A l \in Limiter : bucket[l].slot <= clock
    /\ admitted \in [Limiter -> [Second -> Nat]] /\ spare \in [Limiter -> Nat]
    /\ active \subseteq Tenant /\ rules \subseteq Client
    /\ posted \in [Call -> SUBSET Tenant]
    /\ faults \in 0 .. MaxFaults /\ copies \in 0 .. MaxCopies /\ changes \in 0 .. MaxChanges

\* auth, NonceRepo: a nonce that was let through is let through again only once more than
\* the window has gone by since, however long a copy of the message waits between the look
\* at its stamp and the insert.  By then a stamp that was not ahead of the gateway's clock
\* is no longer accepted.  A stamp that was ahead outlives its nonce: it is accepted until
\* stamp + Window, and a copy that comes between the two is let through a second time.
NonceHeld ==
    [][\A m \in Message : passed'[m].n > passed[m].n /\ passed[m].n > 0 =>
           /\ passed'[m].at > passed[m].at + Window
           /\ InWindow(m) => stamp[m] > passed[m].at]_vars

\* slotLimiter: of the requests that came in one second the limiter lets no more than its
\* rate through, plus its rate once more for every request that read the second before and
\* got the lock after another had begun the next one.
RateKept == \A l \in Limiter, s \in Second : admitted[l][s] <= Rps[l] + spare[l]

\* auth, tenantID, Ensure: a command whose body the gateway could read is posted in the one
\* tenant the gateway took it to be for, which its client was granted, and under the name
\* of the client that signed it.  Of a body it could not read, that holds for the tenant if
\* the body names none; else the command is posted in the tenant and under the name that
\* the body gives, which nothing has held against the caller.
PostedAsMeant ==
    \A c \in Call : posted[c] # {} =>
        /\ Granted[By[c]] = {} \/ GatewayTenant(c) \in Granted[By[c]]
        /\ c \in Parses => Source[c] = By[c]
        /\ c \in Parses \/ Body[c] = None => posted[c] = {GatewayTenant(c)}

\* do, auth, over, Ensure, Check: what the caller is told is so.  Accepted means posted; and a
\* refusal of the first try, of a message that was not copied, means that the command is
\* not in the books and will not be.  (Of a later try it does not: the first may have been
\* posted and its answer lost, and the rules replaced since.)
ToldTrue ==
    \A c \in Call : call[c].at = "over" =>
        /\ call[c].told = "ok" => posted[c] # {}
        /\ call[c].told \notin Uncertain \cup {"ok"} /\ call[c].try = 1
              /\ req[<<c, 1, 2>>].at = "unsent" => posted[c] = {}
=============================================================================
