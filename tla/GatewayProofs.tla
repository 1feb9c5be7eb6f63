---------------------------- MODULE GatewayProofs ----------------------------
(* Proofs about Gateway: types, nonces, rates, and where commands are posted. *)
EXTENDS Gateway, TLAPS

----------------------------------------------------------------------------
(* Types.                                                                   *)

CallType ==
    /\ call \in [Call -> [at : {"idle", "waiting", "over"}, try : Nat, told : Codes]]
    /\ \A c \in Call : call[c].at = "idle" => call[c].try < Tries[c]
ReqType ==
    /\ req \in [Request -> [at : Places, now : {Never} \cup Second]]
    /\ \A r \in Request : IF req[r].at = "lock" THEN req[r].now \in 0 .. clock ELSE req[r].now = Never

\* What a request's names are made of.
LEMMA Names ==
    ASSUME NEW r \in Request
    PROVE  /\ r[1] \in Call /\ r[2] \in 1 .. Tries[r[1]] /\ r[3] \in {1, 2}
           /\ r = <<r[1], r[2], r[3]>> /\ Msg(r) \in Message
<1>1. PICK c \in Call : r \in {c} \X (1 .. Tries[c]) \X {1, 2}
  BY DEF Request
<1> QED BY <1>1 DEF Msg, Message

\* Whatever becomes of a request, its place and its caller keep their types.
LEMMA PlaceTypes ==
    ASSUME CallType, ReqType, clock \in Second, NEW r \in Request,
           \/ \E code \in Codes : End(r, code)
           \/ \E place \in Places \ {"lock"} : Goes(r, place)
           \/ Queues(r)
    PROVE  /\ CallType'
           /\ req' \in [Request -> [at : Places, now : {Never} \cup Second]]
           /\ \A q \in Request : IF req'[q].at = "lock" THEN req'[q].now \in 0 .. clock ELSE req'[q].now = Never
<1> USE CallAssumption, ConfigAssumption
<1>1. r[1] \in Call
  BY Names
<1>2. CASE \E code \in Codes : End(r, code)
  <2>1. PICK code \in Codes : End(r, code)
    BY <1>2
  <2>2. At("over") \in [at : Places, now : {Never} \cup Second] /\ At("over").at # "lock" /\ At("over").now = Never
    BY DEF At, Places
  <2>3. req' = [req EXCEPT ![r] = At("over")]
    BY <2>1 DEF End
  <2>4. /\ Heard(r[1], code) \in [at : {"idle", "waiting", "over"}, try : Nat, told : Codes]
        /\ Heard(r[1], code).at = "idle" => Heard(r[1], code).try < Tries[r[1]]
    BY <1>1 DEF Heard, CallType, Codes
  <2>5. CallType'
    <3>1. CASE Awaited(r)
      <4>1. call' = [call EXCEPT ![r[1]] = Heard(r[1], code)]
        BY <2>1, <3>1 DEF End
      <4> QED BY <4>1, <2>4, <1>1 DEF CallType
    <3>2. CASE ~Awaited(r)
      BY <2>1, <3>2 DEF End, CallType
    <3> QED BY <3>1, <3>2
  <2> QED BY <2>2, <2>3, <2>5 DEF ReqType
<1>3. CASE \E place \in Places \ {"lock"} : Goes(r, place)
  <2>1. PICK place \in Places \ {"lock"} : Goes(r, place)
    BY <1>3
  <2> QED BY <2>1 DEF Goes, At, CallType, ReqType
<1>4. CASE Queues(r)
  <2>1. [at |-> "lock", now |-> clock] \in [at : Places, now : {Never} \cup Second] /\ clock \in 0 .. clock
    BY DEF Places, Second
  <2> QED BY <1>4, <2>1 DEF Queues, CallType, ReqType
<1> QED BY <1>2, <1>3, <1>4

LEMMA InitTypes == Init => TypeOK
<1> SUFFICES ASSUME Init PROVE TypeOK
  OBVIOUS
<1> USE CallAssumption, ConfigAssumption
<1>1. clock \in Second /\ faults \in 0 .. MaxFaults /\ copies \in 0 .. MaxCopies /\ changes \in 0 .. MaxChanges
  BY DEF Init, Second
<1>2. CallType /\ ReqType
  BY DEF Init, CallType, ReqType, At, Places, Codes
<1>3. stamp \in [Message -> Int] /\ seen \in [Message -> {Never} \cup Second] /\ \A m \in Message : seen[m] <= clock
  BY DEF Init, Never
<1>4. /\ passed \in [Message -> [n : Nat, at : Second]]
      /\ bucket \in [Limiter -> [slot : {Never} \cup Second, count : Nat]]
      /\ \A l \in Limiter : bucket[l].slot <= clock
  BY DEF Init, Never, Second
<1>5. admitted \in [Limiter -> [Second -> Nat]] /\ spare \in [Limiter -> Nat]
  BY DEF Init
<1>6. active \subseteq Tenant /\ rules \subseteq Client /\ posted \in [Call -> SUBSET Tenant]
  BY DEF Init
<1> QED BY <1>1, <1>2, <1>3, <1>4, <1>5, <1>6 DEF TypeOK, CallType, ReqType

\* One row of the counts of admitted requests is replaced.
LEMMA Row ==
    ASSUME NEW F \in [Limiter -> [Second -> Nat]], NEW k \in Limiter, NEW f \in [Second -> Nat]
    PROVE  [F EXCEPT ![k] = f] \in [Limiter -> [Second -> Nat]]
<1> DEFINE N == [Second -> Nat]
<1>1. F \in [Limiter -> N] /\ f \in N
  OBVIOUS
<1>2. ASSUME NEW D, F \in [Limiter -> D], f \in D PROVE [F EXCEPT ![k] = f] \in [Limiter -> D]
  BY <1>2
<1> HIDE DEF N
<1>3. [F EXCEPT ![k] = f] \in [Limiter -> N]
  BY <1>1, <1>2
<1> QED BY <1>3 DEF N

\* What the limiter's lock protects.
LEMMA CountTypes ==
    ASSUME TypeOK, NEW r \in Request, Count(r)
    PROVE  /\ bucket' \in [Limiter -> [slot : {Never} \cup Second, count : Nat]]
           /\ \A l \in Limiter : bucket'[l].slot <= clock
           /\ admitted' \in [Limiter -> [Second -> Nat]] /\ spare' \in [Limiter -> Nat]
<1> USE CallAssumption, ConfigAssumption
<1> DEFINE l == LimiterOf[By[r[1]]]
           s == req[r].now
<1>1. r[1] \in Call /\ l \in Limiter
  BY Names
<1>2. s \in 0 .. clock /\ s \in Second /\ clock \in Second
  BY DEF Count, TypeOK, Second
<1>3. CountOf(l, s) \in Nat /\ Rps[l] \in Nat
  BY <1>1 DEF CountOf, TypeOK
<1>4. bucket' = [bucket EXCEPT ![l] = [slot |-> s, count |-> CountOf(l, s)]]
  BY DEF Count
<1>5. bucket' \in [Limiter -> [slot : {Never} \cup Second, count : Nat]] /\ \A k \in Limiter : bucket'[k].slot <= clock
  <2>1. [slot |-> s, count |-> CountOf(l, s)] \in [slot : {Never} \cup Second, count : Nat]
    BY <1>2, <1>3
  <2>2. bucket \in [Limiter -> [slot : {Never} \cup Second, count : Nat]] /\ \A k \in Limiter : bucket[k].slot <= clock
    BY DEF TypeOK
  <2>3. s <= clock
    BY <1>2 DEF Second
  <2>4. bucket'[l].slot = s /\ \A k \in Limiter \ {l} : bucket'[k] = bucket[k]
    BY <1>1, <1>4, <2>2
  <2> HIDE DEF l, s
  <2> QED BY <1>1, <1>4, <2>1, <2>2, <2>3, <2>4
<1>6. spare' = [spare EXCEPT ![l] = IF s < bucket[l].slot THEN spare[l] + Rps[l] ELSE spare[l]]
  BY <1>1 DEF Count, TypeOK
<1>7. spare' \in [Limiter -> Nat]
  BY <1>1, <1>3, <1>6 DEF TypeOK
<1>8. admitted' \in [Limiter -> [Second -> Nat]]
  <2>1. CASE admitted' = admitted
    BY <2>1 DEF TypeOK
  <2>2. CASE admitted' = [admitted EXCEPT ![l] = [admitted[l] EXCEPT ![s] = admitted[l][s] + 1]]
    <3>1. admitted[l] \in [Second -> Nat]
      BY <1>1 DEF TypeOK
    <3>2. [admitted[l] EXCEPT ![s] = admitted[l][s] + 1] \in [Second -> Nat]
      BY <3>1, <1>2
    <3>3. admitted \in [Limiter -> [Second -> Nat]]
      BY DEF TypeOK
    <3> DEFINE f == [admitted[l] EXCEPT ![s] = admitted[l][s] + 1]
    <3>5. f \in [Second -> Nat] /\ admitted' = [admitted EXCEPT ![l] = f]
      BY <2>2, <3>2
    <3>4. l \in Limiter
      BY <1>1
    <3> HIDE DEF f, l, s
    <3> QED BY <3>3, <3>4, <3>5, Row
  <2> QED BY <2>1, <2>2, <1>1, <1>2 DEF Count, TypeOK
<1> QED BY <1>5, <1>7, <1>8

\* What the table of nonces becomes.
LEMMA NonceTypes ==
    ASSUME TypeOK, NEW r \in Request, Consume(r) \/ ConsumeFails(r)
    PROVE  /\ seen' \in [Message -> {Never} \cup Second] /\ \A m \in Message : seen'[m] <= clock
           /\ passed' \in [Message -> [n : Nat, at : Second]]
<1> USE ConfigAssumption
<1>1. Msg(r) \in Message /\ clock \in Second
  BY Names DEF TypeOK
<1>2. Stored(Msg(r)) \in [Message -> {Never} \cup Second] /\ \A m \in Message : Stored(Msg(r))[m] <= clock
  BY <1>1 DEF Stored, TypeOK, Second
<1>3. /\ Pruned(Stored(Msg(r))) \in [Message -> {Never} \cup Second]
      /\ \A m \in Message : Pruned(Stored(Msg(r)))[m] <= clock
  BY <1>1, <1>2 DEF Pruned, Never, Second
<1>4. seen' \in {seen, Stored(Msg(r)), Pruned(Stored(Msg(r)))}
  BY DEF Consume, ConsumeFails, nonces
<1>5. passed' = passed \/ passed' = [passed EXCEPT ![Msg(r)] = [n |-> passed[Msg(r)].n + 1, at |-> clock]]
  BY <1>1 DEF Consume, ConsumeFails, nonces, TypeOK
<1>6. passed' \in [Message -> [n : Nat, at : Second]]
  <2>1. passed \in [Message -> [n : Nat, at : Second]]
    BY DEF TypeOK
  <2>2. [n |-> passed[Msg(r)].n + 1, at |-> clock] \in [n : Nat, at : Second]
    BY <1>1, <2>1
  <2> QED BY <1>1, <1>5, <2>1, <2>2
<1> QED BY <1>2, <1>3, <1>4, <1>6 DEF TypeOK

LEMMA StepTypes == TypeOK /\ [Next]_vars => TypeOK'
<1> SUFFICES ASSUME TypeOK, [Next]_vars PROVE TypeOK'
  OBVIOUS
<1> USE CallAssumption, ConfigAssumption
<1>0. CallType /\ ReqType /\ clock \in Second
  BY DEF TypeOK, CallType, ReqType
<1>1. ASSUME NEW c \in Call, Send(c) PROVE TypeOK'
  <2> DEFINE n == call[c].try + 1
  <2>1. call[c].try \in Nat /\ n \in 1 .. Tries[c]
    BY <1>1, <1>0 DEF Send, CallType
  <2>2. <<c, n>> \in Message /\ <<c, n, 1>> \in Request
    BY <2>1 DEF Message, Request
  <2>3. CallType'
    <3>1. [at |-> "waiting", try |-> n, told |-> "none"] \in [at : {"idle", "waiting", "over"}, try : Nat, told : Codes]
      BY <2>1 DEF Codes
    <3> QED BY <1>1, <1>0, <3>1 DEF Send, CallType
  <2>4. stamp' \in [Message -> Int]
    <3>1. PICK d \in Drift[By[c]] : stamp' = [stamp EXCEPT ![<<c, n>>] = clock + d]
      BY <1>1 DEF Send
    <3>2. clock + d \in Int
      BY <1>0 DEF Second
    <3> QED BY <3>1, <3>2, <2>2 DEF TypeOK
  <2>5. ReqType'
    BY <1>1, <1>0, <2>2 DEF Send, ReqType, At, Places
  <2> QED BY <1>1, <2>3, <2>4, <2>5 DEF Send, TypeOK, CallType, ReqType, nonces, rate, upstream, bounds
<1>2. ASSUME NEW c \in Call, GiveUp(c) PROVE TypeOK'
  <2>1. [at |-> "over", try |-> call[c].try, told |-> "none"] \in [at : {"idle", "waiting", "over"}, try : Nat, told : Codes]
    BY <1>0 DEF CallType, Codes
  <2>2. CallType'
    BY <1>2, <1>0, <2>1 DEF GiveUp, CallType
  <2>3. faults' \in 0 .. MaxFaults
    BY <1>2 DEF GiveUp, TypeOK
  <2> QED BY <1>2, <2>2, <2>3 DEF GiveUp, TypeOK, CallType, nonces, rate, upstream
<1>3. ASSUME NEW r \in Request, Copy(r) PROVE TypeOK'
  <2>1. ReqType'
    BY <1>3, <1>0 DEF Copy, ReqType, At, Places
  <2>2. copies' \in 0 .. MaxCopies
    BY <1>3 DEF Copy, TypeOK
  <2> QED BY <1>3, <2>1, <2>2 DEF Copy, TypeOK, ReqType, sender, nonces, rate, upstream
<1>4. ASSUME NEW r \in Request, Arrive(r) PROVE TypeOK'
  <2>1. /\ \/ \E code \in Codes : End(r, code)
           \/ \E place \in Places \ {"lock"} : Goes(r, place)
           \/ Queues(r)
    BY <1>4 DEF Arrive, Codes, Places
  <2>2. CallType' /\ ReqType'
    BY <2>1, <1>0, <1>4, PlaceTypes DEF Arrive, ReqType
  <2> QED BY <1>4, <2>2 DEF Arrive, TypeOK, CallType, ReqType, nonces, rate, upstream, bounds
<1>5. ASSUME NEW r \in Request, Consume(r) PROVE TypeOK'
  <2>1. \/ \E code \in Codes : End(r, code)
        \/ Queues(r)
    BY <1>5 DEF Consume, Codes
  <2>2. CallType' /\ ReqType'
    BY <2>1, <1>0, <1>5, PlaceTypes DEF Consume, ReqType
  <2> QED BY <1>5, <2>2, NonceTypes DEF Consume, TypeOK, CallType, ReqType, rate, upstream, bounds
<1>6. ASSUME NEW r \in Request, ConsumeFails(r) PROVE TypeOK'
  <2>1. \E code \in Codes : End(r, code)
    BY <1>6 DEF ConsumeFails, Codes
  <2>2. CallType' /\ ReqType'
    BY <2>1, <1>0, <1>6, PlaceTypes DEF ConsumeFails, ReqType
  <2>3. faults' \in 0 .. MaxFaults
    BY <1>6 DEF ConsumeFails, TypeOK
  <2> QED BY <1>6, <2>2, <2>3, NonceTypes DEF ConsumeFails, TypeOK, CallType, ReqType, rate, upstream
<1>7. ASSUME NEW r \in Request, Count(r) PROVE TypeOK'
  <2>1. \/ \E code \in Codes : End(r, code)
        \/ \E place \in Places \ {"lock"} : Goes(r, place)
    BY <1>7 DEF Count, Codes, Places
  <2>2. clock' = clock
    BY <1>7 DEF Count
  <2>3. CallType' /\ ReqType'
    BY <2>1, <2>2, <1>0, PlaceTypes DEF ReqType
  <2>4. /\ bucket' \in [Limiter -> [slot : {Never} \cup Second, count : Nat]]
        /\ \A l \in Limiter : bucket'[l].slot <= clock'
        /\ admitted' \in [Limiter -> [Second -> Nat]] /\ spare' \in [Limiter -> Nat]
    BY <1>7, <2>2, CountTypes
  <2>5. UNCHANGED <<clock, stamp, seen, passed, active, rules, posted, faults, copies, changes>>
    BY <1>7 DEF Count, nonces, upstream, bounds
  <2> QED BY <2>3, <2>4, <2>5 DEF TypeOK, CallType, ReqType
<1>8. ASSUME NEW r \in Request, Ensure(r) \/ Check(r) \/ Book(r) \/ Unreachable(r) PROVE TypeOK'
  <2>1. \/ \E code \in Codes : End(r, code)
        \/ \E place \in Places \ {"lock"} : Goes(r, place)
    BY <1>8 DEF Ensure, Check, Book, Unreachable, Breaks, Codes, Places
  <2>2. UNCHANGED <<clock, stamp, seen, passed, bucket, admitted, spare, active, rules, copies, changes>>
    BY <1>8 DEF Ensure, Check, Book, Unreachable, nonces, rate, upstream, bounds
  <2>3. CallType' /\ ReqType'
    BY <2>1, <2>2, <1>0, PlaceTypes DEF ReqType
  <2>4. faults' \in 0 .. MaxFaults
    BY <1>8 DEF Ensure, Check, Book, Unreachable, bounds, TypeOK
  <2>5. r[1] \in Call
    BY Names
  <2>6. ApiTenant(r[1]) \in Tenant
    BY <2>5 DEF ApiTenant, GatewayTenant
  <2>7. posted' = posted \/ posted' = [posted EXCEPT ![r[1]] = posted[r[1]] \cup {ApiTenant(r[1])}]
    BY <1>8, <2>5 DEF Ensure, Check, Book, Unreachable, upstream, TypeOK
  <2>8. posted' \in [Call -> SUBSET Tenant]
    <3>1. posted \in [Call -> SUBSET Tenant]
      BY DEF TypeOK
    <3>2. posted[r[1]] \cup {ApiTenant(r[1])} \in SUBSET Tenant
      BY <3>1, <2>5, <2>6
    <3> DEFINE P == posted[r[1]] \cup {ApiTenant(r[1])}
    <3>3. P \in SUBSET Tenant /\ (posted' = posted \/ posted' = [posted EXCEPT ![r[1]] = P])
      BY <3>2, <2>7
    <3> HIDE DEF P
    <3> QED BY <3>1, <3>3, <2>5
  <2> QED BY <2>2, <2>3, <2>4, <2>8 DEF TypeOK, CallType, ReqType
<1>9. ASSUME (\E t \in Disableable : SetStatus(t)) \/ Replace PROVE TypeOK'
  <2>1. active' \subseteq Tenant /\ rules' \subseteq Client
    BY <1>9 DEF SetStatus, Replace, TypeOK
  <2>2. changes' \in 0 .. MaxChanges
    BY <1>9 DEF SetStatus, Replace, TypeOK
  <2> QED BY <1>9, <2>1, <2>2 DEF SetStatus, Replace, TypeOK, sender, nonces, rate
<1>10. ASSUME Tick PROVE TypeOK'
  <2>1. clock' \in Second /\ clock' = clock + 1
    BY <1>10 DEF Tick, TypeOK, Second
  <2>2. ReqType'
    BY <1>0, <1>10, <2>1 DEF ReqType, Tick, Second
  <2>3. \A m \in Message : seen[m] \in Int /\ seen[m] <= clock
    BY DEF TypeOK, Never, Second
  <2>4. \A l \in Limiter : bucket[l].slot \in Int /\ bucket[l].slot <= clock
    BY DEF TypeOK, Never, Second
  <2>5. (\A m \in Message : seen[m] <= clock') /\ \A l \in Limiter : bucket[l].slot <= clock'
    BY <2>1, <2>3, <2>4, <1>0 DEF Second
  <2> QED BY <1>10, <2>1, <2>2, <2>5 DEF Tick, TypeOK, ReqType, sender, nonces, rate, upstream, bounds
<1>11. CASE UNCHANGED vars
  BY <1>11 DEF vars, TypeOK
<1> QED BY <1>1, <1>2, <1>3, <1>4, <1>5, <1>6, <1>7, <1>8, <1>9, <1>10, <1>11 DEF Next

\* Types; and no call is left without an answer.
THEOREM GatewayTypes == Spec => []TypeOK
<1> QED BY InitTypes, StepTypes, PTL DEF Spec

----------------------------------------------------------------------------
(* Nonces.                                                                  *)

\* The table holds the nonce of a message that was let through as long as it matters.
Held == \A m \in Message : passed[m].n > 0 /\ clock <= passed[m].at + Window => seen[m] = passed[m].at

LEMMA StepHeld == TypeOK /\ Held /\ [Next]_vars => Held'
<1> SUFFICES ASSUME TypeOK, Held, [Next]_vars PROVE Held'
  OBVIOUS
<1> USE ConfigAssumption
<1>0. /\ clock \in Int /\ Window \in Nat
      /\ \A m \in Message : seen[m] \in Int /\ passed[m].n \in Nat /\ passed[m].at \in Int
  BY DEF TypeOK, Second, Never
<1>1. ASSUME NEW r \in Request, Consume(r), seen[Msg(r)] = Never PROVE Held'
  <2>1. Msg(r) \in Message /\ clock' = clock
    BY <1>1, Names DEF Consume
  <2>2. seen' \in {Stored(Msg(r)), Pruned(Stored(Msg(r)))}
    BY <1>1 DEF Consume
  <2>3. /\ passed' = [passed EXCEPT ![Msg(r)] = [n |-> passed[Msg(r)].n + 1, at |-> clock]]
        /\ passed \in [Message -> [n : Nat, at : Second]]
    BY <1>1, <2>1 DEF Consume, TypeOK
  <2> SUFFICES ASSUME NEW m \in Message, passed'[m].n > 0, clock <= passed'[m].at + Window
               PROVE  seen'[m] = passed'[m].at
    BY <2>1 DEF Held
  <2>4. CASE m = Msg(r)
    <3>1. passed'[m].at = clock /\ Stored(Msg(r))[m] = clock /\ ~Outdated(m)
      BY <2>1, <2>3, <2>4, <1>1 DEF Stored, Outdated, TypeOK
    <3> QED BY <2>1, <2>2, <3>1 DEF Pruned
  <2>5. CASE m # Msg(r)
    <3>1. passed'[m] = passed[m] /\ Stored(Msg(r))[m] = seen[m]
      BY <2>1, <2>3, <2>5 DEF Stored, TypeOK
    <3>2. seen[m] = passed[m].at
      BY <3>1 DEF Held
    <3>3. ~Outdated(m)
      BY <3>1, <3>2, <1>0 DEF Outdated
    <3> QED BY <2>2, <3>1, <3>2, <3>3 DEF Pruned
  <2> QED BY <2>4, <2>5
<1>2. ASSUME NEW r \in Request, ConsumeFails(r) PROVE Held'
  <2>1. Msg(r) \in Message /\ seen[Msg(r)] = Never /\ UNCHANGED <<clock, passed>> /\ seen' \in {seen, Stored(Msg(r))}
    BY <1>2, Names DEF ConsumeFails
  <2> SUFFICES ASSUME NEW m \in Message, passed[m].n > 0, clock <= passed[m].at + Window
               PROVE  seen'[m] = passed[m].at
    BY <2>1 DEF Held
  <2>2. seen[m] = passed[m].at /\ passed[m].at # Never
    BY DEF Held, TypeOK, Never, Second
  <2> QED BY <2>1, <2>2 DEF Stored, TypeOK
<1>3. CASE Tick
  BY <1>3, <1>0 DEF Tick, nonces, Held
<1>4. ASSUME UNCHANGED <<clock, seen, passed>> PROVE Held'
  BY <1>4 DEF Held
<1>5. \/ \E r \in Request : (Consume(r) /\ seen[Msg(r)] = Never) \/ ConsumeFails(r)
      \/ Tick
      \/ UNCHANGED <<clock, seen, passed>>
  BY ZenonT(30) DEF Next, Send, GiveUp, Copy, Arrive, Consume, Count, Ensure, Check, Book, Unreachable,
         SetStatus, Replace, nonces, vars
<1> QED BY <1>1, <1>2, <1>3, <1>4, <1>5

LEMMA StepFirst ==
    ASSUME TypeOK, Held, [Next]_vars, NEW m \in Message, passed'[m].n > passed[m].n, passed[m].n > 0
    PROVE  passed'[m].at > passed[m].at + Window /\ (InWindow(m) => stamp[m] > passed[m].at)
<1> USE ConfigAssumption
<1>0. clock \in Nat /\ Window \in Nat /\ passed[m].n \in Nat /\ passed[m].at \in Nat /\ stamp[m] \in Int
  BY DEF TypeOK, Second
<1>1. PICK r \in Request : Consume(r) /\ seen[Msg(r)] = Never
  <2>1. (\E r \in Request : Consume(r) /\ seen[Msg(r)] = Never) \/ passed' = passed
    BY DEF Next, Send, GiveUp, Copy, Arrive, Consume, ConsumeFails, Count, Ensure, Check, Book, Unreachable,
           SetStatus, Replace, Tick, nonces, vars
  <2> QED BY <1>0, <2>1
<1>2. Msg(r) \in Message /\ passed' = [passed EXCEPT ![Msg(r)] = [n |-> passed[Msg(r)].n + 1, at |-> clock]]
  BY <1>1, Names DEF Consume, TypeOK
<1>3. m = Msg(r)
  BY <1>0, <1>2 DEF TypeOK
<1>4. passed'[m].at = clock
  BY <1>2, <1>3 DEF TypeOK
<1>5. ~ clock <= passed[m].at + Window
  BY <1>0, <1>1, <1>3 DEF Held, Never
<1>6. InWindow(m) => stamp[m] > passed[m].at
  BY <1>0, <1>5 DEF InWindow
<1> QED BY <1>0, <1>4, <1>5, <1>6

\* A nonce is let through a second time only when more than a window has gone by, and, if its
\* stamp is still accepted then, only because that stamp was ahead of the gateway's clock
\* the first time; for any clocks, windows and delays.
THEOREM GatewayNonces == Spec => NonceHeld
<1>1. Init => Held
  BY DEF Init, Held
<1>2. TypeOK /\ Held /\ [Next]_vars => [\A m \in Message : passed'[m].n > passed[m].n /\ passed[m].n > 0 =>
                                            /\ passed'[m].at > passed[m].at + Window
                                            /\ InWindow(m) => stamp[m] > passed[m].at]_vars
  BY StepFirst
<1> QED BY <1>1, <1>2, InitTypes, StepTypes, StepHeld, PTL DEF Spec, NonceHeld

----------------------------------------------------------------------------
(* Rates.                                                                   *)

\* What is left of a second's rate once the bucket has gone on.
Used(l, s) ==
    IF bucket[l].slot < s THEN 0
    ELSE IF bucket[l].slot > s \/ bucket[l].count > Rps[l] THEN Rps[l] ELSE bucket[l].count
Counted == \A l \in Limiter, s \in Second : admitted[l][s] <= spare[l] + Used(l, s)

LEMMA StepCounted == TypeOK /\ Counted /\ [Next]_vars => Counted'
<1> SUFFICES ASSUME TypeOK, Counted, [Next]_vars PROVE Counted'
  OBVIOUS
<1> USE ConfigAssumption
<1>1. ASSUME NEW r \in Request, Count(r) PROVE Counted'
  <2> DEFINE l == LimiterOf[By[r[1]]]
             s == req[r].now
             n == CountOf(l, s)
  <2>1. l \in Limiter /\ s \in Second
    BY <1>1, Names, CallAssumption, SMTT(30) DEF Count, TypeOK, Second
  <2>2. bucket' = [bucket EXCEPT ![l] = [slot |-> s, count |-> n]]
    BY <1>1 DEF Count
  <2>3. spare' = [spare EXCEPT ![l] = IF s < bucket[l].slot THEN spare[l] + Rps[l] ELSE spare[l]]
    BY <1>1 DEF Count
  <2>4. \/ n > Rps[l] /\ admitted' = admitted
        \/ ~ n > Rps[l] /\ admitted' = [admitted EXCEPT ![l] = [admitted[l] EXCEPT ![s] = admitted[l][s] + 1]]
    BY <1>1 DEF Count, Over
  <2>5. n = IF bucket[l].slot # s THEN 1 ELSE bucket[l].count + 1
    BY DEF CountOf
  <2>6. /\ bucket \in [Limiter -> [slot : {Never} \cup Second, count : Nat]] /\ spare \in [Limiter -> Nat]
        /\ admitted \in [Limiter -> [Second -> Nat]] /\ Rps[l] \in Nat \ {0}
    BY <2>1 DEF TypeOK
  <2> HIDE DEF l, s, n
  <2> SUFFICES ASSUME NEW k \in Limiter, NEW t \in Second PROVE (admitted[k][t] <= spare[k] + Used(k, t))'
    BY DEF Counted
  <2>7. admitted[k][t] <= spare[k] + Used(k, t)
    BY DEF Counted
  <2>8. CASE k # l
    <3>1. bucket'[k] = bucket[k] /\ spare'[k] = spare[k] /\ admitted'[k] = admitted[k]
      BY <2>1, <2>2, <2>3, <2>4, <2>6, <2>8
    <3> QED BY <2>7, <3>1 DEF Used
  <2>9. CASE k = l
    <3>1. bucket'[l].slot = s /\ bucket'[l].count = n
      BY <2>1, <2>2, <2>6
    <3>2. spare'[l] = IF s < bucket[l].slot THEN spare[l] + Rps[l] ELSE spare[l]
      BY <2>1, <2>3, <2>6
    <3>3. /\ admitted[l] \in [Second -> Nat]
          /\ \/ n > Rps[l] /\ admitted'[l] = admitted[l]
             \/ ~ n > Rps[l] /\ admitted'[l] = [admitted[l] EXCEPT ![s] = admitted[l][s] + 1]
      BY <2>1, <2>4, <2>6
    <3>4. /\ admitted[l][t] \in Nat
          /\ \/ admitted'[l][t] = admitted[l][t] /\ (t # s \/ n > Rps[l])
             \/ admitted'[l][t] = admitted[l][t] + 1 /\ t = s /\ ~ n > Rps[l]
      BY <2>1, <3>3
    <3>5. /\ bucket[l].slot \in Int /\ bucket[l].count \in Nat /\ spare[l] \in Nat
          /\ Rps[l] \in Nat \ {0} /\ s \in Int /\ t \in Int /\ n \in Nat
      BY <2>1, <2>5, <2>6, SMTT(30) DEF Never, Second
    <3>6. admitted[l][t] <= spare[l] + IF bucket[l].slot < t THEN 0
              ELSE IF bucket[l].slot > t \/ bucket[l].count > Rps[l] THEN Rps[l] ELSE bucket[l].count
      BY <2>7, <2>9 DEF Used
    <3>7. admitted'[l][t] <= spare'[l] + IF s < t THEN 0 ELSE IF s > t \/ n > Rps[l] THEN Rps[l] ELSE n
      BY <2>5, <3>2, <3>4, <3>5, <3>6
    <3> QED BY <2>9, <3>1, <3>7 DEF Used
  <2> QED BY <2>8, <2>9
<1>2. ASSUME UNCHANGED rate PROVE Counted'
  BY <1>2 DEF Counted, Used, rate
<1>3. (\E r \in Request : Count(r)) \/ UNCHANGED rate
  BY DEF Next, Send, GiveUp, Copy, Arrive, Consume, ConsumeFails, Ensure, Check, Book, Unreachable,
         SetStatus, Replace, Tick, rate, vars
<1> QED BY <1>1, <1>2, <1>3

\* However many requests wait for the limiter's lock, and in whatever order they get it.
THEOREM GatewayRate == Spec => []RateKept
<1> USE ConfigAssumption
<1>1. Init => Counted
  BY DEF Init, Counted, Used, Never, Second
<1>2. TypeOK /\ Counted => RateKept
  <2> SUFFICES ASSUME TypeOK, Counted, NEW l \in Limiter, NEW s \in Second
               PROVE  admitted[l][s] <= Rps[l] + spare[l]
    BY DEF RateKept
  <2>1. admitted[l][s] \in Nat /\ spare[l] \in Nat /\ Rps[l] \in Nat /\ bucket[l].count \in Nat
    BY DEF TypeOK
  <2>2. admitted[l][s] <= spare[l] + Used(l, s)
    BY DEF Counted
  <2>3. Used(l, s) \in Nat /\ Used(l, s) <= Rps[l]
    BY <2>1 DEF Used
  <2> QED BY <2>1, <2>2, <2>3
<1> QED BY <1>1, <1>2, InitTypes, StepTypes, StepCounted, PTL DEF Spec

----------------------------------------------------------------------------
(* Where commands are posted.                                               *)

\* Behind the gateway there are only requests it let through, and only their commands are
\* posted.
Behind == {"consume", "lock", "ensure", "check", "book"}
Bonafide ==
    /\ \A r \in Request : req[r].at \in Behind => Authentic(r[1])
    /\ \A c \in Call : posted[c] # {} => Authentic(c) /\ posted[c] = {ApiTenant(c)}

\* Where the body could be read, or names no tenant, gateway and API agree.
LEMMA OneTenant ==
    ASSUME NEW c \in Call, Authentic(c), c \in Parses \/ Body[c] = None
    PROVE  ApiTenant(c) = GatewayTenant(c)
<1> QED BY CallAssumption, ConfigAssumption DEF Authentic, Agrees, ApiTenant, GatewayTenant

LEMMA StepBonafide == TypeOK /\ Bonafide /\ [Next]_vars => Bonafide'
<1> SUFFICES ASSUME TypeOK, Bonafide, [Next]_vars PROVE Bonafide'
  OBVIOUS
<1>0. /\ req \in [Request -> [at : Places, now : {Never} \cup Second]]
      /\ posted \in [Call -> SUBSET Tenant]
  BY DEF TypeOK
<1>1. ASSUME NEW r \in Request, Arrive(r) PROVE Bonafide'
  <2>1. /\ posted' = posted
        /\ \/ req' = [req EXCEPT ![r] = At("over")]
           \/ Authentic(r[1]) /\ \E new \in {At("consume"), [at |-> "lock", now |-> clock]} : req' = [req EXCEPT ![r] = new]
    BY <1>1 DEF Arrive, End, Goes, Queues, upstream
  <2> QED BY <2>1, <1>0 DEF Bonafide, At, Behind
<1>2. ASSUME NEW r \in Request, req[r].at \in Behind, posted' = posted,
             \E new \in {At("over"), At("ensure"), At("check"), At("book"), [at |-> "lock", now |-> clock]} :
                 req' = [req EXCEPT ![r] = new]
      PROVE  Bonafide'
  BY <1>0, <1>2 DEF Bonafide
<1>3. ASSUME NEW r \in Request,
             Consume(r) \/ ConsumeFails(r) \/ Count(r) \/ Ensure(r) \/ Check(r) \/ Unreachable(r)
      PROVE  Bonafide'
  <2>1. req[r].at \in Behind /\ posted' = posted
    BY <1>3 DEF Consume, ConsumeFails, Count, Ensure, Check, Unreachable, Behind, upstream
  <2>2. \E new \in {At("over"), At("ensure"), At("check"), At("book"), [at |-> "lock", now |-> clock]} :
            req' = [req EXCEPT ![r] = new]
    BY <1>3 DEF Consume, ConsumeFails, Count, Ensure, Check, Unreachable, End, Goes, Queues
  <2> QED BY <2>1, <2>2, <1>2
<1>4. ASSUME NEW r \in Request, Book(r) PROVE Bonafide'
  <2>1. r[1] \in Call /\ req' = [req EXCEPT ![r] = At("over")]
    BY <1>4, Names DEF Book, End
  <2>2. Authentic(r[1])
    BY <1>4, <2>1 DEF Book, Bonafide, Behind
  <2>3. posted' = [posted EXCEPT ![r[1]] = posted[r[1]] \cup {ApiTenant(r[1])}]
    BY <1>4, <2>2 DEF Book
  <2>4. \A q \in Request : req'[q].at \in Behind => Authentic(q[1])
    BY <2>1, <1>0 DEF Bonafide, At, Behind
  <2>5. posted[r[1]] \cup {ApiTenant(r[1])} = {ApiTenant(r[1])}
    BY <2>1 DEF Bonafide
  <2>6. posted' = [posted EXCEPT ![r[1]] = {ApiTenant(r[1])}]
    BY <2>3, <2>5
  <2>7. \A c \in Call : posted'[c] # {} => Authentic(c) /\ posted'[c] = {ApiTenant(c)}
    BY <2>1, <2>2, <2>6, <1>0 DEF Bonafide
  <2> QED BY <2>4, <2>7 DEF Bonafide
<1>5. ASSUME posted' = posted,
             \/ req' = req
             \/ \E q \in Request : req' = [req EXCEPT ![q] = At("net")]
      PROVE  Bonafide'
  BY <1>0, <1>5 DEF Bonafide, At, Behind
<1>6. ASSUME NEW c \in Call, Send(c) PROVE Bonafide'
  <2>1. <<c, call[c].try + 1, 1>> \in Request
    <3>1. call[c].try \in Nat /\ call[c].try < Tries[c] /\ Tries[c] \in Nat
      BY <1>6, CallAssumption DEF Send, TypeOK
    <3>2. call[c].try + 1 \in 1 .. Tries[c]
      BY <3>1
    <3> QED BY <3>2 DEF Request
  <2> QED BY <1>5, <1>6, <2>1 DEF Send, upstream
<1>7. CASE (\E r \in Request : Copy(r)) \/ (\E c \in Call : GiveUp(c)) \/ (\E t \in Disableable : SetStatus(t))
           \/ Replace \/ Tick \/ UNCHANGED vars
  BY <1>5, <1>7 DEF Copy, GiveUp, SetStatus, Replace, Tick, upstream, vars
<1> QED BY <1>1, <1>3, <1>4, <1>6, <1>7 DEF Next

\* Both processes take a command whose body the gateway could read, or that names no tenant,
\* to be for the same tenant, and post it for nobody else.
THEOREM GatewayTenants == Spec => []PostedAsMeant
<1>1. Init => Bonafide
  BY DEF Init, Bonafide, At, Behind
<1>2. Bonafide => PostedAsMeant
  BY OneTenant DEF Bonafide, PostedAsMeant, Authentic, Agrees, Grants
<1> QED BY <1>1, <1>2, InitTypes, StepTypes, StepBonafide, PTL DEF Spec

----------------------------------------------------------------------------
(* What callers are told.                                                   *)

Refused(c) == call[c].at = "over" /\ call[c].told \notin Uncertain \cup {"ok"}
\* First tries are the only requests of a call whose second has not been made, and while
\* the caller waits for the first, or was refused it, nobody has posted the command.
Sent == \A r \in Request : req[r].at # "unsent" => r[2] <= call[r[1]].try
Open == \A c \in Call : call[c].at = "waiting" => call[c].try \in 1 .. Tries[c] /\ req[<<c, call[c].try, 1>>].at # "over"
Early == \A c \in Call :
    /\ call[c].try = 0 => call[c].at = "idle" /\ posted[c] = {}
    /\ call[c].try = 1 /\ req[<<c, 1, 2>>].at = "unsent" /\ (call[c].at = "waiting" \/ Refused(c)) => posted[c] = {}
Closed == \A c \in Call :
    /\ Refused(c) /\ call[c].try = 1 => req[<<c, 1, 1>>].at = "over"
    /\ call[c].told = "ok" => posted[c] # {}
Told == Sent /\ Open /\ Early /\ Closed

LEMMA StepTold == TypeOK /\ Told /\ [Next]_vars => Told'
<1> SUFFICES ASSUME TypeOK, Told, [Next]_vars PROVE Told'
  OBVIOUS
<1> USE CallAssumption
<1>0. /\ req \in [Request -> [at : Places, now : {Never} \cup Second]]
      /\ call \in [Call -> [at : {"idle", "waiting", "over"}, try : Nat, told : Codes]]
      /\ posted \in [Call -> SUBSET Tenant]
      /\ \A c \in Call : <<c, 1, 1>> \in Request /\ <<c, 1, 2>> \in Request
  <2>1. \A c \in Call : 1 \in 1 .. Tries[c]
    OBVIOUS
  <2> QED BY <2>1 DEF TypeOK, Request
<1>1. ASSUME NEW c \in Call, Send(c) PROVE Told'
  <2> DEFINE n == call[c].try + 1
  <2>1. n \in 1 .. Tries[c] /\ call[c].at = "idle" /\ call[c].try \in Nat
    <3>1. call[c].try \in Nat /\ call[c].try < Tries[c] /\ Tries[c] \in Nat
      BY <1>0, <1>1 DEF Send
    <3> QED BY <1>1, <3>1 DEF Send
  <2>2. <<c, n, 1>> \in Request
    BY <2>1 DEF Request
  <2>3. /\ call' = [call EXCEPT ![c] = [at |-> "waiting", try |-> n, told |-> "none"]]
        /\ req' = [req EXCEPT ![<<c, n, 1>>] = At("net")] /\ posted' = posted
    BY <1>1 DEF Send, upstream
  <2>4. Sent'
    <3> SUFFICES ASSUME NEW r \in Request, req'[r].at # "unsent" PROVE r[2] <= call'[r[1]].try
      BY DEF Sent
    <3>1. r[1] \in Call /\ r[2] \in Nat
      BY Names
    <3>2. CASE r = <<c, n, 1>>
      BY <2>1, <2>3, <3>2, <1>0
    <3>3. CASE r # <<c, n, 1>>
      <4>1. r[2] <= call[r[1]].try
        BY <2>2, <2>3, <3>3, <1>0 DEF Told, Sent
      <4> QED BY <2>1, <2>3, <3>1, <4>1, <1>0
    <3> QED BY <3>2, <3>3
  <2>8. call'[c] = [at |-> "waiting", try |-> n, told |-> "none"] /\ \A d \in Call \ {c} : call'[d] = call[d]
    BY <2>3, <1>0
  <2>5. Open'
    <3> SUFFICES ASSUME NEW d \in Call, call'[d].at = "waiting"
                 PROVE  call'[d].try \in 1 .. Tries[d] /\ req'[<<d, call'[d].try, 1>>].at # "over"
      BY DEF Open
    <3>1. CASE d = c
      BY <3>1, <2>1, <2>2, <2>3, <2>8, <1>0 DEF At
    <3>2. CASE d # c
      <4>1. call'[d] = call[d]
        BY <3>2, <2>8
      <4>2. call[d].try \in 1 .. Tries[d] /\ req[<<d, call[d].try, 1>>].at # "over"
        BY <4>1 DEF Told, Open
      <4>3. <<d, call[d].try, 1>> \in Request
        BY <4>2 DEF Request
      <4>4. req'[<<d, call[d].try, 1>>] = req[<<d, call[d].try, 1>>]
        BY <3>2, <4>3, <2>3, <1>0
      <4> QED BY <4>1, <4>2, <4>4
    <3> QED BY <3>1, <3>2
  <2>6. Early'
    <3> SUFFICES ASSUME NEW d \in Call
                 PROVE  /\ call'[d].try = 0 => call'[d].at = "idle" /\ posted'[d] = {}
                        /\ /\ call'[d].try = 1 /\ req'[<<d, 1, 2>>].at = "unsent"
                           /\ call'[d].at = "waiting" \/ Refused(d)'
                           => posted'[d] = {}
      BY DEF Early
    <3>1. CASE d = c
      <4>1. call'[d].try = 1 => call[d].try = 0
        BY <3>1, <2>1, <2>8
      <4>2. call[d].try = 0 => posted[d] = {}
        BY DEF Told, Early
      <4> QED BY <3>1, <4>1, <4>2, <2>1, <2>3, <2>8
    <3>2. CASE d # c
      <4>1. call'[d] = call[d] /\ posted'[d] = posted[d]
        BY <3>2, <2>3, <2>8
      <4>2. req'[<<d, 1, 2>>] = req[<<d, 1, 2>>]
        BY <2>3, <1>0
      <4>3. Refused(d)' => Refused(d)
        BY <4>1 DEF Refused
      <4> QED BY <4>1, <4>2, <4>3 DEF Told, Early
    <3> QED BY <3>1, <3>2
  <2>7. Closed'
    BY <2>1, <2>2, <2>3, <1>0 DEF Told, Closed, Refused, Uncertain
  <2> QED BY <2>4, <2>5, <2>6, <2>7 DEF Told
<1>2. ASSUME NEW c \in Call, GiveUp(c) PROVE Told'
  <2>1. /\ call' = [call EXCEPT ![c] = [at |-> "over", try |-> call[c].try, told |-> "none"]]
        /\ call[c].at = "waiting" /\ req' = req /\ posted' = posted
    BY <1>2 DEF GiveUp, upstream
  <2>2. \A d \in Call : call'[d].try = call[d].try
    BY <2>1, <1>0
  <2>3. Sent'
    BY <2>1, <2>2, Names DEF Told, Sent
  <2> QED BY <2>1, <2>3, <1>0 DEF Told, Open, Early, Closed, Refused, Uncertain
<1>3. ASSUME NEW r \in Request, Copy(r) PROVE Told'
  <2>1. /\ r[3] = 2 /\ req[<<r[1], r[2], 1>>].at # "unsent" /\ r = <<r[1], r[2], r[3]>> /\ r[1] \in Call
        /\ r[2] \in 1 .. Tries[r[1]] /\ req' = [req EXCEPT ![r] = At("net")] /\ call' = call /\ posted' = posted
    BY <1>3, Names DEF Copy, sender, upstream
  <2>2. <<r[1], r[2], 1>> \in Request
    BY <2>1 DEF Request
  <2>3. Sent'
    BY <2>1, <2>2, <1>0 DEF Told, Sent
  <2>4. Open' /\ Early' /\ Closed'
    <3>1. \A c \in Call : \A k \in 1 .. Tries[c] : req'[<<c, k, 1>>] = req[<<c, k, 1>>]
      BY <2>1, <1>0 DEF Request
    <3>2. \A c \in Call : req'[<<c, 1, 2>>].at = "unsent" => req[<<c, 1, 2>>].at = "unsent"
      BY <2>1, <1>0 DEF At
    <3>3. Early'
      BY <2>1, <3>2 DEF Told, Early, Refused
    <3>4. \A c \in Call : 1 \in 1 .. Tries[c]
      OBVIOUS
    <3>5. Closed'
      BY <2>1, <3>1, <3>4 DEF Told, Closed, Refused
    <3>6. Open'
      BY <2>1, <2>2, <1>0 DEF Told, Open, At
    <3> QED BY <3>3, <3>5, <3>6
  <2> QED BY <2>3, <2>4 DEF Told
<1>4. ASSUME NEW r \in Request, NEW new \in [at : Places \ {"unsent", "over"}, now : {Never} \cup Second],
             req[r].at \notin {"unsent", "over"}, req' = [req EXCEPT ![r] = new], call' = call, posted' = posted
      PROVE  Told'
  <2>1. \A q \in Request : req'[q].at = "unsent" <=> req[q].at = "unsent"
    BY <1>0, <1>4
  <2>2. \A q \in Request : req'[q].at = "over" => req[q].at = "over"
    BY <1>0, <1>4
  <2>3. Sent' /\ Early'
    BY <2>1, <1>0, <1>4, Names DEF Told, Sent, Early, Refused
  <2>4. Open'
    BY <1>0, <1>4 DEF Told, Open
  <2>5. Closed'
    <3> SUFFICES ASSUME NEW c \in Call, Refused(c), call[c].try = 1 PROVE req'[<<c, 1, 1>>].at = "over"
      BY <1>4 DEF Told, Closed, Refused
    <3> QED BY <1>4, <1>0 DEF Told, Closed
  <2> QED BY <2>3, <2>4, <2>5 DEF Told
<1>5. ASSUME NEW r \in Request, NEW code \in Codes \ {"none"}, End(r, code), req[r].at \notin {"unsent", "over"},
             \A c \in Call : posted[c] \subseteq posted'[c] /\ (c # r[1] => posted'[c] = posted[c]),
             \/ posted' = posted /\ code # "ok"
             \/ posted'[r[1]] # {} /\ code \in {"ok", "bad_gateway", "error"}
      PROVE  Told'
  <2>1. /\ r[1] \in Call /\ r[2] \in 1 .. Tries[r[1]] /\ r[3] \in {1, 2} /\ r = <<r[1], r[2], r[3]>>
        /\ r[2] <= call[r[1]].try
    BY <1>5, Names DEF Told, Sent
  <2>2. req' = [req EXCEPT ![r] = At("over")] /\ At("over").at = "over"
    BY <1>5 DEF End, At
  <2>3. \/ Awaited(r) /\ call' = [call EXCEPT ![r[1]] = Heard(r[1], code)]
        \/ ~Awaited(r) /\ call' = call
    BY <1>5 DEF End
  <2>4. /\ Heard(r[1], code).try = call[r[1]].try
        /\ \/ Heard(r[1], code).at = "idle" /\ Heard(r[1], code).told = "none"
           \/ Heard(r[1], code).at = "over" /\ Heard(r[1], code).told = code
    BY DEF Heard
  <2>5. \A c \in Call : /\ call'[c].try = call[c].try /\ call[c].try \in Nat
                        /\ call'[c].at = "waiting" => ~(Awaited(r) /\ c = r[1])
                        /\ ~(Awaited(r) /\ c = r[1]) => call'[c] = call[c]
                        /\ posted[c] \subseteq posted'[c] /\ (c # r[1] => posted'[c] = posted[c])
    BY <2>1, <2>3, <2>4, <1>0, <1>5
  <2>6. \A q \in Request : /\ req'[q].at = "unsent" <=> req[q].at = "unsent"
                           /\ req'[q].at = "over" <=> (req[q].at = "over" \/ q = r)
    BY <2>2, <1>0, <1>5
  <2>7. Awaited(r) <=> r[3] = 1 /\ call[r[1]].at = "waiting" /\ call[r[1]].try = r[2]
    BY DEF Awaited
  <2>8. Sent'
    BY <2>5, <2>6, Names DEF Told, Sent
  <2>9. Open'
    <3> SUFFICES ASSUME NEW c \in Call, call'[c].at = "waiting"
                 PROVE  call'[c].try \in 1 .. Tries[c] /\ req'[<<c, call'[c].try, 1>>].at # "over"
      BY DEF Open
    <3>1. call'[c] = call[c] /\ ~(Awaited(r) /\ c = r[1])
      BY <2>5
    <3>2. call[c].try \in 1 .. Tries[c] /\ req[<<c, call[c].try, 1>>].at # "over"
      BY <3>1 DEF Told, Open
    <3>3. <<c, call[c].try, 1>> \in Request
      BY <3>2 DEF Request
    <3>4. <<c, call[c].try, 1>> # r
      BY <3>1, <2>7
    <3> QED BY <3>1, <3>2, <3>3, <3>4, <2>6
  <2>10. ASSUME NEW c \in Call, call[c].try = 1, req'[<<c, 1, 2>>].at = "unsent", c = r[1] PROVE r = <<c, 1, 1>>
    <3>1. r[2] = 1
      BY <2>1, <2>10
    <3>2. r[3] = 1
      BY <2>1, <2>6, <2>10, <3>1, <1>5
    <3> QED BY <2>1, <2>10, <3>1, <3>2
  <2>11. Early'
    <3> SUFFICES ASSUME NEW c \in Call
                 PROVE  /\ call'[c].try = 0 => call'[c].at = "idle" /\ posted'[c] = {}
                        /\ /\ call'[c].try = 1 /\ req'[<<c, 1, 2>>].at = "unsent"
                           /\ call'[c].at = "waiting" \/ Refused(c)'
                           => posted'[c] = {}
      BY DEF Early
    <3>1. CASE c # r[1]
      <4>1. call'[c] = call[c] /\ posted'[c] = posted[c] /\ (req'[<<c, 1, 2>>].at = "unsent" => req[<<c, 1, 2>>].at = "unsent")
        BY <3>1, <2>5, <2>6, <1>0
      <4>2. Refused(c)' => Refused(c)
        BY <4>1 DEF Refused
      <4> QED BY <4>1, <4>2 DEF Told, Early
    <3>2. CASE c = r[1]
      <4>1. call'[c].try # 0
        BY <3>2, <2>1, <2>5
      <4> SUFFICES ASSUME call'[c].try = 1, req'[<<c, 1, 2>>].at = "unsent", call'[c].at = "waiting" \/ Refused(c)'
                   PROVE  posted'[c] = {}
        BY <4>1
      <4>2. r = <<c, 1, 1>> /\ call[c].try = 1 /\ r[3] = 1 /\ r[2] = 1 /\ req[<<c, 1, 2>>].at = "unsent"
        BY <3>2, <2>5, <2>6, <2>10, <1>0
      <4>3. CASE call[c].at = "waiting"
        <5>1. Awaited(r)
          BY <3>2, <4>2, <4>3, <2>7
        <5>2. Refused(c)' /\ call'[c] = Heard(c, code)
          BY <5>1, <3>2, <2>3, <2>5, <1>0
        <5>3. code \notin Uncertain \cup {"ok"}
          BY <5>2, <3>2, <2>4 DEF Refused
        <5>4. posted' = posted
          BY <5>3, <1>5 DEF Uncertain
        <5>5. posted[c] = {}
          BY <4>2, <4>3 DEF Told, Early
        <5> QED BY <5>4, <5>5
      <4>4. CASE call[c].at # "waiting"
        <5>1. call'[c] = call[c]
          BY <4>4, <3>2, <2>5, <2>7
        <5>2. Refused(c)
          BY <5>1, <4>4 DEF Refused
        <5> QED BY <5>2, <4>2, <1>5 DEF Told, Closed
      <4> QED BY <4>3, <4>4
    <3> QED BY <3>1, <3>2
  <2>12. Closed'
    <3> SUFFICES ASSUME NEW c \in Call
                 PROVE  /\ Refused(c)' /\ call'[c].try = 1 => req'[<<c, 1, 1>>].at = "over"
                        /\ call'[c].told = "ok" => posted'[c] # {}
      BY DEF Closed
    <3>1. CASE Awaited(r) /\ c = r[1]
      <4>1. call'[c] = Heard(c, code) /\ call'[c].try = r[2] /\ r[3] = 1
        BY <3>1, <2>3, <2>5, <2>7, <1>0
      <4>2. call'[c].told = "ok" => posted'[c] # {}
        BY <4>1, <3>1, <2>4, <1>5
      <4>3. call'[c].try = 1 => r = <<c, 1, 1>>
        BY <4>1, <3>1, <2>1
      <4> QED BY <4>2, <4>3, <3>1, <2>6, <1>0, <1>5
    <3>2. CASE ~(Awaited(r) /\ c = r[1])
      <4>1. call'[c] = call[c] /\ posted[c] \subseteq posted'[c]
        BY <3>2, <2>5
      <4>2. Refused(c)' => Refused(c)
        BY <4>1 DEF Refused
      <4> QED BY <4>1, <4>2, <2>6, <1>0 DEF Told, Closed
    <3> QED BY <3>1, <3>2
  <2> QED BY <2>8, <2>9, <2>11, <2>12 DEF Told
<1>6. ASSUME NEW r \in Request, Arrive(r) \/ Consume(r) \/ ConsumeFails(r) \/ Count(r) \/ Ensure(r) \/ Check(r) \/ Unreachable(r)
      PROVE  Told'
  <2>1. req[r].at \notin {"unsent", "over"} /\ posted' = posted
    BY <1>6 DEF Arrive, Consume, ConsumeFails, Count, Ensure, Check, Unreachable, upstream
  <2>2. \/ \E code \in Codes \ {"none", "ok"} : End(r, code)
        \/ \E place \in {"consume", "ensure", "check", "book"} : Goes(r, place)
        \/ Queues(r)
    BY <1>6 DEF Arrive, Consume, ConsumeFails, Count, Ensure, Check, Unreachable, Breaks, Codes
  <2>3. ASSUME NEW code \in Codes \ {"none", "ok"}, End(r, code) PROVE Told'
    <3>1. code \in Codes \ {"none"} /\ code # "ok"
      BY <2>3
    <3> QED BY <3>1, <2>1, <2>3, <1>5
  <2>4. ASSUME Queues(r) \/ \E place \in {"consume", "ensure", "check", "book"} : Goes(r, place) PROVE Told'
    <3>1. clock \in Second
      BY DEF TypeOK
    <3>2. \E new \in [at : Places \ {"unsent", "over"}, now : {Never} \cup Second] :
              req' = [req EXCEPT ![r] = new] /\ call' = call
      BY <2>4, <3>1 DEF Queues, Goes, At, Places
    <3> QED BY <3>2, <2>1, <1>4
  <2> QED BY <2>2, <2>3, <2>4
<1>7. ASSUME NEW r \in Request, Book(r) PROVE Told'
  <2>1. r[1] \in Call /\ req[r].at \notin {"unsent", "over"}
    BY <1>7, Names DEF Book
  <2>2. \E code \in {"ok", "bad_gateway", "error"} : End(r, code)
    BY <1>7 DEF Book, Breaks
  <2>3. posted' = [posted EXCEPT ![r[1]] = posted[r[1]] \cup {ApiTenant(r[1])}]
    BY <1>7 DEF Book
  <2>4. posted'[r[1]] # {} /\ \A c \in Call : posted[c] \subseteq posted'[c] /\ (c # r[1] => posted'[c] = posted[c])
    BY <2>1, <2>3, <1>0
  <2>5. PICK code \in {"ok", "bad_gateway", "error"} : End(r, code)
    BY <2>2
  <2>6. code \in Codes \ {"none"}
    BY <2>5 DEF Codes
  <2> QED BY <2>1, <2>4, <2>5, <2>6, <1>5
<1>8. CASE (\E t \in Disableable : SetStatus(t)) \/ Replace \/ Tick \/ UNCHANGED vars
  <2>1. UNCHANGED <<call, req, posted>>
    BY <1>8 DEF SetStatus, Replace, Tick, sender, upstream, vars
  <2>2. Sent' /\ Open'
    BY <2>1 DEF Told, Sent, Open
  <2>3. Early' /\ Closed'
    BY <2>1 DEF Told, Early, Closed, Refused
  <2> QED BY <2>2, <2>3 DEF Told
<1> QED BY <1>1, <1>2, <1>3, <1>6, <1>7, <1>8 DEF Next

\* However requests, copies, lost answers and retries interleave, what a caller is told of
\* a first try is so.
THEOREM GatewayTold == Spec => []ToldTrue
<1> USE CallAssumption
<1>1. Init => Told
  <2> SUFFICES ASSUME Init PROVE Told
    OBVIOUS
  <2>1. Sent /\ Open /\ Early /\ Closed
    BY DEF Init, Sent, Open, Early, Closed, Refused, At, Uncertain
  <2> QED BY <2>1 DEF Told
<1>2. Told => ToldTrue
  <2> SUFFICES ASSUME Told, NEW c \in Call, call[c].at = "over"
               PROVE  /\ call[c].told = "ok" => posted[c] # {}
                      /\ call[c].told \notin Uncertain \cup {"ok"} /\ call[c].try = 1
                            /\ req[<<c, 1, 2>>].at = "unsent" => posted[c] = {}
    BY DEF ToldTrue
  <2> QED BY DEF Told, Early, Closed, Refused
<1> QED BY <1>1, <1>2, InitTypes, StepTypes, StepTold, PTL DEF Spec
=============================================================================
