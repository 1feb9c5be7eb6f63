------------------------------ MODULE MCGateway ------------------------------
(* Calls and configuration for TLC. *)
EXTENDS Gateway

CONSTANTS sdk, script, bare, torn, order, pay, t1, t2

\* sdk: V2, the tenant in header and body, retries.  script: V1, no tenant.  bare: V2 of an SDK
\* without a tenant, whose signature covers none.  torn: V1, with a body that the gateway cannot
\* read to its end, and that names a source and a tenant which are not its caller's.
\* One after the other, the SDK's first: what a call leaves in flight meets the calls after it.
MCAfter == [c \in Call |-> CASE c = script -> {sdk} [] c = torn -> {script} [] c = bare -> {torn} [] OTHER -> {}]
MCBy == [c \in Call |-> IF c = sdk THEN order ELSE pay]
MCSource == [c \in Call |-> IF c \in {script, bare} THEN pay ELSE order]
MCHeader == [c \in Call |-> IF c = sdk THEN t1 ELSE None]
MCBody == [c \in Call |-> IF c = sdk THEN t1 ELSE IF c = torn THEN t2 ELSE None]
MCVersion == [c \in Call |-> IF c \in {script, torn} THEN "v1" ELSE "v2"]
MCTries == [c \in Call |-> IF c = sdk THEN 2 ELSE 1]
MCGranted == [k \in {order, pay} |-> {t1}]
MCDrift == [k \in {order, pay} |-> IF k = order THEN {0, 1} ELSE {0}]
MCLimiterOf == [k \in {order, pay} |-> "global"]
MCRps == [l \in {"global"} |-> 1]
=============================================================================
