------------------------- MODULE MCConnectorInbox -------------------------
(***************************************************************************)
(* A small instance of ConnectorInbox: an order that may be paid, by file  *)
(* or by HTTP, before it was created, by HTTP.                             *)
(***************************************************************************)
EXTENDS ConnectorInbox

Needs == [m \in Message |-> IF m = "paid" THEN {"created"} ELSE {}]
=============================================================================
