-------------------------- MODULE MCReconWorkers --------------------------
(***************************************************************************)
(* Small instances of ReconWorkers.                                        *)
(***************************************************************************)
EXTENDS ReconWorkers

CONSTANTS w1, w2

\* A tick is a third of the ttl.  The second replica's clock is ahead by one.
Ahead == [w \in Worker |-> IF w = w1 THEN 0 ELSE 1]

Same == [w \in Worker |-> 0]

OneKey == <<"day">>
=============================================================================
