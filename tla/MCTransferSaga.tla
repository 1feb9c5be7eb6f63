-------------------------- MODULE MCTransferSaga --------------------------
(***************************************************************************)
(* Small instances of TransferSaga.                                        *)
(***************************************************************************)
EXTENDS TransferSaga, TLC

AnyDriver == Permutations(Drivers)
=============================================================================
