----------------------------- MODULE MCTransfers ------------------------------
(* Small instances of Transfers.                                             *)
EXTENDS Transfers
=============================================================================
