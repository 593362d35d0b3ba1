--------------------------- MODULE MCTransferFile ---------------------------
(* Instances of TransferFile for TLC.                                      *)
EXTENDS TransferFile, TLC
=============================================================================
