--------------------------- MODULE MCTransferQueue ---------------------------
(* Model values for the transfer queue: one batch of one or two items.     *)
EXTENDS TransferQueue, TLC

CONSTANTS b1, i1, i2

OneBatch == (i1 :> b1) @@ (i2 :> b1)
OneItem  == i1 :> b1
=============================================================================
