--------------------------- MODULE MCLitePCIeChan ---------------------------
(* LitePCIeChan with a 4-buffer ring, an MSI every 2 buffers and a 1-bit *)
(* loop count.  The sessions and the switches are set per cfg.           *)
EXTENDS LitePCIeChan
=============================================================================
