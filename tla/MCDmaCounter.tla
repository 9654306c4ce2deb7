---------------------------- MODULE MCDmaCounter ----------------------------
(* DmaCounter with a 4-buffer ring, an MSI every 2 buffers and a 1-bit   *)
(* loop count, so that the count field wraps every 8 buffers and the     *)
(* 20 completions cover two wraps and a half.                            *)
EXTENDS DmaCounter
=============================================================================
