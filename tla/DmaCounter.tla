----------------------------- MODULE DmaCounter -----------------------------
(***************************************************************************)
(* One DMA direction of a LitePCIe channel from the moment it is started   *)
(* (litepcie_dma_writer_start / litepcie_dma_reader_start, main.c), seen   *)
(* from the counter side: the engine loops over the N-entry descriptor     *)
(* table, raises an MSI on every descriptor whose IRQ-disable flag is      *)
(* clear, and the interrupt handler (litepcie_interrupt) folds the narrow  *)
(* LOOP_STATUS register into the 64-bit hw_count.  The handler of one      *)
(* MSI vector is not re-entered by Linux and is the only writer of         *)
(* hw_count while the direction runs, so it is one step here; its races    *)
(* with start/stop are the subject of LitePCIeChan.                        *)
(***************************************************************************)
EXTENDS DmaRegs

CONSTANT MaxPos   \* bound on the buffers the engine completes

ASSUME MaxPos \in Nat

VARIABLES
  hwPos,        \* buffers the engine has completed since the table was loaded
  irqPending,   \* an MSI of this direction is raised and not yet handled
  hwCount,      \* dma.<dir>_hw_count
  hwCountLast,  \* dma.<dir>_hw_count_last
  observed      \* history: hwPos as read by the last handler run

vars == <<hwPos, irqPending, hwCount, hwCountLast, observed>>

(***************************************************************************)
(* The state right after start: counters cleared, engine and MSI enabled.  *)
(***************************************************************************)
Init == /\ hwPos = 0
        /\ irqPending = FALSE
        /\ hwCount = 0
        /\ hwCountLast = 0
        /\ observed = 0

\* Environment assumption: the handler runs at least once every wrap of
\* the loop count (2^16 loops of the ring in the hardware).
WrapLag == hwPos + 1 - observed < CarryUnit

\* The engine completes the buffer of descriptor hwPos % N.
Complete == /\ hwPos < MaxPos
            /\ WrapLag
            /\ hwPos' = hwPos + 1
            /\ irqPending' = (irqPending \/ IrqFlag(hwPos % N))
            /\ UNCHANGED <<hwCount, hwCountLast, observed>>

\* litepcie_interrupt for this direction's vector: read LOOP_STATUS,
\* reconcile, remember the value in hw_count_last, wake the waiters.
Interrupt == /\ irqPending
             /\ LET new == Reconcile(hwCount, hwCountLast, LoopStatus(hwPos))
                IN  /\ hwCount' = new
                    /\ hwCountLast' = new
             /\ irqPending' = FALSE
             /\ observed' = hwPos
             /\ UNCHANGED hwPos

Next == Complete \/ Interrupt

\* Linux runs the handler of a raised MSI eventually; the engine itself
\* may stall (no data from the FPGA), so it gets no fairness.
Spec == Init /\ [][Next]_vars /\ WF_vars(Interrupt)

(***************************************************************************)
(* Properties.                                                             *)
(***************************************************************************)
\* The wrap compensation of litepcie_interrupt reconstructs the exact
\* completion count the engine showed, across any number of wraps of the
\* 16-bit loop count and any coalescing of MSIs.
CountExact == hwCount = observed

\* Every buffer up to the last one announced by an MSI is eventually
\* accounted in hw_count: the driver lags the engine by less than
\* DMA_BUFFER_PER_IRQ buffers once the engine pauses.
ReportLatency == <>[](hwCount + BufferPerIrq > hwPos)
=============================================================================
