------------------------------ MODULE DmaRegs ------------------------------
(***************************************************************************)
(* The register-level arithmetic of one LitePCIe DMA direction, shared by  *)
(* the modules that model the driver (main.c, csr.h).                      *)
(*                                                                         *)
(* The LOOP_STATUS register (csr.h) holds the ring index in bits 0..15     *)
(* and the loop count in bits 16..31.  The code hard-wires the count       *)
(* width 16 in the mask and in the carry of litepcie_interrupt; the model  *)
(* scales the count width, the mask and the carry together through         *)
(* CountBits, so that the count wraps within a few loops instead of 2^16.  *)
(***************************************************************************)
EXTENDS Naturals

CONSTANTS
  N,             \* DMA_BUFFER_COUNT, a power of two
  BufferPerIrq,  \* DMA_BUFFER_PER_IRQ
  CountBits      \* width of the LOOP_STATUS count field (16 in the hardware)

ASSUME /\ N \in {2, 4, 8, 16}
       /\ BufferPerIrq \in 1 .. N /\ N % BufferPerIrq = 0
       /\ CountBits \in 1 .. 16

(***************************************************************************)
(* Register encodings and the reconciliation arithmetic.                   *)
(***************************************************************************)
Field16 == 2^16

\* What the engine shows in LOOP_STATUS after pos completed buffers.
LoopStatus(pos) == ((pos \div N) % 2^CountBits) * Field16 + (pos % N)

\* (loop_status >> 16) * DMA_BUFFER_COUNT + (loop_status & 0xffff)
Raw(ls) == (ls \div Field16) * N + (ls % Field16)

\* 1 << (ilog2(DMA_BUFFER_COUNT) + 16): one wrap of the loop count.
CarryUnit == N * 2^CountBits

\* hw_count & ((~(DMA_BUFFER_COUNT - 1) << 16) & 0xffffffffffff0000):
\* keeps the bits at and above ilog2(N) + 16.
\* Mutant of UpperBits: the mask one bit too narrow (ilog2 off by one).
UpperBitsNarrow(hw) == hw - (hw % (CarryUnit \div 2))

UpperBits(hw) == hw - (hw % CarryUnit)

\* Mutant of Reconcile: the carry dropped.
ReconcileNoCarry(hw, last, ls) == UpperBits(hw) + Raw(ls)

\* The new hw_count.  The |= of the code is an addition: the raw value
\* lies entirely below the bits UpperBits keeps.
Reconcile(hw, last, ls) ==
  LET v == UpperBits(hw) + Raw(ls)
  IN  IF last > v THEN v + CarryUnit ELSE v

IrqFlagLoopOnly(i) == i = 0

\* Descriptor i is programmed without DMA_IRQ_DISABLE iff
\* i % DMA_BUFFER_PER_IRQ == 0: its completion raises an MSI.
IrqFlag(i) == i % BufferPerIrq = 0
=============================================================================
