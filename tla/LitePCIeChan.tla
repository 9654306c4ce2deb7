---------------------------- MODULE LitePCIeChan ----------------------------
(***************************************************************************)
(* One DMA channel of the LitePCIe driver (src/software/kernel/main.c):    *)
(* its two DMA directions, the engines that run them, the MSI enable       *)
(* register, the interrupt handler and the sessions (open files) that      *)
(* call open, release, read, write and the DMA, LOCK and MMAP-update       *)
(* ioctls.  The driver takes no lock on any of these paths, so every C     *)
(* statement that reads or writes shared state and is followed by another *)
(* one is a step of its own here, as far as the properties can tell them   *)
(* apart:                                                                  *)
(*   - the handler loads hw_count/hw_count_last and LOOP_STATUS in one     *)
(*     step and stores the reconciled value in a later one;                *)
(*   - litepcie_enable/disable_interrupt read CSR_PCIE_MSI_ENABLE in one   *)
(*     step and write it back in another;                                  *)
(*   - the LOCK ioctl tests dma.<dir>_lock in one step and sets it in      *)
(*     another;                                                            *)
(*   - read() and write() take one step per buffer of their loop.          *)
(* Buffer contents are not modelled: a buffer is named by its index.       *)
(*                                                                         *)
(* "reader" and "writer" are the code's names for the DMA engines:         *)
(* the reader moves host memory to the FPGA (fed by write()), the writer   *)
(* moves FPGA data to host memory (drained by read()).                     *)
(***************************************************************************)
EXTENDS DmaRegs, Integers, Sequences, FiniteSetsExt

CONSTANTS
  Sessions,          \* open-file handles (model values)
  MaxHw,             \* bound on the buffers an engine completes per start
  Sizes,             \* request sizes of read()/write(), in whole buffers
  Faults,            \* possible outcomes "copy faulted" of copy_to/from_user
  Disciplined        \* callers follow liblitepcie's locking discipline

ASSUME /\ MaxHw \in Nat /\ MaxHw < N * 2^CountBits
       /\ Sizes \subseteq Nat /\ Faults \subseteq BOOLEAN
       /\ Disciplined \in BOOLEAN

Reader == "reader"
Writer == "writer"
Dirs == {Reader, Writer}

\* The wait queue a direction's interrupt wakes (wait_wr for the reader,
\* wait_rd for the writer) and the session states that sleep on it.
SleepPc(d) == IF d = Reader THEN "write_sleep" ELSE "read_sleep"

VARIABLES
  hwEnable,     \* PCIE_DMA_<dir>_ENABLE register of each engine
  hwPos,        \* buffers the engine has completed since its table was loaded
  irqPending,   \* an MSI of the direction is raised and not yet taken
  msiEnable,    \* the bits of CSR_PCIE_MSI_ENABLE of the two interrupts
  irqCtx,       \* handler in flight (busy) and the values it has loaded
  hwCount,      \* dma.<dir>_hw_count
  hwCountLast,  \* dma.<dir>_hw_count_last
  swCount,      \* dma.<dir>_sw_count
  enable,       \* dma.<dir>_enable
  lock,         \* dma.<dir>_lock
  pc,           \* where each session is: "closed", "idle" or inside a call
  priv,         \* chan_priv->reader / ->writer: directions the file locked
  call,         \* the arguments and locals of the call in progress
  woken         \* a wake_up has reached the session since it went to sleep

hwVars == <<hwEnable, hwPos, irqPending>>
ctrVars == <<hwCount, hwCountLast, swCount>>
sesVars == <<pc, priv, call, woken>>
vars == <<hwEnable, hwPos, irqPending, msiEnable, irqCtx, hwCount,
          hwCountLast, swCount, enable, lock, pc, priv, call, woken>>

Idle == "idle"
NoIrq == [busy |-> FALSE, hw |-> 0, last |-> 0, ls |-> 0]
\* ret: what the last call of the file returned, as the kernel does: a
\* count of whole buffers for read() and write(), or a negative errno.
\* The ioctls' failures are not modelled: they return 0.
EAGAIN == 11
EFAULT == 14
ERESTARTSYS == 512
NoRet == 0
NoCall == [dir |-> Reader, val |-> 0, len |-> 0, size |-> 0, nb |-> FALSE,
           msi |-> {}, todo |-> <<>>, ret |-> NoRet]

(***************************************************************************)
(* Register and counter helpers.                                           *)
(***************************************************************************)
\* litepcie_dma_<dir>_start: engine off, table reloaded (the loop status
\* restarts from 0), counters cleared, engine on.
Start(d) == /\ hwEnable' = [hwEnable EXCEPT ![d] = TRUE]
            /\ hwPos' = [hwPos EXCEPT ![d] = 0]
            /\ hwCount' = [hwCount EXCEPT ![d] = 0]
            /\ hwCountLast' = [hwCountLast EXCEPT ![d] = 0]
            /\ swCount' = [swCount EXCEPT ![d] = 0]

\* Mutant: a stop without the settle delay, so that a handler already
\* running may finish after it.
StopNoSettle(d) == /\ hwEnable' = [hwEnable EXCEPT ![d] = FALSE]
                   /\ hwCount' = [hwCount EXCEPT ![d] = 0]
                   /\ hwCountLast' = [hwCountLast EXCEPT ![d] = 0]
                   /\ swCount' = [swCount EXCEPT ![d] = 0]

\* litepcie_dma_<dir>_stop: loop off, flush, settle delay, engine off,
\* counters cleared.  The 1 ms delay is taken to outlast a handler of the
\* direction that is already running (StopNoSettle drops this).
Stop(d) == /\ ~irqCtx[d].busy
           /\ hwEnable' = [hwEnable EXCEPT ![d] = FALSE]
           /\ hwCount' = [hwCount EXCEPT ![d] = 0]
           /\ hwCountLast' = [hwCountLast EXCEPT ![d] = 0]
           /\ swCount' = [swCount EXCEPT ![d] = 0]

\* Buffers completed by the writer engine and not yet read, and buffers
\* queued for the reader engine and not yet consumed.
Backlog == hwCount[Writer] - swCount[Writer]
Queued == swCount[Reader] - hwCount[Reader]

(***************************************************************************)
(* The engines and the interrupt handler.                                  *)
(***************************************************************************)
\* An enabled engine completes the buffer of descriptor hwPos % N, raising
\* the direction's MSI if the descriptor asks for one and the bit is set.
Complete(d) ==
  /\ hwEnable[d]
  /\ hwPos[d] < MaxHw
  /\ hwPos' = [hwPos EXCEPT ![d] = @ + 1]
  /\ irqPending' = [irqPending EXCEPT ![d] =
                      @ \/ (IrqFlag(hwPos[d] % N) /\ d \in msiEnable)]
  /\ UNCHANGED <<hwEnable, msiEnable, irqCtx, ctrVars, enable, lock, sesVars>>

\* litepcie_interrupt entered for the direction's vector: irq_vector is
\* masked with CSR_PCIE_MSI_ENABLE, then LOOP_STATUS, hw_count and
\* hw_count_last are read.
IrqLoad(d) ==
  /\ irqPending[d]
  /\ ~irqCtx[d].busy
  /\ irqPending' = [irqPending EXCEPT ![d] = FALSE]
  /\ irqCtx' = IF d \in msiEnable
                 THEN [irqCtx EXCEPT ![d] = [busy |-> TRUE, hw |-> hwCount[d],
                                             last |-> hwCountLast[d],
                                             ls |-> LoopStatus(hwPos[d])]]
                 ELSE irqCtx
  /\ UNCHANGED <<hwEnable, hwPos, msiEnable, ctrVars, enable, lock, sesVars>>

\* Mutant: the handler stores the count but forgets wake_up_interruptible.
IrqStoreNoWake(d) ==
  /\ irqCtx[d].busy
  /\ LET new == Reconcile(irqCtx[d].hw, irqCtx[d].last, irqCtx[d].ls)
     IN  /\ hwCount' = [hwCount EXCEPT ![d] = new]
         /\ hwCountLast' = [hwCountLast EXCEPT ![d] = new]
  /\ irqCtx' = [irqCtx EXCEPT ![d] = NoIrq]
  /\ UNCHANGED <<hwVars, msiEnable, swCount, enable, lock, pc, priv, call, woken>>

\* The handler stores the reconciled count into hw_count and
\* hw_count_last, then wakes the direction's wait queue.
IrqStore(d) ==
  /\ irqCtx[d].busy
  /\ LET new == Reconcile(irqCtx[d].hw, irqCtx[d].last, irqCtx[d].ls)
     IN  /\ hwCount' = [hwCount EXCEPT ![d] = new]
         /\ hwCountLast' = [hwCountLast EXCEPT ![d] = new]
  /\ woken' = [s \in Sessions |-> woken[s] \/ pc[s] = SleepPc(d)]
  /\ irqCtx' = [irqCtx EXCEPT ![d] = NoIrq]
  /\ UNCHANGED <<hwVars, msiEnable, swCount, enable, lock, pc, priv, call>>

(***************************************************************************)
(* Session helpers.                                                        *)
(***************************************************************************)
Goto(s, p) == pc' = [pc EXCEPT ![s] = p]

\* The call returns r to user space.
Return(s, r) == /\ pc' = [pc EXCEPT ![s] = Idle]
                /\ call' = [call EXCEPT ![s] = [NoCall EXCEPT !.ret = r]]
Finish(s) == Return(s, NoRet)
\* size - len: the buffers a transfer went through, skipped ones included.
Moved(s) == call[s].size - call[s].len

\* liblitepcie only drives a direction whose lock the file holds; the
\* kernel itself does not check it.
May(s, d) == Disciplined => d \in priv[s]

\* Bound on the counts a user may report through the MMAP update ioctls.
SwBound == MaxHw + N

(***************************************************************************)
(* open and release.                                                       *)
(***************************************************************************)
\* litepcie_open: counters of a disabled direction are cleared.
Open(s) ==
  /\ pc[s] = "closed"
  /\ hwCount' = [d \in Dirs |-> IF enable[d] = 0 THEN 0 ELSE hwCount[d]]
  /\ hwCountLast' = [d \in Dirs |-> IF enable[d] = 0 THEN 0 ELSE hwCountLast[d]]
  /\ swCount' = [d \in Dirs |-> IF enable[d] = 0 THEN 0 ELSE swCount[d]]
  /\ Goto(s, Idle)
  /\ priv' = [priv EXCEPT ![s] = {}]
  /\ UNCHANGED <<hwVars, msiEnable, irqCtx, enable, lock, call, woken>>

\* litepcie_release walks chan_priv->reader then chan_priv->writer: for a
\* held direction it reads CSR_PCIE_MSI_ENABLE (disable_interrupt), or,
\* when none is left, frees the file.
ReleaseNext(s, todo) ==
  IF todo = <<>>
  THEN /\ Goto(s, "closed")
       /\ priv' = [priv EXCEPT ![s] = {}]
       /\ call' = [call EXCEPT ![s] = NoCall]
       /\ UNCHANGED <<msiEnable>>
  ELSE /\ Goto(s, "release_msi_store")
       /\ call' = [call EXCEPT ![s] = [NoCall EXCEPT !.todo = todo,
                                                     !.msi = msiEnable]]
       /\ UNCHANGED <<msiEnable, priv>>

Release(s) ==
  /\ pc[s] = Idle
  /\ ReleaseNext(s, SelectSeq(<<Reader, Writer>>, LAMBDA d: d \in priv[s]))
  /\ UNCHANGED <<hwVars, irqCtx, ctrVars, enable, lock, woken>>

ReleaseMsiStore(s) ==
  /\ pc[s] = "release_msi_store"
  /\ msiEnable' = call[s].msi \ {Head(call[s].todo)}
  /\ Goto(s, "release_stop")
  /\ call' = [call EXCEPT ![s].msi = {}]
  /\ UNCHANGED <<hwVars, irqCtx, ctrVars, enable, lock, priv, woken>>

\* Mutant: release stops the engine but forgets to drop the lock.
ReleaseStopKeepLock(s) ==
  LET d == Head(call[s].todo)
  IN  /\ pc[s] = "release_stop"
      /\ Stop(d)
      /\ enable' = [enable EXCEPT ![d] = 0]
      /\ ReleaseNext(s, Tail(call[s].todo))
      /\ UNCHANGED <<hwPos, irqPending, irqCtx, woken, lock>>

\* litepcie_dma_<dir>_stop, then dma.<dir>_lock = 0 and _enable = 0,
\* then the check of the next direction.
ReleaseStop(s) ==
  LET d == Head(call[s].todo)
  IN  /\ pc[s] = "release_stop"
      /\ Stop(d)
      /\ lock' = [lock EXCEPT ![d] = 0]
      /\ enable' = [enable EXCEPT ![d] = 0]
      /\ ReleaseNext(s, Tail(call[s].todo))
      /\ UNCHANGED <<hwPos, irqPending, irqCtx, woken>>

(***************************************************************************)
(* LITEPCIE_IOCTL_DMA_WRITER / _READER with enable = v.                    *)
(***************************************************************************)
\* m.enable != dma.<dir>_enable: start the engine, or read the MSI enable
\* register to disable the interrupt; otherwise go straight to the store.
IoctlDma(s, d, v) ==
  /\ pc[s] = Idle
  /\ May(s, d)
  /\ call' = [call EXCEPT ![s] = [NoCall EXCEPT !.dir = d, !.val = v,
                                     !.msi = IF v # enable[d] /\ v = 0
                                             THEN msiEnable ELSE {}]]
  /\ \/ /\ v # enable[d] /\ v = 1
        /\ Start(d)
        /\ Goto(s, "dma_enable_msi_load")
     \/ /\ v # enable[d] /\ v = 0
        /\ Goto(s, "dma_disable_msi_store")
        /\ UNCHANGED <<hwEnable, hwPos, ctrVars>>
     \/ /\ v = enable[d]
        /\ Goto(s, "dma_set")
        /\ UNCHANGED <<hwEnable, hwPos, ctrVars>>
  /\ UNCHANGED <<irqPending, msiEnable, irqCtx, enable, lock, priv, woken>>

\* litepcie_enable_interrupt: v = readl(MSI_ENABLE) ...
DmaEnableMsiLoad(s) ==
  /\ pc[s] = "dma_enable_msi_load"
  /\ call' = [call EXCEPT ![s].msi = msiEnable]
  /\ Goto(s, "dma_enable_msi_store")
  /\ UNCHANGED <<hwVars, msiEnable, irqCtx, ctrVars, enable, lock, priv, woken>>

\* ... writel(MSI_ENABLE, v | bit).
DmaEnableMsiStore(s) ==
  /\ pc[s] = "dma_enable_msi_store"
  /\ msiEnable' = call[s].msi \cup {call[s].dir}
  /\ Goto(s, "dma_set")
  /\ call' = [call EXCEPT ![s].msi = {}]
  /\ UNCHANGED <<hwVars, irqCtx, ctrVars, enable, lock, priv, woken>>

\* Mutant: v &= ~irq_num instead of ~(1 << irq_num) clears the wrong
\* bits; modelled as clearing every bit.
DmaDisableMsiStoreAll(s) ==
  /\ pc[s] = "dma_disable_msi_store"
  /\ msiEnable' = {}
  /\ Goto(s, "dma_disable_stop")
  /\ call' = [call EXCEPT ![s].msi = {}]
  /\ UNCHANGED <<hwVars, irqCtx, ctrVars, enable, lock, priv, woken>>

\* litepcie_disable_interrupt: writel(MSI_ENABLE, v & ~bit).
DmaDisableMsiStore(s) ==
  /\ pc[s] = "dma_disable_msi_store"
  /\ msiEnable' = call[s].msi \ {call[s].dir}
  /\ Goto(s, "dma_disable_stop")
  /\ call' = [call EXCEPT ![s].msi = {}]
  /\ UNCHANGED <<hwVars, irqCtx, ctrVars, enable, lock, priv, woken>>

DmaDisableStop(s) ==
  /\ pc[s] = "dma_disable_stop"
  /\ Stop(call[s].dir)
  /\ Goto(s, "dma_set")
  /\ UNCHANGED <<hwPos, irqPending, msiEnable, irqCtx, enable, lock, priv,
                 call, woken>>

\* dma.<dir>_enable = m.enable; the counts are copied back to the user.
DmaSet(s) ==
  /\ pc[s] = "dma_set"
  /\ enable' = [enable EXCEPT ![call[s].dir] = call[s].val]
  /\ Finish(s)
  /\ UNCHANGED <<hwVars, msiEnable, irqCtx, ctrVars, lock, priv, woken>>

(***************************************************************************)
(* LITEPCIE_IOCTL_LOCK, one direction per call, and the MMAP updates.      *)
(***************************************************************************)
\* dma_<dir>_request: test dma.<dir>_lock ...
LockRequest(s, d) ==
  /\ pc[s] = Idle
  /\ Disciplined => d \notin priv[s]
  /\ IF lock[d] = 1
     THEN Finish(s)
     ELSE /\ Goto(s, "lock_set")
          /\ call' = [call EXCEPT ![s] = [NoCall EXCEPT !.dir = d]]
  /\ UNCHANGED <<hwVars, msiEnable, irqCtx, ctrVars, enable, lock, priv, woken>>

\* ... and set it, marking the file as holder.
LockSet(s) ==
  LET d == call[s].dir
  IN  /\ pc[s] = "lock_set"
      /\ lock' = [lock EXCEPT ![d] = 1]
      /\ priv' = [priv EXCEPT ![s] = @ \cup {d}]
      /\ Finish(s)
      /\ UNCHANGED <<hwVars, msiEnable, irqCtx, ctrVars, enable, woken>>

\* dma_<dir>_release clears the lock whoever holds it.  liblitepcie
\* releases only what it holds, after disabling the direction.
LockRelease(s, d) ==
  /\ pc[s] = Idle
  /\ Disciplined => d \in priv[s] /\ enable[d] = 0
  /\ lock' = [lock EXCEPT ![d] = 0]
  /\ priv' = [priv EXCEPT ![s] = @ \ {d}]
  /\ Finish(s)
  /\ UNCHANGED <<hwVars, msiEnable, irqCtx, ctrVars, enable, woken>>

\* LITEPCIE_IOCTL_MMAP_DMA_<dir>_UPDATE: sw_count = m.sw_count.  A
\* disciplined user reports one more buffer read (writer) or filled
\* (reader) once the counts allow it.
MmapUpdate(s, d) ==
  /\ pc[s] = Idle
  /\ May(s, d)
  /\ swCount[d] < SwBound
  /\ Disciplined => IF d = Writer THEN Backlog > 0 ELSE Queued < N \div 2
  /\ swCount' = [swCount EXCEPT ![d] = @ + 1]
  /\ Finish(s)
  /\ UNCHANGED <<hwVars, msiEnable, irqCtx, hwCount, hwCountLast, enable,
                 lock, priv, woken>>

(***************************************************************************)
(* litepcie_mmap and LITEPCIE_IOCTL_MMAP_DMA_INFO.  Neither changes driver *)
(* state; they are the operators below.  DMA_BUFFER_SIZE and PAGE_SIZE    *)
(* come from the build (config.h, the kernel); sizes are counted in units  *)
(* of a quarter page, with a buffer of two pages as in the default build.  *)
(***************************************************************************)
PageSize == 4
DmaBufferSize == 2 * PageSize
DmaBufferTotalSize == N * DmaBufferSize
NoPool == "einval"

\* MMAP_DMA_INFO: the tx pool (filled by the host) at offset 0, the rx pool
\* after it, each of DMA_BUFFER_COUNT buffers of DMA_BUFFER_SIZE.
MmapInfo == [tx_offset |-> 0, tx_size |-> DmaBufferSize, tx_count |-> N,
             rx_offset |-> DmaBufferTotalSize, rx_size |-> DmaBufferSize,
             rx_count |-> N]

\* Mutant: the rx offset compared with vm_pgoff in bytes, not pages.
MmapPoolBytes(len, pgoff) ==
  CASE len # DmaBufferTotalSize    -> NoPool
    [] pgoff = 0                   -> Reader
    [] pgoff = DmaBufferTotalSize  -> Writer
    [] OTHER                       -> NoPool

\* litepcie_mmap: a mapping of exactly DMA_BUFFER_TOTAL_SIZE at page offset
\* 0 maps the reader engine's buffers (is_tx), at the page offset of
\* DMA_BUFFER_TOTAL_SIZE the writer engine's; anything else is -EINVAL.
MmapPool(len, pgoff) ==
  CASE len # DmaBufferTotalSize                -> NoPool
    [] pgoff = 0                               -> Reader
    [] pgoff = DmaBufferTotalSize \div PageSize -> Writer
    [] OTHER                                   -> NoPool

\* The remap_pfn_range loop: buffer i of the pool at i * DMA_BUFFER_SIZE
\* from the start of the mapping.
MmapBufferAt(off) == off \div DmaBufferSize

(***************************************************************************)
(* read(): drain buffers of the writer engine.                             *)
(***************************************************************************)
\* The call's locals: direction, buffers still to move, request, O_NONBLOCK.
Begin(s, d, size, nb) ==
  call' = [call EXCEPT ![s] = [NoCall EXCEPT !.dir = d, !.len = size,
                                              !.size = size, !.nb = nb]]

\* O_NONBLOCK: -EAGAIN when hw_count == sw_count; otherwise
\* wait_event_interruptible(wait_rd, hw_count - sw_count > 0).
ReadCall(s, size, nonblock) ==
  /\ pc[s] = Idle
  /\ May(s, Writer)
  /\ \/ /\ nonblock /\ hwCount[Writer] = swCount[Writer]
        /\ Return(s, -EAGAIN)
     \/ /\ (nonblock /\ hwCount[Writer] # swCount[Writer])
           \/ (~nonblock /\ Backlog > 0)
        /\ Goto(s, "read_loop")
        /\ Begin(s, Writer, size, nonblock)
     \/ /\ ~nonblock /\ Backlog <= 0
        /\ Goto(s, "read_sleep")
        /\ Begin(s, Writer, size, nonblock)
  /\ woken' = [woken EXCEPT ![s] = FALSE]
  /\ UNCHANGED <<hwVars, msiEnable, irqCtx, ctrVars, enable, lock, priv>>

\* One pass of a transfer loop: sw_count and len advance by one buffer.
Advance(s, d) == /\ swCount' = [swCount EXCEPT ![d] = @ + 1]
                 /\ call' = [call EXCEPT ![s].len = @ - 1]
                 /\ UNCHANGED pc

\* One pass of the while (len >= DMA_BUFFER_SIZE) loop, or its exit with
\* size - len; a failed copy_to_user returns -EFAULT at once.
ReadLoop(s) ==
  /\ pc[s] = "read_loop"
  /\ \/ /\ call[s].len = 0 \/ Backlog <= 0
        /\ Return(s, Moved(s))
        /\ UNCHANGED swCount
     \/ /\ call[s].len > 0 /\ Backlog > N \div 2      \* overflow: skipped
        /\ Advance(s, Writer)
     \/ /\ call[s].len > 0 /\ Backlog > 0 /\ Backlog <= N \div 2
        /\ \E fault \in Faults:
             IF fault THEN Return(s, -EFAULT) /\ UNCHANGED swCount
                      ELSE Advance(s, Writer)
  /\ UNCHANGED <<hwVars, msiEnable, irqCtx, hwCount, hwCountLast, enable,
                 lock, priv, woken>>

(***************************************************************************)
(* write(): fill buffers of the reader engine.                             *)
(***************************************************************************)
\* The -EAGAIN return of a non-blocking write, when hw_count == sw_count.
WriteWouldBlock(s) ==
  /\ pc[s] = Idle
  /\ May(s, Reader)
  /\ hwCount[Reader] = swCount[Reader]
  /\ Return(s, -EAGAIN)
  /\ UNCHANGED <<hwVars, msiEnable, irqCtx, ctrVars, enable, lock, priv, woken>>

\* Otherwise, or without O_NONBLOCK,
\* wait_event_interruptible(wait_wr, sw_count - hw_count < N/2).
WriteCall(s, size, nonblock) ==
  /\ pc[s] = Idle
  /\ May(s, Reader)
  /\ \/ /\ (nonblock /\ hwCount[Reader] # swCount[Reader])
           \/ (~nonblock /\ Queued < N \div 2)
        /\ Goto(s, "write_loop")
     \/ /\ ~nonblock /\ Queued >= N \div 2
        /\ Goto(s, "write_sleep")
  /\ Begin(s, Reader, size, nonblock)
  /\ woken' = [woken EXCEPT ![s] = FALSE]
  /\ UNCHANGED <<hwVars, msiEnable, irqCtx, ctrVars, enable, lock, priv>>

\* Mutant: the room test written <= N/2, one buffer too many.
WriteLoopRoomOffByOne(s) ==
  /\ pc[s] = "write_loop"
  /\ \/ /\ call[s].len = 0 \/ Queued > N \div 2
        /\ Return(s, Moved(s))
        /\ UNCHANGED swCount
     \/ /\ call[s].len > 0 /\ Queued < 0
        /\ Advance(s, Reader)
     \/ /\ call[s].len > 0 /\ Queued >= 0 /\ Queued <= N \div 2
        /\ \E fault \in Faults:
             IF fault THEN Return(s, -EFAULT) /\ UNCHANGED swCount
                      ELSE Advance(s, Reader)
  /\ UNCHANGED <<hwVars, msiEnable, irqCtx, hwCount, hwCountLast, enable,
                 lock, priv, woken>>

\* The loop stops at the first pass without room and returns size - len.
WriteLoop(s) ==
  /\ pc[s] = "write_loop"
  /\ \/ /\ call[s].len = 0 \/ Queued >= N \div 2
        /\ Return(s, Moved(s))
        /\ UNCHANGED swCount
     \/ /\ call[s].len > 0 /\ Queued < 0                 \* underflow
        /\ Advance(s, Reader)
     \/ /\ call[s].len > 0 /\ Queued >= 0 /\ Queued < N \div 2
        /\ \E fault \in Faults:
             IF fault THEN Return(s, -EFAULT) /\ UNCHANGED swCount
                      ELSE Advance(s, Reader)
  /\ UNCHANGED <<hwVars, msiEnable, irqCtx, hwCount, hwCountLast, enable,
                 lock, priv, woken>>

\* A sleeper that was woken re-tests its condition; a signal ends the
\* wait with -ERESTARTSYS.
WaitCond(s) == IF pc[s] = "read_sleep" THEN Backlog > 0 ELSE Queued < N \div 2
LoopPc(s) == IF pc[s] = "read_sleep" THEN "read_loop" ELSE "write_loop"

Wake(s) ==
  /\ pc[s] \in {"read_sleep", "write_sleep"}
  /\ woken[s]
  /\ woken' = [woken EXCEPT ![s] = FALSE]
  /\ IF WaitCond(s) THEN Goto(s, LoopPc(s)) ELSE UNCHANGED pc
  /\ UNCHANGED <<hwVars, msiEnable, irqCtx, ctrVars, enable, lock, priv, call>>

Signal(s) ==
  /\ pc[s] \in {"read_sleep", "write_sleep"}
  /\ Return(s, -ERESTARTSYS)
  /\ woken' = [woken EXCEPT ![s] = FALSE]
  /\ UNCHANGED <<hwVars, msiEnable, irqCtx, ctrVars, enable, lock, priv>>

(***************************************************************************)
(* poll(): the readiness mask, computed from the counters.                 *)
(***************************************************************************)
PollIn == hwCount[Writer] - swCount[Writer] > 2
PollOut == swCount[Reader] - hwCount[Reader] < N \div 2

(***************************************************************************)
(* The specification.                                                      *)
(***************************************************************************)
\* After probe: engines stopped, MSIs off, no file open.
Init == /\ hwEnable = [d \in Dirs |-> FALSE]
        /\ hwPos = [d \in Dirs |-> 0]
        /\ irqPending = [d \in Dirs |-> FALSE]
        /\ msiEnable = {}
        /\ irqCtx = [d \in Dirs |-> NoIrq]
        /\ hwCount = [d \in Dirs |-> 0]
        /\ hwCountLast = [d \in Dirs |-> 0]
        /\ swCount = [d \in Dirs |-> 0]
        /\ enable = [d \in Dirs |-> 0]
        /\ lock = [d \in Dirs |-> 0]
        /\ pc = [s \in Sessions |-> "closed"]
        /\ priv = [s \in Sessions |-> {}]
        /\ call = [s \in Sessions |-> NoCall]
        /\ woken = [s \in Sessions |-> FALSE]

SessionStep(s) ==
  \/ Open(s) \/ Release(s) \/ ReleaseMsiStore(s) \/ ReleaseStop(s)
  \/ \E d \in Dirs, v \in {0, 1}: IoctlDma(s, d, v)
  \/ DmaEnableMsiLoad(s) \/ DmaEnableMsiStore(s)
  \/ DmaDisableMsiStore(s) \/ DmaDisableStop(s) \/ DmaSet(s)
  \/ \E d \in Dirs: LockRequest(s, d) \/ LockRelease(s, d) \/ MmapUpdate(s, d)
  \/ LockSet(s)
  \/ \E size \in Sizes, nb \in BOOLEAN: ReadCall(s, size, nb) \/ WriteCall(s, size, nb)
  \/ WriteWouldBlock(s)
  \/ ReadLoop(s) \/ WriteLoop(s) \/ Wake(s) \/ Signal(s)

Next == \/ \E s \in Sessions: SessionStep(s)
        \/ \E d \in Dirs: Complete(d) \/ IrqLoad(d) \/ IrqStore(d)

Spec == Init /\ [][Next]_vars

\* Spec 4.1: in loop mode an enabled engine cycles through its ring
\* indefinitely; the MSI of a completion is delivered and the handler runs
\* to its end; the scheduler runs a woken task.  The files themselves owe
\* nothing: a file may stay idle for ever.
Fairness == /\ \A d \in Dirs : /\ WF_vars(Complete(d))
                              /\ WF_vars(IrqLoad(d)) /\ WF_vars(IrqStore(d))
            /\ \A s \in Sessions : WF_vars(Wake(s))
LiveSpec == Spec /\ Fairness

(***************************************************************************)
(* Properties.                                                             *)
(***************************************************************************)
\* No file is inside a DMA ioctl or a release.
ControlQuiet == \A s \in Sessions :
                  pc[s] \in {"closed", Idle, "lock_set", "read_sleep",
                             "read_loop", "write_sleep", "write_loop"}

\* When no enable/disable or release is under way, a direction marked
\* enabled runs its engine with its MSI unmasked, so that its waiters are
\* woken.  The read-modify-write of the shared CSR_PCIE_MSI_ENABLE by two
\* files driving the two directions can lose a bit.
IrqArmedWhileEnabled ==
  ControlQuiet => \A d \in Dirs : enable[d] = 1 => d \in msiEnable /\ hwEnable[d]

\* Spec 4.4 / scenario D: once every file is closed, no direction is left
\* running, locked or with its MSI enabled.
AllClosedQuiet ==
  (\A s \in Sessions : pc[s] = "closed") =>
     \A d \in Dirs : /\ lock[d] = 0 /\ enable[d] = 0
                     /\ ~hwEnable[d] /\ d \notin msiEnable

\* Spec 4.4: at most one file holds the lock of a direction.
LockExclusive == \A d \in Dirs : Cardinality({s \in Sessions : d \in priv[s]}) <= 1

\* Spec 4.3: a non-blocking write fails with "would block" only when
\* there is no room, that is when poll() does not report the file
\* writable (POLLOUT, sw_count - hw_count < N/2).
NonBlockingWriteBlocksOnlyWhenFull ==
  \A s \in Sessions : ENABLED WriteWouldBlock(s) => ~PollOut

\* Spec 8, scenario C: a blocking write that finds the ring full part-way
\* suspends until buffers free and goes on, so a blocking write that
\* returns a count returns its whole request.  write() instead leaves
\* its loop at the first pass without room.
BlockingWriteMovesAll ==
  [][\A s \in Sessions :
       (pc[s] = "write_loop" /\ pc'[s] = Idle /\ ~call[s].nb /\ call'[s].ret >= 0)
          => call'[s].ret = call[s].size]_vars

\* The engine of d will still, before the model's bound, complete a
\* descriptor that raises its MSI at a position of at least need.
MsiAhead(d, need) ==
  \E p \in hwPos[d] + 1 .. MaxHw : p >= need /\ IrqFlag((p - 1) % N)

\* The hw_count that ends a sleep: one more than sw_count for read(), and
\* for write() within N/2 of sw_count.
WakeNeed(d) == IF d = Writer THEN swCount[Writer] + 1
                             ELSE swCount[Reader] - N \div 2 + 1

\* Spec 5: a read() or write() blocked on an enabled direction is woken
\* once the engine's progress gives it data or room: the handler of the
\* MSI updates hw_count and wakes the queue, and the woken task re-tests
\* its condition.  Stated for sleeps that an MSI still to come, before
\* the bound on completions, can end.
SleepersProgress ==
  \A s \in Sessions, d \in Dirs :
     (pc[s] = SleepPc(d) /\ enable[d] = 1 /\ MsiAhead(d, WakeNeed(d)))
        ~> pc[s] # SleepPc(d)

\* Every mapping litepcie_mmap accepts has the length and one of the two
\* offsets MMAP_DMA_INFO reports (a constant: TLC evaluates it once).
MmapOnlyInfo ==
  LET I == MmapInfo
  IN  \A len \in 0 .. 2 * DmaBufferTotalSize,
        pg \in 0 .. (2 * DmaBufferTotalSize) \div PageSize :
         MmapPool(len, pg) # NoPool =>
           /\ len = DmaBufferTotalSize
           /\ pg * PageSize \in {I.tx_offset, I.rx_offset}

\* Spec 4.5 and 7: a zero-copy user reaches the buffer its sw_count names
\* (the next one it hands over with MMAP_DMA_*_UPDATE) in the pool of that
\* direction, mapped at the offset MMAP_DMA_INFO reports for it with the
\* size it reports (tx for the buffers write() fills, rx for those read()
\* drains); a mapping of any other size or offset fails.  The user passes
\* the byte offset to mmap(), the kernel hands litepcie_mmap the page offset.
MmapMatchesInfo ==
  LET I == MmapInfo
      Off(d) == IF d = Reader THEN I.tx_offset ELSE I.rx_offset
      Size(d) == IF d = Reader THEN I.tx_size ELSE I.rx_size
      PoolLen(d) == (IF d = Reader THEN I.tx_count ELSE I.rx_count) * Size(d)
  IN  /\ \A d \in Dirs :
           LET i == swCount[d] % N
           IN  /\ MmapPool(PoolLen(d), Off(d) \div PageSize) = d
               /\ MmapBufferAt(i * Size(d)) = i
      /\ MmapOnlyInfo

\* The channel refines DmaRing (spec 1, 3, 4.1, 4.3): the engine's
\* position is done, hw_count is what software has been told, sw_count is
\* software's count.  read(), write() and the MMAP updates move sw_count
\* one buffer at a time inside the window (a reported buffer to drain,
\* fewer than N/2 queued to fill); the handler moves hw_count forward and
\* never past the engine; open, stop and start clear the counts only of an
\* engine that is being restarted or is left stopped.
Ring == INSTANCE DmaRing WITH running <- hwEnable, done <- hwPos,
                              reported <- hwCount, taken <- swCount
ImplementsDmaRing == Ring!Spec
=============================================================================
