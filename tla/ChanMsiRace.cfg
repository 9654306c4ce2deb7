\* Two files, each holding one direction, enable and disable their DMA at the same time; the MSI enable register is read-modify-written without a lock.
CONSTANTS
  N = 4
  BufferPerIrq = 2
  CountBits = 1
  MaxHw = 3
  Sizes = {1}
  Faults = {FALSE}
  Disciplined = TRUE
  Sessions = {s1, s2}

SPECIFICATION Spec

INVARIANT IrqArmedWhileEnabled
