\* A non-blocking write on an empty ring: the code returns -EAGAIN when hw_count == sw_count.
CONSTANTS
  N = 4
  BufferPerIrq = 2
  CountBits = 1
  MaxHw = 3
  Sizes = {1}
  Faults = {FALSE}
  Disciplined = TRUE
  Sessions = {s1}

SPECIFICATION Spec

INVARIANT NonBlockingWriteBlocksOnlyWhenFull
