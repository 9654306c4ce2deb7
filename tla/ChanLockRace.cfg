\* Two files request the lock of a direction at the same time; the test and the set of dma.<dir>_lock are separate steps.
CONSTANTS
  N = 4
  BufferPerIrq = 2
  CountBits = 1
  MaxHw = 3
  Sizes = {1}
  Faults = {FALSE}
  Disciplined = TRUE
  Sessions = {s1, s2}

SPECIFICATION Spec

INVARIANT LockExclusive
