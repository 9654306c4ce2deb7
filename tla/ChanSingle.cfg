\* One file drives the channel, following liblitepcie's discipline; the
\* interrupt handler and the two engines run concurrently with it.
CONSTANTS
  N = 4
  BufferPerIrq = 2
  CountBits = 1
  MaxHw = 4
  Sizes = {1, 2}
  Faults = {FALSE, TRUE}
  Disciplined = TRUE
  Sessions = {s1}

SPECIFICATION LiveSpec

INVARIANT IrqArmedWhileEnabled
INVARIANT AllClosedQuiet
INVARIANT MmapMatchesInfo
PROPERTY SleepersProgress
PROPERTY ImplementsDmaRing
