\* Spec 8, scenario C: a blocking write of more buffers than the ring has
\* room for should suspend and continue; write() returns short instead.
CONSTANTS
  N = 4
  BufferPerIrq = 2
  CountBits = 1
  MaxHw = 3
  Sizes = {2}
  Faults = {FALSE}
  Disciplined = TRUE
  Sessions = {s1}

SPECIFICATION Spec

PROPERTY BlockingWriteMovesAll
