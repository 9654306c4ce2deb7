\* A file that enables a direction without holding its lock, then closes: release stops only the directions the file locked.
CONSTANTS
  N = 4
  BufferPerIrq = 2
  CountBits = 1
  MaxHw = 3
  Sizes = {1}
  Faults = {FALSE}
  Disciplined = FALSE
  Sessions = {s1}

SPECIFICATION Spec

INVARIANT AllClosedQuiet
