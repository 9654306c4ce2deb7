CONSTANTS
  N = 4
  BufferPerIrq = 2
  CountBits = 1
  MaxPos = 20

SPECIFICATION Spec

INVARIANT CountExact
PROPERTY ReportLatency
CHECK_DEADLOCK FALSE
