\* Two threads setting and adjusting the clock, and one taking cross-timestamps.
CONSTANTS
  TimeCallers = {a1, a2}
  PtmCallers = {p1}
  Values = {1}
  Deltas = {1}
  TimeBound = 3
  PtmTries = 2
  MaxCycles = 3
  NoOwner = NoOwner

SPECIFICATION LiveSpec

INVARIANT TypeOK
INVARIANT NoLostAdjustment
PROPERTY CrossTimestampConsistent
PROPERTY CrossTimestampReturns
 
