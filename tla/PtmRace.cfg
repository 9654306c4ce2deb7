\* Two threads taking cross-timestamps at the same time.
CONSTANTS
  TimeCallers = {a1, a2}
  PtmCallers = {p1, p2}
  Values = {1}
  Deltas = {1}
  TimeBound = 3
  PtmTries = 2
  MaxCycles = 3
  NoOwner = NoOwner

SPECIFICATION Spec

PROPERTY CrossTimestampConsistent
