\* One flash tool and a flash that may not finish before SPI_TIMEOUT status reads.
CONSTANTS
  Callers = {c1}
  Words = {1, 2}
  TxLens = {4, 8, 40}
  SpiTimeout = 2
  SpiWithinTimeout = FALSE

SPECIFICATION Spec

PROPERTY SpiTimeoutSurfaced
