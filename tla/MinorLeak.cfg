\* Rebinding the device: each probe takes DMA_CHANNELS new minors and no
\* remove gives them back, so the 33rd probe uses a minor outside the
\* LITEPCIE_MINOR_COUNT region.  Real constants: one DMA channel (csr.h
\* has only DMA0), 32 minors.
CONSTANTS
  Devices = {dev1}
  Vectors = 1
  Channels = 1
  MinorCount = 32
  MaxProbes = 33
  Outcomes = {"none"}

SPECIFICATION Spec

INVARIANT MinorsWithinRegion
