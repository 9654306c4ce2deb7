\* Spec 7: a probe that fails leaves no channel usable and holds nothing;
\* the error paths of litepcie_pci_probe leave IRQ handlers (and, after a
\* failed ptp_clock_register, everything) behind.
CONSTANTS
  Devices = {dev1}
  Vectors = 2
  Channels = 1
  MinorCount = 32
  MaxProbes = 2
  Outcomes = {"enable", "irq", "cdev", "node", "dma", "ptp", "none"}

SPECIFICATION Spec

INVARIANT ProbeFailureLeavesNothing
