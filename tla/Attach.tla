------------------------------- MODULE Attach -------------------------------
(***************************************************************************)
(* Module load/unload and device attach/detach of the driver (main.c):     *)
(* litepcie_module_init/exit, litepcie_pci_probe/remove and the            *)
(* character devices they create (litepcie_alloc_chdev/free_chdev).        *)
(* What is tracked is what each step acquires and what gives it back:      *)
(* the IRQ handlers registered with request_irq, the IRQ vectors, the      *)
(* cdevs and /dev nodes (named by their minor), the PTP clock, and the     *)
(* global litepcie_minor_idx.  Memory, BAR mappings and the DMA buffers    *)
(* are device-managed (devm_/pcim_/dmam_) and are released by the driver   *)
(* core whenever probe fails or the device goes, so they are not tracked.  *)
(* The driver core serialises probe and remove of a device and probes the  *)
(* devices of one driver one at a time, so each is one step.  Why an       *)
(* allocation fails is not modelled: probe picks the point where it fails. *)
(***************************************************************************)
EXTENDS Naturals, FiniteSets

CONSTANTS
  Devices,     \* PCI functions matching litepcie_pci_ids (model values)
  Vectors,     \* the MSI-X vectors pci_alloc_irq_vectors grants, 1..irqs
  Channels,    \* DMA_CHANNELS
  MinorCount,  \* LITEPCIE_MINOR_COUNT: minors of alloc_chrdev_region
  MaxProbes,   \* bound on the probe calls of a behaviour
  Outcomes     \* the steps at which a probe may fail, "none" for success

\* Where litepcie_pci_probe can fail (see Probe), "none" for not at all.
FailPoints == {"enable", "irq", "cdev", "node", "dma", "ptp", "none"}

ASSUME /\ Vectors \in Nat \ {0} /\ Channels \in Nat \ {0}
       /\ MinorCount \in Nat /\ MaxProbes \in Nat
       /\ Outcomes \subseteq FailPoints

VARIABLES
  loaded,    \* the module is initialised and the PCI driver registered
  region,    \* the chrdev region of alloc_chrdev_region is held
  minorIdx,  \* litepcie_minor_idx
  bound,     \* devices whose probe returned 0
  base,      \* litepcie_dev->minor_base of each device
  handlers,  \* request_irq registrations: <<device, vector>>
  vectors,   \* devices holding IRQ vectors
  cdevs,     \* cdevs added: <<device, minor>>
  nodes,     \* /dev/litepcie nodes created: <<device, minor>>
  ptp,       \* devices with a registered PTP clock
  probes     \* probe calls so far

vars == <<loaded, region, minorIdx, bound, base, handlers, vectors, cdevs,
          nodes, ptp, probes>>
devVars == <<bound, base, handlers, vectors, cdevs, nodes, ptp>>

Init == /\ loaded = FALSE /\ region = FALSE /\ minorIdx = 0
        /\ bound = {} /\ base = [d \in Devices |-> 0]
        /\ handlers = {} /\ vectors = {} /\ cdevs = {} /\ nodes = {}
        /\ ptp = {} /\ probes = 0

\* The channels' minors of a device whose minor_base is b.
Minors(d, b) == {d} \X (b .. b + Channels - 1)
Irqs == 0 .. Vectors - 1

(***************************************************************************)
(* litepcie_module_init: class_create, alloc_chrdev_region (minors from 0  *)
(* on), pci_register_driver; each failure undoes the earlier steps.  The   *)
(* probes a registration runs are the Probe steps that follow it.          *)
(***************************************************************************)
ModuleInit ==
  /\ ~loaded
  /\ \/ /\ loaded' = TRUE /\ region' = TRUE /\ minorIdx' = 0
     \/ UNCHANGED <<loaded, region, minorIdx>>     \* a step failed
  /\ UNCHANGED <<devVars, probes>>

(***************************************************************************)
(* litepcie_alloc_chdev: cdev_add for each channel from litepcie_minor_idx *)
(* on, then device_create for each; litepcie_minor_idx moves past them     *)
(* only when all succeed.  A failing cdev_add or device_create destroys    *)
(* the nodes made so far and calls cdev_del on every channel.              *)
(***************************************************************************)
AllocChdev(d, fail) ==
  /\ base' = [base EXCEPT ![d] = minorIdx]
  /\ IF fail \in {"cdev", "node"}
     THEN UNCHANGED <<cdevs, nodes, minorIdx>>
     ELSE /\ cdevs' = cdevs \cup Minors(d, minorIdx)
          /\ nodes' = nodes \cup Minors(d, minorIdx)
          /\ minorIdx' = minorIdx + Channels

\* litepcie_free_chdev: device_destroy and cdev_del for each channel; it
\* leaves litepcie_minor_idx alone.
FreeChdev(d) == /\ nodes' = nodes \ Minors(d, base[d])
                /\ cdevs' = cdevs \ Minors(d, base[d])

\* free_irq(irq, cookie) removes the registrations of regs made with
\* that cookie; request_irq was given the litepcie_dev.
FreeIrq(regs, cookie) == IF cookie = "litepcie_dev" THEN regs ELSE {}

(***************************************************************************)
(* litepcie_pci_probe.  fail names the step that fails:                    *)
(*   "enable"  anything up to pci_alloc_irq_vectors (fail1);               *)
(*   "irq"     request_irq of vector k: the loop then frees vectors        *)
(*             0..k-1 with free_irq(irq, dev), dev the pci_dev, and goes   *)
(*             to fail2;                                                   *)
(*   "cdev", "node"  litepcie_alloc_chdev (fail2);                         *)
(*   "dma"     litepcie_dma_init (fail3: free_chdev, then fail2);          *)
(*   "ptp"     ptp_clock_register: returns at once;                        *)
(*   "none"    probe returns 0 and the device is bound.                    *)
(* fail2 is pci_free_irq_vectors alone: it frees no handler.               *)
(***************************************************************************)
Requested(d, k) == {d} \X (0 .. k - 1)

Probe(d, fail, k) ==
  /\ loaded /\ d \notin bound /\ probes < MaxProbes
  /\ probes' = probes + 1
  /\ CASE fail = "enable" ->
            UNCHANGED <<devVars, minorIdx>>
       [] fail = "irq" ->
            /\ handlers' = (handlers \cup Requested(d, k))
                             \ FreeIrq(Requested(d, k), "pci_dev")
            /\ UNCHANGED <<bound, base, vectors, cdevs, nodes, ptp, minorIdx>>
       [] fail \in {"cdev", "node"} ->
            /\ handlers' = handlers \cup Requested(d, Vectors)
            /\ AllocChdev(d, fail)
            /\ UNCHANGED <<bound, vectors, ptp>>
       [] fail = "dma" ->
            \* alloc_chdev succeeded and free_chdev undid its cdevs and nodes
            /\ handlers' = handlers \cup Requested(d, Vectors)
            /\ base' = [base EXCEPT ![d] = minorIdx]
            /\ minorIdx' = minorIdx + Channels
            /\ UNCHANGED <<bound, vectors, cdevs, nodes, ptp>>
       [] fail = "ptp" ->
            /\ handlers' = handlers \cup Requested(d, Vectors)
            /\ vectors' = vectors \cup {d}
            /\ AllocChdev(d, "ok")
            /\ UNCHANGED <<bound, ptp>>
       [] fail = "none" ->
            /\ handlers' = handlers \cup Requested(d, Vectors)
            /\ vectors' = vectors \cup {d}
            /\ AllocChdev(d, "ok")
            /\ ptp' = ptp \cup {d}
            /\ bound' = bound \cup {d}
  /\ UNCHANGED <<loaded, region>>

(***************************************************************************)
(* litepcie_pci_remove: unregister the PTP clock, stop the DMAs, mask the  *)
(* MSIs, free_irq(irq, litepcie_dev) for each vector, free_chdev,          *)
(* pci_free_irq_vectors.  Stopping the engines belongs to LitePCIeChan.    *)
(***************************************************************************)
Remove(d) ==
  /\ d \in bound
  /\ ptp' = ptp \ {d}
  /\ handlers' = handlers \ FreeIrq(Requested(d, Vectors), "litepcie_dev")
  /\ FreeChdev(d)
  /\ vectors' = vectors \ {d}
  /\ bound' = bound \ {d}
  /\ UNCHANGED <<loaded, region, minorIdx, base, probes>>

\* litepcie_module_exit: pci_unregister_driver removes every bound device,
\* then the chrdev region and the class go.
ModuleExit ==
  /\ loaded
  /\ bound' = {}
  /\ ptp' = ptp \ bound
  /\ handlers' = handlers \ UNION {Requested(d, Vectors) : d \in bound}
  /\ cdevs' = cdevs \ UNION {Minors(d, base[d]) : d \in bound}
  /\ nodes' = nodes \ UNION {Minors(d, base[d]) : d \in bound}
  /\ vectors' = vectors \ bound
  /\ loaded' = FALSE /\ region' = FALSE
  /\ UNCHANGED <<minorIdx, base, probes>>

Next == \/ ModuleInit \/ ModuleExit
        \/ \E d \in Devices :
             \/ Remove(d)
             \/ \E fail \in Outcomes \ {"irq"} : Probe(d, fail, 0)
             \/ \E k \in Irqs : "irq" \in Outcomes /\ Probe(d, "irq", k)

Spec == Init /\ [][Next]_vars

(***************************************************************************)
(* Properties.                                                             *)
(***************************************************************************)
TypeOK == /\ loaded \in BOOLEAN /\ region \in BOOLEAN
          /\ minorIdx \in Nat /\ bound \subseteq Devices
          /\ base \in [Devices -> Nat] /\ handlers \subseteq Devices \X Irqs
          /\ vectors \subseteq Devices /\ ptp \subseteq Devices
          /\ cdevs \subseteq Devices \X Nat /\ nodes \subseteq Devices \X Nat
          /\ probes \in 0 .. MaxProbes

\* Spec 7: resource exhaustion at attach is fatal and no channel becomes
\* usable.  A device whose probe failed (or that was removed) keeps no
\* IRQ handler (request_irq was given its litepcie_dev, which devm frees
\* with the failed probe), no IRQ vector, no cdev or /dev node and no PTP
\* clock: the error paths of litepcie_pci_probe undo what it acquired.
ProbeFailureLeavesNothing ==
  \A d \in Devices \ bound :
     /\ handlers \cap ({d} \X Irqs) = {}
     /\ d \notin vectors \cup ptp
     /\ \A c \in cdevs \cup nodes : c[1] # d

\* Every cdev and /dev node the driver creates uses a minor of the region
\* litepcie_module_init reserved with alloc_chrdev_region(..., 0,
\* LITEPCIE_MINOR_COUNT, ...).  litepcie_alloc_chdev takes minors from
\* litepcie_minor_idx on, which no remove or failure gives back.
MinorsWithinRegion == \A c \in cdevs \cup nodes : c[2] < MinorCount
====
