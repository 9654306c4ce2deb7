------------------------------ MODULE FlashSpi ------------------------------
(***************************************************************************)
(* The SPI flash access of the driver: LITEPCIE_IOCTL_FLASH calls          *)
(* litepcie_flash_spi (main.c), which writes the 64-bit command into the   *)
(* two MOSI registers, starts the SPI master, polls its status at most     *)
(* SPI_TIMEOUT times and reads the 64-bit answer from the two MISO         *)
(* registers.  Nothing serialises callers: every register access of one    *)
(* call may interleave with those of another.  A command is a pair of      *)
(* words <<hi, lo>>; the flash answers a command with a reply determined   *)
(* by it (Reply), so that an answer can be traced to its command.          *)
(***************************************************************************)
EXTENDS Naturals

CONSTANTS
  Callers,          \* threads issuing the ioctl (model values)
  Words,            \* values of one 32-bit half of a command
  TxLens,           \* tx_len values a caller may pass
  SpiTimeout,       \* SPI_TIMEOUT: status reads before the loop gives up
  SpiWithinTimeout  \* the flash finishes before the poll loop runs out

ASSUME /\ SpiTimeout \in Nat \ {0}
       /\ TxLens \subseteq Nat /\ SpiWithinTimeout \in BOOLEAN
       /\ 0 \notin Words

\* What the flash shifts back for a command: modelled as the command
\* itself, which is enough to tell the answers of two commands apart.
Reply(cmd) == cmd

\* 0 is the content of a register nobody has written.
NoWord == 0
Cmds == Words \X Words

VARIABLES
  mosi,     \* CSR_FLASH_SPI_MOSI (hi at +0, lo at +4)
  miso,     \* CSR_FLASH_SPI_MISO (hi at +0, lo at +4)
  spiBusy,  \* the SPI master is shifting
  spiCmd,   \* the command it latched at START
  spiDone,  \* SPI_STATUS_DONE
  pc,       \* where each caller is
  tx,       \* m->tx_data of the call
  i,        \* the poll counter of the call
  rxHi,     \* the MISO half read first
  sawDone,  \* history: the call's poll loop saw SPI_STATUS_DONE
  answered  \* history: the last value each caller returned with 0

vars == <<mosi, miso, spiBusy, spiCmd, spiDone, pc, tx, i, rxHi, sawDone,
          answered>>
hwVars == <<mosi, miso, spiBusy, spiCmd, spiDone>>

Init == /\ mosi = <<NoWord, NoWord>>
        /\ miso = <<NoWord, NoWord>>
        /\ spiBusy = FALSE
        /\ spiCmd = <<NoWord, NoWord>>
        /\ spiDone = FALSE
        /\ pc = [c \in Callers |-> "idle"]
        /\ tx = [c \in Callers |-> <<NoWord, NoWord>>]
        /\ i = [c \in Callers |-> 0]
        /\ rxHi = [c \in Callers |-> NoWord]
        /\ sawDone = [c \in Callers |-> FALSE]
        /\ answered = [c \in Callers |-> <<NoWord, NoWord>>]

\* The SPI master: START latches the MOSI pair and clears DONE; the
\* transfer ends with the reply in MISO and DONE set.
SpiFinish == /\ spiBusy
             /\ miso' = Reply(spiCmd)
             /\ spiBusy' = FALSE
             /\ spiDone' = TRUE
             /\ UNCHANGED <<mosi, spiCmd, pc, tx, i, rxHi, sawDone, answered>>

\* A tx_len outside 8..40 returns -EINVAL before any register access;
\* otherwise the high half of the command goes to MOSI.
FlashCall(c, cmd, len) ==
  /\ pc[c] = "idle"
  /\ IF len < 8 \/ len > 40
     THEN UNCHANGED vars
     ELSE /\ mosi' = [mosi EXCEPT ![1] = cmd[1]]
          /\ pc' = [pc EXCEPT ![c] = "mosi_lo"]
          /\ tx' = [tx EXCEPT ![c] = cmd]
          /\ sawDone' = [sawDone EXCEPT ![c] = FALSE]
          /\ UNCHANGED <<miso, spiBusy, spiCmd, spiDone, i, rxHi, answered>>

MosiLo(c) ==
  /\ pc[c] = "mosi_lo"
  /\ mosi' = [mosi EXCEPT ![2] = tx[c][2]]
  /\ pc' = [pc EXCEPT ![c] = "control"]
  /\ UNCHANGED <<miso, spiBusy, spiCmd, spiDone, tx, i, rxHi, sawDone, answered>>

\* SPI_CTRL_START with the length; the udelay(16) that follows is timing.
Control(c) ==
  /\ pc[c] = "control"
  /\ spiBusy' = TRUE
  /\ spiCmd' = mosi
  /\ spiDone' = FALSE
  /\ pc' = [pc EXCEPT ![c] = "poll"]
  /\ i' = [i EXCEPT ![c] = 0]
  /\ UNCHANGED <<mosi, miso, tx, rxHi, sawDone, answered>>

\* One read of SPI_STATUS: DONE leaves the loop; otherwise the count goes
\* on, and the loop falls through after SPI_TIMEOUT reads.  Under
\* SpiWithinTimeout the last read does not come before DONE.
Poll(c) ==
  /\ pc[c] = "poll"
  /\ SpiWithinTimeout => (spiDone \/ i[c] + 1 < SpiTimeout)
  /\ IF spiDone
     THEN /\ pc' = [pc EXCEPT ![c] = "miso_hi"]
          /\ sawDone' = [sawDone EXCEPT ![c] = TRUE]
          /\ UNCHANGED i
     ELSE /\ i' = [i EXCEPT ![c] = @ + 1]
          /\ pc' = [pc EXCEPT ![c] = IF i[c] + 1 = SpiTimeout THEN "miso_hi"
                                                              ELSE "poll"]
          /\ UNCHANGED sawDone
  /\ UNCHANGED <<hwVars, tx, rxHi, answered>>

MisoHi(c) ==
  /\ pc[c] = "miso_hi"
  /\ rxHi' = [rxHi EXCEPT ![c] = miso[1]]
  /\ pc' = [pc EXCEPT ![c] = "miso_lo"]
  /\ UNCHANGED <<hwVars, tx, i, sawDone, answered>>

\* The low half, then return 0 with rx_data = hi << 32 | lo.
MisoLo(c) ==
  /\ pc[c] = "miso_lo"
  /\ answered' = [answered EXCEPT ![c] = <<rxHi[c], miso[2]>>]
  /\ pc' = [pc EXCEPT ![c] = "idle"]
  /\ UNCHANGED <<hwVars, tx, i, rxHi, sawDone>>

Next == \/ SpiFinish
        \/ \E c \in Callers :
             \/ \E cmd \in Cmds, len \in TxLens : FlashCall(c, cmd, len)
             \/ MosiLo(c) \/ Control(c) \/ Poll(c) \/ MisoHi(c) \/ MisoLo(c)

Spec == Init /\ [][Next]_vars

(***************************************************************************)
(* Properties.                                                             *)
(***************************************************************************)
Regs == (Words \cup {NoWord}) \X (Words \cup {NoWord})

TypeOK == /\ mosi \in Regs /\ miso \in Regs /\ spiCmd \in Regs
          /\ spiBusy \in BOOLEAN /\ spiDone \in BOOLEAN
          /\ pc \in [Callers -> {"idle", "mosi_lo", "control", "poll",
                                 "miso_hi", "miso_lo"}]
          /\ tx \in [Callers -> Regs] /\ i \in [Callers -> 0 .. SpiTimeout]
          /\ rxHi \in [Callers -> Words \cup {NoWord}]
          /\ sawDone \in [Callers -> BOOLEAN] /\ answered \in [Callers -> Regs]

\* Spec 7: a hardware wait that never sees "done" is surfaced as a
\* timeout after a bounded number of polls; litepcie_flash_spi returns 0
\* whether or not its poll loop saw SPI_STATUS_DONE.
SpiTimeoutSurfaced ==
  [][\A c \in Callers : MisoLo(c) => sawDone[c]]_vars
=============================================================================
