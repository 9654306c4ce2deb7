------------------------------ MODULE PtpClock ------------------------------
(***************************************************************************)
(* The PTP hardware clock of the driver (main.c): gettimex64, settime64    *)
(* and adjtime take tmreg_lock around the time controller registers;       *)
(* getcrosststamp runs litepcie_phc_get_syncdevicetime with no lock:       *)
(* it snapshots the system clocks into the shared dev->snapshot, triggers  *)
(* the PTM requester, polls its VALID bit at most 100 times and reads t1   *)
(* and the master time t2, each as two 32-bit halves.  The device clock    *)
(* is frozen here (the time that elapses between register accesses is not  *)
(* modelled); a time value is a small number.  A PTM result is named by    *)
(* the cycle that produced it.  The requester is gateware, outside this    *)
(* repository: a trigger starts a cycle and clears VALID, the cycle ends   *)
(* with its t1/t2 in the result registers and VALID set.                   *)
(***************************************************************************)
EXTENDS Integers

CONSTANTS
  TimeCallers,  \* threads calling gettimex64 / settime64 / adjtime
  PtmCallers,   \* threads calling getcrosststamp
  Values,       \* times settime64 may set
  Deltas,       \* adjustments adjtime may apply
  TimeBound,    \* bound on the device time
  PtmTries,     \* the `count = 100` of the PTM poll loop
  MaxCycles,    \* bound on the PTM cycles triggered
  NoOwner       \* tmreg_lock is free

ASSUME /\ Values \subseteq Nat /\ Deltas \subseteq Nat
       /\ TimeBound \in Nat /\ PtmTries \in Nat \ {0} /\ MaxCycles \in Nat

VARIABLES
  time,       \* the time controller's clock
  expect,     \* history: the time the completed set/adjust calls ask for
  tmLock,     \* tmreg_lock: its holder or NoOwner
  tpc,        \* where each time caller is
  loc,        \* the time an adjtime caller has read
  ptmCycle,   \* PTM cycles triggered so far
  ptmReq,     \* a triggered cycle is in progress
  ptmValid,   \* PTM_STATUS_VALID
  t1,         \* PTM_T1_TIME_{L,H}: cycle of each half
  t2,         \* PTM_MASTER_TIME_{L,H}
  snapshot,   \* dev->snapshot: the caller that last wrote it
  ppc,        \* where each cross-timestamp caller is
  count,      \* its poll counter
  trig,       \* history: the cycle its trigger started
  got         \* the halves it has read so far

timeVars == <<time, expect, tmLock, tpc, loc>>
ptmVars == <<ptmCycle, ptmReq, ptmValid, t1, t2, snapshot, ppc, count, trig, got>>
vars == <<timeVars, ptmVars>>

NoHalves == [t1l |-> 0, t1h |-> 0, t2l |-> 0, t2h |-> 0]

Init == /\ time = 0 /\ expect = 0 /\ tmLock = NoOwner
        /\ tpc = [c \in TimeCallers |-> "idle"]
        /\ loc = [c \in TimeCallers |-> 0]
        /\ ptmCycle = 0 /\ ptmReq = FALSE /\ ptmValid = FALSE
        /\ t1 = [l |-> 0, h |-> 0] /\ t2 = [l |-> 0, h |-> 0]
        /\ snapshot = NoOwner
        /\ ppc = [p \in PtmCallers |-> "idle"]
        /\ count = [p \in PtmCallers |-> 0]
        /\ trig = [p \in PtmCallers |-> 0]
        /\ got = [p \in PtmCallers |-> NoHalves]

(***************************************************************************)
(* gettimex64, settime64, adjtime.                                         *)
(***************************************************************************)
\* spin_lock_irqsave(&dev->tmreg_lock) on entry of each of the three.
Acquire(c, first) == /\ tpc[c] = "idle"
                     /\ tmLock = NoOwner
                     /\ tmLock' = c
                     /\ tpc' = [tpc EXCEPT ![c] = first]

\* gettimex64: litepcie_read_time latches the clock, reads ns and s, and
\* the lock is dropped.
GetTime(c) ==
  \/ /\ Acquire(c, "gettime")
     /\ UNCHANGED <<time, expect, loc, ptmVars>>
  \/ /\ tpc[c] = "gettime"
     /\ tmLock' = NoOwner
     /\ tpc' = [tpc EXCEPT ![c] = "idle"]
     /\ UNCHANGED <<time, expect, loc, ptmVars>>

\* settime64: litepcie_write_time writes the override ns and s and
\* strobes CONTROL_OVERRIDE, which loads them into the clock.
SetTime(c, v) ==
  \/ /\ Acquire(c, "settime")
     /\ UNCHANGED <<time, expect, loc, ptmVars>>
  \/ /\ tpc[c] = "settime"
     /\ time' = v
     /\ expect' = v
     /\ tmLock' = NoOwner
     /\ tpc' = [tpc EXCEPT ![c] = "idle"]
     /\ UNCHANGED <<loc, ptmVars>>

\* Mutant: adjtime entered without taking tmreg_lock.
AdjCallUnlocked(c) == /\ tpc[c] = "idle"
                      /\ tpc' = [tpc EXCEPT ![c] = "adj_read"]
                      /\ UNCHANGED <<time, expect, tmLock, loc, ptmVars>>

AdjCall(c) == /\ \A d \in Deltas : expect + d <= TimeBound
              /\ Acquire(c, "adj_read")
              /\ UNCHANGED <<time, expect, loc, ptmVars>>

\* adjtime: read the time, add delta, write it back, unlock.
AdjRead(c) == /\ tpc[c] = "adj_read"
              /\ loc' = [loc EXCEPT ![c] = time]
              /\ tpc' = [tpc EXCEPT ![c] = "adj_write"]
              /\ UNCHANGED <<time, expect, tmLock, ptmVars>>

AdjWrite(c, d) ==
  /\ tpc[c] = "adj_write"
  /\ time' = loc[c] + d
  /\ expect' = expect + d
  /\ tmLock' = NoOwner
  /\ tpc' = [tpc EXCEPT ![c] = "idle"]
  /\ UNCHANGED <<loc, ptmVars>>

(***************************************************************************)
(* getcrosststamp -> litepcie_phc_get_syncdevicetime, no lock.             *)
(***************************************************************************)
\* ktime_get_snapshot(&dev->snapshot), then ENABLE | TRIGGER.
XtsCall(p) ==
  /\ ppc[p] = "idle"
  /\ ptmCycle < MaxCycles
  /\ snapshot' = p
  /\ ptmCycle' = ptmCycle + 1
  /\ ptmReq' = TRUE
  /\ ptmValid' = FALSE
  /\ trig' = [trig EXCEPT ![p] = ptmCycle + 1]
  /\ count' = [count EXCEPT ![p] = PtmTries]
  /\ got' = [got EXCEPT ![p] = NoHalves]
  /\ ppc' = [ppc EXCEPT ![p] = "poll"]
  /\ UNCHANGED <<timeVars, t1, t2>>

\* The requester ends the current cycle.
PtmComplete == /\ ptmReq
               /\ t1' = [l |-> ptmCycle, h |-> ptmCycle]
               /\ t2' = [l |-> ptmCycle, h |-> ptmCycle]
               /\ ptmValid' = TRUE
               /\ ptmReq' = FALSE
               /\ UNCHANGED <<timeVars, ptmCycle, snapshot, ppc, count, trig, got>>

\* Mutant: the loop written while (count--): after the last try count is
\* -1, !count is false and the reads go ahead without VALID.
PtmPollPostDec(p) ==
  /\ ppc[p] = "poll"
  /\ IF ptmValid
     THEN ppc' = [ppc EXCEPT ![p] = "t1_l"] /\ UNCHANGED count
     ELSE /\ count' = [count EXCEPT ![p] = @ - 1]
          /\ ppc' = [ppc EXCEPT ![p] = IF count[p] = 0 THEN "t1_l" ELSE "poll"]
  /\ UNCHANGED <<timeVars, ptmCycle, ptmReq, ptmValid, t1, t2, snapshot, trig, got>>

\* Mutant: the loop written without its counter, do { ... } while (1).
PtmPollNoCount(p) ==
  /\ ppc[p] = "poll"
  /\ IF ptmValid
     THEN ppc' = [ppc EXCEPT ![p] = "t1_l"] /\ UNCHANGED count
     ELSE UNCHANGED <<ppc, count>>
  /\ UNCHANGED <<timeVars, ptmCycle, ptmReq, ptmValid, t1, t2, snapshot, trig, got>>

PtmPoll(p) ==
  /\ ppc[p] = "poll"
  /\ IF ptmValid
     THEN ppc' = [ppc EXCEPT ![p] = "t1_l"] /\ UNCHANGED count
     ELSE /\ count' = [count EXCEPT ![p] = @ - 1]
          /\ ppc' = [ppc EXCEPT ![p] = IF count[p] - 1 = 0 THEN "idle" ELSE "poll"]
  /\ UNCHANGED <<timeVars, ptmCycle, ptmReq, ptmValid, t1, t2, snapshot, trig, got>>

\* The four register reads t1 L, t1 H, t2 L, t2 H, in the code's order;
\* the last one returns 0 and get_device_system_crosststamp goes on with
\* dev->snapshot as the history.
ReadHalf(p, from, to, field, reg) ==
  /\ ppc[p] = from
  /\ got' = [got EXCEPT ![p][field] = reg]
  /\ ppc' = [ppc EXCEPT ![p] = to]
  /\ UNCHANGED <<timeVars, ptmCycle, ptmReq, ptmValid, t1, t2, snapshot, count, trig>>

ReadT1L(p) == ReadHalf(p, "t1_l", "t1_h", "t1l", t1.l)
ReadT1H(p) == ReadHalf(p, "t1_h", "t2_l", "t1h", t1.h)
ReadT2L(p) == ReadHalf(p, "t2_l", "t2_h", "t2l", t2.l)
ReadT2H(p) == ReadHalf(p, "t2_h", "idle", "t2h", t2.h)

Next ==
  \/ PtmComplete
  \/ \E c \in TimeCallers :
       \/ GetTime(c) \/ \E v \in Values : SetTime(c, v)
       \/ AdjCall(c) \/ AdjRead(c) \/ \E d \in Deltas : AdjWrite(c, d)
  \/ \E p \in PtmCallers :
       \/ XtsCall(p) \/ PtmPoll(p)
       \/ ReadT1L(p) \/ ReadT1H(p) \/ ReadT2L(p) \/ ReadT2H(p)

Spec == Init /\ [][Next]_vars

\* A thread inside getcrosststamp runs its code on: the poll loop and the
\* four reads are kernel code that no other caller can hold up (none of it
\* waits on a lock).  The PTM requester gets no fairness: the gateware may
\* never answer a trigger.
PtmStep(p) == /\ ppc[p] # "idle"
              /\ \/ PtmPoll(p)
                 \/ ReadT1L(p) \/ ReadT1H(p) \/ ReadT2L(p) \/ ReadT2H(p)
LiveSpec == Spec /\ \A p \in PtmCallers : WF_vars(PtmStep(p))

(***************************************************************************)
(* Properties.                                                             *)
(***************************************************************************)
TypeOK ==
  /\ time \in 0 .. TimeBound /\ expect \in 0 .. TimeBound
  /\ tmLock \in TimeCallers \cup {NoOwner}
  /\ tpc \in [TimeCallers -> {"idle", "gettime", "settime", "adj_read", "adj_write"}]
  /\ ptmCycle \in 0 .. MaxCycles /\ ptmReq \in BOOLEAN /\ ptmValid \in BOOLEAN
  /\ count \in [PtmCallers -> 0 .. PtmTries]
  /\ ppc \in [PtmCallers -> {"idle", "poll", "t1_l", "t1_h", "t2_l", "t2_h"}]

\* No set or adjustment is lost: the clock shows the last settime64 value
\* plus every adjtime delta applied after it.  adjtime reads and writes
\* the clock in separate steps; only tmreg_lock keeps another caller's
\* write from falling between them.
NoLostAdjustment == time = expect

\* A cross-timestamp that succeeds returns t1 and t2 (all four halves)
\* from one PTM cycle that its own trigger started or a later one, and
\* hands get_device_system_crosststamp its own system-clock snapshot.
CrossTimestampConsistent ==
  [][\A p \in PtmCallers :
       ReadT2H(p) =>
         LET h == got'[p]
         IN  /\ h.t1l = h.t1h /\ h.t1h = h.t2l /\ h.t2l = h.t2h
             /\ h.t2h >= trig[p]
             /\ snapshot = p]_vars

CrossTimestampReturns == \A p \in PtmCallers : ppc[p] # "idle" ~> ppc[p] = "idle"
=============================================================================
