------------------------------ MODULE DmaRing ------------------------------
(***************************************************************************)
(* What one channel promises its user (spec sections 1, 3, 4.1 and 4.3),  *)
(* with no registers, interrupts or sessions: per direction, an engine     *)
(* that runs or not, the buffers it has completed since it was started,    *)
(* the completions software has been told of, and software's own count.   *)
(*                                                                         *)
(* Software moves its count one buffer at a time and only within a         *)
(* window: a buffer of the writer engine (device to host) is drained only  *)
(* once it is reported complete; a buffer of the reader engine (host to    *)
(* device) is filled only while fewer than N/2 are queued ahead of what    *)
(* the engine has reported consumed.  The reported count follows the       *)
(* engine and never passes it.  Counts go back to zero only when the       *)
(* engine is (re)started, or stopped and left idle.                        *)
(***************************************************************************)
EXTENDS Naturals

CONSTANTS
  N,       \* buffers in the ring of a direction
  Reader,  \* the direction software fills (write())
  Writer   \* the direction software drains (read())

Dirs == {Reader, Writer}

VARIABLES
  running,   \* the engine of each direction is enabled
  done,      \* buffers the engine has completed since it was started
  reported,  \* completions software has been told of
  taken      \* buffers software has drained or filled

vars == <<running, done, reported, taken>>

Init == /\ running = [d \in Dirs |-> FALSE]
        /\ done = [d \in Dirs |-> 0]
        /\ reported = [d \in Dirs |-> 0]
        /\ taken = [d \in Dirs |-> 0]

\* The count software may not reach: a reported completion to drain, or
\* half a ring of room ahead of the engine to fill.
Limit(d) == IF d = Writer THEN reported[d] ELSE reported[d] + N \div 2

\* The engine of d is started on a fresh ring; all counts restart.
Restart(d) == /\ running' = [running EXCEPT ![d] = TRUE]
              /\ done' = [done EXCEPT ![d] = 0]
              /\ reported' = [reported EXCEPT ![d] = 0]
              /\ taken' = [taken EXCEPT ![d] = 0]

\* The engines of D are stopped (or were idle) and their counts cleared.
Quiesce(D) ==
  /\ running' = [d \in Dirs |-> running[d] /\ d \notin D]
  /\ reported' = [d \in Dirs |-> IF d \in D THEN 0 ELSE reported[d]]
  /\ taken' = [d \in Dirs |-> IF d \in D THEN 0 ELSE taken[d]]
  /\ UNCHANGED done

Produce(d) == /\ running[d]
              /\ done' = [done EXCEPT ![d] = @ + 1]
              /\ UNCHANGED <<running, reported, taken>>

Report(d) == /\ \E r \in reported[d] .. done[d] :
                  reported' = [reported EXCEPT ![d] = r]
             /\ UNCHANGED <<running, done, taken>>

Take(d) == /\ taken[d] < Limit(d)
           /\ taken' = [taken EXCEPT ![d] = @ + 1]
           /\ UNCHANGED <<running, done, reported>>

Next == \/ \E d \in Dirs : Take(d) \/ Produce(d) \/ Report(d) \/ Restart(d)
        \/ \E D \in SUBSET Dirs : Quiesce(D)

Spec == Init /\ [][Next]_vars
=============================================================================
