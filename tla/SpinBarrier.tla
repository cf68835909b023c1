---------------------------- MODULE SpinBarrier -----------------------------
(***************************************************************************)
(* spinBarrier of ff/barrier.hpp, with which FastFlow starts the threads   *)
(* of a farm together and ends the iterations of a parallel loop.  Each    *)
(* thread alternates between two counters: it flips its own flag, counts   *)
(* itself in the counter the flag names, and spins until that counter is 0 *)
(* again; the last to arrive resets it.  A fast thread is in the next      *)
(* round, on the other counter, while slow ones still spin in this one.    *)
(* This module has the steps; its users, FFThreads and ParallelFor, say    *)
(* which thread enters when and under which tid.                           *)
(***************************************************************************)
EXTENDS Naturals, FiniteSets

CONSTANTS BarThreads,           \* the threads that use the barrier
          Tids                  \* the indexes of barArray

ASSUME BarAssumption == IsFiniteSet(BarThreads) /\ BarThreads \subseteq Tids

VARIABLES team,                 \* _barrier: how many threads must arrive
          barArray,             \* the flag of each tid, 0 or 1
          B,                    \* the two counters
          bpc,                  \* where each thread is in doBarrier()
          whichBar,             \* the counter it waits for
          entered, passed       \* history: rounds begun and completed

barrier == <<team, barArray, B>>
waiting == <<bpc, whichBar>>
rounds == <<entered, passed>>
barVars == <<barrier, waiting, rounds>>

\* A barrier for k threads nobody has used yet.
BarStart(k) == /\ team = k
               /\ barArray = [i \in Tids |-> 0]
               /\ B = [b \in {0, 1} |-> 0]
               /\ bpc = [t \in BarThreads |-> "out"]
               /\ whichBar = [t \in BarThreads |-> 0]
               /\ entered = [t \in BarThreads |-> 0]
               /\ passed = [t \in BarThreads |-> 0]

\* The constructor: for 0 threads, so that the first barrierSetup() sets everything.
BarInit == BarStart(0)

\* barrierSetup(): nothing is reset if the number of threads stays the same.
BarrierSetup(k) ==
  /\ IF k = team THEN UNCHANGED barrier
     ELSE /\ barArray' = [i \in Tids |-> 0]
          /\ B' = [b \in {0, 1} |-> 0]
          /\ team' = k
  /\ UNCHANGED <<waiting, rounds>>

\* barArray[tid] ^= true
Flipped(flag) == 1 - flag

FlipFlag(t, tid) ==
  /\ bpc[t] = "out"
  /\ barArray' = [barArray EXCEPT ![tid] = Flipped(@)]
  /\ whichBar' = [whichBar EXCEPT ![t] = Flipped(barArray[tid])]
  /\ entered' = [entered EXCEPT ![t] = @ + 1]
  /\ bpc' = [bpc EXCEPT ![t] = "arrive"]
  /\ UNCHANGED <<team, B, passed>>

\* c = ++B[whichBar], and the comparison with _barrier
Arrive(t) ==
  /\ bpc[t] = "arrive"
  /\ B' = [B EXCEPT ![whichBar[t]] = @ + 1]
  /\ bpc' = [bpc EXCEPT ![t] = IF B[whichBar[t]] + 1 = team THEN "last" ELSE "spin"]
  /\ UNCHANGED <<team, barArray, whichBar, rounds>>

\* The last one resets the counter, the others see it at 0.
Leave(t) ==
  /\ passed' = [passed EXCEPT ![t] = @ + 1]
  /\ bpc' = [bpc EXCEPT ![t] = "out"]
  /\ UNCHANGED <<team, barArray, whichBar, entered>>

ResetCounter(t) ==
  /\ bpc[t] = "last"
  /\ B' = [B EXCEPT ![whichBar[t]] = 0]
  /\ Leave(t)

SpinEnds(t) ==
  /\ bpc[t] = "spin"
  /\ B[whichBar[t]] = 0
  /\ UNCHANGED B
  /\ Leave(t)

\* doBarrier() after its first step
BarStep(t) == Arrive(t) \/ ResetCounter(t) \/ SpinEnds(t)

\* Whatever the threads do between two rounds: they enter again and again.
BarNext == \E t \in BarThreads : FlipFlag(t, t) \/ BarStep(t)

BarSpec == BarStart(Cardinality(BarThreads)) /\ [][BarNext]_barVars

-----------------------------------------------------------------------------
\* A thread leaves its round only when every participant has entered that round,
\* however far the fast ones have run ahead and whichever counter they use.
LeaveTogether(participants) ==
  \A t \in participants, u \in participants : passed[t] <= entered[u]
=============================================================================
