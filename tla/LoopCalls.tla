----------------------------- MODULE LoopCalls ------------------------------
(***************************************************************************)
(* What a parallel loop promises its caller: parallel_for() runs the body  *)
(* for the indexes first, first + step, ... below last, for each of them   *)
(* exactly once and for nothing else, in any order and by any thread, and  *)
(* returns when all of them have been run.  ParallelFor implements this.   *)
(***************************************************************************)
EXTENDS Naturals

CONSTANTS Indices,              \* the values a loop variable can take
          Loops                 \* the loops the program runs

VARIABLES loop,                 \* the loop being run, or the last one
          running,              \* between the call and its return
          times                 \* how often the body has run for each index

callVars == <<loop, running, times>>

\* The indexes of a loop, those it is asked to walk.
Iterations(l) == {i \in Indices : i >= l.start /\ i < l.stop /\ (i - l.start) % l.step = 0}

LcInit == /\ loop \in Loops
          /\ ~running
          /\ times = [i \in Indices |-> 0]

Call(l) == /\ ~running
           /\ loop' = l
           /\ running' = TRUE
           /\ times' = [i \in Indices |-> 0]

\* Some thread runs the body for some of the indexes not run yet.
RunBody == /\ running
           /\ times' \in [Indices -> {0, 1}]
           /\ times' # times
           /\ \A i \in Indices : times'[i] # times[i] => times[i] = 0 /\ i \in Iterations(loop)
           /\ UNCHANGED <<loop, running>>

Return == /\ running
          /\ \A i \in Iterations(loop) : times[i] = 1
          /\ running' = FALSE
          /\ UNCHANGED <<loop, times>>

LcNext == RunBody \/ Return \/ \E l \in Loops : Call(l)

LcSpec == LcInit /\ [][LcNext]_callVars
=============================================================================
