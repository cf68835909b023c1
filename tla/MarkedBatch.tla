---------------------------- MODULE MarkedBatch ----------------------------
(***************************************************************************)
(* What every version of the program promises, whatever its threads do:    *)
(* each photo gets the watermark exactly once, it is handed over exactly   *)
(* once and only after it is completely marked, and the program ends when  *)
(* all photos have been handed over.  The order is free.  Once matters:    *)
(* marking a pixel replaces its colours by a third of their weighted mean, *)
(* so a second marking would darken it again.                              *)
(*                                                                         *)
(* sequential.cpp is the reference: one photo after the other.             *)
(***************************************************************************)
EXTENDS Occurrences

CONSTANT Photos

VARIABLES times,                \* how often each photo has been marked
          done,                 \* the photos handed over, in order
          finished              \* the program has reached its end

batchVars == <<times, done, finished>>

BatchInit == /\ times = [p \in Photos |-> 0]
             /\ done = <<>>
             /\ finished = FALSE

MarkPhoto(p) == /\ times[p] = 0
                /\ times' = [times EXCEPT ![p] = 1]
                /\ UNCHANGED <<done, finished>>

HandOver(p) == /\ times[p] = 1
               /\ ~IsIn(p, done)
               /\ done' = Append(done, p)
               /\ UNCHANGED <<times, finished>>

Finish == /\ ~finished
          /\ \A p \in Photos : IsIn(p, done)
          /\ finished' = TRUE
          /\ UNCHANGED <<times, done>>

BatchNext == \/ \E p \in Photos : MarkPhoto(p) \/ HandOver(p)
             \/ Finish

BatchSpec == BatchInit /\ [][BatchNext]_batchVars
=============================================================================
