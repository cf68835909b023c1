---------------------------- MODULE MCFFThreads -----------------------------
(***************************************************************************)
(* A farm of two workers, so four threads, run up to four times: enough to *)
(* freeze it, run it frozen twice, join it and start it again, or to call  *)
(* once more for a farm that has not parked.                               *)
(***************************************************************************)
EXTENDS FFThreads

MCThreads == 0..(NW + 1)
=============================================================================
