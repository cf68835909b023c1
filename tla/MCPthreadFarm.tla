--------------------------- MODULE MCPthreadFarm ---------------------------
(***************************************************************************)
(* Two workers compete for three photos: one of them marks at least two,   *)
(* either may take its EOS while the other still works, and both update    *)
(* counter_worker.                                                         *)
(***************************************************************************)
EXTENDS PthreadFarm

CONSTANTS w1, w2

MCWorkers == {w1, w2}
=============================================================================
