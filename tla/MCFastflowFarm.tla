--------------------------- MODULE MCFastflowFarm ---------------------------
(***************************************************************************)
(* Two workers whose input queues hold one task each and three photos: the *)
(* third photo and the EOS meet full queues.                               *)
(***************************************************************************)
EXTENDS FastflowFarm
=============================================================================
