--------------------------- MODULE MCFastflowMap ---------------------------
(***************************************************************************)
(* Two workers whose input queues hold one portion each, and two photos:   *)
(* four portions and the EOS meet full queues, and one worker may mark     *)
(* portions of both photos.  Heights: fewer rows than workers, an even     *)
(* split, and a remainder.                                                 *)
(***************************************************************************)
EXTENDS FastflowMap
=============================================================================
