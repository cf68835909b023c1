----------------------------- MODULE MCSpscRing -----------------------------
(***************************************************************************)
(* Rings of one to four cells, batches of one to three values, enough      *)
(* pushes for both indexes to turn around more than once.  Two values are  *)
(* enough to see an exchange, a loss or a repetition, since the ring does  *)
(* not look at them.                                                       *)
(***************************************************************************)
EXTENDS SpscRing

CONSTANTS task, eos

MCValues == {task, eos}
MCBatches == {<<task>>, <<eos>>, <<task, eos>>, <<eos, task, task>>}
=============================================================================
