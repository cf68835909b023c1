---------------------------- MODULE SpscChannel -----------------------------
(***************************************************************************)
(* What the single-producer single-consumer buffers of FastFlow promise:   *)
(* the FIFO channel, into which a producer may also put several values at  *)
(* once (multipush), none of them visible before all are.                  *)
(***************************************************************************)
EXTENDS FifoChannel

CONSTANT Batches                \* the sequences of values that are put in at once

PushAll(vs) == /\ contents' = contents \o vs
               /\ UNCHANGED delivered

SpscNext == Pop \/ \E vs \in Batches : PushAll(vs)

SpscSpec == ChInit /\ [][SpscNext]_chVars
=============================================================================
