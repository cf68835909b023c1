---------------------------- MODULE FifoChannel ----------------------------
(***************************************************************************)
(* What the blocking queue of util.cpp promises its clients: values leave  *)
(* in the order in which they arrived, none is lost, none is duplicated,   *)
(* and a pop happens only when there is something to take.  The detailed   *)
(* queue (mutex, condition variable, deque) is MonitorQueue, which         *)
(* implements this module; the programs built on the queue (PthreadFarm,   *)
(* PthreadMap) use its two atomic operations.                              *)
(***************************************************************************)
EXTENDS Naturals, Sequences

CONSTANT Values                 \* what the clients push, the EOS marker included

VARIABLES contents,             \* the values inside, oldest first
          delivered             \* every value handed out so far, in order

chVars == <<contents, delivered>>

ChInit == contents = <<>> /\ delivered = <<>>

Push(v) == /\ contents' = Append(contents, v)
           /\ UNCHANGED delivered

Pop == /\ contents # <<>>
       /\ delivered' = Append(delivered, Head(contents))
       /\ contents' = Tail(contents)

ChNext == Pop \/ \E v \in Values : Push(v)

ChSpec == ChInit /\ [][ChNext]_chVars
=============================================================================
