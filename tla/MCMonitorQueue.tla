--------------------------- MODULE MCMonitorQueue ---------------------------
(***************************************************************************)
(* Two producers and two consumers, so that notifications, newcomers and   *)
(* woken threads compete for the mutex; three pushes, so that at least one *)
(* consumer is served twice; two values, so that the order shows.          *)
(***************************************************************************)
EXTENDS MonitorQueue

CONSTANTS p1, p2, c1, c2, image, eos, nobody

MCProducers == {p1, p2}
MCConsumers == {c1, c2}
MCItems == {image, eos}
=============================================================================
