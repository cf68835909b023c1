-------------------------- MODULE MCUnboundedSpsc ---------------------------
(***************************************************************************)
(* Rings of one value, so that nearly every push needs a new ring and      *)
(* nearly every pop gives one back, and rings of two; caches of one        *)
(* element, so that they are empty, used and full; as many addresses as    *)
(* can be in use at once.                                                  *)
(***************************************************************************)
EXTENDS UnboundedSpsc

MCNodes == 1..8
MCBuffers == 1..8
=============================================================================
