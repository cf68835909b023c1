---------------------------- MODULE MCPthreadMap ----------------------------
(***************************************************************************)
(* Two workers and two photos, so that a worker may be a photo ahead of    *)
(* the other.  Two rows are split evenly, three leave a remainder          *)
(* (portions of two and one rows), and with a single row the second        *)
(* worker's portions are empty.                                            *)
(***************************************************************************)
EXTENDS PthreadMap
=============================================================================
