---------------------------- MODULE Occurrences ----------------------------
(***************************************************************************)
(* Where, and how often, a value occurs in a queue or a vector.            *)
(***************************************************************************)
EXTENDS Naturals, Sequences, FiniteSets

Places(s, x) == {i \in DOMAIN s : s[i] = x}

IsIn(x, s) == Places(s, x) # {}

Copies(s, x) == Cardinality(Places(s, x))
=============================================================================
