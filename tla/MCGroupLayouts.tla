--------------------------- MODULE MCGroupLayouts ---------------------------
(* Instance for TLC: lanes of three bits, that is two slots, and three     *)
(* hashes with different overflow bits, in both words.  0 is reduced to 8. *)
EXTENDS TableIterators
MCHashes == {0, 273, 38}
=============================================================================
