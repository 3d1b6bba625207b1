---------------------------- MODULE MCProbeTable ----------------------------
(***************************************************************************)
(* Arrays of up to four of the keys, repeated ones included, one more than *)
(* the sentinel allows; hashes that meet, and wrap around each table.      *)
(***************************************************************************)
EXTENDS ProbeTable

MCItems  == UNION {[1 .. n -> Keys] : n \in 1 .. 4}
MCHashes == [Keys -> {0, 6, 7}]
=============================================================================
