---------------------------- MODULE MCHashTable ----------------------------
(***************************************************************************)
(* Instances of HashTable for TLC.  Two keys share a home slot, one probes *)
(* across the end of the table, and in the larger table they part.         *)
(***************************************************************************)
EXTENDS HashTable

MCHash == [k \in Key |-> CASE k = "a" -> 3 [] k = "b" -> 7 [] k = "c" -> 2 [] OTHER -> 0]
=============================================================================
