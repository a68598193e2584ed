------------------------------- MODULE MCSilos -------------------------------
(***************************************************************************)
(* Instances of Silos for TLC.  Two keys share a home slot in the smaller  *)
(* table and part in the larger.                                           *)
(***************************************************************************)
EXTENDS Silos

\* The values of a linear silo are never compared with anything but each
\* other, and the run checks invariants only.
Symmetry == Permutations(Value)

MCHash == [k \in Key |-> CASE k = "a" -> 4 [] k = "b" -> 0 [] OTHER -> 3]
=============================================================================
