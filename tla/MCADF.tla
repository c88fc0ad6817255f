------------------------------- MODULE MCADF -------------------------------
(* Names for TLC: two that collide, and one that does not. *)
EXTENDS ADF

CONSTANTS n1, n2, n3

Hashes == [n \in Names |-> IF n = n3 THEN 1 ELSE 0]
Symmetry == {p @@ q : p \in Permutations(Files), q \in Permutations({n1, n2})}
=============================================================================
