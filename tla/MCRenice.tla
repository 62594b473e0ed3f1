------------------------------ MODULE MCRenice ------------------------------
(***************************************************************************)
(* Instances of Renice for TLC.                                            *)
(***************************************************************************)
EXTENDS Renice, TLC

CONSTANTS h1, h2, c1, c2, p1, p2, p3

Symmetry == Permutations({h1, h2}) \cup Permutations({p1, p2, p3})
=============================================================================
