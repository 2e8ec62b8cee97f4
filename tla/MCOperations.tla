----------------------------- MODULE MCOperations -----------------------------
(* Instances of Operations: a parent with two children, one or two writers. *)
EXTENDS Operations, TLC

CONSTANTS w1, w2

MCProgress == w1 :> 2 @@ w2 :> 1

Symmetry == Permutations(Children)
=============================================================================
