----------------------------- MODULE MCMigrations -----------------------------
(* Instances of Migrations: two starters, two or three versions. *)
EXTENDS Migrations, TLC

StarterSymmetry == Permutations(Starters)
=============================================================================
