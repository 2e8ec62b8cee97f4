------------------------------ MODULE MCEntities ------------------------------
(* Instances of Entities: one unit with two names, and one that shares a name. *)
EXTENDS Entities, TLC

CONSTANTS u1, u2

MCNamesOf == u1 :> Names @@ u2 :> {First}
MCOneUnit == u1 :> Names
=============================================================================
