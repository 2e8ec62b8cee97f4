----------------------------- MODULE MCEnrichment -----------------------------
(* An instance of Enrichment: a recall of two units, one of which was made     *)
(* from the other.                                                             *)
EXTENDS Enrichment, MCEntities

\* the second entity comes after the first one, the third before both
MCKeyOrder == [e \in Ids |-> IF e = 3 THEN 1 ELSE e + 1]

MCSources == [u \in Asked |-> IF u = u2 THEN {u1} ELSE {}]
=============================================================================
