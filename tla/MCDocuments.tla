----------------------------- MODULE MCDocuments -----------------------------
(* Instances of Documents: two ingests of one document and one of another. *)
EXTENDS Documents, TLC

CONSTANTS i1, i2, i3

MCDocumentOf == i1 :> "doc" @@ i2 :> "doc" @@ i3 :> "other"

\* the ingests of one document may be swapped
Symmetry == Permutations({i1, i2})
=============================================================================
