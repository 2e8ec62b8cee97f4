------------------------------ MODULE MCWebhooks ------------------------------
(* An instance of Webhooks: one webhook of the bank, one without a bank, and two *)
(* administrators, beside the operations of MCOperations.                       *)
EXTENDS Webhooks, MCOperations

CONSTANTS h1, h2

MCBanks == h1 :> "ours" @@ h2 :> "all"

BothSymmetry == Permutations(Children) \union Permutations(Admins)
=============================================================================
