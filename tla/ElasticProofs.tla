----------------------------- MODULE ElasticProofs -----------------------------
(***************************************************************************)
(* What a write does to an index, for the proofs about the components.     *)
(***************************************************************************)
EXTENDS Elastic, TLAPS

\* An index with one more write is an index of the same documents.
LEMMA PutType ==
  ASSUME NEW Ids, NEW docs, NEW index \in [Ids -> Copies(docs)],
         NEW id \in Ids, NEW doc \in docs \union {Missing}
  PROVE  Put(index, id, doc) \in [Ids -> Copies(docs)]
BY DEF Put, Copies

\* A write replaces one document, under the next sequence number.
LEMMA PutReads ==
  ASSUME NEW Ids, NEW docs, NEW index \in [Ids -> Copies(docs)],
         NEW id \in Ids, NEW doc
  PROVE  /\ Put(index, id, doc)[id].doc = doc
         /\ Put(index, id, doc)[id].seq = index[id].seq + 1
         /\ index[id].seq \in Nat
         /\ \A other \in Ids : other # id => Put(index, id, doc)[other] = index[other]
BY DEF Put, Copies
=============================================================================
