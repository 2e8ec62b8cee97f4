------------------------------- MODULE Elastic -------------------------------
(***************************************************************************)
(* The guarantees of one Elasticsearch index, as far as the backend relies *)
(* on them (the server is external: this is read off the calls the code    *)
(* makes).  An index maps a document id to a copy [seq, doc]:              *)
(*                                                                         *)
(*   - seq stands for the _seq_no/_primary_term pair.  Every write of the  *)
(*     id, a delete included, gives it a new one, and a delete does not    *)
(*     forget it.  The code only ever compares it for equality and for one *)
(*     id, so a counter per id is enough.                                  *)
(*   - doc is the _source, or Missing when there is no such document.      *)
(*                                                                         *)
(* A component keeps an index twice: the live copy, which GET and every    *)
(* write see at once, and the searchable copy, the one _search,            *)
(* _delete_by_query and _update_by_query see, which lags behind until the  *)
(* next refresh.  A write with refresh=wait_for answers when the           *)
(* searchable copy has caught up with it.                                  *)
(***************************************************************************)
EXTENDS Naturals

CONSTANT Missing          \* the _source of an id that has no document

Copies(docs) == [seq : Nat, doc : docs \union {Missing}]

EmptyIndex(ids) == [id \in ids |-> [seq |-> 0, doc |-> Missing]]

Exists(index, id) == index[id].doc # Missing

\* the id was written at some time, even if it is gone by now
Used(index, id) == index[id].seq > 0

\* a write the server applied: index, create, update or, with Missing, delete
Put(index, id, doc) ==
  [index EXCEPT ![id] = [seq |-> index[id].seq + 1, doc |-> doc]]

\* if_seq_no / if_primary_term: nobody wrote the id since the hit was read
Unchanged(index, hit) ==
  Exists(index, hit.id) /\ index[hit.id].seq = hit.seq

\* what refresh=wait_for waits for: the write that gave id this seq, or a
\* later one, can be searched
Searchable(snap, id, seq) == snap[id].seq >= seq
=============================================================================
