--------------------------------- MODULE Join ---------------------------------
(***************************************************************************)
(* What the end of an operation with children promises: the parent is      *)
(* decided in one step, once, when no child is running any more, and as    *)
(* the children have ended.  It may be cancelled until then.  Parent and   *)
(* children may be removed at any time, and are then gone for good.        *)
(***************************************************************************)
CONSTANT Children

VARIABLES
  child,    \* the state of each child
  parent

vars == <<child, parent>>

Init ==
  /\ child = [c \in Children |-> "processing"]
  /\ parent = "processing"

Finish(c, how) ==
  /\ child[c] = "processing" /\ child' = [child EXCEPT ![c] = how]
  /\ UNCHANGED parent

Some(how) == \E c \in Children : child[c] = how

Decide ==
  /\ parent = "processing" /\ ~Some("processing")
  /\ \/ parent' = "completed" /\ ~Some("failed")
     \/ parent' = "failed" /\ (Some("failed") \/ Some("gone"))
  /\ UNCHANGED child

Cancel ==
  /\ parent = "processing" /\ parent' = "cancelled"
  /\ UNCHANGED child

RemoveChild(c) ==
  /\ child[c] # "gone" /\ child' = [child EXCEPT ![c] = "gone"]
  /\ UNCHANGED parent

RemoveParent ==
  /\ parent # "gone" /\ parent' = "gone"
  /\ UNCHANGED child

Next ==
  \/ \E c \in Children : Finish(c, "completed") \/ Finish(c, "failed") \/ RemoveChild(c)
  \/ Decide \/ Cancel \/ RemoveParent

Spec == Init /\ [][Next]_vars
===============================================================================
