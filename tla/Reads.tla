--------------------------------- MODULE Reads ---------------------------------
(***************************************************************************)
(* One read: a recall that first translates what it filters by, or one of  *)
(* the lookups beside it.                                                  *)
(***************************************************************************)
EXTENDS Lookups, TagFilters

reads == <<lookups, filtering>>

\* bounds, for what the memories do not matter to: some of them, with any budget
SomeMemory ==
  /\ links = CHOOSE l \in LinkChoices : TRUE
  /\ mentions = CHOOSE m \in MentionChoices : TRUE
  /\ dates = CHOOSE d \in DateChoices : TRUE
  /\ backend = "elasticsearch"

OneMemory == SomeMemory /\ allowed = CHOOSE b \in Budgets : TRUE

\* they do not to the lookups, nor to the translation of requests that are not served
ReadsInit ==
  /\ LookupsInit
  /\ errand = "neighbours" => OneMemory
  /\ errand = "observations" => SomeMemory
  /\ \/ request = Served
     \/ errand = "recall" /\ OneMemory /\ request \in Requests
  /\ FiltersInit

ReadsNext ==
  \/ /\ errand = "recall" /\ Translate
     /\ UNCHANGED <<errand, step, timely, observant>>
  \/ /\ errand = "recall" => request = Served /\ (Native => translated)
     /\ LookupsNext
     /\ UNCHANGED filtering

ReadsSpec == ReadsInit /\ [][ReadsNext]_reads
=============================================================================
