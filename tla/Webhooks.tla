------------------------------- MODULE Webhooks -------------------------------
(***************************************************************************)
(* The webhooks of a bank, beside the operations that they announce.  The  *)
(* worker of a completed child searches the webhooks and inserts a         *)
(* delivery task for each, while administrators create, change and delete  *)
(* them, with a read and then a write, and a reader lists the deliveries   *)
(* page by page.  Deliveries share their index with the operations.        *)
(***************************************************************************)
EXTENDS Operations, FiniteSets

CONSTANTS
  Hooks,
  BankOf,       \* "ours", "other", or "all" for a webhook without a bank
  Admins,       \* administrators of our bank
  MaxEdits,     \* bound: calls of the administrators
  Times,        \* the timestamps that the workers' clocks may give
  Limit,        \* the size of a page
  MaxListings   \* bound: lists that are read

ASSUME WebhooksAssumption ==
  /\ BankOf \in [Hooks -> {"ours", "other", "all"}]
  /\ MaxEdits \in Nat /\ MaxListings \in Nat /\ Limit \in Nat \ {0}
  /\ Times \subseteq Nat \ {0}
  /\ Missing \notin {"on", "off"}

VARIABLES
  focus,        \* bound: what goes on beside the children, of the operations, the
                \* webhooks and the deliveries
  hooks,        \* [live, snap]; the document is whether it is enabled
  edits,        \* calls of the administrators
  admin,        \* where each is: [at, hook, seq]
  dispatch,     \* the worker of each child: [found, left, time]
  deliveries,   \* the delivery tasks, [live, snap]: [child, hook, time]
  page,         \* the reader: [hook, cursor, shown, due]
  listings

administration == <<edits, admin>>
listing == <<page, listings>>
webhooks == <<focus, hooks, administration, dispatch, deliveries, listing>>
everything == <<vars, webhooks>>

Idle == [at |-> "idle"]
NotFound == [found |-> FALSE]
NoPage == [on |-> FALSE]

WebhooksInit ==
  /\ Init
  /\ focus \in {"operations", "webhooks", "deliveries"}
  /\ \E there \in IF focus = "operations" THEN {{}} ELSE {Hooks, {h \in Hooks : BankOf[h] # "ours"}} :
       LET present == [h \in Hooks |-> IF h \in there THEN [seq |-> 1, doc |-> "on"]
                                                      ELSE [seq |-> 0, doc |-> Missing]]
       IN  hooks = [live |-> present, snap |-> present]
  /\ edits = 0 /\ admin = [a \in Admins |-> Idle]
  /\ dispatch = [c \in Children |-> NotFound]
  /\ deliveries = [live |-> {}, snap |-> {}]
  /\ page = NoPage /\ listings = 0

-----------------------------------------------------------------------------
(* An administrator *)

Goes(a, state) == admin' = [admin EXCEPT ![a] = state]

WriteHook(a, h, doc) ==
  /\ hooks' = [hooks EXCEPT !.live = Put(hooks.live, h, doc)]
  /\ Goes(a, [at |-> "wait", hook |-> h, seq |-> hooks.live[h].seq + 1])

\* create_webhook, under an id of its own
CreateWebhook(a, h) ==
  /\ focus = "webhooks" /\ admin[a] = Idle /\ edits < MaxEdits
  /\ ~Used(hooks.live, h) /\ BankOf[h] = "ours"
  /\ WriteHook(a, h, "on")
  /\ edits' = edits + 1
  /\ UNCHANGED <<vars, focus, dispatch, deliveries, listing>>

\* update_webhook and delete_webhook read the webhook first: one that is not
\* there, or of another bank, is not touched
GetWebhook(a, h, call) ==
  /\ focus = "webhooks" /\ admin[a] = Idle /\ edits < MaxEdits
  /\ edits' = edits + 1
  /\ IF Exists(hooks.live, h) /\ BankOf[h] = "ours"
       THEN Goes(a, [at |-> call, hook |-> h, seq |-> hooks.live[h].seq])
       ELSE UNCHANGED admin
  /\ UNCHANGED <<vars, focus, hooks, dispatch, deliveries, listing>>

\* a webhook that was written since, or is gone, makes update_webhook answer None
UpdateWebhook(a, enabled) ==
  /\ admin[a].at = "update"
  /\ IF Unchanged(hooks.live, [id |-> admin[a].hook, seq |-> admin[a].seq])
       THEN WriteHook(a, admin[a].hook, enabled)
       ELSE Goes(a, Idle) /\ UNCHANGED hooks
  /\ UNCHANGED <<vars, focus, edits, dispatch, deliveries, listing>>

\* delete_webhook deletes whatever is there by now
DeleteWebhook(a) ==
  /\ admin[a].at = "delete"
  /\ IF Exists(hooks.live, admin[a].hook)
       THEN WriteHook(a, admin[a].hook, Missing)
       ELSE Goes(a, Idle) /\ UNCHANGED hooks
  /\ UNCHANGED <<vars, focus, edits, dispatch, deliveries, listing>>

\* mutant: refresh=False
AnsweredAtOnce(a) == TRUE

IsAnswered(a) == Searchable(hooks.snap, admin[a].hook, admin[a].seq)

EditAnswered(a) ==
  /\ admin[a].at = "wait" /\ IsAnswered(a)
  /\ Goes(a, Idle)
  /\ UNCHANGED <<vars, focus, hooks, edits, dispatch, deliveries, listing>>

-----------------------------------------------------------------------------
(* The worker of a child that is completed *)

\* get_webhooks_for_dispatch
Dispatched == {h \in Hooks : BankOf[h] \in {"ours", "all"} /\ hooks.snap[h].doc = "on"}

FindWebhooks(c) ==
  /\ pc[c] = "outbox" /\ dispatch[c] = NotFound
  /\ \E time \in Times :
       dispatch' = [dispatch EXCEPT ![c] = [found |-> TRUE, left |-> Dispatched, time |-> time]]
  /\ UNCHANGED <<vars, focus, hooks, administration, deliveries, listing>>

DeliveriesOf(c) == {d \in deliveries.live : d.child = c}

\* insert_webhook_delivery_task, one after the other; each waits for a refresh
InsertDelivery(c, h) ==
  /\ pc[c] = "outbox" /\ dispatch[c].found /\ h \in dispatch[c].left
  /\ DeliveriesOf(c) \subseteq deliveries.snap
  /\ deliveries' = [deliveries EXCEPT !.live =
       @ \union {[child |-> c, hook |-> h, time |-> dispatch[c].time]}]
  /\ dispatch' = [dispatch EXCEPT ![c].left = @ \ {h}]
  /\ UNCHANGED <<vars, focus, hooks, administration, listing>>

Announce(c) ==
  /\ dispatch[c].found /\ dispatch[c].left = {} /\ DeliveriesOf(c) \subseteq deliveries.snap
  /\ InsertOutbox(c)
  /\ dispatch' = [dispatch EXCEPT ![c] = NotFound]
  /\ UNCHANGED <<focus, hooks, administration, deliveries, listing>>

-----------------------------------------------------------------------------
(* The reader of deliveries *)

ListDeliveries(h) ==
  /\ focus = "deliveries" /\ listings < MaxListings /\ (page.on => ~page.more)
  /\ listings' = listings + 1
  /\ page' = [on |-> TRUE, more |-> TRUE, hook |-> h, cursor |-> 0, shown |-> {},
              due |-> {d \in deliveries.live : d.hook = h /\ d.child \in outbox}]
  /\ UNCHANGED <<vars, focus, hooks, administration, dispatch, deliveries>>

\* mutant: no row beyond the page
JustThePage == Limit

Fetched == Limit + 1

Newest(n, D) ==
  {T \in SUBSET D : /\ Cardinality(T) <= n /\ (T = D \/ Cardinality(T) = n)
                    /\ \A d \in T, e \in D \ T : d.time >= e.time}

Oldest(P) == CHOOSE t \in Times : (\A d \in P : t <= d.time) /\ (\E d \in P : t = d.time)

\* list_webhook_deliveries: older than the cursor, newest first, and one more
\* than the page; with that one, the caller goes on from the last of the page
ListPage ==
  /\ page.on /\ page.more
  /\ LET D == {d \in deliveries.snap : /\ d.hook = page.hook
                                       /\ page.cursor > 0 => d.time < page.cursor}
     IN  \E H \in Newest(Fetched, D) : \E P \in Newest(Limit, H) :
           page' = [page EXCEPT !.shown = @ \union P, !.more = Cardinality(H) > Limit,
                                !.cursor = IF Cardinality(H) > Limit THEN Oldest(P) ELSE 0]
  /\ UNCHANGED <<vars, focus, hooks, administration, dispatch, deliveries, listings>>

-----------------------------------------------------------------------------
\* external: Elasticsearch refreshes an index
RefreshHooks ==
  /\ hooks.snap # hooks.live
  /\ hooks' = [hooks EXCEPT !.snap = hooks.live]
  /\ UNCHANGED <<vars, focus, administration, dispatch, deliveries, listing>>

RefreshOperations ==
  /\ Refresh \/ (UNCHANGED vars /\ snap = [c \in Children |-> live[c]]
                                /\ deliveries.snap # deliveries.live)
  /\ deliveries' = [deliveries EXCEPT !.snap = deliveries.live]
  /\ UNCHANGED <<focus, hooks, administration, dispatch, listing>>

\* a worker that dies forgets what it was about to deliver
Worker(c) ==
  /\ WorkerStep(c)
  /\ dispatch' = [dispatch EXCEPT ![c] = IF pc'[c] = "outbox" THEN @ ELSE NotFound]
  /\ UNCHANGED <<focus, hooks, administration, deliveries, listing>>

WebhooksNext ==
  \/ \E c \in Children :
       \/ Worker(c) \/ FindWebhooks(c) \/ Announce(c)
       \/ \E h \in Hooks : InsertDelivery(c, h)
  \/ focus = "operations" /\ OthersStep /\ UNCHANGED webhooks
  \/ \E a \in Admins :
       \/ \E h \in Hooks :
            CreateWebhook(a, h) \/ GetWebhook(a, h, "update") \/ GetWebhook(a, h, "delete")
       \/ UpdateWebhook(a, "on") \/ UpdateWebhook(a, "off") \/ DeleteWebhook(a)
       \/ EditAnswered(a)
  \/ \E h \in Hooks : ListDeliveries(h)
  \/ ListPage
  \/ RefreshHooks \/ RefreshOperations

WebhooksSpec == WebhooksInit /\ [][WebhooksNext]_everything

-----------------------------------------------------------------------------
\* A webhook that is created, enabled, disabled or deleted is so for every
\* operation that looks for webhooks after the answer, unless another call on it
\* is under way; webhooks of other banks are never told.
DispatchHearsAnswers ==
  [][\A c \in Children : dispatch'[c].found /\ ~dispatch[c].found =>
       \A h \in Hooks :
         (\A a \in Admins : admin[a].at = "wait" => admin[a].hook # h) =>
           (h \in dispatch'[c].left <=> BankOf[h] # "other" /\ hooks.live[h].doc = "on")]_everything

\* The pages of a list show every delivery of the webhook whose worker was
\* answered before the list was begun, however many are inserted meanwhile,
\* except for those as old to the tick as the last of a page.
ListsMissOnlyTies ==
  page.on /\ ~page.more =>
    \A d \in page.due \ page.shown : \E e \in page.shown : e.time = d.time
=============================================================================
