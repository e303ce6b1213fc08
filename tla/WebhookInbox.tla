---------------------------- MODULE WebhookInbox ----------------------------
(***************************************************************************)
(* What the ingestion of webhooks promises to Meta and to the tenants,     *)
(* without requests, transactions or races: a delivery that is taken over  *)
(* is stored in one step.  Each of its supported items gets a row, unless  *)
(* its key has one already; rows stay, and are handled at most once.       *)
(* Deliveries that are rolled back, late, or of no known account leave no  *)
(* trace.                                                                  *)
(***************************************************************************)
CONSTANTS
  Bodies,         (* entries that Meta may deliver: sequences of items         *)
  Key(_, _),      (* key of an item at a place of an entry                     *)
  Owners(_)       (* the workspaces that an entry may belong to                *)

VARIABLES
  events,         (* rows of webhook_events                                    *)
  acknowledged    (* the items that were taken over, with their places         *)

vars == <<events, acknowledged>>

Init == events = {} /\ acknowledged = {}

Supported(body) == {n \in DOMAIN body : body[n].supported}
HasRow(key) == \E r \in events : r.key = key

\* The row of the item at place n.
Row(body, n, tenant) ==
  [key |-> Key(body[n], n), item |-> body[n], tenant |-> tenant, status |-> "PENDING"]

Deliver(body, tenant) ==
  LET new == {n \in Supported(body) : ~HasRow(Key(body[n], n))}
  IN /\ events' = events \cup {Row(body, n, tenant) : n \in new}
     /\ acknowledged' = acknowledged \cup {<<body[n], n>> : n \in Supported(body)}

ProcessEvent(r) ==
  /\ r.status = "PENDING"
  /\ events' = (events \ {r}) \cup {[r EXCEPT !.status = "PROCESSED"]}
  /\ UNCHANGED acknowledged

Next ==
  \/ \E body \in Bodies : \E tenant \in Owners(body) : Deliver(body, tenant)
  \/ \E r \in events : ProcessEvent(r)

Spec == Init /\ [][Next]_vars

=============================================================================
