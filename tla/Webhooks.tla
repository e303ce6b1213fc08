------------------------------- MODULE Webhooks -------------------------------
(***************************************************************************)
(* Ingestion of Meta's webhooks (modules/webhooks/service.py) and the      *)
(* worker task that handles a stored event.                                *)
(*                                                                         *)
(* A delivery is signed and carries one entry with several items; Meta may *)
(* deliver an item again, in another company, and several deliveries are   *)
(* handled at once, each in one transaction.  The INSERT of an event waits *)
(* while another transaction has inserted its key.  The IntegrityError of  *)
(* a lost race is caught, but it leaves the session unusable: the next     *)
(* SELECT, or the commit, raises, and the whole delivery is rolled back.   *)
(***************************************************************************)
EXTENDS Naturals, FiniteSets, Sequences

CONSTANTS
  Handlers,       (* requests to POST /webhooks/meta                           *)
  Items,          (* items of webhooks, see Item                               *)
  Bodies,         (* entries that Meta may deliver: sequences of items         *)
  TenantOf,       (* workspace of each connected account                       *)
  NoTenant,       (* not a workspace                                           *)
  NoId,           (* an identifier that an item does not have                  *)
  MaxDeliveries   (* bound on deliveries                                       *)

\* What _persist and event_key_for look at.  event: what happened; entry: the
\* account it happened to; named: the account that the item names as recipient
\* or as author; id, media, mid: identifiers; text: payload of a postback.
ItemFields == {"event", "entry", "named", "field", "id", "media", "mid", "text",
               "supported"}

ASSUME WebhookAssumption ==
  /\ \A i \in Items : DOMAIN i = ItemFields
  /\ Bodies \subseteq Seq(Items) \ {<< >>}
  /\ MaxDeliveries \in Nat

VARIABLES
  events,         (* committed rows of webhook_events                          *)
  handler,        (* the transaction of each request                           *)
  deliveries,     (* number of deliveries so far                               *)
  acknowledged    (* history: what committed deliveries took over: item, place *)

webhookVars == <<events, handler, deliveries, acknowledged>>

-----------------------------------------------------------------------------
(* Keys. *)

\* The first identifier that is there: a chain of "or".
FirstOf(ids) ==
  IF \E n \in DOMAIN ids : ids[n] # NoId
  THEN ids[CHOOSE n \in DOMAIN ids :
             ids[n] # NoId /\ \A k \in 1 .. n - 1 : ids[k] = NoId]
  ELSE NoId

\* Mutant of EventKey: the identifier of a change is left out.
EventKeyOfMedia(i, place) ==
  <<i.entry, FirstOf(<<i.field, i.mid, i.text>>), FirstOf(<<i.media, i.mid>>), place>>

\* event_key_for: the place in the entry is part of the key, and items without
\* an identifier have a key in common.
EventKey(i, place) ==
  <<i.entry, FirstOf(<<i.field, i.mid, i.text>>),
    FirstOf(<<i.id, i.media, i.mid>>), place>>

\* The key tells the event from others.
Identified(i) == i.id # NoId \/ i.mid # NoId

Places == UNION {DOMAIN b : b \in Bodies}

\* Meta gives different events different identifiers.
ASSUME IdentifierAssumption ==
  \A i, j \in Items, n \in Places :
    Identified(i) /\ EventKey(i, n) = EventKey(j, n) => i.event = j.event

Rows == [key : {EventKey(i, n) : i \in Items, n \in Places}, item : Items,
         tenant : {TenantOf[a] : a \in DOMAIN TenantOf},
         status : {"PENDING", "PROCESSED"}]

Keys(rowset) == {r.key : r \in rowset}

-----------------------------------------------------------------------------

Idle == [step |-> "idle", body |-> << >>, place |-> 1, late |-> FALSE,
         tenant |-> NoTenant, own |-> {}, broken |-> FALSE]

WebhookTypeOK ==
  /\ events \subseteq Rows
  /\ \A h \in Handlers :
       /\ handler[h].step \in {"idle", "ready", "inserting"}
       /\ handler[h].body \in Bodies \cup {<< >>}
       /\ handler[h].place \in 1 .. Len(handler[h].body) + 1
       /\ handler[h].own \subseteq Rows
  /\ deliveries \in 0 .. MaxDeliveries
  /\ acknowledged \subseteq Items \X Places

WebhookInit ==
  /\ events = {}
  /\ handler = [h \in Handlers |-> Idle]
  /\ deliveries = 0
  /\ acknowledged = {}

\* _resolve_account tries the accounts that the entry names as a set, in no
\* fixed order, and takes the first that is connected.
Resolve(body) ==
  LET connected == {body[1].entry, body[1].named} \cap DOMAIN TenantOf
  IN IF connected = {} THEN {NoTenant} ELSE {TenantOf[a] : a \in connected}

\* The item that h has come to, and its key.
Item(h) == handler[h].body[handler[h].place]
Key(h) == EventKey(Item(h), handler[h].place)
HasItem(h) ==
  /\ handler[h].step = "ready"
  /\ handler[h].place <= Len(handler[h].body)

\* _persist gives these up without a look at the database.
IsRefused(h) ==
  handler[h].tenant = NoTenant \/ handler[h].late \/ ~Item(h).supported

-----------------------------------------------------------------------------

\* late: the entry's time is more than REPLAY_WINDOW_SECONDS ago.
Receive(h, body, late) ==
  /\ handler[h] = Idle
  /\ deliveries < MaxDeliveries
  /\ deliveries' = deliveries + 1
  /\ \E t \in Resolve(body) :
       handler' = [handler EXCEPT ![h] =
         [step |-> "ready", body |-> body, place |-> 1, late |-> late,
          tenant |-> t, own |-> {}, broken |-> FALSE]]
  /\ UNCHANGED <<events, acknowledged>>

Refuse(h) ==
  /\ HasItem(h) /\ IsRefused(h)
  /\ handler' = [handler EXCEPT ![h].place = @ + 1]
  /\ UNCHANGED <<events, deliveries, acknowledged>>

\* Mutant of Duplicate: what others have inserted and not committed counts.
DuplicateUncommitted(h) ==
  /\ HasItem(h) /\ ~IsRefused(h) /\ ~handler[h].broken
  /\ Key(h) \in Keys(events \cup UNION {handler[g].own : g \in Handlers})
  /\ handler' = [handler EXCEPT ![h].place = @ + 1]
  /\ UNCHANGED <<events, deliveries, acknowledged>>

\* The SELECT finds the key.
Duplicate(h) ==
  /\ HasItem(h) /\ ~IsRefused(h) /\ ~handler[h].broken
  /\ Key(h) \in Keys(events \cup handler[h].own)
  /\ handler' = [handler EXCEPT ![h].place = @ + 1]
  /\ UNCHANGED <<events, deliveries, acknowledged>>

\* It does not.
IsNew(h) ==
  /\ HasItem(h) /\ ~IsRefused(h) /\ ~handler[h].broken
  /\ Key(h) \notin Keys(events \cup handler[h].own)
  /\ handler' = [handler EXCEPT ![h].step = "inserting"]
  /\ UNCHANGED <<events, deliveries, acknowledged>>

\* No other transaction has inserted the key and not committed.
KeyIsFree(h) == \A g \in Handlers \ {h} : Key(h) \notin Keys(handler[g].own)

Insert(h) ==
  /\ handler[h].step = "inserting" /\ KeyIsFree(h)
  /\ Key(h) \notin Keys(events)
  /\ handler' = [handler EXCEPT
       ![h].step = "ready", ![h].place = @ + 1,
       ![h].own = @ \cup {[key |-> Key(h), item |-> Item(h),
                           tenant |-> handler[h].tenant, status |-> "PENDING"]}]
  /\ UNCHANGED <<events, deliveries, acknowledged>>

\* Mutant of LoseRace: a rollback makes the session usable again, and the rest
\* of the delivery is committed.
LoseRaceGoesOn(h) ==
  /\ handler[h].step = "inserting" /\ KeyIsFree(h)
  /\ Key(h) \in Keys(events)
  /\ handler' = [handler EXCEPT ![h].step = "ready", ![h].place = @ + 1,
                                ![h].own = {}]
  /\ UNCHANGED <<events, deliveries, acknowledged>>

\* Another delivery of the event has committed meanwhile.
LoseRace(h) ==
  /\ handler[h].step = "inserting" /\ KeyIsFree(h)
  /\ Key(h) \in Keys(events)
  /\ handler' = [handler EXCEPT ![h].step = "ready", ![h].place = @ + 1,
                                ![h].own = {}, ![h].broken = TRUE]
  /\ UNCHANGED <<events, deliveries, acknowledged>>

\* The delivery is committed.
Acknowledge(h) ==
  /\ handler[h].step = "ready" /\ ~HasItem(h) /\ ~handler[h].broken
  /\ events' = events \cup handler[h].own
  /\ acknowledged' = acknowledged \cup
       {<<handler[h].body[n], n>> : n \in
          {n \in DOMAIN handler[h].body :
             /\ handler[h].tenant # NoTenant /\ ~handler[h].late
             /\ handler[h].body[n].supported}}
  /\ handler' = [handler EXCEPT ![h] = Idle]
  /\ UNCHANGED deliveries

\* The process dies, or the session is broken: all of it is rolled back.  Meta
\* delivers it again, or, when it was answered before the commit, does not.
RollBack(h) ==
  /\ handler[h].step # "idle"
  /\ handler' = [handler EXCEPT ![h] = Idle]
  /\ UNCHANGED <<events, deliveries, acknowledged>>

\* process_webhook_event; nothing in the code starts it.
ProcessEvent(r) ==
  /\ r \in events /\ r.status = "PENDING"
  /\ events' = (events \ {r}) \cup {[r EXCEPT !.status = "PROCESSED"]}
  /\ UNCHANGED <<handler, deliveries, acknowledged>>

WebhookNext ==
  \/ \E h \in Handlers :
       \/ \E body \in Bodies, late \in BOOLEAN : Receive(h, body, late)
       \/ Refuse(h) \/ Duplicate(h) \/ IsNew(h) \/ Insert(h) \/ LoseRace(h)
       \/ Acknowledge(h) \/ RollBack(h)
  \/ \E r \in events : ProcessEvent(r)

WebhookSpec == WebhookInit /\ [][WebhookNext]_webhookVars

-----------------------------------------------------------------------------
(* Properties. *)

\* A delivery that was taken over is not lost, although other deliveries of the
\* same items are in flight or were rolled back: each of its items has a row,
\* and an item that has an identifier has a row of its own, once for each place
\* it was delivered at.
DeliveriesAreStored ==
  \A taken \in acknowledged :
    LET i == taken[1] IN
    /\ \E r \in events : /\ r.key = EventKey(i, taken[2])
                         /\ Identified(i) => r.item.event = i.event
    /\ Cardinality({r \in events : r.key = EventKey(i, taken[2])}) = 1

-----------------------------------------------------------------------------
(* What is promised to Meta and to the tenants. *)

Owners(body) == Resolve(body) \ {NoTenant}

Inbox == INSTANCE WebhookInbox WITH Key <- EventKey

\* Whatever overlaps, repeats or is rolled back, each delivery that is committed
\* has the effect of one that was handled alone, in the moment of its commit: no
\* item is lost to a race, none is stored for a key that has a row.
ImplementsInbox == Inbox!Spec

=============================================================================
