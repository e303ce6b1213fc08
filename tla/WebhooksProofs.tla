---------------------------- MODULE WebhooksProofs ----------------------------
(***************************************************************************)
(* Proofs about Webhooks: for any number of deliveries at once, any items  *)
(* and any accounts, an item that was taken over has exactly one row, and  *)
(* deliveries that are committed act like single steps of WebhookInbox.    *)
(***************************************************************************)
EXTENDS Webhooks, FiniteSetTheorems, TLAPS

WorkspacesOfAccounts == {TenantOf[a] : a \in DOMAIN TenantOf}

Handling ==
  [step : {"idle", "ready", "inserting"}, body : Bodies \cup {<< >>},
   place : Nat \ {0}, late : BOOLEAN,
   tenant : WorkspacesOfAccounts \cup {NoTenant}, own : SUBSET Rows,
   broken : BOOLEAN]

Types ==
  /\ events \subseteq Rows
  /\ handler \in [Handlers -> Handling]
  /\ deliveries \in 0 .. MaxDeliveries
  /\ acknowledged \subseteq Items \X Places

\* Where a request is in its entry; an item is inserted when it is not refused
\* and the request has no row for its key.
Placed ==
  \A h \in Handlers :
    /\ handler[h].place <= Len(handler[h].body) + 1
    /\ handler[h].step = "inserting" =>
         /\ handler[h].place <= Len(handler[h].body)
         /\ ~IsRefused(h) /\ ~handler[h].broken
         /\ Key(h) \notin Keys(handler[h].own)

\* The unique constraint, among committed rows and those of one request.
OneRow == \A r, s \in events : r.key = s.key => r = s
OwnRows ==
  \A h \in Handlers :
    /\ \A r, s \in handler[h].own : r.key = s.key => r = s
    /\ \A r \in handler[h].own : r.key \notin Keys(events)

\* Two requests never have rows with the same key.
Apart ==
  \A g, h \in Handlers : g # h =>
    \A r \in handler[g].own : r.key \notin Keys(handler[h].own)

\* Items that the request of h takes over.
Takes(h, n) ==
  handler[h].tenant # NoTenant /\ ~handler[h].late /\ handler[h].body[n].supported

\* The items that it has passed have rows.
Done ==
  \A h \in Handlers : ~handler[h].broken =>
    \A n \in DOMAIN handler[h].body :
      n < handler[h].place /\ Takes(h, n) =>
        EventKey(handler[h].body[n], n) \in Keys(events \cup handler[h].own)

\* A row has the key of its item.
Named ==
  /\ \A r \in events : \E n \in Places : r.key = EventKey(r.item, n)
  /\ \A h \in Handlers : \A r \in handler[h].own :
       \E n \in Places : r.key = EventKey(r.item, n)

Stored ==
  \A taken \in acknowledged : EventKey(taken[1], taken[2]) \in Keys(events)

IInv == /\ Types /\ Placed /\ OneRow /\ OwnRows /\ Apart /\ Done /\ Named /\ Stored

-----------------------------------------------------------------------------
(* Keys and bodies. *)

\* The place can be read off a key.
LEMMA KeyHasPlace == \A i, j, n, k : EventKey(i, n) = EventKey(j, k) => n = k
BY DEF EventKey

LEMMA KeysOfUnion == \A A, B : Keys(A \cup B) = Keys(A) \cup Keys(B)
BY DEF Keys

LEMMA KeysGrow == \A A, B : A \subseteq B => Keys(A) \subseteq Keys(B)
BY DEF Keys

LEMMA BodyFacts ==
  ASSUME NEW b \in Bodies \cup {<< >>}
  PROVE  /\ b \in Seq(Items) /\ Len(b) \in Nat /\ DOMAIN b = 1 .. Len(b)
         /\ \A n \in DOMAIN b : b[n] \in Items /\ n \in Places
<1>1. b \in Seq(Items)
  <2>1. Bodies \subseteq Seq(Items)
    BY WebhookAssumption
  <2>2. << >> \in Seq(Items)
    OBVIOUS
  <2> QED BY <2>1, <2>2
<1>2. Len(b) \in Nat /\ DOMAIN b = 1 .. Len(b)
  BY <1>1
<1>3. \A n \in DOMAIN b : b[n] \in Items
  BY <1>1
<1>4. \A n \in DOMAIN b : n \in Places
  <2>1. CASE b \in Bodies
    BY <2>1 DEF Places
  <2>2. CASE b = << >>
    BY <1>2, <2>2
  <2> QED BY <2>1, <2>2
<1> QED BY <1>1, <1>2, <1>3, <1>4

LEMMA IdleIsTyped == Idle \in Handling
BY DEF Idle, Handling

\* The item of a request that has one.
LEMMA ItemFacts ==
  ASSUME Types, NEW h \in Handlers, handler[h].place <= Len(handler[h].body)
  PROVE  /\ handler[h].place \in DOMAIN handler[h].body
         /\ Item(h) \in Items /\ handler[h].place \in Places
         /\ Item(h) = handler[h].body[handler[h].place]
<1>1. handler[h].body \in Bodies \cup {<< >>} /\ handler[h].place \in Nat \ {0}
  BY DEF Types, Handling
<1>2. handler[h].place \in DOMAIN handler[h].body
  BY <1>1, BodyFacts
<1> QED BY <1>1, <1>2, BodyFacts DEF Item

-----------------------------------------------------------------------------

LEMMA StoredInit == WebhookInit => IInv
<1> SUFFICES ASSUME WebhookInit PROVE IInv
  OBVIOUS
<1> USE DEF WebhookInit
<1>1. Types
  BY IdleIsTyped, WebhookAssumption DEF Types
<1>2. \A h \in Handlers : /\ handler[h] = Idle /\ handler[h].own = {}
                          /\ handler[h].step = "idle" /\ handler[h].place = 1
                          /\ handler[h].body = << >>
  BY DEF Idle
<1>3. Placed
  BY <1>2 DEF Placed
<1>4. OneRow /\ OwnRows /\ Apart /\ Named /\ Stored
  BY <1>2 DEF OneRow, OwnRows, Apart, Named, Stored
<1>5. Done
  BY <1>2 DEF Done
<1> QED BY <1>1, <1>3, <1>4, <1>5 DEF IInv

\* A request that goes back to idle gives up its rows.
LEMMA KeptByEnd ==
  ASSUME IInv, NEW h \in Handlers, handler' = [handler EXCEPT ![h] = Idle],
         UNCHANGED <<events, deliveries, acknowledged>>
  PROVE  IInv'
<1> USE DEF IInv
<1>1. Types'
  BY IdleIsTyped DEF Types
<1>2. handler'[h] = Idle /\ \A g \in Handlers \ {h} : handler'[g] = handler[g]
  BY DEF Types
<1>3. /\ handler'[h].own = {} /\ handler'[h].step = "idle"
      /\ handler'[h].place = 1 /\ handler'[h].body = << >>
  BY <1>2 DEF Idle
<1>4. Placed'
  BY <1>2, <1>3 DEF Placed, IsRefused, Key, Item
<1>5. OneRow' /\ Stored'
  BY DEF OneRow, Stored
<1>6. OwnRows' /\ Named'
  BY <1>2, <1>3 DEF OwnRows, Named
<1>7. Apart'
  BY <1>2, <1>3 DEF Apart, Keys
<1>8. Done'
  <2> SUFFICES ASSUME NEW g \in Handlers, ~handler'[g].broken,
                      NEW n \in DOMAIN handler'[g].body,
                      n < handler'[g].place, Takes(g, n)'
               PROVE  EventKey(handler'[g].body[n], n) \in Keys(events \cup handler'[g].own)
    BY DEF Done
  <2>1. CASE g # h
    BY <1>2, <2>1 DEF Done, Takes
  <2>2. CASE g = h
    BY <1>3, <2>2
  <2> QED BY <2>1, <2>2
<1> QED BY <1>1, <1>4, <1>5, <1>6, <1>7, <1>8

\* A request that leaves an item behind that is refused or has a row.
LEMMA KeptByPassing ==
  ASSUME IInv, NEW h \in Handlers, HasItem(h),
         IsRefused(h) \/ Key(h) \in Keys(events \cup handler[h].own),
         handler' = [handler EXCEPT ![h].place = @ + 1],
         UNCHANGED <<events, deliveries, acknowledged>>
  PROVE  IInv'
<1> USE DEF IInv
<1>1. Types'
  <2>1. handler[h] \in Handling /\ handler[h].place + 1 \in Nat \ {0}
    BY DEF Types, Handling
  <2>2. [handler[h] EXCEPT !.place = @ + 1] \in Handling
    BY <2>1 DEF Handling
  <2> QED BY <2>2 DEF Types
<1>2. \A g \in Handlers \ {h} : handler'[g] = handler[g]
  BY DEF Types
<1>2a. handler'[h] = [handler[h] EXCEPT !.place = @ + 1]
  BY DEF Types
<1>3. /\ handler[h].place \in Nat /\ handler'[h].place = handler[h].place + 1
      /\ handler'[h].step = "ready" /\ handler'[h].body = handler[h].body
      /\ handler'[h].own = handler[h].own /\ handler'[h].tenant = handler[h].tenant
      /\ handler'[h].late = handler[h].late
      /\ handler'[h].broken = handler[h].broken
  BY <1>2a DEF HasItem, Types, Handling
<1>4. handler[h].place <= Len(handler[h].body) /\ Len(handler[h].body) \in Nat
  BY BodyFacts DEF HasItem, Types, Handling
<1>5. Placed'
  BY <1>2, <1>3, <1>4 DEF Placed, IsRefused, Key, Item
<1>6. OneRow' /\ Stored'
  BY DEF OneRow, Stored
<1>7. OwnRows' /\ Apart' /\ Named'
  BY <1>2, <1>3 DEF OwnRows, Apart, Named
<1>8. Done'
  <2> SUFFICES ASSUME NEW g \in Handlers, ~handler'[g].broken,
                      NEW n \in DOMAIN handler'[g].body,
                      n < handler'[g].place, Takes(g, n)'
               PROVE  EventKey(handler'[g].body[n], n) \in Keys(events \cup handler'[g].own)
    BY DEF Done
  <2>1. CASE g # h
    BY <1>2, <2>1 DEF Done, Takes
  <2>2. CASE g = h /\ n # handler[h].place
    <3>1. n \in Nat
      <4>1. handler[h].body \in Bodies \cup {<< >>}
        BY DEF Types, Handling
      <4> QED BY <1>3, <2>2, <4>1, BodyFacts
    <3>2. n < handler[h].place
      BY <1>3, <2>2, <3>1
    <3> QED BY <1>3, <2>2, <3>2 DEF Done, Takes
  <2>3. CASE g = h /\ n = handler[h].place
    <3>1. ~IsRefused(h)
      BY <1>3, <2>3 DEF IsRefused, Takes, Item
    <3>2. Key(h) = EventKey(handler[h].body[n], n)
      BY <2>3 DEF Key, Item
    <3> QED BY <1>3, <2>3, <3>1, <3>2
  <2> QED BY <2>1, <2>2, <2>3
<1> QED BY <1>1, <1>5, <1>6, <1>7, <1>8

LEMMA KeptByReceive ==
  ASSUME IInv, NEW h \in Handlers, NEW body \in Bodies, NEW late \in BOOLEAN,
         Receive(h, body, late)
  PROVE  IInv'
<1> USE DEF IInv
<1>1. PICK t \in Resolve(body) :
        handler' = [handler EXCEPT ![h] =
          [step |-> "ready", body |-> body, place |-> 1, late |-> late,
           tenant |-> t, own |-> {}, broken |-> FALSE]]
  BY DEF Receive
<1>2. t \in WorkspacesOfAccounts \cup {NoTenant}
  BY DEF Resolve, WorkspacesOfAccounts
<1>3. /\ deliveries' = deliveries + 1 /\ deliveries < MaxDeliveries
      /\ events' = events /\ acknowledged' = acknowledged
  BY DEF Receive
<1>4. handler' \in [Handlers -> Handling]
  BY <1>1, <1>2 DEF Types, Handling
<1>5. Types'
  BY <1>3, <1>4, WebhookAssumption DEF Types
<1>6. /\ \A g \in Handlers \ {h} : handler'[g] = handler[g]
      /\ handler'[h].step = "ready" /\ handler'[h].body = body
      /\ handler'[h].place = 1 /\ handler'[h].own = {}
  BY <1>1 DEF Types
<1>7. Len(body) \in Nat /\ DOMAIN body = 1 .. Len(body)
  BY BodyFacts
<1>8. Placed'
  BY <1>6, <1>7 DEF Placed, IsRefused, Key, Item
<1>9. OneRow' /\ Stored'
  BY <1>3 DEF OneRow, Stored
<1>10. OwnRows' /\ Named'
  BY <1>3, <1>6 DEF OwnRows, Named
<1>11. Apart'
  BY <1>6 DEF Apart, Keys
<1>12. Done'
  <2> SUFFICES ASSUME NEW g \in Handlers, ~handler'[g].broken,
                      NEW n \in DOMAIN handler'[g].body,
                      n < handler'[g].place, Takes(g, n)'
               PROVE  EventKey(handler'[g].body[n], n) \in Keys(events \cup handler'[g].own)
    BY <1>3 DEF Done
  <2>1. CASE g # h
    BY <1>6, <2>1 DEF Done, Takes
  <2>2. CASE g = h
    BY <1>6, <1>7, <2>2
  <2> QED BY <2>1, <2>2
<1> QED BY <1>5, <1>8, <1>9, <1>10, <1>11, <1>12

LEMMA KeptByIsNew ==
  ASSUME IInv, NEW h \in Handlers, IsNew(h)
  PROVE  IInv'
<1> USE DEF IInv
<1>1. /\ handler' = [handler EXCEPT ![h].step = "inserting"]
      /\ HasItem(h) /\ ~IsRefused(h) /\ ~handler[h].broken
      /\ Key(h) \notin Keys(events \cup handler[h].own)
      /\ UNCHANGED <<events, deliveries, acknowledged>>
  BY DEF IsNew
<1>2. Types'
  BY <1>1 DEF Types, Handling
<1>3. \A g \in Handlers \ {h} : handler'[g] = handler[g]
  BY <1>1 DEF Types
<1>3a. handler'[h] = [handler[h] EXCEPT !.step = "inserting"]
  BY <1>1 DEF Types
<1>4. /\ handler'[h].body = handler[h].body /\ handler'[h].place = handler[h].place
      /\ handler'[h].own = handler[h].own /\ handler'[h].tenant = handler[h].tenant
      /\ handler'[h].late = handler[h].late
      /\ handler'[h].broken = handler[h].broken
      /\ handler'[h].step = "inserting"
  BY <1>3a DEF Types, Handling
<1>5. Key(h) \notin Keys(handler[h].own)
  BY <1>1, KeysOfUnion
<1>6. handler[h].place <= Len(handler[h].body)
  BY <1>1 DEF HasItem
<1>7. Placed'
  BY <1>1, <1>3, <1>4, <1>5, <1>6 DEF Placed, IsRefused, Key, Item
<1>8. OneRow' /\ Stored'
  BY <1>1 DEF OneRow, Stored
<1>9. OwnRows' /\ Apart' /\ Named'
  BY <1>1, <1>3, <1>4 DEF OwnRows, Apart, Named
<1>10. Done'
  BY <1>1, <1>3, <1>4 DEF Done, Takes
<1> QED BY <1>2, <1>7, <1>8, <1>9, <1>10

LEMMA KeptByInsert ==
  ASSUME IInv, NEW h \in Handlers, Insert(h)
  PROVE  IInv'
<1> USE DEF IInv
<1> DEFINE r == [key |-> Key(h), item |-> Item(h),
                 tenant |-> handler[h].tenant, status |-> "PENDING"]
<1>1. /\ handler' = [handler EXCEPT ![h].step = "ready", ![h].place = @ + 1,
                                    ![h].own = @ \cup {r}]
      /\ handler[h].step = "inserting" /\ KeyIsFree(h)
      /\ Key(h) \notin Keys(events)
      /\ UNCHANGED <<events, deliveries, acknowledged>>
  BY DEF Insert
<1>2. /\ handler[h].place <= Len(handler[h].body) /\ ~IsRefused(h)
      /\ ~handler[h].broken /\ Key(h) \notin Keys(handler[h].own)
  BY <1>1 DEF Placed
<1>3. /\ Item(h) \in Items /\ handler[h].place \in Places
      /\ Key(h) = EventKey(Item(h), handler[h].place)
  BY <1>2, ItemFacts DEF Key
<1>4. handler[h].tenant \in WorkspacesOfAccounts
  BY <1>2 DEF IsRefused, Types, Handling
<1>5. r \in Rows
  BY <1>3, <1>4 DEF Rows, WorkspacesOfAccounts
<1>6. Types'
  BY <1>1, <1>5 DEF Types, Handling
<1>7. \A g \in Handlers \ {h} : handler'[g] = handler[g]
  BY <1>1 DEF Types
<1>7a. handler'[h] = [handler[h] EXCEPT !.step = "ready", !.place = @ + 1,
        !.own = @ \cup {r}]
  BY <1>1 DEF Types
<1>8. /\ handler'[h].body = handler[h].body
      /\ handler'[h].place = handler[h].place + 1
      /\ handler'[h].own = handler[h].own \cup {r}
      /\ handler'[h].tenant = handler[h].tenant
      /\ handler'[h].late = handler[h].late
      /\ handler'[h].broken = handler[h].broken
      /\ handler'[h].step = "ready"
      /\ handler[h].place \in Nat
  BY <1>7a DEF Types, Handling
<1>9. r.key = Key(h) /\ r.item = Item(h)
  OBVIOUS
<1> HIDE DEF r
<1>10. Len(handler[h].body) \in Nat
  BY BodyFacts DEF Types, Handling
<1>11. Placed'
  <2> SUFFICES ASSUME NEW g \in Handlers
               PROVE  /\ handler'[g].place <= Len(handler'[g].body) + 1
                      /\ handler'[g].step = "inserting" =>
                           /\ handler'[g].place <= Len(handler'[g].body)
                           /\ ~IsRefused(g)' /\ ~handler'[g].broken
                           /\ Key(g)' \notin Keys(handler'[g].own)
    BY DEF Placed
  <2>1. CASE g # h
    BY <1>7, <2>1 DEF Placed, IsRefused, Key, Item
  <2>2. CASE g = h
    BY <1>2, <1>8, <1>10, <2>2
  <2> QED BY <2>1, <2>2
<1>12. OneRow' /\ Stored'
  BY <1>1 DEF OneRow, Stored
<1>13. OwnRows'
  <2> SUFFICES ASSUME NEW g \in Handlers
               PROVE  /\ \A x, y \in handler'[g].own : x.key = y.key => x = y
                      /\ \A x \in handler'[g].own : x.key \notin Keys(events)
    BY <1>1 DEF OwnRows
  <2>1. CASE g # h
    BY <1>7, <2>1 DEF OwnRows
  <2>2. CASE g = h
    <3>1. \A x \in handler[h].own : x.key # Key(h)
      BY <1>2 DEF Keys
    <3>2. \A x, y \in handler[h].own : x.key = y.key => x = y
      BY DEF OwnRows
    <3>3. \A x \in handler[h].own : x.key \notin Keys(events)
      BY DEF OwnRows
    <3>4. \A x \in handler'[h].own : x \in handler[h].own \/ x = r
      BY <1>8
    <3>5. \A x \in handler'[h].own : x.key \notin Keys(events)
      BY <1>1, <1>9, <3>3, <3>4
    <3>6. \A x, y \in handler'[h].own : x.key = y.key => x = y
      BY <1>9, <3>1, <3>2, <3>4
    <3> QED BY <2>2, <3>5, <3>6
  <2> QED BY <2>1, <2>2
<1>14. Apart'
  <2>1. \A g \in Handlers \ {h} : Key(h) \notin Keys(handler[g].own)
    BY <1>1 DEF KeyIsFree
  <2> QED BY <1>7, <1>8, <1>9, <2>1 DEF Apart, Keys
<1>15. Named'
  <2>1. \A x \in events : \E n \in Places : x.key = EventKey(x.item, n)
    BY DEF Named
  <2> SUFFICES ASSUME NEW g \in Handlers, NEW x \in handler'[g].own
               PROVE  \E n \in Places : x.key = EventKey(x.item, n)
    BY <1>1, <2>1 DEF Named
  <2>2. CASE g # h
    BY <1>7, <2>2 DEF Named
  <2>3. CASE g = h /\ x \in handler[h].own
    BY <2>3 DEF Named
  <2>4. CASE x = r
    BY <1>3, <1>9, <2>4
  <2> QED BY <1>8, <2>2, <2>3, <2>4
<1>16. Done'
  <2> SUFFICES ASSUME NEW g \in Handlers, ~handler'[g].broken,
                      NEW n \in DOMAIN handler'[g].body,
                      n < handler'[g].place, Takes(g, n)'
               PROVE  EventKey(handler'[g].body[n], n) \in Keys(events \cup handler'[g].own)
    BY <1>1 DEF Done
  <2>1. CASE g # h
    BY <1>7, <2>1 DEF Done, Takes
  <2>2. CASE g = h /\ n # handler[h].place
    <3>1. n \in Nat
      BY <1>8, <2>2, BodyFacts DEF Types, Handling
    <3>2. n < handler[h].place
      BY <1>8, <2>2, <3>1
    <3>3. EventKey(handler[h].body[n], n) \in Keys(events \cup handler[h].own)
      BY <1>8, <2>2, <3>2 DEF Done, Takes
    <3> QED BY <1>8, <2>2, <3>3 DEF Keys
  <2>3. CASE g = h /\ n = handler[h].place
    BY <1>3, <1>8, <1>9, <2>3 DEF Keys, Item
  <2> QED BY <2>1, <2>2, <2>3
<1> QED BY <1>6, <1>11, <1>12, <1>13, <1>14, <1>15, <1>16

LEMMA KeptByLoseRace ==
  ASSUME IInv, NEW h \in Handlers, LoseRace(h)
  PROVE  IInv'
<1> USE DEF IInv
<1>1. /\ handler' = [handler EXCEPT ![h].step = "ready", ![h].place = @ + 1,
                                    ![h].own = {}, ![h].broken = TRUE]
      /\ handler[h].step = "inserting"
      /\ UNCHANGED <<events, deliveries, acknowledged>>
  BY DEF LoseRace
<1>2. Types'
  BY <1>1 DEF Types, Handling
<1>3. \A g \in Handlers \ {h} : handler'[g] = handler[g]
  BY <1>1 DEF Types
<1>3a. handler'[h] = [handler[h] EXCEPT !.step = "ready", !.place = @ + 1,
        !.own = {}, !.broken = TRUE]
  BY <1>1 DEF Types
<1>4. /\ handler'[h].body = handler[h].body
      /\ handler'[h].place = handler[h].place + 1 /\ handler[h].place \in Nat
      /\ handler'[h].own = {} /\ handler'[h].broken /\ handler'[h].step = "ready"
  BY <1>3a DEF Types, Handling
<1>5. handler[h].place <= Len(handler[h].body) /\ Len(handler[h].body) \in Nat
  BY <1>1, BodyFacts DEF Placed, Types, Handling
<1>6. Placed'
  <2> SUFFICES ASSUME NEW g \in Handlers
               PROVE  /\ handler'[g].place <= Len(handler'[g].body) + 1
                      /\ handler'[g].step = "inserting" =>
                           /\ handler'[g].place <= Len(handler'[g].body)
                           /\ ~IsRefused(g)' /\ ~handler'[g].broken
                           /\ Key(g)' \notin Keys(handler'[g].own)
    BY DEF Placed
  <2>1. CASE g # h
    BY <1>3, <2>1 DEF Placed, IsRefused, Key, Item
  <2>2. CASE g = h
    BY <1>4, <1>5, <2>2
  <2> QED BY <2>1, <2>2
<1>7. OneRow' /\ Stored'
  BY <1>1 DEF OneRow, Stored
<1>8. OwnRows' /\ Apart' /\ Named'
  BY <1>1, <1>3, <1>4 DEF OwnRows, Apart, Named, Keys
<1>9. Done'
  BY <1>1, <1>3, <1>4 DEF Done, Takes
<1> QED BY <1>2, <1>6, <1>7, <1>8, <1>9

LEMMA KeptByAcknowledge ==
  ASSUME IInv, NEW h \in Handlers, Acknowledge(h)
  PROVE  IInv'
<1> USE DEF IInv
<1> DEFINE mine == handler[h].own
           taken == {n \in DOMAIN handler[h].body :
                       /\ handler[h].tenant # NoTenant /\ ~handler[h].late
                       /\ handler[h].body[n].supported}
<1>1. /\ handler' = [handler EXCEPT ![h] = Idle] /\ events' = events \cup mine
      /\ acknowledged' = acknowledged \cup {<<handler[h].body[n], n>> : n \in taken}
      /\ deliveries' = deliveries
      /\ handler[h].step = "ready" /\ ~HasItem(h) /\ ~handler[h].broken
  BY DEF Acknowledge
<1>2. handler[h].body \in Bodies \cup {<< >>} /\ handler[h].place \in Nat /\ mine \subseteq Rows
  BY DEF Types, Handling
<1>3. /\ \A n \in DOMAIN handler[h].body : n < handler[h].place
      /\ \A n \in taken : handler[h].body[n] \in Items /\ n \in Places
  BY <1>1, <1>2, BodyFacts DEF HasItem
<1>4. Types'
  BY <1>1, <1>2, <1>3, IdleIsTyped DEF Types
<1>5. handler'[h] = Idle /\ \A g \in Handlers \ {h} : handler'[g] = handler[g]
  BY <1>1 DEF Types
<1>6. /\ handler'[h].own = {} /\ handler'[h].step = "idle"
      /\ handler'[h].place = 1 /\ handler'[h].body = << >>
  BY <1>5 DEF Idle
<1>7. Placed'
  BY <1>5, <1>6 DEF Placed, IsRefused, Key, Item
<1>8. OneRow'
  BY <1>1 DEF OneRow, OwnRows, Keys
<1>9. OwnRows'
  BY <1>1, <1>5, <1>6 DEF OwnRows, Apart, Keys
<1>10. Apart'
  BY <1>5, <1>6 DEF Apart, Keys
<1>11. Named'
  BY <1>1, <1>5, <1>6 DEF Named
<1>12. Done'
  BY <1>1, <1>5, <1>6 DEF Done, Takes, Keys
<1>13. Stored'
  <2> SUFFICES ASSUME NEW t \in acknowledged' PROVE EventKey(t[1], t[2]) \in Keys(events')
    BY DEF Stored
  <2>1. CASE t \in acknowledged
    <3>1. EventKey(t[1], t[2]) \in Keys(events)
      BY <2>1 DEF Stored
    <3> QED BY <1>1, <3>1, KeysGrow
  <2>2. ASSUME NEW n \in taken, t = <<handler[h].body[n], n>>
        PROVE  EventKey(t[1], t[2]) \in Keys(events')
    <3>1. EventKey(handler[h].body[n], n) \in Keys(events \cup mine)
      BY <1>1, <1>3 DEF Done, Takes
    <3>2. t[1] = handler[h].body[n] /\ t[2] = n
      BY <2>2
    <3> QED BY <1>1, <3>1, <3>2
  <2> QED BY <1>1, <2>1, <2>2
<1> QED BY <1>4, <1>7, <1>8, <1>9, <1>10, <1>11, <1>12, <1>13

LEMMA KeptByProcess ==
  ASSUME IInv, NEW r \in events, ProcessEvent(r)
  PROVE  IInv'
<1> USE DEF IInv
<1> DEFINE s == [r EXCEPT !.status = "PROCESSED"]
<1>1. /\ events' = (events \ {r}) \cup {s}
      /\ UNCHANGED <<handler, deliveries, acknowledged>>
  BY DEF ProcessEvent
<1>2. r \in Rows /\ s \in Rows /\ s.key = r.key /\ s.item = r.item
  BY DEF Types, Rows
<1> HIDE DEF s
<1>3. Types'
  BY <1>1, <1>2 DEF Types
<1>4. Keys(events') = Keys(events)
  BY <1>1, <1>2 DEF Keys
<1>5. OneRow'
  BY <1>1, <1>2 DEF OneRow
<1>6. Placed'
  BY <1>1 DEF Placed, IsRefused, Key, Item
<1>7. OwnRows' /\ Apart' /\ Stored'
  BY <1>1, <1>4 DEF OwnRows, Apart, Stored
<1>8. Named'
  BY <1>1, <1>2 DEF Named
<1>9. Done'
  <2>1. \A g \in Handlers :
          Keys(events' \cup handler[g].own) = Keys(events \cup handler[g].own)
    BY <1>1, <1>2 DEF Keys
  <2> QED BY <1>1, <2>1 DEF Done, Takes
<1> QED BY <1>3, <1>5, <1>6, <1>7, <1>8, <1>9

LEMMA StoredNext == IInv /\ [WebhookNext]_webhookVars => IInv'
<1> SUFFICES ASSUME IInv, [WebhookNext]_webhookVars PROVE IInv'
  OBVIOUS
<1>1. ASSUME NEW h \in Handlers, NEW body \in Bodies, NEW late \in BOOLEAN,
             Receive(h, body, late)
      PROVE  IInv'
  BY <1>1, KeptByReceive
<1>2. ASSUME NEW h \in Handlers, Refuse(h) \/ Duplicate(h) PROVE IInv'
  BY <1>2, KeptByPassing DEF Refuse, Duplicate
<1>3. ASSUME NEW h \in Handlers, IsNew(h) PROVE IInv'
  BY <1>3, KeptByIsNew
<1>4. ASSUME NEW h \in Handlers, Insert(h) PROVE IInv'
  BY <1>4, KeptByInsert
<1>5. ASSUME NEW h \in Handlers, LoseRace(h) PROVE IInv'
  BY <1>5, KeptByLoseRace
<1>6. ASSUME NEW h \in Handlers, Acknowledge(h) PROVE IInv'
  BY <1>6, KeptByAcknowledge
<1>7. ASSUME NEW h \in Handlers, RollBack(h) PROVE IInv'
  BY <1>7, KeptByEnd DEF RollBack
<1>8. ASSUME NEW r \in events, ProcessEvent(r) PROVE IInv'
  BY <1>8, KeptByProcess
<1>9. CASE UNCHANGED webhookVars
  BY <1>9, KeysOfUnion DEF webhookVars, IInv, Types, Placed, OneRow, OwnRows, Apart,
     Done, Named, Stored, Takes, IsRefused, Key, Item
<1> QED BY <1>1, <1>2, <1>3, <1>4, <1>5, <1>6, <1>7, <1>8, <1>9 DEF WebhookNext

\* A committed row tells the event of the item that it was taken over for.
LEMMA StoredTells == IInv => DeliveriesAreStored
<1> SUFFICES ASSUME IInv, NEW taken \in acknowledged
             PROVE  LET i == taken[1] IN
                    /\ \E r \in events : /\ r.key = EventKey(i, taken[2])
                                         /\ Identified(i) => r.item.event = i.event
                    /\ Cardinality({r \in events : r.key = EventKey(i, taken[2])}) = 1
  BY DEF DeliveriesAreStored
<1> DEFINE i == taken[1]
           n == taken[2]
<1>1. i \in Items /\ n \in Places
  BY DEF IInv, Types
<1>2. PICK r \in events : r.key = EventKey(i, n)
  BY DEF IInv, Stored, Keys
<1>3. r.item \in Items
  BY DEF IInv, Types, Rows
<1>4. PICK k \in Places : r.key = EventKey(r.item, k)
  BY DEF IInv, Named
<1>5. EventKey(i, n) = EventKey(r.item, n)
  BY <1>2, <1>4, KeyHasPlace
<1>6. Identified(i) => r.item.event = i.event
  BY <1>1, <1>3, <1>5, IdentifierAssumption
<1>7. {s \in events : s.key = EventKey(i, n)} = {r}
  BY <1>2 DEF IInv, OneRow
<1>8. Cardinality({s \in events : s.key = EventKey(i, n)}) = 1
  BY <1>7, FS_Singleton
<1> QED BY <1>2, <1>6, <1>8

-----------------------------------------------------------------------------

\* A request is at an item of the entry that it handles, or past the last one,
\* and only rows of items that were delivered are written.
THEOREM WebhookTypes == WebhookSpec => []WebhookTypeOK
<1>1. IInv => WebhookTypeOK
  <2> SUFFICES ASSUME Types, Placed, NEW h \in Handlers
               PROVE  /\ handler[h].step \in {"idle", "ready", "inserting"}
                      /\ handler[h].body \in Bodies \cup {<< >>}
                      /\ handler[h].place \in 1 .. Len(handler[h].body) + 1
                      /\ handler[h].own \subseteq Rows
    BY DEF IInv, Types, WebhookTypeOK
  <2>1. handler[h] \in Handling
    BY DEF Types
  <2>2. handler[h].body \in Bodies \cup {<< >>} /\ handler[h].place \in Nat \ {0}
    BY <2>1 DEF Handling
  <2>3. Len(handler[h].body) \in Nat
    BY <2>2, BodyFacts
  <2>4. handler[h].place <= Len(handler[h].body) + 1
    BY DEF Placed
  <2>5. handler[h].place \in 1 .. Len(handler[h].body) + 1
    BY <2>2, <2>3, <2>4
  <2> QED BY <2>1, <2>5 DEF Handling
<1> QED BY <1>1, StoredInit, StoredNext, PTL DEF WebhookSpec

\* Whatever deliveries overlap, repeat each other, lose a race or are rolled
\* back, each item of a delivery that was committed has exactly one row for its
\* key, and an identified item has a row that tells its event (ingest, _persist).
THEOREM DeliveriesAreKept == WebhookSpec => []DeliveriesAreStored
BY StoredInit, StoredNext, StoredTells, PTL DEF WebhookSpec

-----------------------------------------------------------------------------
(* Each delivery that is committed is delivered in one step of WebhookInbox.  *)

RowOf(h, n) ==
  [key |-> EventKey(handler[h].body[n], n), item |-> handler[h].body[n],
   tenant |-> handler[h].tenant, status |-> "PENDING"]

\* A request has written rows of items that it takes over, as they were
\* delivered, and for a workspace that the entry names.
ComposedOf(h) ==
  /\ \A r \in handler[h].own :
       \E n \in DOMAIN handler[h].body : Takes(h, n) /\ r = RowOf(h, n)
  /\ handler[h].tenant # NoTenant =>
       /\ handler[h].body \in Bodies
       /\ handler[h].tenant \in Resolve(handler[h].body)

Composed == \A h \in Handlers : ComposedOf(h)

LEMMA ComposedInit == WebhookInit => Composed
BY DEF WebhookInit, Composed, ComposedOf, Idle

\* A step of one request leaves the rows of the others alone.
LEMMA ComposedByOne ==
  ASSUME Composed, NEW h \in Handlers, ComposedOf(h)',
         \A g \in Handlers \ {h} : handler'[g] = handler[g]
  PROVE  Composed'
BY DEF Composed, ComposedOf, RowOf, Takes

\* A request that goes on in its entry, and keeps its rows or gives them up.
LEMMA ComposedByGoing ==
  ASSUME Types, Composed, NEW h \in Handlers,
         handler'[h].body = handler[h].body, handler'[h].tenant = handler[h].tenant,
         handler'[h].late = handler[h].late, handler'[h].own \subseteq handler[h].own
  PROVE  ComposedOf(h)'
BY DEF Composed, ComposedOf, RowOf, Takes

LEMMA ComposedByIdle ==
  ASSUME NEW h \in Handlers, handler'[h] = Idle
  PROVE  ComposedOf(h)'
BY DEF ComposedOf, Idle

LEMMA ComposedByInsert ==
  ASSUME IInv, Composed, NEW h \in Handlers, Insert(h)
  PROVE  Composed'
<1> DEFINE r == [key |-> Key(h), item |-> Item(h),
                 tenant |-> handler[h].tenant, status |-> "PENDING"]
<1>1. Types /\ Placed
  BY DEF IInv
<1>2. /\ handler[h].step = "inserting"
      /\ handler' = [handler EXCEPT ![h].step = "ready", ![h].place = @ + 1,
                                    ![h].own = @ \cup {r}]
  BY DEF Insert
<1>3. \A g \in Handlers \ {h} : handler'[g] = handler[g]
  BY <1>1, <1>2 DEF Types
<1>4. handler'[h] = [handler[h] EXCEPT !.step = "ready", !.place = @ + 1,
                                       !.own = @ \cup {r}]
  BY <1>1, <1>2 DEF Types
<1>5. /\ handler[h].place <= Len(handler[h].body) /\ ~IsRefused(h)
      /\ handler[h].place \in DOMAIN handler[h].body
  BY <1>1, <1>2, ItemFacts DEF Placed
<1>6. r = RowOf(h, handler[h].place) /\ Takes(h, handler[h].place)
  BY <1>5 DEF RowOf, Takes, IsRefused, Key, Item
<1> HIDE DEF r
<1>7. /\ handler'[h].body = handler[h].body /\ handler'[h].tenant = handler[h].tenant
      /\ handler'[h].late = handler[h].late
      /\ handler'[h].own = handler[h].own \cup {r}
  BY <1>1, <1>4 DEF Types, Handling
<1>8. \A x \in handler[h].own \cup {r} :
        \E n \in DOMAIN handler[h].body : Takes(h, n) /\ x = RowOf(h, n)
  BY <1>5, <1>6 DEF Composed, ComposedOf
<1>9. ComposedOf(h)'
  BY <1>7, <1>8 DEF Composed, ComposedOf, RowOf, Takes
<1> QED BY <1>3, <1>9, ComposedByOne

LEMMA ComposedNext == IInv /\ Composed /\ [WebhookNext]_webhookVars => Composed'
<1> SUFFICES ASSUME IInv, Composed, [WebhookNext]_webhookVars
             PROVE  Composed'
  OBVIOUS
<1>1. Types
  BY DEF IInv
<1>2. ASSUME NEW h \in Handlers, NEW body \in Bodies, NEW late \in BOOLEAN,
             Receive(h, body, late)
      PROVE  Composed'
  <2>1. PICK t \in Resolve(body) :
          handler' = [handler EXCEPT ![h] =
            [step |-> "ready", body |-> body, place |-> 1, late |-> late,
             tenant |-> t, own |-> {}, broken |-> FALSE]]
    BY <1>2 DEF Receive
  <2>2. /\ handler'[h].body = body /\ handler'[h].tenant = t /\ handler'[h].own = {}
        /\ \A g \in Handlers \ {h} : handler'[g] = handler[g]
    BY <1>1, <2>1 DEF Types
  <2>3. ComposedOf(h)'
    BY <2>2 DEF ComposedOf
  <2> QED BY <2>2, <2>3, ComposedByOne
<1>3. ASSUME NEW h \in Handlers,
             Refuse(h) \/ Duplicate(h) \/ IsNew(h) \/ LoseRace(h)
      PROVE  Composed'
  <2>1. /\ \A g \in Handlers \ {h} : handler'[g] = handler[g]
        /\ handler'[h].body = handler[h].body /\ handler'[h].tenant = handler[h].tenant
        /\ handler'[h].late = handler[h].late /\ handler'[h].own \subseteq handler[h].own
    BY <1>1, <1>3 DEF Types, Handling, Refuse, Duplicate, IsNew, LoseRace
  <2> QED BY <1>1, <2>1, ComposedByGoing, ComposedByOne
<1>4. ASSUME NEW h \in Handlers, Acknowledge(h) \/ RollBack(h)
      PROVE  Composed'
  <2>1. /\ \A g \in Handlers \ {h} : handler'[g] = handler[g]
        /\ handler'[h] = Idle
    BY <1>1, <1>4 DEF Types, Acknowledge, RollBack
  <2> QED BY <2>1, ComposedByIdle, ComposedByOne
<1>5. CASE UNCHANGED handler
  BY <1>5 DEF Composed, ComposedOf, RowOf, Takes
<1> QED
  BY <1>2, <1>3, <1>4, <1>5, ComposedByInsert DEF WebhookNext, ProcessEvent, webhookVars

\* What a request commits is what WebhookInbox stores in one step.
LEMMA OwnIsDelivered ==
  ASSUME IInv, Composed, NEW h \in Handlers, Acknowledge(h),
         handler[h].tenant # NoTenant, ~handler[h].late
  PROVE  Inbox!Deliver(handler[h].body, handler[h].tenant)
<1> DEFINE body == handler[h].body
           tenant == handler[h].tenant
           own == handler[h].own
           new == {n \in Inbox!Supported(body) : ~Inbox!HasRow(EventKey(body[n], n))}
           stored == {Inbox!Row(body, n, tenant) : n \in new}
<1>1. Types /\ OwnRows /\ Done
  BY DEF IInv
<1>2. /\ events' = events \cup own
      /\ acknowledged' = acknowledged \cup
           {<<body[n], n>> : n \in
              {n \in DOMAIN body : tenant # NoTenant /\ ~handler[h].late
                                   /\ body[n].supported}}
      /\ handler[h].step = "ready" /\ ~HasItem(h) /\ ~handler[h].broken
  BY DEF Acknowledge
<1>3. \A n : Inbox!Row(body, n, tenant) = RowOf(h, n)
  BY DEF Inbox!Row, RowOf
<1>4. \A n \in DOMAIN body : n < handler[h].place
  BY <1>1, <1>2, BodyFacts DEF Types, Handling, HasItem
<1>5. \A n : n \in Inbox!Supported(body) <=> n \in DOMAIN body /\ Takes(h, n)
  BY DEF Inbox!Supported, Takes
<1>6. \A key : Inbox!HasRow(key) <=> key \in Keys(events)
  BY DEF Inbox!HasRow, Keys
<1>7. ASSUME NEW r \in own PROVE r \in stored
  <2>1. PICK n \in DOMAIN body : Takes(h, n) /\ r = RowOf(h, n)
    BY DEF Composed, ComposedOf
  <2>2. r.key = EventKey(body[n], n)
    BY <2>1 DEF RowOf
  <2>3. ~Inbox!HasRow(EventKey(body[n], n))
    BY <1>1, <1>6, <2>2 DEF OwnRows
  <2> QED BY <1>3, <1>5, <2>1, <2>3
<1>8. ASSUME NEW n \in new PROVE RowOf(h, n) \in own
  <2>1. n \in DOMAIN body /\ Takes(h, n) /\ EventKey(body[n], n) \notin Keys(events)
    BY <1>5, <1>6
  <2>2. EventKey(body[n], n) \in Keys(events \cup own)
    BY <1>1, <1>2, <1>4, <2>1 DEF Done
  <2>3. PICK r \in own : r.key = EventKey(body[n], n)
    BY <2>1, <2>2 DEF Keys
  <2>4. PICK k \in DOMAIN body : r = RowOf(h, k)
    BY DEF Composed, ComposedOf
  <2>5. k = n
    BY <2>3, <2>4, KeyHasPlace DEF RowOf
  <2> QED BY <2>4, <2>5
<1>9. own = stored
  BY <1>3, <1>7, <1>8
<1>10. {n \in DOMAIN body : tenant # NoTenant /\ ~handler[h].late /\ body[n].supported}
         = Inbox!Supported(body)
  BY DEF Inbox!Supported
<1> QED BY <1>2, <1>9, <1>10 DEF Inbox!Deliver

\* A late delivery, or one of no known account, is committed without a trace.
LEMMA OthersLeaveNoTrace ==
  ASSUME IInv, Composed, NEW h \in Handlers, Acknowledge(h),
         handler[h].tenant = NoTenant \/ handler[h].late
  PROVE  UNCHANGED <<events, acknowledged>>
<1>1. handler[h].own = {}
  BY DEF Composed, ComposedOf, Takes
<1> QED BY <1>1 DEF Acknowledge

LEMMA InboxStep ==
  ASSUME IInv, Composed, [WebhookNext]_webhookVars
  PROVE  [Inbox!Next]_(Inbox!vars)
<1>1. ASSUME NEW h \in Handlers, Acknowledge(h)
      PROVE  [Inbox!Next]_(Inbox!vars)
  <2>1. CASE handler[h].tenant # NoTenant /\ ~handler[h].late
    <3>1. handler[h].body \in Bodies /\ handler[h].tenant \in Owners(handler[h].body)
      BY <2>1 DEF Composed, ComposedOf, Owners
    <3>2. Inbox!Deliver(handler[h].body, handler[h].tenant)
      BY <1>1, <2>1, OwnIsDelivered
    <3> QED BY <3>1, <3>2 DEF Inbox!Next
  <2>2. CASE handler[h].tenant = NoTenant \/ handler[h].late
    BY <1>1, <2>2, OthersLeaveNoTrace DEF Inbox!vars
  <2> QED BY <2>1, <2>2
<1>2. ASSUME NEW r \in events, ProcessEvent(r)
      PROVE  [Inbox!Next]_(Inbox!vars)
  BY <1>2 DEF ProcessEvent, Inbox!Next, Inbox!ProcessEvent
<1>3. CASE UNCHANGED <<events, acknowledged>>
  BY <1>3 DEF Inbox!vars
<1> QED
  BY <1>1, <1>2, <1>3
  DEF WebhookNext, Receive, Refuse, Duplicate, IsNew, Insert, LoseRace, RollBack,
      webhookVars

\* However deliveries overlap, repeat, lose races and are rolled back, each one
\* that is committed has the effect of one step that finds the inbox as it is at
\* the commit, for a workspace that the entry names (ingest, _persist).
THEOREM DeliveriesAreAtomic == WebhookSpec => ImplementsInbox
<1>1. WebhookInit => Inbox!Init
  BY DEF WebhookInit, Inbox!Init
<1> QED
  BY <1>1, StoredInit, StoredNext, ComposedInit, ComposedNext, InboxStep, PTL
  DEF WebhookSpec, ImplementsInbox, Inbox!Spec

-----------------------------------------------------------------------------
(* What WebhookInbox promises by itself. *)

IsRow(r) == r = [key |-> r.key, item |-> r.item, tenant |-> r.tenant, status |-> r.status]

InboxInv == (\A r \in events : IsRow(r)) /\ OneRow /\ Stored

LEMMA InboxInvNext == InboxInv /\ [Inbox!Next]_(Inbox!vars) => InboxInv'
<1> SUFFICES ASSUME InboxInv, [Inbox!Next]_(Inbox!vars)
             PROVE  InboxInv'
  OBVIOUS
<1>1. ASSUME NEW body \in Bodies, NEW tenant \in Owners(body), Inbox!Deliver(body, tenant)
      PROVE  InboxInv'
  <2> DEFINE new == {n \in Inbox!Supported(body) : ~Inbox!HasRow(EventKey(body[n], n))}
             stored == {Inbox!Row(body, n, tenant) : n \in new}
  <2>1. /\ events' = events \cup stored
        /\ acknowledged' = acknowledged \cup {<<body[n], n>> : n \in Inbox!Supported(body)}
    BY <1>1 DEF Inbox!Deliver
  <2>2. \A r \in stored : \E n \in new : r = Inbox!Row(body, n, tenant)
    OBVIOUS
  <2>3. \A n \in new : Inbox!Row(body, n, tenant) \in stored
    OBVIOUS
  <2>4. \A n \in Inbox!Supported(body) : n \in new \/ EventKey(body[n], n) \in Keys(events)
    BY DEF Inbox!HasRow, Keys
  <2>5. \A n \in new : EventKey(body[n], n) \notin Keys(events)
    BY DEF Inbox!HasRow, Keys
  <2> HIDE DEF new, stored
  <2>6. \A n : Inbox!Row(body, n, tenant).key = EventKey(body[n], n)
    BY DEF Inbox!Row
  <2>7. \A r \in events' : IsRow(r)
    <3>1. \A n : IsRow(Inbox!Row(body, n, tenant))
      BY DEF Inbox!Row, IsRow
    <3> QED BY <2>1, <2>2, <3>1 DEF InboxInv
  <2>8. OneRow'
    <3>1. \A r \in stored : r.key \notin Keys(events)
      BY <2>2, <2>5, <2>6
    <3>2. ASSUME NEW r \in stored, NEW s \in stored, r.key = s.key
          PROVE  r = s
      <4>1. PICK n \in new : r = Inbox!Row(body, n, tenant)
        BY <2>2
      <4>2. PICK k \in new : s = Inbox!Row(body, k, tenant)
        BY <2>2
      <4>3. EventKey(body[n], n) = EventKey(body[k], k)
        BY <2>6, <3>2, <4>1, <4>2
      <4>4. n = k
        BY <4>3, KeyHasPlace
      <4> QED BY <4>1, <4>2, <4>4
    <3> QED BY <2>1, <3>1, <3>2 DEF InboxInv, OneRow, Keys
  <2>9. Stored'
    <3> SUFFICES ASSUME NEW taken \in acknowledged'
                 PROVE  EventKey(taken[1], taken[2]) \in Keys(events')
      BY DEF Stored
    <3>1. CASE taken \in acknowledged
      <4>1. EventKey(taken[1], taken[2]) \in Keys(events)
        BY <3>1 DEF InboxInv, Stored
      <4> QED BY <2>1, <4>1, KeysGrow
    <3>2. ASSUME NEW n \in Inbox!Supported(body), taken = <<body[n], n>>
          PROVE  EventKey(taken[1], taken[2]) \in Keys(events')
      <4>1. taken[1] = body[n] /\ taken[2] = n
        BY <3>2
      <4>2. EventKey(body[n], n) \in Keys(events')
        BY <2>1, <2>3, <2>4, <2>6 DEF Keys
      <4> QED BY <4>1, <4>2
    <3> QED BY <2>1, <3>1, <3>2
  <2> QED BY <2>7, <2>8, <2>9 DEF InboxInv
<1>2. ASSUME NEW r \in events, Inbox!ProcessEvent(r)
      PROVE  InboxInv'
  <2> DEFINE s == [r EXCEPT !.status = "PROCESSED"]
  <2>1. IsRow(r)
    BY DEF InboxInv
  <2>2. s = [key |-> r.key, item |-> r.item, tenant |-> r.tenant, status |-> "PROCESSED"]
    BY <2>1 DEF IsRow
  <2>3. IsRow(s) /\ s.key = r.key
    BY <2>2 DEF IsRow
  <2>4. events' = (events \ {r}) \cup {s} /\ acknowledged' = acknowledged
    BY <1>2 DEF Inbox!ProcessEvent
  <2> HIDE DEF s
  <2>5. Keys(events') = Keys(events)
    BY <2>3, <2>4 DEF Keys
  <2> QED BY <2>3, <2>4, <2>5 DEF InboxInv, OneRow, Stored
<1>3. CASE UNCHANGED Inbox!vars
  BY <1>3 DEF Inbox!vars, InboxInv, OneRow, Stored
<1> QED BY <1>1, <1>2, <1>3 DEF Inbox!Next

\* The promise of the abstract inbox: there is one row for a key at most, and what
\* was taken over has one, for any keys that tell the places in an entry apart.
THEOREM InboxKeepsItsPromise == Inbox!Spec => [](OneRow /\ Stored)
<1>1. Inbox!Init => InboxInv
  BY DEF Inbox!Init, InboxInv, OneRow, Stored
<1>2. InboxInv => OneRow /\ Stored
  BY DEF InboxInv
<1> QED BY <1>1, <1>2, InboxInvNext, PTL DEF Inbox!Spec

=============================================================================
