----------------------------- MODULE MCServices -----------------------------
(***************************************************************************)
(* Instances for TLC of the modules that share no state with each other: a *)
(* behaviour runs one of them, and the others stay as they were.           *)
(***************************************************************************)
EXTENDS QuotaWindow, AIBudget, RateLimiter, Webhooks, MediaPublishing, TLC

VARIABLE part     (* the module whose behaviour this is *)

Init ==
  /\ part \in {"quota", "ai", "limiter", "webhooks", "media"}
  /\ QuotaInit /\ AIInit /\ LimiterInit /\ WebhookInit /\ MediaInit

Next ==
  /\ UNCHANGED part
  /\ \/ /\ part = "quota" /\ QuotaNext
        /\ UNCHANGED <<aiVars, limiterVars, webhookVars, mediaVars>>
     \/ /\ part = "ai" /\ AINext
        /\ UNCHANGED <<quotaVars, limiterVars, webhookVars, mediaVars>>
     \/ /\ part = "limiter" /\ LimiterNext
        /\ UNCHANGED <<quotaVars, aiVars, webhookVars, mediaVars>>
     \/ /\ part = "webhooks" /\ WebhookNext
        /\ UNCHANGED <<quotaVars, aiVars, limiterVars, mediaVars>>
     \/ /\ part = "media" /\ MediaNext
        /\ UNCHANGED <<quotaVars, aiVars, limiterVars, webhookVars>>

Spec == Init /\ [][Next]_<<part, quotaVars, aiVars, limiterVars, webhookVars, mediaVars>>

Symmetry == Permutations(Pollers) \cup Permutations(Generators)
              \cup Permutations(Handlers)

\* The type invariants of the five modules: rows, transactions and histories
\* keep their types whatever was interleaved.
TypeOK == QuotaTypeOK /\ AITypeOK /\ LimiterTypeOK /\ WebhookTypeOK /\ MediaTypeOK

-----------------------------------------------------------------------------
(* Items of webhooks, and the entries they come in.  The shop and the cafe are *)
(* connected accounts of two workspaces.                                       *)

Change(event, named, field, id, media, supported) ==
  [event |-> event, entry |-> "shop", named |-> named, field |-> field,
   id |-> id, media |-> media, mid |-> NoId, text |-> NoId,
   supported |-> supported]

Messaging(event, entry, mid, text) ==
  [event |-> event, entry |-> entry, named |-> NoId, field |-> NoId,
   id |-> NoId, media |-> NoId, mid |-> mid, text |-> text, supported |-> TRUE]

CommentOfCafe == Change("comment of cafe", "cafe", "comments", "c1", NoId, TRUE)
Comment == Change("comment", "guest", "comments", "c2", "p1", TRUE)
Reply == Change("reply", "guest", "comments", "c3", "p1", TRUE)
Standby == Change("standby", "guest", "standby", "s1", NoId, FALSE)
Message == Messaging("message", "shop", "m1", NoId)
Button == Messaging("button", "shop", NoId, "START")
Like == Messaging("like", "shop", NoId, NoId)
Love == Messaging("love", "shop", NoId, NoId)
Stray == Messaging("stray", "gone", "m2", NoId)

WebhookItems ==
  {CommentOfCafe, Comment, Reply, Standby, Message, Button, Like, Love, Stray}

\* The same item alone and in company, in another place, and items that the key
\* does not tell apart.
WebhookBodies ==
  {<<Comment>>, <<Reply, Comment>>, <<CommentOfCafe, Standby>>, <<Message, Like>>,
   <<Message>>, <<Button, Message>>, <<Like, Message>>, <<Love>>, <<Like>>, <<Stray>>}

Tenants == [a \in {"shop", "cafe"} |-> a]

=============================================================================
