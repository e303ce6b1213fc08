-------------------------- MODULE ConnectionProofs --------------------------
(***************************************************************************)
(* Proofs about Connection, for any number of requests, workspaces,        *)
(* attempts and tokens: the types, that at most one token of the account   *)
(* is active, that its tokens belong to its tenant, that it never moves to *)
(* another tenant, that its status tells whether there is a credential as  *)
(* long as no commit overtakes another request, that requests never all    *)
(* wait for each other, and that the connection implements Credential.     *)
(***************************************************************************)
EXTENDS Connection, FiniteSetTheorems, TLAPS

InCallback == {q \in Requests : pc[q] \in Callbacks}

\* The account row exists with its tenant, and before it exists there are no
\* tokens and nothing to refresh or to disconnect.
Owned ==
  /\ account.ws = NoWorkspace <=> account.status = "ABSENT"
  /\ account.ws = NoWorkspace => Stored = {}
  /\ \A p \in Requests :
       pc[p] \in Refreshes \cup Disconnects => account.ws # NoWorkspace

\* A callback brings back an attempt that its workspace has begun, and a stored
\* token comes from an attempt.
Begun ==
  /\ \A p \in Requests : pc[p] \in Callbacks =>
       /\ asks[p] \in Workspaces /\ attempt[p] \in Attempts
       /\ attempts[attempt[p]].ws = asks[p]
       /\ attempts[attempt[p]].life # "none"
  /\ \A t \in Stored : tokens[t].from \in Attempts

\* A callback that has found the account found it in its own workspace, and one
\* that inserts it holds the row.
Found ==
  \A p \in Requests :
    /\ pc[p] \in {"upserting", "replacing"} /\ saw[p] # "ABSENT" =>
         account.ws = asks[p]
    /\ pc[p] = "replacing" /\ saw[p] = "ABSENT" => account.ws = NoWorkspace

\* The account row is written by one request at a time, and a callback that
\* holds it has picked every active token: nobody else can add one.
Locking ==
  /\ \A p, q \in HasAccount : p = q
  /\ \A p \in Requests : pc[p] = "replacing" => Active \subseteq seen[p]

\* The token rows that a request has picked exist.
Picked == \A p \in Requests : seen[p] \subseteq Stored

\* Tokens are stored in the order of their numbers, and there is a number left
\* for each callback.
Numbered ==
  /\ Stored = 1 .. Cardinality(Stored)
  /\ Cardinality(Stored) + Cardinality(InCallback) <= MaxTokens

\* What a request that was not overtaken has read is still so.
UpToDate(p) ==
  /\ pc[p] \notin {"idle", "exchanging"} => saw[p] = account.status
  /\ pc[p] \in {"calling", "marked", "renewed", "revived"} =>
       seen[p] \subseteq Active /\ seen[p] # {}
  /\ pc[p] \in {"scanning", "revoked"} => seen[p] = Active

Serial ==
  /\ \A p \in Requests \ overtaken : UpToDate(p)
  /\ StatusTellsCredential

\* The inductive invariant.
IInv ==
  /\ TypeOK
  /\ Owned
  /\ Begun
  /\ Found
  /\ Locking
  /\ Picked
  /\ Numbered
  /\ OneCredential
  /\ TokensOfOneTenant
  /\ Serial

\* Everything that the other facts about tokens depend on stays.
SameTokens ==
  \A t \in Ids : /\ tokens'[t].state = tokens[t].state
                 /\ tokens'[t].ws = tokens[t].ws
                 /\ tokens'[t].from = tokens[t].from

-----------------------------------------------------------------------------
(* The types. *)

LEMMA InitTypes == Init => TypeOK
<1> SUFFICES ASSUME Init PROVE TypeOK
  OBVIOUS
<1>1. NoToken \in Token
  BY DEF NoToken, Token
<1>2. "idle" \in Steps /\ "ABSENT" \in AccountStatus
  BY DEF Steps, AccountStatus
<1> QED
  BY <1>1, <1>2 DEF Init, TypeOK, Attempt, Account

LEMMA EndTypes ==
  ASSUME TypeOK, NEW p \in Requests, Commits(p) \/ EndsQuietly(p)
  PROVE  /\ pc' \in [Requests -> Steps]
         /\ asks' \in [Requests -> Workspaces \cup {NoWorkspace}]
         /\ attempt' \in [Requests -> Attempts \cup {NoAttempt}]
         /\ saw' \in [Requests -> AccountStatus]
         /\ seen' \in [Requests -> SUBSET Ids]
         /\ overtaken' \in SUBSET Requests
         /\ torn' \in BOOLEAN
<1>1. Ends(p)
  BY DEF Commits, EndsQuietly
<1>2. overtaken' \in SUBSET Requests /\ torn' \in BOOLEAN
  BY Zenon DEF TypeOK, Commits, EndsQuietly, HaveRead
<1> QED
  BY <1>1, <1>2 DEF TypeOK, Ends, Steps, AccountStatus

LEMMA LatestIsActive ==
  ASSUME TypeOK, OneCredential, Active # {}
  PROVE  Latest(Active) \in Active
<1>1. PICK t \in Active : TRUE
  OBVIOUS
<1>2. \A u \in Active : u = t
  BY <1>1 DEF OneCredential
<1>3. t \in Int
  BY <1>1, ConnectionAssumption DEF Active, Ids
<1>4. \E x \in Active : \A u \in Active : u <= x
  BY <1>1, <1>2, <1>3
<1> QED
  BY <1>4, Zenon DEF Latest

LEMMA StepTypes ==
  ASSUME TypeOK, OneCredential, Owned, Begun, [Next]_vars
  PROVE  TypeOK'
<1> USE DEF rows, mine, ghosts
<1>1. ASSUME NEW w \in Workspaces, NEW s \in Attempts, BeginConnect(w, s)
      PROVE  TypeOK'
  BY <1>1 DEF BeginConnect, TypeOK, Attempt
<1>2. ASSUME NEW s \in Attempts, AttemptExpires(s)
      PROVE  TypeOK'
  BY <1>2 DEF AttemptExpires, TypeOK, Attempt
<1>3. ASSUME NEW t \in Ids, TokenAges(t)
      PROVE  TypeOK'
  BY <1>3 DEF TokenAges, TypeOK, Token
<1>4. ASSUME NEW p \in Requests, NEW w \in Workspaces, NEW s \in Attempts,
             CallbackStarts(p, w, s)
      PROVE  TypeOK'
  BY <1>4 DEF CallbackStarts, TypeOK, Goes, Steps, Callbacks
<1>5. ASSUME NEW p \in Requests,
             \/ \E w \in Workspaces : RefreshRequested(p, w) \/ Leave(p, w)
             \/ SweepPicks(p)
      PROVE  TypeOK'
  BY <1>5 DEF RefreshRequested, Leave, SweepPicks, TypeOK, Goes, Steps,
              Refreshes, Disconnects, Account
<1>6. ASSUME NEW p \in Requests, ConnectFails(p) \/ AccountOfAnotherTenant(p)
      PROVE  TypeOK'
  <2>1. attempts' \in [Attempts -> Attempt]
    BY <1>6 DEF ConnectFails, AccountOfAnotherTenant, Consumes, TypeOK, Attempt
  <2> QED
    BY <1>6, <2>1, EndTypes DEF ConnectFails, AccountOfAnotherTenant, TypeOK
<1>7. ASSUME NEW p \in Requests,
             ProfileArrives(p) \/ MarkAccount(p) \/ RenewToken(p) \/ ReviveAccount(p)
      PROVE  TypeOK'
  BY <1>7 DEF ProfileArrives, MarkAccount, RenewToken, ReviveAccount, TypeOK,
              Goes, Steps, Callbacks, Refreshes, Account
<1>8. ASSUME NEW p \in Requests,
             \/ InsertedMeanwhile(p) \/ NothingToRefresh(p)
             \/ RefreshGivesNothing(p) \/ RefreshIsLost(p)
      PROVE  TypeOK'
  BY <1>8, EndTypes
  DEF InsertedMeanwhile, NothingToRefresh, RefreshGivesNothing, RefreshIsLost, TypeOK
<1>9. ASSUME NEW p \in Requests,
             WriteAccount(p) \/ PickTokens(p) \/ RevokeTokens(p)
      PROVE  TypeOK'
  BY <1>9 DEF WriteAccount, PickTokens, RevokeTokens, TypeOK, Goes, Steps,
              Callbacks, Disconnects, Active
<1>10. ASSUME NEW p \in Requests, CallForToken(p)
       PROVE  TypeOK'
  BY <1>10, LatestIsActive DEF CallForToken, TypeOK, Goes, Steps, Refreshes, Active
<1>11. ASSUME NEW p \in Requests, StoreToken(p)
       PROVE  TypeOK'
  <2>1. asks[p] \in Workspaces /\ attempt[p] \in Attempts
    BY <1>11 DEF StoreToken, Begun, Callbacks
  <2>2. attempts' \in [Attempts -> Attempt]
    BY <1>11 DEF StoreToken, Consumes, TypeOK, Attempt
  <2>3. tokens' \in [Ids -> Token]
    BY <1>11, <2>1 DEF StoreToken, TypeOK, Token
  <2>4. account' \in Account
    BY <1>11, <2>1 DEF StoreToken, TypeOK, Account, AccountStatus
  <2> QED
    BY <1>11, <2>2, <2>3, <2>4, EndTypes DEF StoreToken, TypeOK
<1>12. ASSUME NEW p \in Requests,
              RefreshFails(p) \/ RefreshSucceeds(p) \/ Disconnect(p)
       PROVE  TypeOK'
  <2>1. tokens' \in [Ids -> Token]
    BY <1>12 DEF RefreshFails, RefreshSucceeds, Disconnect, TypeOK, Token
  <2>2. account' \in Account
    BY <1>12 DEF RefreshFails, RefreshSucceeds, Disconnect, TypeOK, Account,
                 AccountStatus
  <2> QED
    BY <1>12, <2>1, <2>2, EndTypes
    DEF RefreshFails, RefreshSucceeds, Disconnect, TypeOK
<1>13. ASSUME NEW p \in Requests, NEW q \in Requests, BreakDeadlock(p, q)
       PROVE  TypeOK'
  BY <1>13, EndTypes DEF BreakDeadlock, TypeOK
<1>14. CASE UNCHANGED vars
  BY <1>14 DEF vars, TypeOK
<1> QED
  BY <1>1, <1>2, <1>3, <1>4, <1>5, <1>6, <1>7, <1>8, <1>9, <1>10, <1>11,
     <1>12, <1>13, <1>14
  DEF Next, Starts, Continues

-----------------------------------------------------------------------------
(* The rows. *)

LEMMA SameSets ==
  ASSUME SameTokens PROVE Stored' = Stored /\ Active' = Active
BY DEF SameTokens, Stored, Active

\* Every step but four leaves the account alone, and the tokens apart from
\* their age.
OtherSteps ==
  \/ \E w \in Workspaces, s \in Attempts : BeginConnect(w, s)
  \/ \E s \in Attempts : AttemptExpires(s)
  \/ \E t \in Ids : TokenAges(t)
  \/ \E p \in Requests :
       \/ Starts(p)
       \/ ConnectFails(p) \/ ProfileArrives(p) \/ AccountOfAnotherTenant(p)
       \/ InsertedMeanwhile(p) \/ WriteAccount(p)
       \/ NothingToRefresh(p) \/ CallForToken(p)
       \/ RefreshGivesNothing(p) \/ RefreshIsLost(p)
       \/ MarkAccount(p) \/ RenewToken(p) \/ ReviveAccount(p)
       \/ PickTokens(p) \/ RevokeTokens(p)
       \/ \E q \in Requests : BreakDeadlock(p, q)
  \/ UNCHANGED vars

LEMMA StepKinds ==
  ASSUME [Next]_vars
  PROVE  \/ OtherSteps
         \/ \E p \in Requests :
              StoreToken(p) \/ RefreshFails(p) \/ RefreshSucceeds(p) \/ Disconnect(p)
BY Zenon DEF Next, Continues, OtherSteps

LEMMA OthersKeepRows ==
  ASSUME TypeOK, OtherSteps
  PROVE  UNCHANGED account /\ SameTokens
<1> USE DEF rows, mine, ghosts
<1>1. ASSUME NEW t \in Ids, TokenAges(t)
      PROVE  UNCHANGED account /\ SameTokens
  BY <1>1 DEF TokenAges, SameTokens, TypeOK, Token
<1>2. CASE UNCHANGED <<account, tokens>>
  BY <1>2 DEF SameTokens
<1> QED
  BY <1>1, <1>2
  DEF OtherSteps, BeginConnect, AttemptExpires, Starts, CallbackStarts,
      RefreshRequested, Leave, SweepPicks, ConnectFails, ProfileArrives,
      AccountOfAnotherTenant, InsertedMeanwhile, WriteAccount,
      NothingToRefresh, CallForToken, RefreshGivesNothing, RefreshIsLost,
      MarkAccount, RenewToken, ReviveAccount,
      PickTokens, RevokeTokens, BreakDeadlock, vars

\* The four steps that write the account or a token end a transaction.
LEMMA WritersKeepStored ==
  ASSUME TypeOK, Picked, NEW p \in Requests,
         RefreshFails(p) \/ RefreshSucceeds(p) \/ Disconnect(p)
  PROVE  /\ UNCHANGED attempts /\ Commits(p) /\ account'.ws = account.ws
         /\ Stored' = Stored /\ Active' \subseteq Active
         /\ \A t \in Ids : tokens'[t].ws = tokens[t].ws
                          /\ tokens'[t].from = tokens[t].from
<1>1. CASE RefreshFails(p)
  BY <1>1 DEF RefreshFails, Stored, Active
<1>2. CASE RefreshSucceeds(p)
  BY <1>2 DEF RefreshSucceeds, Stored, Active
<1>3. CASE Disconnect(p)
  <2>1. \A t \in Ids : /\ tokens'[t].ws = tokens[t].ws
                       /\ tokens'[t].from = tokens[t].from
                       /\ tokens'[t].state \in {"revoked", tokens[t].state}
    BY <1>3 DEF Disconnect
  <2>2. \A t \in Ids : tokens'[t].state = "none" <=> tokens[t].state = "none"
    BY <1>3 DEF Disconnect, Picked, Stored
  <2> QED
    BY <1>3, <2>1, <2>2 DEF Disconnect, Stored, Active
<1> QED
  BY <1>1, <1>2, <1>3

\* An attempt that has been begun stays in its workspace, and one that is
\* consumed stays so.
LEMMA AttemptsStay ==
  ASSUME TypeOK, Begun, Picked, [Next]_vars
  PROVE  \A s \in Attempts : attempts[s].life # "none" =>
           /\ attempts'[s].ws = attempts[s].ws
           /\ attempts'[s].life # "none"
           /\ attempts[s].life = "consumed" => attempts'[s].life = "consumed"
<1> USE DEF rows, mine, ghosts
<1>1. ASSUME NEW w \in Workspaces, NEW s \in Attempts, BeginConnect(w, s)
      PROVE  \A x \in Attempts : attempts[x].life # "none" => attempts'[x] = attempts[x]
  BY <1>1 DEF BeginConnect, TypeOK
<1>2. ASSUME NEW s \in Attempts, AttemptExpires(s)
      PROVE  \A x \in Attempts : attempts[x].life # "none" =>
               /\ attempts'[x].ws = attempts[x].ws
               /\ attempts'[x].life # "none"
               /\ attempts[x].life = "consumed" => attempts'[x].life = "consumed"
  BY <1>2 DEF AttemptExpires, TypeOK
<1>3. ASSUME NEW p \in Requests,
             ConnectFails(p) \/ AccountOfAnotherTenant(p) \/ StoreToken(p)
      PROVE  \A x \in Attempts :
               /\ attempts'[x].ws = attempts[x].ws
               /\ attempts'[x].life \in {attempts[x].life, "consumed"}
  BY <1>3 DEF ConnectFails, AccountOfAnotherTenant, StoreToken, Consumes, TypeOK
<1>4. CASE UNCHANGED attempts
  BY <1>4
<1>5. ASSUME NEW p \in Requests,
             RefreshFails(p) \/ RefreshSucceeds(p) \/ Disconnect(p)
      PROVE  UNCHANGED attempts
  BY <1>5, WritersKeepStored
<1>6. CASE OtherSteps
  BY <1>1, <1>2, <1>3, <1>4, <1>6
  DEF OtherSteps, TokenAges, Starts, CallbackStarts,
      RefreshRequested, Leave, SweepPicks, ProfileArrives,
      InsertedMeanwhile, WriteAccount,
      NothingToRefresh, CallForToken, RefreshGivesNothing, RefreshIsLost,
      MarkAccount, RenewToken, ReviveAccount,
      PickTokens, RevokeTokens, BreakDeadlock, vars
<1> QED
  BY <1>3, <1>4, <1>5, <1>6, StepKinds

\* A request is about to refresh or to disconnect only if it found the account.
LEMMA BusyFoundAccount ==
  ASSUME TypeOK, OtherSteps, NEW p \in Requests,
         pc'[p] \in Refreshes \cup Disconnects,
         pc[p] \notin Refreshes \cup Disconnects
  PROVE  account.status # "ABSENT" \/ account.ws \in Workspaces
<1> USE DEF rows, mine, ghosts
<1>1. CASE UNCHANGED pc
  BY <1>1
<1>2. ASSUME NEW q \in Requests, EndsQuietly(q)
      PROVE  FALSE
  BY <1>2 DEF EndsQuietly, Ends, TypeOK, Refreshes, Disconnects
<1>3. ASSUME NEW q \in Requests, NEW step \in {"exchanging", "upserting", "replacing"},
             Goes(q, step)
      PROVE  FALSE
  BY <1>3 DEF Goes, TypeOK, Refreshes, Disconnects
<1>4. ASSUME NEW q \in Requests, NEW step, Goes(q, step),
             pc[q] \in {"picked", "calling", "renewed", "leaving", "scanning"}
      PROVE  FALSE
  BY <1>4 DEF Goes, TypeOK, Refreshes, Disconnects
<1>5. ASSUME NEW q \in Requests, Starts(q)
      PROVE  account.status # "ABSENT" \/ account.ws \in Workspaces
  BY <1>3, <1>5 DEF Starts, CallbackStarts, SweepPicks, RefreshRequested, Leave
<1> QED
  BY <1>1, <1>2, <1>3, <1>4, <1>5, Zenon
  DEF OtherSteps, BeginConnect, AttemptExpires, TokenAges,
      ConnectFails, ProfileArrives, AccountOfAnotherTenant, InsertedMeanwhile,
      WriteAccount, NothingToRefresh, CallForToken, RefreshGivesNothing,
      RefreshIsLost, MarkAccount, RenewToken, ReviveAccount,
      PickTokens, RevokeTokens, BreakDeadlock, vars

LEMMA StepOwned ==
  ASSUME TypeOK, Owned, Begun, Found, Picked, [Next]_vars
  PROVE  Owned'
<1>1. CASE OtherSteps
  <2>1. UNCHANGED account /\ Stored' = Stored
    BY <1>1, OthersKeepRows, SameSets
  <2>2. \A p \in Requests :
          pc'[p] \in Refreshes \cup Disconnects => account.ws # NoWorkspace
    BY <1>1, BusyFoundAccount, ConnectionAssumption DEF Owned
  <2> QED
    BY <2>1, <2>2 DEF Owned
<1>2. ASSUME NEW p \in Requests, StoreToken(p)
      PROVE  Owned'
  <2>1. asks[p] \in Workspaces /\ asks[p] # NoWorkspace
    BY <1>2, ConnectionAssumption DEF StoreToken, Begun, Callbacks
  <2>2. account'.ws = asks[p]
    BY <1>2 DEF StoreToken
  <2>3. saw[p] = "CONNECTED" => account.ws = asks[p]
    BY <1>2 DEF StoreToken, Found
  <2>4. account'.status # "ABSENT"
    BY <1>2, <2>1, <2>3 DEF StoreToken, Owned
  <2> QED
    BY <2>1, <2>2, <2>4 DEF Owned
<1>3. ASSUME NEW p \in Requests,
             RefreshFails(p) \/ RefreshSucceeds(p) \/ Disconnect(p)
      PROVE  Owned'
  <2>1. account.ws # NoWorkspace /\ account.status # "ABSENT"
    BY <1>3 DEF RefreshFails, RefreshSucceeds, IsRefreshed, Disconnect, Owned,
                Refreshes, Disconnects
  <2>2. account'.ws = account.ws
    BY <1>3, WritersKeepStored
  <2>3. account'.status # "ABSENT"
    BY <1>3, <2>1 DEF RefreshFails, RefreshSucceeds, Disconnect
  <2> QED
    BY <2>1, <2>2, <2>3 DEF Owned
<1> QED
  BY <1>1, <1>2, <1>3, StepKinds

-----------------------------------------------------------------------------
(* The requests in flight. *)

\* Only p moves.
Moves(p) ==
  \A q \in Requests \ {p} :
    /\ pc'[q] = pc[q] /\ asks'[q] = asks[q] /\ attempt'[q] = attempt[q]
    /\ saw'[q] = saw[q] /\ seen'[q] = seen[q]

Idles(p) == Moves(p) /\ pc'[p] = "idle" /\ seen'[p] = {}

LEMMA EndsIdles ==
  ASSUME TypeOK, NEW p \in Requests, Commits(p) \/ EndsQuietly(p)
  PROVE  Idles(p)
BY DEF Commits, EndsQuietly, Ends, Idles, Moves, TypeOK

\* How a callback moves.
CallbackMoves(p) ==
  \/ /\ pc'[p] = "exchanging"
     /\ \E w \in Workspaces, s \in Attempts : CallbackStarts(p, w, s)
     /\ seen'[p] = seen[p]
  \/ /\ pc'[p] = "upserting" /\ pc[p] = "exchanging"
     /\ account.ws \in {NoWorkspace, asks[p]}
     /\ saw'[p] = account.status /\ seen'[p] = seen[p]
     /\ asks'[p] = asks[p] /\ attempt'[p] = attempt[p]
  \/ /\ pc'[p] = "replacing" /\ pc[p] = "upserting"
     /\ AccountIsFree(p)
     /\ saw[p] = "ABSENT" => account.status = "ABSENT"
     /\ saw'[p] = saw[p] /\ seen'[p] = Active
     /\ asks'[p] = asks[p] /\ attempt'[p] = attempt[p]

\* How a refresh or a disconnection moves.
OtherMoves(p) ==
  \/ /\ pc'[p] \in {"picked", "leaving"} /\ pc[p] = "idle"
     /\ saw'[p] = account.status /\ seen'[p] = seen[p]
  \/ /\ pc'[p] = "calling" /\ pc[p] = "picked"
     /\ seen'[p] = {Latest(Active)} /\ Active # {} /\ saw'[p] = saw[p]
  \/ /\ pc'[p] = "renewed" /\ pc[p] = "calling"
     /\ saw'[p] = saw[p] /\ seen'[p] = seen[p]
  \/ /\ pc'[p] \in {"marked", "revived"} /\ pc[p] \in {"calling", "renewed"}
     /\ saw'[p] = saw[p] /\ seen'[p] = seen[p] /\ AccountIsFree(p)
  \/ /\ pc'[p] = "scanning" /\ pc[p] = "leaving"
     /\ seen'[p] = Active /\ saw'[p] = saw[p]
  \/ /\ pc'[p] = "revoked" /\ pc[p] = "scanning"
     /\ seen'[p] = seen[p] \cap Active /\ saw'[p] = saw[p]

LEMMA StepMoves ==
  ASSUME TypeOK, [Next]_vars
  PROVE  \/ UNCHANGED <<pc, mine>>
         \/ \E p \in Requests :
              \/ Idles(p)
              \/ Moves(p) /\ (CallbackMoves(p) \/ OtherMoves(p))
<1> USE DEF rows, mine, ghosts
<1> DEFINE Goal == \/ UNCHANGED <<pc, mine>>
                   \/ \E p \in Requests :
                        \/ Idles(p)
                        \/ Moves(p) /\ (CallbackMoves(p) \/ OtherMoves(p))
<1>1. ASSUME NEW p \in Requests, Starts(p)
      PROVE  Moves(p) /\ (CallbackMoves(p) \/ OtherMoves(p))
  <2>1. Moves(p)
    BY <1>1 DEF Starts, CallbackStarts, RefreshRequested, Leave, SweepPicks,
                Moves, Goes, TypeOK
  <2>2. ASSUME NEW w \in Workspaces, NEW s \in Attempts, CallbackStarts(p, w, s)
        PROVE  CallbackMoves(p)
    <3>1. pc'[p] = "exchanging" /\ seen'[p] = seen[p]
      BY <2>2 DEF CallbackStarts, Goes, TypeOK
    <3> QED
      BY <2>2, <3>1, Zenon DEF CallbackMoves
  <2>3. ASSUME NEW w \in Workspaces, RefreshRequested(p, w) \/ Leave(p, w)
        PROVE  OtherMoves(p)
    BY <2>3 DEF RefreshRequested, Leave, OtherMoves, Goes, TypeOK
  <2>4. CASE SweepPicks(p)
    BY <2>1, <2>4 DEF SweepPicks, OtherMoves, Goes, TypeOK
  <2> QED
    BY <1>1, <2>1, <2>2, <2>3, <2>4, Zenon DEF Starts
<1>2. ASSUME NEW p \in Requests, ProfileArrives(p) \/ WriteAccount(p)
      PROVE  Moves(p) /\ CallbackMoves(p)
  BY <1>2 DEF ProfileArrives, WriteAccount, Moves, CallbackMoves, Goes, TypeOK
<1>3. ASSUME NEW p \in Requests,
             \/ CallForToken(p) \/ MarkAccount(p) \/ RenewToken(p)
             \/ ReviveAccount(p) \/ PickTokens(p) \/ RevokeTokens(p)
      PROVE  Moves(p) /\ OtherMoves(p)
  <2>1. Moves(p)
    BY <1>3 DEF CallForToken, MarkAccount, RenewToken, ReviveAccount, PickTokens,
                RevokeTokens, Moves, Goes, TypeOK
  <2>2. pc \in [Requests -> Steps] /\ seen \in [Requests -> SUBSET Ids]
    BY DEF TypeOK
  <2>3. CASE CallForToken(p)
    <3>1. pc'[p] = "calling" /\ pc[p] = "picked" /\ Active # {} /\ saw'[p] = saw[p]
      BY <2>2, <2>3 DEF CallForToken, Goes
    <3>2. seen'[p] = {Latest(Active)}
      BY <2>2, <2>3, Zenon DEF CallForToken
    <3> QED
      BY <2>1, <3>1, <3>2, Zenon DEF OtherMoves
  <2>4. CASE MarkAccount(p) \/ RenewToken(p) \/ ReviveAccount(p)
    BY <2>1, <2>2, <2>4 DEF MarkAccount, RenewToken, ReviveAccount, OtherMoves, Goes
  <2>5. CASE PickTokens(p)
    <3>1. pc'[p] = "scanning" /\ pc[p] = "leaving" /\ saw'[p] = saw[p]
      BY <2>2, <2>5 DEF PickTokens, Goes
    <3>2. seen'[p] = Active
      BY <2>2, <2>5, Zenon DEF PickTokens
    <3> QED
      BY <2>1, <3>1, <3>2, Zenon DEF OtherMoves
  <2>6. CASE RevokeTokens(p)
    <3>1. pc'[p] = "revoked" /\ pc[p] = "scanning" /\ saw'[p] = saw[p]
      BY <2>2, <2>6 DEF RevokeTokens, Goes
    <3>2. seen'[p] = seen[p] \cap Active
      BY <2>2, <2>6 DEF RevokeTokens
    <3> QED
      BY <2>1, <3>1, <3>2, Zenon DEF OtherMoves
  <2> QED
    BY <1>3, <2>1, <2>3, <2>4, <2>5, <2>6
<1>4. ASSUME NEW p \in Requests, Commits(p) \/ EndsQuietly(p)
      PROVE  Idles(p)
  BY <1>4, EndsIdles
<1>5. ASSUME NEW p \in Requests, NEW q \in Requests, BreakDeadlock(p, q)
      PROVE  \E x \in Requests : EndsQuietly(x)
  BY <1>5, Zenon DEF BreakDeadlock
<1>6. ASSUME NEW p \in Requests, Continues(p)
      PROVE  Goal
  <2>1. \/ ProfileArrives(p) \/ WriteAccount(p) \/ CallForToken(p)
        \/ MarkAccount(p) \/ RenewToken(p) \/ ReviveAccount(p)
        \/ PickTokens(p) \/ RevokeTokens(p)
        \/ Commits(p) \/ EndsQuietly(p)
        \/ \E q \in Requests : BreakDeadlock(p, q)
    BY <1>6, Zenon DEF Continues, ConnectFails, AccountOfAnotherTenant,
          InsertedMeanwhile, StoreToken, NothingToRefresh, RefreshFails,
          RefreshGivesNothing, RefreshIsLost, RefreshSucceeds, Disconnect
  <2> QED
    BY <1>2, <1>3, <1>4, <1>5, <2>1, Zenon
<1>7. CASE UNCHANGED <<pc, mine>>
  BY <1>7
<1> QED
  BY <1>1, <1>6, <1>7, Zenon DEF Next, BeginConnect, AttemptExpires, TokenAges, vars

-----------------------------------------------------------------------------
(* The other parts of the invariant, step by step. *)

New == Cardinality(Stored) + 1

LEMMA StoreTokenEffect ==
  ASSUME TypeOK, NEW p \in Requests, StoreToken(p)
  PROVE  /\ Stored' = Stored \cup ({New} \cap Ids)
         /\ Active' = ((Active \ seen[p]) \ {New}) \cup ({New} \cap Ids)
         /\ New \in Ids => tokens'[New].ws = asks[p] /\ tokens'[New].from = attempt[p]
         /\ \A t \in Ids \ {New} : /\ tokens'[t].ws = tokens[t].ws
                                 /\ tokens'[t].from = tokens[t].from
         /\ account'.ws = asks[p]
<1>1. account'.ws = asks[p]
  BY DEF StoreToken
<1>2. ASSUME NEW t \in Ids, t = New
      PROVE  /\ tokens'[t].state = "active"
             /\ tokens'[t].ws = asks[p] /\ tokens'[t].from = attempt[p]
  BY <1>2 DEF StoreToken, New
<1>3. ASSUME NEW t \in Ids, t # New, t \in seen[p] \cap Active
      PROVE  /\ tokens'[t].state = "revoked"
             /\ tokens'[t].ws = tokens[t].ws /\ tokens'[t].from = tokens[t].from
  BY <1>3 DEF StoreToken, New
<1>4. ASSUME NEW t \in Ids, t # New, t \notin seen[p] \cap Active
      PROVE  /\ tokens'[t].state = tokens[t].state
             /\ tokens'[t].ws = tokens[t].ws /\ tokens'[t].from = tokens[t].from
  BY <1>4 DEF StoreToken, New
<1>6. \A t \in Ids : t \in Stored' <=> t \in Stored \/ t = New
  BY <1>2, <1>3, <1>4 DEF Stored, Active
<1>7. \A t \in Ids : t \in Active' <=> (t \in Active /\ t \notin seen[p]) \/ t = New
  BY <1>2, <1>3, <1>4 DEF Active
<1>8. Stored \subseteq Ids /\ Stored' \subseteq Ids /\ Active \subseteq Ids /\ Active' \subseteq Ids
  BY DEF Stored, Active
<1>9. Stored' = Stored \cup ({New} \cap Ids)
  BY <1>6, <1>8
<1>10. Active' = ((Active \ seen[p]) \ {New}) \cup ({New} \cap Ids)
  BY <1>7, <1>8
<1> QED
  BY <1>1, <1>2, <1>3, <1>4, <1>9, <1>10

\* Tokens are never deleted.
LEMMA StoredGrows ==
  ASSUME TypeOK, Picked, [Next]_vars
  PROVE  Stored \subseteq Stored'
BY StepKinds, OthersKeepRows, SameSets, WritersKeepStored, StoreTokenEffect

LEMMA StepPicked ==
  ASSUME TypeOK, OneCredential, Picked, [Next]_vars
  PROVE  Picked'
<1>1. Stored \subseteq Stored'
  BY StoredGrows
<1>2. Active \subseteq Stored
  BY DEF Active, Stored
<1>3. \A p \in Requests : Moves(p) => \A q \in Requests \ {p} : seen'[q] \subseteq Stored
  BY DEF Moves, Picked
<1>4. \A p \in Requests : Idles(p) => Moves(p) /\ seen'[p] \subseteq Stored
  BY DEF Idles
<1>5. \A p \in Requests : CallbackMoves(p) => seen'[p] \subseteq Stored
  BY <1>2 DEF CallbackMoves, Picked
<1>6. \A p \in Requests : OtherMoves(p) => seen'[p] \subseteq Stored
  BY <1>2, LatestIsActive DEF OtherMoves, Picked
<1>7. CASE UNCHANGED <<pc, mine>>
  BY <1>1, <1>7 DEF Picked, mine
<1>8. ASSUME NEW p \in Requests, Moves(p), seen'[p] \subseteq Stored
      PROVE  Picked'
  BY <1>1, <1>3, <1>8 DEF Picked
<1> QED
  BY <1>4, <1>5, <1>6, <1>7, <1>8, StepMoves, Zenon

LEMMA StepBegun ==
  ASSUME TypeOK, Begun, Picked, [Next]_vars
  PROVE  Begun'
<1>1. \A s \in Attempts : attempts[s].life # "none" =>
        attempts'[s].ws = attempts[s].ws /\ attempts'[s].life # "none"
  BY AttemptsStay
<1>2. \A t \in Stored' : tokens'[t].from \in Attempts
  <2>1. CASE SameTokens
    BY <2>1, SameSets DEF Begun, SameTokens, Stored
  <2>2. ASSUME NEW p \in Requests, StoreToken(p)
        PROVE  \A t \in Stored' : tokens'[t].from \in Attempts
    <3>1. attempt[p] \in Attempts
      BY <2>2 DEF StoreToken, Begun, Callbacks
    <3> QED
      BY <2>2, <3>1, StoreTokenEffect DEF Begun, Stored
  <2>3. ASSUME NEW p \in Requests,
               RefreshFails(p) \/ RefreshSucceeds(p) \/ Disconnect(p)
        PROVE  \A t \in Stored' : tokens'[t].from \in Attempts
    BY <2>3, WritersKeepStored DEF Begun, Stored
  <2> QED
    BY <2>1, <2>2, <2>3, StepKinds, OthersKeepRows
<1> DEFINE Fine(q) == pc'[q] \in Callbacks =>
             /\ asks'[q] \in Workspaces /\ attempt'[q] \in Attempts
             /\ attempts'[attempt'[q]].ws = asks'[q]
             /\ attempts'[attempt'[q]].life # "none"
<1>3. ASSUME NEW q \in Requests, pc'[q] \in Callbacks => pc[q] \in Callbacks,
             asks'[q] = asks[q], attempt'[q] = attempt[q]
      PROVE  Fine(q)
  BY <1>1, <1>3 DEF Begun
<1>4. ASSUME NEW p \in Requests, Moves(p), Fine(p)
      PROVE  \A q \in Requests : Fine(q)
  BY <1>3, <1>4 DEF Moves
<1>5. ASSUME NEW p \in Requests, Idles(p) \/ OtherMoves(p)
      PROVE  Fine(p)
  BY <1>5 DEF Idles, OtherMoves, Callbacks
<1>6. ASSUME NEW p \in Requests, CallbackMoves(p)
      PROVE  Fine(p)
  <2>1. ASSUME NEW w \in Workspaces, NEW s \in Attempts, CallbackStarts(p, w, s)
        PROVE  Fine(p)
    BY <2>1 DEF CallbackStarts, rows, TypeOK
  <2>2. CASE pc'[p] # "exchanging"
    BY <1>3, <1>6, <2>2 DEF CallbackMoves, Callbacks
  <2> QED
    BY <1>6, <2>1, <2>2 DEF CallbackMoves
<1>7. ASSUME UNCHANGED <<pc, mine>>
      PROVE  \A q \in Requests : Fine(q)
  BY <1>3, <1>7 DEF mine
<1>8. \A q \in Requests : Fine(q)
  <2> HIDE DEF Fine
  <2> QED
    BY <1>4, <1>5, <1>6, <1>7, StepMoves, Zenon DEF Idles
<1> QED
  BY <1>2, <1>8 DEF Begun

LEMMA StepFound ==
  ASSUME TypeOK, Owned, Begun, Found, Locking, Picked, [Next]_vars
  PROVE  Found'
<1> DEFINE Fine(q) ==
      /\ pc'[q] \in {"upserting", "replacing"} /\ saw'[q] # "ABSENT" =>
           account'.ws = asks'[q]
      /\ pc'[q] = "replacing" /\ saw'[q] = "ABSENT" => account'.ws = NoWorkspace
<1>1. CASE account'.ws = account.ws
  <2>1. ASSUME NEW q \in Requests, pc'[q] = pc[q],
               asks'[q] = asks[q], saw'[q] = saw[q]
        PROVE  Fine(q)
    BY <1>1, <2>1 DEF Found
  <2>2. ASSUME NEW p \in Requests, Moves(p), Fine(p)
        PROVE  \A q \in Requests : Fine(q)
    BY <2>1, <2>2 DEF Moves
  <2>3. ASSUME NEW p \in Requests, Idles(p) \/ OtherMoves(p)
        PROVE  Fine(p)
    BY <2>3 DEF Idles, OtherMoves
  <2>4. ASSUME NEW p \in Requests, CallbackMoves(p)
        PROVE  Fine(p)
    BY <1>1, <2>4 DEF CallbackMoves, Found, Owned
  <2>5. ASSUME UNCHANGED <<pc, mine>>
        PROVE  \A q \in Requests : Fine(q)
    BY <2>1, <2>5 DEF mine
  <2>6. \A q \in Requests : Fine(q)
    <3> HIDE DEF Fine
    <3> QED
      BY <2>2, <2>3, <2>4, <2>5, StepMoves, Zenon DEF Idles
  <2> QED
    BY <2>6 DEF Found
<1>2. ASSUME NEW p \in Requests, StoreToken(p)
      PROVE  Found'
  <2>1. Idles(p) /\ account'.ws = asks[p] /\ pc[p] = "replacing"
    BY <1>2, EndsIdles DEF StoreToken
  <2>2. ASSUME NEW q \in Requests \ {p}
        PROVE  Fine(q)
    <3>1. pc[q] # "replacing"
      BY <2>1, <2>2 DEF Locking, HasAccount
    <3>2. pc[q] = "upserting" /\ saw[q] # "ABSENT" => asks[q] = account.ws
      BY <2>2 DEF Found
    <3>3. pc[q] = "upserting" => asks[q] \in Workspaces
      BY <2>2 DEF Begun, Callbacks
    <3>4. pc[q] = "upserting" /\ saw[q] # "ABSENT" => asks[q] = asks[p]
      BY <2>1, <3>2, <3>3, ConnectionAssumption DEF Found
    <3> QED
      BY <2>1, <3>1, <3>4 DEF Idles, Moves
  <2>3. Fine(p)
    BY <2>1 DEF Idles
  <2> QED
    BY <2>2, <2>3 DEF Found
<1> QED
  BY <1>1, <1>2, StepKinds, OthersKeepRows, WritersKeepStored

LEMMA StepLocking ==
  ASSUME TypeOK, Locking, Picked, [Next]_vars
  PROVE  Locking'
<1> DEFINE Holds(q) == pc[q] \in {"replacing", "revived", "marked"}
<1>1. \A p, q \in Requests : Holds(p) /\ Holds(q) => p = q
  BY DEF Locking, HasAccount
<1>2. ASSUME NEW p \in Requests, CallbackMoves(p) \/ OtherMoves(p),
             pc'[p] \in {"replacing", "revived", "marked"}
      PROVE  \A q \in Requests : Holds(q) => q = p
  BY <1>2 DEF CallbackMoves, OtherMoves, AccountIsFree, HasAccount
<1>3. \A p, q \in Requests : Holds(p)' /\ Holds(q)' => p = q
  <2>1. ASSUME NEW p \in Requests, Idles(p)
        PROVE  \A x, y \in Requests : Holds(x)' /\ Holds(y)' => x = y
    BY <1>1, <2>1 DEF Idles, Moves
  <2>2. ASSUME NEW p \in Requests, Moves(p), CallbackMoves(p) \/ OtherMoves(p)
        PROVE  \A x, y \in Requests : Holds(x)' /\ Holds(y)' => x = y
    BY <1>1, <1>2, <2>2 DEF Moves
  <2>3. ASSUME UNCHANGED <<pc, mine>>
        PROVE  \A x, y \in Requests : Holds(x)' /\ Holds(y)' => x = y
    BY <1>1, <2>3
  <2> HIDE DEF Holds
  <2> QED
    BY <2>1, <2>2, <2>3, StepMoves, Zenon
<1>4. \A p \in Requests : pc'[p] = "replacing" => Active' \subseteq seen'[p]
  <2>1. CASE Active' \subseteq Active
    <3>1. ASSUME NEW q \in Requests, pc'[q] = pc[q], seen'[q] = seen[q]
          PROVE  pc'[q] = "replacing" => Active' \subseteq seen'[q]
      BY <2>1, <3>1 DEF Locking
    <3>2. ASSUME NEW p \in Requests, Idles(p) \/ CallbackMoves(p) \/ OtherMoves(p)
          PROVE  pc'[p] = "replacing" => Active' \subseteq seen'[p]
      BY <2>1, <3>2 DEF Idles, CallbackMoves, OtherMoves
    <3>3. ASSUME NEW p \in Requests, Moves(p),
                 Idles(p) \/ CallbackMoves(p) \/ OtherMoves(p)
          PROVE  \A q \in Requests : pc'[q] = "replacing" => Active' \subseteq seen'[q]
      BY <3>1, <3>2, <3>3 DEF Moves
    <3>4. CASE UNCHANGED <<pc, mine>>
      BY <3>1, <3>4 DEF mine
    <3> QED
      BY <3>3, <3>4, StepMoves, Zenon DEF Idles
  <2>2. ASSUME NEW p \in Requests, StoreToken(p)
        PROVE  \A q \in Requests : pc'[q] # "replacing"
    <3>1. Idles(p) /\ pc[p] = "replacing"
      BY <2>2, EndsIdles DEF StoreToken
    <3> QED
      BY <1>1, <3>1 DEF Idles, Moves
  <2> QED
    BY <2>1, <2>2, StepKinds, OthersKeepRows, SameSets, WritersKeepStored
<1> QED
  BY <1>3, <1>4 DEF Locking, HasAccount

LEMMA StepOneCredential ==
  ASSUME TypeOK, Locking, Picked, OneCredential, [Next]_vars
  PROVE  OneCredential'
<1>1. CASE Active' \subseteq Active
  BY <1>1 DEF OneCredential
<1>2. ASSUME NEW p \in Requests, StoreToken(p)
      PROVE  OneCredential'
  <2>1. Active \subseteq seen[p]
    BY <1>2 DEF StoreToken, Locking
  <2>2. Active' \subseteq {New}
    BY <1>2, <2>1, StoreTokenEffect
  <2> QED
    BY <2>2 DEF OneCredential
<1> QED
  BY <1>1, <1>2, StepKinds, OthersKeepRows, SameSets, WritersKeepStored

LEMMA StepTokensOfOneTenant ==
  ASSUME TypeOK, Owned, Begun, Found, Picked, TokensOfOneTenant, [Next]_vars
  PROVE  TokensOfOneTenant'
<1>1. ASSUME NEW t \in Stored
      PROVE  /\ attempts'[tokens[t].from].ws = attempts[tokens[t].from].ws
             /\ attempts'[tokens[t].from].life = "consumed"
  BY <1>1, AttemptsStay DEF TokensOfOneTenant, Begun
<1>2. CASE /\ account'.ws = account.ws /\ Stored' = Stored
           /\ \A t \in Ids : /\ tokens'[t].ws = tokens[t].ws
                             /\ tokens'[t].from = tokens[t].from
  BY <1>1, <1>2 DEF TokensOfOneTenant, Stored
<1>3. ASSUME NEW p \in Requests, StoreToken(p)
      PROVE  TokensOfOneTenant'
  <2>1. attempt[p] \in Attempts /\ attempts[attempt[p]].ws = asks[p]
    BY <1>3 DEF StoreToken, Begun, Callbacks
  <2>2. /\ attempts'[attempt[p]].ws = asks[p]
        /\ attempts'[attempt[p]].life = "consumed"
    BY <1>3, <2>1 DEF StoreToken, Consumes, TypeOK
  <2>3. ASSUME NEW t \in Stored
        PROVE  tokens[t].ws = asks[p]
    BY <1>3, <2>3 DEF StoreToken, Found, Owned, TokensOfOneTenant
  <2>4. ASSUME NEW t \in Stored'
        PROVE  /\ tokens'[t].ws = asks[p]
               /\ attempts'[tokens'[t].from].ws = asks[p]
               /\ attempts'[tokens'[t].from].life = "consumed"
    <3>1. CASE t = New
      BY <1>3, <2>2, <2>4, <3>1, StoreTokenEffect DEF Stored
    <3>2. CASE t # New
      <4>1. t \in Stored /\ tokens'[t].ws = tokens[t].ws
              /\ tokens'[t].from = tokens[t].from
        BY <1>3, <2>4, <3>2, StoreTokenEffect DEF Stored
      <4> QED
        BY <1>1, <2>3, <4>1 DEF TokensOfOneTenant
    <3> QED
      BY <3>1, <3>2
  <2> QED
    BY <1>3, <2>4, StoreTokenEffect DEF TokensOfOneTenant
<1> QED
  BY <1>2, <1>3, StepKinds, OthersKeepRows, SameSets, WritersKeepStored
  DEF SameTokens

LEMMA StoredIsFinite == IsFiniteSet(Stored) /\ Cardinality(Stored) \in Nat
<1>1. IsFiniteSet(Ids)
  BY ConnectionAssumption, FS_Interval DEF Ids
<1> QED
  BY <1>1, FS_Subset, FS_CardinalityType DEF Stored

LEMMA StepNumbered ==
  ASSUME TypeOK, Numbered, Picked, [Next]_vars
  PROVE  Numbered'
<1> DEFINE n == Cardinality(Stored)
           k == Cardinality(InCallback)
<1>1. IsFiniteSet(InCallback) /\ k \in Nat
  BY ConnectionAssumption, FS_Subset, FS_CardinalityType DEF InCallback
<1>2. IsFiniteSet(Stored) /\ n \in Nat
  BY StoredIsFinite
<1>3. CASE Stored' = Stored /\ InCallback' \subseteq InCallback
  <2>1. Cardinality(InCallback') \in Nat /\ Cardinality(InCallback') <= k
    BY <1>1, <1>3, FS_Subset, FS_CardinalityType
  <2> QED
    BY <1>1, <1>2, <1>3, <2>1, ConnectionAssumption DEF Numbered
<1>4. ASSUME NEW p \in Requests, Stored' = Stored, Moves(p),
             NEW w \in Workspaces, NEW s \in Attempts, CallbackStarts(p, w, s)
      PROVE  Numbered'
  <2>1. n + k < MaxTokens /\ pc[p] = "idle"
    BY <1>4 DEF CallbackStarts, InCallback
  <2>2. InCallback' = InCallback \cup {p}
    <3>1. pc'[p] = "exchanging"
      BY <1>4 DEF CallbackStarts, Goes, TypeOK
    <3>2. \A q \in Requests \ {p} : pc'[q] = pc[q]
      BY <1>4 DEF Moves
    <3> QED
      BY <3>1, <3>2 DEF InCallback, Callbacks
  <2>3. p \notin InCallback
    BY <2>1 DEF InCallback, Callbacks
  <2>4. Cardinality(InCallback') = k + 1
    BY <1>1, <2>2, <2>3, FS_AddElement
  <2> QED
    BY <1>1, <1>2, <1>4, <2>1, <2>4, ConnectionAssumption DEF Numbered
<1>5. ASSUME NEW p \in Requests, StoreToken(p)
      PROVE  Numbered'
  <2>1. Idles(p) /\ pc[p] = "replacing"
    BY <1>5, EndsIdles DEF StoreToken
  <2>2. p \in InCallback /\ InCallback' = InCallback \ {p}
    BY <2>1 DEF InCallback, Idles, Moves, Callbacks
  <2>3. Cardinality(InCallback') = k - 1
    BY <1>1, <2>2, FS_RemoveElement
  <2>4. k - 1 \in Nat
    BY <1>1, <2>2, <2>3, FS_Subset, FS_CardinalityType
  <2>5. n + 1 <= MaxTokens /\ n + 1 \in Nat
    BY <1>1, <1>2, <2>4, ConnectionAssumption DEF Numbered
  <2>6. New \in Ids
    BY <1>2, <2>5 DEF New, Ids
  <2>7. Stored' = 1 .. (n + 1)
    <3>1. Stored' = (1 .. n) \cup {n + 1}
      BY <1>5, <2>6, StoreTokenEffect DEF Numbered, New
    <3> QED
      BY <1>2, <3>1
  <2>8. Cardinality(Stored') = n + 1
    BY <1>2, <2>5, <2>7, FS_Interval
  <2> QED
    BY <1>1, <1>2, <2>3, <2>4, <2>7, <2>8, ConnectionAssumption DEF Numbered
<1>6. ASSUME NEW p \in Requests, Idles(p) \/ OtherMoves(p) \/ CallbackMoves(p),
             Moves(p),
             ~ \E w \in Workspaces, s \in Attempts : CallbackStarts(p, w, s)
      PROVE  InCallback' \subseteq InCallback
  <2>1. pc'[p] \in Callbacks => pc[p] \in Callbacks
    BY <1>6 DEF Idles, OtherMoves, CallbackMoves, Callbacks
  <2> QED
    BY <1>6, <2>1 DEF InCallback, Moves
<1>7. CASE Stored' = Stored
  <2>1. ASSUME UNCHANGED <<pc, mine>>
        PROVE  InCallback' \subseteq InCallback
    BY <2>1 DEF InCallback
  <2> QED
    BY <1>3, <1>4, <1>6, <1>7, <2>1, StepMoves, Zenon DEF Idles
<1> QED
  BY <1>5, <1>7, StepKinds, OthersKeepRows, SameSets, WritersKeepStored

LEMMA NextNumberIsLeft ==
  ASSUME TypeOK, Numbered, NEW p \in Requests, pc[p] = "replacing"
  PROVE  New \in Ids
<1>1. p \in InCallback /\ IsFiniteSet(InCallback)
  BY ConnectionAssumption, FS_Subset DEF InCallback, Callbacks
<1>2. Cardinality(InCallback) \in Nat /\ Cardinality(InCallback) # 0
  BY <1>1, FS_CardinalityType, FS_EmptySet
<1>3. Cardinality(Stored) \in Nat
  BY StoredIsFinite
<1> QED
  BY <1>2, <1>3, ConnectionAssumption DEF Numbered, New, Ids

-----------------------------------------------------------------------------
(* What is read stays so until somebody commits. *)

LEMMA OthersGhosts ==
  ASSUME OtherSteps
  PROVE  \/ UNCHANGED ghosts
         \/ \E x \in Requests : EndsQuietly(x)
BY Zenon DEF OtherSteps, BeginConnect, AttemptExpires, TokenAges, Starts,
    CallbackStarts, RefreshRequested, Leave, SweepPicks, ConnectFails,
    ProfileArrives, AccountOfAnotherTenant, InsertedMeanwhile, WriteAccount,
    NothingToRefresh, CallForToken, RefreshGivesNothing, RefreshIsLost,
      MarkAccount, RenewToken, ReviveAccount,
    PickTokens, RevokeTokens, BreakDeadlock, vars

LEMMA StepUpToDate ==
  ASSUME TypeOK, OneCredential, Picked, Serial, [Next]_vars
  PROVE  \A q \in Requests \ overtaken' : UpToDate(q)'
<1>1. CASE OtherSteps
  <2>1. account' = account /\ Active' = Active
    BY <1>1, OthersKeepRows, SameSets
  <2>2. ASSUME NEW q \in Requests, UpToDate(q),
               pc'[q] = pc[q], saw'[q] = saw[q], seen'[q] = seen[q]
        PROVE  UpToDate(q)'
    BY <2>1, <2>2 DEF UpToDate
  <2>3. ASSUME NEW q \in Requests, pc'[q] = "idle"
        PROVE  UpToDate(q)'
    BY <2>3 DEF UpToDate
  <2>4. ASSUME NEW q \in Requests, UpToDate(q), CallbackMoves(q)
        PROVE  UpToDate(q)'
    BY <2>1, <2>4 DEF UpToDate, CallbackMoves
  <2>5. ASSUME NEW q \in Requests, UpToDate(q), OtherMoves(q)
        PROVE  UpToDate(q)'
    BY <2>1, <2>5, LatestIsActive DEF UpToDate, OtherMoves
  <2>6. ASSUME NEW q \in Requests, UpToDate(q)
        PROVE  UpToDate(q)'
    <3>1. CASE UNCHANGED <<pc, mine>>
      BY <2>2, <2>6, <3>1 DEF mine
    <3>2. ASSUME NEW p \in Requests, Moves(p), p # q
          PROVE  UpToDate(q)'
      BY <2>2, <2>6, <3>2 DEF Moves
    <3>3. ASSUME Idles(q)
          PROVE  UpToDate(q)'
      BY <2>3, <3>3 DEF Idles
    <3> QED
      BY <2>4, <2>5, <2>6, <3>1, <3>2, <3>3, StepMoves, Zenon DEF Idles
  <2>7. ASSUME NEW q \in Requests \ overtaken', q \in overtaken
        PROVE  UpToDate(q)'
    <3>1. PICK x \in Requests : EndsQuietly(x)
      BY <1>1, <2>7, OthersGhosts DEF ghosts
    <3>2. x = q /\ Idles(x)
      BY <2>7, <3>1, EndsIdles DEF EndsQuietly
    <3> QED
      BY <2>3, <3>2 DEF Idles
  <2> QED
    BY <2>6, <2>7 DEF Serial
<1>2. ASSUME NEW p \in Requests, Commits(p)
      PROVE  \A q \in Requests \ overtaken' : UpToDate(q)'
  <2>1. Idles(p) /\ overtaken' = HaveRead \ {p}
    BY <1>2, EndsIdles DEF Commits
  <2>2. ASSUME NEW q \in Requests \ overtaken'
        PROVE  pc'[q] \in {"idle", "exchanging"}
    BY <2>1, <2>2 DEF Idles, Moves, HaveRead
  <2> QED
    BY <2>2 DEF UpToDate
<1> QED
  BY <1>1, <1>2, StepKinds
  DEF StoreToken, RefreshFails, RefreshSucceeds, Disconnect

LEMMA StepStatus ==
  ASSUME TypeOK, Owned, Picked, Locking, Numbered, Serial, [Next]_vars
  PROVE  StatusTellsCredential'
<1> SUFFICES ASSUME ~torn'
             PROVE  account'.status \in {"CONNECTED", "TOKEN_EXPIRED"} <=> Active' # {}
  BY DEF StatusTellsCredential
<1> DEFINE Tells == account.status \in {"CONNECTED", "TOKEN_EXPIRED"} <=> Active # {}
<1>1. CASE OtherSteps
  <2>1. account' = account /\ Active' = Active
    BY <1>1, OthersKeepRows, SameSets
  <2>2. ~torn
    BY <1>1, OthersGhosts DEF EndsQuietly, ghosts
  <2> QED
    BY <2>1, <2>2 DEF Serial, StatusTellsCredential
<1>2. ASSUME NEW p \in Requests, Commits(p)
      PROVE  UpToDate(p) /\ Tells
  BY <1>2 DEF Commits, Serial, StatusTellsCredential
<1>3. ASSUME NEW p \in Requests, StoreToken(p)
      PROVE  account'.status = "CONNECTED" /\ Active' # {}
  <2>1. pc[p] = "replacing" /\ Commits(p)
    BY <1>3 DEF StoreToken
  <2>2. New \in Active'
    BY <1>3, <2>1, NextNumberIsLeft, StoreTokenEffect
  <2>3. saw[p] = account.status
    BY <1>2, <2>1 DEF UpToDate
  <2> QED
    BY <1>3, <2>2, <2>3 DEF StoreToken
<1>4. ASSUME NEW p \in Requests, RefreshFails(p)
      PROVE  account'.status = "TOKEN_EXPIRED" /\ Active' # {}
  <2>1. UpToDate(p) /\ pc[p] = "marked"
    BY <1>2, <1>4 DEF RefreshFails
  <2> QED
    BY <1>4, <2>1 DEF RefreshFails, UpToDate, Active
<1>5. ASSUME NEW p \in Requests, RefreshSucceeds(p)
      PROVE  account'.status \in {"CONNECTED", "TOKEN_EXPIRED"} /\ Active' # {}
  <2>1. UpToDate(p) /\ Tells /\ pc[p] \in {"renewed", "revived"}
    BY <1>2, <1>5 DEF RefreshSucceeds, IsRefreshed
  <2>2. Active # {} /\ account.status \in {"CONNECTED", "TOKEN_EXPIRED"}
    BY <2>1 DEF UpToDate
  <2>3. Active' = Active
    BY <1>5 DEF RefreshSucceeds, Active
  <2> QED
    BY <1>5, <2>2, <2>3 DEF RefreshSucceeds
<1>6. ASSUME NEW p \in Requests, Disconnect(p)
      PROVE  account'.status = "DISCONNECTED" /\ Active' = {}
  <2>1. saw[p] = account.status /\ seen[p] = Active
    BY <1>2, <1>6 DEF Disconnect, UpToDate
  <2> QED
    BY <1>6, <2>1 DEF Disconnect, Active
<1> QED
  BY <1>1, <1>3, <1>4, <1>5, <1>6, StepKinds

-----------------------------------------------------------------------------
(* The theorems. *)

LEMMA Initially == Init => IInv
<1> SUFFICES ASSUME Init PROVE IInv
  OBVIOUS
<1>1. TypeOK
  BY InitTypes
<1>2. Stored = {} /\ Active = {}
  BY DEF Init, Stored, Active, NoToken
<1>3. InCallback = {}
  BY DEF Init, InCallback, Callbacks
<1>4. Numbered
  BY <1>2, <1>3, FS_EmptySet, ConnectionAssumption DEF Numbered
<1>5. Owned /\ Begun /\ Found /\ Locking /\ Picked
  BY <1>2 DEF Init, Owned, Begun, Found, Locking, Picked, HasAccount,
              Callbacks, Refreshes, Disconnects
<1>6. OneCredential /\ TokensOfOneTenant
  BY <1>2 DEF OneCredential, TokensOfOneTenant
<1>7. Serial
  BY <1>2 DEF Init, Serial, UpToDate, StatusTellsCredential
<1> QED
  BY <1>1, <1>4, <1>5, <1>6, <1>7 DEF IInv

LEMMA Inductive == IInv /\ [Next]_vars => IInv'
<1> SUFFICES ASSUME IInv, [Next]_vars PROVE IInv'
  OBVIOUS
<1>1. TypeOK' /\ Owned' /\ Begun' /\ Found' /\ Locking' /\ Picked' /\ Numbered'
  BY StepTypes, StepOwned, StepBegun, StepFound, StepLocking, StepPicked,
     StepNumbered DEF IInv
<1>2. OneCredential' /\ TokensOfOneTenant'
  BY StepOneCredential, StepTokensOfOneTenant DEF IInv
<1>3. Serial'
  BY StepUpToDate, StepStatus DEF IInv, Serial
<1> QED
  BY <1>1, <1>2, <1>3 DEF IInv

LEMMA Invariance == Spec => []IInv
BY Initially, Inductive, PTL DEF Spec

\* The rows of attempts, account and tokens and the copies of every request
\* keep their types, however callbacks, refreshes and disconnections overlap.
THEOREM ConnectionTypes == Spec => []TypeOK
<1>1. IInv => TypeOK
  BY DEF IInv
<1> QED
  BY <1>1, Invariance, PTL

\* "One active credential" (_store_token): no two tokens are ever active.
THEOREM ConnectionOneCredential == Spec => []OneCredential
<1>1. IInv => OneCredential
  BY DEF IInv
<1> QED
  BY <1>1, Invariance, PTL

\* Every stored token belongs to the tenant of the account, and comes from an
\* OAuth round trip that this tenant began.
THEOREM ConnectionOneTenant == Spec => []TokensOfOneTenant
<1>1. IInv => TokensOfOneTenant
  BY DEF IInv
<1> QED
  BY <1>1, Invariance, PTL

\* While no commit overtakes another request, CONNECTED and TOKEN_EXPIRED mean
\* that there is an active token.
THEOREM ConnectionStatus == Spec => []StatusTellsCredential
<1>1. IInv => StatusTellsCredential
  BY DEF IInv, Serial
<1> QED
  BY <1>1, Invariance, PTL

LEMMA StepKeeps ==
  ASSUME IInv, [Next]_vars
  PROVE  /\ account.ws # NoWorkspace => account'.ws = account.ws
         /\ \A t \in Ids : tokens[t].state = "revoked" =>
              tokens'[t].state = "revoked"
<1> USE DEF IInv
<1>1. CASE OtherSteps
  BY <1>1, OthersKeepRows DEF SameTokens
<1>2. ASSUME NEW p \in Requests, StoreToken(p)
      PROVE  /\ account.ws # NoWorkspace => account'.ws = account.ws
             /\ \A t \in Ids : tokens[t].state = "revoked" =>
                  tokens'[t].state = "revoked"
  <2>1. account.ws # NoWorkspace => asks[p] = account.ws
    BY <1>2 DEF StoreToken, Found
  <2>2. account'.ws = asks[p]
    BY <1>2, StoreTokenEffect
  <2>3. New \in Ids /\ New \notin Stored
    <3>1. New \in Ids
      BY <1>2, NextNumberIsLeft DEF StoreToken
    <3> QED
      BY <3>1, StoredIsFinite DEF Numbered, New
  <2>4. ASSUME NEW t \in Ids, tokens[t].state = "revoked"
        PROVE  tokens'[t].state = "revoked"
    <3>1. t # New /\ t \notin Active
      BY <2>3, <2>4 DEF Stored, Active
    <3> QED
      BY <1>2, <2>4, <3>1 DEF StoreToken, New
  <2> QED
    BY <2>1, <2>2, <2>4
<1>3. ASSUME NEW p \in Requests,
             RefreshFails(p) \/ RefreshSucceeds(p) \/ Disconnect(p)
      PROVE  /\ account.ws # NoWorkspace => account'.ws = account.ws
             /\ \A t \in Ids : tokens[t].state = "revoked" =>
                  tokens'[t].state = "revoked"
  <2>1. account'.ws = account.ws
    BY <1>3, WritersKeepStored
  <2>2. \A t \in Ids : tokens[t].state = "revoked" => tokens'[t].state = "revoked"
    BY <1>3 DEF RefreshFails, RefreshSucceeds, Disconnect
  <2> QED
    BY <2>1, <2>2
<1> QED
  BY <1>1, <1>2, <1>3, StepKinds

\* The account never moves to another tenant, and a late refresh never makes a
\* revoked token active again.
THEOREM ConnectionKeeps == Spec => KeepsTenantAndRevocation
<1>1. IInv /\ [Next]_vars =>
        [/\ account.ws # NoWorkspace => account'.ws = account.ws
         /\ \A t \in Ids : tokens[t].state = "revoked" =>
              tokens'[t].state = "revoked"]_vars
  BY StepKeeps
<1> QED
  BY <1>1, Invariance, PTL DEF Spec, KeepsTenantAndRevocation

-----------------------------------------------------------------------------
(* Every step is a step of Credential, or nothing that a tenant sees.        *)

\* A round trip that has not begun belongs to nobody.
Unbegun ==
  \A s \in Attempts : attempts[s].life = "none" => attempts[s].ws = NoWorkspace

\* Round trips stay with the workspace that began them, and are begun once.
LEMMA OnlyBeginConnectBegins ==
  ASSUME TypeOK, Begun, Picked, [Next]_vars
  PROVE  \/ \E w \in Workspaces, s \in Attempts : BeginConnect(w, s)
         \/ \A s \in Attempts :
              /\ attempts'[s].ws = attempts[s].ws
              /\ attempts'[s].life = "none" => attempts[s].life = "none"
<1> USE DEF rows, mine, ghosts
<1>1. ASSUME NEW s \in Attempts, AttemptExpires(s)
      PROVE  \A x \in Attempts :
               /\ attempts'[x].ws = attempts[x].ws
               /\ attempts'[x].life = "none" => attempts[x].life = "none"
  BY <1>1 DEF AttemptExpires, TypeOK
<1>2. ASSUME NEW p \in Requests,
             ConnectFails(p) \/ AccountOfAnotherTenant(p) \/ StoreToken(p)
      PROVE  \A x \in Attempts :
               /\ attempts'[x].ws = attempts[x].ws
               /\ attempts'[x].life = "none" => attempts[x].life = "none"
  BY <1>2 DEF ConnectFails, AccountOfAnotherTenant, StoreToken, Consumes, TypeOK
<1>3. CASE UNCHANGED attempts
  BY <1>3
<1>4. ASSUME NEW p \in Requests,
             RefreshFails(p) \/ RefreshSucceeds(p) \/ Disconnect(p)
      PROVE  UNCHANGED attempts
  BY <1>4, WritersKeepStored
<1>5. CASE OtherSteps
  BY <1>1, <1>2, <1>3, <1>5
  DEF OtherSteps, TokenAges, Starts, CallbackStarts,
      RefreshRequested, Leave, SweepPicks, ProfileArrives,
      InsertedMeanwhile, WriteAccount,
      NothingToRefresh, CallForToken, RefreshGivesNothing, RefreshIsLost,
      MarkAccount, RenewToken, ReviveAccount,
      PickTokens, RevokeTokens, BreakDeadlock, vars
<1> QED
  BY <1>2, <1>3, <1>4, <1>5, StepKinds

LEMMA StepUnbegun ==
  ASSUME TypeOK, Begun, Picked, Unbegun, [Next]_vars
  PROVE  Unbegun'
<1>1. ASSUME NEW w \in Workspaces, NEW s \in Attempts, BeginConnect(w, s)
      PROVE  Unbegun'
  BY <1>1 DEF BeginConnect, TypeOK, Unbegun
<1> QED
  BY <1>1, OnlyBeginConnectBegins DEF Unbegun

LEMMA UnbegunInvariance == Spec => []Unbegun
<1>1. Init => Unbegun
  BY DEF Init, Unbegun
<1>2. IInv => TypeOK /\ Begun /\ Picked
  BY DEF IInv
<1> QED
  BY <1>1, <1>2, StepUnbegun, Invariance, PTL DEF Spec

\* The tokens as Credential knows them.
Revoked == {t \in Ids : tokens[t].state = "revoked"}
Card(t) == [id |-> t, ws |-> tokens[t].ws, from |-> tokens[t].from]

LEMMA KnownTokens ==
  /\ Known("active") = {Card(t) : t \in Active}
  /\ Known("revoked") = {Card(t) : t \in Revoked}
  /\ Known("active")' = {Card(t)' : t \in Active'}
  /\ Known("revoked")' = {Card(t)' : t \in Revoked'}
BY DEF Known, Card, Active, Revoked

LEMMA SameKnown ==
  ASSUME SameTokens
  PROVE  Known("active")' = Known("active") /\ Known("revoked")' = Known("revoked")
<1>1. \A t \in Ids : Card(t)' = Card(t)
  BY DEF SameTokens, Card
<1>2. Active' = Active /\ Revoked' = Revoked /\ Active \subseteq Ids /\ Revoked \subseteq Ids
  BY DEF SameTokens, Active, Revoked
<1> QED
  BY <1>1, <1>2, KnownTokens

BegunBy == [s \in Attempts |-> attempts[s].ws]

LEMMA BeginIsBegin ==
  ASSUME TypeOK, Unbegun, NEW w \in Workspaces, NEW s \in Attempts, BeginConnect(w, s)
  PROVE  Abstract!Begin(w, s)
<1> USE DEF rows, mine, ghosts
<1>1. UNCHANGED <<account, tokens>> /\ SameTokens
  BY DEF BeginConnect, SameTokens
<1>2. BegunBy[s] = NoWorkspace
  BY DEF BeginConnect, Unbegun, BegunBy
<1>3. BegunBy' = [BegunBy EXCEPT ![s] = w]
  BY DEF BeginConnect, BegunBy, TypeOK
<1> QED
  BY <1>1, <1>2, <1>3, SameKnown DEF Abstract!Begin, BegunBy

\* The callback that commits replaces the credential, and has done so in one step.
LEMMA StoreIsConnect ==
  ASSUME IInv, NEW p \in Requests, StoreToken(p)
  PROVE  Abstract!Connect(asks[p], attempt[p], New)
<1> USE DEF IInv
<1>1. /\ asks[p] \in Workspaces /\ attempt[p] \in Attempts
      /\ attempts[attempt[p]].ws = asks[p]
      /\ account.ws \in {NoWorkspace, asks[p]}
  BY DEF StoreToken, Begun, Callbacks, Found
<1>2. account'.ws = asks[p]
  BY StoreTokenEffect
<1>3. New \in Ids /\ New \notin Stored
  <2>1. New \in Ids
    BY NextNumberIsLeft DEF StoreToken
  <2> QED
    BY <2>1, StoredIsFinite DEF Numbered, New
<1>4. Active \subseteq Stored /\ Revoked \subseteq Stored /\ Stored \subseteq Ids
  BY DEF Active, Revoked, Stored
<1>5. Active' = {New}
  <2>1. Active \subseteq seen[p]
    BY DEF StoreToken, Locking
  <2> QED
    BY <1>3, <2>1, StoreTokenEffect
<1>6. Revoked' = Revoked \cup Active
  <2>1. Active \subseteq seen[p]
    BY DEF StoreToken, Locking
  <2>2. ASSUME NEW t \in Ids
        PROVE  tokens'[t].state = "revoked" <=>
                 t # New /\ (t \in Active \/ tokens[t].state = "revoked")
    BY <2>1, <2>2 DEF StoreToken, New
  <2> QED
    BY <1>3, <1>4, <2>2 DEF Revoked
<1>7. \A t \in Active' : Card(t)' = [id |-> New, ws |-> asks[p], from |-> attempt[p]]
  <2>1. tokens'[New].ws = asks[p] /\ tokens'[New].from = attempt[p]
    BY <1>3, StoreTokenEffect
  <2>2. \A t \in Active' : t = New
    BY <1>5
  <2> QED
    BY <2>1, <2>2 DEF Card
<1>8. \A t \in Stored : Card(t)' = Card(t)
  BY <1>3, <1>4, StoreTokenEffect DEF Card
<1>9. \A c \in Known("active") \cup Known("revoked") : c.id # New
  BY <1>3, <1>4, KnownTokens DEF Card
<1>10. Known("active")' = {[id |-> New, ws |-> asks[p], from |-> attempt[p]]}
  BY <1>5, <1>7, KnownTokens
<1>11. Known("revoked")' = Known("revoked") \cup Known("active")
  BY <1>4, <1>6, <1>8, KnownTokens
<1>12. BegunBy' = BegunBy /\ BegunBy[attempt[p]] = asks[p]
  BY <1>1 DEF StoreToken, Consumes, TypeOK, BegunBy
<1> HIDE DEF IInv
<1> QED
  BY <1>1, <1>2, <1>9, <1>10, <1>11, <1>12 DEF Abstract!Connect, BegunBy

\* A disconnection has picked the credential, or it is gone already.
LEMMA LeavingIsDisconnect ==
  ASSUME IInv, NEW p \in Requests, Disconnect(p)
  PROVE  Abstract!Disconnect \/ UNCHANGED Abstract!vars
<1> USE DEF IInv
<1>1. UNCHANGED attempts /\ account'.ws = account.ws
  BY WritersKeepStored
<1>2. BegunBy' = BegunBy
  BY <1>1 DEF BegunBy
<1>3. \A t \in Ids : /\ tokens'[t].ws = tokens[t].ws
                     /\ tokens'[t].from = tokens[t].from
                     /\ tokens'[t].state = IF t \in seen[p] THEN "revoked"
                                           ELSE tokens[t].state
  BY DEF Disconnect
<1>4. \A t \in Ids : Card(t)' = Card(t)
  BY <1>3 DEF Card
<1>5. CASE Active \cap seen[p] = {}
  <2>1. SameTokens
    BY <1>3, <1>5 DEF SameTokens, Picked, Stored, Active, TypeOK, Token
  <2> QED
    BY <1>1, <1>2, <2>1, SameKnown DEF Abstract!vars, BegunBy
<1>6. CASE Active \cap seen[p] # {}
  <2>1. Active \subseteq seen[p]
    BY <1>6 DEF OneCredential
  <2>2. Active' = {} /\ Revoked' = Revoked \cup Active
    BY <1>3, <2>1 DEF Active, Revoked, Picked, Stored, TypeOK, Token
  <2>3. Active \subseteq Ids /\ Revoked \subseteq Ids
    BY DEF Active, Revoked
  <2>4. Known("active")' = {} /\ Known("revoked")' = Known("revoked") \cup Known("active")
    BY <1>4, <2>2, <2>3, KnownTokens
  <2> QED
    BY <1>1, <1>2, <2>4 DEF Abstract!Disconnect, BegunBy
<1> QED
  BY <1>5, <1>6

LEMMA CredentialStep ==
  ASSUME IInv, Unbegun, [Next]_vars
  PROVE  [Abstract!Next]_(Abstract!vars)
<1> USE DEF IInv
<1>1. ASSUME NEW w \in Workspaces, NEW s \in Attempts, BeginConnect(w, s)
      PROVE  [Abstract!Next]_(Abstract!vars)
  <2>1. Abstract!Begin(w, s)
    BY <1>1, BeginIsBegin
  <2> QED
    BY <2>1 DEF Abstract!Next
<1>2. ASSUME NEW p \in Requests, StoreToken(p)
      PROVE  [Abstract!Next]_(Abstract!vars)
  <2>1. Abstract!Connect(asks[p], attempt[p], New)
    BY <1>2, StoreIsConnect
  <2>2. asks[p] \in Workspaces /\ attempt[p] \in Attempts
    BY <1>2 DEF StoreToken, Begun, Callbacks
  <2>3. New \in Ids
    BY <1>2, NextNumberIsLeft DEF StoreToken
  <2> QED
    BY <2>1, <2>2, <2>3 DEF Abstract!Next
<1>3. ASSUME NEW p \in Requests, Disconnect(p)
      PROVE  [Abstract!Next]_(Abstract!vars)
  BY <1>3, LeavingIsDisconnect DEF Abstract!Next
<1>4. ASSUME NEW p \in Requests, RefreshFails(p) \/ RefreshSucceeds(p)
      PROVE  UNCHANGED Abstract!vars
  <2>1. UNCHANGED attempts /\ account'.ws = account.ws
    BY <1>4, WritersKeepStored
  <2>2. SameTokens
    BY <1>4 DEF RefreshFails, RefreshSucceeds, SameTokens
  <2> QED
    BY <2>1, <2>2, SameKnown DEF Abstract!vars
<1>5. ASSUME OtherSteps,
             \A s \in Attempts : attempts'[s].ws = attempts[s].ws
      PROVE  UNCHANGED Abstract!vars
  BY <1>5, OthersKeepRows, SameKnown DEF Abstract!vars
<1> QED
  BY <1>1, <1>2, <1>3, <1>4, <1>5, StepKinds, OnlyBeginConnectBegins

\* However callbacks, refreshes and disconnections of any number of requests
\* overlap, the tenants see one credential or none: the callback that commits
\* replaces it in one step (complete_connect, _store_token), a disconnection drops
\* what is there, and no refresh brings a token back.
THEOREM ConnectionImplementsCredential == Spec => ImplementsCredential
<1>1. Init => Abstract!Init
  <2> SUFFICES ASSUME Init PROVE Abstract!Init
    OBVIOUS
  <2>1. Active = {} /\ Revoked = {}
    BY DEF Init, Active, Revoked, NoToken
  <2>2. Known("active") = {} /\ Known("revoked") = {}
    BY <2>1, KnownTokens
  <2> QED
    BY <2>2 DEF Init, Abstract!Init
<1> QED
  BY <1>1, CredentialStep, Invariance, UnbegunInvariance, PTL
  DEF Spec, ImplementsCredential, Abstract!Spec

\* One credential at most, and none that was retired.
CredentialInv ==
  /\ \A c, d \in Known("active") : c = d
  /\ \A c \in Known("active"), d \in Known("revoked") : c.id # d.id

\* The promise of the abstract credential: there is one at most, what is retired
\* stays retired and is not the live one, and the account stays with its tenant.
THEOREM CredentialKeepsItsPromise ==
  Abstract!Spec =>
    /\ []CredentialInv
    /\ [][/\ Known("revoked") \subseteq Known("revoked")'
          /\ account.ws # NoWorkspace => account'.ws = account.ws]_(Abstract!vars)
<1>1. Abstract!Init => CredentialInv
  BY DEF Abstract!Init, CredentialInv
<1>2. CredentialInv /\ [Abstract!Next]_(Abstract!vars) =>
        /\ CredentialInv'
        /\ [/\ Known("revoked") \subseteq Known("revoked")'
            /\ account.ws # NoWorkspace => account'.ws = account.ws]_(Abstract!vars)
  <2> DEFINE Goal ==
        /\ CredentialInv'
        /\ [/\ Known("revoked") \subseteq Known("revoked")'
            /\ account.ws # NoWorkspace => account'.ws = account.ws]_(Abstract!vars)
  <2> SUFFICES ASSUME CredentialInv, [Abstract!Next]_(Abstract!vars)
               PROVE  Goal
    OBVIOUS
  <2>1. ASSUME NEW w \in Workspaces, NEW s \in Attempts, Abstract!Begin(w, s)
        PROVE  Goal
    BY <2>1 DEF Abstract!Begin, CredentialInv
  <2>2. ASSUME NEW w \in Workspaces, NEW s \in Attempts, NEW t \in Ids,
               Abstract!Connect(w, s, t)
        PROVE  Goal
    BY <2>2 DEF Abstract!Connect, CredentialInv
  <2>3. CASE Abstract!Disconnect
    BY <2>3 DEF Abstract!Disconnect, CredentialInv
  <2>4. CASE UNCHANGED Abstract!vars
    BY <2>4 DEF Abstract!vars, CredentialInv
  <2> QED BY <2>1, <2>2, <2>3, <2>4 DEF Abstract!Next
<1> QED BY <1>1, <1>2, PTL DEF Abstract!Spec

-----------------------------------------------------------------------------
(* Waiting.  The provers cannot expand ENABLED, so the guards of Continues are *)
(* written out here.                                                           *)

\* A callback waits for one that has written the same attempt, unless Meta's
\* answer lets it go on to the account.
MayLeaveMeta(p) ==
  /\ pc[p] = "exchanging"
  /\ \/ account.ws \in {NoWorkspace, asks[p]}
     \/ AttemptIsFree(p)

\* The account is inserted, updated, or found to be there by now.
MayWriteAccount(p) ==
  /\ pc[p] = "upserting"
  /\ AccountIsFree(p)
  /\ \/ saw[p] = "ABSENT" /\ account.status # "ABSENT"
     \/ AttemptIsFree(p)

\* The rows that p is about to write are free.
MayWriteTokens(p) == pc[p] \in {"replacing", "scanning"} /\ TokensAreFree(p)

\* A disconnection, or a refresh of an account that has expired, holds its token
\* and is about to write the account.
WantsAccount(p) == pc[p] = "revoked" \/ (pc[p] = "renewed" /\ saw[p] = "TOKEN_EXPIRED")

\* Whom the database aborts, or whose partner.
InDeadlock(p) ==
  /\ pc[p] = "replacing"
  /\ \E q \in Requests : WantsAccount(q) /\ seen[p] \cap seen[q] # {}

\* The guard of Continues(p), but for RefreshIsLost: nobody needs a sweep to
\* fail.  In "picked", "calling" and "leaving" p holds nothing, and reads or
\* gets no answer; "marked" and a refresh that has written its rows may commit.
CanGoOn(p) ==
  \/ pc[p] \in {"picked", "calling", "leaving", "marked"}
  \/ MayLeaveMeta(p) \/ MayWriteAccount(p) \/ MayWriteTokens(p)
  \/ IsRefreshed(p)
  \/ WantsAccount(p) /\ AccountIsFree(p)
  \/ InDeadlock(p)

\* Who holds a token row has written all its rows, or is about to write the
\* account and nothing else.
LEMMA TokenHolders ==
  ASSUME NEW p \in HasTokens
  PROVE  IsRefreshed(p) \/ WantsAccount(p)
BY DEF HasTokens, IsRefreshed, WantsAccount

\* A callback that holds the account row writes the tokens, or finds one of them
\* held by somebody who can commit, or by somebody who waits for the account.
LEMMA HoldersGoOn ==
  ASSUME NEW p \in HasAccount
  PROVE  \E q \in Requests : CanGoOn(q)
<1>1. CASE pc[p] \in {"revived", "marked"}
  BY <1>1 DEF CanGoOn, IsRefreshed, HasAccount
<1>2. CASE pc[p] = "replacing" /\ TokensAreFree(p)
  BY <1>2 DEF CanGoOn, MayWriteTokens, HasAccount
<1>3. CASE pc[p] = "replacing" /\ ~TokensAreFree(p)
  <2>1. PICK q \in HasTokens \ {p} : seen[p] \cap seen[q] # {}
    BY <1>3 DEF TokensAreFree, LockedFor
  <2>2. p \in Requests /\ q \in Requests
    BY <2>1 DEF HasAccount, HasTokens
  <2>3. CASE IsRefreshed(q)
    BY <2>2, <2>3 DEF CanGoOn
  <2>4. CASE WantsAccount(q)
    BY <1>3, <2>1, <2>2, <2>4 DEF CanGoOn, InDeadlock
  <2> QED
    BY <2>1, <2>3, <2>4, TokenHolders
<1> QED
  BY <1>1, <1>2, <1>3 DEF HasAccount

\* Nobody holds the account row: whoever has written tokens can write it.
LEMMA NobodyHolds ==
  ASSUME TypeOK, HasAccount = {}, NEW p \in Requests, pc[p] # "idle"
  PROVE  \E q \in Requests : CanGoOn(q)
<1>1. \A q \in Requests : AccountIsFree(q)
  BY DEF AccountIsFree
<1>2. AttemptIsFree(p)
  BY DEF AttemptIsFree, HasAccount
<1>3. CASE HasTokens # {}
  <2>1. PICK q \in Requests : q \in HasTokens
    BY <1>3 DEF HasTokens
  <2> QED
    BY <1>1, <2>1, TokenHolders DEF CanGoOn
<1>4. CASE HasTokens = {}
  <2>1. TokensAreFree(p)
    BY <1>4 DEF TokensAreFree, LockedFor
  <2>2. /\ pc[p] \in Steps
        /\ pc[p] \notin {"replacing", "revived", "marked", "revoked", "renewed"}
    BY <1>4 DEF TypeOK, HasAccount, HasTokens
  <2> QED
    BY <1>1, <1>2, <2>1, <2>2
    DEF Steps, Callbacks, Refreshes, Disconnects, CanGoOn, MayLeaveMeta,
        MayWriteAccount, MayWriteTokens
<1> QED
  BY <1>3, <1>4

\* NoStandstill with the guards written out: as long as a request is in flight,
\* one of them can go on, whatever rows a sweep keeps until it is through, for any
\* number of requests.  Callbacks write the account first, disconnections and
\* refreshes the tokens, so that a callback is part of every circle, and the
\* database breaks it.
THEOREM ConnectionGoesOn ==
  Spec => []((\E p \in Requests : pc[p] # "idle") => \E p \in Requests : CanGoOn(p))
<1>1. TypeOK => ((\E p \in Requests : pc[p] # "idle") => \E p \in Requests : CanGoOn(p))
  BY HoldersGoOn, NobodyHolds DEF HasAccount
<1> QED
  BY <1>1, ConnectionTypes, PTL

=============================================================================
