----------------------------- MODULE Connection -----------------------------
(***************************************************************************)
(* The connection of one Instagram account (modules/instagram/service.py): *)
(* the OAuth round trip, the account row, its token rows, the refresh by   *)
(* the daily sweep or on request, and disconnection.                       *)
(*                                                                         *)
(* Several requests run at once, each in one transaction.  A SELECT sees   *)
(* what is committed; an UPDATE picks its rows when it starts, waits for   *)
(* rows that another transaction has written, and looks at them again; the *)
(* ORM writes a column only when its new value differs from the one that   *)
(* was read.  The OAuth callback swallows every exception, so it commits   *)
(* what it had written up to there.                                        *)
(*                                                                         *)
(* Accounts share no rows, but the sweep refreshes all of them in one      *)
(* transaction: it keeps the rows that it has written here until it is     *)
(* through with the others, and may lose them there.                       *)
(***************************************************************************)
EXTENDS Naturals, FiniteSets

CONSTANTS
  Requests,     (* database sessions: API requests and runs of the sweep       *)
  Workspaces,   (* tenants                                                     *)
  Attempts,     (* state values of OAuth round trips                           *)
  NoWorkspace,  (* not a workspace                                             *)
  NoAttempt,    (* not an attempt                                              *)
  MaxTokens     (* bound on token rows                                         *)

ASSUME ConnectionAssumption ==
  /\ NoWorkspace \notin Workspaces
  /\ NoAttempt \notin Attempts
  /\ MaxTokens \in Nat
  /\ IsFiniteSet(Requests)

VARIABLES
  attempts,     (* rows of oauth_states                                        *)
  account,      (* the row of social_accounts                                  *)
  tokens,       (* rows of oauth_tokens, in the order of their creation        *)
  pc,           (* how far the transaction of each request is                  *)
  asks,         (* the workspace its callback acts for                         *)
  attempt,      (* the attempt its callback brought back                       *)
  saw,          (* the status of the account it has read                       *)
  seen,         (* the token rows its UPDATE has picked, or the one it read    *)
  overtaken,    (* history: requests whose reads precede another one's commit  *)
  torn          (* history: an overtaken request has committed                 *)

rows == <<attempts, account, tokens>>
mine == <<asks, attempt, saw, seen>>
ghosts == <<overtaken, torn>>
vars == <<rows, pc, mine, ghosts>>

-----------------------------------------------------------------------------
(* Rows. *)

\* ERROR and REVOKED are declared as well, but nothing calls mark_token_error.
AccountStatus == {"ABSENT", "CONNECTED", "TOKEN_EXPIRED", "DISCONNECTED"}

Account == [ws : Workspaces \cup {NoWorkspace}, status : AccountStatus]

\* expires_at and consumed_at of an OAuth state; its result is not read
Attempt == [ws : Workspaces \cup {NoWorkspace},
            life : {"none", "open", "expired", "consumed"}]

\* is_revoked, and whether expires_at is within REFRESH_SAFETY_MARGIN_DAYS, or past
Token == [state : {"none", "active", "revoked"},
          life : {"fresh", "due"},
          ws : Workspaces \cup {NoWorkspace},
          from : Attempts \cup {NoAttempt}]

NoToken == [state |-> "none", life |-> "fresh",
            ws |-> NoWorkspace, from |-> NoAttempt]

Ids == 1 .. MaxTokens
Stored == {t \in Ids : tokens[t].state # "none"}
Active == {t \in Ids : tokens[t].state = "active"}

\* SELECT ... WHERE NOT is_revoked ORDER BY created_at DESC, the first row
Latest(S) == CHOOSE t \in S : \A u \in S : u <= t

Callbacks == {"exchanging", "upserting", "replacing"}
Refreshes == {"picked", "calling", "renewed", "revived", "marked"}
Disconnects == {"leaving", "scanning", "revoked"}
Steps == {"idle"} \cup Callbacks \cup Refreshes \cup Disconnects

TypeOK ==
  /\ attempts \in [Attempts -> Attempt]
  /\ account \in Account
  /\ tokens \in [Ids -> Token]
  /\ pc \in [Requests -> Steps]
  /\ asks \in [Requests -> Workspaces \cup {NoWorkspace}]
  /\ attempt \in [Requests -> Attempts \cup {NoAttempt}]
  /\ saw \in [Requests -> AccountStatus]
  /\ seen \in [Requests -> SUBSET Ids]
  /\ overtaken \in SUBSET Requests
  /\ torn \in BOOLEAN

Init ==
  /\ attempts = [s \in Attempts |-> [ws |-> NoWorkspace, life |-> "none"]]
  /\ account = [ws |-> NoWorkspace, status |-> "ABSENT"]
  /\ tokens = [t \in Ids |-> NoToken]
  /\ pc = [p \in Requests |-> "idle"]
  /\ asks = [p \in Requests |-> NoWorkspace]
  /\ attempt = [p \in Requests |-> NoAttempt]
  /\ saw = [p \in Requests |-> "ABSENT"]
  /\ seen = [p \in Requests |-> {}]
  /\ overtaken = {}
  /\ torn = FALSE

-----------------------------------------------------------------------------
(* Row locks and the ends of transactions. *)


\* Requests that have written the account row and have not committed.
HasAccount == {p \in Requests : pc[p] \in {"replacing", "revived", "marked"}}

\* Requests that have written the token rows they have seen, likewise.
HasTokens == {p \in Requests : pc[p] \in {"revoked", "renewed", "revived"}}

LockedFor(p) == UNION {seen[q] : q \in HasTokens \ {p}}

AccountIsFree(p) == HasAccount \subseteq {p}
TokensAreFree(p) == seen[p] \cap LockedFor(p) = {}

\* The callbacks that have read the account, or may read it no more.
HaveRead == {q \in Requests : pc[q] \notin {"idle", "exchanging"}}

\* The transaction of p ends.
Ends(p) ==
  /\ pc' = [pc EXCEPT ![p] = "idle"]
  /\ attempt' = [attempt EXCEPT ![p] = NoAttempt]
  /\ asks' = [asks EXCEPT ![p] = NoWorkspace]
  /\ saw' = [saw EXCEPT ![p] = "ABSENT"]
  /\ seen' = [seen EXCEPT ![p] = {}]

\* ... with writes to the account or its tokens, which the others in flight
\* have not seen; or without any.
Commits(p) ==
  /\ Ends(p)
  /\ overtaken' = HaveRead \ {p}
  /\ torn' = (torn \/ p \in overtaken)

EndsQuietly(p) ==
  /\ Ends(p)
  /\ overtaken' = overtaken \ {p}
  /\ UNCHANGED torn

Goes(p, step) == pc' = [pc EXCEPT ![p] = step]

\* consumed_at of the attempt of p, as committed
Consumes(p) ==
  attempts' = [attempts EXCEPT ![attempt[p]] =
                 [ws |-> @.ws, life |-> "consumed"]]

\* No other callback has written the attempt and not committed.
AttemptIsFree(p) ==
  \A q \in Requests \ {p} : pc[q] = "replacing" => attempt[q] # attempt[p]

-----------------------------------------------------------------------------
(* The OAuth round trip. *)

\* begin_connect: a new row, valid for STATE_TTL_MINUTES.
BeginConnect(w, s) ==
  /\ attempts[s].life = "none"
  /\ attempts' = [attempts EXCEPT ![s] = [ws |-> w, life |-> "open"]]
  /\ UNCHANGED <<account, tokens, pc, mine, ghosts>>

AttemptExpires(s) ==
  /\ attempts[s].life = "open"
  /\ attempts' = [attempts EXCEPT ![s] = [ws |-> @.ws, life |-> "expired"]]
  /\ UNCHANGED <<account, tokens, pc, mine, ghosts>>

\* complete_connect reads the attempt; a row that is unknown, consumed, past
\* or of another workspace ends the request.  consumed_at is set on the copy.
CallbackStarts(p, w, s) ==
  /\ pc[p] = "idle"
  /\ attempts[s].life = "open"
  /\ attempts[s].ws = w
  /\ Cardinality(Stored) + Cardinality({q \in Requests : pc[q] \in Callbacks})
       < MaxTokens
  /\ Goes(p, "exchanging")
  /\ asks' = [asks EXCEPT ![p] = w]
  /\ attempt' = [attempt EXCEPT ![p] = s]
  /\ UNCHANGED <<rows, saw, seen, ghosts>>

\* The user refused, or Meta does not give a token or a profile: the exception
\* is swallowed, and the consumed attempt is committed.
ConnectFails(p) ==
  /\ pc[p] = "exchanging"
  /\ AttemptIsFree(p)
  /\ Consumes(p)
  /\ EndsQuietly(p)
  /\ UNCHANGED <<account, tokens>>

\* Mutant of ProfileArrives: the workspace of the account is not looked at.
ProfileArrivesAnywhere(p) ==
  /\ pc[p] = "exchanging"
  /\ Goes(p, "upserting")
  /\ saw' = [saw EXCEPT ![p] = account.status]
  /\ UNCHANGED <<rows, asks, attempt, seen, ghosts>>

\* Code, long-lived token and profile are there; the account is looked up.
ProfileArrives(p) ==
  /\ pc[p] = "exchanging"
  /\ account.ws \in {NoWorkspace, asks[p]}
  /\ Goes(p, "upserting")
  /\ saw' = [saw EXCEPT ![p] = account.status]
  /\ UNCHANGED <<rows, asks, attempt, seen, ghosts>>

\* It belongs to another workspace, connected or not: ConflictError, which
\* the callback swallows as well.
AccountOfAnotherTenant(p) ==
  /\ pc[p] = "exchanging"
  /\ account.ws \notin {NoWorkspace, asks[p]}
  /\ AttemptIsFree(p)
  /\ Consumes(p)
  /\ EndsQuietly(p)
  /\ UNCHANGED <<account, tokens>>

\* Both of two first callbacks insert the account: the unique constraint rolls
\* the later one back, with its attempt.
InsertedMeanwhile(p) ==
  /\ pc[p] = "upserting"
  /\ AccountIsFree(p)
  /\ saw[p] = "ABSENT" /\ account.status # "ABSENT"
  /\ EndsQuietly(p)
  /\ UNCHANGED rows

\* Mutant of WriteAccount: only the tokens that are due are picked.
WriteAccountKeepsFresh(p) ==
  /\ pc[p] = "upserting"
  /\ AccountIsFree(p) /\ AttemptIsFree(p)
  /\ saw[p] = "ABSENT" => account.status = "ABSENT"
  /\ Goes(p, "replacing")
  /\ seen' = [seen EXCEPT ![p] = {t \in Active : tokens[t].life = "due"}]
  /\ UNCHANGED <<rows, asks, attempt, saw, ghosts>>

\* The account is inserted or updated, and _store_token picks the tokens to
\* revoke, under the lock of the account row.
WriteAccount(p) ==
  /\ pc[p] = "upserting"
  /\ AccountIsFree(p) /\ AttemptIsFree(p)
  /\ saw[p] = "ABSENT" => account.status = "ABSENT"
  /\ Goes(p, "replacing")
  /\ seen' = [seen EXCEPT ![p] = Active]
  /\ UNCHANGED <<rows, asks, attempt, saw, ghosts>>

\* The tokens that were picked are revoked, the new one is inserted, commit.
StoreToken(p) ==
  /\ pc[p] = "replacing"
  /\ TokensAreFree(p)
  /\ LET new == Cardinality(Stored) + 1 IN
       tokens' = [t \in Ids |->
         IF t = new THEN [state |-> "active", life |-> "fresh",
                          ws |-> asks[p], from |-> attempt[p]]
         ELSE IF t \in seen[p] \cap Active
              THEN [state |-> "revoked", life |-> tokens[t].life,
                    ws |-> tokens[t].ws, from |-> tokens[t].from]
              ELSE tokens[t]]
  /\ account' = [ws |-> asks[p],
                 status |-> IF saw[p] = "CONNECTED" THEN account.status
                            ELSE "CONNECTED"]
  /\ Consumes(p)
  /\ Commits(p)

-----------------------------------------------------------------------------
(* Refresh. *)

TokenAges(t) ==
  /\ tokens[t].state = "active"
  /\ tokens' = [tokens EXCEPT ![t] =
       [state |-> "active", life |-> "due", ws |-> @.ws, from |-> @.from]]
  /\ UNCHANGED <<attempts, account, pc, mine, ghosts>>

\* The daily sweep selects the accounts; POST /{id}/refresh-token loads one.
SweepPicks(p) ==
  /\ pc[p] = "idle"
  /\ account.status \in {"CONNECTED", "TOKEN_EXPIRED"}
  /\ Goes(p, "picked")
  /\ saw' = [saw EXCEPT ![p] = account.status]
  /\ UNCHANGED <<rows, asks, attempt, seen, ghosts>>

RefreshRequested(p, w) ==
  /\ pc[p] = "idle"
  /\ account.ws = w
  /\ Goes(p, "picked")
  /\ saw' = [saw EXCEPT ![p] = account.status]
  /\ UNCHANGED <<rows, asks, attempt, seen, ghosts>>

\* refresh_if_needed has nothing to do.
NothingToRefresh(p) ==
  /\ pc[p] = "picked"
  /\ Active # {} => tokens[Latest(Active)].life = "fresh"
  /\ EndsQuietly(p)
  /\ UNCHANGED rows

CallForToken(p) ==
  /\ pc[p] = "picked"
  /\ Active # {}
  /\ tokens[Latest(Active)].life # "fresh"
  /\ Goes(p, "calling")
  /\ seen' = [seen EXCEPT ![p] = {Latest(Active)}]
  /\ UNCHANGED <<rows, asks, attempt, saw, ghosts>>

\* An answer without a token, or an exception that is not Meta's.
RefreshGivesNothing(p) ==
  /\ pc[p] = "calling"
  /\ EndsQuietly(p)
  /\ UNCHANGED rows

\* Meta refuses, or cannot be reached: the account row is written ...
MarkAccount(p) ==
  /\ pc[p] = "calling"
  /\ AccountIsFree(p)
  /\ Goes(p, "marked")
  /\ UNCHANGED <<rows, mine, ghosts>>

\* Mutant of RefreshFails: it writes a status that is not one.
RefreshFailsMisnamed(p) ==
  /\ pc[p] = "marked"
  /\ account' = IF saw[p] = "TOKEN_EXPIRED" THEN account
                ELSE [ws |-> account.ws, status |-> "EXPIRED"]
  /\ Commits(p)
  /\ UNCHANGED <<attempts, tokens>>

\* ... and committed, by the sweep once the other accounts are done: whatever
\* happened to it meanwhile it is marked, unless it was when it was read.
RefreshFails(p) ==
  /\ pc[p] = "marked"
  /\ account' = IF saw[p] = "TOKEN_EXPIRED" THEN account
                ELSE [ws |-> account.ws, status |-> "TOKEN_EXPIRED"]
  /\ Commits(p)
  /\ UNCHANGED <<attempts, tokens>>

\* A new token.  One flush writes the rows, those of oauth_tokens first ...
RenewToken(p) ==
  /\ pc[p] = "calling"
  /\ TokensAreFree(p)
  /\ Goes(p, "renewed")
  /\ UNCHANGED <<rows, mine, ghosts>>

\* ... then the account, if it was read as TOKEN_EXPIRED.
ReviveAccount(p) ==
  /\ pc[p] = "renewed"
  /\ saw[p] = "TOKEN_EXPIRED"
  /\ AccountIsFree(p)
  /\ Goes(p, "revived")
  /\ UNCHANGED <<rows, mine, ghosts>>

\* Every row of the refresh is written.
IsRefreshed(p) ==
  \/ pc[p] = "revived"
  \/ pc[p] = "renewed" /\ saw[p] # "TOKEN_EXPIRED"

\* Mutant of RefreshSucceeds: the row that is written is active again.
RefreshSucceedsReviving(p) ==
  /\ IsRefreshed(p)
  /\ tokens' = [t \in Ids |->
       IF t \in seen[p] THEN [state |-> "active", life |-> "fresh",
                              ws |-> tokens[t].ws, from |-> tokens[t].from]
       ELSE tokens[t]]
  /\ account' = IF pc[p] = "revived"
                THEN [ws |-> account.ws, status |-> "CONNECTED"]
                ELSE account
  /\ Commits(p)
  /\ UNCHANGED attempts

\* The commit, of the sweep again once the other accounts are done: the new
\* token is in the row that was read, revoked or not.
RefreshSucceeds(p) ==
  /\ IsRefreshed(p)
  /\ tokens' = [t \in Ids |->
       IF t \in seen[p] THEN [state |-> tokens[t].state, life |-> "fresh",
                              ws |-> tokens[t].ws, from |-> tokens[t].from]
       ELSE tokens[t]]
  /\ account' = IF pc[p] = "revived"
                THEN [ws |-> account.ws, status |-> "CONNECTED"]
                ELSE account
  /\ Commits(p)
  /\ UNCHANGED attempts

\* A statement for another account fails, or meets a second sweep that goes
\* through the accounts in another order: the errors are swallowed, and the
\* commit of the whole sweep fails.
RefreshIsLost(p) ==
  /\ pc[p] \in {"marked", "renewed", "revived"}
  /\ EndsQuietly(p)
  /\ UNCHANGED rows

-----------------------------------------------------------------------------
(* Disconnection. *)

\* DELETE /social-accounts/{id} loads the account, whatever its status.
Leave(p, w) ==
  /\ pc[p] = "idle"
  /\ account.ws = w
  /\ Goes(p, "leaving")
  /\ saw' = [saw EXCEPT ![p] = account.status]
  /\ UNCHANGED <<rows, asks, attempt, seen, ghosts>>

\* The UPDATE of the tokens starts ...
PickTokens(p) ==
  /\ pc[p] = "leaving"
  /\ Goes(p, "scanning")
  /\ seen' = [seen EXCEPT ![p] = Active]
  /\ UNCHANGED <<rows, asks, attempt, saw, ghosts>>

\* ... and has written those it found, as far as they are active still.
RevokeTokens(p) ==
  /\ pc[p] = "scanning"
  /\ TokensAreFree(p)
  /\ Goes(p, "revoked")
  /\ seen' = [seen EXCEPT ![p] = @ \cap Active]
  /\ UNCHANGED <<rows, asks, attempt, saw, ghosts>>

\* Mutant of Disconnect: the tokens stay.
DisconnectKeepsTokens(p) ==
  /\ pc[p] = "revoked"
  /\ AccountIsFree(p)
  /\ account' = [ws |-> account.ws,
                 status |-> IF saw[p] = "DISCONNECTED" THEN account.status
                            ELSE "DISCONNECTED"]
  /\ Commits(p)
  /\ UNCHANGED <<attempts, tokens>>

\* The account row is written, commit.
Disconnect(p) ==
  /\ pc[p] = "revoked"
  /\ AccountIsFree(p)
  /\ tokens' = [t \in Ids |->
       IF t \in seen[p] THEN [state |-> "revoked", life |-> tokens[t].life,
                              ws |-> tokens[t].ws, from |-> tokens[t].from]
       ELSE tokens[t]]
  /\ account' = [ws |-> account.ws,
                 status |-> IF saw[p] = "DISCONNECTED" THEN account.status
                            ELSE "DISCONNECTED"]
  /\ Commits(p)
  /\ UNCHANGED attempts

\* The callback p holds the account row and waits for a token row of q, which is
\* about to write the account row: the database aborts one of the two.
BreakDeadlock(p, q) ==
  /\ pc[p] = "replacing"
  /\ pc[q] = "revoked" \/ (pc[q] = "renewed" /\ saw[q] = "TOKEN_EXPIRED")
  /\ seen[p] \cap seen[q] # {}
  /\ \E victim \in {p, q} : EndsQuietly(victim)
  /\ UNCHANGED rows

-----------------------------------------------------------------------------

\* The steps of a transaction that has begun.
Continues(p) ==
  \/ ConnectFails(p) \/ ProfileArrives(p) \/ AccountOfAnotherTenant(p)
  \/ InsertedMeanwhile(p) \/ WriteAccount(p) \/ StoreToken(p)
  \/ NothingToRefresh(p) \/ CallForToken(p) \/ RefreshGivesNothing(p)
  \/ MarkAccount(p) \/ RefreshFails(p)
  \/ RenewToken(p) \/ ReviveAccount(p) \/ RefreshSucceeds(p) \/ RefreshIsLost(p)
  \/ PickTokens(p) \/ RevokeTokens(p) \/ Disconnect(p)
  \/ \E q \in Requests : BreakDeadlock(p, q)

Starts(p) ==
  \/ \E w \in Workspaces :
       \/ \E s \in Attempts : CallbackStarts(p, w, s)
       \/ RefreshRequested(p, w)
       \/ Leave(p, w)
  \/ SweepPicks(p)

Next ==
  \/ \E w \in Workspaces, s \in Attempts : BeginConnect(w, s)
  \/ \E s \in Attempts : AttemptExpires(s)
  \/ \E t \in Ids : TokenAges(t)
  \/ \E p \in Requests : Starts(p) \/ Continues(p)

Spec == Init /\ [][Next]_vars

-----------------------------------------------------------------------------
(* Properties. *)

\* "Invalidate previous tokens for this account (one active credential)"
\* (_store_token): however callbacks, refreshes and disconnections overlap, no
\* two tokens of the account are active.
OneCredential == \A t, u \in Active : t = u

\* Every stored token belongs to the workspace of the account, and comes from
\* an attempt that was begun in that workspace and is used up.
TokensOfOneTenant ==
  \A t \in Stored :
    /\ tokens[t].ws = account.ws
    /\ attempts[tokens[t].from].ws = account.ws
    /\ attempts[tokens[t].from].life = "consumed"

\* As long as no transaction has committed after another one that it did not
\* see, the status tells whether there is a credential: CONNECTED and
\* TOKEN_EXPIRED accounts have an active token, the others have none.
StatusTellsCredential ==
  ~torn => (account.status \in {"CONNECTED", "TOKEN_EXPIRED"} <=> Active # {})

\* An account never moves to another workspace, and a revoked token is never
\* active again, although a refresh may still write to its row.
KeepsTenantAndRevocation ==
  [][/\ account.ws # NoWorkspace => account'.ws = account.ws
     /\ \A t \in Ids : tokens[t].state = "revoked" =>
          tokens'[t].state = "revoked"]_vars

\* The tokens in one state, as a tenant knows them.
Known(state) ==
  {[id |-> t, ws |-> tokens[t].ws, from |-> tokens[t].from] :
     t \in {t \in Ids : tokens[t].state = state}}

Abstract == INSTANCE Credential
  WITH begun <- [s \in Attempts |-> attempts[s].ws], tenant <- account.ws,
       live <- Known("active"), retired <- Known("revoked")

\* However callbacks, refreshes and disconnections overlap, the tenants see a
\* credential that is there or not, replaced by each callback in one step,
\* dropped by a disconnection, and never back once it was revoked.
ImplementsCredential == Abstract!Spec


=============================================================================
