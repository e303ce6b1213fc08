--------------------------- MODULE RefreshTokens ---------------------------
(***************************************************************************)
(* The login sessions of one user and their rotating refresh tokens        *)
(* (identity/service.py): login, rotation of a refresh token, the grace    *)
(* window for repeated requests, logout, logout everywhere.                *)
(*                                                                         *)
(* Every request is one transaction at READ COMMITTED, committed when the  *)
(* handler returns and rolled back when it raises.  Hence a request that   *)
(* is refused changes nothing, even where the handler writes before it     *)
(* raises: the count of failed logins, and the revocation of the family of *)
(* a token that is presented again too late.  Such requests are not        *)
(* actions here.  A rotation and a revocation overlap with others: they    *)
(* read in one statement, write rows, which locks them, in a later one,    *)
(* and become visible at their commit.                                     *)
(*                                                                         *)
(* A family is the tokens of one session: issue_tokens is called by login  *)
(* only.  A token is any id that security.generate_token_id may return.    *)
(***************************************************************************)
EXTENDS Naturals

CONSTANTS
  Sessions,   (* rows of user_sessions of one user                            *)
  Tokens,     (* token ids; their number bounds the tokens that are issued    *)
  Clients,    (* concurrent refresh requests                                  *)
  NoSession,  (* the session of a token that was never issued                 *)
  NoToken,    (* no token: replaced_by_id is NULL, or an empty refresh_token  *)
  TTL,        (* REFRESH_TOKEN_TTL_DAYS                                       *)
  SessionTTL, (* SESSION_IDLE_TTL_DAYS                                        *)
  MaxAge,     (* REFRESH_TOKEN_MAX_AGE_DAYS                                   *)
  Grace,      (* REFRESH_ROTATION_REUSE_GRACE_SECONDS                         *)
  Horizon     (* bound: the last moment of the clock                          *)

ASSUME RefreshAssumption ==
  /\ NoSession \notin Sessions
  /\ NoToken \notin Tokens
  /\ TTL \in Nat
  /\ SessionTTL \in Nat
  /\ MaxAge \in Nat
  /\ Grace \in Nat
  /\ Horizon \in Nat

VARIABLES
  now,      (* the clock                                                      *)
  session,  (* committed user_sessions: status, and the time of the login     *)
  token,    (* committed refresh_tokens                                       *)
  call,     (* the token that each refresh request in progress has presented  *)
  phase,    (* how far the request is: idle, read, written                    *)
  revoking, (* how far a revocation is: idle, selected, updated               *)
  scope,    (* the sessions that it revokes                                   *)
  doomed,   (* the tokens that it revokes                                     *)
  held      (* the refresh token that the device of each session keeps        *)

requestVars == <<call, phase>>
revokeVars  == <<revoking, scope, doomed>>
vars == <<now, session, token, call, phase, revoking, scope, doomed, held>>

Session == [status : {"none", "active", "revoked"}, login : Nat]
Token == [session : Sessions \cup {NoSession}, expires : Nat, chain : Nat,
          revoked : BOOLEAN, used : Nat, next : Tokens \cup {NoToken}]

TypeOK ==
  /\ now \in Nat
  /\ session \in [Sessions -> Session]
  /\ token \in [Tokens -> Token]
  /\ call \in [Clients -> Tokens \cup {NoToken}]
  /\ phase \in [Clients -> {"idle", "read", "written"}]
  /\ revoking \in {"idle", "selected", "updated"}
  /\ scope \in SUBSET Sessions
  /\ doomed \in SUBSET Tokens
  /\ held \in [Sessions -> Tokens \cup {NoToken}]

Init ==
  /\ now = 0
  /\ session = [s \in Sessions |-> [status |-> "none", login |-> 0]]
  /\ token = [t \in Tokens |->
       [session |-> NoSession, expires |-> 0, chain |-> 0,
        revoked |-> FALSE, used |-> 0, next |-> NoToken]]
  /\ call = [c \in Clients |-> NoToken]
  /\ phase = [c \in Clients |-> "idle"]
  /\ revoking = "idle"
  /\ scope = {}
  /\ doomed = {}
  /\ held = [s \in Sessions |-> NoToken]

-----------------------------------------------------------------------------
IsIssued(t) == token[t].session # NoSession

IsLive(t) == IsIssued(t) /\ ~token[t].revoked

Issued(s) == {t \in Tokens : token[t].session = s}

Minimum(a, b) == IF a <= b THEN a ELSE b

\* A row of refresh_tokens for session s that does not outlive its chain.
NewToken(s, chain) ==
  [session |-> s, expires |-> Minimum(now + TTL, chain), chain |-> chain,
   revoked |-> FALSE, used |-> 0, next |-> NoToken]

\* Mutant of Rotated: replaced_by_id is set from another column of the new row.
RotatedToSession(r, n) ==
  [session |-> r.session, expires |-> r.expires, chain |-> r.chain,
   revoked |-> TRUE, used |-> now, next |-> r.session]

\* The row of a token that has been replaced by token n.
Rotated(r, n) ==
  [session |-> r.session, expires |-> r.expires, chain |-> r.chain,
   revoked |-> TRUE, used |-> now, next |-> n]

\* The user_sessions row of token t is neither revoked nor past its expires_at.
SessionIsOpen(t) ==
  LET s == token[t].session
  IN  session[s].status = "active" /\ now < session[s].login + SessionTTL

\* The answer of a refresh request reaches the device of session s, which keeps
\* the refresh token in it, or it is lost.
Answer(s, t) ==
  \/ held' = [held EXCEPT ![s] = t]
  \/ UNCHANGED held

-----------------------------------------------------------------------------
Tick ==
  /\ now < Horizon
  /\ now' = now + 1
  /\ UNCHANGED <<session, token, requestVars, revokeVars, held>>

\* POST /auth/login with the right password.
Login(s, t) ==
  /\ session[s].status = "none"
  /\ ~IsIssued(t)
  /\ session' = [session EXCEPT ![s] = [status |-> "active", login |-> now]]
  /\ token' = [token EXCEPT ![t] = NewToken(s, now + MaxAge)]
  /\ held' = [held EXCEPT ![s] = t]
  /\ UNCHANGED <<now, requestVars, revokeVars>>

-----------------------------------------------------------------------------
(* POST /auth/refresh: rotate_refresh_token. *)

\* Mutant of RefreshRead: the session of the token is not looked at.
RefreshReadAnySession(c, t) ==
  /\ phase[c] = "idle"
  /\ IsLive(t)
  /\ now < token[t].expires
  /\ now < token[t].chain
  /\ call' = [call EXCEPT ![c] = t]
  /\ phase' = [phase EXCEPT ![c] = "read"]
  /\ UNCHANGED <<now, session, token, revokeVars, held>>

\* One statement reads the token and, joined to it, its session: both are in
\* order.
RefreshRead(c, t) ==
  /\ phase[c] = "idle"
  /\ IsLive(t)
  /\ SessionIsOpen(t)
  /\ now < token[t].expires
  /\ now < token[t].chain
  /\ call' = [call EXCEPT ![c] = t]
  /\ phase' = [phase EXCEPT ![c] = "read"]
  /\ UNCHANGED <<now, session, token, revokeVars, held>>

\* The row is written by its primary key, whatever it has become in between;
\* this waits for another transaction that has written it.
RefreshWrite(c) ==
  /\ phase[c] = "read"
  /\ call[c] \notin doomed
  /\ \A d \in Clients : phase[d] = "written" => call[d] # call[c]
  /\ phase' = [phase EXCEPT ![c] = "written"]
  /\ UNCHANGED <<now, session, token, call, revokeVars, held>>

\* Mutant of RefreshCommit: the replacement starts a chain of its own.
RefreshCommitNewChain(c, n) ==
  LET t == call[c]
      s == token[t].session
  IN  /\ phase[c] = "written"
      /\ ~IsIssued(n)
      /\ token' = [token EXCEPT
           ![t] = Rotated(token[t], n),
           ![n] = NewToken(s, now + MaxAge)]
      /\ doomed' = doomed \ {t}
      /\ call' = [call EXCEPT ![c] = NoToken]
      /\ phase' = [phase EXCEPT ![c] = "idle"]
      /\ Answer(s, n)
      /\ UNCHANGED <<now, session, revoking, scope>>

\* Mutant of RefreshCommit: the presented token stays valid.
RefreshCommitKeeps(c, n) ==
  LET t == call[c]
      s == token[t].session
  IN  /\ phase[c] = "written"
      /\ ~IsIssued(n)
      /\ token' = [token EXCEPT
           ![t] = [@ EXCEPT !.used = now, !.next = n],
           ![n] = NewToken(s, token[t].chain)]
      /\ doomed' = doomed \ {t}
      /\ call' = [call EXCEPT ![c] = NoToken]
      /\ phase' = [phase EXCEPT ![c] = "idle"]
      /\ Answer(s, n)
      /\ UNCHANGED <<now, session, revoking, scope>>

\* Commit: the presented token is revoked and points to its replacement, which
\* inherits the end of the chain.
RefreshCommit(c, n) ==
  LET t == call[c]
      s == token[t].session
  IN  /\ phase[c] = "written"
      /\ ~IsIssued(n)
      /\ token' = [token EXCEPT
           ![t] = Rotated(token[t], n),
           ![n] = NewToken(s, token[t].chain)]
      /\ doomed' = doomed \ {t}
      /\ call' = [call EXCEPT ![c] = NoToken]
      /\ phase' = [phase EXCEPT ![c] = "idle"]
      /\ Answer(s, n)
      /\ UNCHANGED <<now, session, revoking, scope>>

\* The request ends with an error of the database or of the process.
RefreshFails(c) ==
  /\ phase[c] # "idle"
  /\ call' = [call EXCEPT ![c] = NoToken]
  /\ phase' = [phase EXCEPT ![c] = "idle"]
  /\ UNCHANGED <<now, session, token, revokeVars, held>>

\* A device repeats a request whose answer it has not received, within the grace
\* window and while the replacement has not expired: the answer has an access
\* token and an empty refresh token.
RefreshRepeated(t) ==
  /\ IsIssued(t)
  /\ held[token[t].session] = t
  /\ SessionIsOpen(t)
  /\ token[t].revoked
  /\ token[t].next # NoToken
  /\ now <= token[t].used + Grace
  /\ now < token[token[t].next].expires
  /\ Answer(token[t].session, NoToken)
  /\ UNCHANGED <<now, session, token, requestVars, revokeVars>>

-----------------------------------------------------------------------------
(* Revocations, one at a time: POST /auth/logout, DELETE /auth/sessions/{id}, *)
(* and POST /auth/logout-all, which a change and a reset of the password call *)
(* too.                                                                       *)

\* revoke_session: UPDATE refresh_tokens ... WHERE session_id.
RevokeOne(s) ==
  /\ revoking = "idle"
  /\ session[s].status # "none"
  /\ revoking' = "updated"
  /\ scope' = {s}
  /\ doomed' = {t \in Issued(s) : IsLive(t)}
  /\ UNCHANGED <<now, session, token, requestVars, held>>

\* revoke_all_sessions, first statement: select the active sessions...
RevokeAllSelect ==
  /\ revoking = "idle"
  /\ revoking' = "selected"
  /\ scope' = {s \in Sessions : session[s].status = "active"}
  /\ UNCHANGED <<now, session, token, requestVars, doomed, held>>

\* ...second statement: UPDATE refresh_tokens ... WHERE user_id.
RevokeAllUpdate ==
  /\ revoking = "selected"
  /\ revoking' = "updated"
  /\ doomed' = {t \in Tokens : IsLive(t)}
  /\ UNCHANGED <<now, session, token, requestVars, scope, held>>

\* The UPDATE has waited for the rotations that had written one of its rows,
\* and leaves out the rows that they have committed as revoked.
RevokeCommit ==
  /\ revoking = "updated"
  /\ \A c \in Clients : phase[c] = "written" => call[c] \notin doomed
  /\ session' = [s \in Sessions |->
       IF s \in scope THEN [session[s] EXCEPT !.status = "revoked"] ELSE session[s]]
  /\ token' = [t \in Tokens |->
       IF t \in doomed THEN [token[t] EXCEPT !.revoked = TRUE] ELSE token[t]]
  /\ revoking' = "idle"
  /\ scope' = {}
  /\ doomed' = {}
  /\ UNCHANGED <<now, requestVars, held>>

-----------------------------------------------------------------------------
Refresh(c) ==
  \/ \E t \in Tokens : RefreshRead(c, t) \/ RefreshCommit(c, t)
  \/ RefreshWrite(c)
  \/ RefreshFails(c)

Revoke ==
  \/ \E s \in Sessions : RevokeOne(s)
  \/ RevokeAllSelect
  \/ RevokeAllUpdate
  \/ RevokeCommit

Next ==
  \/ Tick
  \/ \E s \in Sessions, t \in Tokens : Login(s, t)
  \/ \E c \in Clients : Refresh(c)
  \/ \E t \in Tokens : RefreshRepeated(t)
  \/ Revoke

Spec == Init /\ [][Next]_vars

-----------------------------------------------------------------------------
(* Correctness. *)

\* "Absolute chain expiry that rotation cannot extend" (SECURITY.md): however
\* often and however concurrently the tokens of a login are rotated, none of
\* them outlives MaxAge after the login.
ChainIsBounded ==
  \A t \in Tokens : IsIssued(t) =>
    /\ token[t].chain = session[token[t].session].login + MaxAge
    /\ token[t].expires <= token[t].chain

\* The forward pointer that proves a rotation (models.py): a token that was
\* rotated is revoked, and points to another issued token of the same session,
\* also when two requests have rotated it and the second overwrote the pointer
\* of the first.
RotationsAreLinked ==
  \A t \in Tokens : token[t].next # NoToken =>
    /\ token[t].revoked
    /\ token[t].next # t
    /\ IsIssued(token[t].next)
    /\ token[token[t].next].session = token[t].session

InFlight(s) == {c \in Clients : call[c] \in Issued(s)}

\* A session that was revoked, or whose login is too long ago.
Over(s) ==
  \/ session[s].status = "revoked"
  \/ /\ session[s].status = "active"
     /\ now >= session[s].login + Minimum(SessionTTL, MaxAge)

\* A session that is over runs dry: no request joins those that have read one of
\* its tokens before, and each of these brings at most one more token, which no
\* request will accept.  Nothing brings the session back.
EndedSessionsRunDry ==
  [][\A s \in Sessions : Over(s) =>
       /\ Over(s)'
       /\ InFlight(s)' \subseteq InFlight(s)
       /\ Issued(s)' # Issued(s) => InFlight(s)' # InFlight(s)]_vars

\* "A lost HTTP response must not sign the user out" (test_jwt_and_sessions.py)
\* and "returns the same replacement" (SECURITY.md): the device of an active
\* session holds a refresh token.  The answer within the grace window has none.
DevicesStaySignedIn ==
  \A s \in Sessions : session[s].status = "active" => held[s] # NoToken

=============================================================================
