------------------------ MODULE RefreshTokensProofs ------------------------
(***************************************************************************)
(* Proofs about RefreshTokens, for any number of sessions, tokens and      *)
(* concurrent requests and any settings: the types, the end of the chain,  *)
(* the links between rotated tokens, and that an ended session runs dry.   *)
(***************************************************************************)
EXTENDS RefreshTokens, TLAPS

\* A request has presented an issued token, exactly while it is in progress.
Calls ==
  \A c \in Clients :
    /\ phase[c] = "idle" <=> call[c] = NoToken
    /\ call[c] # NoToken => IsIssued(call[c])

\* Tokens belong to sessions that have begun.
Started ==
  \A t \in Tokens : IsIssued(t) => session[token[t].session].status # "none"

\* The inductive invariant.
IInv == TypeOK /\ Calls /\ Started /\ ChainIsBounded /\ RotationsAreLinked

-----------------------------------------------------------------------------
LEMMA MinimumIsNat ==
  ASSUME NEW a \in Nat, NEW b \in Nat
  PROVE  /\ Minimum(a, b) \in Nat
         /\ Minimum(a, b) <= a
         /\ Minimum(a, b) <= b
BY DEF Minimum

\* What login and rotation insert is a row that does not outlive its chain.
LEMMA NewTokenIsBounded ==
  ASSUME RefreshAssumption, now \in Nat, NEW s \in Sessions, NEW e \in Nat
  PROVE  /\ NewToken(s, e) \in Token
         /\ NewToken(s, e).session = s
         /\ NewToken(s, e).chain = e
         /\ NewToken(s, e).expires <= e
         /\ NewToken(s, e).next = NoToken
<1>1. /\ now + TTL \in Nat
      /\ Minimum(now + TTL, e) \in Nat
      /\ Minimum(now + TTL, e) <= e
  BY MinimumIsNat DEF RefreshAssumption
<1> QED
  BY <1>1 DEF NewToken, Token

\* What a rotation is known to do: the presented token t is issued, n is not.
LEMMA CommitFacts ==
  ASSUME RefreshAssumption, IInv, NEW c \in Clients, NEW n \in Tokens,
         RefreshCommit(c, n)
  PROVE  /\ call[c] \in Tokens
         /\ call[c] # n
         /\ IsIssued(call[c])
         /\ ~IsIssued(n)
         /\ token[call[c]].session \in Sessions
         /\ token[call[c]] \in Token
         /\ token' = [token EXCEPT
              ![call[c]] = Rotated(token[call[c]], n),
              ![n] = NewToken(token[call[c]].session, token[call[c]].chain)]
         /\ call' = [call EXCEPT ![c] = NoToken]
         /\ phase' = [phase EXCEPT ![c] = "idle"]
<1>1. phase[c] = "written" /\ ~IsIssued(n)
  BY DEF RefreshCommit
<1>2. call[c] \in Tokens /\ IsIssued(call[c])
  BY <1>1 DEF IInv, TypeOK, Calls
<1>3. token[call[c]] \in Token
  BY <1>2 DEF IInv, TypeOK
<1>4. token[call[c]].session \in Sessions
  BY <1>2, <1>3 DEF Token, IsIssued
<1> QED
  BY <1>1, <1>2, <1>3, <1>4 DEF RefreshCommit

\* The rows after a rotation, one by one.
LEMMA CommitRows ==
  ASSUME RefreshAssumption, IInv, NEW c \in Clients, NEW n \in Tokens,
         RefreshCommit(c, n)
  PROVE  /\ token' \in [Tokens -> Token]
         /\ token'[n] = NewToken(token[call[c]].session, token[call[c]].chain)
         /\ token'[call[c]] =
              Rotated(token[call[c]], n)
         /\ \A t \in Tokens \ {call[c], n} : token'[t] = token[t]
<1> DEFINE t == call[c]
<1>1. /\ t \in Tokens
      /\ t # n
      /\ token[t] \in Token
      /\ token[t].session \in Sessions
      /\ token' = [token EXCEPT
           ![t] = Rotated(token[t], n),
           ![n] = NewToken(token[t].session, token[t].chain)]
  BY CommitFacts
<1>2. token \in [Tokens -> Token] /\ now \in Nat
  BY DEF IInv, TypeOK
<1>3. token[t].chain \in Nat
  BY <1>1 DEF Token
<1>4. NewToken(token[t].session, token[t].chain) \in Token
  BY <1>1, <1>2, <1>3, NewTokenIsBounded
<1>5. Rotated(token[t], n) \in Token
  BY <1>1, <1>2 DEF Token, Rotated
<1> HIDE DEF t
<1>6. token' \in [Tokens -> Token]
  BY <1>1, <1>2, <1>4, <1>5
<1>7. /\ token'[n] = NewToken(token[t].session, token[t].chain)
      /\ token'[t] = Rotated(token[t], n)
      /\ \A u \in Tokens \ {t, n} : token'[u] = token[u]
  BY <1>1, <1>2
<1> QED
  BY <1>6, <1>7 DEF t

-----------------------------------------------------------------------------
LEMMA InitIInv == ASSUME RefreshAssumption, Init PROVE IInv
<1>1. TypeOK
  BY DEF Init, TypeOK, Session, Token, RefreshAssumption
<1>2. \A t \in Tokens : ~IsIssued(t) /\ token[t].next = NoToken
  BY DEF Init, IsIssued
<1>3. Calls
  BY DEF Init, Calls
<1> QED
  BY <1>1, <1>2, <1>3 DEF IInv, Started, ChainIsBounded, RotationsAreLinked

\* The steps that leave the rows of both tables alone.
LEMMA ReadersKeepIInv ==
  ASSUME RefreshAssumption, IInv, UNCHANGED <<session, token>>, TypeOK', Calls'
  PROVE  IInv'
<1>1. Started' /\ ChainIsBounded' /\ RotationsAreLinked'
  BY DEF IInv, IsIssued, Started, ChainIsBounded, RotationsAreLinked
<1> QED
  BY <1>1 DEF IInv

LEMMA LoginKeepsIInv ==
  ASSUME RefreshAssumption, IInv, NEW s \in Sessions, NEW t \in Tokens, Login(s, t)
  PROVE  IInv'
<1> USE DEF IInv
<1>1. /\ session[s].status = "none"
      /\ ~IsIssued(t)
      /\ session' = [session EXCEPT ![s] = [status |-> "active", login |-> now]]
      /\ token' = [token EXCEPT ![t] = NewToken(s, now + MaxAge)]
      /\ held' = [held EXCEPT ![s] = t]
      /\ UNCHANGED <<now, call, phase, revoking, scope, doomed>>
  BY DEF Login, requestVars, revokeVars
<1>2. now \in Nat /\ now + MaxAge \in Nat
  BY DEF TypeOK, RefreshAssumption
<1>3. /\ NewToken(s, now + MaxAge) \in Token
      /\ NewToken(s, now + MaxAge).session = s
      /\ NewToken(s, now + MaxAge).chain = now + MaxAge
      /\ NewToken(s, now + MaxAge).expires <= now + MaxAge
      /\ NewToken(s, now + MaxAge).next = NoToken
  BY <1>2, NewTokenIsBounded
<1>4. TypeOK'
  BY <1>1, <1>2, <1>3 DEF TypeOK, Session
<1>5. /\ token'[t] = NewToken(s, now + MaxAge)
      /\ \A u \in Tokens \ {t} : token'[u] = token[u]
      /\ session'[s] = [status |-> "active", login |-> now]
      /\ \A r \in Sessions \ {s} : session'[r] = session[r]
  BY <1>1 DEF TypeOK
<1>6. /\ IsIssued(t)'
      /\ \A u \in Tokens \ {t} : IsIssued(u)' <=> IsIssued(u)
  BY <1>3, <1>5 DEF IsIssued, RefreshAssumption
<1>7. \A u \in Tokens : IsIssued(u) => token[u].session \in Sessions \ {s}
  BY <1>1 DEF TypeOK, Token, IsIssued, Started
<1>8. Calls'
  BY <1>1, <1>6 DEF Calls, TypeOK
<1>9. Started'
  BY <1>3, <1>5, <1>6, <1>7 DEF Started
<1>10. ChainIsBounded'
  <2> SUFFICES ASSUME NEW u \in Tokens, IsIssued(u)'
               PROVE  /\ token'[u].chain = session'[token'[u].session].login + MaxAge
                      /\ token'[u].expires <= token'[u].chain
    BY DEF ChainIsBounded
  <2>1. CASE u = t
    BY <2>1, <1>3, <1>5
  <2>2. CASE u # t
    <3>1. token'[u] = token[u] /\ IsIssued(u)
      BY <2>2, <1>5, <1>6
    <3>2. session'[token[u].session] = session[token[u].session]
      BY <3>1, <1>5, <1>7
    <3> QED
      BY <3>1, <3>2 DEF ChainIsBounded
  <2> QED
    BY <2>1, <2>2
<1>11. RotationsAreLinked'
  <2> SUFFICES ASSUME NEW u \in Tokens, token'[u].next # NoToken
               PROVE  /\ token'[u].revoked
                      /\ token'[u].next # u
                      /\ IsIssued(token[u].next)'
                      /\ token'[token'[u].next].session = token'[u].session
                      /\ token'[u].next = token[u].next
    BY DEF RotationsAreLinked, IsIssued
  <2>1. u # t /\ token'[u] = token[u]
    BY <1>3, <1>5
  <2>2. /\ token[u].revoked
        /\ token[u].next # u
        /\ IsIssued(token[u].next)
        /\ token[token[u].next].session = token[u].session
    BY <2>1 DEF RotationsAreLinked
  <2>3. token[u].next \in Tokens \ {t}
    BY <2>1, <2>2, <1>1 DEF TypeOK, Token
  <2> QED
    BY <2>1, <2>2, <2>3, <1>5, <1>6
<1> QED
  BY <1>4, <1>8, <1>9, <1>10, <1>11

LEMMA CommitKeepsIInv ==
  ASSUME RefreshAssumption, IInv, NEW c \in Clients, NEW n \in Tokens,
         RefreshCommit(c, n)
  PROVE  IInv'
<1> DEFINE t == call[c]
           s == token[t].session
<1> USE DEF IInv
<1>1. /\ t \in Tokens /\ t # n
      /\ IsIssued(t) /\ ~IsIssued(n)
      /\ s \in Sessions
      /\ token[t] \in Token
      /\ call' = [call EXCEPT ![c] = NoToken]
      /\ phase' = [phase EXCEPT ![c] = "idle"]
  BY CommitFacts
<1>2. /\ token' \in [Tokens -> Token]
      /\ token'[n] = NewToken(s, token[t].chain)
      /\ token'[t] = Rotated(token[t], n)
      /\ \A u \in Tokens \ {t, n} : token'[u] = token[u]
  BY CommitRows
<1>3. UNCHANGED <<now, session, revoking, scope>> /\ doomed' = doomed \ {t}
  BY DEF RefreshCommit
<1>4. held' \in [Sessions -> Tokens \cup {NoToken}]
  BY <1>1 DEF RefreshCommit, Answer, TypeOK
<1>5. now \in Nat /\ token[t].chain \in Nat
  BY <1>1 DEF TypeOK, Token
<1>6. /\ NewToken(s, token[t].chain).session = s
      /\ NewToken(s, token[t].chain).chain = token[t].chain
      /\ NewToken(s, token[t].chain).expires <= token[t].chain
      /\ NewToken(s, token[t].chain).next = NoToken
  BY <1>1, <1>5, NewTokenIsBounded
<1>7. /\ token'[t].session = s
      /\ token'[t].chain = token[t].chain
      /\ token'[t].expires = token[t].expires
      /\ token'[t].revoked = TRUE
      /\ token'[t].next = n
  BY <1>1, <1>2 DEF Token, Rotated
<1> HIDE DEF t, s
<1>8. TypeOK'
  BY <1>1, <1>2, <1>3, <1>4 DEF TypeOK
<1>9. /\ IsIssued(n)'
      /\ \A u \in Tokens \ {n} : IsIssued(u)' <=> IsIssued(u)
  BY <1>1, <1>2, <1>6, <1>7 DEF IsIssued, RefreshAssumption, s
<1>10. Calls'
  BY <1>1, <1>9 DEF Calls, TypeOK
<1>11. \A u \in Tokens \ {n} :
          /\ token'[u].session = token[u].session
          /\ token'[u].chain = token[u].chain
          /\ token'[u].expires = token[u].expires
  BY <1>2, <1>7 DEF s
<1>12. session[s].status # "none" /\ token[t].chain = session[s].login + MaxAge
  BY <1>1 DEF Started, ChainIsBounded, s
<1>13. Started'
  BY <1>2, <1>3, <1>6, <1>9, <1>11, <1>12 DEF Started
<1>14. ChainIsBounded'
  BY <1>2, <1>3, <1>6, <1>9, <1>11, <1>12 DEF ChainIsBounded
<1>15. RotationsAreLinked'
  <2> SUFFICES ASSUME NEW u \in Tokens, token'[u].next # NoToken
               PROVE  /\ token'[u].revoked
                      /\ token'[u].next # u
                      /\ IsIssued(token[u].next)' \/ token'[u].next = n
                      /\ token'[u].next = token[u].next \/ token'[u].next = n
                      /\ token'[token'[u].next].session = token'[u].session
    BY <1>9 DEF RotationsAreLinked, IsIssued
  <2>1. u # n
    BY <1>2, <1>6
  <2>2. CASE u = t
    BY <2>2, <1>1, <1>2, <1>6, <1>7
  <2>3. CASE u # t
    <3>1. token'[u] = token[u]
      BY <2>1, <2>3, <1>2
    <3>2. /\ token[u].revoked
          /\ token[u].next # u
          /\ IsIssued(token[u].next)
          /\ token[token[u].next].session = token[u].session
      BY <3>1 DEF RotationsAreLinked
    <3>3. token[u].next \in Tokens \ {n}
      BY <3>1, <3>2, <1>1 DEF TypeOK, Token
    <3> QED
      BY <3>1, <3>2, <3>3, <1>9, <1>11
  <2> QED
    BY <2>2, <2>3
<1> QED
  BY <1>8, <1>10, <1>13, <1>14, <1>15

LEMMA RevokeCommitKeepsIInv ==
  ASSUME RefreshAssumption, IInv, RevokeCommit
  PROVE  IInv'
<1> USE DEF IInv
<1>1. /\ session' = [s \in Sessions |->
           IF s \in scope THEN [session[s] EXCEPT !.status = "revoked"] ELSE session[s]]
      /\ token' = [t \in Tokens |->
           IF t \in doomed THEN [token[t] EXCEPT !.revoked = TRUE] ELSE token[t]]
      /\ revoking' = "idle" /\ scope' = {} /\ doomed' = {}
      /\ UNCHANGED <<now, call, phase, held>>
  BY DEF RevokeCommit, requestVars
<1>2. \A s \in Sessions :
        /\ session'[s] \in Session
        /\ session'[s].login = session[s].login
        /\ session[s].status # "none" => session'[s].status # "none"
  BY <1>1 DEF TypeOK, Session
<1>3. \A t \in Tokens :
        /\ token'[t] \in Token
        /\ token'[t].session = token[t].session
        /\ token'[t].chain = token[t].chain
        /\ token'[t].expires = token[t].expires
        /\ token'[t].next = token[t].next
        /\ token[t].revoked => token'[t].revoked
  <2> SUFFICES ASSUME NEW t \in Tokens
               PROVE  /\ token'[t] \in Token
                      /\ token'[t].session = token[t].session
                      /\ token'[t].chain = token[t].chain
                      /\ token'[t].expires = token[t].expires
                      /\ token'[t].next = token[t].next
                      /\ token[t].revoked => token'[t].revoked
    OBVIOUS
  <2>1. token[t] \in Token
    BY DEF TypeOK
  <2>2. CASE t \in doomed
    <3>1. token'[t] = [token[t] EXCEPT !.revoked = TRUE]
      BY <1>1, <2>2
    <3> QED
      BY <2>1, <3>1 DEF Token
  <2>3. CASE t \notin doomed
    <3>1. token'[t] = token[t]
      BY <1>1, <2>3
    <3> QED
      BY <2>1, <3>1
  <2> QED
    BY <2>2, <2>3
<1>4. TypeOK'
  BY <1>1, <1>2, <1>3 DEF TypeOK
<1>5. \A t \in Tokens : IsIssued(t)' <=> IsIssued(t)
  BY <1>3 DEF IsIssued
<1>6. \A t \in Tokens : IsIssued(t) => token[t].session \in Sessions
  BY DEF TypeOK, Token, IsIssued
<1>7. Calls'
  BY <1>1, <1>5 DEF Calls, TypeOK
<1>8. Started' /\ ChainIsBounded'
  BY <1>2, <1>3, <1>5, <1>6 DEF Started, ChainIsBounded
<1>9. \A t \in Tokens : token[t].next \in Tokens \cup {NoToken}
  BY DEF TypeOK, Token
<1>10. RotationsAreLinked'
  BY <1>3, <1>5, <1>9 DEF RotationsAreLinked
<1> QED
  BY <1>4, <1>7, <1>8, <1>10

LEMMA NextKeepsIInv == ASSUME RefreshAssumption, IInv, [Next]_vars PROVE IInv'
<1> USE DEF requestVars, revokeVars
<1>0. TypeOK /\ Calls
  BY DEF IInv
<1>1. CASE Tick
  <2>1. TypeOK' /\ Calls' /\ UNCHANGED <<session, token>>
    BY <1>0, <1>1 DEF Tick, TypeOK, Calls, IsIssued
  <2> QED
    BY <2>1, ReadersKeepIInv
<1>2. ASSUME NEW s \in Sessions, NEW t \in Tokens, Login(s, t) PROVE IInv'
  BY <1>2, LoginKeepsIInv
<1>3. ASSUME NEW c \in Clients, NEW t \in Tokens, RefreshRead(c, t) PROVE IInv'
  <2>1. TypeOK' /\ Calls' /\ UNCHANGED <<session, token>>
    BY <1>0, <1>3 DEF RefreshRead, TypeOK, Calls, IsIssued, IsLive, RefreshAssumption
  <2> QED
    BY <2>1, ReadersKeepIInv
<1>4. ASSUME NEW c \in Clients, RefreshWrite(c) PROVE IInv'
  <2>1. TypeOK' /\ Calls' /\ UNCHANGED <<session, token>>
    BY <1>0, <1>4 DEF RefreshWrite, TypeOK, Calls, IsIssued
  <2> QED
    BY <2>1, ReadersKeepIInv
<1>5. ASSUME NEW c \in Clients, NEW n \in Tokens, RefreshCommit(c, n) PROVE IInv'
  BY <1>5, CommitKeepsIInv
<1>6. ASSUME NEW c \in Clients, RefreshFails(c) PROVE IInv'
  <2>1. TypeOK' /\ Calls' /\ UNCHANGED <<session, token>>
    BY <1>0, <1>6 DEF RefreshFails, TypeOK, Calls, IsIssued
  <2> QED
    BY <2>1, ReadersKeepIInv
<1>7. ASSUME NEW t \in Tokens, RefreshRepeated(t) PROVE IInv'
  <2>1. TypeOK' /\ Calls' /\ UNCHANGED <<session, token>>
    BY <1>0, <1>7 DEF RefreshRepeated, Answer, TypeOK, Calls, IsIssued
  <2> QED
    BY <2>1, ReadersKeepIInv
<1>8. CASE (\E s \in Sessions : RevokeOne(s)) \/ RevokeAllSelect \/ RevokeAllUpdate
  <2>1. TypeOK' /\ Calls' /\ UNCHANGED <<session, token>>
    BY <1>0, <1>8 DEF RevokeOne, RevokeAllSelect, RevokeAllUpdate, Issued,
                      TypeOK, Calls, IsIssued
  <2> QED
    BY <2>1, ReadersKeepIInv
<1>9. CASE RevokeCommit
  BY <1>9, RevokeCommitKeepsIInv
<1>10. CASE UNCHANGED vars
  <2>1. TypeOK' /\ Calls' /\ UNCHANGED <<session, token>>
    BY <1>0, <1>10 DEF vars, TypeOK, Calls, IsIssued
  <2> QED
    BY <2>1, ReadersKeepIInv
<1> QED
  BY <1>1, <1>2, <1>3, <1>4, <1>5, <1>6, <1>7, <1>8, <1>9, <1>10
  DEF Next, Refresh, Revoke

LEMMA IInvHolds == ASSUME RefreshAssumption PROVE Spec => []IInv
<1>1. Init => IInv
  BY InitIInv
<1>2. IInv /\ [Next]_vars => IInv'
  BY NextKeepsIInv
<1> QED
  BY <1>1, <1>2, PTL DEF Spec

\* Every variable keeps its type.
THEOREM SessionTypes == ASSUME RefreshAssumption PROVE Spec => []TypeOK
<1>1. IInv => TypeOK
  BY DEF IInv
<1> QED
  BY <1>1, IInvHolds, PTL

\* Rotation cannot extend a login: no token outlives the chain of its login
\* (identity/service.py, rotate_refresh_token), for any settings.
THEOREM ChainEnds == ASSUME RefreshAssumption PROVE Spec => []ChainIsBounded
<1>1. IInv => ChainIsBounded
  BY DEF IInv
<1> QED
  BY <1>1, IInvHolds, PTL

\* A rotated token is revoked and points to another token of its session, for
\* any number of requests that rotate it at once.
THEOREM LinksAreSound == ASSUME RefreshAssumption PROVE Spec => []RotationsAreLinked
<1>1. IInv => RotationsAreLinked
  BY DEF IInv
<1> QED
  BY <1>1, IInvHolds, PTL

-----------------------------------------------------------------------------
\* What EndedSessionsRunDry says of one step and one session.
StepRunsDry(s) ==
  /\ Over(s)'
  /\ InFlight(s)' \subseteq InFlight(s)
  /\ Issued(s)' # Issued(s) => InFlight(s)' # InFlight(s)

\* A session that is over stays so: the clock goes forward, and no step but its
\* login changes when it began.
LEMMA OverIsStable ==
  ASSUME TypeOK, TypeOK', RefreshAssumption, NEW s \in Sessions, Over(s), now' >= now,
         \/ session'[s] = session[s]
         \/ session'[s].status = "revoked"
  PROVE  Over(s)'
<1>1. CASE session'[s].status = "revoked"
  BY <1>1 DEF Over
<1>2. CASE session'[s] = session[s]
  <2>1. CASE session[s].status = "revoked"
    BY <1>2, <2>1 DEF Over
  <2>2. CASE /\ session[s].status = "active"
             /\ now >= session[s].login + Minimum(SessionTTL, MaxAge)
    <3>1. session[s].login \in Nat
      BY DEF TypeOK, Session
    <3>2. Minimum(SessionTTL, MaxAge) \in Nat
      BY MinimumIsNat DEF RefreshAssumption
    <3>3. now' >= session'[s].login + Minimum(SessionTTL, MaxAge)
      BY <1>2, <2>2, <3>1, <3>2 DEF TypeOK
    <3> QED
      BY <1>2, <2>2, <3>3 DEF Over, Minimum
  <2> QED
    BY <2>1, <2>2 DEF Over
<1> QED
  BY <1>1, <1>2

\* No token of a session that is over passes the checks of a refresh request.
LEMMA OverIsRefused ==
  ASSUME RefreshAssumption, IInv, NEW s \in Sessions, Over(s), NEW t \in Issued(s),
         SessionIsOpen(t), now < token[t].chain
  PROVE  FALSE
<1>1. t \in Tokens /\ token[t].session = s
  BY DEF Issued
<1>2. IsIssued(t)
  BY <1>1 DEF IsIssued, RefreshAssumption
<1>3. token[t].chain = session[s].login + MaxAge
  BY <1>1, <1>2 DEF IInv, ChainIsBounded
<1>4. /\ session[s].status = "active"
      /\ now < session[s].login + SessionTTL
  BY <1>1 DEF SessionIsOpen
<1>5. now >= session[s].login + Minimum(SessionTTL, MaxAge)
  BY <1>4 DEF Over
<1>6. session[s].login \in Nat /\ now \in Nat
  BY DEF IInv, TypeOK, Session
<1> QED
  BY <1>3, <1>4, <1>5, <1>6 DEF Minimum, RefreshAssumption

\* Steps that issue nothing and let no request begin.
LEMMA QuietStepsRunDry ==
  ASSUME RefreshAssumption, IInv, TypeOK', NEW s \in Sessions, Over(s), now' >= now,
         \/ session'[s] = session[s]
         \/ session'[s].status = "revoked",
         \A t \in Tokens : token'[t].session = token[t].session,
         \A c \in Clients : call'[c] = call[c] \/ call'[c] = NoToken
  PROVE  StepRunsDry(s)
<1>1. Over(s)'
  BY OverIsStable DEF IInv
<1>2. Issued(s)' = Issued(s)
  BY DEF Issued
<1>3. NoToken \notin Issued(s)
  BY DEF Issued, RefreshAssumption
<1>4. InFlight(s)' \subseteq InFlight(s)
  BY <1>2, <1>3 DEF InFlight
<1> QED
  BY <1>1, <1>2, <1>4 DEF StepRunsDry

LEMMA LoginRunsDry ==
  ASSUME RefreshAssumption, IInv, TypeOK', NEW s \in Sessions, Over(s),
         NEW r \in Sessions, NEW t \in Tokens, Login(r, t)
  PROVE  StepRunsDry(s)
<1>1. /\ session[r].status = "none"
      /\ ~IsIssued(t)
      /\ session' = [session EXCEPT ![r] = [status |-> "active", login |-> now]]
      /\ token' = [token EXCEPT ![t] = NewToken(r, now + MaxAge)]
      /\ now' = now /\ call' = call
  BY DEF Login, requestVars
<1>2. r # s
  BY <1>1 DEF Over
<1>3. session'[s] = session[s]
  BY <1>1, <1>2 DEF IInv, TypeOK
<1>4. Over(s)'
  <2>1. now' >= now
    BY <1>1 DEF IInv, TypeOK
  <2> QED
    BY <2>1, <1>3, OverIsStable DEF IInv
<1>5. token'[t].session = r /\ token[t].session # s
  BY <1>1 DEF IInv, TypeOK, NewToken, IsIssued, RefreshAssumption
<1>6. Issued(s)' = Issued(s)
  BY <1>1, <1>2, <1>5 DEF Issued, IInv, TypeOK
<1>7. InFlight(s)' = InFlight(s)
  BY <1>1, <1>6 DEF InFlight
<1> QED
  BY <1>4, <1>6, <1>7 DEF StepRunsDry

LEMMA ReadRunsDry ==
  ASSUME RefreshAssumption, IInv, TypeOK', NEW s \in Sessions, Over(s),
         NEW c \in Clients, NEW t \in Tokens, RefreshRead(c, t)
  PROVE  StepRunsDry(s)
<1>1. /\ phase[c] = "idle"
      /\ SessionIsOpen(t) /\ now < token[t].chain
      /\ call' = [call EXCEPT ![c] = t]
      /\ UNCHANGED <<now, session, token>>
  BY DEF RefreshRead
<1>2. t \notin Issued(s)
  BY <1>1, OverIsRefused
<1>3. Issued(s)' = Issued(s)
  BY <1>1 DEF Issued
<1>4. c \notin InFlight(s)'
  BY <1>1, <1>2, <1>3 DEF InFlight, IInv, TypeOK
<1>5. \A d \in Clients \ {c} : call'[d] = call[d]
  BY <1>1 DEF IInv, TypeOK
<1>6. InFlight(s)' \subseteq InFlight(s)
  BY <1>3, <1>4, <1>5 DEF InFlight
<1>7. Over(s)'
  <2>1. now' >= now
    BY <1>1 DEF IInv, TypeOK
  <2> QED
    BY <2>1, <1>1, OverIsStable DEF IInv
<1> QED
  BY <1>3, <1>6, <1>7 DEF StepRunsDry

LEMMA CommitRunsDry ==
  ASSUME RefreshAssumption, IInv, TypeOK', NEW s \in Sessions, Over(s),
         NEW c \in Clients, NEW n \in Tokens, RefreshCommit(c, n)
  PROVE  StepRunsDry(s)
<1> DEFINE t == call[c]
<1>1. /\ t \in Tokens /\ t # n
      /\ ~IsIssued(n)
      /\ token[t] \in Token
      /\ token[t].session \in Sessions
      /\ call' = [call EXCEPT ![c] = NoToken]
  BY CommitFacts
<1>2. /\ token'[n] = NewToken(token[t].session, token[t].chain)
      /\ token'[t] = Rotated(token[t], n)
      /\ \A u \in Tokens \ {t, n} : token'[u] = token[u]
  BY CommitRows
<1>3. UNCHANGED <<now, session>>
  BY DEF RefreshCommit
<1>4. Over(s)'
  <2>1. now' >= now
    BY <1>3 DEF IInv, TypeOK
  <2> QED
    BY <2>1, <1>3, OverIsStable DEF IInv
<1>5. /\ \A u \in Tokens \ {n} : token'[u].session = token[u].session
      /\ token'[n].session = token[t].session
  BY <1>1, <1>2 DEF Rotated, NewToken
<1>6. /\ call'[c] = NoToken
      /\ \A d \in Clients \ {c} : call'[d] = call[d]
  BY <1>1 DEF IInv, TypeOK
<1>7. \A d \in Clients : call[d] # n
  BY <1>1 DEF IInv, Calls, RefreshAssumption
<1>8. NoToken \notin Issued(s)'
  BY DEF Issued, RefreshAssumption
<1>9. \A u \in Tokens \ {n} : u \in Issued(s)' <=> u \in Issued(s)
  BY <1>5 DEF Issued
<1>10. Issued(s)' \subseteq Tokens
  BY DEF Issued
<1>11. InFlight(s)' \subseteq InFlight(s)
  BY <1>6, <1>7, <1>8, <1>9, <1>10 DEF InFlight
<1>12. ASSUME Issued(s)' # Issued(s) PROVE InFlight(s)' # InFlight(s)
  <2>1. n \notin Issued(s)
    BY <1>1 DEF Issued, IsIssued, RefreshAssumption
  <2>2. n \in Issued(s)'
    <3>1. Issued(s) \subseteq Tokens
      BY DEF Issued
    <3> QED
      BY <3>1, <2>1, <1>9, <1>10, <1>12
  <2>3. token[t].session = s
    BY <2>2, <1>5 DEF Issued
  <2>4. c \in InFlight(s)
    BY <2>3, <1>1 DEF InFlight, Issued
  <2>5. c \notin InFlight(s)'
    BY <1>6, <1>8 DEF InFlight
  <2> QED
    BY <2>4, <2>5
<1> QED
  BY <1>4, <1>11, <1>12 DEF StepRunsDry

LEMMA RevokeRunsDry ==
  ASSUME RefreshAssumption, IInv, TypeOK', NEW s \in Sessions, Over(s), RevokeCommit
  PROVE  StepRunsDry(s)
<1>1. /\ session'[s] = IF s \in scope THEN [session[s] EXCEPT !.status = "revoked"]
                                      ELSE session[s]
      /\ \A t \in Tokens :
           token'[t] = IF t \in doomed THEN [token[t] EXCEPT !.revoked = TRUE]
                                       ELSE token[t]
      /\ now' = now /\ call' = call
  BY DEF RevokeCommit, requestVars
<1>2. session'[s] = session[s] \/ session'[s].status = "revoked"
  BY <1>1 DEF IInv, TypeOK, Session
<1>3. \A t \in Tokens : token'[t].session = token[t].session
  BY <1>1 DEF IInv, TypeOK, Token
<1>4. now' >= now
  BY <1>1 DEF IInv, TypeOK
<1> QED
  BY <1>1, <1>2, <1>3, <1>4, QuietStepsRunDry

LEMMA NextRunsDry ==
  ASSUME RefreshAssumption, IInv, TypeOK', [Next]_vars, NEW s \in Sessions, Over(s)
  PROVE  StepRunsDry(s)
<1> USE DEF requestVars, revokeVars
<1>0. TypeOK
  BY DEF IInv
<1>1. CASE Tick
  BY <1>0, <1>1, QuietStepsRunDry DEF Tick, TypeOK
<1>2. ASSUME NEW r \in Sessions, NEW t \in Tokens, Login(r, t) PROVE StepRunsDry(s)
  BY <1>2, LoginRunsDry
<1>3. ASSUME NEW c \in Clients, NEW t \in Tokens, RefreshRead(c, t)
      PROVE  StepRunsDry(s)
  BY <1>3, ReadRunsDry
<1>4. ASSUME NEW c \in Clients, NEW n \in Tokens, RefreshCommit(c, n)
      PROVE  StepRunsDry(s)
  BY <1>4, CommitRunsDry
<1>5. ASSUME NEW c \in Clients, RefreshWrite(c) \/ RefreshFails(c)
      PROVE  StepRunsDry(s)
  BY <1>0, <1>5, QuietStepsRunDry DEF RefreshWrite, RefreshFails, TypeOK
<1>6. CASE \/ \E t \in Tokens : RefreshRepeated(t)
           \/ \E r \in Sessions : RevokeOne(r)
           \/ RevokeAllSelect
           \/ RevokeAllUpdate
           \/ UNCHANGED vars
  BY <1>0, <1>6, QuietStepsRunDry
  DEF RefreshRepeated, RevokeOne, RevokeAllSelect, RevokeAllUpdate, vars, TypeOK
<1>7. CASE RevokeCommit
  BY <1>7, RevokeRunsDry
<1> QED
  BY <1>1, <1>2, <1>3, <1>4, <1>5, <1>6, <1>7 DEF Next, Refresh, Revoke

\* A session that was revoked, or has reached its end, runs dry: only the refresh
\* requests that had read one of its tokens before bring another one, once each,
\* for any number of requests and revocations that overlap.
THEOREM SessionsRunDry == ASSUME RefreshAssumption PROVE Spec => EndedSessionsRunDry
<1> DEFINE Step == \A s \in Sessions : Over(s) => StepRunsDry(s)
<1>1. IInv /\ IInv' /\ [Next]_vars => [Step]_vars
  BY NextRunsDry DEF IInv
<1>2. Spec => [][Step]_vars
  <2> HIDE DEF Step
  <2> QED
    BY <1>1, IInvHolds, PTL DEF Spec
<1> QED
  BY <1>2 DEF EndedSessionsRunDry, StepRunsDry

=============================================================================
