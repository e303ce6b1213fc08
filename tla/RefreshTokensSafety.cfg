\* Two logins, three tokens, two overlapping refresh requests.  The chain ends
\* before the session does, so that both ends are reached.
SPECIFICATION Spec
CONSTANTS
  Sessions = {s1, s2}
  Tokens = {t1, t2, t3}
  Clients = {c1, c2}
  NoSession = NoSession
  NoToken = NoToken
  TTL = 1
  SessionTTL = 3
  MaxAge = 2
  Grace = 1
  Horizon = 3
SYMMETRY Symmetry
INVARIANTS
  TypeOK
  ChainIsBounded
  RotationsAreLinked
PROPERTIES
  EndedSessionsRunDry
