\* One login whose device repeats a refresh after its answer was lost.
SPECIFICATION Spec
CONSTANTS
  Sessions = {s1}
  Tokens = {t1, t2}
  Clients = {c1}
  NoSession = NoSession
  NoToken = NoToken
  TTL = 2
  SessionTTL = 3
  MaxAge = 3
  Grace = 1
  Horizon = 2
INVARIANT DevicesStaySignedIn
