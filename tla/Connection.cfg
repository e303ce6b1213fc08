\* Two requests at once, two tenants, three round trips, three tokens.  A
\* behaviour stops when the round trips are used up.
CONSTANTS
  Requests = {r1, r2}
  Workspaces = {wa, wb}
  Attempts = {s1, s2, s3}
  NoWorkspace = NoWorkspace
  NoAttempt = NoAttempt
  MaxTokens = 3
SPECIFICATION Spec
SYMMETRY Symmetry
CHECK_DEADLOCK FALSE
INVARIANTS
  TypeOK
  OneCredential
  TokensOfOneTenant
  StatusTellsCredential
  
PROPERTY ImplementsCredential
