\* Two people, one of them with a workspace of their own besides, two addresses,
\* two requests at once.  A behaviour stops when nobody may do anything.
CONSTANTS
  Users = {u1, u2}
  Superusers = {}
  Elsewhere = {u2}
  Requests = {r1, r2}
  Addresses = {a1, a2}
  Offered = {"OWNER", "VIEWER"}
  Nobody = Nobody
SPECIFICATION Spec
SYMMETRY Symmetry
CHECK_DEADLOCK FALSE
INVARIANTS
  TypeOK
  OwnerHoldsWorkspace
  OwnerIsKnown
PROPERTIES
  JoinsByInvitation
  OwnershipIsGiven
