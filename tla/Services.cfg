\* Two workers publish for one account, two instants an hour and two hours a
\* day; two AI requests; a rate limit of three in two seconds; two deliveries
\* at once, three in all; contents around the limits.  A behaviour stops when
\* time, posts or deliveries are used up, or the content is published.
CONSTANTS
  Pollers = {w1, w2}
  Batch = 2
  Guard = 2
  Hour = 2
  DayHours = 2
  LastInstant = 5
  MaxPosts = 5
  Generators = {g1, g2}
  Budget = 3
  MaxCost = 2
  LastMonth = 1
  MaxStored = 8
  Limit = 3
  Second = 2
  WindowSecs = 2
  LastTick = 14
  MaxHits = 6
  Handlers = {h1, h2}
  Items <- WebhookItems
  Bodies <- WebhookBodies
  TenantOf <- Tenants
  NoTenant = NoTenant
  NoId = NoId
  MaxDeliveries = 3
  Lengths = {1, 2, 10, 11}
  Sizes = {8, 100, 101}
  Durations = {60, 901}
  ImageLimit = 8
  VideoLimit = 300
  MaxPolls = 3
SPECIFICATION Spec
SYMMETRY Symmetry
CHECK_DEADLOCK FALSE
INVARIANTS
  TypeOK
  QuotaOvershootIsBounded
  SerialCountsAreExact
  SpendingIsBounded
  UsageMatchesHistory
  AdmissionsAreBounded
  RefusalsEnd
  DeliveriesAreStored
  AcceptsWhatIsDocumented
  VideosAreReady
PROPERTY ImplementsInbox
