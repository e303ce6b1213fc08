\* Two workers, two jobs of one workspace.
CONSTANTS
  ws1 = ws1
  Jobs = {j1, j2}
  Workers = {w1, w2}
  Workspaces = {ws1}
  WorkspaceOf <- OneWorkspace
  NoWorker = NoWorker
  NoJob = NoJob
  MaxAttempts = 2
  ClaimLimit = 2
  WorkspaceLimit = 1
  LostReplies = TRUE
  MaxCrashes = 1
  MaxPosts = 3
SPECIFICATION Spec
SYMMETRY Symmetry
INVARIANTS
  TypeOK
  SingleExecution
  HonestRecord
  AttemptBudget
PROPERTIES
  OutcomesAreFinal
  ImplementsLedger
