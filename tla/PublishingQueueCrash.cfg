\* One worker, which may die, and one job.
CONSTANTS
  ws1 = ws1
  Jobs = {j1}
  Workers = {w1}
  Workspaces = {ws1}
  WorkspaceOf <- OneWorkspace
  NoWorker = NoWorker
  NoJob = NoJob
  MaxAttempts = 1
  ClaimLimit = 2
  WorkspaceLimit = 1
  LostReplies = FALSE
  MaxCrashes = 1
  MaxPosts = 2
SPECIFICATION Spec
INVARIANT PostedOnce
