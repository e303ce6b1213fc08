\* One worker and one job, with cancel requests.
CONSTANTS
  ws1 = ws1
  Jobs = {j1}
  Workers = {w1}
  Workspaces = {ws1}
  WorkspaceOf <- OneWorkspace
  NoWorker = NoWorker
  NoJob = NoJob
  MaxAttempts = 1
  ClaimLimit = 2
  WorkspaceLimit = 1
  LostReplies = FALSE
  MaxCrashes = 0
  MaxPosts = 2
SPECIFICATION Spec
PROPERTY CancelledOnlyWhileQueued
