\* One worker, two jobs of one workspace, a crash.
CONSTANTS
  ws1 = ws1
  Jobs = {j1, j2}
  Workers = {w1}
  Workspaces = {ws1}
  WorkspaceOf <- OneWorkspace
  NoWorker = NoWorker
  NoJob = NoJob
  MaxAttempts = 2
  ClaimLimit = 2
  WorkspaceLimit = 1
  LostReplies = FALSE
  MaxCrashes = 1
  MaxPosts = 2
SPECIFICATION FairSpec
PROPERTY ApprovedJobsAreTakenUp
