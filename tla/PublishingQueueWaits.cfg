\* Two workers, two jobs of one workspace: waits for rows of the other worker.
CONSTANTS
  ws1 = ws1
  Jobs = {j1, j2}
  Workers = {w1, w2}
  Workspaces = {ws1}
  WorkspaceOf <- OneWorkspace
  NoWorker = NoWorker
  NoJob = NoJob
  MaxAttempts = 1
  ClaimLimit = 2
  WorkspaceLimit = 1
  LostReplies = FALSE
  MaxCrashes = 0
  MaxPosts = 1
SPECIFICATION FairSpec
PROPERTY PollsEnd
