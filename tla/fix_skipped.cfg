SPECIFICATION Spec
CONSTANTS
  t1 = t1  t2 = t2  t3 = t3  w1 = w1  w2 = w2
  Platform = "github"
  MaxCommits = 2
  Workflow <- OneWorkflow
  MaxRunAttempts = 1
  MaxRetryAttempts = 3
  TableMaxAttempts = 3
  Task <- TwoTasks
  MaxHumanPushes = 1
  MaxDeliveries = 1
  MaxCrashes = 0
  Results <- Conclusions
  SendRunning = FALSE
  ResolveMayFail = FALSE
  BotSends <- OnlyBot
  PushMayBeLost = FALSE
  AutoFixReruns = TRUE
SYMMETRY TaskSymmetry
INVARIANT SkippedIsForeign
CHECK_DEADLOCK FALSE
