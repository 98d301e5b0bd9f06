SPECIFICATION FairSpec
CONSTANTS
  t1 = t1  t2 = t2  t3 = t3  w1 = w1  w2 = w2
  Platform = "github"
  MaxCommits = 2
  Workflow <- TwoWorkflows
  MaxRunAttempts = 1
  MaxRetryAttempts = 2
  TableMaxAttempts = 3
  Task <- TwoTasks
  MaxHumanPushes = 1
  MaxDeliveries = 1
  MaxCrashes = 0
  Results <- Conclusions
  SendRunning = FALSE
  ResolveMayFail = FALSE
  BotSends <- OnlyBot
  PushMayBeLost = TRUE
  AutoFixReruns = TRUE
INVARIANTS
  GreenBuild
  WorkingHasWorker
PROPERTY WorkEnds
CHECK_DEADLOCK FALSE
