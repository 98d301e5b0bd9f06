SPECIFICATION Spec
CONSTANTS
  t1 = t1  t2 = t2  t3 = t3  w1 = w1  w2 = w2
  Platform = "github"
  MaxCommits = 3
  Workflow <- TwoWorkflows
  MaxRunAttempts = 1
  MaxRetryAttempts = 1
  TableMaxAttempts = 1
  Task <- TwoTasks
  MaxHumanPushes = 1
  MaxDeliveries = 1
  MaxCrashes = 0
  Results <- Failures
  SendRunning = FALSE
  ResolveMayFail = FALSE
  BotSends <- OnlyBot
  PushMayBeLost = FALSE
  AutoFixReruns = TRUE
SYMMETRY TaskSymmetry
INVARIANT HardLimit
CHECK_DEADLOCK FALSE
