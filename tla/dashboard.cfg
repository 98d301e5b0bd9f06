SPECIFICATION DashboardSpec
CONSTANTS
  t1 = t1  t2 = t2  w1 = w1  w2 = w2
  Platform = "forgejo"
  MaxCommits = 2
  Workflow <- OneWorkflow
  MaxRunAttempts = 1
  MaxRetryAttempts = 3
  TableMaxAttempts = 3
  Task <- TwoTasks
  MaxHumanPushes = 1
  MaxDeliveries = 2
  MaxCrashes = 1
  MaxVisits = 2
  Results <- AllConclusions
  SendRunning = FALSE
  ResolveMayFail = FALSE
  BotSends <- OnlyBot
  PushMayBeLost = FALSE
  AutoFixReruns = FALSE
SYMMETRY TaskSymmetry
INVARIANTS
  DashboardTypeOK
  WorkingHasWorker
  SuccessIsTrue
  OneRowLifecycle
  PassedSessionIsGreen
CHECK_DEADLOCK FALSE
