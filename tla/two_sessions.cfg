SPECIFICATION Spec
CONSTANTS
  t1 = t1  t2 = t2  t3 = t3  w1 = w1  w2 = w2
  Platform = "github"
  MaxCommits = 3
  Workflow <- OneWorkflow
  MaxRunAttempts = 1
  MaxRetryAttempts = 2
  TableMaxAttempts = 2
  Task <- TwoTasks
  MaxHumanPushes = 2
  MaxDeliveries = 1
  MaxCrashes = 1
  Results <- AllConclusions
  SendRunning = FALSE
  ResolveMayFail = FALSE
  BotSends <- AnyAuthor
  PushMayBeLost = TRUE
  AutoFixReruns = TRUE
SYMMETRY TaskSymmetry
INVARIANTS
  Lineage
  SessionIsHuman
PROPERTY RefinesRetrySession
CHECK_DEADLOCK FALSE
