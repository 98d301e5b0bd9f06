SPECIFICATION Spec
CONSTANTS
  t1 = t1  t2 = t2  t3 = t3  w1 = w1  w2 = w2
  Platform = "github"
  MaxCommits = 4
  Workflow <- OneWorkflow
  MaxRunAttempts = 1
  MaxRetryAttempts = 3
  TableMaxAttempts = 2
  Task <- ThreeTasks
  MaxHumanPushes = 1
  MaxDeliveries = 1
  MaxCrashes = 0
  Results <- Conclusions
  SendRunning = TRUE
  ResolveMayFail = FALSE
  BotSends <- OnlyBot
  PushMayBeLost = TRUE
  AutoFixReruns = FALSE
SYMMETRY TaskSymmetry
INVARIANTS
  TypeOK
  OneAgentPerSession
  AttemptsCountPushes
  ExhaustedHasFailed
  OneTaskPerRun
PROPERTY RefinesRetrySession
CHECK_DEADLOCK FALSE
