SPECIFICATION FairSpec
CONSTANTS
  a1 = a1  a2 = a2  f1 = f1  f2 = f2  n1 = n1  n2 = n2
  Agent <- TwoAgents
  File <- TwoFiles
  Name <- TwoNames
  FileOf <- OfFirstFile
  Guarded <- FirstName
  MaxCommits = 3
  MaxRetryAttempts = 1
INVARIANTS
  TypeOK
  EndedIsAccounted
  TouchesOnlyProposal
PROPERTIES
  RefinesContract
  RunsEnd
CHECK_DEADLOCK FALSE
