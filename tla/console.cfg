SPECIFICATION ConsoleSpec
CONSTANTS
  c1 = c1
  Key <- Keys
  Text <- Texts
  Number <- Numbers
  Numeric <- Numerics
  Default <- Defaults
  Spaced <- WithSpace
  Cut <- Uncommented
  Prompted <- Asked
  Suggested <- NoSuggestions
  Example <- ExampleFile
  Answers <- WizardAnswers
  Updates <- Forms
  MaxSaves = 2
  MaxStarts = 3
  Scope <- Scopes
  Token <- Tokens
  NoToken = ""
  Caller <- OneCaller
  TTL = 1
  MaxTime = 2
INVARIANTS
  ConsoleTypeOK
  SavedSurvivesRestart
  RestartChangesNothing
  StartsAgain
  NotTooOld
  ScopeIsHonest
CHECK_DEADLOCK FALSE
