SPECIFICATION Spec
CONSTANTS
  Machines = {"codex", "sealed codex", "codex files", "oauth", "antigravity", "copilot", "claude requests", "muse", "claude cli"}
  People = {"a", "b"}
  Ides = {"antigravity", "antigravity-ide"}
  Orgs = {"o1", "o2"}
  Cursors = {"c1", "c2", "c3"}
  NoAction = NoAction
  Interval = 2
  MaxAge = 3
  GrantsInterval = 3
  Buffer = 1
  TokenLife = 3
  Ages = {1, 3}
  RetryAfters = {3}
  AdminPages = 3
  BudgetPages = 2
  CodexTokens = 3
  OtherTokens = 2
  AntigravityTokens = 1
  CopilotTokens = 2
  CopilotTold = 2
  ClaudeTokens = 2
  ClaudeTime = 4
  MaxLogins = 2
  MaxOrgs = 3
  MaxDeploys = 3
  MaxSignOuts = 2
CHECK_DEADLOCK FALSE
INVARIANT ShownIsItsOwn
PROPERTIES LoginsAreKept ServicesAreSpared AnswersAreTold ProbesEnd
