SPECIFICATION Spec
CONSTANTS
  Machines = {"cursor", "claude", "oauth owner", "oauth shared", "antigravity renewals", "claude readings", "devin", "token plans", "opencode", "billing", "plans", "accounts", "bundled"}
  MaxList = 2
  MaxText = 4
  Interval = 2
  MaxAge = 2
  GrantsInterval = 3
  Buffer = 1
  TokenLife = 3
  RetryAfters = {1}
  ClaudeTime = 4
  MaxLogins = 2
  MaxTokens = 2
  OwnerTokens = 3
CHECK_DEADLOCK FALSE
INVARIANT AnswersAreTold
PROPERTIES ShownIsItsOwn ServicesAreSpared
