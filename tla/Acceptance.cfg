SPECIFICATION ToolSpec
CONSTANTS
  Calls = {1, 2}
  Menu <- MCMenu
  Patience = 2
  Networks = {"testnet", "mainnet"}
  MaxForeign = 1
  Planned <- MCPlanned
  TokenReads = 2
  Approved = {{}, {"adapter"}, {"exchange", "adapter"}}
INVARIANTS ToolTypeOK WritesAreAuthorized OutcomeIsAuditable SuccessIsReal
CHECK_DEADLOCK FALSE
