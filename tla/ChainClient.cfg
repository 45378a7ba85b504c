SPECIFICATION FairSpec
CONSTANTS
  Calls = {1, 2}
  Menu <- MCMenu
  Patience = 2
  Networks = {"testnet", "mainnet", "other"}
  MaxForeign = 1
INVARIANTS OutcomeIsTheChains HashIsKept SentOnce SentToExpectedChain
PROPERTIES Completes
CHECK_DEADLOCK FALSE
