SPECIFICATION Spec
CONSTANTS
  NoOrder = NoOrder
  NoCursor = NoCursor
  h1 = h1
  h2 = h2
  c1 = c1
  c2 = c2
  Hashes <- MCOneHash
  Cursors = {c1}
  RestReports <- AllReports
  WalletEvents <- AllEvents
  MaximumReconciliationPages = 2
  Faults = {"append", "torn_header"}
  MaxImages = 2
  Fates <- AllFates
  MaxInbox = 1
INVARIANTS QuarantineFitsState AtMostOnePost TerminalIsTrue
