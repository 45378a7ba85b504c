SPECIFICATION FairSpec
CONSTANTS
  NoOrder = NoOrder
  NoCursor = NoCursor
  h1 = h1
  h2 = h2
  c1 = c1
  c2 = c2
  Hashes <- MCOneHash
  Cursors <- MCCursors
  RestReports <- FewReports
  WalletEvents <- FewEvents
  MaximumReconciliationPages = 2
  Faults = {"append"}
  MaxImages = 2
  Fates <- AllFates
  MaxInbox = 1
PROPERTIES ReconcileFinishes SubmitFinishes
