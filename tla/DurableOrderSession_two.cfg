SPECIFICATION Spec
CONSTANTS
  NoOrder = NoOrder
  NoCursor = NoCursor
  h1 = h1
  h2 = h2
  c1 = c1
  c2 = c2
  Hashes <- MCHashes
  Cursors = {c1}
  RestReports <- OpenReports
  WalletEvents <- FewEvents
  MaximumReconciliationPages = 1
  Faults = {"append"}
  MaxImages = 2
  Fates = {}
  MaxInbox = 0
INVARIANTS PublishedIsDurable
PROPERTIES SubmitsOnce RecoveryIsFaithful
SYMMETRY Symmetry
