CONSTANTS
  d1 = d1
  d2 = d2
  p1 = p1
  p2 = p2
  NoProc = NoProc
  Tombstone = Tombstone
  Digest <- MCDigest
  Proc <- MCProc
  Kind <- MCKind
  Enumerated <- MCEnumerated
  Stores <- MCStores
  Length = 2
  MaxRequests = 2
  MaxCrashes = 1
  MaxCleans = 1
SPECIFICATION Spec
CHECK_DEADLOCK FALSE
INVARIANT ReadsAreWhole
INVARIANT ReferencesResolve
PROPERTY EverythingEnds
INVARIANT RowsMatchObjects
