SPECIFICATION FairSpec
CONSTANTS
  Agents = {a1}
  Readers = {r1}
  Docs <- MCDocs
  NoDoc = NoDoc
  MaxFetches = 1
  MaxRequests = 3
  MaxTime = 1
PROPERTIES
  RevocationHolds
  NoRollback
  RefreshesAndCloseEnd
