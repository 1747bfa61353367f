SPECIFICATION FairSpec
CONSTANTS
  Zone <- MCZone
  MaxHops = 2
  MaxQueries = 2
  NoQuery = NoQuery
  RequestMs = 2
  Length = 2
  NoCall = NoCall
  Releases <- MCReleases
  Candidates <- MCCandidates
  Authentic <- MCAuthentic
  Floor = 0
  PageItems = 2
  MaxPages = 2
  NoScan = NoScan
  DiscoveryMs = 3
  Files = {f1, f2}
  Theirs = {f1}
  Absent = Absent
INVARIANTS
  CompleteScan
  NothingLeft
PROPERTIES
  WholeAndInTime
  CallsEnd
