SPECIFICATION FairSpec
CONSTANTS
  Booters = {b1, b2}
  A = A
  B = B
  s1 = s1
  s2 = s2
  s3 = s3
  NoStop = NoStop
  OntdStops <- MCOntdStops
  Catalogs <- MCCatalogs
  Match <- MCMatch
  Entries = {e1}
  Editions <- MCEditions
  MaxDisturbances = 2
INVARIANTS
  SummariesFollowTimetable
PROPERTIES
  HandWorkStays
  RestartsCostNothing
  RepairedInTheEnd
