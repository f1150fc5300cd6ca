SPECIFICATION Spec
CONSTANTS
  w1 = w1
  w2 = w2
  main = main
  other = other
  b1 = b1
  b2 = b2
  s1 = s1
  s2 = s2
  v1 = v1
  v2 = v2
  c1 = c1
  c2 = c2
  tracks = tracks
  trainsets = trainsets
  tunnel = tunnel
  bridge = bridge
  Nothing = Nothing
  NoRow = NoRow
  NoDate = NoDate
  Main = main
  Worker = {w1}
  Thread = {w1, main}
  Router = {w1, main}
  Borrower = {w1, main}
  Booter = {b1, b2}
  Scenario = {s1, s2}
  Composition = {c1}
  Configured = {s2}
  Catalogues <- MCNoCatalogues
  LegVariant <- MCLegVariant
  StopList <- MCLongStopList
  Stop = {1, 2, 3}
  PassagesOn <- MCPassages
  Members <- MCOneMember
  Presented <- MCThatMember
  Key <- MCLongKey
  Value <- MCValue
  MinConn = 1
  MaxConn = 1
  MaxImport = 2
  MaxFailures = 0
INVARIANTS
  LegsFollowTheTrip
  OldRowsCameLate
SYMMETRY MCStarters
CONSTRAINT MCFirstTrip
