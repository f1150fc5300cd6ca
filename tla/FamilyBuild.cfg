SPECIFICATION FairSpec
CONSTANTS
  w1 = w1
  w2 = w2
  main = main
  other = other
  b1 = b1
  b2 = b2
  s1 = s1
  s2 = s2
  v1 = v1
  v2 = v2
  c1 = c1
  c2 = c2
  tracks = tracks
  trainsets = trainsets
  tunnel = tunnel
  bridge = bridge
  Nothing = Nothing
  NoRow = NoRow
  NoDate = NoDate
  Main = main
  Worker = {w1, w2}
  Thread = {w1, w2, main}
  Router = {w1, w2, main}
  Borrower = {w1, w2, main, other}
  Booter = {}
  Scenario = {s1}
  Composition = {c1, c2}
  Configured = {s1}
  Catalogues <- MCCatalogues
  LegVariant <- MCTwoLegVariants
  StopList <- MCStopList
  Stop = {1, 2}
  PassagesOn <- MCPassages
  Members <- MCMembers
  Presented <- MCPresented
  Key <- MCTwoKeys
  Value <- MCValue
  MinConn = 1
  MaxConn = 1
  MaxImport = 1
  MaxFailures = 1
INVARIANTS
  PoolIsSound
  MemoIsSound
  LoopRunsFromMemo
  FirstBuildIsTheCachedOne
PROPERTIES
  BuildEnds
