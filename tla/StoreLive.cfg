\* The refresh batch, the backfill and the corridor task under fairness, beside
\* a publish: a deployment, a base move, failures and restarts, and a proposal
\* stored without scenario rows.
SPECIFICATION FairSpec
CONSTANTS
  Users = {u1}
  Guests = {}
  Names = {n1}
  Requests = {r1, r2}
  r1 = r1
  r2 = r2
  Bases = {1, 2}
  WhatIfs = {9}
  Releases <- TwoBuilds
  Unroutable <- BaseRouteOnly
  None = None
  MaxPid = 1
  MaxEdits = 1
  MaxVersion = 2
  Handlers = {h1}
  Scripts = {s1}
  Workload = {"publish", "refresh", "backfill", "rebuild", "failures", "restarts"}
  Legacy = 1
CHECK_DEADLOCK FALSE
INVARIANTS
  GalleryNeverWrong
PROPERTIES
  EventuallyCurrent
  EventuallyCovered
