\* Loads that refresh, the refresh batch, an overwrite and a deployment.
SPECIFICATION Spec
CONSTANTS
  Users = {u1}
  Guests = {}
  Names = {n1}
  Requests = {r1, r2}
  r1 = r1
  r2 = r2
  Bases = {1, 2}
  WhatIfs = {}
  Releases <- TwoBuilds
  Unroutable <- NoNewBaseRoute
  None = None
  MaxPid = 1
  MaxEdits = 2
  MaxVersion = 3
  Handlers = {h1}
  Scripts = {s1}
  Workload = {"publish", "branch", "load", "refresh", "restarts"}
  Legacy = 1
INVARIANTS
  TablesAgree
  BaseRowIsTheProposal
  PageIsOneState
