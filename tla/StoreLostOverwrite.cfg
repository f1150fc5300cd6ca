\* A refresh computes while the owner overwrites.
SPECIFICATION Spec
CONSTANTS
  Users = {u1}
  Guests = {}
  Names = {n1}
  Requests = {r1, r2}
  r1 = r1
  r2 = r2
  Bases = {1, 2}
  WhatIfs = {}
  Releases <- OneBuild
  Unroutable <- AllRoutable
  None = None
  MaxPid = 1
  MaxEdits = 1
  MaxVersion = 3
  Handlers = {h1}
  Scripts = {s1}
  Workload = {"publish", "refresh"}
  Legacy = 1
CHECK_DEADLOCK FALSE
PROPERTIES
  RefreshKeepsRequest
