\* An account and a guest publish and overwrite in two request threads; work
\* fails at any point and the guest is merged while its work is in flight.
SPECIFICATION Spec
CONSTANTS
  Users = {u1, g1}
  Guests = {g1}
  Names = {n1, n2}
  Requests = {r1, r2}
  r1 = r1
  r2 = r2
  Bases = {1}
  WhatIfs = {}
  Releases <- OneBuild
  Unroutable <- AllRoutable
  None = None
  MaxPid = 2
  MaxEdits = 2
  MaxVersion = 3
  Handlers = {h1, h2}
  Scripts = {}
  Workload = {"publish", "merge", "failures"}
  Legacy = 1
SYMMETRY Interchangeable
CHECK_DEADLOCK FALSE
INVARIANTS
  TimelineComplete
  CardOwnerKnown
PROPERTIES
  ArtifactImplemented
