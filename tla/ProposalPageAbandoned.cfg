SPECIFICATION Spec
CONSTANTS
  None = None
  short = short
  long = long
  seats = seats
  beds = beds
  Itinerary <- TwoRoutes
  How = {"auto", "night"}
  AtRest = "auto"
  Composition = {seats, beds}
  Default = seats
  Broken <- BedsUnroutable
  HasCandidates <- OnlyLong
  Openings = {"own"}
  Hurries = {FALSE}
  Failing = {}
  MaxTurns = 3
INVARIANTS
  OnlyTheCompositionIsSaved
CHECK_DEADLOCK FALSE
