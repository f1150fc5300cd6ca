SPECIFICATION Spec
CONSTANTS
  None = None
  short = short
  long = long
  seats = seats
  beds = beds
  Itinerary <- TwoRoutes
  How = {"auto", "night"}
  AtRest = "auto"
  Composition = {seats, beds}
  Default = seats
  Broken <- BedsUnroutable
  HasCandidates <- OnlyLong
  Openings = {"builder", "own", "other"}
  Hurries = {TRUE, FALSE}
  Failing = {"build", "views", "load", "publish", "answer"}
  MaxTurns = 3
INVARIANTS
  FamilyIsTheAskedOne
  ViewsFitTheMember
  StrangersWorkStands
  OneProposalPerSession
  SavedTellsTheStore
CHECK_DEADLOCK FALSE
