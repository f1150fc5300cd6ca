\* Every pair of a small line, and the service each of them is turned into.
SPECIFICATION Spec
CONSTANTS
  Stop <- MCStop
  Composition <- MCComposition
  Track <- MCTrack
  NightStart = 24
  NightEnd = 30
  Mirror = 27
  Day = 24
  Line <- MCLine
  LegTimes = {0, 1, 3, 8}
  Detours = {0, 3}
  Intervals <- MCIntervals
  AddonSets <- MCAddonSets
  Departures <- MCDepartures
  ReturnBlocks <- MCReturnBlocks
  Turnarounds = {3, 9}
  DaysPerWeek = {1, 3, 5, 7}
  Horizon = 12
CHECK_DEADLOCK FALSE
INVARIANTS
  NightWindowHeld
  SlackIsFair
  TypesFollowTheClock
  PairStaysCentred
  FleetFits
PROPERTIES
  LayoverIsTheWait
