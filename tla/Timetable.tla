----------------------------- MODULE Timetable -----------------------------
(***************************************************************************)
(* The timetable of one trip, as models/route/timetable.py computes it:    *)
(* the two automatic strategies, the caller's overrides on top of them,    *)
(* and the final clock times.  A trip runs over stops 1..n of its own      *)
(* travel order; leg i joins stops i and i + 1.  Times are whole units on  *)
(* the clock of the trip's departure day, so 00:00 of the next day is      *)
(* NightStart.                                                             *)
(***************************************************************************)
EXTENDS Integers, Sequences, FiniteSets, Functions

CONSTANTS
  Stop,         \* stop ids
  Composition,  \* [boarding, alighting]: the least dwell the train needs
  Track,        \* per stop: the least dwell of the country's infrastructure
  NightStart, NightEnd, Mirror

\* The night window surrounds the minute every automatic trip is centred on.
ASSUME NightAssumption ==
  /\ NightStart \in Int /\ NightEnd \in Int /\ Mirror \in Int
  /\ NightStart < NightEnd
  /\ 2 * Mirror = NightStart + NightEnd

\* The dwell columns of both are minutes.
ASSUME DwellAssumption ==
  /\ Composition \in [boarding : Nat, alighting : Nat]
  /\ Track \in [Stop -> [boarding : Nat, alighting : Nat]]

Addon == [from : Stop, to : Stop, minutes : Nat]
Departure == [mode : {"automatic", "absolute", "shift"}, minutes : Int]

NoInterval == <<>>
NoDeparture == [mode |-> "automatic", minutes |-> 0]
NoOverrides == [departure |-> NoDeparture, addons |-> {}]

Least(a, b) == IF a <= b THEN a ELSE b
Greatest(a, b) == IF a >= b THEN a ELSE b

Backwards(s) == [i \in DOMAIN s |-> s[Len(s) + 1 - i]]

IndexOf(stops, stop) == CHOOSE i \in DOMAIN stops : stops[i] = stop

\* Python's round() of twice / 2: a half goes to the even neighbour.
RoundHalf(twice) ==
  LET down == twice \div 2
  IN IF twice % 2 = 1 /\ down % 2 = 1 THEN down + 1 ELSE down

\* Where a train that leaves its first stop at start arrives and departs.
Walk(start, minutes, dwell) ==
  LET n == Len(minutes) + 1
      Stand(i) == IF i \in {1, n} THEN 0 ELSE dwell[i]
      arr[i \in 1..n] ==
        IF i = 1 THEN start ELSE arr[i - 1] + Stand(i - 1) + minutes[i - 1]
  IN [arr |-> arr, dep |-> [i \in 1..n |-> arr[i] + Stand(i)]]

Plus(a, b) == [i \in DOMAIN a |-> a[i] + b[i]]

MinDwell == Least(Composition.boarding, Composition.alighting)

\* The strategies place a trip with the least dwell at every stop.
ProvisionalOffsets(legs, extra) ==
  Walk(0, Plus(legs, extra), [i \in 1 .. Len(legs) + 1 |-> MinDwell])

ClassifyStopType(arrival, departure) ==
  IF departure < NightStart THEN "boarding"
  ELSE IF arrival >= NightEnd THEN "alighting"
  ELSE "night"

ClassifyStops(departure, at) ==
  [i \in DOMAIN at.arr |->
     IF i = 1 THEN "boarding"
     ELSE IF i = Len(at.arr) THEN "alighting"
     ELSE ClassifyStopType(departure + at.arr[i], departure + at.dep[i])]

SimpleDeparture(duration) == RoundHalf(2 * Mirror - duration)

\* at is what ProvisionalOffsets() gives for the trip, slack and add-ons included.
SimpleAutomatic(at) == SimpleDeparture(at.arr[Len(at.arr)])

\* Mutant: the shares are cut off and nobody gets the remainder.
SlackCutOff(total, legs, interval) ==
  LET whole == SumFunctionOnSet(legs, interval)
  IN [i \in DOMAIN legs |->
        IF i \in interval /\ whole > 0 THEN (total * legs[i]) \div whole ELSE 0]

\* Largest remainders: every leg of the interval gets its share cut off, and
\* the legs that lost most by it one unit more, the earlier of equal ones.
DistributeSlack(total, legs, interval) ==
  LET whole == SumFunctionOnSet(legs, interval)
      weight == [i \in interval |-> IF whole > 0 THEN legs[i] ELSE 1]
      parts == IF whole > 0 THEN whole ELSE Cardinality(interval)
      share == [i \in interval |-> (total * weight[i]) \div parts]
      lost == [i \in interval |-> (total * weight[i]) % parts]
      left == total - SumFunction(share)
      before(i) == {j \in interval : \/ lost[j] > lost[i]
                                     \/ lost[j] = lost[i] /\ j < i}
  IN [i \in DOMAIN legs |->
        IF i \notin interval THEN 0
        ELSE share[i] + (IF Cardinality(before(i)) < left THEN 1 ELSE 0)]

\* The least span from a departure before the window to an arrival after it.
RequiredSpan == NightEnd - (NightStart - 1)

\* Mutant: the centre of the interval is kept, at the window's expense.
UnclampedDeparture(span) == RoundHalf(2 * Mirror - span)

\* The departure at the interval's start: centred, then clamped.
FixedNightDeparture(span) ==
  Greatest(Least(RoundHalf(2 * Mirror - span), NightStart - 1),
           NightEnd - span)

SlackNeeded(natural) == Greatest(0, RequiredSpan - natural)

\* The slack that stretches the interval to the window, spread over its legs.
FixedNightSlack(stops, legs, interval, addon) ==
  LET a == IndexOf(stops, interval[1])
      b == IndexOf(stops, interval[2])
      natural == ProvisionalOffsets(legs, addon)
  IN DistributeSlack(SlackNeeded(natural.arr[b] - natural.dep[a]), legs, a .. b - 1)

FixedNight(stops, interval, at) ==
  LET a == IndexOf(stops, interval[1])
      b == IndexOf(stops, interval[2])
  IN FixedNightDeparture(at.arr[b] - at.dep[a]) - at.dep[a]

\* The timetable_mode switch: only the fixed night stretches anything.
AutomaticSlack(stops, legs, interval, addon) ==
  IF interval = NoInterval THEN [i \in DOMAIN legs |-> 0]
  ELSE FixedNightSlack(stops, legs, interval, addon)

AutomaticDeparture(stops, interval, at) ==
  IF interval = NoInterval THEN SimpleAutomatic(at)
  ELSE FixedNight(stops, interval, at)

\* Manual time on the legs between the ordered pairs it was given for; a
\* pair that is not adjacent in this order is dropped.
ResolveAddons(stops, addons) ==
  [i \in 1 .. Len(stops) - 1 |->
     SumFunction([a \in {a \in addons : /\ a.from = stops[i]
                                        /\ a.to = stops[i + 1]} |-> a.minutes])]

ResolveDeparture(automatic, override) ==
  CASE override.mode = "automatic" -> automatic
    [] override.mode = "absolute"  -> override.minutes
    [] override.mode = "shift"     -> automatic + override.minutes

\* Mutant: both directions are moved the same way.
MirrorSameWay(overrides, shift) ==
  [departure |-> IF shift = 0 THEN NoDeparture
                 ELSE [mode |-> "shift", minutes |-> shift],
   addons |-> {[from |-> a.to, to |-> a.from, minutes |-> a.minutes] :
                 a \in overrides.addons}]

MirrorOverrides(overrides, shift) ==
  [departure |-> IF shift = 0 THEN NoDeparture
                 ELSE [mode |-> "shift", minutes |-> -shift],
   addons |-> {[from |-> a.to, to |-> a.from, minutes |-> a.minutes] :
                 a \in overrides.addons}]

Dwell(type, stop) ==
  LET board == Greatest(Composition.boarding, Track[stop].boarding)
      alight == Greatest(Composition.alighting, Track[stop].alighting)
  IN CASE type = "boarding"  -> board
       [] type = "alighting" -> alight
       [] type = "night"     -> Greatest(board, alight)

FinalTimetable(stops, types, legs, departure, slack, addon) ==
  Walk(departure, Plus(legs, Plus(slack, addon)),
       [i \in DOMAIN stops |-> Dwell(types[i], stops[i])])

\* The stretched interval runs at less than 7/10 of the routed speed.
StretchedTooFar(legs, at, a, b) ==
  LET physics == SumFunctionOnSet(legs, a .. b - 1)
      elapsed == at.arr[b] - at.dep[a]
  IN physics > 0 /\ elapsed > 0 /\ 10 * physics < 7 * elapsed

\* Mutant: an overridden departure keeps the types of the automatic one.
ClassifyAutomatic(departure, automatic, at) == ClassifyStops(automatic, at)

\* An overridden departure classifies the stops anew.
ClassifyForDeparture(departure, automatic, at) == ClassifyStops(departure, at)
=============================================================================
