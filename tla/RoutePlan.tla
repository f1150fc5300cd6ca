----------------------------- MODULE RoutePlan -----------------------------
(***************************************************************************)
(* A trip pair from the request to the daily service it needs rakes for.   *)
(*                                                                         *)
(* _build_trip_pair() builds the outbound trip, then the return trip on    *)
(* the reversed stops with the mirrored overrides; plan_route() adds the   *)
(* schedule, the layover at each terminal and, through TripPair, the       *)
(* cycle and the rakes it needs.  What those numbers promise is told by    *)
(* running the line: rakes leave the two terminals slot by slot, and a     *)
(* rake may leave once it has stood the least turnaround.                  *)
(***************************************************************************)
EXTENDS Timetable

CONSTANTS
  Day,           \* units of a day
  Line,          \* the posted stop list
  LegTimes,      \* routed times a leg may have
  Detours,       \* what the return may need longer on its first leg
  Intervals,     \* fixed night intervals, or NoInterval
  AddonSets,     \* sets of manual add-ons
  Departures,    \* departure overrides
  ReturnBlocks,  \* explicit overrides of the return trip, or Mirrored
  Turnarounds,   \* least turnaround
  DaysPerWeek,   \* days of the busiest month
  Horizon        \* bound: slots of the simulated service

ASSUME DayAssumption == Day \in Nat /\ Day > 0

\* validate_stops() asks for two stops; that none comes twice is not checked
\* there, and is assumed: the intervals and add-ons name stops, not places.
ASSUME LineAssumption ==
  /\ Line \in Seq(Stop) /\ Len(Line) >= 2
  /\ \A i, j \in DOMAIN Line : Line[i] = Line[j] => i = j

ASSUME TimeAssumption ==
  /\ LegTimes \subseteq Nat /\ Detours \subseteq Nat
  /\ Turnarounds \subseteq Nat /\ DaysPerWeek \subseteq 0 .. 7

\* The start of an interval comes before its end (validate_how_fields()).
ASSUME IntervalAssumption ==
  \A interval \in Intervals : interval = NoInterval \/
    \E i, j \in DOMAIN Line : i < j /\ interval = <<Line[i], Line[j]>>

VARIABLES
  request,  \* what was posted and routed
  trips,    \* <<>>, <<outbound>> or <<outbound, return>>
  service,  \* the line in service, or NoService
  rakes,    \* per rake: where it stands, or goes, and from when it is ready
  nextOut,  \* the next departure slot of the origin
  nextRet,  \* the next departure slot of the far terminal
  peak      \* most rakes bound at once

vars == <<request, trips, service, rakes, nextOut, nextRet, peak>>

Mirrored == [departure |-> [mode |-> "mirrored", minutes |-> 0], addons |-> {}]

\* What _validate_departure() and _validate_addons() let through.
ASSUME OverrideAssumption ==
  /\ Departures \subseteq Departure
  /\ \A addons \in AddonSets : IsFiniteSet(addons) /\ addons \subseteq Addon
  /\ \A block \in ReturnBlocks \ {Mirrored} :
       /\ block.departure \in Departure
       /\ IsFiniteSet(block.addons) /\ block.addons \subseteq Addon

NoService == [turnaround |-> 0]
NoRequest == [legs |-> <<>>]

(***************************************************************************)
(* Building the pair.                                                      *)
(***************************************************************************)
Requests == [legs : [1 .. Len(Line) - 1 -> LegTimes], detour : Detours,
             interval : Intervals, addons : AddonSets,
             departure : Departures, return : ReturnBlocks]

Init ==
  /\ request \in Requests
  /\ trips = <<>> /\ service = NoService /\ rakes = <<>>
  /\ nextOut = 0 /\ nextRet = 0 /\ peak = 0

\* One direction, strategy by strategy: the slack, the automatic departure,
\* the departure and the stop types it leads to, the final times, the warning.
\* Each of the nested quantifiers names one value.
BuildTrip(stops, legs, interval, overrides) ==
  \E addon \in {ResolveAddons(stops, overrides.addons)} :
  \E slack \in {AutomaticSlack(stops, legs, interval, addon)} :
  \E plan \in {ProvisionalOffsets(legs, Plus(slack, addon))} :
  \E automatic \in {AutomaticDeparture(stops, interval, plan)} :
  \E departure \in {ResolveDeparture(automatic, overrides.departure)} :
  \E types \in {ClassifyForDeparture(departure, automatic, plan)} :
  \E at \in {FinalTimetable(stops, types, legs, departure, slack, addon)} :
    trips' = Append(trips,
      [stops |-> stops, legs |-> legs, interval |-> interval,
       slack |-> slack, addon |-> addon, types |-> types,
       arr |-> at.arr, dep |-> at.dep, shift |-> departure - automatic,
       slow |-> /\ interval # NoInterval
                /\ StretchedTooFar(legs, at, IndexOf(stops, interval[1]),
                                   IndexOf(stops, interval[2]))])

BuildOutbound ==
  /\ request # NoRequest /\ trips = <<>>
  /\ BuildTrip(Line, request.legs, request.interval,
               [departure |-> request.departure, addons |-> request.addons])
  /\ UNCHANGED <<request, service, rakes, nextOut, nextRet, peak>>

\* Each direction is routed for itself.
ReturnLegs == [Backwards(request.legs) EXCEPT ![1] = @ + request.detour]

ReturnOverrides ==
  IF request.return # Mirrored THEN request.return
  ELSE MirrorOverrides([departure |-> request.departure,
                        addons |-> request.addons], trips[1].shift)

BuildReturn ==
  /\ Len(trips) = 1
  /\ BuildTrip(Backwards(trips[1].stops), ReturnLegs,
               Backwards(request.interval), ReturnOverrides)
  /\ UNCHANGED <<request, service, rakes, nextOut, nextRet, peak>>

(***************************************************************************)
(* Layover and fleet, from the four terminal times.                        *)
(***************************************************************************)
TerminalTimes(pair) ==
  [outDep |-> pair[1].dep[1], outArr |-> pair[1].arr[Len(pair[1].arr)],
   retDep |-> pair[2].dep[1], retArr |-> pair[2].arr[Len(pair[2].arr)]]

\* Mutant: a negative gap is clamped.
LayoverClamped(departure, arrival) == Greatest(0, departure - arrival)

\* The gap, a day added as long as it is negative.
Layover(departure, arrival) ==
  LET gap == departure - arrival IN IF gap < 0 THEN gap % Day ELSE gap

\* The first time a clock reads slot that is not before ready, from day 0.
NextSlot(ready, slot) ==
  Greatest(0, -((slot - ready) \div Day)) * Day + slot

\* Mutant: the rake leaves the far terminal by the slot of its arrival.
CycleWithoutFarTurnaround(t, turnaround) ==
  LET retLeaves == NextSlot(t.outArr, t.retDep % Day)
      retArrives == retLeaves + t.retArr - t.retDep
      nextDep == NextSlot(retArrives + turnaround, t.outDep % Day)
  IN Greatest(1, (nextDep - t.outDep) \div Day)

CycleDaysBetween(t, turnaround) ==
  LET retLeaves == NextSlot(t.outArr + turnaround, t.retDep % Day)
      retArrives == retLeaves + t.retArr - t.retDep
      nextDep == NextSlot(retArrives + turnaround, t.outDep % Day)
  IN Greatest(1, (nextDep - t.outDep) \div Day)

TrainsetsForCycle(cycle, days) == -((-(cycle * days)) \div 7)

StartService ==
  /\ Len(trips) = 2
  /\ \E turnaround \in Turnarounds, days \in DaysPerWeek :
       LET t == TerminalTimes(trips)
           cycle == CycleDaysBetween(t, turnaround)
       IN /\ service' = [times |-> t, turnaround |-> turnaround, days |-> days,
                         far |-> Layover(t.retDep, t.outArr),
                         origin |-> Layover(t.outDep, t.retArr)]
          /\ rakes' = [r \in 1 .. TrainsetsForCycle(cycle, days) |->
                         [at |-> "origin", ready |-> t.outDep, run |-> FALSE]]
  \* the plan itself is not read again: only its terminal times are kept
  /\ request' = NoRequest /\ trips' = <<>>
  /\ UNCHANGED <<nextOut, nextRet, peak>>

(***************************************************************************)
(* The line in service.                                                    *)
(***************************************************************************)
OutTime == nextOut * Day + service.times.outDep
RetTime == (nextRet + service.times.outDep \div Day) * Day
             + (service.times.retDep % Day)

InService == service # NoService /\ nextOut < Horizon

\* Departure days spread evenly through the week.
Runs(day) ==
  ((day + 1) * service.days) \div 7 > (day * service.days) \div 7

Ready(place, time) ==
  {r \in DOMAIN rakes : rakes[r].at = place /\ rakes[r].ready <= time}

LongestStanding(ready) ==
  CHOOSE r \in ready : \A s \in ready : rakes[r].ready <= rakes[s].ready

OutSlot ==
  /\ InService /\ OutTime < RetTime
  /\ LET ready == Ready("origin", OutTime)
         r == LongestStanding(ready)
     IN IF Runs(nextOut) /\ ready # {}
        THEN /\ rakes' = [rakes EXCEPT ![r] =
                  [at |-> "far", run |-> TRUE,
                   ready |-> OutTime + service.times.outArr
                               - service.times.outDep + service.turnaround]]
             /\ peak' = Greatest(peak,
                  Cardinality(DOMAIN rakes) - Cardinality(ready) + 1)
        ELSE UNCHANGED <<rakes, peak>>
  /\ nextOut' = nextOut + 1
  /\ UNCHANGED <<request, trips, service, nextRet>>

RetSlot ==
  /\ InService /\ RetTime <= OutTime
  /\ LET ready == Ready("far", RetTime)
         r == LongestStanding(ready)
     IN rakes' = IF ready = {} THEN rakes
                 ELSE [rakes EXCEPT ![r] =
                   [at |-> "origin", run |-> TRUE,
                    ready |-> RetTime + service.times.retArr
                                - service.times.retDep + service.turnaround]]
  /\ nextRet' = nextRet + 1
  /\ UNCHANGED <<request, trips, service, nextOut, peak>>

Next == BuildOutbound \/ BuildReturn \/ StartService \/ OutSlot \/ RetSlot

Spec == Init /\ [][Next]_vars

(***************************************************************************)
(* Properties.                                                             *)
(***************************************************************************)
\* Real dwell beyond the least one, up to and including stop i.
Excess(trip, i) ==
  LET between == {j \in 2 .. i : j < Len(trip.stops)}
  IN SumFunction([j \in between |-> trip.dep[j] - trip.arr[j] - MinDwell])

Stretched == {k \in DOMAIN trips : trips[k].interval # NoInterval}

From(trip) == IndexOf(trip.stops, trip.interval[1])
To(trip) == IndexOf(trip.stops, trip.interval[2])

\* A trip nobody moved keeps its fixed night interval over the window: it
\* leaves the interval's start before midnight, apart from the dwell its
\* placing could not know, arrives at its end when the night is over, boards
\* at every stop up to the start and alights at every stop from the end on.
\* This is the guarantee of simple_automatic_fixed_night_timetable(), read
\* off the final times of both directions.
NightWindowHeld ==
  \A k \in Stretched :
    LET trip == trips[k]
    IN trip.shift = 0 =>
         /\ trip.dep[From(trip)] - Excess(trip, From(trip)) < NightStart
         /\ trip.arr[To(trip)] >= NightEnd
         /\ \A i \in 1 .. From(trip) : trip.types[i] = "boarding"
         /\ \A i \in To(trip) .. Len(trip.stops) : trip.types[i] = "alighting"

\* The night is stretched by exactly what the routed and the manual time
\* leave open, on no leg outside the interval, and no leg's part is a whole
\* unit away from its share of the routed time, or from an equal share where
\* no time was routed (_distribute_slack()).
SlackIsFair ==
  \A k \in Stretched :
    LET trip == trips[k]
        interval == From(trip) .. To(trip) - 1
        whole == SumFunctionOnSet(trip.legs, interval)
        parts == IF whole > 0 THEN whole ELSE Cardinality(interval)
        part(i) == IF whole > 0 THEN trip.legs[i] ELSE 1
        natural == whole + SumFunctionOnSet(trip.addon, interval)
                     + (Cardinality(interval) - 1) * MinDwell
        total == SumFunction(trip.slack)
    IN /\ total = Greatest(0, RequiredSpan - natural)
       /\ \A i \in DOMAIN trip.slack :
            IF i \notin interval THEN trip.slack[i] = 0
            ELSE /\ trip.slack[i] * parts - total * part(i) < parts
                 /\ total * part(i) - trip.slack[i] * parts < parts

\* Whatever moved a trip, its stop types and its final clock agree in the
\* direction dwell can err: who alights arrives after the night, who stands
\* at night leaves within or after it, who leaves before it boards.
TypesFollowTheClock ==
  \A k \in DOMAIN trips : \A i \in 2 .. Len(trips[k].stops) - 1 :
    LET trip == trips[k]
    IN /\ trip.types[i] = "alighting" => trip.arr[i] >= NightEnd
       /\ trip.types[i] = "night" => trip.dep[i] >= NightStart
       /\ trip.dep[i] < NightStart => trip.types[i] = "boarding"

Centred(departure, arrival) == departure + arrival - 2 * Mirror \in -1 .. 1

\* Over the same physics, a return that mirrors its outbound keeps the pair
\* a mirror image around Mirror, to a rounding: padding, a fixed interval, a
\* shift and a pinned departure on one side come out mirrored on the other
\* (mirror_overrides()).
PairStaysCentred ==
  Len(trips) = 2 /\ request.detour = 0 /\ request.return = Mirrored =>
    LET Settled(trip) == trip.arr[Len(Line)] - Excess(trip, Len(Line))
    IN /\ Centred(trips[1].dep[1], Settled(trips[2]))
       /\ Centred(trips[2].dep[1], Settled(trips[1]))

\* A rake is ready whenever a departure of the origin is due.
DeparturesServed ==
  InService /\ OutTime < RetTime /\ Runs(nextOut) => Ready("origin", OutTime) # {}

\* By the end of a round every rake has been bound at the same time.
FleetIsMinimal ==
  service # NoService /\ nextOut = Horizon => peak = Cardinality(DOMAIN rakes)

\* The fleet cycle_days_between() and trainsets_for_cycle() count is exactly
\* what the line needs when its departures are spread evenly.
FleetFits == DeparturesServed /\ FleetIsMinimal

\* The layover the stabling charge is priced on is, to whole days, the time
\* a rake really stands; and it is that time where a rake can turn within it.
LayoverIsTheWait ==
  [][\A r \in DOMAIN rakes : rakes[r].run /\ rakes'[r] # rakes[r] =>
       LET far == rakes[r].at = "far"
           layover == IF far THEN service.far ELSE service.origin
           stood == (IF far THEN RetTime ELSE OutTime)
                      - (rakes[r].ready - service.turnaround)
       IN /\ (stood - layover) % Day = 0
          /\ layover < Day => stood >= layover
          /\ far /\ layover \in service.turnaround .. Day - 1 =>
               stood = layover]_vars
=============================================================================
