------------------------------ MODULE FamilyBuild ------------------------------
(***************************************************************************)
(* One family build (models/family/builder.py, context.py): worker threads *)
(* fill the build's memo in parallel, then the request thread computes the *)
(* members one after the other on the same memo.  Every catalogue load,    *)
(* cache read and cache write of a thread borrows a connection of the      *)
(* process's pool, which other request threads use too; every leg comes    *)
(* from the segment cache, which other processes fill and purge too.       *)
(*                                                                         *)
(* This module composes ConnectionPool, SingleFlight and SegmentCache: its *)
(* threads are their borrowers, callers and routers.                       *)
(***************************************************************************)
EXTENDS ConnectionPool, SingleFlight, SegmentCache, TLC

CONSTANTS Main,         \* the request thread
          Worker,       \* the threads of the prewarm
          Scenario, Composition,
          Configured,   \* scenarios whose routing graph this deployment runs
          Catalogues,   \* the catalogue builders a member needs, in order
          LegVariant,   \* (scenario, composition) -> leg variant of its trips
          StopList,     \* the stops of the request
          Members,      \* the members in presentation order: records
                        \*   [variant, scenario, composition]
          Presented,    \* the member shown first
          MaxFailures   \* bound: queries, borrows and live routes that fail

ASSUME FamilyAssumption ==
  /\ Thread = Worker \cup {Main} /\ Main \notin Worker
  /\ Router = Thread /\ Thread \subseteq Borrower
  /\ Presented \in Range(Members)

VARIABLES todo,       \* the prewarm tasks not yet taken
          work,       \* what each thread is at
          remaining,  \* the members still to compute, presented first
          built,      \* the routes this build has, by (scenario, composition)
          status,     \* the members computed so far: "ok" or "error"
          suggested,  \* the result carries the presented member's suggestions
          failures,   \* how much has failed so far
          disturbed,  \* a store or a read failed, or the table moved under the build
          faultless   \* the tasks whose prewarm ended without an exception

buildVars == <<todo, work, remaining, built, status, suggested>>
historyVars == <<failures, disturbed, faultless>>
vars == <<poolVars, flightVars, segmentVars, buildVars, historyVars>>

-----------------------------------------------------------------------------
Task == Scenario \X Composition

\* What a thread asks the memo for.  A catalogue's key is its builder and the
\* scenario; a trip's key its stops and everything that shapes its legs.
CatalogueKey(name, scenario) == <<name, scenario>>
LegsKey(trip, task) == <<trip, LegVariant[task]>>

Outbound == StopList
Return == Reverse(StopList)

\* What a family is asked for: a member once per variant and composition, of
\* a scenario it names, on stops that route; the memo knows every key, and
\* catalogues and legs are memoised apart.
ASSUME RequestAssumption ==
  /\ IsFiniteSet(Scenario) /\ IsFiniteSet(Composition)
  /\ Members \in Seq(Range(Members)) /\ IsInjective(Members)
  /\ \A i \in DOMAIN Members : <<Members[i].scenario, Members[i].composition>> \in Task
  /\ Routable(Outbound)
  /\ Catalogues \in Seq(Range(Catalogues))
  /\ \A task \in Task :
       /\ \A i \in DOMAIN Catalogues : CatalogueKey(Catalogues[i], task[1]) \in Key
       /\ LegsKey(Outbound, task) \in Key /\ LegsKey(Return, task) \in Key
       /\ \A other \in Task : \A i \in DOMAIN Catalogues :
            CatalogueKey(Catalogues[i], other[1]) \notin {LegsKey(Outbound, task), LegsKey(Return, task)}
  /\ Nothing \notin Seq(Leg) /\ NoRow \notin Leg

Get(key) == [kind |-> "get", key |-> key, trip |-> <<>>]
GetLegs(trip, task) == [kind |-> "get", key |-> LegsKey(trip, task), trip |-> trip]
GetRouter == [kind |-> "router", key |-> Nothing, trip |-> <<>>]

Loads(task) == [i \in DOMAIN Catalogues |-> Get(CatalogueKey(Catalogues[i], task[1]))]
Trips(task) == <<GetLegs(Outbound, task), GetLegs(Return, task)>>

\* Mutant: only the outbound trip is warmed.
WarmOutbound(task) == Loads(task) \o <<GetRouter, GetLegs(Outbound, task)>>

\* warm(): catalogues, router, then outbound and return in this order.
WarmPlan(task) == Loads(task) \o <<GetRouter>> \o Trips(task)
\* _build_route(): the router is an argument of run_compute(), so it is
\* looked up first.
MemberPlan(task) == <<GetRouter>> \o Loads(task) \o Trips(task)

RouteKey(m) == <<m.scenario, m.composition>>
\* Mutant: the members run in presentation order.
AsPresented == Members
PresentedFirst ==
  LET i == CHOOSE j \in DOMAIN Members : Members[j] = Presented
  IN <<Presented>> \o RemoveAt(Members, i)

\* at: "idle"; "next" (the next item of the plan); inside a computation
\* "load", "fetch", "route", "keep", and its outcome "computed" or "raised".
Idle == [at |-> "idle", task |-> Nothing, plan |-> <<>>, answer |-> "", value |-> Nothing]

Item(t) == Head(work[t].plan)
At(t, phase) == work[t].at = phase
Go(t, phase) == work' = [work EXCEPT ![t].at = phase]

Fails(t) == failures < MaxFailures /\ failures' = failures + 1

-----------------------------------------------------------------------------
Init ==
  /\ PoolInit /\ FlightInit /\ SegmentInit
  /\ todo = [i \in 1 .. Cardinality(Task) |-> SetToSeq(Task)[i]]
  /\ work = [t \in Thread |-> Idle]
  /\ remaining = PresentedFirst
  /\ built = {}
  /\ status = <<>>
  /\ suggested = FALSE
  /\ failures = 0 /\ disturbed = FALSE /\ faultless = {}

\* pool.map: a worker that is free takes the next task.
TakeTask(t) ==
  /\ t \in Worker /\ At(t, "idle") /\ todo # <<>>
  /\ work' = [work EXCEPT ![t] = [Idle EXCEPT !.at = "next", !.task = Head(todo),
                                              !.plan = WarmPlan(Head(todo))]]
  /\ todo' = Tail(todo)
  /\ UNCHANGED <<poolVars, flightVars, segmentVars, remaining, built, status, suggested, historyVars>>

\* The loop of run_family starts when the prewarm's executor has shut down,
\* and builds a route only once per (scenario, composition).
Prewarmed == todo = <<>> /\ \A w \in Worker : At(w, "idle")
StartMember ==
  /\ Prewarmed /\ At(Main, "idle") /\ remaining # <<>>
  /\ RouteKey(Head(remaining)) \notin built
  /\ work' = [work EXCEPT ![Main] = [Idle EXCEPT !.at = "next",
                !.task = RouteKey(Head(remaining)), !.plan = MemberPlan(RouteKey(Head(remaining)))]]
  /\ UNCHANGED <<poolVars, flightVars, segmentVars, todo, remaining, built, status, suggested, historyVars>>

\* A later variant of a built route is only evaluated again.
EvaluateMember ==
  /\ Prewarmed /\ At(Main, "idle") /\ remaining # <<>>
  /\ RouteKey(Head(remaining)) \in built
  /\ status' = (Head(remaining) :> "ok") @@ status
  /\ remaining' = Tail(remaining)
  /\ UNCHANGED <<poolVars, flightVars, segmentVars, todo, work, built, suggested, historyVars>>

\* The plan has run out: a worker's task is done, Main's member is built.
\* Only the presented member is built with the request's auto-stop mode.
FinishPlan(t) ==
  /\ At(t, "next") /\ work[t].plan = <<>>
  /\ work' = [work EXCEPT ![t] = Idle]
  /\ IF t = Main
     THEN LET m == Head(remaining)
          IN /\ built' = built \cup {RouteKey(m)}
             /\ status' = (m :> "ok") @@ status
             /\ suggested' = (suggested \/ m = Presented)
             /\ remaining' = Tail(remaining)
             /\ UNCHANGED faultless
     ELSE /\ faultless' = faultless \cup {work[t].task}
          /\ UNCHANGED <<built, status, suggested, remaining>>
  /\ UNCHANGED <<poolVars, flightVars, segmentVars, todo, failures, disturbed>>

\* An exception ends the plan: swallowed by a worker, an error member on Main.
Abort(t) ==
  /\ work' = [work EXCEPT ![t] = Idle]
  /\ IF t = Main
     THEN /\ status' = (Head(remaining) :> "error") @@ status
          /\ remaining' = Tail(remaining)
     ELSE UNCHANGED <<status, remaining>>
  /\ UNCHANGED <<todo, built, suggested>>

\* The rest of run_compute() and evaluate_and_build_views() may raise too:
\* the member is an error, and a route that was being built is not kept.
MemberRaises ==
  /\ Prewarmed /\ remaining # <<>> /\ Fails(Main)
  /\ \/ At(Main, "next") /\ work[Main].plan = <<>>
     \/ At(Main, "idle") /\ RouteKey(Head(remaining)) \in built
  /\ Abort(Main)
  /\ UNCHANGED <<poolVars, flightVars, segmentVars, disturbed, faultless>>

\* FamilyContext.router(): raises for a graph this deployment does not run.
LookUpRouter(t) ==
  /\ At(t, "next") /\ work[t].plan # <<>> /\ Item(t).kind = "router"
  /\ IF work[t].task[1] \in Configured
     THEN /\ work' = [work EXCEPT ![t].plan = Tail(@)]
          /\ UNCHANGED <<todo, remaining, built, status, suggested>>
     ELSE Abort(t)
  /\ UNCHANGED <<poolVars, flightVars, segmentVars, historyVars>>

Asks(t) == At(t, "next") /\ work[t].plan # <<>> /\ Item(t).kind = "get"

\* get(): a hit, ...
GetHit(t) ==
  /\ Asks(t) /\ Hit(t, Item(t).key)
  /\ work' = [work EXCEPT ![t].plan = Tail(@)]
  /\ UNCHANGED <<poolVars, segmentVars, todo, remaining, built, status, suggested, historyVars>>

\* ... a miss that starts the computation, or one that waits.
GetMiss(t) ==
  /\ Asks(t)
  /\ \/ Own(t, Item(t).key) /\ Go(t, IF Item(t).trip = <<>> THEN "load" ELSE "fetch")
     \/ Await(t, Item(t).key) /\ UNCHANGED work
  /\ UNCHANGED <<poolVars, segmentVars, todo, remaining, built, status, suggested, historyVars>>

-----------------------------------------------------------------------------
(***************************************************************************)
(* Every database call borrows a connection for itself: a catalogue load   *)
(* ("load"), fetch_many ("fetch") and store ("keep").  What the call did   *)
(* takes effect while the connection is held; the thread goes on when its  *)
(* slot is back.                                                           *)
(***************************************************************************)
Calling(t) == work[t].at \in {"load", "fetch", "keep"} /\ work[t].answer = ""
Answer(t, a) == work' = [work EXCEPT ![t].answer = a]

\* What a failed call means: load raises; fetch reads as no rows and keep as
\* not stored, both swallowed by the repository.
NoAnswer(t) ==
  /\ CASE At(t, "load")  -> UNCHANGED segmentVars
       [] At(t, "fetch") -> Fetch(t, Item(t).trip, FALSE)
       [] At(t, "keep")  -> StoreLeg(t, FALSE)
  /\ disturbed' = (disturbed \/ ~At(t, "load"))

After(t, answer) ==
  CASE At(t, "load") -> IF answer = "ok" THEN "computed" ELSE "raised"
    [] OTHER         -> "route"

BorrowSlot(t) ==
  /\ Calling(t) /\ Acquire(t)
  /\ UNCHANGED <<flightVars, segmentVars, buildVars, historyVars>>

BorrowConnection(t) ==
  /\ Calling(t) /\ GetConn(t)
  /\ UNCHANGED <<flightVars, segmentVars, buildVars, historyVars>>

\* No slot in time, or no connection behind it: the call never happens.
BorrowFails(t) ==
  /\ Calling(t)
  /\ \/ AcquireTimesOut(t) /\ UNCHANGED failures
     \/ GetConnFails(t) /\ Fails(t)
  /\ NoAnswer(t)
  /\ Go(t, After(t, "failed"))
  /\ UNCHANGED <<flightVars, todo, remaining, built, status, suggested, faultless>>

QueryAnswers(t) ==
  /\ Calling(t) /\ lease[t] = "open"
  /\ CASE At(t, "load")  -> UNCHANGED segmentVars
       [] At(t, "fetch") -> Fetch(t, Item(t).trip, TRUE)
       [] At(t, "keep")  -> StoreLeg(t, TRUE)
  /\ Answer(t, "ok")
  /\ UNCHANGED <<poolVars, flightVars, todo, remaining, built, status, suggested, historyVars>>

\* The statement fails, or takes the connection down with it.
QueryFails(t) ==
  /\ Calling(t) /\ lease[t] = "open" /\ Fails(t)
  /\ \/ Break(t)
     \/ UNCHANGED poolVars
  /\ NoAnswer(t)
  /\ Answer(t, "failed")
  /\ UNCHANGED <<flightVars, todo, remaining, built, status, suggested, faultless>>

GiveBack(t) ==
  /\ work[t].answer # "" /\ PutConn(t)
  /\ UNCHANGED <<flightVars, segmentVars, buildVars, historyVars>>

GoOn(t) ==
  /\ ReleaseSlot(t)
  /\ work' = [work EXCEPT ![t].at = After(t, work[t].answer), ![t].answer = ""]
  /\ UNCHANGED <<flightVars, segmentVars, todo, remaining, built, status, suggested, historyVars>>

-----------------------------------------------------------------------------
\* _route_via_segment_cache(), one pair after the other.
UseRow(t) ==
  /\ At(t, "route") /\ TakeCached(t)
  /\ UNCHANGED <<poolVars, flightVars, buildVars, historyVars>>

RouteMiss(t) ==
  /\ At(t, "route")
  /\ \/ RouteLive(t) /\ Go(t, "keep") /\ UNCHANGED failures
     \/ RouteFails(t) /\ Go(t, "raised") /\ Fails(t)
  /\ UNCHANGED <<poolVars, flightVars, todo, remaining, built, status, suggested, disturbed, faultless>>

\* The legs of the whole trip are what the computation returns.
Routed(t) ==
  /\ At(t, "route") /\ HandOver(t)
  /\ work' = [work EXCEPT ![t].at = "computed", ![t].value = lookup[t].legs]
  /\ UNCHANGED <<poolVars, flightVars, todo, remaining, built, status, suggested, historyVars>>

-----------------------------------------------------------------------------
\* The tail of get(): keep, forget, open the gate.  A catalogue's value is
\* its key: what matters is which catalogue it is.
KeepValue(t) ==
  /\ At(t, "computed")
  /\ Keep(t, IF Item(t).trip = <<>> THEN Item(t).key ELSE work[t].value)
  /\ UNCHANGED <<poolVars, segmentVars, buildVars, historyVars>>

ForgetKey(t) ==
  /\ work[t].at \in {"computed", "raised"} /\ Forget(t, At(t, "computed"))
  /\ UNCHANGED <<poolVars, segmentVars, buildVars, historyVars>>

LeaveGet(t) ==
  /\ work[t].at \in {"computed", "raised"} /\ OpenGate(t)
  /\ IF At(t, "computed")
     THEN /\ work' = [work EXCEPT ![t].at = "next", ![t].plan = Tail(@), ![t].value = Nothing]
          /\ UNCHANGED <<todo, remaining, built, status, suggested>>
     ELSE Abort(t)
  /\ UNCHANGED <<poolVars, segmentVars, historyVars>>

ThreadStep(t) ==
  \/ TakeTask(t) \/ FinishPlan(t) \/ LookUpRouter(t)
  \/ GetHit(t) \/ GetMiss(t)
  \/ BorrowSlot(t) \/ BorrowConnection(t) \/ BorrowFails(t)
  \/ QueryAnswers(t) \/ QueryFails(t) \/ GiveBack(t) \/ GoOn(t)
  \/ UseRow(t) \/ RouteMiss(t) \/ Routed(t)
  \/ KeepValue(t) \/ ForgetKey(t) \/ LeaveGet(t)

LoopStep == StartMember \/ EvaluateMember \/ MemberRaises

-----------------------------------------------------------------------------
\* The other request threads of the process borrow and give back.
Other == Borrower \ Thread

OtherBorrows(b) ==
  /\ \/ Acquire(b)
     \/ GetConn(b)
     \/ GetConnFails(b)
  /\ UNCHANGED <<flightVars, segmentVars, buildVars, historyVars>>

OtherEnds(b) ==
  /\ \/ PutConn(b)
     \/ ReleaseSlot(b)
  /\ UNCHANGED <<flightVars, segmentVars, buildVars, historyVars>>

\* Another process routes and stores while the build runs.
OtherProcessStores(pair, up, date) ==
  /\ StoreElsewhere(pair, up, date)
  /\ disturbed' = TRUE
  /\ UNCHANGED <<poolVars, flightVars, buildVars, failures, faultless>>

\* The routing instance moves to a new import, and processes start.
TableMoves ==
  /\ \/ Reimport
     \/ \E b \in Booter : SyncStep(b)
  /\ disturbed' = (disturbed \/ served' # served \/ segments' # segments)
  /\ UNCHANGED <<poolVars, flightVars, buildVars, failures, faultless>>

Done == remaining = <<>> /\ Prewarmed /\ At(Main, "idle")

\* The build has its result; nothing is left to happen in it.
Finished == Done /\ UNCHANGED vars

Next ==
  \/ \E t \in Thread : ThreadStep(t)
  \/ LoopStep
  \/ \E b \in Other : OtherBorrows(b) \/ OtherEnds(b)
  \/ \E pair \in Pair, up \in BOOLEAN, date \in 1 .. MaxImport : OtherProcessStores(pair, up, date)
  \/ TableMoves
  \/ Finished

Spec == Init /\ [][Next]_vars

\* The threads of the build are scheduled, and each of its database calls
\* ends.  Nothing is assumed of the threads that share the pool.
Fairness ==
  /\ \A t \in Thread : WF_vars(ThreadStep(t))
  /\ WF_vars(LoopStep)

FairSpec == Spec /\ Fairness

-----------------------------------------------------------------------------

\* What the table would answer for a trip now.
FromTable(trip) ==
  [i \in 1 .. Len(trip) - 1 |->
     LET row == segments[{trip[i], trip[i + 1]}]
     IN IF row = NoRow THEN NoRow
        ELSE Oriented(row, trip[i] # Lo({trip[i], trip[i + 1]})).corridor]

\* "Sequential per pair, the first build is already the cached one": unless
\* a read or a store failed or the table moved under the build, every trip
\* it routed has the corridors a later build will find in the table, in
\* both directions.
FirstBuildIsTheCachedOne ==
  ~disturbed =>
    \A task \in Task : \A trip \in {Outbound, Return} :
      LET legs == values[LegsKey(trip, task)]
      IN legs # Nothing => [i \in DOMAIN legs |-> legs[i].corridor] = FromTable(trip)

\* The loop after the prewarm is served from the memo: the request thread
\* computes something of a task only when that task's prewarm raised.
LoopRunsFromMemo ==
  Computing(Main) => work[Main].task \notin faultless

\* Whatever fails, the build ends with a record for every member.  Computed
\* first, the presented one carries the suggestions if it was built at all.
BuildEnds ==
  <>(/\ Done /\ DOMAIN status = Range(Members)
     /\ suggested <=> status[Presented] = "ok")
=============================================================================
