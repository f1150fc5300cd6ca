---------------------------- MODULE OntdBootstrap ----------------------------
(***************************************************************************)
(* db/ontd/: the Open Night Train Database beside the proposals.  A run of *)
(* bootstrap.py reads a few facts, plans the steps they call for and runs  *)
(* each step as a process of its own, in one transaction.                  *)
(*                                                                         *)
(* Every container start begins a run, and one started by hand may overlap *)
(* it, so the transactions meet at the locks of the tables.  Whatever can  *)
(* go wrong from outside is a disturbance; how many there are is bounded.  *)
(***************************************************************************)
EXTENDS Integers, FiniteSets

CONSTANTS
  Booters,          \* runs of bootstrap.py that may overlap
  OntdStops,        \* stops of the timetable
  Catalogs,         \* Catalogs[v]: stop ids of version v of the base scenario's stops
  Match,            \* Match[v][o]: the stop of version v that o is matched to, or NoStop
  NoStop,           \* no stop is near enough
  Entries,          \* rows of the curated composition tables
  Editions,         \* editions of the workbook, numbered
  MaxDisturbances   \* bound on what goes wrong from outside

Version == DOMAIN Catalogs

TnStops == UNION {Catalogs[v] : v \in Version}

ASSUME CatalogsAssumption ==
  /\ Cardinality(Version) \in Nat \ {0} /\ Version = 1 .. Cardinality(Version)
  /\ NoStop \notin TnStops
  /\ \A v \in Version : Match[v] \in [OntdStops -> Catalogs[v] \cup {NoStop}]
  /\ \A edition \in Editions : edition \in Nat \ {0}
  /\ MaxDisturbances \in Nat

VARIABLES
  timetable,     \* edition in the refreshed tables, 0 when they are empty
  summaries,     \* route_summaries, route_legs and route_corridors
  mappings,      \* ontd.stop_mappings
  curated,       \* the curated tables: what each row holds
  stops,         \* version of the stop catalog the base scenario pins
  router,        \* the routing engine answers
  boot,          \* the runs
  disturbances   \* what went wrong so far

world == <<stops, router, disturbances>>
tables == <<timetable, summaries, mappings, curated>>
vars == <<tables, world, boot>>

Ids == [OntdStops -> TnStops \cup {NoStop}]

StepNames == {"timetable", "catalog", "projection"}

Reading == {"loaded", "stale", "unrouted", "cataloged"}

Phases == {"off", "drop", "rest", "match", "upsert", "lock", "write", "check", "import"} \cup Reading

\* A step carries what it read: the edition, the mapping rows it leaves alone
\* and its translation of the stops (NoStop stands for the raw id).
Off == [at |-> "off", force |-> FALSE, facts |-> {}, todo |-> {},
        edition |-> 0, kept |-> {}, ids |-> [o \in OntdStops |-> NoStop], routed |-> FALSE]

Becomes(b, now) == boot' = [boot EXCEPT ![b] = now]

Disturb == disturbances < MaxDisturbances /\ disturbances' = disturbances + 1

-----------------------------------------------------------------------------
(* Locks.                                                                  *)

Loading(b) == boot[b].at \in {"rest", "match", "upsert", "write"} /\ "timetable" \in boot[b].todo

\* Mutant: the matching and routing of a projection leave no lock behind.
NeverReads(b) == FALSE

\* A projection has read the timetable and its transaction is still open.
HasRead(b) == boot[b].at \in {"upsert", "lock", "write"} /\ "timetable" \notin boot[b].todo

\* DROP TABLE and TRUNCATE hold the summaries' tables until the commit.
HoldsSummaries(b) == Loading(b) \/ boot[b].at = "write"

\* The loader goes on to drop the canonical tables.
HoldsTimetable(b) == Loading(b) /\ boot[b].at # "rest"

\* Mapping rows upserted and not committed.
RowsOf(b) ==
  IF boot[b].at \in {"lock", "write"}
  THEN {o \in OntdStops \ boot[b].kept : boot[b].ids[o] # NoStop} ELSE {}

\* What b is about to do waits for the end of o's transaction.
WaitsFor(b, o) ==
  LET at == boot[b].at
  IN  \/ at \in {"loaded", "unrouted", "drop", "lock"} /\ HoldsSummaries(o)
      \/ at = "rest" /\ HasRead(o)
      \/ at \in {"match", "check"} /\ HoldsTimetable(o)
      \/ at = "upsert" /\ RowsOf(o) # {}

Free(b) == \A o \in Booters \ {b} : ~WaitsFor(b, o)

-----------------------------------------------------------------------------
(* bootstrap.py                                                            *)

\* Mutant: a projection whenever there is something to project.
AlwaysProject(force, facts) ==
  IF force \/ "loaded" \notin facts THEN StepNames ELSE {"projection"}

\* Mutant: the stop catalog is not compared.
MappingsAreFine(force, facts) ==
  (IF force \/ "loaded" \notin facts THEN StepNames
   ELSE IF "unrouted" \in facts THEN {"projection"} ELSE {})
  \ (IF "cataloged" \in facts THEN {"catalog"} ELSE {})

PlanSteps(force, facts) ==
  (IF force \/ "loaded" \notin facts THEN StepNames
   ELSE IF {"stale", "unrouted"} \cap facts # {} THEN {"projection"} ELSE {})
  \ (IF "cataloged" \in facts THEN {"catalog"} ELSE {})

\* Where the first step of a plan begins.
Begin(todo) ==
  IF "timetable" \in todo THEN "drop"
  ELSE IF "catalog" \in todo THEN "check"
  ELSE IF "projection" \in todo THEN "match" ELSE "off"

\* The run goes on with the plan after its first step; what that step read
\* is forgotten.
GoesOn(todo) == [Off EXCEPT !.at = Begin(todo), !.todo = todo]

\* The fact a guard check of the database finds.
StaleMappings == \E o \in OntdStops : mappings[o].tn \notin Catalogs[stops] \cup {NoStop}

Fact(name) ==
  CASE name = "loaded" -> summaries.of # 0
    [] name = "stale" -> StaleMappings
    [] name = "unrouted" -> ~summaries.routed
    [] name = "cataloged" -> \E e \in Entries : curated[e] # "none"

\* The check after this one; the drift checks are for a loaded database.
After(name, force, facts) ==
  CASE name = "loaded" -> IF force \/ "loaded" \notin facts THEN "cataloged" ELSE "stale"
    [] name = "stale" -> "unrouted"
    [] name = "unrouted" -> "cataloged"

Learn(b, facts) ==
  LET run == boot[b]
  IN  IF run.at = "cataloged"
      THEN Becomes(b, GoesOn(PlanSteps(run.force, facts)))
      ELSE Becomes(b, [run EXCEPT !.facts = facts, !.at = After(run.at, run.force, facts)])

\* main(), in mode auto.
Start(b) ==
  /\ boot[b].at = "off"
  /\ Becomes(b, [Off EXCEPT !.at = "loaded"])
  /\ UNCHANGED <<tables, world>>

ForceStart(b) ==
  /\ Disturb
  /\ boot[b].at = "off"
  /\ Becomes(b, [Off EXCEPT !.at = "loaded", !.force = TRUE])
  /\ UNCHANGED <<tables, stops, router>>

\* _guard_query(): each check on a connection of its own.  A count of the
\* summaries waits for whoever replaces them.
ReadFact(b) ==
  LET name == boot[b].at
  IN  /\ name \in Reading /\ Free(b)
      /\ Learn(b, IF Fact(name) THEN boot[b].facts \cup {name} ELSE boot[b].facts)
      /\ UNCHANGED <<tables, world>>

\* A check that fails once it is connected answers "no".
FactSkipped(b) ==
  /\ Disturb
  /\ boot[b].at \in Reading
  /\ Learn(b, boot[b].facts)
  /\ UNCHANGED <<tables, stops, router>>

\* A step fails and the run stops, or the run dies, or it finds no database.
Stops(b) ==
  /\ Disturb
  /\ boot[b].at # "off"
  /\ Becomes(b, Off)
  /\ UNCHANGED <<tables, stops, router>>

-----------------------------------------------------------------------------
(* loader.py and projection.py                                             *)

\* The loader applies create_ontd_schema.sql first: the DROP takes the
\* summaries' tables ...
Drop(b) ==
  /\ boot[b].at = "drop" /\ Free(b)
  /\ Becomes(b, [boot[b] EXCEPT !.at = "rest"])
  /\ UNCHANGED <<tables, world>>

\* ... and then the canonical ones, behind every open reader; the workbook
\* fills them with the edition of the day.
DropRest(b) ==
  /\ boot[b].at = "rest" /\ Free(b)
  /\ \E edition \in Editions :
       /\ edition >= timetable
       /\ Becomes(b, [boot[b] EXCEPT !.at = "match", !.edition = edition])
  /\ UNCHANGED <<tables, world>>

\* build_summaries(): the routes and their stops are read, and each stop is
\* matched unless its mapping is hand-made.
MatchStops(b) ==
  /\ boot[b].at = "match" /\ Free(b)
  /\ Becomes(b, [boot[b] EXCEPT
       !.at = "upsert",
       !.edition = IF Loading(b) THEN @ ELSE timetable,
       !.kept = {o \in OntdStops : mappings[o].byHand},
       !.ids = [o \in OntdStops |-> IF mappings[o].byHand THEN mappings[o].tn ELSE Match[stops][o]]])
  /\ UNCHANGED <<tables, world>>

\* The upserts wait for the rows of another transaction; then the legs are
\* routed, or not when the loader does not ask or the router is down.
Upsert(b) ==
  /\ boot[b].at = "upsert" /\ Free(b)
  /\ Becomes(b, [boot[b] EXCEPT !.at = IF Loading(b) THEN "write" ELSE "lock",
                                !.routed = router /\ ~Loading(b)])
  /\ UNCHANGED <<tables, world>>

\* TRUNCATE waits for a loader, which may wait for this reader.
LockSummaries(b) ==
  /\ boot[b].at = "lock" /\ Free(b)
  /\ Becomes(b, [boot[b] EXCEPT !.at = "write"])
  /\ UNCHANGED <<tables, world>>

\* Mutant: the upsert does not ask what it replaces.
UpsertedOver(b) ==
  [o \in OntdStops |-> IF o \in RowsOf(b) THEN [tn |-> boot[b].ids[o], byHand |-> FALSE]
                       ELSE mappings[o]]

\* A mapping made by hand since the rows were read is not replaced; a stop
\* without a match keeps the row it has.
Upserted(b) ==
  [o \in OntdStops |-> IF o \in RowsOf(b) /\ ~mappings[o].byHand
                       THEN [tn |-> boot[b].ids[o], byHand |-> FALSE] ELSE mappings[o]]

Commit(b) ==
  LET step == IF "timetable" \in boot[b].todo THEN "timetable" ELSE "projection"
  IN  /\ boot[b].at = "write"
      /\ timetable' = IF step = "timetable" THEN boot[b].edition ELSE timetable
      /\ summaries' = [of |-> boot[b].edition, routed |-> boot[b].routed, ids |-> boot[b].ids]
      /\ mappings' = Upserted(b)
      /\ Becomes(b, GoesOn(boot[b].todo \ {step}))
      /\ UNCHANGED <<curated, world>>

\* A loader waits for a reader that waits for the loader: PostgreSQL aborts one,
\* its step fails and its run stops.
DeadlockVictim(b) ==
  /\ \E o \in Booters \ {b} : WaitsFor(b, o) /\ WaitsFor(o, b)
  /\ Becomes(b, Off)
  /\ UNCHANGED <<tables, world>>

-----------------------------------------------------------------------------
(* composition_loader.py                                                   *)

\* Without routes, or with something in the curated tables, it exits.
CheckCurated(b) ==
  /\ boot[b].at = "check" /\ Free(b)
  /\ IF timetable # 0 /\ \A e \in Entries : curated[e] = "none"
     THEN Becomes(b, [boot[b] EXCEPT !.at = "import"])
     ELSE Becomes(b, Off)
  /\ UNCHANGED <<tables, world>>

\* ON CONFLICT DO NOTHING
Imported == [e \in Entries |-> IF curated[e] = "none" THEN "sheet" ELSE curated[e]]

Import(b) ==
  /\ boot[b].at = "import"
  /\ curated' = Imported
  /\ Becomes(b, GoesOn(boot[b].todo \ {"catalog"}))
  /\ UNCHANGED <<timetable, summaries, mappings, world>>

-----------------------------------------------------------------------------
(* What happens around the runs.                                           *)

\* seed.py drops and refills input_params, and the base moves on.
Reseed ==
  /\ Disturb
  /\ stops + 1 \in Version
  /\ stops' = stops + 1
  /\ UNCHANGED <<tables, router, boot>>

RouterDown ==
  /\ Disturb
  /\ router /\ router' = FALSE
  /\ UNCHANGED <<tables, stops, boot>>

RouterUp ==
  /\ ~router /\ router' = TRUE
  /\ UNCHANGED <<tables, stops, disturbances, boot>>

\* A mapping is corrected by hand; the row may be held by an upsert.
CorrectMapping(o) ==
  /\ Disturb
  /\ \A b \in Booters : o \notin RowsOf(b)
  /\ \E s \in Catalogs[stops] : mappings' = [mappings EXCEPT ![o] = [tn |-> s, byHand |-> TRUE]]
  /\ UNCHANGED <<timetable, summaries, curated, stops, router, boot>>

EditCatalog(e) ==
  /\ Disturb
  /\ curated' = [curated EXCEPT ![e] = "hand"]
  /\ UNCHANGED <<timetable, summaries, mappings, stops, router, boot>>

\* seed.py leaves the tables of the schema empty.
Init ==
  /\ timetable = 0
  /\ summaries = [of |-> 0, routed |-> FALSE, ids |-> Off.ids]
  /\ mappings = [o \in OntdStops |-> [tn |-> NoStop, byHand |-> FALSE]]
  /\ curated = [e \in Entries |-> "none"]
  /\ stops = 1
  /\ router = TRUE
  /\ boot = [b \in Booters |-> Off]
  /\ disturbances = 0

Run(b) ==
  \/ ReadFact(b)
  \/ Drop(b) \/ DropRest(b)
  \/ MatchStops(b) \/ Upsert(b) \/ LockSummaries(b) \/ Commit(b) \/ DeadlockVictim(b)
  \/ CheckCurated(b) \/ Import(b)

Next ==
  \/ \E b \in Booters :
       Start(b) \/ Run(b) \/ ForceStart(b) \/ FactSkipped(b) \/ Stops(b)
  \/ Reseed \/ RouterDown \/ RouterUp
  \/ \E o \in OntdStops : CorrectMapping(o)
  \/ \E e \in Entries : EditCatalog(e)

Spec == Init /\ [][Next]_vars

\* A run's processes go on and locks are granted in the order they are asked
\* for, containers are started again some day, and the router comes back.
Fairness ==
  /\ \A b \in Booters : SF_vars(Run(b))
  /\ WF_vars(\E b \in Booters : Start(b))
  /\ WF_vars(RouterUp)

FairSpec == Spec /\ Fairness

-----------------------------------------------------------------------------

TypeOK ==
  /\ timetable \in Editions \cup {0}
  /\ summaries \in [of : Editions \cup {0}, routed : BOOLEAN, ids : Ids]
  /\ mappings \in [OntdStops -> [tn : TnStops \cup {NoStop}, byHand : BOOLEAN]]
  /\ curated \in [Entries -> {"none", "sheet", "hand"}]
  /\ stops \in Version
  /\ router \in BOOLEAN
  /\ disturbances \in 0 .. MaxDisturbances
  /\ boot \in [Booters -> [at : Phases, force : BOOLEAN, facts : SUBSET Reading,
                           todo : SUBSET StepNames, edition : Editions \cup {0},
                           kept : SUBSET OntdStops, ids : Ids, routed : BOOLEAN]]

\* The summaries tell of the timetable that is loaded, though a projection
\* reads it minutes before it writes and a loader may run beside it.
SummariesFollowTimetable == TypeOK /\ summaries.of = timetable

\* A hand-made mapping is only ever changed by hand, also when it is made
\* while a rebuild is under way.
HandMappingsStay ==
  [][\A o \in OntdStops :
       mappings[o].byHand => mappings'[o] = mappings[o] \/ CorrectMapping(o)]_vars

\* What was edited in the curated tables survives every import.
CurationStays ==
  [][\A e \in Entries : curated[e] = "hand" => curated'[e] = "hand"]_vars

\* Neither an import nor a projection undoes a curator's work.
HandWorkStays == HandMappingsStay /\ CurationStays

\* Nothing to do: routed summaries, live mappings, and no run that has found
\* otherwise.
Settled ==
  /\ summaries.of # 0 /\ summaries.routed /\ ~StaleMappings
  /\ \A b \in Booters :
       /\ boot[b].at \in Reading \cup {"off"} /\ ~boot[b].force
       /\ boot[b].facts \subseteq {"loaded"}
       /\ boot[b].at \in {"stale", "unrouted", "cataloged"} => boot[b].facts = {"loaded"}

\* A container restart costs a settled database nothing.
RestartsCostNothing ==
  [][Settled /\ disturbances' = disturbances => Settled' /\ UNCHANGED tables]_vars

\* Whatever failed, later starts give every existing train its route, and stop
\* ids that left the catalog leave the gallery, but for hand-made mappings.
RepairedInTheEnd ==
  /\ <>[](summaries.of # 0 /\ summaries.routed)
  /\ <>[](\A o \in OntdStops :
           mappings[o].byHand \/ summaries.ids[o] \in Catalogs[stops] \cup {NoStop})
==============================================================================
