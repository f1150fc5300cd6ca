--------------------------- MODULE ProposalTables ---------------------------
(***************************************************************************)
(* The rows one published proposal owns in PostgreSQL, and the writes and  *)
(* reads of backend/adapters/proposal/repository.py over them, as          *)
(* operators on one record per proposal.  A transaction of the repository  *)
(* is one application of WriteState, ReplaceScenarioSummaries or           *)
(* RebuildCorridors; ProposalStore.tla says who runs them and when.        *)
(*                                                                         *)
(* Data abstraction.  compute_member() is a function of the resolved       *)
(* request, the scenario variant and the code that ran, so a computed      *)
(* route with its evaluation is the record of those three (a Member).      *)
(* Every table that stores something derived from a member stores the      *)
(* Member here: that is what lets a property say "this row describes that  *)
(* state of the proposal".                                                 *)
(***************************************************************************)
EXTENDS Integers, Sequences, FiniteSets

CONSTANTS
  Users,      \* admin.users.user_id
  Guests,     \* the users without an email address
  Names,      \* proposal display names
  Requests,   \* resolved compute requests: stops, HOW fields, composition
  Bases,      \* ids of the successive base scenarios (positive integers)
  WhatIfs,    \* ids of the other current scenario variants
  Releases,   \* sequence of [route_builder, calc]: the versions each build carries
  Unroutable, \* <<request, variant>> pairs the family cannot compute
  None        \* SQL NULL / no such row

ASSUME VariantsAssumption ==
  /\ Bases \subseteq Nat \ {0}
  /\ WhatIfs \subseteq Nat \ {0}
  /\ Bases \cap WhatIfs = {}
  /\ Bases # {}

ASSUME GuestsAssumption == Guests \subseteq Users

ASSUME ReleasesAssumption ==
  /\ Releases \in Seq([route_builder : Nat, calc : Nat])
  /\ Len(Releases) > 0

-----------------------------------------------------------------------------
(* Row types.                                                              *)

\* scenario.scenario_variants: a base scenario is identified with its own
\* empty-measure-set variant.
Variants == Bases \cup WhatIfs

\* scenario_variant_id IS NULL in proposal_corridors: the base projection.
BaseLine == 0

Lines == Variants \cup {BaseLine}

Builds == 1 .. Len(Releases)

Version == Nat \ {0}

Member == [request : Requests, variant : Variants, build : Builds]

\* proposals.proposals, and the identity columns of proposal_summaries.
Container == [version : Version, owner : Users, name : Names, member : Member]

\* One GTFS generation: routes/trips/segments/shapes under P{id}_V{version}_R1.
Generation == [version : Version, member : Member]

\* A row compute_scenario_rows() returns, before it is stored.
ComputedRow == [member : Member, status : {"ok", "error"}]

ScenarioRow == [version : Version, member : Member, status : {"ok", "error"}]

CorridorRow == [version : Version, member : Member]

Proposal ==
  [container : Container,
   gtfs      : SUBSET Generation,
   summary   : Container,
   scenarios : [Variants -> ScenarioRow \cup {None}],
   corridors : [Lines -> CorridorRow \cup {None}]]

\* None stands for SQL NULL and for a missing row: it is no record.
ASSUME NoneAssumption ==
  /\ None \notin Member
  /\ None \notin Container
  /\ None \notin Proposal
  /\ None \notin ScenarioRow
  /\ None \notin CorridorRow
  /\ None \notin ComputedRow

NoRows == [v \in Variants |-> None]

NoCorridors == [k \in Lines |-> None]

-----------------------------------------------------------------------------
(* Staleness.                                                              *)

\* outdated_trigger(): the first trigger that applies, or None.
OutdatedTrigger(member, build, base) ==
  CASE Releases[member.build].route_builder # Releases[build].route_builder
         -> "route_builder_version"
    [] /\ Releases[member.build].route_builder = Releases[build].route_builder
       /\ Releases[member.build].calc # Releases[build].calc
         -> "calc_version"
    [] /\ Releases[member.build] = Releases[build]
       /\ member.variant # base
         -> "base_scenario_moved"
    [] OTHER -> None

\* Mutant: the batch looks at the code versions only.
OutdatedCode(p, build, base) ==
  \/ Releases[p.container.member.build].route_builder # Releases[build].route_builder
  \/ Releases[p.container.member.build].calc # Releases[build].calc

\* The WHERE clause of list_outdated().
Outdated(p, build, base) ==
  \/ Releases[p.container.member.build].route_builder # Releases[build].route_builder
  \/ Releases[p.container.member.build].calc # Releases[build].calc
  \/ p.container.member.variant # base

\* The `covered` count of list_scenario_backfill(): rows at the container's
\* version and the running code versions, of a current variant.
Covered(p, build, current) ==
  {v \in current :
     /\ p.scenarios[v] # None
     /\ p.scenarios[v].version = p.container.version
     /\ Releases[p.scenarios[v].member.build] = Releases[build]}

NeedsScenarioRows(p, build, current) ==
  Cardinality(Covered(p, build, current)) < Cardinality(current)

-----------------------------------------------------------------------------
(* Writes: what one statement group of a transaction leaves behind.        *)

\* compute_scenario_rows(): one row per current variant, an error row for a
\* variant whose routing graph is not served or that cannot be computed.
Projection(request, build, current, served) ==
  [v \in Variants |->
     IF v \notin current THEN None
     ELSE [member |-> [request |-> request, variant |-> v, build |-> build],
           status |-> IF v \in served /\ <<request, v>> \notin Unroutable
                      THEN "ok" ELSE "error"]]

\* Mutant: the prune looks for the new version's prefix.
PruneNew(gtfs, oldVersion) == {g \in gtfs : g.version # oldVersion + 1}

\* _prune_gtfs(): the rows under the previous version's id prefix.
PruneGtfs(gtfs, oldVersion) == {g \in gtfs : g.version # oldVersion}

\* Mutant: error rows are not stored.
OkRowsOnly(version, rows) ==
  [v \in Variants |->
     IF rows[v] = None \/ rows[v].status = "error" THEN None
     ELSE [version |-> version, member |-> rows[v].member, status |-> "ok"]]

\* _replace_scenario_summaries(): delete all, insert `rows` at `version`.
ScenarioSummaries(version, rows) ==
  [v \in Variants |->
     IF rows[v] = None THEN None
     ELSE [version |-> version, member |-> rows[v].member,
           status |-> rows[v].status]]

\* _replace_corridors(): the base line from the stored GTFS generation of
\* `version`, every other line from an ok scenario row of `version`.
Corridors(gtfs, scenarios, version) ==
  [k \in Lines |->
     IF k = BaseLine
     THEN IF \E g \in gtfs : g.version = version
          THEN [version |-> version,
                member  |-> (CHOOSE g \in gtfs : g.version = version).member]
          ELSE None
     ELSE IF /\ scenarios[k] # None
             /\ scenarios[k].version = version
             /\ scenarios[k].status = "ok"
          THEN [version |-> version, member |-> scenarios[k].member]
          ELSE None]

\* _write_state(): one whole stored state, replacing whatever `gtfs` held.
WriteState(gtfs, version, owner, name, member, rows) ==
  LET row       == [version |-> version, owner |-> owner, name |-> name,
                    member |-> member]
      newGtfs   == PruneGtfs(gtfs, version - 1)
                     \cup {[version |-> version, member |-> member]}
      scenarios == ScenarioSummaries(version, rows)
  IN  [container |-> row,
       gtfs      |-> newGtfs,
       summary   |-> row,
       scenarios |-> scenarios,
       corridors |-> Corridors(newGtfs, scenarios, version)]

\* replace_scenario_summaries(): the backfill's write.
ReplaceScenarioSummaries(p, version, rows) ==
  LET scenarios == ScenarioSummaries(version, rows)
  IN  [p EXCEPT !.scenarios = scenarios,
                !.corridors = Corridors(p.gtfs, scenarios, version)]

\* The row UPDATE proposals.proposals SET user_id of merge_guest_into()
\* leaves: no other table of the proposal is touched.
ClaimProposal(p, user) == [p EXCEPT !.container.owner = user]

\* rebuild_corridors(): the corridor data task's write.
RebuildCorridors(p, version) ==
  [p EXCEPT !.corridors = Corridors(p.gtfs, p.scenarios, version)]

-----------------------------------------------------------------------------
(* Reads.                                                                  *)

\* Mutant: the gap query forgets the base projection.
VariantGap(p) ==
  \E v \in Variants :
    /\ p.scenarios[v] # None
    /\ p.scenarios[v].version = p.summary.version
    /\ p.scenarios[v].status = "ok"
    /\ p.corridors[v] = None

\* _CORRIDOR_GAPS_SQL.
CorridorGap(p) ==
  \/ /\ \E g \in p.gtfs : g.version = p.summary.version
     /\ \/ p.corridors[BaseLine] = None
        \/ p.corridors[BaseLine].version # p.summary.version
  \/ \E v \in Variants :
       /\ p.scenarios[v] # None
       /\ p.scenarios[v].version = p.summary.version
       /\ p.scenarios[v].status = "ok"
       /\ \/ p.corridors[v] = None
          \/ p.corridors[v].version # p.summary.version

\* map_lines() answered from proposal_corridors: what the proposal
\* contributes on line k, or None.
StoredLine(p, k) ==
  IF /\ k = BaseLine \/ (p.scenarios[k] # None /\ p.scenarios[k].status = "ok")
     /\ p.corridors[k] # None
     /\ p.corridors[k].version = p.summary.version
  THEN p.corridors[k].member
  ELSE None

\* _map_lines_derived(): the same contribution at request time.
DerivedLine(p, k) ==
  IF k = BaseLine
  THEN IF \E g \in p.gtfs : g.version = p.summary.version
       THEN (CHOOSE g \in p.gtfs : g.version = p.summary.version).member
       ELSE None
  ELSE IF p.scenarios[k] # None /\ p.scenarios[k].status = "ok"
       THEN p.scenarios[k].member
       ELSE None

-----------------------------------------------------------------------------
(* Consistency.                                                            *)

\* All the rows of a proposal describe one state of it: the gallery card is
\* the container's but for the owner, exactly one GTFS generation is stored
\* and it is the container's, no scenario or corridor row is of another
\* version, and the corridors were cut from the rows that are stored.
RowsAgree(p) ==
  /\ p.summary.version = p.container.version
  /\ p.summary.name = p.container.name
  /\ p.summary.member = p.container.member
  /\ p.gtfs = {[version |-> p.container.version, member |-> p.container.member]}
  /\ \A v \in Variants :
       p.scenarios[v] # None =>
         /\ p.scenarios[v].version = p.container.version
         /\ p.scenarios[v].member.variant = v
  /\ \A k \in Lines :
       p.corridors[k] # None =>
         /\ p.corridors[k].version = p.container.version
         /\ p.corridors[k].member = DerivedLine(p, k)
=============================================================================
