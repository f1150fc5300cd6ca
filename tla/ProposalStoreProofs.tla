------------------------- MODULE ProposalStoreProofs -------------------------
(***************************************************************************)
(* The store, proved for every value of the constants: what its writes     *)
(* leave behind, the invariants of the threads that make them, and the     *)
(* artifact it implements.  TypeOK, LockDiscipline and TablesAgree are not *)
(* inductive by themselves: a commit writes what its job carries, so the   *)
(* inductive invariant also says what a job carries in each of its phases. *)
(***************************************************************************)
EXTENDS ProposalView, FiniteSetTheorems, TLAPS

-----------------------------------------------------------------------------
(***************************************************************************)
(* What the writes of ProposalTables leave behind: the stored rows have    *)
(* their types and all describe one state.                                 *)
(***************************************************************************)

\* Rows a job carries: of current variants, each computed for its variant.
ComputedRows ==
  {rows \in [Variants -> ComputedRow \cup {None}] :
     \A v \in Variants : rows[v] # None => rows[v].member.variant = v}

-----------------------------------------------------------------------------

\* compute_scenario_rows() returns one well-typed row per current variant,
\* each computed for the variant it is filed under.
LEMMA ProjectionType ==
  ASSUME NEW request \in Requests, NEW build \in Builds,
         NEW current, NEW routed
  PROVE  Projection(request, build, current, routed) \in ComputedRows
<1> DEFINE rows == Projection(request, build, current, routed)
<1>1. rows \in [Variants -> ComputedRow \cup {None}]
  BY DEF Projection, ComputedRow, Member
<1>2. ASSUME NEW v \in Variants, rows[v] # None
      PROVE  rows[v].member.variant = v
  BY <1>2 DEF Projection
<1> QED  BY <1>1, <1>2 DEF ComputedRows

\* No rows at all are rows a job can carry.
LEMMA NoRowsType == NoRows \in ComputedRows
BY DEF NoRows, ComputedRows

\* _replace_scenario_summaries() stores rows of the given version only, each
\* under its variant.
LEMMA ScenarioSummariesType ==
  ASSUME NEW version \in Version, NEW rows \in ComputedRows
  PROVE  LET stored == ScenarioSummaries(version, rows)
         IN  /\ stored \in [Variants -> ScenarioRow \cup {None}]
             /\ \A v \in Variants :
                  stored[v] # None => /\ stored[v].version = version
                                      /\ stored[v].member.variant = v
<1> DEFINE stored == ScenarioSummaries(version, rows)
<1>1. ASSUME NEW v \in Variants
      PROVE  /\ stored[v] \in ScenarioRow \cup {None}
             /\ stored[v] # None => /\ stored[v].version = version
                                    /\ stored[v].member.variant = v
  <2>1. CASE rows[v] = None
    BY <2>1 DEF ScenarioSummaries
  <2>2. CASE rows[v] # None
    <3>1. rows[v] \in ComputedRow /\ rows[v].member.variant = v
      BY <2>2 DEF ComputedRows
    <3>2. stored[v] = [version |-> version, member |-> rows[v].member,
                       status |-> rows[v].status]
      BY <2>2 DEF ScenarioSummaries
    <3> QED  BY <3>1, <3>2 DEF ComputedRow, ScenarioRow
  <2> QED  BY <2>1, <2>2
<1>2. stored = [v \in Variants |-> stored[v]]
  BY DEF ScenarioSummaries
<1> QED  BY <1>1, <1>2

\* Among one stored generation, the one a read by its version chooses is it.
LEMMA OnlyGeneration ==
  ASSUME NEW version, NEW member
  PROVE  LET one == [version |-> version, member |-> member]
         IN  (CHOOSE g \in {one} : g.version = version) = one
<1> DEFINE one == [version |-> version, member |-> member]
<1>1. \E g \in {one} : g.version = version
  OBVIOUS
<1>2. (CHOOSE g \in {one} : g.version = version) \in {one}
  BY <1>1
<1> QED  BY <1>2

\* The corridors of one stored generation and the scenario rows beside it.
LinesOf(version, member, scenarios) ==
  Corridors({[version |-> version, member |-> member]}, scenarios, version)

\* The member line k is cut from, or None.
LineMember(member, scenarios, k) ==
  IF k = BaseLine THEN member
  ELSE IF scenarios[k] # None /\ scenarios[k].status = "ok"
       THEN scenarios[k].member ELSE None

\* _replace_corridors() stores lines of the given version only, the base line
\* from the generation, every other from its ok scenario row.
LEMMA CorridorsType ==
  ASSUME NEW version \in Version, NEW member \in Member,
         NEW scenarios \in [Variants -> ScenarioRow \cup {None}],
         \A v \in Variants : scenarios[v] # None => scenarios[v].version = version,
         NEW k0 \in Lines
  PROVE  LET lines == LinesOf(version, member, scenarios)
         IN  /\ lines \in [Lines -> CorridorRow \cup {None}]
             /\ lines[k0] # None =>
                  /\ lines[k0].version = version
                  /\ lines[k0].member = LineMember(member, scenarios, k0)
<1> DEFINE stored == LinesOf(version, member, scenarios)
<1>1. BaseLine \notin Variants /\ Lines = Variants \cup {BaseLine}
  BY VariantsAssumption DEF Variants, Lines, BaseLine
<1>2. stored[BaseLine] = [version |-> version, member |-> member]
  BY <1>1, OnlyGeneration DEF LinesOf, Corridors
<1>3. ASSUME NEW k \in Variants
      PROVE  stored[k] = IF scenarios[k] # None /\ scenarios[k].status = "ok"
                         THEN [version |-> version, member |-> scenarios[k].member]
                         ELSE None
  BY <1>1, <1>3 DEF LinesOf, Corridors
<1>4. ASSUME NEW k \in Variants PROVE stored[k] \in CorridorRow \cup {None}
  <2>1. CASE scenarios[k] # None /\ scenarios[k].status = "ok"
    <3>1. scenarios[k].member \in Member
      BY <2>1 DEF ScenarioRow
    <3>2. stored[k] = [version |-> version, member |-> scenarios[k].member]
      BY <1>3, <2>1
    <3> QED  BY <3>1, <3>2 DEF CorridorRow
  <2>2. CASE ~(scenarios[k] # None /\ scenarios[k].status = "ok")
    BY <1>3, <2>2
  <2> QED  BY <2>1, <2>2
<1>5. stored[BaseLine] \in CorridorRow
  BY <1>2 DEF CorridorRow
<1>6. stored = [k \in Lines |-> stored[k]]
  BY DEF LinesOf, Corridors
<1>7. stored \in [Lines -> CorridorRow \cup {None}]
  BY <1>1, <1>4, <1>5, <1>6
<1>8. ASSUME NEW k \in Lines, stored[k] # None
      PROVE  /\ stored[k].version = version
             /\ stored[k].member = LineMember(member, scenarios, k)
  <2>1. CASE k = BaseLine
    BY <1>2, <2>1 DEF LineMember
  <2>2. CASE k # BaseLine
    <3>1. k \in Variants
      BY <1>1, <2>2
    <3>2. stored[k] = IF scenarios[k] # None /\ scenarios[k].status = "ok"
                      THEN [version |-> version, member |-> scenarios[k].member]
                      ELSE None
      BY <1>3, <3>1
    <3>3. scenarios[k] # None /\ scenarios[k].status = "ok"
      BY <1>8, <3>2
    <3>4. stored[k] = [version |-> version, member |-> scenarios[k].member]
      BY <3>2, <3>3
    <3> QED  BY <2>2, <3>3, <3>4 DEF LineMember
  <2> QED  BY <2>1, <2>2
<1> QED  BY <1>7, <1>8

-----------------------------------------------------------------------------
(* The shape every transaction leaves: one container, its generation, rows *)
(* of its version, and the corridors cut from the two.                     *)

OneStateOf(container, card, scenarios) ==
  [container |-> container,
   gtfs      |-> {[version |-> container.version, member |-> container.member]},
   summary   |-> card,
   scenarios |-> scenarios,
   corridors |-> LinesOf(container.version, container.member, scenarios)]

\* The gallery cards that show a container, under whatever owner.
CardsOf(container) ==
  {card \in Container : /\ card.version = container.version
                        /\ card.name = container.name
                        /\ card.member = container.member}

\* Scenario rows of one version, each under its variant.
RowsOf(version) ==
  {scenarios \in [Variants -> ScenarioRow \cup {None}] :
     \A v \in Variants :
       scenarios[v] # None => /\ scenarios[v].version = version
                              /\ scenarios[v].member.variant = v}

\* Of that shape, line k is derived from the member it was cut from.
LEMMA DerivedOfOneState ==
  ASSUME NEW container \in Container, NEW card \in CardsOf(container),
         NEW scenarios, NEW k \in Lines
  PROVE  DerivedLine(OneStateOf(container, card, scenarios), k)
           = LineMember(container.member, scenarios, k)
<1> DEFINE version == container.version
           one     == [version |-> version, member |-> container.member]
           p       == OneStateOf(container, card, scenarios)
<1>1. (CHOOSE g \in {one} : g.version = version) = one
  BY OnlyGeneration
<1>2. p.gtfs = {one} /\ p.summary.version = version /\ p.scenarios = scenarios
  BY DEF OneStateOf, CardsOf
<1>3. DerivedLine(p, k) = LineMember(container.member, scenarios, k)
  <2> HIDE DEF p
  <2>1. CASE k = BaseLine
    BY <1>1, <1>2, <2>1 DEF DerivedLine, LineMember
  <2>2. CASE k # BaseLine
    BY <1>2, <2>2 DEF DerivedLine, LineMember
  <2> QED  BY <2>1, <2>2
<1> QED  BY <1>3

\* That shape is well typed, and its rows agree.
LEMMA OneStateAgrees ==
  ASSUME NEW container \in Container, NEW card \in CardsOf(container),
         NEW scenarios \in RowsOf(container.version)
  PROVE  /\ OneStateOf(container, card, scenarios) \in Proposal
         /\ RowsAgree(OneStateOf(container, card, scenarios))
<1> DEFINE version == container.version
           member  == container.member
           lines   == LinesOf(version, member, scenarios)
           p       == OneStateOf(container, card, scenarios)
<1>1. version \in Version /\ member \in Member
  BY DEF Container
<1>2. /\ scenarios \in [Variants -> ScenarioRow \cup {None}]
      /\ \A v \in Variants :
           scenarios[v] # None => /\ scenarios[v].version = version
                                  /\ scenarios[v].member.variant = v
  BY DEF RowsOf
<1>3. ASSUME NEW k \in Lines
      PROVE  /\ lines \in [Lines -> CorridorRow \cup {None}]
             /\ lines[k] # None =>
                  /\ lines[k].version = version
                  /\ lines[k].member = LineMember(member, scenarios, k)
  BY <1>1, <1>2, CorridorsType
<1>4. BaseLine \in Lines
  BY DEF Lines
<1>5. p = [container |-> container,
           gtfs |-> {[version |-> version, member |-> member]},
           summary |-> card, scenarios |-> scenarios, corridors |-> lines]
  BY DEF OneStateOf
<1>12. /\ card \in Container /\ card.version = version
       /\ card.name = container.name /\ card.member = member
  BY DEF CardsOf
<1>6. {[version |-> version, member |-> member]} \in SUBSET Generation
  BY <1>1 DEF Generation
<1>7. \A k \in Lines : DerivedLine(p, k) = LineMember(member, scenarios, k)
  BY DerivedOfOneState
<1> HIDE DEF p, lines
<1>8. p \in Proposal
  BY <1>2, <1>3, <1>4, <1>5, <1>6, <1>12 DEF Proposal
<1>9. \A v \in Variants :
        p.scenarios[v] # None => /\ p.scenarios[v].version = p.container.version
                                 /\ p.scenarios[v].member.variant = v
  BY <1>2, <1>5
<1>10. ASSUME NEW k \in Lines, p.corridors[k] # None
       PROVE  /\ p.corridors[k].version = p.container.version
              /\ p.corridors[k].member = DerivedLine(p, k)
  <2>1. p.corridors = lines /\ p.container.version = version
    BY <1>5
  <2> QED  BY <1>3, <1>7, <1>10, <2>1
<1>11. RowsAgree(p)
  BY <1>5, <1>9, <1>10, <1>12 DEF RowsAgree
<1> QED  BY <1>8, <1>11 DEF p

-----------------------------------------------------------------------------
(* Every write leaves that shape.                                          *)

\* _write_state(), over the generation of the state before it: the prune
\* leaves none of it, so only the new one is stored.
LEMMA WriteStateAgrees ==
  ASSUME NEW gtfs, NEW version \in Version, NEW owner \in Users,
         NEW name \in Names, NEW member \in Member, NEW rows \in ComputedRows,
         \A g \in gtfs : g.version = version - 1
  PROVE  LET p == WriteState(gtfs, version, owner, name, member, rows)
         IN  /\ p \in Proposal
             /\ RowsAgree(p)
             /\ p.container = [version |-> version, owner |-> owner,
                               name |-> name, member |-> member]
             /\ p.summary = p.container
<1> DEFINE row  == [version |-> version, owner |-> owner, name |-> name,
                    member |-> member]
           scenarios == ScenarioSummaries(version, rows)
           p    == WriteState(gtfs, version, owner, name, member, rows)
<1>1. row \in Container /\ row.version = version /\ row.member = member
  BY DEF Container
<1>2. PruneGtfs(gtfs, version - 1) = {}
  BY DEF PruneGtfs
<1>3. scenarios \in RowsOf(row.version)
  BY <1>1, ScenarioSummariesType DEF RowsOf
<1>4. p = OneStateOf(row, row, scenarios)
  BY <1>1, <1>2 DEF WriteState, OneStateOf, LinesOf
<1>6. row \in CardsOf(row)
  BY <1>1 DEF CardsOf
<1>5. /\ OneStateOf(row, row, scenarios).container = row
      /\ OneStateOf(row, row, scenarios).summary = row
  BY DEF OneStateOf
<1> QED  BY <1>1, <1>3, <1>4, <1>5, <1>6, OneStateAgrees

\* replace_scenario_summaries() at the stored version keeps the container.
LEMMA ReplaceAgrees ==
  ASSUME NEW p \in Proposal, RowsAgree(p), NEW rows \in ComputedRows
  PROVE  LET new == ReplaceScenarioSummaries(p, p.container.version, rows)
         IN  /\ new \in Proposal
             /\ RowsAgree(new)
             /\ new.container = p.container /\ new.gtfs = p.gtfs
             /\ new.summary = p.summary
<1> DEFINE version   == p.container.version
           scenarios == ScenarioSummaries(version, rows)
           new       == ReplaceScenarioSummaries(p, version, rows)
<1>1. p.container \in Container /\ version \in Version
  BY DEF Proposal, Container
<1>2. scenarios \in RowsOf(version)
  BY <1>1, ScenarioSummariesType DEF RowsOf
<1>3. /\ p.summary \in CardsOf(p.container)
      /\ p.gtfs = {[version |-> version, member |-> p.container.member]}
  BY DEF RowsAgree, CardsOf, Proposal
<1>4. new = OneStateOf(p.container, p.summary, scenarios)
  <2>1. Corridors(p.gtfs, scenarios, version)
          = LinesOf(version, p.container.member, scenarios)
    BY <1>3 DEF LinesOf
  <2>2. new = [p EXCEPT !.scenarios = scenarios,
                        !.corridors = LinesOf(version, p.container.member, scenarios)]
    BY <2>1 DEF ReplaceScenarioSummaries
  <2> HIDE DEF scenarios, new
  <2> QED  BY <1>3, <2>2 DEF OneStateOf, Proposal
<1>5. /\ OneStateOf(p.container, p.summary, scenarios).container = p.container
      /\ OneStateOf(p.container, p.summary, scenarios).gtfs = p.gtfs
      /\ OneStateOf(p.container, p.summary, scenarios).summary = p.summary
  BY <1>3 DEF OneStateOf
<1> QED  BY <1>1, <1>2, <1>3, <1>4, <1>5, OneStateAgrees

\* rebuild_corridors() at the stored version, likewise.
LEMMA RebuildAgrees ==
  ASSUME NEW p \in Proposal, RowsAgree(p)
  PROVE  LET new == RebuildCorridors(p, p.container.version)
         IN  /\ new \in Proposal
             /\ RowsAgree(new)
             /\ new.container = p.container /\ new.gtfs = p.gtfs
             /\ new.summary = p.summary
<1> DEFINE version == p.container.version
           new     == RebuildCorridors(p, version)
<1>1. p.container \in Container /\ p.scenarios \in RowsOf(version)
  BY DEF Proposal, RowsAgree, RowsOf
<1>2. /\ p.summary \in CardsOf(p.container)
      /\ p.gtfs = {[version |-> version, member |-> p.container.member]}
  BY DEF RowsAgree, CardsOf, Proposal
<1>3. new = OneStateOf(p.container, p.summary, p.scenarios)
  BY <1>2 DEF RebuildCorridors, OneStateOf, LinesOf, Proposal
<1>4. /\ OneStateOf(p.container, p.summary, p.scenarios).container = p.container
      /\ OneStateOf(p.container, p.summary, p.scenarios).gtfs = p.gtfs
      /\ OneStateOf(p.container, p.summary, p.scenarios).summary = p.summary
  BY <1>2 DEF OneStateOf
<1> QED  BY <1>1, <1>2, <1>3, <1>4, OneStateAgrees

\* A merge moves the container's owner and leaves every other row.
LEMMA ClaimAgrees ==
  ASSUME NEW p \in Proposal, RowsAgree(p), NEW user \in Users
  PROVE  LET new == ClaimProposal(p, user)
         IN  /\ new \in Proposal
             /\ RowsAgree(new)
             /\ new.container.owner = user
             /\ new.container.version = p.container.version
             /\ new.container.name = p.container.name
             /\ new.container.member = p.container.member
             /\ new.gtfs = p.gtfs /\ new.summary = p.summary
<1> DEFINE row == [p.container EXCEPT !.owner = user]
           new == ClaimProposal(p, user)
<1>1. /\ row \in Container /\ row.version = p.container.version
      /\ row.owner = user /\ row.name = p.container.name
      /\ row.member = p.container.member
  BY DEF Proposal, Container
<1>2. new = [p EXCEPT !.container = row]
  BY DEF ClaimProposal
<1> HIDE DEF row, new
<1>3. /\ new \in Proposal /\ new.container = row /\ new.gtfs = p.gtfs
      /\ new.summary = p.summary /\ new.scenarios = p.scenarios
      /\ new.corridors = p.corridors
  BY <1>1, <1>2 DEF Proposal
<1>4. \A k \in Lines : DerivedLine(new, k) = DerivedLine(p, k)
  BY <1>3 DEF DerivedLine
<1>5. RowsAgree(new)
  BY <1>1, <1>3, <1>4 DEF RowsAgree
<1> QED  BY <1>1, <1>3, <1>5 DEF new

-----------------------------------------------------------------------------
(***************************************************************************)
(* The threads of ProposalStore.                                           *)
(***************************************************************************)

\* What a job carries, by kind and phase.
JobCarries(j) ==
  /\ j.rows \in ComputedRows
  /\ IF j.kind = "publish"
     THEN j.user \in Users /\ j.name \in Names /\ j.request \in Requests
     ELSE /\ j.pid \in Existing
          /\ j.source = None
          /\ j.phase # "locked" => j.user = None /\ j.name = None
          /\ j.phase \in {"accepted", "computed"} => j.request \in Requests
          /\ j.phase = "locked" =>
               /\ j.user \in Users
               /\ j.name = proposals[j.pid].container.name
  /\ j.kind \in Rewrites /\ j.phase \in {"computed", "projected", "locked"}
       => j.member \in Member
  /\ j.phase = "locked" => j.pid \in Pids

\* What a load holds once it has a container row: a state the proposal was
\* in, and rows of that state or none.
LoadCarries(j) ==
  /\ j.phase \in {"reload", "loaded", "trips", "respond"} => j.kind = "load"
  /\ j.phase \in {"loaded", "trips", "respond"} =>
       LET row == proposals[j.pid].container
       IN  /\ j.view \in Container
           /\ j.view.version <= row.version
           /\ j.view.version = row.version => j.view.member = row.member
  /\ j.phase \in {"trips", "respond"} => j.trips = j.view.member
  /\ j.phase = "respond" => j.sidecars \in {j.view.member, None}

JobsCarry ==
  \A t \in Threads : job[t] # None => JobCarries(job[t]) /\ LoadCarries(job[t])

\* Every queued proposal exists.
QueuesExist == \A t \in Threads : \A item \in queue[t] : item.pid \in Existing

\* No id beyond the sequence is used, and no primary event is ahead of its
\* proposal.
Recorded ==
  /\ \A p \in Existing : p <= lastPid
  /\ \A t \in Threads : In(t, "locked") => job[t].pid <= lastPid
  /\ \A p \in Pids : \A l \in Primary(p) :
       p \in Existing /\ l.version <= proposals[p].container.version

\* Only guests are merged, and only into accounts.
MergesKnown ==
  \A u \in Users :
    mergedInto[u] # None => u \in Guests /\ mergedInto[u] \in Users \ Guests

\* The inductive invariant.
IInv ==
  /\ TypeOK
  /\ LockDiscipline
  /\ TablesAgree
  /\ JobsCarry
  /\ QueuesExist
  /\ Recorded
  /\ MergesKnown
  /\ CardOwnerKnown

-----------------------------------------------------------------------------
(* Steps that replace one job and leave the tables and the locks alone.    *)

\* Such a step preserves the invariant if the thread neither held nor takes
\* a row lock and its new job carries what a job of its phase carries.
LEMMA JobStep ==
  ASSUME IInv, NEW t \in Threads, NEW j \in Job \cup {None},
         job' = [job EXCEPT ![t] = j],
         ~In(t, "locked"),
         j # None => j.phase # "locked" /\ JobCarries(j) /\ LoadCarries(j),
         UNCHANGED <<rows_vars, lastPid, rowLock, world_vars, code>>,
         queue' \in [Threads -> SUBSET Item],
         \A s \in Threads : queue'[s] \subseteq queue[s]
  PROVE  IInv'
<1> USE DEF rows_vars, world_vars
<1>1. TypeOK'
  BY DEF IInv, TypeOK
<1>2. \A s \in Threads : job'[s] = IF s = t THEN j ELSE job[s]
  BY DEF IInv, TypeOK
<1>3. Existing' = Existing
  BY DEF Existing
<1>4. LockDiscipline'
  <2>1. ASSUME NEW s \in Threads, In(s, "locked")'
        PROVE  rowLock'[job'[s].pid] = s /\ LockedJobFits(job[s])'
    <3>1. s # t /\ job'[s] = job[s]
      BY <1>2, <2>1 DEF In
    <3>2. rowLock[job[s].pid] = s /\ LockedJobFits(job[s])
      BY <2>1, <3>1 DEF IInv, LockDiscipline, In
    <3> QED  BY <3>1, <3>2 DEF LockedJobFits
  <2>2. ASSUME NEW p \in Pids, rowLock'[p] # None
        PROVE  In(rowLock[p], "locked")' /\ job'[rowLock'[p]].pid = p
    <3>1. rowLock[p] \in Threads /\ In(rowLock[p], "locked")
            /\ job[rowLock[p]].pid = p
      BY <2>2 DEF IInv, TypeOK, LockDiscipline
    <3> QED  BY <1>2, <3>1 DEF In
  <2> QED  BY <2>1, <2>2 DEF LockDiscipline
<1>5. TablesAgree'
  BY <1>3 DEF IInv, TablesAgree
<1>6. JobsCarry'
  <2> SUFFICES ASSUME NEW s \in Threads, job'[s] # None
               PROVE  JobCarries(job[s])' /\ LoadCarries(job[s])'
    BY DEF JobsCarry
  <2>1. JobCarries(job'[s]) /\ LoadCarries(job'[s])
    BY <1>2 DEF IInv, JobsCarry
  <2>2. JobCarries(job[s])'
    BY <1>3, <2>1 DEF JobCarries
  <2>3. LoadCarries(job[s])'
    BY <2>1 DEF LoadCarries
  <2> QED  BY <2>2, <2>3
<1>7. QueuesExist'
  BY <1>3 DEF IInv, QueuesExist
<1>8. Recorded'
  BY <1>2, <1>3 DEF IInv, Recorded, Primary, In
<1>9. MergesKnown' /\ CardOwnerKnown'
  BY <1>3 DEF IInv, MergesKnown, CardOwnerKnown, Acts
<1> QED  BY <1>1, <1>4, <1>5, <1>6, <1>7, <1>8, <1>9 DEF IInv

\* A job that begins has its type and carries nothing yet.
LEMMA NewJobType ==
  ASSUME NEW kind \in Kinds, NEW pid \in Pids \cup {0}
  PROVE  /\ NewJob(kind, pid) \in Job
         /\ NewJob(kind, pid).rows \in ComputedRows
         /\ NewJob(kind, pid).kind = kind
         /\ NewJob(kind, pid).phase = "accepted"
         /\ NewJob(kind, pid).pid = pid
         /\ NewJob(kind, pid).user = None
         /\ NewJob(kind, pid).name = None
         /\ NewJob(kind, pid).source = None
<1>1. NoRows \in ComputedRows /\ NoRows \in Rows
  BY NoRowsType DEF ComputedRows, Rows
<1> QED  BY <1>1 DEF NewJob, Job, Phases

\* A stored proposal has the type of one.
LEMMA ExistingType ==
  ASSUME TypeOK, NEW p \in Existing
  PROVE  /\ p \in Pids
         /\ proposals[p] \in Proposal
         /\ proposals[p].container \in Container
         /\ proposals[p].container.version \in Version
         /\ proposals[p].container.owner \in Users
         /\ proposals[p].container.name \in Names
         /\ proposals[p].container.member \in Member
         /\ proposals[p].container.member.request \in Requests
BY DEF TypeOK, Existing, Proposal, Container, Member

\* outdated_trigger() answers one of the three triggers or none.
LEMMA TriggerType ==
  ASSUME NEW member, NEW build, NEW b
  PROVE  OutdatedTrigger(member, build, b) \in Triggers \cup {None}
BY DEF OutdatedTrigger, Triggers

\* An accepted publish carries the caller's identity and request.
LEMMA AcceptPublishSafe ==
  ASSUME IInv, NEW h \in Handlers, AcceptPublish(h)
  PROVE  IInv'
<1>1. PICK pid \in Pids \cup {0}, user \in Users, name \in Names,
           request \in Requests, pin \in {None, base}, source \in Sources :
        job' = [job EXCEPT ![h] =
                  PublishJob(pid, user, name, request, pin, source)]
  BY DEF AcceptPublish
<1> DEFINE j == PublishJob(pid, user, name, request, pin, source)
<1>2. pin \in Bases \cup {None} /\ source \in Pids \cup {None}
  BY DEF IInv, TypeOK, Sources
<1> DEFINE n == NewJob("publish", pid)
<1>3. n \in Job /\ n.rows \in ComputedRows /\ n.kind = "publish" /\ n.phase = "accepted"
  BY NewJobType DEF Kinds
<1>4. j = [n EXCEPT !.user = user, !.name = name, !.request = request,
                    !.pin = pin, !.source = source]
  BY DEF PublishJob
<1> HIDE DEF j, n
<1>5. /\ j \in Job
      /\ j.kind = "publish" /\ j.phase = "accepted" /\ j.rows = n.rows
      /\ j.user = user /\ j.name = name /\ j.request = request
  BY <1>2, <1>3, <1>4 DEF Job
<1>6. JobCarries(j) /\ LoadCarries(j)
  BY <1>3, <1>5 DEF JobCarries, LoadCarries, Rewrites
<1>7. ~In(h, "locked") /\ h \in Threads /\ j.phase # "locked"
  BY <1>5 DEF AcceptPublish, Idle, In, Threads
<1>8. queue' = queue /\ queue \in [Threads -> SUBSET Item]
  BY DEF AcceptPublish, IInv, TypeOK
<1>9. UNCHANGED <<rows_vars, lastPid, rowLock, world_vars, code>>
  BY DEF AcceptPublish
<1>10. job' = [job EXCEPT ![h] = j]
  BY <1>1 DEF j
<1> QED  BY <1>5, <1>6, <1>7, <1>8, <1>9, <1>10, JobStep

\* A load begins with a stored container, or with its request to recompute.
LEMMA LoadContainerSafe ==
  ASSUME IInv, NEW h \in Handlers, LoadContainer(h)
  PROVE  IInv'
<1>1. PICK pid \in Existing : job' = [job EXCEPT ![h] = Loaded(h, pid)]
  BY DEF LoadContainer
<1> DEFINE n   == NewJob("load", pid)
           row == proposals[pid].container
           j   == Loaded(h, pid)
<1>2. pid \in Pids /\ row \in Container /\ row.version \in Version
        /\ row.member.request \in Requests
  BY ExistingType DEF IInv
<1>3. /\ n \in Job /\ n.rows \in ComputedRows /\ n.pid = pid
      /\ n.kind = "load" /\ n.phase = "accepted"
      /\ n.user = None /\ n.name = None /\ n.source = None
  BY <1>2, NewJobType DEF Kinds
<1>4. \/ j = [n EXCEPT !.phase = "loaded", !.view = row]
      \/ \E trigger \in Triggers \cup {None} :
           j = [n EXCEPT !.request = row.member.request, !.trigger = trigger]
  BY TriggerType DEF Loaded
<1> HIDE DEF j, n, row
<1>5. j \in Job /\ j.phase # "locked" /\ JobCarries(j) /\ LoadCarries(j)
  <2>1. CASE j = [n EXCEPT !.phase = "loaded", !.view = row]
    <3>1. /\ j \in Job /\ j.pid = pid /\ j.kind = "load" /\ j.phase = "loaded"
          /\ j.view = row /\ j.rows = n.rows
          /\ j.user = None /\ j.name = None /\ j.source = None
      BY <1>2, <1>3, <2>1 DEF Job, Phases
    <3> QED  BY <1>2, <1>3, <3>1 DEF JobCarries, LoadCarries, row, Version
  <2>2. ASSUME NEW trigger \in Triggers \cup {None},
               j = [n EXCEPT !.request = row.member.request, !.trigger = trigger]
        PROVE  j \in Job /\ j.phase # "locked" /\ JobCarries(j) /\ LoadCarries(j)
    <3>1. /\ j \in Job /\ j.pid = pid /\ j.kind = "load" /\ j.phase = "accepted"
          /\ j.request \in Requests /\ j.rows = n.rows
          /\ j.user = None /\ j.name = None /\ j.source = None
      BY <1>2, <1>3, <2>2 DEF Job
    <3> QED  BY <1>2, <1>3, <3>1 DEF JobCarries, LoadCarries
  <2> QED  BY <1>4, <2>1, <2>2
<1>6. ~In(h, "locked") /\ h \in Threads
  BY DEF LoadContainer, Idle, In, Threads
<1>7. queue' = queue /\ queue \in [Threads -> SUBSET Item]
  BY DEF LoadContainer, IInv, TypeOK
<1>8. UNCHANGED <<rows_vars, lastPid, rowLock, world_vars, code>>
  BY DEF LoadContainer
<1>9. job' = [job EXCEPT ![h] = j]
  BY <1>1 DEF j
<1> QED  BY <1>5, <1>6, <1>7, <1>8, <1>9, JobStep

\* A queued unit of work begins with an existing proposal and its request.
LEMMA TakeItemSafe ==
  ASSUME IInv, NEW s \in Scripts, TakeItem(s)
  PROVE  IInv'
<1>1. PICK item \in queue[s] :
        /\ queue' = [queue EXCEPT ![s] = queue[s] \ {item}]
        /\ job' = [job EXCEPT ![s] = ItemJob(item)]
  BY DEF TakeItem
<1> DEFINE n == NewJob(item.kind, item.pid)
           j == ItemJob(item)
<1>2. /\ s \in Threads /\ queue \in [Threads -> SUBSET Item]
      /\ item \in Item /\ item.pid \in Existing
  BY DEF IInv, TypeOK, QueuesExist, Threads
<1>3. /\ n \in Job /\ n.rows \in ComputedRows
      /\ n.pid = item.pid /\ n.kind = item.kind
      /\ n.user = None /\ n.name = None /\ n.source = None
  <2>1. item.kind \in Kinds /\ item.pid \in Pids \cup {0}
    BY <1>2 DEF Item, Kinds
  <2> QED  BY <2>1, NewJobType
<1>4. \E phase \in {"accepted", "computed", "projected"} :
        j = [n EXCEPT !.request = item.request, !.trigger = item.trigger,
                      !.phase = phase]
        /\ (item.kind = "refresh" => phase = "accepted")
  BY <1>2 DEF ItemJob, Item
<1> HIDE DEF j, n
<1>5. j \in Job /\ j.phase # "locked" /\ JobCarries(j) /\ LoadCarries(j)
  <2>1. PICK phase \in {"accepted", "computed", "projected"} :
          /\ j = [n EXCEPT !.request = item.request, !.trigger = item.trigger,
                           !.phase = phase]
          /\ item.kind = "refresh" => phase = "accepted"
    BY <1>4
  <2>2. /\ j \in Job /\ j.pid = item.pid /\ j.kind = item.kind /\ j.phase = phase
        /\ j.request \in Requests /\ j.rows = n.rows
        /\ j.user = None /\ j.name = None /\ j.source = None
    BY <1>2, <1>3, <2>1 DEF Job, Item, Phases
  <2>3. item.kind \in ScriptKinds
    BY <1>2 DEF Item
  <2> QED  BY <1>2, <1>3, <2>1, <2>2, <2>3
           DEF JobCarries, LoadCarries, Rewrites, ScriptKinds
<1>6. ~In(s, "locked")
  BY DEF TakeItem, Idle, In
<1>7. /\ queue' \in [Threads -> SUBSET Item]
      /\ \A r \in Threads : queue'[r] \subseteq queue[r]
  BY <1>1, <1>2
<1>8. UNCHANGED <<rows_vars, lastPid, rowLock, world_vars, code>>
  BY DEF TakeItem
<1>9. job' = [job EXCEPT ![s] = j]
  BY <1>1 DEF j
<1> QED  BY <1>2, <1>5, <1>6, <1>7, <1>8, <1>9, JobStep

\* compute_member() adds a typed member to the job.
LEMMA ComputeMemberSafe ==
  ASSUME IInv, NEW t \in Threads, ComputeMember(t)
  PROVE  IInv'
<1> DEFINE i == job[t]
           m == [request |-> i.request, variant |-> Resolved(i), build |-> code[t]]
           j == [i EXCEPT !.phase = "computed", !.member = m]
<1>1. job' = [job EXCEPT ![t] = j] /\ i # None /\ i.phase = "accepted"
  BY DEF ComputeMember, In
<1>2. JobCarries(i) /\ LoadCarries(i)
  BY <1>1 DEF IInv, JobsCarry
<1>3. i \in Job
  BY <1>1 DEF IInv, TypeOK
<1>4. Resolved(i) \in Variants /\ code[t] \in Builds /\ i.request \in Requests
  BY <1>1, <1>2, <1>3 DEF IInv, TypeOK, Resolved, Job, JobCarries, Variants
<1>5. m \in Member
  BY <1>4 DEF Member
<1>6. j = [i EXCEPT !.phase = "computed", !.member = m]
  OBVIOUS
<1> HIDE DEF m, i, j
<1>7. /\ j \in Job /\ j.phase = "computed" /\ j.member = m
      /\ j.kind = i.kind /\ j.pid = i.pid /\ j.rows = i.rows /\ j.user = i.user
      /\ j.name = i.name /\ j.source = i.source /\ j.request = i.request
  BY <1>3, <1>5, <1>6 DEF Job, Phases
<1>8. JobCarries(j) /\ LoadCarries(j)
  BY <1>1, <1>2, <1>5, <1>7 DEF JobCarries, LoadCarries
<1>9. ~In(t, "locked")
  BY <1>1 DEF In, i
<1>10. queue' = queue /\ queue \in [Threads -> SUBSET Item]
  BY DEF ComputeMember, IInv, TypeOK
<1>11. UNCHANGED <<rows_vars, lastPid, rowLock, world_vars, code>>
  BY DEF ComputeMember
<1> QED  BY <1>1, <1>7, <1>8, <1>9, <1>10, <1>11, JobStep

\* compute_scenario_rows() adds typed rows to the job.
LEMMA ProjectRowsSafe ==
  ASSUME IInv, NEW t \in Threads, ProjectRows(t)
  PROVE  IInv'
<1> DEFINE i    == job[t]
           rows == Projection(i.request, code[t], Current, served)
           j    == [i EXCEPT !.phase = "projected", !.rows = rows]
<1>1. job' = [job EXCEPT ![t] = j] /\ i # None /\ i.phase = "computed"
  BY DEF ProjectRows, In
<1>2. JobCarries(i) /\ LoadCarries(i)
  BY <1>1 DEF IInv, JobsCarry
<1>3. i \in Job
  BY <1>1 DEF IInv, TypeOK
<1>4. code[t] \in Builds /\ i.request \in Requests
  BY <1>1, <1>2 DEF IInv, TypeOK, JobCarries
<1>5. rows \in ComputedRows /\ rows \in Rows
  BY <1>4, ProjectionType DEF ComputedRows, Rows
<1>6. j = [i EXCEPT !.phase = "projected", !.rows = rows]
  OBVIOUS
<1> HIDE DEF rows, i, j
<1>7. /\ j \in Job /\ j.phase = "projected" /\ j.rows = rows
      /\ j.kind = i.kind /\ j.pid = i.pid /\ j.member = i.member /\ j.user = i.user
      /\ j.name = i.name /\ j.source = i.source /\ j.request = i.request
  BY <1>3, <1>5, <1>6 DEF Job, Phases
<1>8. JobCarries(j) /\ LoadCarries(j)
  BY <1>1, <1>2, <1>5, <1>7 DEF JobCarries, LoadCarries
<1>9. ~In(t, "locked")
  BY <1>1 DEF In, i
<1>10. queue' = queue /\ queue \in [Threads -> SUBSET Item]
  BY DEF ProjectRows, IInv, TypeOK
<1>11. UNCHANGED <<rows_vars, lastPid, rowLock, world_vars, code>>
  BY DEF ProjectRows
<1> QED  BY <1>1, <1>7, <1>8, <1>9, <1>10, <1>11, JobStep

\* A job ends without a write.
LEMMA JobEnds ==
  ASSUME IInv, NEW t \in Threads, ~In(t, "locked"),
         job' = [job EXCEPT ![t] = None],
         UNCHANGED <<rows_vars, lastPid, rowLock, world_vars, code, queue>>
  PROVE  IInv'
<1>1. queue' = queue /\ queue \in [Threads -> SUBSET Item]
  BY DEF IInv, TypeOK
<1> QED  BY <1>1, JobStep

\* A failed compute, a refused overwrite and an answered load end the job.
LEMMA EndingsSafe ==
  ASSUME IInv, NEW t \in Threads,
         ComputeRaises(t) \/ Reject(t) \/ Respond(t)
  PROVE  IInv'
<1>1. /\ ~In(t, "locked")
      /\ job' = [job EXCEPT ![t] = None]
      /\ UNCHANGED <<rows_vars, lastPid, rowLock, world_vars, code, queue>>
  BY DEF ComputeRaises, Reject, Respond, In
<1> QED  BY <1>1, JobEnds

\* The second read of an on-load refresh takes a stored container.
LEMMA ReloadSafe ==
  ASSUME IInv, NEW h \in Handlers, Reload(h)
  PROVE  IInv'
<1> DEFINE i   == job[h]
           row == proposals[i.pid].container
           j   == [i EXCEPT !.phase = "loaded", !.view = row]
<1>1. job' = [job EXCEPT ![h] = j] /\ i # None /\ i.phase = "reload" /\ h \in Threads
  BY DEF Reload, In, Threads
<1>2. JobCarries(i) /\ LoadCarries(i)
  BY <1>1 DEF IInv, JobsCarry
<1>3. i \in Job
  BY <1>1 DEF IInv, TypeOK
<1>4. i.kind = "load" /\ i.pid \in Existing
  BY <1>1, <1>2 DEF LoadCarries, JobCarries
<1>5. row \in Container /\ row.version \in Nat
  BY <1>4, ExistingType DEF IInv, Version
<1>6. j = [i EXCEPT !.phase = "loaded", !.view = row]
  OBVIOUS
<1> HIDE DEF i, j
<1>7. /\ j \in Job /\ j.phase = "loaded" /\ j.view = row
      /\ j.kind = "load" /\ j.pid = i.pid /\ j.rows = i.rows
      /\ j.user = i.user /\ j.name = i.name /\ j.source = i.source
  BY <1>3, <1>4, <1>5, <1>6 DEF Job, Phases
<1>8. JobCarries(j) /\ LoadCarries(j)
  BY <1>1, <1>2, <1>4, <1>5, <1>7 DEF JobCarries, LoadCarries
<1>9. ~In(h, "locked")
  BY <1>1 DEF In, i
<1>10. queue' = queue /\ queue \in [Threads -> SUBSET Item]
  BY DEF Reload, IInv, TypeOK
<1>11. UNCHANGED <<rows_vars, lastPid, rowLock, world_vars, code>>
  BY DEF Reload
<1> QED  BY <1>1, <1>7, <1>8, <1>9, <1>10, <1>11, JobStep

\* What a load of state `view` finds under its prefix is that state's.
LEMMA StoredGeneration ==
  ASSUME IInv, NEW pid \in Existing, NEW view,
         view.version = proposals[pid].container.version
           => view.member = proposals[pid].container.member,
         Stored(pid, view.version) # {}
  PROVE  (CHOOSE g \in Stored(pid, view.version) : TRUE).member = view.member
<1> DEFINE row   == proposals[pid].container
           found == Stored(pid, view.version)
<1>1. proposals[pid].gtfs = {[version |-> row.version, member |-> row.member]}
  BY DEF IInv, TablesAgree, RowsAgree
<1>2. \A g \in found : g.version = view.version /\ g.version = row.version
                        /\ g.member = row.member
  BY <1>1 DEF Stored
<1>3. (CHOOSE g \in found : TRUE) \in found
  OBVIOUS
<1> QED  BY <1>2, <1>3

\* What a load reads first is of its container's state, or it ends.
LEMMA ReadTripsSafe ==
  ASSUME IInv, NEW h \in Handlers, ReadTrips(h)
  PROVE  IInv'
<1> DEFINE i     == job[h]
           found == Stored(i.pid, i.view.version)
           m     == (CHOOSE g \in found : TRUE).member
           j     == [i EXCEPT !.phase = "trips", !.trips = m]
<1>1. /\ i # None /\ i.phase = "loaded" /\ h \in Threads /\ ~In(h, "locked")
      /\ IF found = {} THEN job' = [job EXCEPT ![h] = None]
                       ELSE job' = [job EXCEPT ![h] = j]
  BY DEF ReadTrips, In, Threads
<1>2. JobCarries(i) /\ LoadCarries(i)
  BY <1>1 DEF IInv, JobsCarry
<1>3. i \in Job
  BY <1>1 DEF IInv, TypeOK
<1>4. /\ i.kind = "load" /\ i.pid \in Existing /\ i.view \in Container
      /\ i.view.version = proposals[i.pid].container.version
           => i.view.member = proposals[i.pid].container.member
  BY <1>1, <1>2 DEF LoadCarries, JobCarries
<1>5. UNCHANGED <<rows_vars, lastPid, rowLock, world_vars, code, queue>>
  BY DEF ReadTrips
<1>6. CASE found = {}
  BY <1>1, <1>5, <1>6, JobEnds
<1>7. CASE found # {}
  <2>1. m = i.view.member /\ m \in Member
    BY <1>4, <1>7, StoredGeneration DEF Container
  <2>2. j = [i EXCEPT !.phase = "trips", !.trips = m]
    OBVIOUS
  <2>3. job' = [job EXCEPT ![h] = j]
    BY <1>1, <1>7
  <2> HIDE DEF i, m, j
  <2>4. /\ j \in Job /\ j.phase = "trips" /\ j.trips = m /\ j.view = i.view
        /\ j.kind = "load" /\ j.pid = i.pid /\ j.rows = i.rows
        /\ j.user = i.user /\ j.name = i.name /\ j.source = i.source
    BY <1>3, <1>4, <2>1, <2>2 DEF Job, Phases
  <2>5. JobCarries(j) /\ LoadCarries(j)
    BY <1>1, <1>2, <2>1, <2>4 DEF JobCarries, LoadCarries
  <2>6. queue' = queue /\ queue \in [Threads -> SUBSET Item]
    BY <1>5 DEF IInv, TypeOK
  <2> QED  BY <1>1, <1>5, <2>3, <2>4, <2>5, <2>6, JobStep
<1> QED  BY <1>6, <1>7

\* What a load reads last is of its container's state, or nothing.
LEMMA ReadSidecarsSafe ==
  ASSUME IInv, NEW h \in Handlers, ReadSidecars(h)
  PROVE  IInv'
<1> DEFINE i     == job[h]
           found == Stored(i.pid, i.view.version)
           m     == IF found = {} THEN None
                    ELSE (CHOOSE g \in found : TRUE).member
           j     == [i EXCEPT !.phase = "respond", !.sidecars = m]
<1>1. /\ i # None /\ i.phase = "trips" /\ h \in Threads /\ ~In(h, "locked")
      /\ job' = [job EXCEPT ![h] = j]
  BY DEF ReadSidecars, In, Threads
<1>2. JobCarries(i) /\ LoadCarries(i)
  BY <1>1 DEF IInv, JobsCarry
<1>3. i \in Job
  BY <1>1 DEF IInv, TypeOK
<1>4. /\ i.kind = "load" /\ i.pid \in Existing /\ i.view \in Container
      /\ i.view.version = proposals[i.pid].container.version
           => i.view.member = proposals[i.pid].container.member
  BY <1>1, <1>2 DEF LoadCarries, JobCarries
<1>5. m \in {i.view.member, None} /\ m \in Member \cup {None}
  BY <1>4, StoredGeneration DEF Container
<1>6. j = [i EXCEPT !.phase = "respond", !.sidecars = m]
  OBVIOUS
<1> HIDE DEF i, m, j
<1>7. /\ j \in Job /\ j.phase = "respond" /\ j.sidecars = m /\ j.view = i.view
      /\ j.trips = i.trips /\ j.kind = "load" /\ j.pid = i.pid /\ j.rows = i.rows
      /\ j.user = i.user /\ j.name = i.name /\ j.source = i.source
  BY <1>3, <1>4, <1>5, <1>6 DEF Job, Phases
<1>8. JobCarries(j) /\ LoadCarries(j)
  BY <1>1, <1>2, <1>5, <1>7 DEF JobCarries, LoadCarries
<1>9. /\ queue' = queue /\ queue \in [Threads -> SUBSET Item]
      /\ UNCHANGED <<rows_vars, lastPid, rowLock, world_vars, code>>
  BY DEF ReadSidecars, IInv, TypeOK
<1> QED  BY <1>1, <1>7, <1>8, <1>9, JobStep

-----------------------------------------------------------------------------
(* Steps that give no thread a new job.                                    *)

\* Threads keep their jobs, or one drops its job and its row locks.
LEMMA NoNewJob ==
  ASSUME IInv, TypeOK', UNCHANGED <<rows_vars, lastPid, mergedInto>>,
         \A s \in Threads : \A item \in queue'[s] : item.pid \in Existing,
         \/ UNCHANGED <<job, rowLock>>
         \/ \E t \in Threads : Drop(t)
  PROVE  IInv'
<1> USE DEF rows_vars
<1>1. Existing' = Existing
  BY DEF Existing
<1>2. \A s \in Threads : job'[s] # None => job'[s] = job[s]
  BY DEF IInv, TypeOK, Drop
<1>3. LockDiscipline'
  <2>1. CASE UNCHANGED <<job, rowLock>>
    BY <2>1 DEF IInv, LockDiscipline, LockedJobFits, In
  <2>2. ASSUME NEW t \in Threads, Drop(t)
        PROVE  LockDiscipline'
    <3>1. /\ \A s \in Threads : job'[s] = IF s = t THEN None ELSE job[s]
          /\ \A p \in Pids : rowLock'[p] = IF rowLock[p] = t THEN None ELSE rowLock[p]
      BY <2>2 DEF IInv, TypeOK, Drop
    <3>2. ASSUME NEW s \in Threads, In(s, "locked")'
          PROVE  rowLock'[job'[s].pid] = s /\ LockedJobFits(job[s])'
      <4>1. s # t /\ job'[s] = job[s]
        BY <3>1, <3>2 DEF In
      <4>2. rowLock[job[s].pid] = s /\ LockedJobFits(job[s]) /\ job[s].pid \in Pids
        BY <3>2, <4>1 DEF IInv, LockDiscipline, In, JobsCarry, JobCarries
      <4> QED  BY <3>1, <4>1, <4>2 DEF LockedJobFits
    <3>3. ASSUME NEW p \in Pids, rowLock'[p] # None
          PROVE  In(rowLock[p], "locked")' /\ job'[rowLock'[p]].pid = p
      <4>1. /\ rowLock'[p] = rowLock[p] /\ rowLock[p] # t
            /\ rowLock[p] \in Threads /\ In(rowLock[p], "locked")
            /\ job[rowLock[p]].pid = p
        BY <3>1, <3>3 DEF IInv, TypeOK, LockDiscipline
      <4> QED  BY <3>1, <4>1 DEF In
    <3> QED  BY <3>2, <3>3 DEF LockDiscipline
  <2> QED  BY <2>1, <2>2
<1>4. TablesAgree'
  BY <1>1 DEF IInv, TablesAgree
<1>5. JobsCarry'
  <2> SUFFICES ASSUME NEW s \in Threads, job'[s] # None
               PROVE  JobCarries(job[s])' /\ LoadCarries(job[s])'
    BY DEF JobsCarry
  <2>1. JobCarries(job[s]) /\ LoadCarries(job[s]) /\ job'[s] = job[s]
    BY <1>2, NoJobAssumption DEF IInv, JobsCarry
  <2>2. JobCarries(job[s])'
    BY <1>1, <2>1 DEF JobCarries
  <2>3. LoadCarries(job[s])'
    BY <2>1 DEF LoadCarries
  <2> QED  BY <2>2, <2>3
<1>6. QueuesExist'
  BY <1>1 DEF QueuesExist
<1>7. Recorded'
  BY <1>1, <1>2 DEF IInv, Recorded, Primary, In
<1>8. MergesKnown' /\ CardOwnerKnown'
  BY <1>1 DEF IInv, MergesKnown, CardOwnerKnown, Acts
<1> QED  BY <1>3, <1>4, <1>5, <1>6, <1>7, <1>8 DEF IInv

\* A script queues existing proposals only.
LEMMA StartScriptSafe ==
  ASSUME IInv, NEW s \in Scripts, StartScript(s)
  PROVE  IInv'
<1>1. PICK items :
        /\ queue' = [queue EXCEPT ![s] = items]
        /\ \/ items = OutdatedItems(release)
           \/ items = BackfillItems(release)
           \/ items = CorridorItems
  BY DEF StartScript
<1>2. items \in SUBSET Item /\ \A item \in items : item.pid \in Existing
  BY <1>1, ExistingType, TriggerType
     DEF IInv, OutdatedItems, BackfillItems, CorridorItems, Item, ScriptKinds
<1>3. TypeOK'
  BY <1>1, <1>2 DEF StartScript, IInv, TypeOK, rows_vars, world_vars, Threads
<1>4. \A r \in Threads : \A item \in queue'[r] : item.pid \in Existing
  BY <1>1, <1>2 DEF IInv, TypeOK, QueuesExist
<1>5. UNCHANGED <<rows_vars, lastPid, mergedInto, job, rowLock>>
  BY DEF StartScript, world_vars
<1> QED  BY <1>3, <1>4, <1>5, NoNewJob

\* A failure or a restart drops a job and gives its row lock back.
LEMMA DropsSafe ==
  ASSUME IInv, NEW t \in Threads, Fail(t) \/ Restart(t)
  PROVE  IInv'
<1>1. Drop(t) /\ UNCHANGED <<rows_vars, lastPid, world_vars, mergedInto>>
  BY DEF Fail, Restart, world_vars
<1>2. /\ queue' \in [Threads -> SUBSET Item] /\ code' \in [Threads -> Builds]
      /\ \A s \in Threads : queue'[s] \subseteq queue[s]
  BY DEF Fail, Restart, IInv, TypeOK
<1>3. TypeOK'
  BY <1>1, <1>2 DEF IInv, TypeOK, Drop, rows_vars, world_vars
<1>4. \A s \in Threads : \A item \in queue'[s] : item.pid \in Existing
  BY <1>2 DEF IInv, QueuesExist
<1> QED  BY <1>1, <1>3, <1>4, NoNewJob

\* A deployment, a base move or a new graph touches no job and no row.
LEMMA WorldSafe ==
  ASSUME IInv, Deploy \/ MoveBase \/ ServeGraph \/ UNCHANGED vars
  PROVE  IInv'
<1>1. UNCHANGED <<rows_vars, lastPid, rowLock, mergedInto, code, job, queue>>
  BY DEF Deploy, MoveBase, ServeGraph, vars, rows_vars
<1>2. base' \in Bases /\ served' \subseteq Variants /\ release' \in Builds
  BY ReleasesAssumption
     DEF Deploy, MoveBase, ServeGraph, vars, world_vars, IInv, TypeOK, Builds
<1>3. TypeOK'
  BY <1>1, <1>2 DEF IInv, TypeOK, rows_vars
<1>4. \A s \in Threads : \A item \in queue'[s] : item.pid \in Existing
  BY <1>1 DEF IInv, QueuesExist
<1> QED  BY <1>1, <1>3, <1>4, NoNewJob

-----------------------------------------------------------------------------
(* The write transaction takes its row.                                    *)

\* Taking a free row for a job that fits it preserves the invariant.
LEMMA TakesLock ==
  ASSUME IInv, NEW t \in Threads, NEW j \in Job, ~In(t, "locked"),
         j.phase = "locked", j.pid \in Pids, rowLock[j.pid] = None,
         job' = [job EXCEPT ![t] = j],
         rowLock' = [rowLock EXCEPT ![j.pid] = t],
         lastPid' \in 0 .. MaxPid, lastPid <= lastPid', j.pid <= lastPid',
         JobCarries(j), LockedJobFits(j),
         UNCHANGED <<rows_vars, world_vars, code, queue>>
  PROVE  IInv'
<1> USE DEF rows_vars, world_vars
<1>1. TypeOK'
  BY DEF IInv, TypeOK
<1>2. /\ \A s \in Threads : job'[s] = IF s = t THEN j ELSE job[s]
      /\ \A p \in Pids : rowLock'[p] = IF p = j.pid THEN t ELSE rowLock[p]
      /\ j # None /\ t # None
  BY NoJobAssumption, StoreAssumption DEF IInv, TypeOK, Threads
<1>3. Existing' = Existing
  BY DEF Existing
<1>4. LockDiscipline'
  <2>1. ASSUME NEW s \in Threads, In(s, "locked")'
        PROVE  rowLock'[job'[s].pid] = s /\ LockedJobFits(job[s])'
    <3>1. CASE s = t
      BY <1>2, <3>1 DEF LockedJobFits
    <3>2. CASE s # t
      <4>1. In(s, "locked") /\ job'[s] = job[s]
        BY <1>2, <2>1, <3>2 DEF In
      <4>2. rowLock[job[s].pid] = s /\ LockedJobFits(job[s]) /\ job[s].pid \in Pids
        BY <4>1 DEF IInv, LockDiscipline, JobsCarry, JobCarries, In
      <4>3. s # None
        BY StoreAssumption DEF Threads
      <4> QED  BY <1>2, <4>1, <4>2, <4>3 DEF LockedJobFits
    <3> QED  BY <3>1, <3>2
  <2>2. ASSUME NEW p \in Pids, rowLock'[p] # None
        PROVE  In(rowLock[p], "locked")' /\ job'[rowLock'[p]].pid = p
    <3>1. CASE p = j.pid
      BY <1>2, <3>1 DEF In
    <3>2. CASE p # j.pid
      <4>1. rowLock'[p] = rowLock[p] /\ rowLock[p] \in Threads
              /\ In(rowLock[p], "locked") /\ job[rowLock[p]].pid = p
        BY <1>2, <2>2, <3>2 DEF IInv, TypeOK, LockDiscipline
      <4> QED  BY <1>2, <4>1 DEF In
    <3> QED  BY <3>1, <3>2
  <2> QED  BY <2>1, <2>2 DEF LockDiscipline
<1>5. TablesAgree'
  BY <1>3 DEF IInv, TablesAgree
<1>6. JobsCarry'
  <2> SUFFICES ASSUME NEW s \in Threads, job'[s] # None
               PROVE  JobCarries(job[s])' /\ LoadCarries(job[s])'
    BY DEF JobsCarry
  <2>1. LoadCarries(j)
    BY DEF LoadCarries
  <2>2. JobCarries(job'[s]) /\ LoadCarries(job'[s])
    BY <1>2, <2>1 DEF IInv, JobsCarry
  <2>3. JobCarries(job[s])'
    BY <1>3, <2>2 DEF JobCarries
  <2>4. LoadCarries(job[s])'
    BY <2>2 DEF LoadCarries
  <2> QED  BY <2>3, <2>4
<1>7. QueuesExist'
  BY <1>3 DEF IInv, QueuesExist
<1>8. Recorded'
  <2>1. lastPid \in Nat /\ lastPid' \in Nat /\ Existing \subseteq Nat
    BY DEF IInv, TypeOK, Existing, Pids
  <2>2. \A p \in Existing' : p <= lastPid'
    <3>1. \A p \in Existing : p <= lastPid /\ p \in Nat
      BY <2>1 DEF IInv, Recorded
    <3> QED  BY <1>3, <2>1, <3>1
  <2>3. ASSUME NEW s \in Threads, In(s, "locked")'
        PROVE  job'[s].pid <= lastPid'
    <3>1. CASE s = t
      BY <1>2, <3>1
    <3>2. CASE s # t
      <4>1. In(s, "locked") /\ job'[s] = job[s] /\ job[s].pid \in Nat
        BY <1>2, <2>3, <3>2 DEF In, IInv, JobsCarry, JobCarries, Pids
      <4> QED  BY <2>1, <4>1 DEF IInv, Recorded
    <3> QED  BY <3>1, <3>2
  <2> QED  BY <1>3, <2>2, <2>3 DEF IInv, Recorded, Primary
<1>9. MergesKnown' /\ CardOwnerKnown'
  BY <1>3 DEF IInv, MergesKnown, CardOwnerKnown, Acts
<1> QED  BY <1>1, <1>4, <1>5, <1>6, <1>7, <1>8, <1>9 DEF IInv

\* The sequence hands out an unused id, so its row is free.
LEMMA DrawPidSafe ==
  ASSUME IInv, NEW t \in Threads, DrawPid(t)
  PROVE  IInv'
<1> DEFINE i == job[t]
           j == [i EXCEPT !.phase = "locked", !.pid = lastPid + 1,
                          !.version = FirstVersion]
<1>1. /\ i # None /\ i.phase = "projected" /\ i.pid = 0 /\ ~In(t, "locked")
      /\ job' = [job EXCEPT ![t] = j]
      /\ lastPid < MaxPid /\ lastPid' = lastPid + 1
      /\ rowLock' = [rowLock EXCEPT ![lastPid + 1] = t]
  BY DEF DrawPid, In
<1>2. JobCarries(i)
  BY <1>1 DEF IInv, JobsCarry
<1>3. i \in Job
  BY <1>1 DEF IInv, TypeOK
<1>4. i.kind = "publish" /\ i.member \in Member
  BY <1>1, <1>2 DEF JobCarries, Existing, Pids, Rewrites
<1>5. /\ lastPid \in Nat /\ lastPid + 1 \in Pids /\ lastPid' \in 0 .. MaxPid
      /\ lastPid <= lastPid'
  BY <1>1, StoreAssumption DEF IInv, TypeOK, Pids
<1>6. lastPid + 1 \notin Existing
  BY <1>5 DEF IInv, Recorded
<1>7. rowLock[lastPid + 1] = None
  <2>1. SUFFICES ASSUME rowLock[lastPid + 1] # None PROVE FALSE
    OBVIOUS
  <2>2. /\ rowLock[lastPid + 1] \in Threads
        /\ In(rowLock[lastPid + 1], "locked")
        /\ job[rowLock[lastPid + 1]].pid = lastPid + 1
    BY <1>5, <2>1 DEF IInv, TypeOK, LockDiscipline
  <2>3. lastPid + 1 <= lastPid
    BY <2>2 DEF IInv, Recorded
  <2> QED  BY <1>5, <2>3
<1>8. j = [i EXCEPT !.phase = "locked", !.pid = lastPid + 1,
                    !.version = FirstVersion]
  OBVIOUS
<1> HIDE DEF i, j
<1>9. /\ j \in Job /\ j.phase = "locked" /\ j.pid = lastPid + 1
      /\ j.version = FirstVersion /\ j.kind = "publish" /\ j.member = i.member
      /\ j.rows = i.rows /\ j.user = i.user /\ j.name = i.name
      /\ j.request = i.request
  BY <1>3, <1>4, <1>5, <1>8 DEF Job, Phases, FirstVersion
<1>10. JobCarries(j)
  BY <1>2, <1>4, <1>5, <1>9 DEF JobCarries
<1>11. LockedJobFits(j)
  BY <1>5, <1>6, <1>9 DEF LockedJobFits, Existing
<1>12. j.pid <= lastPid'
  BY <1>1, <1>5, <1>9
<1>13. UNCHANGED <<rows_vars, world_vars, code, queue>>
  BY DEF DrawPid
<1> QED  BY <1>1, <1>5, <1>7, <1>9, <1>10, <1>11, <1>12, <1>13, TakesLock

\* Under the row lock the job takes the version and identity of the row.
LEMMA LockRowSafe ==
  ASSUME IInv, NEW t \in Threads, LockRow(t)
  PROVE  IInv'
<1> DEFINE i    == job[t]
           row  == proposals[i.pid].container
           user == IF i.user = None THEN row.owner ELSE i.user
           name == IF i.name = None THEN row.name ELSE i.name
           j    == LockedJob(i, row)
<1>1. /\ i # None /\ i.phase = "projected" /\ ~In(t, "locked")
      /\ i.pid \in Existing /\ rowLock[i.pid] = None /\ MayWrite(i, row)
      /\ rowLock' = [rowLock EXCEPT ![i.pid] = t]
      /\ UNCHANGED <<rows_vars, lastPid, world_vars, code, queue>>
  BY DEF LockRow, In, RowFree
<1>2. job' = [job EXCEPT ![t] = j]
  BY DEF LockRow
<1>3. JobCarries(i)
  BY <1>1 DEF IInv, JobsCarry
<1>4. i \in Job
  BY <1>1 DEF IInv, TypeOK
<1>5. /\ i.pid \in Pids /\ row.version \in Nat \ {0}
      /\ row.owner \in Users /\ row.name \in Names
      /\ proposals[i.pid] # None
  BY <1>1, ExistingType DEF IInv, Version, Existing
<1>6. /\ user \in Users /\ name \in Names
      /\ i.kind \in Rewrites => user = row.owner
      /\ i.kind = "publish" => user = i.user /\ name = i.name
      /\ i.kind # "publish" => name = row.name
  <2>1. CASE i.kind = "publish"
    <3>1. i.user \in Users /\ i.name \in Names /\ row.owner = i.user
      BY <1>1, <1>3, <2>1 DEF JobCarries, MayWrite
    <3> QED  BY <1>5, <2>1, <3>1, StoreAssumption
  <2>2. CASE i.kind # "publish"
    <3>1. i.user = None /\ i.name = None
      BY <1>1, <1>3, <2>2 DEF JobCarries
    <3> QED  BY <1>5, <2>2, <3>1
  <2> QED  BY <2>1, <2>2
<1>7. /\ NextVersion(i, row) \in Nat
      /\ NextVersion(i, row) = IF i.kind \in Rewrites THEN row.version + 1
                               ELSE row.version
  BY <1>5 DEF NextVersion
<1>8. j = [i EXCEPT !.phase = "locked", !.version = NextVersion(i, row),
                    !.user = user, !.name = name]
  BY DEF LockedJob
<1> HIDE DEF i, j, user, name, row
<1>9. /\ j \in Job /\ j.phase = "locked" /\ j.pid = i.pid /\ j.kind = i.kind
      /\ j.version = NextVersion(i, row) /\ j.member = i.member /\ j.rows = i.rows
      /\ j.user = user /\ j.name = name /\ j.request = i.request
      /\ j.source = i.source
  BY <1>4, <1>6, <1>7, <1>8 DEF Job, Phases
<1>10. JobCarries(j)
  BY <1>1, <1>3, <1>5, <1>6, <1>9 DEF JobCarries, row
<1>11. LockedJobFits(j)
  BY <1>5, <1>6, <1>7, <1>9 DEF LockedJobFits, row
<1>12. lastPid \in 0 .. MaxPid /\ lastPid <= lastPid /\ i.pid <= lastPid
  BY <1>1, StoreAssumption DEF IInv, TypeOK, Recorded
<1> QED
  BY <1>1, <1>2, <1>5, <1>9, <1>10, <1>11, <1>12, TakesLock

-----------------------------------------------------------------------------
(* The write transaction commits.                                          *)

\* What a committing job may carry.
LEMMA Committing ==
  ASSUME IInv, NEW t \in Threads, In(t, "locked")
  PROVE  LET j == job[t]
         IN  /\ j \in Job /\ j # None /\ j.pid \in Pids /\ rowLock[j.pid] = t
             /\ j.rows \in ComputedRows /\ j.user \in Users /\ j.name \in Names
             /\ j.kind \in Rewrites => j.member \in Member
             /\ j.kind # "publish" => /\ j.source = None /\ j.pid \in Existing
                                      /\ j.name = proposals[j.pid].container.name
             /\ LockedJobFits(j)
             /\ j.version \in Version
<1> DEFINE j == job[t]
<1>1. /\ j \in Job /\ j # None /\ j.phase = "locked" /\ JobCarries(j)
      /\ rowLock[j.pid] = t /\ LockedJobFits(j)
  BY DEF In, IInv, TypeOK, LockDiscipline, JobsCarry
<1>2. /\ j.pid \in Pids /\ j.rows \in ComputedRows
      /\ j.user \in Users /\ j.name \in Names
      /\ j.kind \in Rewrites => j.member \in Member
      /\ j.kind # "publish" => /\ j.source = None /\ j.pid \in Existing
                               /\ j.name = proposals[j.pid].container.name
  BY <1>1, ExistingType DEF JobCarries, IInv
<1>3. j.version \in Version
  <2>1. CASE proposals[j.pid] = None
    BY <1>1, <2>1 DEF LockedJobFits, FirstVersion, Version
  <2>2. CASE proposals[j.pid] # None
    <3>1. proposals[j.pid].container.version \in Version
      BY <1>2, <2>2, ExistingType DEF Existing, IInv
    <3> QED  BY <1>1, <2>2, <3>1 DEF LockedJobFits, Version
  <2> QED  BY <2>1, <2>2
<1> QED  BY <1>1, <1>2, <1>3

\* What its transaction leaves: rows of one state, the successor of the
\* stored state, or the stored state repaired.
LEMMA WrittenAgrees ==
  ASSUME IInv, NEW t \in Threads, In(t, "locked")
  PROVE  LET j   == job[t]
             new == Written(j)
         IN  /\ new \in Proposal
             /\ RowsAgree(new)
             /\ j.kind \in Rewrites => /\ new.container.version = j.version
                                      /\ new.summary = new.container
             /\ j.kind \notin Rewrites => new.summary = proposals[j.pid].summary
             /\ proposals[j.pid] # None =>
                  LET old == proposals[j.pid]
                  IN  /\ new.container.owner = old.container.owner
                      /\ j.kind # "publish" =>
                           new.container.name = old.container.name
                      /\ \/ new.container = old.container /\ new.gtfs = old.gtfs
                         \/ new.container.version = old.container.version + 1
<1> DEFINE j    == job[t]
           old  == proposals[j.pid]
           gtfs == IF old = None THEN {} ELSE old.gtfs
           row  == [version |-> j.version, owner |-> j.user, name |-> j.name,
                    member |-> j.member]
           new  == Written(j)
<1>1. /\ j.pid \in Pids
      /\ j.rows \in ComputedRows /\ j.user \in Users /\ j.name \in Names
      /\ j.kind \in Rewrites => j.member \in Member
      /\ j.kind # "publish" => /\ j.pid \in Existing
                               /\ j.name = old.container.name
      /\ j.version \in Version
  BY Committing
<1>2. LockedJobFits(j)
  BY Committing
<1>3. CASE j.kind \in Rewrites
  <2>1. \A g \in gtfs : g.version = j.version - 1
    <3>1. CASE old = None
      BY <3>1
    <3>2. CASE old # None
      <4>1. old.container.version \in Version /\ j.pid \in Existing
        BY <1>1, <3>2, ExistingType DEF Existing, IInv
      <4>2. j.version = old.container.version + 1
        BY <1>2, <1>3, <3>2 DEF LockedJobFits
      <4>3. gtfs = {[version |-> old.container.version, member |-> old.container.member]}
        BY <3>2, <4>1 DEF IInv, TablesAgree, RowsAgree
      <4> QED  BY <4>1, <4>2, <4>3 DEF Version
    <3> QED  BY <3>1, <3>2
  <2>2. new = WriteState(gtfs, j.version, j.user, j.name, j.member, j.rows)
    BY <1>3 DEF Written, Rewrites
  <2>3. /\ new \in Proposal /\ RowsAgree(new) /\ new.container = row
        /\ new.summary = row
    <3> HIDE DEF j, gtfs, new
    <3> QED  BY <1>1, <1>3, <2>1, <2>2, WriteStateAgrees
  <2>4. old # None => j.version = old.container.version + 1 /\ j.user = old.container.owner
    BY <1>2, <1>3 DEF LockedJobFits
  <2>5. /\ row.version = j.version /\ row.owner = j.user /\ row.name = j.name
        /\ j.kind # "publish" => j.name = old.container.name
    BY <1>1
  <2> HIDE DEF j, old, row, new
  <2>6. /\ new \in Proposal /\ RowsAgree(new) /\ new.summary = new.container
        /\ new.container.version = j.version /\ new.container.owner = j.user
        /\ j.kind # "publish" => new.container.name = old.container.name
    BY <2>3, <2>5
  <2> QED  BY <1>3, <2>4, <2>6 DEF j, old, new
<1>4. CASE j.kind \notin Rewrites
  <2>1. /\ j.pid \in Existing /\ old \in Proposal /\ RowsAgree(old) /\ old # None
    BY <1>1, <1>4, ExistingType DEF Rewrites, IInv, TablesAgree, Existing
  <2>2. j.version = old.container.version
    BY <1>2, <1>4, <2>1 DEF LockedJobFits
  <2>3. CASE j.kind = "backfill"
    <3>1. new = ReplaceScenarioSummaries(old, old.container.version, j.rows)
      BY <1>4, <2>2, <2>3 DEF Written
    <3>2. /\ new \in Proposal /\ RowsAgree(new)
          /\ new.container = old.container /\ new.gtfs = old.gtfs
          /\ new.summary = old.summary
      BY <1>1, <2>1, <3>1, ReplaceAgrees
    <3> QED  BY <1>4, <3>2
  <2>4. CASE j.kind # "backfill"
    <3>1. new = RebuildCorridors(old, old.container.version)
      BY <1>4, <2>2, <2>4 DEF Written
    <3>2. /\ new \in Proposal /\ RowsAgree(new)
          /\ new.container = old.container /\ new.gtfs = old.gtfs
          /\ new.summary = old.summary
      BY <2>1, <3>1, RebuildAgrees
    <3> QED  BY <1>4, <3>2
  <2> QED  BY <2>3, <2>4
<1> QED  BY <1>3, <1>4

\* A rewrite stores its job's owner; a repair keeps the container.
LEMMA WrittenOwner ==
  ASSUME IInv, NEW t \in Threads, In(t, "locked"), job[t].kind \in Rewrites
  PROVE  Written(job[t]).container.owner = job[t].user
BY DEF Written, WriteState, Rewrites

LEMMA RepairKeeps ==
  ASSUME IInv, NEW t \in Threads, In(t, "locked"), job[t].kind \notin Rewrites
  PROVE  Written(job[t]).container = proposals[job[t].pid].container
<1> DEFINE j   == job[t]
           old == proposals[j.pid]
<1>1. j.pid \in Existing /\ j.rows \in ComputedRows
  BY Committing DEF Rewrites
<1>2. old \in Proposal
  BY <1>1, ExistingType DEF IInv
<1> QED
  BY <1>2 DEF Written, ReplaceScenarioSummaries, RebuildCorridors, Proposal

\* The timeline rows of a committing job are typed, and the primary one is
\* of the state it writes.
LEMMA LogRowsType ==
  ASSUME IInv, NEW t \in Threads, In(t, "locked")
  PROVE  LET j == job[t]
         IN  /\ LogRows(j) \subseteq Event
             /\ \A l \in LogRows(j) :
                  l.event \in {"published", "overwritten", "recalculated"} =>
                    l.pid = j.pid /\ l.version = j.version /\ j.kind \in Rewrites
<1> DEFINE j == job[t]
<1>1. /\ j \in Job /\ j.pid \in Pids /\ j.user \in Users /\ j.version \in Version
      /\ j.kind # "publish" => j.source = None
  BY Committing
<1>2. j.source \in Pids \cup {None} /\ j.trigger \in Triggers \cup {None}
  BY <1>1 DEF Job
<1> HIDE DEF j
<1>3. /\ PrimaryRow(j) \in Event
      /\ PrimaryRow(j).pid = j.pid /\ PrimaryRow(j).version = j.version
  BY <1>1, <1>2 DEF PrimaryRow, Entry, Event
<1>4. /\ BranchRows(j) \subseteq Event
      /\ \A l \in BranchRows(j) : l.event \in {"branched_from", "branched_to"}
  BY <1>1, <1>2 DEF BranchRows, Entry, Event
<1> QED  BY <1>3, <1>4 DEF LogRows, j

\* The commit leaves rows of one state, and what every other job carries
\* stays true of the new rows.
LEMMA CommitSafe ==
  ASSUME IInv, NEW t \in Threads, Commit(t)
  PROVE  IInv'
<1> DEFINE i   == job[t]
           pid == i.pid
           new == Written(i)
           j   == IF i.kind = "load"
                  THEN [NewJob("load", pid) EXCEPT !.phase = "reload"] ELSE None
<1>1. /\ In(t, "locked")
      /\ proposals' = [proposals EXCEPT ![pid] = new]
      /\ log' = log \cup LogRows(i)
      /\ rowLock' = [rowLock EXCEPT ![pid] = None]
      /\ job' = [job EXCEPT ![t] = j]
      /\ UNCHANGED <<lastPid, world_vars, code, queue>>
  BY DEF Commit
<1>2. pid \in Pids /\ rowLock[pid] = t /\ i.version \in Version
  BY <1>1, Committing
<1>3. /\ new \in Proposal /\ RowsAgree(new) /\ new # None
      /\ i.kind \in Rewrites => new.container.version = i.version
  BY <1>1, WrittenAgrees, NoneAssumption
<1>4. \A p \in Pids : proposals'[p] = IF p = pid THEN new ELSE proposals[p]
  BY <1>1 DEF IInv, TypeOK
<1>5. Existing' = Existing \cup {pid}
  BY <1>2, <1>3, <1>4 DEF Existing
<1>6. /\ j \in Job \cup {None}
      /\ j # None => /\ j.phase = "reload" /\ j.kind = "load"
                     /\ j.pid = pid /\ j.rows \in ComputedRows
                     /\ j.user = None /\ j.name = None /\ j.source = None
  <2>1. /\ NewJob("load", pid) \in Job /\ NewJob("load", pid).rows \in ComputedRows
        /\ NewJob("load", pid).kind = "load" /\ NewJob("load", pid).pid = pid
        /\ NewJob("load", pid).user = None /\ NewJob("load", pid).name = None
        /\ NewJob("load", pid).source = None
    BY <1>2, NewJobType DEF Kinds
  <2> QED  BY <2>1 DEF Job, Phases
<1>7. \A s \in Threads : job'[s] = IF s = t THEN j ELSE job[s]
  BY <1>1 DEF IInv, TypeOK
<1> HIDE DEF j, new
<1>8. TypeOK'
  <2>1. LogRows(i) \subseteq Event
    BY <1>1, LogRowsType
  <2> QED  BY <1>1, <1>2, <1>3, <1>6, <2>1 DEF IInv, TypeOK, world_vars
<1>9. LockDiscipline'
  <2>1. ASSUME NEW s \in Threads, In(s, "locked")'
        PROVE  rowLock'[job'[s].pid] = s /\ LockedJobFits(job[s])'
    <3>1. s # t /\ job'[s] = job[s] /\ In(s, "locked")
      BY <1>6, <1>7, <2>1 DEF In
    <3>2. rowLock[job[s].pid] = s /\ LockedJobFits(job[s]) /\ job[s].pid \in Pids
      BY <3>1, Committing
    <3>3. job[s].pid # pid
      BY <1>2, <3>1, <3>2
    <3>4. proposals'[job[s].pid] = proposals[job[s].pid]
      BY <1>4, <3>2, <3>3
    <3>5. rowLock'[job[s].pid] = s
      BY <1>1, <3>2, <3>3
    <3>6. LockedJobFits(job[s])'
      BY <3>1, <3>2, <3>4 DEF LockedJobFits
    <3> QED  BY <3>1, <3>5, <3>6
  <2>2. ASSUME NEW p \in Pids, rowLock'[p] # None
        PROVE  In(rowLock[p], "locked")' /\ job'[rowLock'[p]].pid = p
    <3>1. p # pid /\ rowLock'[p] = rowLock[p]
      BY <1>1, <2>2 DEF IInv, TypeOK
    <3>2. /\ rowLock[p] \in Threads /\ In(rowLock[p], "locked")
          /\ job[rowLock[p]].pid = p
      BY <2>2, <3>1 DEF IInv, TypeOK, LockDiscipline
    <3>3. rowLock[p] # t
      BY <3>1, <3>2
    <3> QED  BY <1>7, <3>1, <3>2, <3>3 DEF In
  <2> QED  BY <2>1, <2>2 DEF LockDiscipline
<1>10. TablesAgree'
  BY <1>3, <1>4, <1>5 DEF IInv, TablesAgree, Existing
<1>11. JobsCarry'
  <2> SUFFICES ASSUME NEW s \in Threads, job'[s] # None
               PROVE  JobCarries(job[s])' /\ LoadCarries(job[s])'
    BY DEF JobsCarry
  <2>1. CASE s = t
    BY <1>5, <1>6, <1>7, <2>1 DEF JobCarries, LoadCarries
  <2>2. CASE s # t
    <3>1. job'[s] = job[s] /\ job[s] # None
            /\ JobCarries(job[s]) /\ LoadCarries(job[s])
      BY <1>7, <2>2 DEF IInv, JobsCarry
    <3>2. JobCarries(job[s])'
      <4>1. job[s].phase = "locked" => job[s].pid # pid
        BY <1>2, <2>2, <3>1, Committing DEF In
      <4> QED  BY <1>4, <1>5, <3>1, <4>1 DEF JobCarries, Existing
    <3>3. LoadCarries(job[s])'
      <4>1. CASE job[s].phase \in {"loaded", "trips", "respond"}
        <5>1. job[s].kind = "load" /\ job[s].pid \in Existing
          BY <3>1, <4>1 DEF LoadCarries, JobCarries
        <5>2. CASE job[s].pid = pid
          <6>1. /\ proposals[pid] # None
                /\ \/ new.container = proposals[pid].container
                   \/ new.container.version = proposals[pid].container.version + 1
            BY <1>1, <5>1, <5>2, WrittenAgrees DEF Existing, new
          <6>2. proposals[pid].container.version \in Nat
            BY <5>1, <5>2, ExistingType DEF IInv, Version
          <6>3. job[s].view.version \in Nat
            BY <3>1, <4>1 DEF LoadCarries, Container, Version
          <6> QED  BY <1>2, <1>4, <3>1, <5>2, <6>1, <6>2, <6>3 DEF LoadCarries
        <5>3. CASE job[s].pid # pid
          <6>1. proposals'[job[s].pid] = proposals[job[s].pid]
            BY <1>4, <5>1, <5>3 DEF Existing
          <6> QED  BY <3>1, <6>1 DEF LoadCarries
        <5> QED  BY <5>2, <5>3
      <4>2. CASE job[s].phase \notin {"loaded", "trips", "respond"}
        BY <3>1, <4>2 DEF LoadCarries
      <4> QED  BY <4>1, <4>2
    <3> QED  BY <3>2, <3>3
  <2> QED  BY <2>1, <2>2
<1>12. QueuesExist' /\ MergesKnown' /\ CardOwnerKnown'
  <2>1. QueuesExist' /\ MergesKnown'
    BY <1>1, <1>5 DEF IInv, QueuesExist, MergesKnown, world_vars
  <2>2. ASSUME NEW p \in Existing'
        PROVE  Acts(proposals[p].summary.owner, proposals[p].container.owner)'
    <3>1. CASE p = pid /\ i.kind \in Rewrites
      <4>1. new.summary = new.container
        BY <1>1, <3>1, WrittenAgrees DEF new
      <4> QED  BY <1>2, <1>4, <3>1, <4>1 DEF Acts
    <3>2. CASE p = pid /\ i.kind \notin Rewrites
      <4>1. pid \in Existing
        BY <1>1, <3>2, Committing DEF Rewrites
      <4>2. /\ new.summary = proposals[pid].summary
            /\ new.container = proposals[pid].container
        BY <1>1, <3>2, WrittenAgrees, RepairKeeps DEF new
      <4> QED  BY <1>1, <1>2, <1>4, <3>2, <4>1, <4>2
               DEF Acts, IInv, CardOwnerKnown, world_vars
    <3>3. CASE p # pid
      BY <1>1, <1>4, <1>5, <3>3 DEF Acts, IInv, CardOwnerKnown, world_vars, Existing
    <3> QED  BY <3>1, <3>2, <3>3
  <2> QED  BY <2>1, <2>2 DEF CardOwnerKnown
<1>13. Recorded'
  <2>1. \A p \in Existing' : p <= lastPid'
    BY <1>1, <1>5 DEF IInv, Recorded
  <2>2. \A s \in Threads : In(s, "locked")' => job'[s].pid <= lastPid'
    BY <1>1, <1>6, <1>7 DEF IInv, Recorded, In
  <2>3. ASSUME NEW p \in Pids, NEW l \in Primary(p)'
        PROVE  p \in Existing' /\ l.version <= proposals'[p].container.version
    <3>1. CASE l \in LogRows(i)
      <4>1. l.pid = pid /\ l.version = i.version /\ i.kind \in Rewrites /\ p = pid
        BY <1>1, <2>3, <3>1, LogRowsType DEF Primary
      <4> QED  BY <1>2, <1>3, <1>4, <1>5, <4>1 DEF Version
    <3>2. CASE l \notin LogRows(i)
      <4>1. l \in Primary(p)
        BY <1>1, <2>3, <3>2 DEF Primary
      <4>2. p \in Existing /\ l.version <= proposals[p].container.version
        BY <4>1 DEF IInv, Recorded
      <4>3. l.version \in Nat
        BY <4>1 DEF IInv, TypeOK, Primary, Event, Version
      <4>4. CASE p = pid
        <5>1. /\ \/ new.container = proposals[pid].container
                 \/ new.container.version = proposals[pid].container.version + 1
          BY <1>1, <4>2, <4>4, WrittenAgrees DEF Existing, new
        <5>2. proposals[pid].container.version \in Nat
          BY <4>2, <4>4, ExistingType DEF IInv, Version
        <5> QED  BY <1>4, <1>5, <4>2, <4>3, <4>4, <5>1, <5>2
      <4>5. CASE p # pid
        BY <1>4, <1>5, <4>2, <4>5
      <4> QED  BY <4>4, <4>5
    <3> QED  BY <3>1, <3>2
  <2> QED  BY <2>1, <2>2, <2>3 DEF Recorded
<1> QED  BY <1>8, <1>9, <1>10, <1>11, <1>12, <1>13 DEF IInv

-----------------------------------------------------------------------------
(* A guest is merged.                                                      *)

\* What a merge does to the stored rows: the owner of the guest's proposals.
LEMMA MergeMoves ==
  ASSUME IInv, NEW guest \in Guests, NEW user \in Users \ Guests,
         proposals' = [p \in Pids |-> IF p \in ClaimedBy(guest)
                                     THEN ClaimProposal(proposals[p], user)
                                     ELSE proposals[p]]
  PROVE  /\ Existing' = Existing
         /\ \A p \in Existing :
              LET old == proposals[p]
                  new == proposals'[p]
              IN  /\ new \in Proposal /\ RowsAgree(new)
                  /\ new.container.version = old.container.version
                  /\ new.container.name = old.container.name
                  /\ new.container.member = old.container.member
                  /\ new.gtfs = old.gtfs /\ new.summary = old.summary
                  /\ IF old.container.owner = guest
                     THEN new.container.owner = user ELSE new = old
         /\ proposals' \in [Pids -> Proposal \cup {None}]
<1>1. \A p \in Pids : proposals'[p] = IF p \in ClaimedBy(guest)
                                    THEN ClaimProposal(proposals[p], user)
                                    ELSE proposals[p]
  OBVIOUS
<1>2. ClaimedBy(guest) = {p \in Existing : proposals[p].container.owner = guest}
  BY DEF ClaimedBy, OwnedBy
<1>3. \A p \in Existing : p \in Pids /\ proposals[p] \in Proposal
                          /\ RowsAgree(proposals[p]) /\ proposals[p] # None
  BY ExistingType DEF IInv, TablesAgree, Existing
<1>4. ASSUME NEW p \in Existing
      PROVE  LET old == proposals[p]
                 new == proposals'[p]
             IN  /\ new \in Proposal /\ RowsAgree(new)
                 /\ new.container.version = old.container.version
                 /\ new.container.name = old.container.name
                 /\ new.container.member = old.container.member
                 /\ new.gtfs = old.gtfs /\ new.summary = old.summary
                 /\ IF old.container.owner = guest
                    THEN new.container.owner = user ELSE new = old
  <2>1. CASE proposals[p].container.owner = guest
    <3>1. proposals'[p] = ClaimProposal(proposals[p], user)
      BY <1>1, <1>2, <1>3, <2>1
    <3> QED  BY <1>3, <2>1, <3>1, ClaimAgrees
  <2>2. CASE proposals[p].container.owner # guest
    <3>1. proposals'[p] = proposals[p]
      BY <1>1, <1>2, <1>3, <2>2
    <3> QED  BY <1>3, <2>2, <3>1
  <2> QED  BY <2>1, <2>2
<1>5. \A p \in Pids : p \notin Existing => proposals'[p] = None
  BY <1>1, <1>2 DEF Existing
<1>6. \A p \in Existing : proposals'[p] # None
  BY <1>4, NoneAssumption
<1>7. Existing' = Existing
  BY <1>5, <1>6 DEF Existing
<1>8. \A p \in Pids : proposals'[p] \in Proposal \cup {None}
  BY <1>4, <1>5
<1> QED  BY <1>4, <1>7, <1>8

\* The merge waits for the rows it moves, so no locked job loses its owner.
LEMMA MergeSafe ==
  ASSUME IInv, MergeGuest
  PROVE  IInv'
<1>1. PICK guest \in Guests, user \in Users \ Guests :
        /\ mergedInto[guest] = None
        /\ \A p \in ClaimedBy(guest) : RowFree(p)
        /\ proposals' = [p \in Pids |-> IF p \in ClaimedBy(guest)
                                       THEN ClaimProposal(proposals[p], user)
                                       ELSE proposals[p]]
        /\ mergedInto' = [mergedInto EXCEPT ![guest] = user]
  BY DEF MergeGuest, Marked
<1>2. UNCHANGED <<log, lastPid, rowLock, base, served, release, code, job, queue>>
  BY DEF MergeGuest
<1>3. /\ Existing' = Existing
      /\ \A p \in Existing :
           LET old == proposals[p]
               new == proposals'[p]
           IN  /\ new \in Proposal /\ RowsAgree(new)
               /\ new.container.version = old.container.version
               /\ new.container.name = old.container.name
               /\ new.container.member = old.container.member
               /\ new.gtfs = old.gtfs /\ new.summary = old.summary
               /\ IF old.container.owner = guest
                  THEN new.container.owner = user ELSE new = old
      /\ proposals' \in [Pids -> Proposal \cup {None}]
  BY <1>1, MergeMoves
<1>4. \A u \in Users : mergedInto'[u] = IF u = guest THEN user ELSE mergedInto[u]
  BY <1>1 DEF IInv, TypeOK
<1>5. TypeOK'
  BY <1>1, <1>2, <1>3 DEF IInv, TypeOK
<1>6. LockDiscipline'
  <2>1. ASSUME NEW s \in Threads, In(s, "locked")
        PROVE  LockedJobFits(job[s])'
    <3>1. /\ rowLock[job[s].pid] = s /\ LockedJobFits(job[s])
          /\ job[s].pid \in Pids /\ s # None
      BY <2>1, Committing, StoreAssumption DEF Threads
    <3>2. CASE job[s].pid \in Existing
      <4>1. job[s].pid \notin ClaimedBy(guest)
        BY <1>1, <3>1 DEF RowFree
      <4>2. proposals'[job[s].pid] = proposals[job[s].pid]
        BY <1>1, <3>1, <4>1
      <4> QED  BY <1>2, <3>1, <4>2 DEF LockedJobFits
    <3>3. CASE job[s].pid \notin Existing
      <4>1. proposals[job[s].pid] = None /\ proposals'[job[s].pid] = None
        BY <1>3, <3>1, <3>3 DEF Existing
      <4> QED  BY <1>2, <3>1, <4>1 DEF LockedJobFits
    <3> QED  BY <3>2, <3>3
  <2> QED  BY <1>2, <2>1 DEF IInv, LockDiscipline, In
<1>7. TablesAgree'
  BY <1>3 DEF TablesAgree
<1>8. JobsCarry'
  <2> SUFFICES ASSUME NEW s \in Threads, job[s] # None
               PROVE  JobCarries(job[s])' /\ LoadCarries(job[s])'
    BY <1>2 DEF JobsCarry
  <2>1. JobCarries(job[s]) /\ LoadCarries(job[s])
    BY DEF IInv, JobsCarry
  <2>2. JobCarries(job[s])'
    BY <1>2, <1>3, <2>1 DEF JobCarries
  <2>3. LoadCarries(job[s])'
    <3>1. CASE job[s].phase \in {"loaded", "trips", "respond"}
      <4>1. job[s].pid \in Existing
        BY <2>1, <3>1 DEF LoadCarries, JobCarries
      <4> QED  BY <1>2, <1>3, <2>1, <4>1 DEF LoadCarries
    <3>2. CASE job[s].phase \notin {"loaded", "trips", "respond"}
      BY <1>2, <2>1, <3>2 DEF LoadCarries
    <3> QED  BY <3>1, <3>2
  <2> QED  BY <2>2, <2>3
<1>9. QueuesExist' /\ MergesKnown'
  BY <1>1, <1>2, <1>3, <1>4 DEF IInv, QueuesExist, MergesKnown
<1>10. Recorded'
  BY <1>2, <1>3 DEF IInv, Recorded, Primary, In
<1>11. CardOwnerKnown'
  <2> SUFFICES ASSUME NEW p \in Existing
               PROVE  Acts(proposals[p].summary.owner, proposals[p].container.owner)'
    BY <1>3 DEF CardOwnerKnown
  <2> DEFINE card == proposals[p].summary.owner
             old  == proposals[p].container.owner
  <2>1. card \in Users /\ old \in Users /\ (card = old \/ mergedInto[card] = old)
    BY ExistingType DEF IInv, CardOwnerKnown, Acts, Proposal, Container
  <2>2. mergedInto[card] # guest
    BY <2>1, StoreAssumption, GuestsAssumption DEF IInv, MergesKnown
  <2>3. /\ proposals'[p].summary.owner = card
        /\ proposals'[p].container.owner = IF old = guest THEN user ELSE old
    BY <1>3
  <2> HIDE DEF card, old
  <2>4. CASE old = guest
    BY <1>4, <2>1, <2>2, <2>3, <2>4 DEF Acts
  <2>5. CASE old # guest
    <3>1. card = guest => mergedInto[card] = None
      BY <1>1
    <3>2. old # None
      BY <2>1, StoreAssumption
    <3> QED  BY <1>4, <2>1, <2>3, <2>5, <3>1, <3>2 DEF Acts
  <2> QED  BY <2>4, <2>5
<1> QED  BY <1>5, <1>6, <1>7, <1>8, <1>9, <1>10, <1>11 DEF IInv

-----------------------------------------------------------------------------
(* The inductive invariant.                                                *)

\* A proposal published before the derived tables existed is one state.
LEMMA LegacyAgrees ==
  ASSUME NEW owner \in Users, NEW name \in Names, NEW request \in Requests,
         NEW variant \in Variants
  PROVE  LET p == LegacyProposal(owner, name, request, variant)
         IN  /\ p \in Proposal
             /\ RowsAgree(p)
             /\ p.container.version = 1
             /\ p.summary = p.container
<1> DEFINE m == [request |-> request, variant |-> variant, build |-> 1]
           w == WriteState({}, 1, owner, name, m, NoRows)
           p == LegacyProposal(owner, name, request, variant)
<1>1. m \in Member /\ 1 \in Version
  BY ReleasesAssumption DEF Member, Builds, Version
<1>2. \A g \in {} : g.version = 1 - 1
  OBVIOUS
<1> HIDE DEF m
<1>3. /\ w \in Proposal /\ RowsAgree(w)
      /\ w.container = [version |-> 1, owner |-> owner, name |-> name, member |-> m]
      /\ w.summary = w.container
  BY <1>1, <1>2, NoRowsType, WriteStateAgrees
<1>4. p = [w EXCEPT !.corridors = NoCorridors]
  BY DEF LegacyProposal, m
<1>5. NoCorridors \in [Lines -> CorridorRow \cup {None}]
  BY DEF NoCorridors
<1> HIDE DEF p, w
<1>6. /\ p \in Proposal /\ p.container = w.container /\ p.summary = w.summary
      /\ p.gtfs = w.gtfs /\ p.scenarios = w.scenarios /\ p.corridors = NoCorridors
  BY <1>3, <1>4, <1>5 DEF Proposal
<1>7. RowsAgree(p)
  BY <1>3, <1>6 DEF RowsAgree, NoCorridors
<1> QED  BY <1>3, <1>6, <1>7 DEF p

\* The initial states satisfy the inductive invariant.
LEMMA InitInvariant == Init => IInv
<1> SUFFICES ASSUME Init PROVE IInv
  OBVIOUS
<1>1. PICK owner \in Users, name \in Names, request \in Requests :
        /\ proposals = [p \in Pids |->
                          IF p <= Legacy
                          THEN LegacyProposal(owner, name, request, base)
                          ELSE None]
        /\ log = {Entry(p, 1, owner, "published") : p \in 1 .. Legacy}
  BY DEF Init
<1> DEFINE old == LegacyProposal(owner, name, request, base)
<1>2. base \in Bases /\ base \in Variants
  BY DEF Init, Variants
<1>3. /\ old \in Proposal /\ RowsAgree(old) /\ old.container.version = 1
      /\ old # None /\ old.summary = old.container
  BY <1>2, LegacyAgrees, NoneAssumption
<1>4. \A p \in Pids : proposals[p] = IF p <= Legacy THEN old ELSE None
  BY <1>1
<1>5. Existing = {p \in Pids : p <= Legacy} /\ Legacy \in 0 .. MaxPid
  BY <1>3, <1>4, StoreAssumption DEF Existing
<1> HIDE DEF old
<1>6. \A l \in log : /\ l \in Event /\ l.version = 1
                     /\ l.pid \in Pids /\ l.pid <= Legacy
  <2>1. ASSUME NEW p \in 1 .. Legacy
        PROVE  LET l == Entry(p, 1, owner, "published")
               IN  l \in Event /\ l.version = 1 /\ l.pid = p /\ p \in Pids
    BY <1>5, StoreAssumption DEF Entry, Event, Version, Pids
  <2> QED  BY <1>1, <1>5, <2>1, StoreAssumption
<1>7. TypeOK
  BY <1>2, <1>3, <1>4, <1>5, <1>6, ReleasesAssumption
     DEF Init, TypeOK, Variants, Builds, old
<1>8. LockDiscipline
  BY StoreAssumption DEF Init, LockDiscipline, In
<1>9. TablesAgree
  BY <1>3, <1>4, <1>5 DEF TablesAgree, Existing
<1>10. JobsCarry /\ QueuesExist
  BY DEF Init, JobsCarry, QueuesExist
<1>11. Recorded
  <2>1. \A p \in Existing : p <= lastPid
    BY <1>5 DEF Init
  <2>2. \A t \in Threads : ~In(t, "locked")
    BY DEF Init, In
  <2>3. ASSUME NEW p \in Pids, NEW l \in Primary(p)
        PROVE  p \in Existing /\ l.version <= proposals[p].container.version
    <3>1. l \in log /\ l.pid = p
      BY <2>3 DEF Primary
    <3>2. p <= Legacy /\ l.version = 1
      BY <1>6, <3>1
    <3> QED  BY <1>3, <1>4, <1>5, <3>2
  <2> QED  BY <2>1, <2>2, <2>3 DEF Recorded
<1>12. MergesKnown /\ CardOwnerKnown
  BY <1>3, <1>4, <1>5 DEF Init, MergesKnown, CardOwnerKnown, Acts
<1> QED  BY <1>7, <1>8, <1>9, <1>10, <1>11, <1>12 DEF IInv

\* Every step preserves the inductive invariant.
LEMMA StepInvariant == IInv /\ [Next]_vars => IInv'
<1> SUFFICES ASSUME IInv, [Next]_vars PROVE IInv'
  OBVIOUS
<1>1. ASSUME NEW h \in Handlers, HandlerStep(h) PROVE IInv'
  <2>1. h \in Threads
    BY DEF Threads
  <2> QED
    BY <1>1, <2>1, AcceptPublishSafe, LoadContainerSafe, ReloadSafe,
       ReadTripsSafe, ReadSidecarsSafe, EndingsSafe DEF HandlerStep
<1>2. ASSUME NEW s \in Scripts, ScriptStep(s) PROVE IInv'
  BY <1>2, StartScriptSafe, TakeItemSafe DEF ScriptStep
<1>3. ASSUME NEW t \in Threads, WorkStep(t) \/ Fail(t) \/ Restart(t)
      PROVE  IInv'
  BY <1>3, ComputeMemberSafe, EndingsSafe, ProjectRowsSafe, DrawPidSafe,
     LockRowSafe, CommitSafe, DropsSafe DEF WorkStep
<1>4. CASE Deploy \/ MoveBase \/ ServeGraph \/ UNCHANGED vars
  BY <1>4, WorldSafe
<1>5. CASE MergeGuest
  BY <1>5, MergeSafe
<1> QED  BY <1>1, <1>2, <1>3, <1>4, <1>5 DEF Next

\* In every reachable state the inductive invariant holds.
THEOREM InductiveInvariant == Spec => []IInv
BY InitInvariant, StepInvariant, PTL DEF Spec

-----------------------------------------------------------------------------
(* What follows from it.                                                   *)

\* Every variable has its type in every reachable state.
THEOREM TypeCorrect == Spec => []TypeOK
<1>1. IInv => TypeOK
  BY DEF IInv
<1> QED  BY <1>1, InductiveInvariant, PTL

\* SELECT ... FOR UPDATE: a transaction about to write holds its proposal's
\* row, alone, and what it decided under the lock still fits the row.
THEOREM LocksHold == Spec => []LockDiscipline
<1>1. IInv => LockDiscipline
  BY DEF IInv
<1> QED  BY <1>1, InductiveInvariant, PTL

\* One transaction per write: all the stored rows of every proposal describe
\* one state of it, whatever publishes, refreshes, backfills, rebuilds,
\* failures and restarts ran before.
THEOREM RowsAlwaysAgree == Spec => []TablesAgree
<1>1. IInv => TablesAgree
  BY DEF IInv
<1> QED  BY <1>1, InductiveInvariant, PTL

\* With no gap reported, the gallery map answered from the corridor table is
\* the one derived at request time.
THEOREM GalleryCorrect == Spec => []GalleryNeverWrong
<1>1. ASSUME IInv PROVE GalleryNeverWrong
  <2> SUFFICES ASSUME NEW p \in Existing, ~CorridorGap(proposals[p]), NEW k \in Lines
               PROVE  StoredLine(proposals[p], k) = DerivedLine(proposals[p], k)
    BY DEF GalleryNeverWrong
  <2> DEFINE q == proposals[p]
  <2>1. RowsAgree(q)
    BY <1>1 DEF IInv, TablesAgree
  <2>2. BaseLine \notin Variants /\ Lines = Variants \cup {BaseLine}
    BY VariantsAssumption DEF Variants, Lines, BaseLine
  <2> HIDE DEF q
  <2>3. ~CorridorGap(q)
    BY DEF q
  <2>4. CASE k = BaseLine
    <3>1. \E g \in q.gtfs : g.version = q.summary.version
      BY <2>1 DEF RowsAgree
    <3>2. q.corridors[k] # None /\ q.corridors[k].version = q.summary.version
      BY <2>3, <2>4, <3>1 DEF CorridorGap
    <3>3. q.corridors[k].member = DerivedLine(q, k)
      BY <2>1, <3>2 DEF RowsAgree
    <3>4. StoredLine(q, k) = q.corridors[k].member
      BY <2>4, <3>2 DEF StoredLine
    <3> QED  BY <3>3, <3>4 DEF q
  <2>5. CASE k # BaseLine /\ q.scenarios[k] # None /\ q.scenarios[k].status = "ok"
    <3>1. k \in Variants
      BY <2>2, <2>5
    <3>2. q.scenarios[k].version = q.summary.version
      BY <2>1, <2>5, <3>1 DEF RowsAgree
    <3>3. q.corridors[k] # None /\ q.corridors[k].version = q.summary.version
      BY <2>3, <2>5, <3>1, <3>2 DEF CorridorGap
    <3>4. q.corridors[k].member = DerivedLine(q, k)
      BY <2>1, <3>3 DEF RowsAgree
    <3>5. StoredLine(q, k) = q.corridors[k].member
      BY <2>5, <3>3 DEF StoredLine
    <3> QED  BY <3>4, <3>5 DEF q
  <2>6. CASE k # BaseLine /\ ~(q.scenarios[k] # None /\ q.scenarios[k].status = "ok")
    BY <2>6 DEF StoredLine, DerivedLine, q
  <2> QED  BY <2>4, <2>5, <2>6
<1> QED  BY <1>1, InductiveInvariant, PTL

\* A gallery card is filed under the owner or under the guest it was, though
\* merge_guest_into() does not touch it.
THEOREM CardsKnowTheOwner == Spec => []CardOwnerKnown
<1>1. IInv => CardOwnerKnown
  BY DEF IInv
<1> QED  BY <1>1, InductiveInvariant, PTL

\* A page shows one state of the proposal, whatever was committed between
\* the statements that read it.
THEOREM PagesAgree == Spec => []PageIsOneState
<1>1. IInv => PageIsOneState
  BY DEF IInv, JobsCarry, LoadCarries, PageIsOneState, In, Threads
<1> QED  BY <1>1, InductiveInvariant, PTL

\* Only a commit or a merge changes the stored rows.
LEMMA OnlyCommitWrites ==
  ASSUME Next
  PROVE  \/ UNCHANGED <<rows_vars, mergedInto>>
         \/ \E t \in Threads : Commit(t)
         \/ MergeGuest
BY DEF Next, world_vars, HandlerStep, ScriptStep, WorkStep, AcceptPublish, LoadContainer,
   Reload, ReadTrips, ReadSidecars, Respond, StartScript, TakeItem,
   ComputeMember, ComputeRaises, ProjectRows, DrawPid, LockRow, Reject,
   Fail, Restart, Deploy, MoveBase, ServeGraph

\* A stored state is replaced whole, by its owner or by the system.
THEOREM StatesFollow == Spec => StatesSucceed
<1> DEFINE Succeeds ==
      \A p \in Existing :
        LET old == proposals[p]
            new == proposals'[p]
        IN  /\ new # None
            /\ \/ /\ new.container.version = old.container.version + 1
                  /\ new.container.owner = old.container.owner
               \/ /\ new.container.version = old.container.version
                  /\ new.container.name = old.container.name
                  /\ new.container.member = old.container.member
                  /\ new.gtfs = old.gtfs
            /\ new.container.owner # old.container.owner =>
                 /\ mergedInto[old.container.owner] = None
                 /\ mergedInto'[old.container.owner] = new.container.owner
            /\ new.container.name # old.container.name =>
                 \E l \in log' \ log :
                   l.event = "overwritten" /\ l.pid = p
                     /\ l.user = old.container.owner
<1>1. ASSUME IInv, UNCHANGED proposals PROVE Succeeds
  BY <1>1 DEF Existing
<1>2. ASSUME IInv, NEW t \in Threads, Commit(t) PROVE Succeeds
  <2> SUFFICES ASSUME NEW p \in Existing
               PROVE  LET old == proposals[p]
                          new == proposals'[p]
                      IN  /\ new # None
                          /\ new.container.owner = old.container.owner
                          /\ \/ /\ new.container = old.container
                                /\ new.gtfs = old.gtfs
                             \/ new.container.version = old.container.version + 1
                          /\ new.container.name # old.container.name =>
                               \E l \in log' \ log :
                                 l.event = "overwritten" /\ l.pid = p
                                   /\ l.user = old.container.owner
    OBVIOUS
  <2> DEFINE j   == job[t]
             old == proposals[j.pid]
             new == Written(j)
  <2>1. /\ In(t, "locked") /\ log' = log \cup LogRows(j)
        /\ proposals' = [proposals EXCEPT ![j.pid] = new]
    BY <1>2 DEF Commit
  <2>2. \A q \in Pids : proposals'[q] = IF q = j.pid THEN new ELSE proposals[q]
    BY <1>2, <2>1 DEF IInv, TypeOK
  <2>3. CASE p # j.pid
    BY <2>2, <2>3 DEF Existing
  <2>4. CASE p = j.pid
    <3>1. /\ new \in Proposal /\ new # None
          /\ new.container.owner = old.container.owner
          /\ j.kind # "publish" => new.container.name = old.container.name
          /\ \/ new.container = old.container /\ new.gtfs = old.gtfs
             \/ new.container.version = old.container.version + 1
      BY <1>2, <2>1, <2>4, WrittenAgrees, NoneAssumption DEF Existing
    <3>2. ASSUME j.kind = "publish"
          PROVE  \E l \in log' \ log :
                   l.event = "overwritten" /\ l.pid = p
                     /\ l.user = old.container.owner
      <4>1. /\ j.version = old.container.version + 1 /\ j.user = old.container.owner
            /\ old.container.version \in Nat \ {0}
        BY <1>2, <2>1, <2>4, <3>2, Committing, ExistingType
           DEF LockedJobFits, Existing, Rewrites, IInv, Version
      <4>2. /\ PrimaryRow(j).event = "overwritten" /\ PrimaryRow(j).pid = p
            /\ PrimaryRow(j).user = old.container.owner
            /\ PrimaryRow(j).version = old.container.version + 1
        BY <2>4, <3>2, <4>1 DEF PrimaryRow, Entry, FirstVersion
      <4>3. PrimaryRow(j) \in LogRows(j)
        BY <3>2 DEF LogRows, Rewrites
      <4>4. PrimaryRow(j) \notin log
        <5>1. SUFFICES ASSUME PrimaryRow(j) \in log PROVE FALSE
          OBVIOUS
        <5>2. PrimaryRow(j) \in Primary(p) /\ p \in Pids
          BY <4>2, <5>1 DEF Primary, Existing
        <5>3. PrimaryRow(j).version <= old.container.version
          BY <1>2, <2>4, <5>2 DEF IInv, Recorded
        <5> QED  BY <4>1, <4>2, <5>3
      <4> QED  BY <2>1, <4>2, <4>3, <4>4
    <3>3. p \in Pids
      BY DEF Existing
    <3> HIDE DEF new, j
    <3> QED  BY <2>2, <2>4, <3>1, <3>2, <3>3
  <2> QED  BY <2>3, <2>4
<1>3. ASSUME IInv, MergeGuest PROVE Succeeds
  <2>1. PICK guest \in Guests, user \in Users \ Guests :
          /\ mergedInto[guest] = None
          /\ proposals' = [p \in Pids |-> IF p \in ClaimedBy(guest)
                                         THEN ClaimProposal(proposals[p], user)
                                         ELSE proposals[p]]
          /\ mergedInto' = [mergedInto EXCEPT ![guest] = user]
    BY <1>3 DEF MergeGuest, Marked
  <2>2. mergedInto'[guest] = user
    BY <1>3, <2>1, GuestsAssumption DEF IInv, TypeOK
  <2>3. \A p \in Existing :
          LET old == proposals[p]
              new == proposals'[p]
          IN  /\ new \in Proposal
              /\ new.container.version = old.container.version
              /\ new.container.name = old.container.name
              /\ new.container.member = old.container.member
              /\ new.gtfs = old.gtfs
              /\ IF old.container.owner = guest
                 THEN new.container.owner = user ELSE new = old
    BY <1>3, <2>1, MergeMoves
  <2> QED  BY <2>1, <2>2, <2>3, NoneAssumption
<1>4. IInv /\ [Next]_vars => [Succeeds]_vars
  <2> SUFFICES ASSUME IInv, Next PROVE Succeeds
    OBVIOUS
  <2> QED  BY <1>1, <1>2, <1>3, OnlyCommitWrites DEF rows_vars
<1> QED  BY <1>4, InductiveInvariant, PTL DEF Spec, StatesSucceed

-----------------------------------------------------------------------------
(* The timeline.                                                           *)

\* TimelineComplete of one proposal, given the rows of its primary events.
TimelineOf(primary, container, merged) ==
  LET top == IF container = None THEN 0 ELSE container.version
  IN  /\ IsFiniteSet(primary)
      /\ {l.version : l \in primary} = 1 .. top
      /\ Cardinality(primary) = top
      /\ \A l \in primary :
           /\ l.event = "published" <=> l.version = 1
           /\ l.user = None <=> l.event = "recalculated"
           /\ l.user # None => l.user = container.owner
                               \/ merged[l.user] = container.owner

StoredContainer(p) == IF p \in Existing THEN proposals[p].container ELSE None

TimelineInv == \A p \in Pids : TimelineOf(Primary(p), StoredContainer(p), mergedInto)

\* A timeline that gets the event of the next state stays complete.
LEMMA TimelineGrows ==
  ASSUME NEW primary, NEW old \in Container \cup {None}, NEW new \in Container,
         NEW l, NEW merged, TimelineOf(primary, old, merged),
         new.version = IF old = None THEN 1 ELSE old.version + 1,
         old # None => new.owner = old.owner,
         l.version = new.version,
         l.event = "published" <=> old = None,
         l.user = None <=> l.event = "recalculated",
         l.user # None => l.user = new.owner
  PROVE  TimelineOf(primary \cup {l}, new, merged)
<1> DEFINE top == IF old = None THEN 0 ELSE old.version
<1>1. /\ old = None => new.version = 1
      /\ old # None => old.version \in Nat \ {0}
      /\ top \in Nat /\ new.version = top + 1
  BY DEF Container, Version
<1>2. new # None
  BY NoneAssumption
<1>3. /\ IsFiniteSet(primary) /\ Cardinality(primary) = top
      /\ {k.version : k \in primary} = 1 .. top
      /\ \A k \in primary :
           /\ k.event = "published" <=> k.version = 1
           /\ k.user = None <=> k.event = "recalculated"
           /\ k.user # None => k.user = old.owner \/ merged[k.user] = old.owner
  BY DEF TimelineOf
<1> HIDE DEF top
<1>4. l \notin primary
  <2>1. \A k \in primary : k.version \in 1 .. top
    BY <1>3
  <2> QED  BY <1>1, <2>1
<1>5. /\ IsFiniteSet(primary \cup {l})
      /\ Cardinality(primary \cup {l}) = top + 1
  BY <1>3, <1>4, FS_AddElement
<1>6. {k.version : k \in primary \cup {l}} = 1 .. top + 1
  <2>1. {k.version : k \in primary \cup {l}} = {k.version : k \in primary} \cup {top + 1}
    BY <1>1
  <2>2. (1 .. top) \cup {top + 1} = 1 .. top + 1
    BY <1>1
  <2> QED  BY <1>3, <2>1, <2>2
<1>7. ASSUME NEW k \in primary
      PROVE  /\ k.event = "published" <=> k.version = 1
             /\ k.user = None <=> k.event = "recalculated"
             /\ k.user # None => k.user = new.owner \/ merged[k.user] = new.owner
  <2>1. old # None
    BY <1>3, <1>7 DEF top
  <2> QED  BY <1>3, <2>1
<1>8. l.event = "published" <=> l.version = 1
  BY <1>1 DEF top
<1> QED  BY <1>1, <1>2, <1>5, <1>6, <1>7, <1>8 DEF TimelineOf

\* What the timeline gets from a commit, for the proposal that is written.
LEMMA PrimaryOfCommit ==
  ASSUME IInv, NEW t \in Threads, In(t, "locked"), job[t].kind \in Rewrites
  PROVE  LET j == job[t]
             l == PrimaryRow(j)
         IN  /\ l.pid = j.pid /\ l.version = j.version
             /\ l.event \in {"published", "overwritten", "recalculated"}
             /\ l.event = "published" <=> proposals[j.pid] = None
             /\ l.user = None <=> l.event = "recalculated"
             /\ l.user # None => l.user = j.user
<1> DEFINE j == job[t]
<1>1. /\ j.user \in Users /\ j.pid \in Pids /\ j.version \in Version
      /\ j.kind # "publish" => j.pid \in Existing
  BY Committing
<1>2. LockedJobFits(j) /\ None \notin Users
  BY Committing, StoreAssumption
<1>3. j.version = FirstVersion <=> proposals[j.pid] = None
  <2>1. CASE proposals[j.pid] = None
    BY <1>2, <2>1 DEF LockedJobFits
  <2>2. CASE proposals[j.pid] # None
    <3>1. proposals[j.pid].container.version \in Nat \ {0}
      BY <1>1, <2>2, ExistingType DEF Existing, IInv, Version
    <3>2. j.version = proposals[j.pid].container.version + 1
      BY <1>2, <2>2 DEF LockedJobFits
    <3> QED  BY <2>2, <3>1, <3>2 DEF FirstVersion
  <2> QED  BY <2>1, <2>2
<1>4. j.kind # "publish" => proposals[j.pid] # None
  BY <1>1 DEF Existing
<1> HIDE DEF j
<1> QED  BY <1>1, <1>2, <1>3, <1>4 DEF PrimaryRow, Entry, j

\* A commit adds its primary event to its proposal's timeline, and nothing
\* to any other.
LEMMA CommitExtends ==
  ASSUME IInv, NEW t \in Threads, Commit(t), NEW p \in Pids
  PROVE  Primary(p)' = IF p = job[t].pid /\ job[t].kind \in Rewrites
                       THEN Primary(p) \cup {PrimaryRow(job[t])} ELSE Primary(p)
<1> DEFINE j == job[t]
<1>1. In(t, "locked") /\ log' = log \cup LogRows(j)
  BY DEF Commit
<1>2. \A l \in BranchRows(j) : l.event \in {"branched_from", "branched_to"}
  BY DEF BranchRows, Entry
<1>3. CASE j.kind \in Rewrites
  <2>1. PrimaryRow(j).pid = j.pid
          /\ PrimaryRow(j).event \in {"published", "overwritten", "recalculated"}
    BY <1>1, <1>3, PrimaryOfCommit
  <2> QED  BY <1>1, <1>2, <1>3, <2>1 DEF LogRows, Primary
<1>4. CASE j.kind \notin Rewrites
  BY <1>1, <1>4 DEF LogRows, Primary
<1> QED  BY <1>3, <1>4

\* Every step keeps every timeline complete.
LEMMA TimelineStep == IInv /\ TimelineInv /\ [Next]_vars => TimelineInv'
<1> SUFFICES ASSUME IInv, TimelineInv, [Next]_vars, NEW p \in Pids
             PROVE  TimelineOf(Primary(p)', StoredContainer(p)', mergedInto')
  BY DEF TimelineInv, TimelineOf
<1>1. CASE UNCHANGED <<rows_vars, mergedInto>>
  BY <1>1 DEF TimelineInv, Primary, StoredContainer, Existing, rows_vars
<1>2. ASSUME NEW t \in Threads, Commit(t)
      PROVE  TimelineOf(Primary(p)', StoredContainer(p)', mergedInto')
  <2> DEFINE j   == job[t]
             new == Written(j)
             old == StoredContainer(p)
  <2>1. /\ In(t, "locked") /\ mergedInto' = mergedInto
        /\ proposals' = [proposals EXCEPT ![j.pid] = new]
    BY <1>2 DEF Commit, world_vars
  <2>2. /\ \A q \in Pids : proposals'[q] = IF q = j.pid THEN new ELSE proposals[q]
        /\ new \in Proposal /\ new # None /\ RowsAgree(new)
    BY <2>1, WrittenAgrees, NoneAssumption DEF IInv, TypeOK
  <2>3. TimelineOf(Primary(p), old, mergedInto)
    BY DEF TimelineInv
  <2>4. CASE p # j.pid
    <3>1. Primary(p)' = Primary(p) /\ StoredContainer(p)' = old
      BY <1>2, <2>2, <2>4, CommitExtends DEF StoredContainer, Existing
    <3> QED  BY <2>1, <2>3, <3>1
  <2>5. CASE p = j.pid /\ j.kind \notin Rewrites
    <3>1. p \in Existing /\ new.container = proposals[p].container
      <4>1. p \in Existing /\ j.version = proposals[p].container.version
        BY <2>1, <2>5, Committing DEF Rewrites, LockedJobFits, Existing
      <4> QED  BY <2>1, <2>5, <4>1, RepairKeeps
    <3>2. Primary(p)' = Primary(p) /\ StoredContainer(p)' = old
      BY <1>2, <2>2, <2>5, <3>1, CommitExtends DEF StoredContainer, Existing
    <3> QED  BY <2>1, <2>3, <3>2
  <2>6. CASE p = j.pid /\ j.kind \in Rewrites
    <3>1. Primary(p)' = Primary(p) \cup {PrimaryRow(j)}
      BY <1>2, <2>6, CommitExtends
    <3>2. StoredContainer(p)' = new.container /\ new.container \in Container
      BY <2>2, <2>6 DEF StoredContainer, Existing, Proposal
    <3>3. /\ old = IF proposals[p] = None THEN None ELSE proposals[p].container
          /\ old \in Container \cup {None}
          /\ old = None <=> proposals[p] = None
      BY ExistingType, NoneAssumption DEF StoredContainer, Existing, IInv
    <3>4. /\ new.container.version = j.version /\ new.container.owner = j.user
          /\ new.container.version = IF old = None THEN 1 ELSE old.version + 1
          /\ old # None => new.container.owner = old.owner
      <4>1. new.container.version = j.version /\ new.container.owner = j.user
        BY <2>1, <2>6, WrittenAgrees, WrittenOwner
      <4>2. /\ proposals[p] = None => j.version = 1
            /\ proposals[p] # None => /\ j.version = proposals[p].container.version + 1
                                     /\ j.user = proposals[p].container.owner
        BY <2>1, <2>6, Committing DEF LockedJobFits, FirstVersion
      <4> QED  BY <3>3, <4>1, <4>2
    <3>5. /\ PrimaryRow(j).version = j.version
          /\ PrimaryRow(j).event = "published" <=> old = None
          /\ PrimaryRow(j).user = None <=> PrimaryRow(j).event = "recalculated"
          /\ PrimaryRow(j).user # None => PrimaryRow(j).user = j.user
      BY <2>1, <2>6, <3>3, PrimaryOfCommit
    <3> HIDE DEF j, new, old
    <3> QED  BY <2>1, <2>3, <3>1, <3>2, <3>3, <3>4, <3>5, TimelineGrows
  <2> QED  BY <2>4, <2>5, <2>6
<1>3. ASSUME MergeGuest
      PROVE  TimelineOf(Primary(p)', StoredContainer(p)', mergedInto')
  <2>1. PICK guest \in Guests, user \in Users \ Guests :
          /\ mergedInto[guest] = None
          /\ proposals' = [q \in Pids |-> IF q \in ClaimedBy(guest)
                                         THEN ClaimProposal(proposals[q], user)
                                         ELSE proposals[q]]
          /\ mergedInto' = [mergedInto EXCEPT ![guest] = user]
    BY <1>3 DEF MergeGuest, Marked
  <2>2. Primary(p)' = Primary(p) /\ \A l \in Primary(p) : l.user \in Users \cup {None}
    BY <1>3 DEF MergeGuest, Primary, IInv, TypeOK, Event
  <2>3. TimelineOf(Primary(p), StoredContainer(p), mergedInto)
    BY DEF TimelineInv
  <2>4. \A u \in Users : mergedInto'[u] = IF u = guest THEN user ELSE mergedInto[u]
    BY <2>1 DEF IInv, TypeOK
  <2>5. /\ Existing' = Existing
        /\ p \in Existing =>
             LET old == proposals[p]
                 new == proposals'[p]
             IN  /\ new \in Proposal
                 /\ new.container.version = old.container.version
                 /\ IF old.container.owner = guest
                    THEN new.container.owner = user ELSE new = old
    BY <2>1, MergeMoves
  <2>6. CASE p \notin Existing
    <3>1. Primary(p) = {} /\ StoredContainer(p)' = StoredContainer(p)
      BY <2>5, <2>6 DEF IInv, Recorded, StoredContainer
    <3> QED  BY <2>2, <2>3, <3>1 DEF TimelineOf
  <2>7. CASE p \in Existing
    <3> DEFINE old == proposals[p].container
               new == proposals'[p].container
    <3>1. /\ StoredContainer(p) = old /\ StoredContainer(p)' = new
          /\ old # None /\ new # None /\ old.owner \in Users
      BY <2>5, <2>7, ExistingType, NoneAssumption
         DEF StoredContainer, IInv, Proposal
    <3>2. /\ new.version = old.version
          /\ new.owner = IF old.owner = guest THEN user ELSE old.owner
      BY <2>5, <2>7
    <3>3. ASSUME NEW l \in Primary(p), l.user # None
          PROVE  l.user = new.owner \/ mergedInto'[l.user] = new.owner
      <4>1. l.user \in Users /\ (l.user = old.owner \/ mergedInto[l.user] = old.owner)
        BY <2>2, <2>3, <3>1, <3>3 DEF TimelineOf
      <4>2. mergedInto[l.user] # guest
        BY <4>1, StoreAssumption, GuestsAssumption DEF IInv, MergesKnown
      <4>3. l.user = guest => mergedInto[l.user] = None
        BY <2>1
      <4>4. old.owner # None
        BY <3>1, StoreAssumption
      <4> HIDE DEF old, new
      <4> QED  BY <2>4, <3>2, <4>1, <4>2, <4>3, <4>4
    <3> HIDE DEF old, new
    <3> QED  BY <2>2, <2>3, <3>1, <3>2, <3>3 DEF TimelineOf
  <2> QED  BY <2>6, <2>7
<1> QED  BY <1>1, <1>2, <1>3, OnlyCommitWrites DEF vars, rows_vars, world_vars

\* A proposal stored before the derived tables existed has its one event.
LEMMA TimelineInit == Init => TimelineInv
<1> SUFFICES ASSUME Init, NEW p \in Pids
             PROVE  TimelineOf(Primary(p), StoredContainer(p), mergedInto)
  BY DEF TimelineInv
<1>1. PICK owner \in Users, name \in Names, request \in Requests :
        /\ proposals = [q \in Pids |->
                          IF q <= Legacy
                          THEN LegacyProposal(owner, name, request, base)
                          ELSE None]
        /\ log = {Entry(q, 1, owner, "published") : q \in 1 .. Legacy}
  BY DEF Init
<1> DEFINE old == LegacyProposal(owner, name, request, base)
           l   == Entry(p, 1, owner, "published")
<1>2. base \in Variants /\ None \notin Users
  BY StoreAssumption DEF Init, Variants
<1>3. old \in Proposal /\ old.container.version = 1 /\ old # None
        /\ old.container # None /\ old.container.owner = owner
  <2>1. old \in Proposal /\ old.container.version = 1
    BY <1>2, LegacyAgrees
  <2>2. old.container.owner = owner
    BY DEF LegacyProposal, WriteState
  <2> QED  BY <2>1, <2>2, NoneAssumption DEF Proposal
<1>4. /\ l.pid = p /\ l.version = 1 /\ l.user = owner /\ l.event = "published"
      /\ \A q : Entry(q, 1, owner, "published").pid = q
  BY DEF Entry
<1>5. CASE p <= Legacy
  <2>1. Primary(p) = {l} /\ StoredContainer(p) = old.container
    <3>1. p \in 1 .. Legacy
      BY <1>5, StoreAssumption DEF Pids
    <3>2. \A k \in log : k.pid = p <=> k = l
      BY <1>1, <1>4
    <3>3. l \in log
      BY <1>1, <3>1
    <3>4. Primary(p) = {l}
      BY <1>4, <3>2, <3>3 DEF Primary
    <3> QED  BY <1>1, <1>3, <1>5, <3>4 DEF StoredContainer, Existing
  <2>2. IsFiniteSet({l}) /\ Cardinality({l}) = 1
    BY FS_Singleton
  <2>3. {k.version : k \in {l}} = 1 .. 1
    BY <1>4
  <2> HIDE DEF l, old
  <2> QED  BY <1>2, <1>3, <1>4, <2>1, <2>2, <2>3 DEF TimelineOf
<1>6. CASE ~(p <= Legacy)
  <2>1. Primary(p) = {} /\ StoredContainer(p) = None
    <3>1. \A k \in log : k.pid # p
      BY <1>1, <1>4, <1>6, StoreAssumption DEF Pids
    <3> QED  BY <1>1, <1>6, <3>1 DEF Primary, StoredContainer, Existing
  <2>2. IsFiniteSet({}) /\ Cardinality({}) = 0
    BY FS_EmptySet
  <2> QED  BY <2>1, <2>2 DEF TimelineOf
<1> QED  BY <1>5, <1>6

\* The timeline has exactly one primary event for every state a proposal has
\* been in, through failures, restarts and racing writers.
THEOREM TimelineAlwaysComplete == Spec => []TimelineComplete
<1>1. Init => IInv /\ TimelineInv
  BY InitInvariant, TimelineInit
<1>2. IInv /\ TimelineInv /\ [Next]_vars => IInv' /\ TimelineInv'
  BY StepInvariant, TimelineStep
<1>3. IInv /\ TimelineInv => TimelineComplete
  <2> SUFFICES ASSUME IInv, TimelineInv, NEW p \in Pids
               PROVE  LET top == IF p \in Existing
                                 THEN proposals[p].container.version ELSE 0
                      IN  /\ {l.version : l \in Primary(p)} = 1 .. top
                          /\ Cardinality(Primary(p)) = top
                          /\ \A l \in Primary(p) :
                               /\ l.event = "published" <=> l.version = 1
                               /\ l.user = None <=> l.event = "recalculated"
                               /\ l.user # None =>
                                    \/ l.user = proposals[p].container.owner
                                    \/ mergedInto[l.user]
                                         = proposals[p].container.owner
    BY DEF TimelineComplete, Acts
  <2>1. TimelineOf(Primary(p), StoredContainer(p), mergedInto)
    BY DEF TimelineInv
  <2>2. CASE p \in Existing
    <3>1. StoredContainer(p) = proposals[p].container /\ StoredContainer(p) # None
      BY <2>2, ExistingType, NoneAssumption DEF StoredContainer, IInv
    <3> QED  BY <2>1, <2>2, <3>1 DEF TimelineOf
  <2>3. CASE p \notin Existing
    <3>1. StoredContainer(p) = None
      BY <2>3 DEF StoredContainer
    <3>2. Primary(p) = {}
      BY <2>3 DEF IInv, Recorded
    <3> QED  BY <2>1, <2>3, <3>1, <3>2 DEF TimelineOf
  <2> QED  BY <2>2, <2>3
<1> QED  BY <1>1, <1>2, <1>3, PTL DEF Spec

-----------------------------------------------------------------------------
(***************************************************************************)
(* The store implements ProposalArtifact.  The inductive invariant is all  *)
(* it takes: TablesAgree makes the three tables an artifact is read from   *)
(* one row, LockDiscipline makes a commit the successor of the shown state, *)
(* and Recorded puts its timeline entry behind all the others.             *)
(***************************************************************************)

\* What a reader of rows that agree sees is the container.
LEMMA ReadIsContainer ==
  ASSUME NEW q \in Proposal, RowsAgree(q)
  PROVE  Read(q) = q.container
<1> DEFINE c == q.container
<1>1. c \in Container
  BY DEF Proposal
<1>2. c = [version |-> c.version, owner |-> c.owner, name |-> c.name,
           member |-> c.member]
  BY <1>1 DEF Container
<1>3. (CHOOSE g \in q.gtfs : TRUE).member = c.member
  <2>1. q.gtfs = {[version |-> c.version, member |-> c.member]}
    BY DEF RowsAgree
  <2>2. (CHOOSE g \in q.gtfs : TRUE) \in q.gtfs
    BY <2>1
  <2> QED  BY <2>1, <2>2
<1>4. q.summary.version = c.version /\ q.summary.name = c.name
  BY DEF RowsAgree
<1> HIDE DEF c
<1>5. Read(q) = [version |-> c.version, owner |-> c.owner, name |-> c.name,
                 member |-> c.member]
  BY <1>3, <1>4 DEF Read, c
<1> QED  BY <1>2, <1>5 DEF c

\* In every reachable state what is shown is what the containers hold.
LEMMA ShownNow ==
  ASSUME IInv, NEW p \in Pids
  PROVE  Shown(p) = StoredContainer(p)
BY ReadIsContainer DEF IInv, TypeOK, TablesAgree, Shown, StoredContainer, Existing

LEMMA ShownNext ==
  ASSUME IInv', NEW p \in Pids
  PROVE  Shown(p)' = StoredContainer(p)'
BY ReadIsContainer DEF IInv, TypeOK, TablesAgree, Shown, StoredContainer, Existing

\* The timeline that is shown has as many entries as the container has
\* states.
LEMMA TimelineShown ==
  ASSUME IInv, NEW p \in Pids
  PROVE  /\ p \notin Existing => ShownTimeline(p) = <<>>
         /\ p \in Existing =>
              ShownTimeline(p) =
                [n \in 1 .. proposals[p].container.version |-> EntryAt(p, n)]
<1>1. CASE p \notin Existing
  BY <1>1 DEF ShownTimeline, Existing
<1>2. CASE p \in Existing
  BY <1>2 DEF ShownTimeline, Existing, IInv, TablesAgree, RowsAgree
<1> QED  BY <1>1, <1>2

LEMMA TimelineShownNext ==
  ASSUME IInv', NEW p \in Pids
  PROVE  /\ p \notin Existing' => ShownTimeline(p)' = <<>>
         /\ p \in Existing' =>
              ShownTimeline(p)' =
                [n \in 1 .. proposals'[p].container.version |-> EntryAt(p, n)']
<1>1. CASE p \notin Existing'
  BY <1>1 DEF ShownTimeline, Existing
<1>2. CASE p \in Existing'
  BY <1>2 DEF ShownTimeline, Existing, IInv, TablesAgree, RowsAgree
<1> QED  BY <1>1, <1>2

\* The timeline entry of a rewrite.
EntryOf(j) == [user |-> PrimaryRow(j).user, event |-> PrimaryRow(j).event]

\* A commit puts its own entry behind the others, and keeps those.
LEMMA EntriesOfCommit ==
  ASSUME IInv, NEW t \in Threads, Commit(t), NEW p \in Pids
  PROVE  LET j    == job[t]
             mine == p = j.pid /\ j.kind \in Rewrites
         IN  /\ \A n : ~(mine /\ n = j.version) => EntryAt(p, n)' = EntryAt(p, n)
             /\ \A n : mine /\ n = j.version => EntryAt(p, n)' = EntryOf(j)
<1> DEFINE j    == job[t]
           mine == p = j.pid /\ j.kind \in Rewrites
           l    == PrimaryRow(j)
<1>1. Primary(p)' = IF mine THEN Primary(p) \cup {l} ELSE Primary(p)
  BY CommitExtends
<1>2. In(t, "locked")
  BY DEF Commit
<1>3. mine => l.version = j.version
  BY <1>2, PrimaryOfCommit
<1>4. ASSUME NEW n, ~(mine /\ n = j.version)
      PROVE  EntryAt(p, n)' = EntryAt(p, n)
  <2>1. EntriesAt(p, n)' = EntriesAt(p, n)
    <3> HIDE DEF mine, l, j
    <3>1. CASE mine
      BY <1>1, <1>3, <1>4, <3>1 DEF EntriesAt
    <3>2. CASE ~mine
      BY <1>1, <3>2 DEF EntriesAt
    <3> QED  BY <3>1, <3>2
  <2> QED  BY <2>1 DEF EntryAt
<1>5. ASSUME mine, NEW n, n = j.version PROVE EntryAt(p, n)' = EntryOf(j)
  <2>1. \A k \in Primary(p) : k.version # j.version
    <3>1. CASE proposals[p] = None
      BY <3>1 DEF IInv, Recorded, Existing
    <3>2. CASE proposals[p] # None
      <4>1. /\ proposals[p].container.version \in Nat
            /\ \A k \in Primary(p) : k.version <= proposals[p].container.version
            /\ \A k \in Primary(p) : k.version \in Nat
        BY <3>2, ExistingType
           DEF IInv, Recorded, Existing, Version, TypeOK, Primary, Event
      <4>2. j.version = proposals[p].container.version + 1
        BY <1>2, <1>5, <3>2, Committing DEF LockedJobFits
      <4> QED  BY <4>1, <4>2
    <3> QED  BY <3>1, <3>2
  <2>2. EntriesAt(p, n)' = {l}
    <3> HIDE DEF mine, l, j
    <3> QED  BY <1>1, <1>3, <1>5, <2>1 DEF EntriesAt
  <2>3. (CHOOSE k \in {l} : TRUE) = l
    OBVIOUS
  <2> QED  BY <2>2, <2>3 DEF EntryAt, EntryOf
<1> QED  BY <1>4, <1>5

\* A commit does not show on any other proposal, and a repair not at all.
LEMMA ShownKept ==
  ASSUME IInv, IInv', NEW t \in Threads, Commit(t), NEW p \in Pids,
         p # job[t].pid \/ job[t].kind \notin Rewrites
  PROVE  Shown(p)' = Shown(p) /\ ShownTimeline(p)' = ShownTimeline(p)
<1> DEFINE j   == job[t]
           new == Written(j)
<1>1. In(t, "locked") /\ proposals' = [proposals EXCEPT ![j.pid] = new]
  BY DEF Commit
<1>2. /\ \A q \in Pids : proposals'[q] = IF q = j.pid THEN new ELSE proposals[q]
      /\ new # None
  BY <1>1, WrittenAgrees, NoneAssumption DEF IInv, TypeOK
<1>3. p = j.pid => p \in Existing /\ new.container = proposals[p].container
  BY <1>1, Committing, RepairKeeps DEF Rewrites
<1>4. /\ p \in Existing' <=> p \in Existing
      /\ p \in Existing => proposals'[p].container = proposals[p].container
  BY <1>2, <1>3 DEF Existing
<1>5. \A n : EntryAt(p, n)' = EntryAt(p, n)
  BY EntriesOfCommit
<1>6. Shown(p)' = Shown(p)
  BY <1>4, ShownNow, ShownNext DEF StoredContainer
<1>7. ShownTimeline(p)' = ShownTimeline(p)
  <2>1. CASE p \notin Existing
    BY <1>4, <2>1, TimelineShown, TimelineShownNext
  <2>2. CASE p \in Existing
    <3> DEFINE top == proposals[p].container.version
    <3>1. ShownTimeline(p) = [n \in 1 .. top |-> EntryAt(p, n)]
      BY <2>2, TimelineShown
    <3>2. proposals'[p].container.version = top
      BY <1>4, <2>2
    <3>3. ShownTimeline(p)' = [n \in 1 .. proposals'[p].container.version |-> EntryAt(p, n)']
      BY <1>4, <2>2, TimelineShownNext
    <3> HIDE DEF top
    <3>4. ShownTimeline(p)' = [n \in 1 .. top |-> EntryAt(p, n)']
      BY <3>2, <3>3
    <3> QED  BY <1>5, <3>1, <3>4
  <2> QED  BY <2>1, <2>2
<1> QED  BY <1>6, <1>7

\* A rewrite shows as the whole state its job carries, with its entry at the
\* end of the timeline.
LEMMA ShownNew ==
  ASSUME IInv, IInv', NEW t \in Threads, Commit(t), job[t].kind \in Rewrites
  PROVE  LET j == job[t]
         IN  \A q \in Pids : q = j.pid =>
               /\ Shown(q)' = [version |-> j.version, owner |-> j.user,
                               name |-> j.name, member |-> j.member]
               /\ proposals[q] = None => ShownTimeline(q)' = <<EntryOf(j)>>
               /\ proposals[q] # None =>
                    ShownTimeline(q)' = Append(ShownTimeline(q), EntryOf(j))
<1> DEFINE j   == job[t]
           new == Written(j)
           row == [version |-> j.version, owner |-> j.user, name |-> j.name,
                   member |-> j.member]
           entry == EntryOf(j)
<1> SUFFICES ASSUME NEW q \in Pids, q = j.pid
             PROVE  /\ Shown(q)' = row
                    /\ proposals[q] = None => ShownTimeline(q)' = <<EntryOf(j)>>
                    /\ proposals[q] # None =>
                         ShownTimeline(q)' = Append(ShownTimeline(q), EntryOf(j))
  OBVIOUS
<1>1. In(t, "locked") /\ proposals' = [proposals EXCEPT ![j.pid] = new]
  BY DEF Commit
<1>2. proposals'[q] = new /\ new # None /\ LockedJobFits(j)
  BY <1>1, WrittenAgrees, NoneAssumption, Committing DEF IInv, TypeOK
<1>3. new.container = row
  BY DEF Written, WriteState, Rewrites
<1>4. q \in Existing' /\ proposals'[q].container = row
  BY <1>2, <1>3 DEF Existing
<1>5. Shown(q)' = row
  BY <1>4, ShownNext DEF StoredContainer
<1>6. /\ \A n : n # j.version => EntryAt(q, n)' = EntryAt(q, n)
      /\ \A n : n = j.version => EntryAt(q, n)' = entry
  BY EntriesOfCommit
<1>7. ShownTimeline(q)' = [n \in 1 .. j.version |-> EntryAt(q, n)']
  <2>1. ShownTimeline(q)' = [n \in 1 .. proposals'[q].container.version |-> EntryAt(q, n)']
    BY <1>4, TimelineShownNext
  <2>2. proposals'[q].container.version = j.version
    BY <1>4
  <2> HIDE DEF j
  <2> QED  BY <2>1, <2>2
<1> HIDE DEF row, new
<1>8. ASSUME proposals[q] = None PROVE ShownTimeline(q)' = <<EntryOf(j)>>
  <2>1. j.version = 1
    BY <1>2, <1>8 DEF LockedJobFits, FirstVersion
  <2> HIDE DEF j
  <2> QED  BY <1>6, <1>7, <2>1
<1>9. ASSUME proposals[q] # None
      PROVE  ShownTimeline(q)' = Append(ShownTimeline(q), EntryOf(j))
  <2> DEFINE top == proposals[q].container.version
             old == [n \in 1 .. top |-> EntryAt(q, n)]
  <2>1. j.version = top + 1 /\ top \in Nat /\ q \in Existing
    BY <1>2, <1>9, ExistingType DEF LockedJobFits, IInv, Existing, Version
  <2>2. ShownTimeline(q) = old
    BY <2>1, TimelineShown
  <2>3. ShownTimeline(q)' = [n \in 1 .. top + 1 |-> IF n = top + 1 THEN entry ELSE EntryAt(q, n)]
    <3> HIDE DEF j, top
    <3> QED  BY <1>6, <1>7, <2>1
  <2> HIDE DEF top, entry
  <2>4. Append(old, entry) = [n \in 1 .. top + 1 |-> IF n = top + 1 THEN entry ELSE EntryAt(q, n)]
    BY <2>1
  <2> QED  BY <2>2, <2>3, <2>4 DEF entry
<1> QED  BY <1>5, <1>8, <1>9

-----------------------------------------------------------------------------
(* The steps.                                                              *)

\* A commit is a publication, an overwrite by the owner, a recalculation, or
\* nothing a reader sees.
LEMMA CommitImplements ==
  ASSUME IInv, IInv', NEW t \in Threads, Commit(t)
  PROVE  [Artifact!Next]_(Artifact!vars)
<1> DEFINE j   == job[t]
           row == [version |-> j.version, owner |-> j.user, name |-> j.name,
                   member |-> j.member]
           shown == [p \in Pids |-> Shown(p)]
           lines == [p \in Pids |-> ShownTimeline(p)]
<1>1. mergedInto' = mergedInto /\ In(t, "locked")
  BY DEF Commit, world_vars
<1>2. /\ j.pid \in Pids /\ j.user \in Users /\ j.name \in Names
      /\ j.kind \in Rewrites => j.member \in Member
      /\ j.kind # "publish" => j.pid \in Existing
                               /\ j.name = proposals[j.pid].container.name
      /\ LockedJobFits(j)
  BY <1>1, Committing
<1>3. \A p \in Pids : p # j.pid \/ j.kind \notin Rewrites =>
        Shown(p)' = Shown(p) /\ ShownTimeline(p)' = ShownTimeline(p)
  BY ShownKept
<1>4. CASE j.kind \notin Rewrites
  <2>1. shown' = shown /\ lines' = lines
    BY <1>3, <1>4
  <2> QED  BY <1>1, <2>1 DEF Artifact!vars
<1>5. CASE j.kind \in Rewrites
  <2>1. \A q \in Pids : q = j.pid =>
          /\ Shown(q)' = row
          /\ proposals[q] = None => ShownTimeline(q)' = <<EntryOf(j)>>
          /\ proposals[q] # None =>
               ShownTimeline(q)' = Append(ShownTimeline(q), EntryOf(j))
    BY <1>5, ShownNew
  <2>2. /\ shown' = [shown EXCEPT ![j.pid] = row]
        /\ proposals[j.pid] = None => lines' = [lines EXCEPT ![j.pid] = <<EntryOf(j)>>]
        /\ proposals[j.pid] # None =>
             lines' = [lines EXCEPT ![j.pid] = Append(@, EntryOf(j))]
    <3> HIDE DEF j, row
    <3> QED  BY <1>2, <1>3, <2>1
  <2>3. CASE proposals[j.pid] = None
    <3>1. j.kind = "publish" /\ j.version = 1
      BY <1>2, <2>3 DEF LockedJobFits, FirstVersion
    <3>2. EntryOf(j) = Artifact!Made(j.user, "published")
      BY <3>1 DEF EntryOf, PrimaryRow, Entry, Artifact!Made, FirstVersion
    <3>3. row = Artifact!State(1, j.user, j.name, j.member)
      BY <3>1 DEF Artifact!State
    <3>4. shown[j.pid] = None
      BY <1>2, <2>3 DEF Shown
    <3> HIDE DEF j, row
    <3>5. Artifact!Publish(j.pid, j.user, j.name, j.member)
      BY <1>1, <2>2, <2>3, <3>2, <3>3, <3>4 DEF Artifact!Publish
    <3> QED  BY <1>2, <1>5, <3>5 DEF Artifact!Next
  <2>4. CASE proposals[j.pid] # None
    <3> DEFINE old == proposals[j.pid].container
    <3>1. /\ shown[j.pid] = old /\ shown[j.pid] # None
          /\ j.version = old.version + 1 /\ j.user = old.owner
          /\ old.version \in Nat \ {0}
      <4>1. j.pid \in Existing /\ old \in Container
        BY <1>2, <2>4, ExistingType DEF Existing, IInv, Proposal
      <4>2. shown[j.pid] = old
        BY <1>2, <4>1, ShownNow DEF StoredContainer
      <4>3. j.version = old.version + 1 /\ j.user = old.owner
        BY <1>2, <1>5, <2>4 DEF LockedJobFits
      <4> QED  BY <4>1, <4>2, <4>3, NoneAssumption DEF Container, Version
    <3>2. row = Artifact!State(old.version + 1, old.owner, j.name, j.member)
      BY <3>1 DEF Artifact!State
    <3>3. CASE j.kind = "publish"
      <4>1. EntryOf(j) = Artifact!Made(old.owner, "overwritten")
        BY <3>1, <3>3 DEF EntryOf, PrimaryRow, Entry, Artifact!Made, FirstVersion
      <4> HIDE DEF j, row, old
      <4>2. Artifact!Overwrite(j.pid, j.name, j.member)
        BY <1>1, <2>2, <2>4, <3>1, <3>2, <4>1 DEF Artifact!Overwrite
      <4> QED  BY <1>2, <1>5, <4>2 DEF Artifact!Next
    <3>4. CASE j.kind # "publish"
      <4>1. EntryOf(j) = Artifact!Made(None, "recalculated") /\ j.name = old.name
        BY <1>2, <3>4 DEF EntryOf, PrimaryRow, Entry, Artifact!Made
      <4> HIDE DEF j, row, old
      <4>2. Artifact!Recalculate(j.pid, j.member)
        BY <1>1, <2>2, <2>4, <3>1, <3>2, <4>1 DEF Artifact!Recalculate
      <4> QED  BY <1>2, <1>5, <4>2 DEF Artifact!Next
    <3> QED  BY <3>3, <3>4
  <2> QED  BY <2>3, <2>4
<1> QED  BY <1>4, <1>5

\* A merge is a merge: the artifacts of the guest change hands and the
\* timelines stand.
LEMMA MergeImplements ==
  ASSUME IInv, IInv', MergeGuest
  PROVE  [Artifact!Next]_(Artifact!vars)
<1> DEFINE shown == [p \in Pids |-> Shown(p)]
           lines == [p \in Pids |-> ShownTimeline(p)]
<1>1. PICK guest \in Guests, user \in Users \ Guests :
        /\ mergedInto[guest] = None
        /\ proposals' = [p \in Pids |-> IF p \in ClaimedBy(guest)
                                       THEN ClaimProposal(proposals[p], user)
                                       ELSE proposals[p]]
        /\ mergedInto' = [mergedInto EXCEPT ![guest] = user]
  BY DEF MergeGuest, Marked
<1>2. /\ Existing' = Existing
      /\ \A p \in Existing :
           LET old == proposals[p]
               new == proposals'[p]
           IN  /\ new \in Proposal
               /\ new.container.version = old.container.version
               /\ new.container.name = old.container.name
               /\ new.container.member = old.container.member
               /\ IF old.container.owner = guest
                  THEN new.container.owner = user ELSE new = old
  BY <1>1, MergeMoves
<1>3. \A p \in Pids : shown[p] = StoredContainer(p) /\ shown'[p] = StoredContainer(p)'
  BY ShownNow, ShownNext
<1>4. ASSUME NEW p \in Pids
      PROVE  shown'[p] = IF shown[p] # None /\ shown[p].owner = guest
                         THEN [shown[p] EXCEPT !.owner = user] ELSE shown[p]
  <2>1. CASE p \notin Existing
    BY <1>2, <1>3, <2>1 DEF StoredContainer
  <2>2. CASE p \in Existing
    <3> DEFINE old == proposals[p].container
               new == proposals'[p].container
    <3>1. /\ old \in Container /\ new \in Container /\ old # None
          /\ shown[p] = old /\ shown'[p] = new
      BY <1>2, <1>3, <2>2, ExistingType, NoneAssumption
         DEF StoredContainer, IInv, Proposal
    <3>2. /\ new.version = old.version /\ new.name = old.name
          /\ new.member = old.member
          /\ IF old.owner = guest THEN new.owner = user ELSE new = old
      BY <1>2, <2>2
    <3> HIDE DEF old, new, shown
    <3>3. old.owner = guest => new = [old EXCEPT !.owner = user]
      BY <3>1, <3>2 DEF Container
    <3> QED  BY <3>1, <3>2, <3>3
  <2> QED  BY <2>1, <2>2
<1>5. lines' = lines
  <2> SUFFICES ASSUME NEW p \in Pids PROVE ShownTimeline(p)' = ShownTimeline(p)
    OBVIOUS
  <2>1. \A n : EntryAt(p, n)' = EntryAt(p, n)
    BY DEF MergeGuest, EntryAt, EntriesAt, Primary
  <2>2. CASE p \notin Existing
    BY <1>2, <2>2, TimelineShown, TimelineShownNext
  <2>3. CASE p \in Existing
    <3> DEFINE top == proposals[p].container.version
    <3>1. ShownTimeline(p) = [n \in 1 .. top |-> EntryAt(p, n)]
      BY <2>3, TimelineShown
    <3>2. proposals'[p].container.version = top
      BY <1>2, <2>3
    <3>3. ShownTimeline(p)' =
            [n \in 1 .. proposals'[p].container.version |-> EntryAt(p, n)']
      BY <1>2, <2>3, TimelineShownNext
    <3> HIDE DEF top
    <3>4. ShownTimeline(p)' = [n \in 1 .. top |-> EntryAt(p, n)']
      BY <3>2, <3>3
    <3> QED  BY <2>1, <3>1, <3>4
  <2> QED  BY <2>2, <2>3
<1>6. Artifact!Merge(guest, user)
  <2>1. shown' = [p \in Pids |->
                    IF shown[p] # None /\ shown[p].owner = guest
                    THEN [shown[p] EXCEPT !.owner = user] ELSE shown[p]]
    <3> HIDE DEF shown
    <3>1. shown' = [p \in Pids |-> shown'[p]]
      BY DEF shown
    <3> QED  BY <1>4, <3>1
  <2>2. shown' = [p \in Pids |->
                    IF p \in Artifact!Published /\ shown[p].owner = guest
                    THEN [shown[p] EXCEPT !.owner = user] ELSE shown[p]]
    <3>1. \A p \in Pids : p \in Artifact!Published <=> shown[p] # None
      BY DEF Artifact!Published
    <3> HIDE DEF shown
    <3> QED  BY <2>1, <3>1
  <2> QED  BY <1>1, <1>5, <2>2 DEF Artifact!Merge
<1> QED  BY <1>6 DEF Artifact!Next

\* Every step is a step of the artifacts or does not show.
LEMMA StepImplements ==
  ASSUME IInv, IInv', [Next]_vars
  PROVE  [Artifact!Next]_(Artifact!vars)
<1>1. CASE UNCHANGED <<rows_vars, mergedInto>>
  <2>1. \A p \in Pids : Shown(p)' = Shown(p) /\ ShownTimeline(p)' = ShownTimeline(p)
    BY <1>1 DEF rows_vars, Shown, ShownTimeline, EntryAt, EntriesAt, Primary
  <2> QED  BY <1>1, <2>1 DEF Artifact!vars
<1> QED
  BY <1>1, CommitImplements, MergeImplements, OnlyCommitWrites
     DEF vars, rows_vars, world_vars

\* The proposals of the first deployment are in their first state.
LEMMA InitImplements == Init => Artifact!Init
<1> SUFFICES ASSUME Init PROVE Artifact!Init
  OBVIOUS
<1> DEFINE shown == [p \in Pids |-> Shown(p)]
           lines == [p \in Pids |-> ShownTimeline(p)]
<1>1. PICK owner \in Users, name \in Names, request \in Requests :
        /\ proposals = [p \in Pids |->
                          IF p <= Legacy
                          THEN LegacyProposal(owner, name, request, base)
                          ELSE None]
        /\ log = {Entry(p, 1, owner, "published") : p \in 1 .. Legacy}
  BY DEF Init
<1> DEFINE old == LegacyProposal(owner, name, request, base)
           c   == old.container
<1>2. IInv
  BY InitInvariant
<1>3. /\ old \in Proposal /\ old.container.version = 1 /\ old # None
      /\ old.container.owner = owner
  <2>1. base \in Variants
    BY DEF Init, Variants
  <2>2. old \in Proposal /\ old.container.version = 1
    BY <2>1, LegacyAgrees
  <2>3. old.container.owner = owner
    BY DEF LegacyProposal, WriteState
  <2> QED  BY <2>2, <2>3, NoneAssumption
<1>4. \A p \in Pids : proposals[p] = IF p <= Legacy THEN old ELSE None
  BY <1>1
<1> HIDE DEF old
<1>5. c \in [version : {1}, owner : Users, name : Names, member : Member]
      /\ c # None /\ c.owner = owner
  <2>1. c \in Container
    BY <1>3 DEF Proposal
  <2> QED  BY <1>3, <2>1, NoneAssumption DEF Container
<1>6. ASSUME NEW p \in Pids
      PROVE  /\ shown[p] = IF p <= Legacy THEN c ELSE None
             /\ lines[p] = IF p <= Legacy THEN <<Artifact!Made(owner, "published")>>
                           ELSE <<>>
  <2>1. Shown(p) = IF p <= Legacy THEN c ELSE None
    BY <1>2, <1>3, <1>4, ShownNow DEF StoredContainer, Existing
  <2>2. CASE ~(p <= Legacy)
    BY <1>4, <2>1, <2>2 DEF ShownTimeline
  <2>3. CASE p <= Legacy
    <3> DEFINE l == Entry(p, 1, owner, "published")
    <3>1. l.pid = p /\ l.version = 1 /\ l.user = owner /\ l.event = "published"
      BY DEF Entry
    <3>2. EntriesAt(p, 1) = {l}
      <4>1. p \in 1 .. Legacy
        BY <2>3, StoreAssumption DEF Pids
      <4>2. \A k \in log : k.pid = p <=> k = l
        BY <1>1 DEF Entry
      <4>3. l \in log
        BY <1>1, <4>1
      <4> HIDE DEF l
      <4> QED  BY <3>1, <4>2, <4>3 DEF EntriesAt, Primary
    <3>3. EntryAt(p, 1) = Artifact!Made(owner, "published")
      <4>1. (CHOOSE k \in {l} : TRUE) = l
        OBVIOUS
      <4> HIDE DEF l
      <4> QED  BY <3>1, <3>2, <4>1 DEF EntryAt, Artifact!Made
    <3>4. ShownTimeline(p) = [n \in 1 .. 1 |-> EntryAt(p, n)]
      <4>1. p \in Existing /\ proposals[p].container.version = 1
        BY <1>3, <1>4, <2>3 DEF Existing
      <4> QED  BY <1>2, <4>1, TimelineShown
    <3>5. ShownTimeline(p) = <<Artifact!Made(owner, "published")>>
      BY <3>3, <3>4
    <3> QED  BY <2>1, <2>3, <3>5
  <2> QED  BY <2>1, <2>2, <2>3
<1> HIDE DEF shown, lines, c
<1>7. shown \in [Pids -> [version : {1}, owner : Users, name : Names,
                         member : Member] \cup {None}]
  BY <1>5, <1>6 DEF shown
<1>8. lines = [p \in Pids |-> IF shown[p] = None THEN <<>>
                             ELSE <<Artifact!Made(shown[p].owner, "published")>>]
  BY <1>5, <1>6 DEF lines
<1> QED  BY <1>7, <1>8 DEF Init, Artifact!Init, shown, lines

\* What readers see of the store behaves as one artifact per proposal: whole
\* states, numbered without a gap, each with its timeline entry, made by the
\* owner or the system, through any interleaving of publishes, refreshes,
\* repairs, merges, failures and restarts.
THEOREM StoreImplementsArtifact == Spec => ArtifactImplemented
<1>1. IInv /\ IInv' /\ [Next]_vars => [Artifact!Next]_(Artifact!vars)
  BY StepImplements
<1> QED
  BY <1>1, InitImplements, InductiveInvariant, PTL
     DEF Spec, ArtifactImplemented, Artifact!Spec

-----------------------------------------------------------------------------
(***************************************************************************)
(* The row of the base scenario, where no backfill runs.                   *)
(***************************************************************************)

\* The rows a job carries are of the member it carries: both come from one
\* request and one build.
RowsFit(j, build) ==
  /\ j.kind # "backfill"
  /\ j.kind \in Rewrites /\ j.phase = "computed" =>
       j.member.request = j.request /\ j.member.build = build
  /\ j.kind \in Rewrites /\ j.phase \in {"projected", "locked"} =>
       LET row == j.rows[j.member.variant]
       IN  row # None => row.member = j.member

\* With it no queue holds a backfill, and no job is one.
BaseRowInv ==
  /\ \A t \in Threads : job[t] # None => RowsFit(job[t], code[t])
  /\ \A t \in Threads : \A item \in queue[t] : item.kind # "backfill"
  /\ BaseRowIsTheProposal

\* A step that replaces one job and leaves the tables alone.
LEMMA RowsStep ==
  ASSUME IInv, BaseRowInv, NEW t \in Threads, NEW j,
         job' = [job EXCEPT ![t] = j],
         j # None => RowsFit(j, code'[t]),
         \A s \in Threads : s # t => code'[s] = code[s],
         proposals' = proposals,
         \A s \in Threads : \A item \in queue'[s] : item.kind # "backfill"
  PROVE  BaseRowInv'
<1>1. \A s \in Threads : job'[s] = IF s = t THEN j ELSE job[s]
  BY DEF IInv, TypeOK
<1>2. \A s \in Threads : job'[s] # None => RowsFit(job'[s], code'[s])
  <2> SUFFICES ASSUME NEW s \in Threads, job'[s] # None
               PROVE  RowsFit(job'[s], code'[s])
    OBVIOUS
  <2>1. CASE s = t  BY <1>1, <2>1
  <2>2. CASE s # t
    <3>1. job'[s] = job[s] /\ code'[s] = code[s]  BY <1>1, <2>2
    <3> QED  BY <3>1, Zenon DEF BaseRowInv
  <2> QED  BY <2>1, <2>2
<1>3. BaseRowIsTheProposal'
  BY Zenon DEF BaseRowInv, BaseRowIsTheProposal, Existing
<1>4. (\A s \in Threads : job[s] # None => RowsFit(job[s], code[s]))'
  BY <1>2, Zenon DEF RowsFit
<1> QED  BY <1>3, <1>4, Zenon DEF BaseRowInv

\* Jobs begin with nothing computed.
LEMMA NewRowsFit ==
  ASSUME NEW j, NEW build, j.kind # "backfill",
         j.phase \notin {"computed", "projected", "locked"}
  PROVE  RowsFit(j, build)
BY DEF RowsFit

\* The handlers write nothing; the jobs they change have no rows yet.
LEMMA HandlerRows ==
  ASSUME IInv, BaseRowInv, NEW h \in Handlers, HandlerStep(h)
  PROVE  BaseRowInv'
<1>1. /\ h \in Threads /\ proposals' = proposals /\ code' = code /\ queue' = queue
  BY DEF HandlerStep, AcceptPublish, LoadContainer, Reload, ReadTrips,
         ReadSidecars, Respond, rows_vars, Threads
<1>2. \E j : /\ job' = [job EXCEPT ![h] = j]
             /\ j # None => RowsFit(j, code[h])
  <2>1. CASE AcceptPublish(h)
    <3>1. PICK pid \in Pids \cup {0}, user \in Users, name \in Names,
               request \in Requests, pin \in {None, base}, source \in Sources :
            job' = [job EXCEPT ![h] =
                      PublishJob(pid, user, name, request, pin, source)]
      BY <2>1 DEF AcceptPublish
    <3> DEFINE j == PublishJob(pid, user, name, request, pin, source)
    <3>2. j.kind = "publish" /\ j.phase = "accepted"
      BY DEF PublishJob, NewJob
    <3>3. RowsFit(j, code[h])  BY <3>2 DEF RowsFit
    <3> QED  BY <3>1, <3>3
  <2>2. CASE LoadContainer(h)
    <3>1. PICK pid \in Existing : job' = [job EXCEPT ![h] = Loaded(h, pid)]
      BY <2>2 DEF LoadContainer
    <3> DEFINE j == Loaded(h, pid)
    <3>2. j.kind = "load" /\ j.phase \in {"loaded", "accepted"}
      BY DEF Loaded, NewJob
    <3>3. RowsFit(j, code[h])
      <4> HIDE DEF j
      <4> QED  BY <3>2 DEF RowsFit
    <3> QED  BY <3>1, <3>3
  <2>3. CASE Reload(h)
    <3> DEFINE j == [job[h] EXCEPT !.phase = "loaded",
                                   !.view = proposals[job[h].pid].container]
    <3>1. job' = [job EXCEPT ![h] = j] /\ job[h] # None  BY <2>3 DEF Reload, In
    <3>2. job[h] \in Job /\ RowsFit(job[h], code[h])
      BY <1>1, <3>1 DEF IInv, TypeOK, BaseRowInv
    <3>3. j.kind = job[h].kind /\ j.phase = "loaded"  BY <3>2 DEF Job
    <3>4. RowsFit(j, code[h])
      <4> HIDE DEF j
      <4> QED  BY <3>2, <3>3 DEF RowsFit
    <3> QED  BY <3>1, <3>4
  <2>4. CASE ReadTrips(h)
    <3> DEFINE found == Stored(job[h].pid, job[h].view.version)
               j == IF found = {} THEN None
                    ELSE [job[h] EXCEPT !.phase = "trips",
                            !.trips = (CHOOSE g \in found : TRUE).member]
    <3>1. job' = [job EXCEPT ![h] = j] /\ job[h] # None
      BY <2>4 DEF ReadTrips, In
    <3>2. job[h] \in Job /\ RowsFit(job[h], code[h])
      BY <1>1, <3>1 DEF IInv, TypeOK, BaseRowInv
    <3>3. j # None => j.kind = job[h].kind /\ j.phase = "trips"
      BY <3>2 DEF Job
    <3>4. j # None => RowsFit(j, code[h])
      <4> HIDE DEF j
      <4> QED  BY <3>2, <3>3 DEF RowsFit
    <3> HIDE DEF j, found
    <3> QED  BY <3>1, <3>4
  <2>5. CASE ReadSidecars(h)
    <3> DEFINE found == Stored(job[h].pid, job[h].view.version)
               cars == IF found = {} THEN None
                       ELSE (CHOOSE g \in found : TRUE).member
               j == [job[h] EXCEPT !.phase = "respond", !.sidecars = cars]
    <3>1. job' = [job EXCEPT ![h] = j] /\ job[h] # None
      BY <2>5 DEF ReadSidecars, In
    <3>2. job[h] \in Job /\ RowsFit(job[h], code[h])
      BY <1>1, <3>1 DEF IInv, TypeOK, BaseRowInv
    <3>3. j.kind = job[h].kind /\ j.phase = "respond"  BY <3>2 DEF Job
    <3>4. RowsFit(j, code[h])
      <4> HIDE DEF j
      <4> QED  BY <3>2, <3>3 DEF RowsFit
    <3> HIDE DEF j, found, cars
    <3> QED  BY <3>1, <3>4
  <2>6. CASE Respond(h)
    <3>1. job' = [job EXCEPT ![h] = None]  BY <2>6 DEF Respond
    <3> QED  BY <3>1
  <2> QED  BY <2>1, <2>2, <2>3, <2>4, <2>5, <2>6 DEF HandlerStep
<1>3. PICK j : /\ job' = [job EXCEPT ![h] = j]
               /\ j # None => RowsFit(j, code[h])
  BY <1>2
<1>4. \A s \in Threads : \A item \in queue'[s] : item.kind # "backfill"
  BY <1>1 DEF BaseRowInv
<1>5. \A s \in Threads : s # h => code'[s] = code[s]  BY <1>1
<1>6. j # None => RowsFit(j, code'[h])  BY <1>1, <1>3
<1> QED  BY <1>1, <1>3, <1>4, <1>5, <1>6, RowsStep

\* A script's queue is of its kind, and so are its jobs.
LEMMA ScriptRows ==
  ASSUME IInv, BaseRowInv, "backfill" \notin Workload,
         NEW s \in Scripts, ScriptStep(s)
  PROVE  BaseRowInv'
<1>1. s \in Threads  BY DEF Threads
<1>2. CASE StartScript(s)
  <2>1. /\ proposals' = proposals /\ job' = job
        /\ code' = [code EXCEPT ![s] = release]
    BY <1>2 DEF StartScript, rows_vars
  <2>2. PICK kind \in Workload \cap ScriptKinds :
          queue' = [queue EXCEPT ![s] =
                      CASE kind = "refresh"  -> OutdatedItems(release)
                        [] kind = "backfill" -> BackfillItems(release)
                        [] OTHER             -> CorridorItems]
    BY <1>2, Zenon DEF StartScript
  <2>3. kind # "backfill"  BY <2>2
  <2> DEFINE items == CASE kind = "refresh"  -> OutdatedItems(release)
                        [] kind = "backfill" -> BackfillItems(release)
                        [] OTHER             -> CorridorItems
  <2>4. \A item \in items : item.kind # "backfill"
    <3>1. CASE kind = "refresh"
      <4>1. items = OutdatedItems(release)  BY <3>1
      <4>2. \A item \in OutdatedItems(release) : item.kind = "refresh"
        BY DEF OutdatedItems
      <4> HIDE DEF items
      <4> QED  BY <4>1, <4>2
    <3>2. CASE kind # "refresh"
      <4>1. items = CorridorItems  BY <2>3, <3>2
      <4>2. \A item \in CorridorItems : item.kind = "rebuild"
        BY DEF CorridorItems
      <4> HIDE DEF items
      <4> QED  BY <4>1, <4>2
    <3> QED  BY <3>1, <3>2
  <2>5. queue' = [queue EXCEPT ![s] = items]  BY <2>2
  <2> HIDE DEF items
  <2>6. \A t \in Threads : \A item \in queue'[t] : item.kind # "backfill"
    <3>1. queue \in [Threads -> SUBSET Item]  BY DEF IInv, TypeOK
    <3>2. \A t \in Threads : queue'[t] = IF t = s THEN items ELSE queue[t]
      BY <2>5, <3>1
    <3> QED  BY <2>4, <3>2 DEF BaseRowInv
  <2>7. job[s] = None  BY <1>2 DEF StartScript, Idle
  <2>8. job' = [job EXCEPT ![s] = None]
    <3>1. job \in [Threads -> Job \cup {None}]  BY DEF IInv, TypeOK
    <3> QED  BY <2>1, <2>7, <3>1
  <2>9. \A t \in Threads : t # s => code'[t] = code[t]
    BY <2>1 DEF IInv, TypeOK
  <2> DEFINE j == None
  <2>10. j # None => RowsFit(j, code'[s])  OBVIOUS
  <2> QED  BY <1>1, <2>1, <2>6, <2>8, <2>9, RowsStep
<1>3. CASE TakeItem(s)
  <2>1. PICK item \in queue[s] :
          /\ queue' = [queue EXCEPT ![s] = queue[s] \ {item}]
          /\ job' = [job EXCEPT ![s] = ItemJob(item)]
    BY <1>3 DEF TakeItem
  <2>2. /\ queue \in [Threads -> SUBSET Item] /\ item \in Item
        /\ item.kind # "backfill"
    BY <1>1 DEF IInv, TypeOK, BaseRowInv
  <2> DEFINE j == ItemJob(item)
  <2>3. /\ j.kind = item.kind
        /\ j.phase = IF item.kind = "refresh" THEN "accepted" ELSE "projected"
    BY <2>2 DEF ItemJob, NewJob, Item
  <2>4. item.kind \in {"refresh", "rebuild"}
    BY <2>2 DEF Item, ScriptKinds
  <2>5. RowsFit(j, code'[s])
    <3> HIDE DEF j
    <3> QED  BY <2>3, <2>4 DEF RowsFit, Rewrites
  <2>6. \A t \in Threads : \A i \in queue'[t] : i.kind # "backfill"
    <3>1. \A t \in Threads : queue'[t] \subseteq queue[t]
      BY <2>1, <2>2
    <3> QED  BY <3>1 DEF BaseRowInv
  <2>7. proposals' = proposals /\ code' = code
    BY <1>3 DEF TakeItem, rows_vars
  <2>8. job' = [job EXCEPT ![s] = j]  BY <2>1
  <2> HIDE DEF j
  <2> QED  BY <1>1, <2>5, <2>6, <2>7, <2>8, RowsStep
<1> QED  BY <1>2, <1>3 DEF ScriptStep

\* The computes: member and rows are of the job's request and the process's
\* build.
LEMMA ComputeRows ==
  ASSUME IInv, BaseRowInv, NEW t \in Threads,
         ComputeMember(t) \/ ProjectRows(t)
  PROVE  BaseRowInv'
<1> DEFINE i == job[t]
<1>1. /\ i # None /\ proposals' = proposals /\ code' = code /\ queue' = queue
  BY DEF ComputeMember, ProjectRows, In, rows_vars
<1>2. i \in Job /\ RowsFit(i, code[t])
  BY <1>1 DEF IInv, TypeOK, BaseRowInv
<1>3. \A s \in Threads : \A item \in queue'[s] : item.kind # "backfill"
  BY <1>1 DEF BaseRowInv
<1>4. CASE ComputeMember(t)
  <2> DEFINE m == [request |-> i.request, variant |-> Resolved(i),
                   build |-> code[t]]
             j == [i EXCEPT !.phase = "computed", !.member = m]
  <2>1. job' = [job EXCEPT ![t] = j]  BY <1>4 DEF ComputeMember
  <2>2. /\ j.kind = i.kind /\ j.phase = "computed" /\ j.member = m
        /\ j.request = i.request
    BY <1>2 DEF Job
  <2>3. m.request = i.request /\ m.build = code[t]  OBVIOUS
  <2> HIDE DEF j, m, i
  <2>4. RowsFit(j, code'[t])
    <3>1. i.kind # "backfill"  BY <1>2 DEF RowsFit
    <3> QED  BY <1>1, <2>2, <2>3, <3>1 DEF RowsFit
  <2>5. \A s \in Threads : s # t => code'[s] = code[s]  BY <1>1
  <2> QED  BY <1>1, <1>3, <2>1, <2>4, <2>5, RowsStep
<1>5. CASE ProjectRows(t)
  <2> DEFINE rows == Projection(i.request, code[t], Current, served)
             j    == [i EXCEPT !.phase = "projected", !.rows = rows]
  <2>1. /\ job' = [job EXCEPT ![t] = j] /\ i.phase = "computed"
    BY <1>5 DEF ProjectRows, In
  <2>2. /\ j.kind = i.kind /\ j.phase = "projected" /\ j.rows = rows
        /\ j.member = i.member
    BY <1>2 DEF Job
  <2>3. i.kind # "backfill"  BY <1>2 DEF RowsFit
  <2>4. ASSUME j.kind \in Rewrites
        PROVE  LET row == j.rows[j.member.variant]
               IN  row # None => row.member = j.member
    <3> DEFINE m == i.member
               v == m.variant
    <3>1. m \in Member
      <4>1. JobCarries(i)  BY <1>1 DEF IInv, JobsCarry
      <4> QED  BY <2>1, <2>2, <2>4, <4>1 DEF JobCarries
    <3>2. m.request = i.request /\ m.build = code[t]
      BY <1>2, <2>1, <2>2, <2>4 DEF RowsFit
    <3>3. v \in Variants /\ m = [request |-> m.request, variant |-> v,
                                 build |-> m.build]
      BY <3>1 DEF Member
    <3>4. rows[v] # None =>
            rows[v].member = [request |-> i.request, variant |-> v,
                              build |-> code[t]]
      BY <3>3 DEF Projection
    <3> HIDE DEF rows, j, m, v, i
    <3>5. rows[v] # None => rows[v].member = m  BY <3>2, <3>3, <3>4, Zenon
    <3> QED  BY <2>2, <3>5 DEF v, m
  <2> HIDE DEF j, rows, i
  <2>5. RowsFit(j, code'[t])
    BY <2>2, <2>3, <2>4 DEF RowsFit
  <2>6. \A s \in Threads : s # t => code'[s] = code[s]  BY <1>1
  <2> QED  BY <1>1, <1>3, <2>1, <2>5, <2>6, RowsStep
<1> QED  BY <1>4, <1>5

\* Taking the lock leaves what was computed.
LEMMA LockRows ==
  ASSUME IInv, BaseRowInv, NEW t \in Threads, DrawPid(t) \/ LockRow(t)
  PROVE  BaseRowInv'
<1> DEFINE i == job[t]
<1>1. /\ i # None /\ i.phase = "projected"
      /\ proposals' = proposals /\ code' = code /\ queue' = queue
  BY DEF DrawPid, LockRow, In, rows_vars
<1>2. i \in Job /\ RowsFit(i, code[t])
  BY <1>1 DEF IInv, TypeOK, BaseRowInv
<1>3. \E j : /\ job' = [job EXCEPT ![t] = j]
             /\ j.kind = i.kind /\ j.phase = "locked" /\ j.rows = i.rows
             /\ j.member = i.member
  <2>1. CASE DrawPid(t)
    <3> DEFINE j == [i EXCEPT !.phase = "locked", !.pid = lastPid + 1,
                              !.version = FirstVersion]
    <3>1. job' = [job EXCEPT ![t] = j]  BY <2>1 DEF DrawPid
    <3>2. /\ j.kind = i.kind /\ j.phase = "locked" /\ j.rows = i.rows
          /\ j.member = i.member
      BY <1>2 DEF Job
    <3> QED  BY <3>1, <3>2
  <2>2. CASE LockRow(t)
    <3> DEFINE j == LockedJob(i, proposals[i.pid].container)
    <3>1. job' = [job EXCEPT ![t] = j]  BY <2>2 DEF LockRow
    <3>2. /\ j.kind = i.kind /\ j.phase = "locked" /\ j.rows = i.rows
          /\ j.member = i.member
      BY <1>2 DEF Job, LockedJob
    <3> QED  BY <3>1, <3>2
  <2> QED  BY <2>1, <2>2
<1>4. PICK j : /\ job' = [job EXCEPT ![t] = j]
               /\ j.kind = i.kind /\ j.phase = "locked" /\ j.rows = i.rows
               /\ j.member = i.member
  BY <1>3
<1> HIDE DEF i
<1>5. RowsFit(j, code'[t])  BY <1>1, <1>2, <1>4 DEF RowsFit
<1>6. \A s \in Threads : \A item \in queue'[s] : item.kind # "backfill"
  BY <1>1 DEF BaseRowInv
<1>7. \A s \in Threads : s # t => code'[s] = code[s]  BY <1>1
<1> QED  BY <1>1, <1>4, <1>5, <1>6, <1>7, RowsStep

\* Work that ends without a write, in order or not.
LEMMA EndRows ==
  ASSUME IInv, BaseRowInv, NEW t \in Threads,
         ComputeRaises(t) \/ Reject(t) \/ Fail(t) \/ Restart(t)
  PROVE  BaseRowInv'
<1>1. /\ job' = [job EXCEPT ![t] = None] /\ proposals' = proposals
      /\ code' = code \/ code' = [code EXCEPT ![t] = release]
      /\ queue' = queue \/ queue' = [queue EXCEPT ![t] = {}]
  BY DEF ComputeRaises, Reject, Fail, Restart, Drop, rows_vars
<1>2. code \in [Threads -> Builds] /\ queue \in [Threads -> SUBSET Item]
  BY DEF IInv, TypeOK
<1>3. \A s \in Threads : s # t => code'[s] = code[s]  BY <1>1, <1>2
<1>4. \A s \in Threads : queue'[s] \subseteq queue[s]  BY <1>1, <1>2
<1>5. \A s \in Threads : \A item \in queue'[s] : item.kind # "backfill"
  BY <1>4 DEF BaseRowInv
<1> DEFINE j == None
<1>6. j # None => RowsFit(j, code'[t])  OBVIOUS
<1> QED  BY <1>1, <1>3, <1>5, <1>6, RowsStep

\* A rewrite stores member and rows of one job; a corridor rebuild touches
\* neither.
LEMMA WrittenRow ==
  ASSUME IInv, BaseRowInv, NEW t \in Threads, In(t, "locked")
  PROVE  LET new == Written(job[t])
             member == new.container.member
             row == new.scenarios[member.variant]
         IN  row # None => row.member = member
<1> DEFINE j == job[t]
           old == proposals[j.pid]
           new == Written(j)
<1>1. /\ RowsFit(j, code[t]) /\ j.phase = "locked"
  BY DEF BaseRowInv, In
<1>2. /\ j.pid \in Pids /\ j.rows \in ComputedRows
      /\ j.kind \in Rewrites => j.member \in Member
      /\ j.kind # "publish" => j.pid \in Existing
  BY Committing
<1>3. CASE j.kind \in Rewrites
  <2> DEFINE m == j.member
             v == m.variant
             gtfs == IF old = None THEN {} ELSE old.gtfs
  <2>1. m \in Member /\ v \in Variants  BY <1>2, <1>3 DEF Member
  <2>2. new = WriteState(gtfs, j.version, j.user, j.name, m, j.rows)
    BY <1>3 DEF Written, Rewrites
  <2>3. /\ new.container.member = m
        /\ new.scenarios = ScenarioSummaries(j.version, j.rows)
    <3> HIDE DEF gtfs, j, new, m
    <3> QED  BY <2>2 DEF WriteState
  <2>4. j.rows[v] # None => j.rows[v].member = m
    BY <1>1, <1>3 DEF RowsFit
  <2>5. ScenarioSummaries(j.version, j.rows)[v] # None =>
          ScenarioSummaries(j.version, j.rows)[v].member = m
    <3> HIDE DEF m, v, j
    <3> QED  BY <2>1, <2>4 DEF ScenarioSummaries
  <2> HIDE DEF j, new, m
  <2> QED  BY <2>3, <2>5 DEF v, j, new
<1>4. CASE j.kind \notin Rewrites
  <2>1. j.pid \in Existing /\ old \in Proposal
    BY <1>2, <1>4, ExistingType DEF Rewrites, IInv
  <2>2. j.kind # "backfill"  BY <1>1 DEF RowsFit
  <2>3. new = RebuildCorridors(old, j.version)
    BY <1>4, <2>2 DEF Written
  <2>4. new.container = old.container /\ new.scenarios = old.scenarios
    <3> HIDE DEF old, new, j
    <3> QED  BY <2>1, <2>3 DEF RebuildCorridors, Proposal
  <2>5. LET row == old.scenarios[old.container.member.variant]
        IN  row # None => row.member = old.container.member
    BY <2>1, Zenon DEF BaseRowInv, BaseRowIsTheProposal
  <2> HIDE DEF old, new, j
  <2> QED  BY <2>4, <2>5 DEF new, j
<1> QED  BY <1>3, <1>4

\* A commit stores what WrittenRow says and leaves the other proposals alone.
LEMMA CommitRows ==
  ASSUME IInv, BaseRowInv, NEW t \in Threads, Commit(t)
  PROVE  BaseRowInv'
<1> DEFINE i   == job[t]
           pid == i.pid
           new == Written(i)
           j   == IF i.kind = "load"
                  THEN [NewJob("load", pid) EXCEPT !.phase = "reload"] ELSE None
<1>1. /\ In(t, "locked")
      /\ proposals' = [proposals EXCEPT ![pid] = new]
      /\ job' = [job EXCEPT ![t] = j]
      /\ code' = code /\ queue' = queue
  BY DEF Commit
<1>2. LET row == new.scenarios[new.container.member.variant]
      IN  row # None => row.member = new.container.member
  BY <1>1, WrittenRow
<1>3. j # None => RowsFit(j, code[t])
  BY DEF RowsFit, NewJob
<1> HIDE DEF new, j
<1>4. \A p \in Pids : proposals'[p] = IF p = pid THEN new ELSE proposals[p]
  BY <1>1 DEF IInv, TypeOK
<1>5. BaseRowIsTheProposal'
  <2> SUFFICES ASSUME NEW p \in Pids, proposals'[p] # None
               PROVE  LET member == proposals'[p].container.member
                          row    == proposals'[p].scenarios[member.variant]
                      IN  row # None => row.member = member
    BY Zenon DEF BaseRowIsTheProposal, Existing
  <2>1. CASE p = pid
    <3>1. proposals'[p] = new  BY <1>4, <2>1
    <3> QED  BY <1>2, <3>1, Zenon
  <2>2. CASE p # pid
    <3>1. proposals'[p] = proposals[p] /\ p \in Existing
      BY <1>4, <2>2 DEF Existing
    <3> QED  BY <3>1, Zenon DEF BaseRowInv, BaseRowIsTheProposal
  <2> QED  BY <2>1, <2>2
<1>6. \A s \in Threads : job'[s] = IF s = t THEN j ELSE job[s]
  BY <1>1 DEF IInv, TypeOK
<1>7. \A s \in Threads : job'[s] # None => RowsFit(job'[s], code'[s])
  <2> SUFFICES ASSUME NEW s \in Threads, job'[s] # None
               PROVE  RowsFit(job'[s], code'[s])
    OBVIOUS
  <2>1. CASE s = t  BY <1>1, <1>3, <1>6, <2>1
  <2>2. CASE s # t
    <3>1. job'[s] = job[s] /\ code'[s] = code[s]  BY <1>1, <1>6, <2>2
    <3> QED  BY <3>1, Zenon DEF BaseRowInv
  <2> QED  BY <2>1, <2>2
<1>8. (\A s \in Threads : job[s] # None => RowsFit(job[s], code[s]))'
  BY <1>7, Zenon DEF RowsFit
<1> QED  BY <1>1, <1>5, <1>8, Zenon DEF BaseRowInv

\* A merge changes owners only.
LEMMA MergeRows ==
  ASSUME IInv, BaseRowInv, MergeGuest
  PROVE  BaseRowInv'
<1>1. job' = job /\ code' = code /\ queue' = queue  BY DEF MergeGuest
<1>2. PICK guest \in Guests, user \in Users \ Guests :
        proposals' = [p \in Pids |-> IF p \in ClaimedBy(guest)
                                     THEN ClaimProposal(proposals[p], user)
                                     ELSE proposals[p]]
  BY Zenon DEF MergeGuest
<1>3. ASSUME NEW p \in Pids, proposals'[p] # None
      PROVE  LET member == proposals'[p].container.member
                 row    == proposals'[p].scenarios[member.variant]
             IN  row # None => row.member = member
  <2>1. CASE p \in ClaimedBy(guest)
    <3> DEFINE old == proposals[p]
               new == ClaimProposal(old, user)
    <3>1. p \in Existing /\ old \in Proposal
      BY <2>1, ExistingType DEF ClaimedBy, OwnedBy, IInv
    <3>2. proposals'[p] = new  BY <1>2, <2>1
    <3>3. /\ new.container.member = old.container.member
          /\ new.scenarios = old.scenarios
      BY <3>1 DEF ClaimProposal, Proposal, Container
    <3>4. LET row == old.scenarios[old.container.member.variant]
          IN  row # None => row.member = old.container.member
      BY <3>1, Zenon DEF BaseRowInv, BaseRowIsTheProposal
    <3> HIDE DEF old, new
    <3> QED  BY <3>2, <3>3, <3>4
  <2>2. CASE p \notin ClaimedBy(guest)
    <3>1. proposals'[p] = proposals[p]  BY <1>2, <2>2
    <3>2. p \in Existing  BY <1>3, <3>1 DEF Existing
    <3> QED  BY <3>1, <3>2, Zenon DEF BaseRowInv, BaseRowIsTheProposal
  <2> QED  BY <2>1, <2>2
<1>4. BaseRowIsTheProposal'
  BY <1>3, Zenon DEF BaseRowIsTheProposal, Existing
<1> QED  BY <1>1, <1>4, Zenon DEF BaseRowInv, RowsFit

\* At the start no row of a scenario is stored, and nobody works.
LEMMA InitRows == Init => BaseRowInv
<1> SUFFICES ASSUME Init  PROVE BaseRowInv
  OBVIOUS
<1>1. \A t \in Threads : job[t] = None /\ queue[t] = {}  BY DEF Init
<1>2. PICK owner \in Users, name \in Names, request \in Requests :
        proposals = [p \in Pids |->
                       IF p <= Legacy
                       THEN LegacyProposal(owner, name, request, base)
                       ELSE None]
  BY DEF Init
<1>3. \A p \in Existing : proposals[p] = LegacyProposal(owner, name, request, base)
  BY <1>2 DEF Existing
<1>4. base \in Variants  BY DEF Init, Variants
<1> DEFINE m == [request |-> request, variant |-> base, build |-> 1]
           old == LegacyProposal(owner, name, request, base)
<1>5. /\ old.container.member = m
      /\ old.scenarios = ScenarioSummaries(1, NoRows)
  BY DEF LegacyProposal, WriteState
<1>6. \A v \in Variants : ScenarioSummaries(1, NoRows)[v] = None
  BY DEF ScenarioSummaries, NoRows
<1>7. old.scenarios[old.container.member.variant] = None
  <2>1. m.variant = base  OBVIOUS
  <2> HIDE DEF m, old
  <2> QED  BY <1>4, <1>5, <1>6, <2>1
<1>8. BaseRowIsTheProposal
  <2> HIDE DEF old, m
  <2> QED  BY <1>3, <1>7 DEF BaseRowIsTheProposal, old
<1> QED  BY <1>1, <1>8 DEF BaseRowInv

\* One step of the specification, by action.
LEMMA StepRows ==
  ASSUME IInv, BaseRowInv, [Next]_vars, "backfill" \notin Workload
  PROVE  BaseRowInv'
<1>1. ASSUME NEW h \in Handlers, HandlerStep(h)  PROVE BaseRowInv'
  BY <1>1, HandlerRows
<1>2. ASSUME NEW s \in Scripts, ScriptStep(s)  PROVE BaseRowInv'
  BY <1>2, ScriptRows
<1>3. ASSUME NEW t \in Threads, WorkStep(t) \/ Fail(t) \/ Restart(t)
      PROVE  BaseRowInv'
  BY <1>3, ComputeRows, LockRows, EndRows, CommitRows DEF WorkStep
<1>4. CASE Deploy \/ MoveBase \/ ServeGraph \/ UNCHANGED vars
  <2>1. job' = job /\ code' = code /\ queue' = queue /\ proposals' = proposals
    BY <1>4 DEF Deploy, MoveBase, ServeGraph, vars, rows_vars
  <2> QED  BY <2>1, Zenon DEF BaseRowInv, RowsFit, BaseRowIsTheProposal, Existing
<1>5. CASE MergeGuest  BY <1>5, MergeRows
<1> QED  BY <1>1, <1>2, <1>3, <1>4, <1>5 DEF Next

\* "The base row is a duplicate of proposal_summaries by construction"
\* (adapters/proposal/README.md:679), as long as no backfill runs: its rows
\* are of the request it read when it started.
THEOREM BaseRowsRepeat ==
  ASSUME "backfill" \notin Workload
  PROVE  Spec => []BaseRowIsTheProposal
<1>1. IInv /\ BaseRowInv /\ [Next]_vars => BaseRowInv'
  BY StepRows
<1>2. BaseRowInv => BaseRowIsTheProposal  BY DEF BaseRowInv
<1> QED  BY <1>1, <1>2, InitRows, InductiveInvariant, PTL DEF Spec
=============================================================================
