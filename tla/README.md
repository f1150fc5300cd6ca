# Night Train Target Network: verification project

TLA+ models, TLC runs and TLAPS proofs for the Night Train Target Network: the
backend (`src/backend`) and the proposal page of its client (`src/frontend`).
The models are written from the code. Where a document or a comment says more
than the code does, the code is modelled, and the disagreement is either a run
of its own or listed in section 7.

## 1. The system

A Flask application under gunicorn (several worker processes, several request
threads each) over one PostgreSQL database (READ COMMITTED, psycopg2), a rail
router reached over HTTP, maintenance scripts run by cron or by hand, and a Vue
client. Users draft a night train, the backend computes it as a *family* of
members (one per scenario variant and composition), and a draft can be
published as a *proposal*, which others browse, like, comment, branch and
compare.

| Component | State it keeps | Operations | What is hard about it | Modules |
|---|---|---|---|---|
| Published-proposal store (`adapters/proposal/repository.py`, `gtfs_store.py`, `api/helpers/publish_dispatch.py`, `proposal_load.py`, `scenario_summaries.py`, `scripts/refresh_proposals.py`) | `proposals`, its GTFS generation, `proposal_summaries`, `proposal_scenario_summaries`, `proposal_corridors`, `update_log`, the id sequence | publish, overwrite, branch, load with on-load refresh, refresh batch, scenario backfill, corridor rebuild, gallery map | minutes of computing between the read and the write; six tables per state; four kinds of writers; deployments and base moves in between | `ProposalTables`, `ProposalStore`, `ProposalArtifact`, `ProposalView` |
| Connection pool (`adapters/db_pool.py`) | slots of a bounded semaphore, the connections | borrow, give back, discard a broken one, time out | a slot lost on an error path; more borrowers than slots when builds overlap | `ConnectionPool` |
| Compute family (`models/family/*`) | per-build memo: one gate and one value per key | prewarm, compute members, assemble | single flight among threads, failures of the owner, the order of the members | `SingleFlight`, `FamilyBuild` |
| Route segment cache (`adapters/route_segment_repository.py`, `models/route/routing/rail_router.py`) | legs per pair of stops, the import they were routed on | look up, route, store, purge on a new import | two directions of one row; passages charged once; a purge in several statements beside stores, builds and other purges | `SegmentCache` |
| Accounts (`api/auth.py`, `adapters/auth_repository.py`, `api/auth_middleware.py`) | users, codes, guest marks, sessions | request code, verify, register, start guest, single sign-on, merge guest | every check is a statement of its own; a merge beside work in flight | `Accounts`, `Engagement` |
| Engagement (`adapters/proposal/engagement_repository.py`) | likes, comments | like, unlike, comment, edit, delete | edit beside delete; a like during a merge | `Engagement` |
| Private-beta gate (`api/gate.py`) | codes, redemptions | redeem | counting before inserting | `Engagement` |
| Deployment (`db/migrate.py`, `db/run_tasks.py`, container order) | applied migrations, task records | migrate, run tasks, start the API | a crash between the work and its record; two containers, two releases | `Migrations`, `Deployment` |
| Open Night Train Database (`db/ontd/*`) | loaded timetable, stop mappings, curated catalog, summaries | plan and run the bootstrap steps, load, project, import | restarting from any prefix; two runs at once; hand-made corrections | `OntdBootstrap` |
| Route planning (`models/route/*`) | none | build trips, timetable, schedule, fleet | clock arithmetic across midnight, overrides that are mirrored | `Timetable`, `RoutePlan` |
| Proposal page (`frontend/.../ProposalViewport.vue`, `useProposalFamily.ts`) | the inputs, the shown plan, the family and its views, the save queue, the proposal it is stored as | evaluate, suggest, recalculate, look, pick, debounce and save, load, sign in | every answer late, lost or for something no longer asked | `FamilyClient`, `ProposalPage` |
| Family document and member caches (`adapters/family/*`) | two tables with time to live | get, put, sweep, flush | single statements on rows that are functions of their key | - |
| Evaluation, demand, energy, infrastructure (`models/*`) | none | numeric models | floating point | - |
| Reference data, scenarios, parameters, start-up | catalogue tables | load | the base scenario moves (a step of `ProposalStore`) | - |
| Comparison, statistics, sharing, serializers, feedback, mail, request log | little or none | read, insert | nothing concurrent | - |
| Rest of the frontend, documentation site, descriptors | what is drawn | | | - |

The components meet in the database. A publish request passes the session
check, computes through the family code, and writes through the repository; a
load reads through the repository and, when the row is outdated, becomes a
writer itself; the scripts use the same repository from other processes.
Nothing is shared in memory between processes, and there is no queue: all the
coordination there is consists of row locks, unique indexes and the version
number of a proposal. Inside one process the request threads share the
connection pool, and the threads of a family build share its memo.

### What makes each component correct

* **Store**: all rows of a proposal describe one state of it (`TablesAgree`);
  states follow each other one by one, made by the owner or by the system
  (`TimelineComplete`, `ArtifactImplemented`); a reader never sees two states
  mixed (`PageIsOneState`), and the fast answer of the gallery map is the slow
  one (`GalleryNeverWrong`); what is stored becomes current again after a
  deployment or a base move (`EventuallyCurrent`), and every variant gets its
  row (`EventuallyCovered`).
* **Family build**: slots and connections are conserved whatever fails
  (`PoolIsSound`), a key is computed by one thread and nobody waits for an owner
  that is gone (`MemoIsSound`), the serial loop finds what the prewarm left
  (`LoopRunsFromMemo`), every build ends with a record for every member
  (`BuildEnds`).
* **Segment cache**: legs run the way of the trip and charge each passage once
  (`LegsFollowTheTrip`), the build that fills the table already has what later
  builds will read (`FirstBuildIsTheCachedOne`), and a purge misses no row but
  those stored late, whoever else starts or stores meanwhile
  (`OldRowsCameLate`).
* **Accounts, engagement, gate**: the limits give way to simultaneous requests
  only (`LimitsYieldToRacesOnly`), what was given stays
  (`NothingIsTakenBack`), a merge leaves nothing behind (`MergeTakesAll`), a
  comment is changed by its author (`AuthorsChange`), and nobody waits for ever
  (`RequestsEnd`).
* **Deployment**: both ledgers tell what happened (`LedgersAreTrue`), code runs
  on its own schema (`SchemaBeforeCode`), in file order (`InOrder`), and the
  newest release gets through (`EventuallyDeployed`).
* **Bootstrap**: the summaries belong to the loaded timetable
  (`SummariesFollowTimetable`), hand work survives (`HandWorkStays`), a restart
  of a healthy database changes nothing (`RestartsCostNothing`), a damaged one
  recovers (`RepairedInTheEnd`).
* **Planning**: the night window holds on the final times (`NightWindowHeld`),
  slack is given out whole (`SlackIsFair`), stop types follow the clock
  (`TypesFollowTheClock`), out and return mirror each other
  (`PairStaysCentred`), the counted fleet is the one the line needs day after
  day (`FleetFits`), and the priced layover is the wait
  (`LayoverIsTheWait`).
* **Page**: the held family is the asked one (`FamilyIsTheAskedOne`), the shown
  views fit the shown member (`ViewsFitTheMember`), nobody else's proposal is
  written (`StrangersWorkStands`), one session makes one proposal
  (`OneProposalPerSession`), and "saved" is true (`SavedTellsTheStore`).

## 2. Order of the work

Everything that was planned is built, the most important behaviour first: the
store with its abstract specification and proofs; then the family build as the
composition of pool, memo and segment cache; accounts with engagement and the
gate; migrations under deployment; the ONTD bootstrap; the timetable under the
trip pair; the page over its family client. One module of the first plan was
given up, `FamilyCache`: its operations are single statements on rows that are
functions of their key, and a model of it had no property a change of the code
could break.

What a continuation would take up: several origins and destinations in one
route (several trip pairs share terminals), the scenario axis and the Details
inputs of the page, the draft the page keeps in local storage, and the single
sign-on exchange.

## 3. The modules

### The store

`ProposalTables.tla` has no behaviour: it defines the rows of one proposal as a
record and each write of `repository.py` as an operator on it. A computed
member stands for everything derived from it and is the record of its inputs
(request, scenario variant, build), since `compute_member()` is a function of
them; a table that stores anything derived from a member stores that record.

`ProposalStore.tla` adds the threads. A unit of work is a `Job` with a phase;
the phases are exactly the points where the code is outside a transaction or
between two statements that see different snapshots. A write transaction is
`LockRow` (or `DrawPid`) followed by one `Commit`: nothing it writes is visible
before its commit, and every writer of a proposal's rows holds that row lock,
so no interleaving is lost by making it one step.

| Code | Actions |
|---|---|
| `dispatch_publish()` | `AcceptPublish`, `ComputeMember` / `ComputeRaises`, `ProjectRows`, then `DrawPid` (new) or `LockRow` / `Reject` (overwrite), `Commit` |
| `load_current_container()` | `LoadContainer`, and when outdated the same compute and write steps, then `Reload` |
| `get_proposal()` | `ReadTrips`, `ReadSidecars`, `Respond` |
| `refresh_proposals.py` and the corridor task | `StartScript` (reads its queue), `TakeItem`, the same compute and write steps |
| `merge_guest_into()` on the proposals | `MergeGuest` |
| any exception | `Fail` (rollback, locks released) |
| process stop, deployment, base move, new routing graph | `Restart`, `Deploy`, `MoveBase`, `ServeGraph` |

| State | Code |
|---|---|
| `proposals` | the rows a proposal owns in `proposals`, the GTFS tables, `proposal_summaries`, `proposal_scenario_summaries`, `proposal_corridors` |
| `log` | `update_log` |
| `lastPid` | `proposals_proposal_id_seq`, which no rollback takes back |
| `rowLock` | the transaction that holds `FOR UPDATE` on the row |
| `base`, `served` | the current base scenario; the variants whose routing graph the deployment runs |
| `mergedInto` | `admin.users.merged_into_user_id` |
| `release`, `code` | the deployed build; the build each thread's process runs |
| `job`, `queue` | local variables of the thread or script |

`ProposalArtifact.tla` is the abstract specification: a proposal is one
artifact, replaced whole, numbered from 1 without a gap, with one timeline entry
per state. `ProposalView.tla` says what a reader of the database can put
together of a proposal at one moment (number and name from the gallery card,
owner from the container, content from the GTFS generation, history from
`update_log`) and claims that this implements the abstract specification. The
mapping deliberately reads different tables: it only works out because they
agree.

Abstractions: the data of a member; one worker per script (a script with
several workers is several scripts that share a queue, and the units are
independent); `--limit` and `--dry-run` (a script killed in mid-queue leaves
the same prefixes); deletion of proposals by hand; member caches (a cached
member is the member its key describes); of the merge, the likes and comments
it moves, which are `Engagement`'s.

### The family build

| Module | State | Code | Actions |
|---|---|---|---|
| `ConnectionPool` | `slots` free, `idle` connections, the `lease` of each borrower | `db_pool.py` | `Acquire`, `AcquireTimesOut`, `GetConn`, `GetConnFails`, `Break`, `PutConn`, `ReleaseSlot` |
| `SingleFlight` | stored `values`, keys in flight, where each thread is (`flight`) | `_SingleFlight.get()` | `Hit`, `Own`, `Await`, `Keep`, `Forget`, `OpenGate` |
| `SegmentCache` | `segments` by pair, the import served and the one stamped, the `lookup` of each router, what each starting process is at (`booting`); `late`, a history of the rows stored after their import was replaced or when none was stamped | `route_segment_repository.py`, `rail_router.py`, `sync_graph_import()` | `Fetch`, `TakeCached`, `RouteLive`, `RouteFails`, `StoreLeg`, `HandOver`, `StoreElsewhere`; `Reimport`; `ReadDate`, `ReadStored`, `PurgeRows`, `Record`, `SyncFails` |
| `FamilyBuild` | tasks to do, `work` of each thread, members left and their `status` | `builder.py`, `context.py` | `TakeTask`, `StartMember`, `EvaluateMember`, `MemberRaises`, `LookUpRouter`, `GetHit`, `GetMiss`, `BorrowSlot`, `BorrowConnection`, `BorrowFails`, `QueryAnswers`, `QueryFails`, `GiveBack`, `UseRow`, `RouteMiss`, `KeepValue`, `ForgetKey`, `LeaveGet`, `Abort`; `OtherBorrows`, `OtherEnds`, `OtherProcessStores` |

`FamilyBuild` composes the other three: a thread that misses a key owns it in
`SingleFlight`, borrows from `ConnectionPool` for each query of the computation,
and walks a trip in `SegmentCache` when the key is a trip's legs. A thread works
off a plan, the list of keys the code asks for in its order (`WarmPlan`,
`MemberPlan`); a plan that leaves something out shows in `LoopRunsFromMemo`.
A path is told by the direction and the import it was routed on, since nothing
else of it tells two paths of a pair apart; times and geometry are data.

`sync_graph_import()` is one READ COMMITTED transaction of three statements, and
each is a step of its own: the SELECT of the stamp, which takes no lock
(`ReadStored`), the DELETE of the rows committed when it begins (`PurgeRows`) and
the upsert with the commit (`Record`), at which its deletions and its date become
visible together. Any number of processes may start at once; gunicorn's workers
do. Where PostgreSQL makes one transaction wait for another (two DELETEs of one
row, a `store()` of a row that is being deleted) the waiting one takes its effect
after the other's commit: a DELETE that waited finds the row gone and leaves one
that was stored in its place (`Record` takes the rows out of the other processes'
`doomed`), and a `store()` that came before the DELETE reached its row did
nothing, as `ON CONFLICT DO NOTHING` finds it still there.

### Accounts, engagement and the gate

`Accounts` has the requests of `api/auth.py` one database call at a time, since
each of them commits by itself: `RequestCode`, `CreatePending`, `MarkOld`,
`StoreCode`, `Mail`; `Verify`, `CheckCode`, `CheckName`, `Register`, `UseCode`,
`Consume`, `Confirm`; `Guest`, `SignInOperator`, `CreateUser`; and `Expire` for
time. The three transactions that lock in two tables have a step for each
statement: `issue_otp()` (`MarkOld` starts its UPDATE, `StoreCode` is the rest),
`complete_registration()` (`Register`, `UseCode`) and `consume_otp()`
(`Consume`, `Confirm`). `req[w]` is the
request of thread `w`, its `at` the next call, its other fields the local
variables read so far. `Raises` ends a request at any of its points.

`Engagement` extends it with the rows accounts leave on proposals. The merge is
modelled statement by statement because its locks are the interesting part:
`MergeLock` (the guest's row `FOR UPDATE`), `MoveProposals`, `DropLikes`,
`MoveLikes` (which breaks on the unique key when a like came in between),
`MarkMerged` (comments and the mark, and the commit: what the transaction wrote
becomes visible here). The locks are not a variable but are read off the steps
of the threads that hold them (`UserHeld`, `OverwriteHolds`, `MergeHolds`,
`LikeHeld`, `RefersTo`; in `Accounts` `TokenHeld`, `Renames`, `NameHeld`). A
registration locks its `admin.users` row like one to be deleted, since
`display_name` is UNIQUE; therefore inserts that refer to the account wait for
it. UPDATEs of several rows lock them in the order of the table, so of the
requests for new codes that want the same rows the one that came first goes
first (`Before`). `WaitsFor` is the relation of all these waits, a `Circle` a
least set of threads that wait only for each other, and `Deadlock` ends one of
them, as PostgreSQL does. A statement takes its locks at one point; those on
`admin.feedback`, and on the entries of a merge's own rows that nobody else
writes, are left out. `LockForOverwrite` and `WriteLog` are the part of an
overwrite that locks. `AuthorizeComment` is separate from `EditComment` and
`DeleteComment`, and `Redeem` from `InsertRedemption`, because the code commits
between them.

### Deployment

`Migrations` is `migrate.py` run by several processes of several images:
`StartMigrate` reads the pending files once, `RunSql`, `InsertRow` (waits for an
uncommitted row of the same file), `RowExists`, `CommitMigration`,
`SkipFailed` and `MigrateFails` follow `_apply()` and its handler. `recorded` is
`schema_migrations`, `effect` counts what each file has done to the schema.
`Deployment` adds `run_tasks.py` (`StartTasks`, `RecordStart`, `CommitWork`,
`RecordEnd`, `TaskFails`; the work and its record are committed on different
connections) and `StartApi`, which the container order puts behind the
migrations and tasks of its own image only.

### The ONTD bootstrap

`boot[b]` is one run: it reads the guard's facts one query at a time
(`ReadFact`, `FactSkipped`), derives the steps to take (`PlanSteps`) and takes
them. A loader is `Drop`, `DropRest`, `MatchStops` and `Upsert`; a projection
`LockSummaries`, `MatchStops` and `Upsert`; each ends in `Commit`, and
`CheckCurated` with `Import` is the curated catalog. `WaitsFor` says who waits
for whose table lock, `DeadlockVictim` ends one of a circle. `Stops` is any
failure, `Reseed`, `RouterDown`, `RouterUp`, `CorrectMapping`, `EditCatalog`
what others do meanwhile.

### Planning

`Timetable` has the pure part as operators: `AutomaticSlack` and
`AutomaticDeparture` (the two strategies), `DistributeSlack`, `ResolveAddons`,
`ResolveDeparture`, `MirrorOverrides`, `ClassifyForDeparture` and
`FinalTimetable`. In `RoutePlan`, `BuildTrip` puts them together as
`_build_trip()` does; the module builds the outbound
trip, then the mirrored return trip, then the service with `Layover`,
`NextSlot`, `CycleDaysBetween` and `TrainsetsForCycle`; and it then *runs* the
line (`OutSlot`, `RetSlot`): rakes wait at two terminals and depart when they
have stood the least turnaround. The run is the reference definition: the
formula that counts rakes is right when the line never lacks one and never has
one that is not needed.

### The page

`FamilyClient` is `useProposalFamily()`: the key of the family held or asked
for, the document, and the fetches of views with whether they are still wanted.
`ProposalPage` is the rest of the page: `asked` (the inputs), `plan` (what is
shown), the save timer and queue, the session. User actions: `EditStops`,
`StartEdit`, `CancelEdit`, `ChangeHow`, `Look`, `PickComposition`, `Evaluate`,
`Recalculate`, `ConfirmNone`, `ConfirmStops`, `CancelSuggest`, `Retry`, `Cancel`,
`SignIn`. Answers: `BuildAnswers` / `BuildFails`, `ViewsAnswer` / `ViewsFail`,
`LoadAnswers` / `LoadFails` / `RetryLoad`, `TimerFires`, and for a publish
`Commit` (the API stores it), `PublishFails`, `PublishAnswers` (which may come
any time after, or never). The stored side is the API as the page sees it; a
commit here is the whole publish of `ProposalStore`. One detail is abstracted:
`CancelEdit` goes back to the plan's `how`, where `cancelEdit()` restores the
overrides committed with the plan, which `applyPlan()` keeps from before when the
plan's echo has no expert block (`ProposalViewport.vue:1257-1268`); no property
tells the two apart.

## 4. The runs

Every property of a passing run was seen to fail on a mutant of the code's
definitions; the mutants stand beside the definitions they replace. `MC*`
modules only name values a `.cfg` cannot write.

| Run | Instance | What it asks |
|---|---|---|
| `store_publish` | 2 request threads, an account and a guest, 2 proposals (one already stored), 2 names, 2 requests, 2 edits; failures, merges (111 914 states) | Do racing publishes, overwrites and merges keep the timeline and the gallery card right, and does the store implement `ProposalArtifact`? |
| `store_refresh` | 1 request thread, 1 script, 2 requests, 2 bases, 2 builds, a request without a route on the new base; restarts, branches (666 837) | Do loads with on-load refresh, the batch and overwrites across a deployment and a base move mix two states anywhere, in the tables or on a page, and does the stored base row stay the proposal's? |
| `store_live` | 1 request thread, 1 script of any kind, a publish, a proposal stored before the derived tables existed, 2 bases, 2 builds, a what-if variant and a base one request cannot reach; failures and restarts; fair (238 136) | Is the gallery map's fast answer the slow one beside all the repairs, does every proposal that can be recomputed become and stay current, and does every variant get its row? |
| `store_lost_overwrite` | violation of `RefreshKeepsRequest` | A refresh that read the request before an overwrite and writes after it puts the old request back as the newest state. |
| `family_build` | 2 prewarm workers, the request thread and another request thread on a pool of 1 connection; 2 compositions with legs of their own, one failure; fair (135 185) | Does a build end well, and keep pool and memo sound, whatever fails? |
| `segment_import` | 1 worker on a trip that takes one pair in each direction, 3 stops with shared passages, a scenario without a routing graph, 2 starting processes, a second import; other processes store legs of either import (684 351) | Are legs and passages right while the table moves under the build, and does a purge take all it should, whoever else starts, stores or fails? |
| `accounts` | 2 request threads, any 3 requests, an account, a guest and an unregistered address that may also sign on; a gate code for one use; fair (498 536) | What do racing requests do to codes, names, likes, comments and a merge, and does every request end? |
| `deployment` | 2 runners, 2 releases; the second brings two migrations, one of which sorts before a file already applied, and two tasks; a baselined task; fair (64 689) | Do schema and data arrive once, in order and before the code? |
| `bootstrap` | 2 runs, 2 stops, 2 editions of the stop catalog and of the timetable, 2 disturbances; fair | What do overlapping, failing and forced runs leave behind? |
| `planning` | 4 stops, hours for minutes (night 24 to 30, mirror 27), legs of 0, 1, 3 or 8, detours, intervals, add-ons, departures, 2 turnarounds, 1 to 7 days a week, 12 days of service (859 192) | Do the times keep what they are built for, and is the counted fleet enough and no more? |
| `proposal_page` | 2 itineraries, 2 compositions (one unroutable on the short itinerary), 2 ways of the How panel; page opened on the builder, on the user's proposal or on another's; a patient or a hurried user; 3 changes and failures together (735 391) | Is what is held, shown and stored what was asked last? |
| `page_abandoned_route` | violation of `OnlyTheCompositionIsSaved` | A route that was evaluated and then given up is stored over the user's proposal by the next choice of a composition. |

The violation runs are places where a document or a comment promises more than
the code does; `PROJECT.json` quotes both under `findings`.

### Bounds

**Store.** `MaxPid`, `MaxEdits` and `MaxVersion` cap the identifiers, the user
publishes and the states a load starts to recompute; `Workload` selects entry
points; `Releases`, `Bases` cap deployments and base moves. Two writers of one
proposal are enough for every race on the row lock, since it admits one and
each writer's decision depends only on the row it finds; a third in line sees
what the second saw. Two versions past the first are enough for the prefix
prune, which looks one version back. Two proposals are there for the sequence
and for the merge of several rows; proposals share nothing else. Merges beside
refreshes are in no run's instance (too large); they are in the proofs.

**Family build.** `MaxFailures` caps failing calls and borrows, `MaxImport` the
imports. A pool of one connection under four borrowers is the worst case of the
sizing rule. Two workers give every race on one key; a third would wait on the
same gate. Three stops give two legs that cross one tunnel, which is what
passage claiming is about. `segment_import` follows the first trip of its build
(`MCFirstTrip`), which runs one pair up and one down; the way back is the mirror
image. Two starting processes give every race on the stamp and the rows, since
each only meets what the others have committed; they are alike, so the run
permutes them. Two imports are an old and a new one.

**Accounts.** `MaxRequests` caps the requests, and with them users and codes.
The limits are statements about two requests that overlap; the third request
makes the state they race on. **Deployment.** Two releases that both may run,
in either order, on two runners. **Bootstrap.** `MaxDisturbances` caps failures,
forced runs, reseeds, router outages and hand corrections together; two runs
are the old container's and the new one's. **Planning.** Hours instead of
minutes keep every comparison of the code (the night window, midnight, the
mirror, a span of even and of odd length); a leg of no minutes is what the
router gives two stations of one place, and an interval of such legs is the
equal-share branch of the slack; `Horizon` is long enough for a cycle
of the slowest line to come round twice. **Page.** `MaxTurns` caps the changes
of the inputs and the failed requests together; switching compositions, looking
and answers are not capped. Three are enough for a change, another one that
overtakes it and a third that overtakes both.

### Where a system may stop

`CHECK_DEADLOCK FALSE` is set where the instance runs out of something and has
no other work: of edits (`store_publish`, `store_live`,
`store_lost_overwrite`), of requests (`accounts`), of releases and pending
files (`deployment`), of days (`planning`), of changes (both page runs). The
other runs leave the check on: loads are always possible in `store_refresh`, a
finished build repeats `Finished`, and a bootstrap container can always be
started again.

### Fairness

**Store.** Threads keep running: a compute, lock, commit or read step that
stays possible is taken (weak fairness is enough, since a row lock is only held
by a thread that is about to commit). The maintenance scripts are rerun while
they have work of their kind (strong fairness of `StartScript` per kind, as one
kind's run stands in the way of the next): `deploy.sh` runs
`refresh_proposals.py` on every deployment and `api/README.md` calls it a
periodic batch job. Processes of a superseded build are replaced, which is what
a deployment does. Failures and restarts on the deployed build end some day
(`<>[][~Disturbance]_vars`); without that a script could die before each commit
for ever. Nothing is assumed about users: no publish or load ever has to
happen, so `EventuallyCurrent` does not lean on somebody opening the proposal.
Requests that cannot be computed on the new base are exempt (`Refreshable`),
because the code keeps their old state.

**Family build.** Each thread and the member loop go on (weak); nothing about
the other request thread, which may keep the only connection: the borrow then
times out, as in the code. **Accounts.** Each thread's next call is taken when
it is possible again and again (strong: row locks are granted in turn), and
PostgreSQL ends a deadlock (weak: a circle stays until one of it fails). No
fairness of requests. **Deployment.** The newest
image is deployed again while something is pending and no failure is permanent
(strong, per step). **Bootstrap.** Runs go on (strong: table locks are granted
in turn), containers are started again some day, the router comes back. Segment
import, planning and the page claim safety only.

## 5. The proofs

Everything below holds for all values of the constants under the named
assumptions of the modules: base scenarios and other variants have distinct
positive ids, guests are users, there is at least one build and its versions
are numbers, threads of the two kinds are distinct, SQL NULL is none of the
values; the pool is at least one connection large; later releases keep the
migrations of earlier ones; the night window is centred on the mirror. A family
is asked for with finitely many scenarios and compositions, one member per
variant and composition, a stop list of two stops or more with no leg from a
stop to itself, and its memo keeps catalogues and legs under different keys
(`RequestAssumption`). There are finitely many request threads; at the start
every code is of an account with an address, a merged guest points at such an
account, and the codes and names that race there are of different threads
(`StartAccountsAssumption`), and likes, comments and owners are of users
(`StartRowsAssumption`). The page has an itinerary to plan, and its placeholder
is neither a proposal nor a document (`PageAssumption`). Editions of the stop
catalog are numbered (`CatalogsAssumption`). A line has two stops or more
(`validate_stops()`); that none comes twice is assumed (`LineAssumption`), since
intervals and add-ons name stops by id and the code takes the first of that name.
Routed times, detours and turnarounds are natural numbers, a week has 0 to 7
departure days (`TimeAssumption`), dwells are natural numbers
(`DwellAssumption`), an interval's start comes before its end
(`IntervalAssumption`), and overrides are what `_validate_departure()` and
`_validate_addons()` let through (`OverrideAssumption`).

| Theorem | Says |
|---|---|
| `ProposalStoreProofs!WriteStateAgrees`, `RebuildAgrees` | `_write_state()` and the corridor rebuild leave rows of one state |
| `TypeCorrect` | types |
| `LocksHold` | a transaction about to write holds the row, alone, and its decision fits it |
| `RowsAlwaysAgree` | all rows of a proposal describe one state |
| `GalleryCorrect` | the gallery map's fast answer is the derived one |
| `PagesAgree` | a page never mixes two states |
| `StatesFollow` | how a stored state may change in one step |
| `TimelineAlwaysComplete` | one primary event per state, with the right author |
| `CardsKnowTheOwner` | the card is filed under the owner or the guest it was |
| `StoreImplementsArtifact` | the store implements `ProposalArtifact` |
| `BaseRowsRepeat` | `BaseRowIsTheProposal`, where no backfill runs |
| `PoolAndMemoProofs!PoolSafe` | slots and connections are conserved |
| `FlightSafe` | one computation per key, and every waiter has an owner |
| `FamilyBuildProofs!SegmentsSafe` | the segment cache on its own: legs follow the trip |
| `PurgeMissesLateRowsOnly` | the segment cache on its own: a row older than the import on record came late, for any number of starting processes, stores and imports |
| `BuildKeepsThePool`, `BuildKeepsTheMemo`, `BuildKeepsTheTable` | a family build implements the pool, the memo and the segment cache, and so keeps what they promise |
| `BuildRunsFromMemo` | the member loop computes nothing that a faultless prewarm warmed |
| `FirstBuildStands` | an undisturbed build has the corridors of every later one, on a trip that runs no pair in both orders |
| `BuildNeverStuck` | a build never hangs: a thread in the middle of something can go on or waits for one that can |
| `DeploymentProofs!LedgersAlwaysTrue` | what is recorded has taken effect, a schema change once |
| `SchemaComesFirst` | tasks and APIs run on the schema of their image |
| `TakenInOrder` | migrations and tasks take effect in file order |
| `EngagementProofs!LimitsGiveWayToRaces` | live codes, sessions of a code, names and redemptions exceed their limit only by requests of different threads |
| `NothingTakenBack` | addresses, verifications, merges and used codes stand |
| `MergeTakesEverything` | a merge leaves no like, comment or proposal under the guest's name |
| `RequestsNeverHang` | while a request is under way, one can go on or some wait in a circle that PostgreSQL ends |
| `OnlyKnownDeadlocks` | such a circle is a merge with an overwrite of the guest, or code requests and uses around a registration |
| `OnlyAuthorsChange` | a comment is changed by its author, or by the guest its author was |
| `OntdBootstrapProofs!SummariesNeverBehind` | the summaries belong to the loaded timetable |
| `HandWorkKept` | no run replaces what was made by hand |
| `RestartsAreFree` | on a settled database a run only looks |
| `ProposalPageProofs!OnlyTheAskedFamilyLands`, `ViewsAreTheMembers` | the held family is the asked one, the views are those of the shown member |
| `NoStrangerIsOverwritten`, `OneProposalEach`, `SavedIsStored` | what a page writes is its user's, once, and "saved" is true |
| `PageTypes` | types of the page |
| `RoutePlanProofs!SimpleIsCentred`, `FixedNightIsCentred` | trips mirror around the centre of the night, to one unit |
| `StretchIsLeast`, `WindowAdmitted` | an interval is stretched as little as it takes, and then fits the window |
| `TypesInOrder` | along a trip: boarding, night, alighting, never back |
| `SlotIsTheFirst`, `RakesCoverTheCycle` | the first departure a rake can take, and the least number of rakes that covers a week |
| `LayoverReadsTheClock` | a layover is not negative and right up to whole days |
| `SlackIsSpread` | the largest remainders hand out exactly the total, each leg within a minute of its share |
| `TripIsTimed` | a built trip runs as its provisional plan, or later, never earlier |
| `PlansAreBuilt` | every reachable trip is what `_build_trip()` makes of the line, the return of the reversed line |
| `TypesAreRight`, `SlackSpreadsFairly`, `NightsAreHeld`, `PairsStayCentred` | the four promises about times, in every reachable state |
| `ServicesRun` | what is known of each rake while the line runs |
| `LayoversAreWaits` | the priced layover is the time a rake stands, up to whole days |
| `DeparturesAreServed`, `FleetIsExact` | the counted fleet is enough (no departure that is due lacks a rake) and no more (every rake is bound at once by the end of a round) |

`LocksHold`, `StatesFollow` and `TypeCorrect` are proved although no run checks
them any more: the runs found them to hold before they were proved.

**The store.** `TablesAgree` is not inductive: a commit writes what its job
carries, decided several steps earlier. `IInv` therefore adds what a job
carries in each phase (`JobsCarry`), that the decision made under the lock
still fits the row (`LockDiscipline`), that queued proposals exist
(`QueuesExist`), that ids and timeline events are not ahead of what is stored
(`Recorded`), and who can be merged into whom (`MergesKnown`,
`CardOwnerKnown`). `InitInvariant` and `StepInvariant` are its two halves, the
latter with one lemma per action. The key one is `CommitSafe`: because the
committing job holds the lock (`LockDiscipline`), the stored generation is of
the version before the one it writes, so the prune by the previous prefix leaves
exactly the new generation (`WriteStateAgrees`), and no other job's carried
state is about a row that moved under its lock. `MergeSafe` is the other
delicate one: the merge waits for the locks of the rows it moves, so a locked
job never has its owner changed. `LoadCarries` lets a load fall behind the
stored version but not describe a different state of the same version; the page
theorem is that and the prefix of the queries. `TimelineAlwaysComplete` needs a
second induction (`TimelineInv`, relative to `IInv`) because it counts. The
implementation needs none: given `IInv` before and after a step, `ShownKept` and
`ShownNew` say what a commit shows, and each commit is one of three abstract
steps or a stutter.
`BaseRowsRepeat` adds `BaseRowInv`: the rows a job carries and the member it
stores come from one request and one build (`RowsFit`). Its hypothesis, no
backfill in the instance, is needed: a backfill computes the rows of the request
it read when it started (`scripts/refresh_proposals.py:164`) and stores them at
the version it finds at the end, so after an overwrite in between the base row
is of the earlier request, against `adapters/proposal/README.md:679`.

**Pool, memo and segment cache.** A lease moves one borrower between the sets
that are counted, so `SlotsConserved` is one cardinality lemma per move.
`MemoIsSound` is inductive with the types: the owner of a key in flight is the
one thread that computes it, and a waiter's gate belongs to a thread that has
not opened it. For the segment cache, `SegmentInv` says that each row runs from
its pair's lower stop to its higher one with all its passages, that a live leg
is one of the pair that is next, and that the legs so far share out the
passages; turning a leg and claiming its passages are the two lemmas every
action rests on (`OrientedFits`, `ClaimFits`). `OldRowsCameLate` is not inductive,
since the stamp is recorded two statements after it was read. `PurgeInv` adds
that whoever is about to record a date has every older row among those its
DELETE saw, or the row came late (`OldRows(date) \subseteq late \cup doomed`), and
that without a stamp every row counts as late. A row that comes in time is on the
import served, which is no older than any date a starting process has read; a
commit takes the same rows from the table, from `late` and from what the other
processes have seen. So it does not matter who wins, nor that a slow process may
put an older date back.

**The family build.** Every step of a build is a step of the pool, of the memo
and of the segment cache, or leaves them alone, and takes their invariants from
there. That takes `BuildInv`, because the components' actions have
preconditions: a thread inside a computation owns the flight of its plan's next
key (`InGet`), only a database call holds a connection (`Connected`), and a plan
holds every key of its task that the memo does not have yet (`OnPlan`). The
last one, with `WarmIsKnown`, is also why the member loop runs from the memo:
`WarmPlan` and `MemberPlan` ask for the same keys (`PlansKeys`) and a value
stays. `FirstBuildStands` adds the order of a plan (`OutThenBack`) and what an
undisturbed build has in hand (`StoredInv`): every row has the outbound
direction's corridor, and whoever asks for the rows of the return has the legs
out in the memo (`BackFindsAll`), so it finds every pair and routes nothing. It
assumes `OneWay`: on the stop list A, B, A, which `validate_stops()` lets
through, one trip asks for its rows once, misses the pair twice and routes both
directions live, and the promise of `context.py:226-227` fails.

`BuildNeverStuck` is the part of `BuildEnds` that takes no fairness, for any
number of threads, keys and connections. The prover has no `ENABLED`, so `CanStep`
and `CanLoop` write out when a thread or the member loop can go on; neither is
granted a failure that the bound on failures might rule out. (Evaluated once
with TLC on the instances of `FamilyBuild.cfg` and `SegmentImport.cfg`, `CanStep(t)`
is `ENABLED ThreadStep(t)` and `CanLoop` implies `ENABLED LoopStep` in every
reachable state; that is not a run of its own. A `store()` that PostgreSQL holds
back until a starting process has committed its purge is not among the waits: the
model lets it come later, and that process waits for nobody of the build.)
`NobodyIsStuck` says
that a waiter's owner can go on itself, so no two threads wait for each other, and
that until the family is whole somebody can. That takes `StuckInv`: how far a call
is fits the connection and the trip its thread has in hand (`CallOf`), and who
left `get()` left nothing behind (`OutIsOutside`). A thread with a slot gets a
connection because `SlotMeansConnection` holds, whatever the threads outside the
build borrow; one without a slot may take its time-out. It assumes one prewarm
worker at least, as `context.py:263` does (`max(1, workers)`).

**Deployment.** `LedgersAreTrue` becomes inductive with what each runner
knows: the pending files it read are still all it has to do unless another
runner recorded them (`QueuesKnown`, `TaskQueuesKnown`), only one open
transaction has a row for a file (`CommitsAlone`), and an API's image was ready
when it started (`ApisKnown`); migrations never leave the ledger, so what was
ready stays ready.

**Accounts and engagement.** The invariant says of each thread what it still
knows at the step it is at, although what it read may be outdated
(`ThreadsFit`): its own earlier codes are all among those it is about to
replace, the code it checked has no session of its own thread, the name it
looked for was taken since by other threads only, the comment it may change is
its author's or went with the author to another account. `LimitsYieldToRacesOnly`
is what remains of that once nobody is at any step. A merge is alone with its
guest (`MergesApart`), and the likes it has seen and held are all the guest has,
since an insert that references the row of a guest being merged waits; that is
`MergeTakesEverything`. The last part, `CountsFit`, counts: rows made plus
requests on their way to make one never exceed the requests accepted, which
gives the types their bounds, and for redemptions the limit plus the threads
less one. Each of its steps moves one thread in or out of a set of steps
(`OneThreadApart`).

`RequestsNeverHang` is the half of `RequestsEnd` that needs no fairness. The
prover has no `ENABLED`, so `CanStep(w)` writes out when thread `w` can go on;
none is granted a failure. If none can, each waits for another (`StuckWaits`),
which is busy (`Busy`), so the threads under way are entangled, and a least
entangled set among them is a circle (`CircleWithin`, by cardinality). For
`OnlyKnownDeadlocks` the waits are followed backwards from every step: who waits
at `move` does so for an overwrite at `log` or a registration, code requests wait
for each other only in the order they began, and a circle without a registration
therefore has a merge and an overwrite (`WithoutRegistration`). `OverwritesFit`,
proved beside the invariant, says that an overwrite past its lock is still of the
owner's. (Evaluated once with TLC on the instance of `Engagement.cfg`, `CanStep(w)`
is `ENABLED Step(w)`, and both theorems' properties hold in every reachable
state; that is not a run of its own.)

**Bootstrap.** Types and one fact (`ReadersAreCurrent`): a projection that has
read the timetable and not ended holds it against loaders, so the edition it
read is the loaded one. The action properties need only that a commit looks at
the row it replaces. `RestartsAreFree` follows each check of a run on a settled
database to the empty plan.

**Page.** Two machines share the plan on screen. The family client has one
request in flight at most, for the family that is named, and none beside its
document (`FamilyKnown`); a fetch of views that may still land is for the plan
on screen (`ScreenKnown`). The saver holds ids of proposals that exist and are
the user's or would be copied (`SessionKnown`), and an overwrite in flight is of
the user's own (`OutKnown`). `LoadKnown` ties the two to a load, which can be
answered in the middle of either: until then nothing of the stored proposal is
held or copied. For a user who waits, one publish is out at a time
(`OneAtATime`) and no answer that may publish is awaited beside it
(`ForegroundKnown`). `CountsKnown` then counts: as long as another proposal may
still be made and none is about to be answered, only lost answers account for
those there are. `SavedKnown` adds that what is stored and not yet answered is
what the publish carried.

**Route planning.** Sums and walks over the legs of a line need induction over
data, and the library's induction theorems cannot be used. `FiniteInduction`
and `Climb` replace them with sets: the family of sets that have a property,
when it has the empty set and every one-element growth of a member, has every
finite set; and the same for a set of naturals. The sums of `SumFunctionOnSet`, the walk
of `ProvisionalOffsets` (`PlanStands`, `PlanSpan`) and the final timetable come
from there. `Posed` says what the API lets through, `Built` what `_build_trip()`
made of it, `Timed` that the final times are the plan's plus the resolved
departure plus `Late`, the dwell that the plan could not know, which only grows
along the line. `PlanInv` is `Built` for each direction of the request, and from
it the four promises are each one lemma about one trip. Only `PairStaysCentred`
is about two: `PairIsOpposite` shows that the return's legs, add-ons, interval and
departure are the outbound's backwards, `OppositeNatural` that the same time is
then spent in the night interval, and `FixedNightIsCentred` or `SimpleIsCentred`
that both are placed around the mirror, to one minute.

`ServiceInv` follows the rakes. Who stands at the far terminal came by one
departure that nobody else came by, and has not missed a return since it was ready
(`FarKnown`), so one rake at most can take a return (`OneReturns`); who came back
came by the clock of the return (`OriginKnown`). The wait is then a difference of
two clocks, which is the layover up to whole days (`StoodFits`). `FleetInv` adds
a witness: the day on which each rake left last. No two left on one day, and
`CycleCovers` says that one cycle reaches past the first return a rake can take,
the ride back and the turnaround (`BackInCycle`). Were no rake ready at a
departure, every rake would have left within the cycle before it
(`AwayInCycle`), and with the departure itself those are more days than a
cycle's departures (`CycleDepartures`, from `RakesCoverTheCycle`): the
pigeonhole of `SomeoneIsReady`.

`LeastInv` is the other direction, for `FleetIsExact`: every departure of the
cycle before the next one has a rake that is away since then (`TakenUp`), and
`peak` has reached what each cycle so far had departures (`PeakReached`). It
needs the converse of `CycleCovers`: no return that a rake can take has it back
before the last day of its cycle (`CycleIsLeast`, `BackNoSooner`), so it is not
ready for any departure of the cycle (`AwayIsNotReady`). No rake is away since
two days (`AwayOnce`), hence the departures of a cycle bind one rake each, the
pigeonhole of `CycleBinds`. Departures that are counted out evenly have, in some
cycle that ends within a week after the first, as many as
`trainsets_for_cycle()` counts (`FullCycle`, `DeparturesAreSpread`), and at the
last of them every rake is bound (`AllWereBound`). The theorem states `FleetFits` where
`RoundFits` holds, as `CycleIsLeast` is false elsewhere: `Horizon`, a bound of
the model, leaves room for a cycle and six days, and the outbound is turned at
the far terminal no earlier than on its service day, so that `next_slot()` clamps
no day count. Every state of the `planning` run satisfies it.

The four theorems on the service assume `Lasting`, that a turnaround or a routed
leg always takes time: a train that takes none and need not stand arrives at the
moment of its own departure, and two of its rakes could be told apart by nothing.

Only model-checked: all liveness (temporal proofs with `ENABLED` are out of the
prover's reach; of `BuildEnds` and `RequestsEnd` it is proved that nothing hangs,
not that it ends), and that the fleet is the least where `RoundFits` fails: there
`FleetIsMinimal` is in fact false, as `next_slot()` clamps an outbound pinned to
the day before its service day (see the hazards). `BaseRowIsTheProposal`
is false beside a backfill, so the run (`store_refresh`) and the theorem both leave it out.

## 6. Not modelled

`PROJECT.json` lists every component with its status and reason. In short:

* evaluation, demand, energy, emissions, track access and stop models are
  floating-point functions without control state; TLC has no reals. Of them only
  the version number has control effects, and it is in the store;
* the calibration notebooks, the seed data, tests and developer scripts are not
  part of the running system;
* the family document and member caches: each operation is one statement on a
  row that is a function of its key, and a lost or late one costs a recompute;
* serializers, filters, comparison, statistics, sharing, mail, feedback and
  logging keep no state another component reads;
* reference data and start-up, but for the base scenario, the served routing
  graphs and the graph import, which are steps of the models above;
* within modelled components: lock waits as such (a waiting thread is one whose
  step is not enabled), the exact text of answers, the single sign-on exchange,
  the profile endpoints, the merged timeline, the geometric search for stop
  suggestions, gauge and country coverage checks, several trip pairs per route,
  and of the page the scenario axis, the Details inputs and the draft in local
  storage.

## 7. Where code and documents disagree

Two of these are runs (`store_lost_overwrite`, `page_abandoned_route`). The
others were met while modelling, are hazards with a note in `PROJECT.json` where
they concern the backend, and are in the models as the code has them:

* **Store.** A page that races an overwrite is answered without its demand,
  parkings and shuntings (`adapters/proposal/README.md:431-433`). A load that
  races a base move answers an outdated page (`proposal_load.py:7-8`). An error
  row of a variant whose graph comes up later is not computed again before the
  next version. The backfill may store a what-if row of the request before an
  overwrite at the version after it (`adapters/proposal/README.md:679`). After a
  merge the gallery card still names the guest, and a publish in flight during
  the merge leaves its proposal with the guest.
* **Accounts.** Two code requests at once leave two live codes
  (`auth_repository.py:167`). A registration changes the account and then its
  code, a request for a new code the codes and then inserts one that refers to
  the account: the two together are a deadlock, which fails one of them with an
  error (`auth_repository.py:228-236`, `:171-180`). A like that arrives between two statements of the
  merge rolls it back, although its comment says it cannot fail on this. An edit
  that lands after the delete gives a comment its body back.
* **Segment cache.** A leg routed on the old graph whose store commits after the
  DELETE began survives the purge and is served until the next import
  (`route_segment_repository.py:20-23`); where no import was on record, the first
  start purges nothing. Two processes that both read the old date both purge: the
  second one also drops what was stored since the first, which only costs live
  routing. `OldRowsCameLate` says that nothing else goes wrong. A stop list
  that runs a pair in both orders (A, B, A: `member_compute.py:138` lets it
  through) routes the pair twice in one trip, so its first build need not be what
  the cache gives later builds (`context.py:226-227`); `FirstBuildStands` assumes
  there is none.
* **Bootstrap.** After a crash between the timetable and the catalog the curated
  catalog is never imported. A loader whose check exits the process passes the
  guard that is to catch failures. A mapping that no match replaces keeps
  the stop that left the catalog, so every restart projects again. A loader beside a projection always meets it in a deadlock,
  which the retry on the next start repairs; it downloads its workbook without
  a time-out while it holds its locks.
* **Planning.** A pair whose layover is shorter than the turnaround is priced on
  the short layover while the rake stands a day longer. With an outbound pinned
  to the day before its service day `next_slot()` clamps the day count at 0,
  skips the first returns and one rake too many is counted
  (`route.py:70-71` promises the first departure that is not before the rake is
  ready; `api/config.py:169` allows such a departure).
* **Page.** Cancelling an evaluation and evaluating the same inputs again stays
  loading, as the cancelled key counts as in flight
  (`useProposalFamily.ts:68-69`). A composition chosen while a publish is in
  flight is never saved, as is one chosen less than the debounce before an edit
  that is then cancelled. Two first publishes in flight together make two
  proposals, although a building session is to yield one. A retry from the
  notice of a failed what-if on somebody else's proposal publishes a copy. After
  a copy the page keeps the address of the original, and whose proposal it shows
  is not looked at again on sign-in. A fetch of views that an edit dropped is not
  repeated when the edit is cancelled.
