---------------------------- MODULE ProposalStore ----------------------------
(***************************************************************************)
(* The published-proposal store and everything that writes or loads it     *)
(* concurrently: publish requests, loads with their on-load refresh, the   *)
(* refresh batch, the scenario-row backfill and the corridor data task.    *)
(*                                                                         *)
(* Each unit of work reads its inputs in one transaction (or from the      *)
(* request), computes for seconds to minutes outside any transaction, and  *)
(* writes in a second transaction that starts with SELECT ... FOR UPDATE   *)
(* on the proposal row.  A Job is one such unit; its phases are the points *)
(* between which other units can run:                                      *)
(*                                                                         *)
(*   accepted  inputs read, nothing computed                               *)
(*   computed  compute_member() returned (or was not needed)               *)
(*   projected compute_scenario_rows() returned (or was not needed)        *)
(*   locked    the write transaction holds the row lock                    *)
(*   reload    an on-load refresh committed, the container is read again   *)
(*   loaded    the load holds a container row                              *)
(*   trips     ... and the trips, segments and shapes read after it        *)
(*   respond   ... and the od pairs, parkings and shuntings read after it  *)
(*                                                                         *)
(* Nothing a transaction writes is visible before its commit, and every    *)
(* writer of a proposal's rows holds that proposal's row lock, so one      *)
(* Commit action per transaction loses no interleaving.                    *)
(***************************************************************************)
EXTENDS ProposalTables

CONSTANTS
  MaxPid,     \* bound: proposal ids the sequence can hand out
  MaxEdits,   \* bound: user publishes, in flight or committed
  MaxVersion, \* bound: no load recomputes a proposal at or beyond this state
  Handlers,   \* request threads of the API processes
  Scripts,    \* maintenance script processes, one worker each
  Workload,   \* which entry points and events this instance exercises
  Legacy      \* number of proposals stored before the derived tables existed

ASSUME StoreAssumption ==
  /\ MaxPid \in Nat \ {0}
  /\ MaxEdits \in Nat
  /\ MaxVersion \in Nat
  /\ Handlers \cap Scripts = {}
  /\ None \notin Handlers \cup Scripts
  /\ None \notin Users \cup Names
  /\ Legacy \in 0 .. MaxPid

VARIABLES
  proposals, \* [Pids -> Proposal \cup {None}]: the committed rows
  log,       \* proposals.update_log
  lastPid,   \* proposals_proposal_id_seq
  rowLock,   \* who holds FOR UPDATE on the proposals row
  base,      \* the scenario with is_current_base
  served,    \* variants whose routing graph this deployment runs
  mergedInto, \* admin.users.merged_into_user_id
  release,   \* the build the next started process runs
  code,      \* the build each thread's process runs
  job,       \* the unit of work of each thread
  queue      \* the work queue each script read at its start

vars == <<proposals, log, lastPid, rowLock, base, served, mergedInto, release,
          code, job, queue>>

rows_vars == <<proposals, log>>

world_vars == <<base, served, mergedInto, release>>

-----------------------------------------------------------------------------
(* Types.                                                                  *)

Pids == 1 .. MaxPid

Threads == Handlers \cup Scripts

\* Variants of the scenarios with is_current_scenario.
Current == {base} \cup WhatIfs

Triggers == {"route_builder_version", "calc_version", "base_scenario_moved"}

ScriptKinds == {"refresh", "backfill", "rebuild"}

Kinds == {"publish", "load"} \cup ScriptKinds

Phases == {"accepted", "computed", "projected", "locked", "reload", "loaded",
           "trips", "respond"}

Rows == [Variants -> ComputedRow \cup {None}]

\* The units of work.  pid 0: a new proposal, whose id is not drawn yet.
Job ==
  [kind : Kinds, phase : Phases, pid : Pids \cup {0},
   user : Users \cup {None}, name : Names \cup {None},
   request : Requests \cup {None}, pin : Bases \cup {None},
   source : Pids \cup {None}, trigger : Triggers \cup {None},
   member : Member \cup {None}, rows : Rows, version : Nat,
   view : Container \cup {None},
   trips : Member \cup {None}, sidecars : Member \cup {None}]

ASSUME NoJobAssumption == None \notin Job

\* One row of list_outdated(), list_scenario_backfill() or list_corridor_gaps().
Item == [kind : ScriptKinds, pid : Pids, request : Requests,
         trigger : Triggers \cup {None}]

\* One row of update_log; its detail is the other proposal of a branch, or
\* the trigger of a refresh.
Event == [pid : Pids, version : Version, user : Users \cup {None},
          event : {"published", "overwritten", "recalculated",
                   "branched_from", "branched_to"},
          other : Pids \cup {None}, trigger : Triggers \cup {None}]

NewJob(kind, pid) ==
  [kind |-> kind, phase |-> "accepted", pid |-> pid, user |-> None,
   name |-> None, request |-> None, pin |-> None, source |-> None,
   trigger |-> None, member |-> None, rows |-> NoRows, version |-> 0,
   view |-> None, trips |-> None, sidecars |-> None]

Idle(t) == job[t] = None

In(t, phase) == job[t] # None /\ job[t].phase = phase

Existing == {p \in Pids : proposals[p] # None}

-----------------------------------------------------------------------------
(* A unit of work begins.                                                  *)

Edits ==
  Cardinality({l \in log : l.event \in {"published", "overwritten"}})
    - Legacy
    + Cardinality({t \in Threads : job[t] # None /\ job[t].kind = "publish"})

PublishJob(pid, user, name, request, pin, source) ==
  [NewJob("publish", pid) EXCEPT
     !.user = user, !.name = name, !.request = request,
     !.pin = pin, !.source = source]

Sources == IF "branch" \in Workload THEN Pids \cup {None} ELSE {None}

\* The session check, which refuses a guest that was merged, and
\* dispatch_publish() up to the compute: the base-scenario rule, checked
\* against the base of this moment.  pid 0 is mode "new" (or "copy", which
\* is "new" with a source); otherwise "overwrite", existence and ownership
\* unchecked until the write transaction.  The source of a branch is never
\* checked.
AcceptPublish(h) ==
  /\ "publish" \in Workload
  /\ Idle(h)
  /\ Edits < MaxEdits
  /\ \E pid \in Pids \cup {0}, user \in Users, name \in Names,
        request \in Requests, pin \in {None, base}, source \in Sources :
       /\ mergedInto[user] = None
       /\ job' = [job EXCEPT ![h] =
                    PublishJob(pid, user, name, request, pin, source)]
  /\ UNCHANGED <<rows_vars, lastPid, rowLock, world_vars, code, queue>>

\* load_current_container() on the row get_container() returns: keep it, or
\* recompute its request when it is outdated.
Loaded(h, pid) ==
  LET row     == proposals[pid].container
      trigger == OutdatedTrigger(row.member, code[h], base)
  IN  IF trigger = None
      THEN [NewJob("load", pid) EXCEPT !.phase = "loaded", !.view = row]
      ELSE [NewJob("load", pid) EXCEPT !.request = row.member.request,
                                       !.trigger = trigger]

\* GET /api/proposal/<id>, first read.  An unknown id answers 404.
LoadContainer(h) ==
  /\ "load" \in Workload
  /\ Idle(h)
  /\ \E pid \in Existing :
       /\ \/ Loaded(h, pid).phase = "loaded"
          \/ proposals[pid].container.version < MaxVersion
       /\ job' = [job EXCEPT ![h] = Loaded(h, pid)]
  /\ UNCHANGED <<rows_vars, lastPid, rowLock, world_vars, code, queue>>

\* The three work queues, each read once, when its script starts.
OutdatedItems(build) ==
  {[kind |-> "refresh", pid |-> p,
    request |-> proposals[p].container.member.request,
    trigger |-> OutdatedTrigger(proposals[p].container.member, build, base)] :
     p \in {q \in Existing : Outdated(proposals[q], build, base)}}

BackfillItems(build) ==
  {[kind |-> "backfill", pid |-> p,
    request |-> proposals[p].container.member.request, trigger |-> None] :
     p \in {q \in Existing : NeedsScenarioRows(proposals[q], build, Current)}}

CorridorItems ==
  {[kind |-> "rebuild", pid |-> p,
    request |-> proposals[p].container.member.request, trigger |-> None] :
     p \in {q \in Existing : CorridorGap(proposals[q])}}

\* A script process starts on the deployed build and reads its queue; an
\* empty one ends it at once.
StartScript(s) ==
  /\ Idle(s)
  /\ queue[s] = {}
  /\ \E kind \in Workload \cap ScriptKinds :
       LET items == CASE kind = "refresh"  -> OutdatedItems(release)
                      [] kind = "backfill" -> BackfillItems(release)
                      [] OTHER             -> CorridorItems
       IN  /\ items # {}
           /\ queue' = [queue EXCEPT ![s] = items]
  /\ code' = [code EXCEPT ![s] = release]
  /\ UNCHANGED <<rows_vars, lastPid, rowLock, world_vars, job>>

ItemJob(item) ==
  [NewJob(item.kind, item.pid) EXCEPT
     !.request = item.request, !.trigger = item.trigger,
     !.phase = CASE item.kind = "refresh"  -> "accepted"
                 [] item.kind = "backfill" -> "computed"
                 [] OTHER                  -> "projected"]

\* The script takes one queued proposal.  A refresh computes the member, a
\* backfill only the scenario rows, a corridor rebuild nothing.
TakeItem(s) ==
  /\ Idle(s)
  /\ \E item \in queue[s] :
       /\ queue' = [queue EXCEPT ![s] = @ \ {item}]
       /\ job' = [job EXCEPT ![s] = ItemJob(item)]
  /\ UNCHANGED <<rows_vars, lastPid, rowLock, world_vars, code>>

-----------------------------------------------------------------------------
(* It computes, outside any transaction.                                   *)

\* The scenario compute_member() resolves: the pinned one, or the base of
\* this moment.
Resolved(j) == IF j.pin = None THEN base ELSE j.pin

\* The scenario's routing graph is served and the request has a route on it.
Computable(j) ==
  /\ Resolved(j) \in served
  /\ <<j.request, Resolved(j)>> \notin Unroutable

ComputeMember(t) ==
  /\ In(t, "accepted")
  /\ Computable(job[t])
  /\ job' = [job EXCEPT ![t] =
               [@ EXCEPT !.phase  = "computed",
                         !.member = [request |-> job[t].request,
                                     variant |-> Resolved(job[t]), build |-> code[t]]]]
  /\ UNCHANGED <<rows_vars, lastPid, rowLock, world_vars, code, queue>>

\* compute_member() raises: the request answers an error, the script counts
\* a failure and goes on with its queue.
ComputeRaises(t) ==
  /\ In(t, "accepted")
  /\ ~Computable(job[t])
  /\ job' = [job EXCEPT ![t] = None]
  /\ UNCHANGED <<rows_vars, lastPid, rowLock, world_vars, code, queue>>

\* compute_scenario_rows(), on the variants that are current now.
ProjectRows(t) ==
  /\ In(t, "computed")
  /\ job' = [job EXCEPT ![t] =
               [@ EXCEPT !.phase = "projected",
                         !.rows  = Projection(job[t].request, code[t], Current, served)]]
  /\ UNCHANGED <<rows_vars, lastPid, rowLock, world_vars, code, queue>>

-----------------------------------------------------------------------------
(* It writes, in one transaction.                                          *)

\* The state a proposal is published in.
FirstVersion == 1

\* Mutant: SELECT without FOR UPDATE.
NeverBlocks(pid) == TRUE

\* SELECT ... FOR UPDATE does not have to wait.
RowFree(pid) == rowLock[pid] = None

\* Only the owner overwrites; the system's writes ask for no identity.
MayWrite(j, row) == j.kind = "publish" => row.owner = j.user

Rewrites == {"publish", "load", "refresh"}

\* A rewrite makes the next state; the backfill and the corridor rebuild
\* repair the stored one.
NextVersion(j, row) == row.version + (IF j.kind \in Rewrites THEN 1 ELSE 0)

\* publish(mode="new"): the id comes from the sequence, which no rollback
\* takes back; nobody else can see the row before the commit.
DrawPid(t) ==
  /\ In(t, "projected")
  /\ job[t].pid = 0
  /\ lastPid < MaxPid
  /\ lastPid' = lastPid + 1
  /\ job' = [job EXCEPT ![t] =
               [@ EXCEPT !.phase = "locked", !.pid = lastPid + 1,
                         !.version = FirstVersion]]
  /\ rowLock' = [rowLock EXCEPT ![lastPid + 1] = t]
  /\ UNCHANGED <<rows_vars, world_vars, code, queue>>

\* An overwrite keeps the caller's identity, everything else takes the
\* stored one.
LockedJob(j, row) ==
  [j EXCEPT !.phase   = "locked",
            !.version = NextVersion(j, row),
            !.user    = IF j.user = None THEN row.owner ELSE j.user,
            !.name    = IF j.name = None THEN row.name ELSE j.name]

\* SELECT ... FOR UPDATE returned the row.
LockRow(t) ==
  /\ In(t, "projected")
  /\ job[t].pid \in Existing
  /\ RowFree(job[t].pid)
  /\ LET row == proposals[job[t].pid].container
     IN  /\ MayWrite(job[t], row)
         /\ job' = [job EXCEPT ![t] = LockedJob(job[t], row)]
         /\ rowLock' = [rowLock EXCEPT ![job[t].pid] = t]
  /\ UNCHANGED <<rows_vars, lastPid, world_vars, code, queue>>

\* _lock_for_overwrite() raised ProposalNotFoundError or
\* ProposalForbiddenError.
Reject(t) ==
  /\ In(t, "projected")
  /\ job[t].kind = "publish" /\ job[t].pid # 0
  /\ \/ job[t].pid \notin Existing
     \/ /\ job[t].pid \in Existing
        /\ RowFree(job[t].pid)
        /\ ~MayWrite(job[t], proposals[job[t].pid].container)
  /\ job' = [job EXCEPT ![t] = None]
  /\ UNCHANGED <<rows_vars, lastPid, rowLock, world_vars, code, queue>>

\* Mutant: the scenario rows are inserted where there is none, not replaced.
KeepsOldRows(j) ==
  LET old == proposals[j.pid]
      new == WriteState(IF old = None THEN {} ELSE old.gtfs,
                        j.version, j.user, j.name, j.member, j.rows)
  IN  IF old = None THEN new
      ELSE [new EXCEPT !.scenarios =
              [v \in DOMAIN @ |-> IF old.scenarios[v] = None THEN @[v] ELSE old.scenarios[v]]]

\* The whole stored state after the transaction of job j.
Written(j) ==
  LET old == proposals[j.pid]
  IN  CASE j.kind \in Rewrites ->
             WriteState(IF old = None THEN {} ELSE old.gtfs,
                        j.version, j.user, j.name, j.member, j.rows)
        [] j.kind = "backfill" -> ReplaceScenarioSummaries(old, j.version, j.rows)
        [] OTHER               -> RebuildCorridors(old, j.version)

\* _write_update_log(): the primary event, and the pair of a branch.
Entry(pid, version, user, event) ==
  [pid |-> pid, version |-> version, user |-> user, event |-> event,
   other |-> None, trigger |-> None]

PrimaryRow(j) ==
  IF j.kind = "publish"
  THEN Entry(j.pid, j.version, j.user,
             IF j.version = FirstVersion THEN "published" ELSE "overwritten")
  ELSE [Entry(j.pid, j.version, None, "recalculated") EXCEPT !.trigger = j.trigger]

BranchRows(j) ==
  IF j.source = None THEN {}
  ELSE {[Entry(j.pid, j.version, j.user, "branched_from") EXCEPT !.other = j.source],
        [Entry(j.source, j.version, j.user, "branched_to") EXCEPT !.other = j.pid]}

\* Mutant: only a new publication is logged.
LogsNewOnly(j) == IF j.version = FirstVersion THEN {PrimaryRow(j)} ELSE {}

LogRows(j) ==
  IF j.kind \in Rewrites THEN {PrimaryRow(j)} \cup BranchRows(j) ELSE {}

\* The rest of the transaction, and its commit.
Commit(t) ==
  /\ In(t, "locked")
  /\ proposals' = [proposals EXCEPT ![job[t].pid] = Written(job[t])]
  /\ log' = log \cup LogRows(job[t])
  /\ rowLock' = [rowLock EXCEPT ![job[t].pid] = None]
  /\ job' = [job EXCEPT ![t] =
               IF @.kind = "load"
               THEN [NewJob("load", @.pid) EXCEPT !.phase = "reload"]
               ELSE None]
  /\ UNCHANGED <<lastPid, world_vars, code, queue>>

\* What a thread that drops its work gives back: a rolled back transaction
\* releases its row lock.
Drop(t) ==
  /\ job' = [job EXCEPT ![t] = None]
  /\ rowLock' = [p \in Pids |-> IF rowLock[p] = t THEN None ELSE rowLock[p]]

\* Any other exception before the commit or during the load: the transaction
\* rolls back, the request answers an error, the script counts a failure.
Fail(t) ==
  /\ "failures" \in Workload
  /\ ~Idle(t)
  /\ Drop(t)
  /\ UNCHANGED <<rows_vars, lastPid, world_vars, code, queue>>

-----------------------------------------------------------------------------
(* A load reads the page, one statement after the other.                   *)

\* The get_container() after an on-load refresh: whatever is stored by now,
\* with no second look at its staleness.
Reload(h) ==
  /\ In(h, "reload")
  /\ job' = [job EXCEPT ![h] =
               [@ EXCEPT !.phase = "loaded",
                         !.view  = proposals[job[h].pid].container]]
  /\ UNCHANGED <<rows_vars, lastPid, rowLock, world_vars, code, queue>>

\* Mutant: the load takes whatever generation is stored.
AnyGeneration(pid, version) == proposals[pid].gtfs

\* The generation a SELECT by the prefix of state `version` finds.
Stored(pid, version) == {g \in proposals[pid].gtfs : g.version = version}

\* route_dict_from_gtfs() up to the segments and shapes: without them it
\* raises, and the request answers an error.
ReadTrips(h) ==
  /\ In(h, "loaded")
  /\ LET found == Stored(job[h].pid, job[h].view.version)
     IN  job' = [job EXCEPT ![h] =
                   IF found = {} THEN None
                   ELSE [@ EXCEPT !.phase = "trips",
                                  !.trips = (CHOOSE g \in found : TRUE).member]]
  /\ UNCHANGED <<rows_vars, lastPid, rowLock, world_vars, code, queue>>

\* _build_od_pairs(), _build_parkings(), _build_shuntings(): each statement
\* sees what is committed when it runs, and no row is an empty list.
ReadSidecars(h) ==
  /\ In(h, "trips")
  /\ LET found == Stored(job[h].pid, job[h].view.version)
     IN  job' = [job EXCEPT ![h] =
                   [@ EXCEPT !.phase    = "respond",
                             !.sidecars = IF found = {} THEN None
                                          ELSE (CHOOSE g \in found : TRUE).member]]
  /\ UNCHANGED <<rows_vars, lastPid, rowLock, world_vars, code, queue>>

\* 200, with the views of the container row read first.
Respond(h) ==
  /\ In(h, "respond")
  /\ job' = [job EXCEPT ![h] = None]
  /\ UNCHANGED <<rows_vars, lastPid, rowLock, world_vars, code, queue>>

-----------------------------------------------------------------------------
(* A guest registers or logs in.                                           *)

OwnedBy(user) == {p \in Existing : proposals[p].container.owner = user}

\* The rows of the merge's UPDATE ... WHERE user_id = guest.
ClaimedBy(guest) == OwnedBy(guest)

\* Mutant: the guest row is not marked.
Unmarked(guest, user) == mergedInto

\* UPDATE admin.users SET merged_into_user_id.
Marked(guest, user) == [mergedInto EXCEPT ![guest] = user]

\* merge_guest_into(): one transaction, which waits for the row lock of every
\* proposal it moves.  A guest merged before is refused.  What a publish of
\* the guest has not committed yet is not there to be moved.
MergeGuest ==
  /\ "merge" \in Workload
  /\ \E guest \in Guests, user \in Users \ Guests :
       /\ mergedInto[guest] = None
       /\ \A p \in ClaimedBy(guest) : RowFree(p)
       /\ proposals' = [p \in Pids |-> IF p \in ClaimedBy(guest)
                                      THEN ClaimProposal(proposals[p], user)
                                      ELSE proposals[p]]
       /\ mergedInto' = Marked(guest, user)
  /\ UNCHANGED <<log, lastPid, rowLock, base, served, release, code, job, queue>>

-----------------------------------------------------------------------------
(* The world moves.                                                        *)

\* A process stops, at any moment: in-flight work and queues are gone.  It
\* comes back on the deployed build.
Restart(t) ==
  /\ "restarts" \in Workload
  /\ ~Idle(t) \/ queue[t] # {} \/ code[t] # release
  /\ Drop(t)
  /\ code' = [code EXCEPT ![t] = release]
  /\ queue' = [queue EXCEPT ![t] = {}]
  /\ UNCHANGED <<rows_vars, lastPid, world_vars>>

\* A deployment ships the next build; running processes keep theirs.
Deploy ==
  /\ release < Len(Releases)
  /\ release' = release + 1
  /\ UNCHANGED <<rows_vars, lastPid, rowLock, base, served, mergedInto, code, job,
                 queue>>

\* The scenario catalogue names a newer base.
MoveBase ==
  /\ \E b \in Bases : b > base /\ base' = b
  /\ UNCHANGED <<rows_vars, lastPid, rowLock, served, mergedInto, release, code,
                 job, queue>>

\* A routing graph the deployment did not run comes up.
ServeGraph ==
  /\ \E v \in Variants \ served : served' = served \cup {v}
  /\ UNCHANGED <<rows_vars, lastPid, rowLock, base, mergedInto, release, code,
                 job, queue>>

-----------------------------------------------------------------------------
(* The specification.                                                      *)

\* A proposal published by build 1, without rows in the derived tables.
LegacyProposal(owner, name, request, variant) ==
  [WriteState({}, 1, owner, name,
              [request |-> request, variant |-> variant, build |-> 1], NoRows)
     EXCEPT !.corridors = NoCorridors]

Init ==
  /\ base \in Bases /\ \A b \in Bases : base <= b
  /\ served \in {Variants, {base}}
  /\ mergedInto = [u \in Users |-> None]
  /\ release = 1
  /\ code = [t \in Threads |-> 1]
  /\ job = [t \in Threads |-> None]
  /\ queue = [t \in Threads |-> {}]
  /\ rowLock = [p \in Pids |-> None]
  /\ lastPid = Legacy
  /\ \E owner \in Users, name \in Names, request \in Requests :
       /\ proposals = [p \in Pids |->
                         IF p <= Legacy
                         THEN LegacyProposal(owner, name, request, base)
                         ELSE None]
       /\ log = {Entry(p, 1, owner, "published") : p \in 1 .. Legacy}

HandlerStep(h) ==
  \/ AcceptPublish(h)
  \/ LoadContainer(h)
  \/ Reload(h)
  \/ ReadTrips(h)
  \/ ReadSidecars(h)
  \/ Respond(h)

ScriptStep(s) == StartScript(s) \/ TakeItem(s)

WorkStep(t) ==
  \/ ComputeMember(t)
  \/ ComputeRaises(t)
  \/ ProjectRows(t)
  \/ DrawPid(t)
  \/ LockRow(t)
  \/ Reject(t)
  \/ Commit(t)

Next ==
  \/ \E h \in Handlers : HandlerStep(h)
  \/ \E s \in Scripts : ScriptStep(s)
  \/ \E t \in Threads : WorkStep(t) \/ Fail(t) \/ Restart(t)
  \/ MergeGuest
  \/ Deploy
  \/ MoveBase
  \/ ServeGraph

Spec == Init /\ [][Next]_vars

-----------------------------------------------------------------------------
(* Invariants.                                                             *)

\* Every variable has its type.
TypeOK ==
  /\ proposals \in [Pids -> Proposal \cup {None}]
  /\ log \subseteq Event
  /\ lastPid \in 0 .. MaxPid
  /\ rowLock \in [Pids -> Threads \cup {None}]
  /\ base \in Bases
  /\ served \subseteq Variants
  /\ mergedInto \in [Users -> Users \cup {None}]
  /\ release \in Builds
  /\ code \in [Threads -> Builds]
  /\ job \in [Threads -> Job \cup {None}]
  /\ queue \in [Threads -> SUBSET Item]

\* A job that is about to write holds its proposal's row lock, and what it
\* decided under the lock still fits the stored row: a new proposal's id is
\* unused, a rewrite is the next state of the same owner, a repair is at the
\* stored state.  What SELECT ... FOR UPDATE in publish(), refresh_proposal(),
\* replace_scenario_summaries() and rebuild_corridors() is there for.
LockedJobFits(j) ==
  IF proposals[j.pid] = None
  THEN j.kind = "publish" /\ j.version = FirstVersion
  ELSE LET row == proposals[j.pid].container
       IN  IF j.kind \in Rewrites
           THEN j.version = row.version + 1 /\ j.user = row.owner
           ELSE j.version = row.version

LockDiscipline ==
  /\ \A t \in Threads :
       In(t, "locked") => rowLock[job[t].pid] = t /\ LockedJobFits(job[t])
  /\ \A p \in Pids :
       rowLock[p] # None => In(rowLock[p], "locked") /\ job[rowLock[p]].pid = p

\* All the rows of every proposal describe one state of it: what the single
\* transaction of _write_state() is for.
TablesAgree == \A p \in Existing : RowsAgree(proposals[p])

\* The gallery map is the same whether map_lines() answers it from the
\* corridor table or derives it: with no gap reported, every line of every
\* proposal is the stored one.
GalleryNeverWrong ==
  \A p \in Existing :
    ~CorridorGap(proposals[p]) =>
      \A k \in Lines : StoredLine(proposals[p], k) = DerivedLine(proposals[p], k)

\* `user` is the account `owner`, or the guest it was before the merge.
Acts(user, owner) == user = owner \/ mergedInto[user] = owner

\* The timeline has exactly one primary event for every state a proposal
\* has been in, the first one its publication, and a NULL user exactly on
\* system refreshes; a rolled back write leaves none.
Primary(p) ==
  {l \in log : l.pid = p /\ l.event \in {"published", "overwritten", "recalculated"}}

TimelineComplete ==
  \A p \in Pids :
    LET top == IF p \in Existing THEN proposals[p].container.version ELSE 0
    IN  /\ {l.version : l \in Primary(p)} = 1 .. top
        /\ Cardinality(Primary(p)) = top
        /\ \A l \in Primary(p) :
             /\ l.event = "published" <=> l.version = 1
             /\ l.user = None <=> l.event = "recalculated"
             /\ l.user # None => Acts(l.user, proposals[p].container.owner)

\* The scenario row of the stored base variant repeats the stored proposal.
BaseRowIsTheProposal ==
  \A p \in Existing :
    LET member == proposals[p].container.member
        row    == proposals[p].scenarios[member.variant]
    IN  row # None => row.member = member

\* A page shows one state: the views of the container row, the trips read
\* after it and whatever sidecars were found come from the same member, even
\* when the proposal was rewritten between the statements.
PageIsOneState ==
  \A h \in Handlers :
    In(h, "respond") =>
      /\ job[h].trips = job[h].view.member
      /\ job[h].sidecars \in {job[h].view.member, None}

\* The gallery card is filed under the owner, or under the guest the owner
\* was before the merge; never under anybody else.
CardOwnerKnown ==
  \A p \in Existing :
    Acts(proposals[p].summary.owner, proposals[p].container.owner)

-----------------------------------------------------------------------------
(* Action properties.                                                      *)

\* A stored state is replaced whole: the state number moves by one and the
\* owner stays, or the number, the name, the member and the GTFS rows stand
\* and only the merge of the owning guest moves the owner; the name changes
\* only by the owner's overwrite.
StatesSucceed ==
  [][\A p \in Existing :
       LET old == proposals[p]
           new == proposals'[p]
       IN  /\ new # None
           /\ \/ /\ new.container.version = old.container.version + 1
                 /\ new.container.owner = old.container.owner
              \/ /\ new.container.version = old.container.version
                 /\ new.container.name = old.container.name
                 /\ new.container.member = old.container.member
                 /\ new.gtfs = old.gtfs
           /\ new.container.owner # old.container.owner =>
                /\ mergedInto[old.container.owner] = None
                /\ mergedInto'[old.container.owner] = new.container.owner
           /\ new.container.name # old.container.name =>
                \E l \in log' \ log :
                  l.event = "overwritten" /\ l.pid = p
                    /\ l.user = old.container.owner]_vars

\* A system refresh recomputes what the user stored: the request stays.
RefreshKeepsRequest ==
  [][\A l \in log' \ log :
       l.event = "recalculated" =>
         proposals'[l.pid].container.member.request
           = proposals[l.pid].container.member.request]_vars

-----------------------------------------------------------------------------
(* Liveness.                                                               *)

\* The crashes and failures the environment inflicts: not the replacement of
\* a process on a superseded build, nor a step of the program that ends its
\* unit of work without a change of the rows, as a failure would.
Disturbance ==
  \E t \in Threads :
    /\ Fail(t) \/ (Restart(t) /\ code[t] = release)
    /\ ~(WorkStep(t) \/ ReadTrips(t) \/ Respond(t))

\* Threads keep running, processes on a superseded build are replaced, each
\* kind of maintenance script is rerun while it has work, and disturbances end.
Fairness ==
  /\ \A h \in Handlers :
       WF_vars(WorkStep(h) \/ Reload(h) \/ ReadTrips(h) \/ ReadSidecars(h) \/ Respond(h))
  /\ \A s \in Scripts :
       /\ \A kind \in ScriptKinds \cap Workload :
            SF_vars(StartScript(s) /\ \A item \in queue'[s] : item.kind = kind)
       /\ WF_vars(TakeItem(s) \/ WorkStep(s))
  /\ WF_vars(\E t \in Threads : Restart(t) /\ code[t] # release)
  /\ <>[][~Disturbance]_vars

FairSpec == Spec /\ Fairness

\* Refreshable: the running build can compute the request on the base.
Refreshable(p) ==
  /\ base \in served
  /\ <<proposals[p].container.member.request, base>> \notin Unroutable

\* Once deployments and base moves stop, every proposal that can be
\* recomputed ends up, and stays, computed by the running versions on the
\* base: what list_outdated() queues is all there is to repair.
EventuallyCurrent ==
  <>[](\A p \in Existing :
         Refreshable(p) =>
           /\ Releases[proposals[p].container.member.build] = Releases[release]
           /\ proposals[p].container.member.variant = base)

\* Once the backfill and the corridor task run, every stored proposal ends up
\* with a row for every current variant and no missing corridor.
EventuallyCovered ==
  <>[](\A p \in Existing :
         /\ ~NeedsScenarioRows(proposals[p], release, Current)
         /\ ~CorridorGap(proposals[p]))
=============================================================================
