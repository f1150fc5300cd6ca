----------------------------- MODULE SegmentCache -----------------------------
(***************************************************************************)
(* The route segment cache of one routing graph and one variant: a table   *)
(* of legs by stop pair (adapters/route_segment_repository.py), filled and *)
(* read while a trip is routed (rail_router.py), and reconciled with the   *)
(* graph import the routing instance serves when a process starts          *)
(* (api/helpers/dependencies.py).                                          *)
(*                                                                         *)
(* A path is the sequence from-stop, corridor, to-stop; the corridor names *)
(* the direction it was routed in and the import it was routed on, which   *)
(* is all that tells two paths of a pair apart.                            *)
(***************************************************************************)
EXTENDS Integers, Sequences, SequencesExt, FiniteSetsExt

CONSTANTS Stop,        \* stops, numbered so that lo < hi
          Router,      \* threads that route
          Booter,      \* processes that start and reconcile
          PassagesOn,  \* the passages (tunnels, bridges) each pair crosses
          MaxImport,   \* bound: imports of the graph are numbered 1..MaxImport
          NoRow, NoDate

ASSUME SegmentAssumption ==
  /\ Stop \subseteq Nat /\ MaxImport \in Nat \ {0}
  /\ NoDate \notin 1..MaxImport

VARIABLES segments,  \* the table: pair -> a leg from lo to hi, or NoRow
          stamp,     \* graph_state.import_date, or NoDate
          served,    \* the import the routing instance serves
          lookup,    \* what each routing thread has in hand
          booting,   \* what a starting process is at
          late       \* history: the pairs whose row came late, see Insert

segmentVars == <<segments, stamp, served, lookup, booting, late>>

Pair == {p \in SUBSET Stop : \E a \in p : \E b \in p \ {a} : p = {a, b}}
Lo(p) == Min(p)
Hi(p) == Max(p)

Corridor == [pair : Pair, up : BOOLEAN, date : 1..MaxImport]
Leg == [from : Stop, corridor : Corridor, to : Stop, passages : SUBSET UNION {PassagesOn[p] : p \in Pair}]

\* segment_from_leg and leg_from_cached turn a leg around, or do not; the
\* passages are the same either way.
Oriented(leg, reverse) ==
  IF reverse THEN [leg EXCEPT !.from = leg.to, !.to = leg.from] ELSE leg

\* What the routing instance answers for one pair on one import: each
\* direction has its own best corridor.
LiveLeg(a, b, date) ==
  [from |-> a, to |-> b, passages |-> PassagesOn[{a, b}],
   corridor |-> [pair |-> {a, b}, up |-> a < b, date |-> date]]

\* Passage claiming: a passage belongs to the first leg that crosses it.
Claimed(legs) == UNION {legs[i].passages : i \in DOMAIN legs}
\* Mutant: every leg claims all its passages.
ClaimAll(legs, leg) == Append(legs, leg)
Claim(legs, leg) == Append(legs, [leg EXCEPT !.passages = @ \ Claimed(legs)])

NoRows == [p \in Pair |-> NoRow]
NoLookup == [trip |-> <<>>, rows |-> NoRows, legs |-> <<>>, live |-> NoRow]

\* at: "off"; then before the SELECT ("asked"), the DELETE ("purge") and the
\* upsert ("record") of sync_graph_import(), with the date the instance gave
\* and the rows the DELETE saw.
Off == [at |-> "off", date |-> NoDate, doomed |-> {}]

Routing(t) == lookup[t].trip # <<>>
\* The next consecutive stop pair of t's trip.
From(t) == lookup[t].trip[Len(lookup[t].legs) + 1]
To(t) == lookup[t].trip[Len(lookup[t].legs) + 2]
Assembled(t) == Routing(t) /\ Len(lookup[t].legs) = Len(lookup[t].trip) - 1
\* Mutant: rows are used from lo to hi only.
RowOneWay(t) ==
  IF From(t) < To(t) THEN lookup[t].rows[{From(t), To(t)}] ELSE NoRow
Row(t) == lookup[t].rows[{From(t), To(t)}]

\* The stop lists that route: two stops at least, and no leg from a stop to
\* itself.
Routable(trip) ==
  /\ trip \in Seq(Stop) /\ Len(trip) > 1
  /\ \A i \in 1 .. Len(trip) - 1 : trip[i] # trip[i + 1]

-----------------------------------------------------------------------------
SegmentInit ==
  /\ segments = NoRows
  /\ stamp = NoDate
  /\ served = 1
  /\ lookup = [t \in Router |-> NoLookup]
  /\ booting = [b \in Booter |-> Off]
  /\ late = {}

\* fetch_many(): the rows of every pair of the trip in one query; a failed
\* query reads as no row at all.
Fetch(t, trip, answered) ==
  /\ ~Routing(t)
  /\ lookup' = [lookup EXCEPT ![t] =
       [NoLookup EXCEPT
         !.trip = trip,
         !.rows = [p \in Pair |->
                     IF answered /\ \E i \in 1 .. Len(trip) - 1 : p = {trip[i], trip[i + 1]}
                     THEN segments[p] ELSE NoRow]]]
  /\ UNCHANGED <<segments, stamp, served, booting, late>>

\* A row serves both directions of its pair.
TakeCached(t) ==
  /\ Routing(t) /\ ~Assembled(t) /\ Row(t) # NoRow
  /\ lookup' = [lookup EXCEPT ![t].legs =
                  Claim(@, Oriented(Row(t), From(t) # Lo({From(t), To(t)})))]
  /\ UNCHANGED <<segments, stamp, served, booting, late>>

\* A miss is routed live, as its own two-point trip ...
RouteLive(t) ==
  /\ Routing(t) /\ ~Assembled(t) /\ Row(t) = NoRow /\ lookup[t].live = NoRow
  /\ lookup' = [lookup EXCEPT ![t].live = LiveLeg(From(t), To(t), served)]
  /\ UNCHANGED <<segments, stamp, served, booting, late>>

\* ... or the instance refuses, and the whole trip fails.
RouteFails(t) ==
  /\ Routing(t) /\ ~Assembled(t) /\ Row(t) = NoRow /\ lookup[t].live = NoRow
  /\ lookup' = [lookup EXCEPT ![t] = NoLookup]
  /\ UNCHANGED <<segments, stamp, served, booting, late>>

\* A row is in time if the import it was routed on is the one still served,
\* and some import is on record for the next start to compare with.
Insert(pair, row) ==
  /\ segments' = [segments EXCEPT ![pair] = row]
  /\ late' = IF stamp = NoDate \/ row.corridor.date # served THEN late \cup {pair} ELSE late

\* store(): additive only, and best effort.  The trip goes on with the live
\* leg whatever became of the row.
StoreLeg(t, stored) ==
  /\ Routing(t) /\ lookup[t].live # NoRow
  /\ LET leg == lookup[t].live
         pair == {leg.from, leg.to}
     IN /\ IF stored /\ segments[pair] = NoRow
           THEN Insert(pair, Oriented(leg, leg.from # Lo(pair)))
           ELSE UNCHANGED <<segments, late>>
        /\ lookup' = [lookup EXCEPT ![t].legs = Claim(@, leg), ![t].live = NoRow]
  /\ UNCHANGED <<stamp, served, booting>>

\* The caller takes the legs.
HandOver(t) ==
  /\ Assembled(t)
  /\ lookup' = [lookup EXCEPT ![t] = NoLookup]
  /\ UNCHANGED <<segments, stamp, served, booting, late>>

\* Another process stores a leg it routed itself, in either direction, on
\* the import that is served or, if it took its time, on an earlier one.
StoreElsewhere(pair, up, date) ==
  /\ segments[pair] = NoRow /\ date \in 1 .. served
  /\ Insert(pair, Oriented(LiveLeg(IF up THEN Lo(pair) ELSE Hi(pair),
                                   IF up THEN Hi(pair) ELSE Lo(pair), date), ~up))
  /\ UNCHANGED <<stamp, served, lookup, booting>>

-----------------------------------------------------------------------------
\* The routing instance is restarted on a newer import of its graph.
Reimport ==
  /\ served < MaxImport
  /\ served' = served + 1
  /\ UNCHANGED <<segments, stamp, lookup, booting, late>>

\* _sync_segment_cache(): a starting process asks the instance for its date
\* (an unreachable one is skipped).
ReadDate(b) ==
  /\ booting[b].at = "off"
  /\ booting' = [booting EXCEPT ![b] = [Off EXCEPT !.at = "asked", !.date = served]]
  /\ UNCHANGED <<segments, stamp, served, lookup, late>>

(***************************************************************************)
(* sync_graph_import() is three statements of one READ COMMITTED           *)
(* transaction: each sees what is committed when it begins, and no lock    *)
(* keeps a store() or another starting process out.  Two transactions that *)
(* delete the same row, or a store() of a row that is being deleted, wait  *)
(* for each other's commit: here the one that waits takes its effect after *)
(* the commit of the other.                                                *)
(***************************************************************************)
Stored == {p \in Pair : segments[p] # NoRow}

\* The SELECT, without a lock.
ReadStored(b) ==
  /\ booting[b].at = "asked"
  /\ booting' = [booting EXCEPT ![b].at = IF stamp \in {NoDate, booting[b].date} THEN "record" ELSE "purge"]
  /\ UNCHANGED <<segments, stamp, served, lookup, late>>

\* Mutant: one process's purge is enough.
PurgeOnce(b) ==
  /\ booting[b].at = "purge"
  /\ booting' = [booting EXCEPT ![b].at = "record",
                   ![b].doomed = Stored \ UNION {booting[o].doomed : o \in Booter}]
  /\ UNCHANGED <<segments, stamp, served, lookup, late>>

\* The DELETE takes the rows committed when it begins.
PurgeRows(b) ==
  /\ booting[b].at = "purge"
  /\ booting' = [booting EXCEPT ![b].at = "record", ![b].doomed = Stored]
  /\ UNCHANGED <<segments, stamp, served, lookup, late>>

\* The upsert of the date and the commit.  A DELETE that waited for this
\* one finds its rows gone, and leaves a row stored in their place alone.
Record(b) ==
  /\ booting[b].at = "record"
  /\ segments' = [p \in Pair |-> IF p \in booting[b].doomed THEN NoRow ELSE segments[p]]
  /\ late' = late \ booting[b].doomed
  /\ stamp' = booting[b].date
  /\ booting' = [o \in Booter |-> IF o = b THEN Off
                                  ELSE [booting[o] EXCEPT !.doomed = @ \ booting[b].doomed]]
  /\ UNCHANGED <<served, lookup>>

\* A statement fails, and the transaction with it: the process does not start.
SyncFails(b) ==
  /\ booting[b].at # "off"
  /\ booting' = [booting EXCEPT ![b] = Off]
  /\ UNCHANGED <<segments, stamp, served, lookup, late>>

SyncStep(b) == ReadDate(b) \/ ReadStored(b) \/ PurgeRows(b) \/ Record(b) \/ SyncFails(b)

SegmentNext ==
  \/ \E t \in Router :
       \/ \E trip \in Seq(Stop), answered \in BOOLEAN :
            Routable(trip) /\ Fetch(t, trip, answered)
       \/ TakeCached(t) \/ RouteLive(t) \/ RouteFails(t)
       \/ \E stored \in BOOLEAN : StoreLeg(t, stored)
       \/ HandOver(t)
  \/ \E pair \in Pair, up \in BOOLEAN, date \in 1 .. MaxImport : StoreElsewhere(pair, up, date)
  \/ Reimport
  \/ \E b \in Booter : SyncStep(b)

SegmentSpec == SegmentInit /\ [][SegmentNext]_segmentVars

-----------------------------------------------------------------------------
\* Whatever a trip's legs were served from, they run in the trip's own
\* direction, end to end.
EndToEnd ==
  \A t \in Router : \A i \in DOMAIN lookup[t].legs :
    /\ lookup[t].legs[i].from = lookup[t].trip[i]
    /\ lookup[t].legs[i].to = lookup[t].trip[i + 1]

\* Every passage of the trip so far is charged on exactly one leg, cached
\* or not.
PassagesChargedOnce ==
  \A t \in Router :
    LET legs == lookup[t].legs
    IN /\ \A i, j \in DOMAIN legs : i # j => legs[i].passages \cap legs[j].passages = {}
       /\ Claimed(legs) = UNION {PassagesOn[{legs[i].from, legs[i].to}] : i \in DOMAIN legs}

\* The legs of a trip are the trip's, from the table and from the router
\* alike: its stops in its direction, its passages once each.
LegsFollowTheTrip == EndToEnd /\ PassagesChargedOnce

\* A new import purges the table.  Whoever starts, stores or fails while it
\* does, a row older than the import on record came late: it was stored when
\* its own import had been replaced, or when none was on record.
OldRows(date) == {p \in Pair : segments[p] # NoRow /\ segments[p].corridor.date < date}
OldRowsCameLate == stamp # NoDate => OldRows(stamp) \subseteq late
=============================================================================
