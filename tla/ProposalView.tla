---------------------------- MODULE ProposalView ----------------------------
(***************************************************************************)
(* What a reader of the database can put together of a proposal at one     *)
(* moment, and the claim that it behaves like ProposalArtifact.            *)
(*                                                                         *)
(* The artifact is read from three tables: its number and name from the    *)
(* gallery card, its owner from the container, its content from the GTFS   *)
(* generation.  The timeline is read from update_log.                      *)
(***************************************************************************)
EXTENDS ProposalStore

\* The artifact a reader of the rows q sees.
Read(q) ==
  [version |-> q.summary.version, owner |-> q.container.owner,
   name |-> q.summary.name, member |-> (CHOOSE g \in q.gtfs : TRUE).member]

Shown(p) == IF proposals[p] = None THEN None ELSE Read(proposals[p])

\* The rows of update_log for the state number `version` of p.
EntriesAt(p, version) == {l \in Primary(p) : l.version = version}

EntryAt(p, version) ==
  LET l == CHOOSE k \in EntriesAt(p, version) : TRUE
  IN  [user |-> l.user, event |-> l.event]

\* The timeline a reader sees: one entry for each state up to the card's.
ShownTimeline(p) ==
  IF proposals[p] = None THEN <<>>
  ELSE [n \in 1 .. proposals[p].summary.version |-> EntryAt(p, n)]

Artifact ==
  INSTANCE ProposalArtifact WITH
    artifact <- [p \in Pids |-> Shown(p)],
    timeline <- [p \in Pids |-> ShownTimeline(p)]

\* What is shown behaves as one artifact per proposal: every commit is one
\* whole new state with its timeline entry, or the hand-over of a merge;
\* compute steps, repairs of the derived tables, failures and restarts do
\* not show.
ArtifactImplemented == Artifact!Spec
=============================================================================
