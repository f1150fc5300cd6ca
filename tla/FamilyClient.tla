---------------------------- MODULE FamilyClient ----------------------------
(***************************************************************************)
(* useProposalFamily(): the one family document a proposal page holds, the *)
(* request that builds it, and the views of its members fetched one by one. *)
(*                                                                         *)
(* Stop lists, inputs and compositions are opaque.  A document is named by *)
(* the key it was built for and the member it presents; a fetch of views   *)
(* carries whether the document it was made for is still the held object.  *)
(***************************************************************************)
CONSTANTS
  Itinerary,    \* stop lists
  How,          \* the other inputs of a computation: schedule, prices, night
  Composition,
  None

VARIABLES
  family,    \* status, key and document of the composable
  builds,    \* POST /api/proposal/family out, each with what its caller does next
  fetches,   \* views requests out
  cache      \* viewsCache

family_vars == <<family, builds, fetches, cache>>

Flavour == {"suggest", "off", "background"}
Purpose == {"evaluate", "settle", "recompute", "retry", "restore", "background"}

Key      == [stops : Itinerary, how : How, flavour : Flavour]
Document == [key : Key, presented : Composition]
Build    == [key : Key, presented : Composition, purpose : Purpose]
Fetch    == [key : Key, composition : Composition, latest : BOOLEAN, stale : BOOLEAN]
Views    == [key : Key, composition : Composition]

NoFamily == [status |-> "idle", key |-> None, document |-> None]

FamilyTypeOK ==
  /\ family \in [status : {"idle", "loading", "complete", "error"},
                 key : Key \cup {None}, document : Document \cup {None}]
  /\ builds \subseteq Build
  /\ fetches \subseteq Fetch
  /\ cache \subseteq Views

\* start() answers from what it has: the key is the held one and its request
\* neither failed nor was reset.  A request stopped by abort() counts.
Held(key) == key = family.key /\ family.status \notin {"idle", "error"}

\* Fetches made for a document that is no longer the held one.
Disown(fs) == {[f EXCEPT !.stale = TRUE] : f \in fs}

\* Mutant: an answer does not look whether its document is still held.
Adopt(fs) == fs

\* reset(), where the itinerary is edited.
ResetFamily ==
  /\ family' = NoFamily
  /\ builds' = {}
  /\ cache' = {}
  /\ fetches' = Disown(fetches)

\* Mutant: the request before is not aborted.
StartBeside(key, presented, purpose) ==
  /\ family' = [status |-> "loading", key |-> key, document |-> None]
  /\ builds' = builds \cup
                 {[key |-> key, presented |-> presented, purpose |-> purpose]}
  /\ cache' = {}
  /\ fetches' = Disown(fetches)

\* start() with a new key: reset() and run(), which aborts the request before.
StartFamily(key, presented, purpose) ==
  /\ family' = [status |-> "loading", key |-> key, document |-> None]
  /\ builds' = {[key |-> key, presented |-> presented, purpose |-> purpose]}
  /\ cache' = {}
  /\ fetches' = Disown(fetches)

\* abort(): the request is dropped, the status and the key stay.
AbortFamily ==
  /\ builds' = {}
  /\ UNCHANGED <<family, fetches, cache>>

DocumentOf(b) == [key |-> b.key, presented |-> b.presented]

\* run(): the document is here, members with errors included.
HoldDocument(b) ==
  /\ family' = [family EXCEPT !.status = "complete", !.document = DocumentOf(b)]
  /\ builds' = builds \ {b}
  /\ UNCHANGED cache

\* run(): the request failed.
HoldFailure(b) ==
  /\ family' = [family EXCEPT !.status = "error"]
  /\ builds' = builds \ {b}
  /\ UNCHANGED <<fetches, cache>>

\* views() finds the member in its cache.
Cached(key, composition) == [key |-> key, composition |-> composition] \in cache
=============================================================================
