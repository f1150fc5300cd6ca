--------------------------- MODULE MCProposalStore ---------------------------
(* Values for the constants of ProposalStore that a .cfg cannot write down. *)
EXTENDS ProposalView, TLC

\* One build, or a build and its successor with a new calculation version.
OneBuild == <<[route_builder |-> 1, calc |-> 1]>>

TwoBuilds == <<[route_builder |-> 1, calc |-> 1],
               [route_builder |-> 1, calc |-> 2]>>

CONSTANTS r1, r2

\* The second request has no route on the what-if variant 9, or on base 2.
AllRoutable == {}

NoWhatIfRoute == {<<r2, 9>>}

NoNewBaseRoute == {<<r2, 2>>}

BaseRouteOnly == NoWhatIfRoute \cup NoNewBaseRoute

\* Actors and payloads that no definition tells apart.
Interchangeable ==
  Permutations(Names) \cup Permutations(Requests) \cup Permutations(Handlers)
==============================================================================
