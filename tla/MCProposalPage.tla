--------------------------- MODULE MCProposalPage ---------------------------
(* ProposalPage.cfg: two itineraries, one with stops to suggest and one whose *)
(* second composition has no route.  ProposalPageAbandoned.cfg: one session,  *)
(* nothing fails, nobody hurries.                                             *)
EXTENDS ProposalPage

CONSTANTS short, long, seats, beds

TwoRoutes == {short, long}
BedsUnroutable == {<<short, beds>>}
OnlyLong == {long}
=============================================================================
