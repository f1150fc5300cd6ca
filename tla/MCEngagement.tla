---------------------------- MODULE MCEngagement ----------------------------
(***************************************************************************)
(* The instance of Engagement: an account that has just been mailed a code, *)
(* a guest that owns a proposal, likes it and comments, and an address that *)
(* nobody has registered yet.                                               *)
(***************************************************************************)
EXTENDS Engagement, TLC

CONSTANTS w1, w2, e1, e2, Ann, Bo, bo, guest, guest2, p1

MCFolded == (bo :> Bo) @@ [n \in {Ann, Bo, guest, guest2} |-> n]
MCUsers ==
  << [email |-> e1, name |-> Bo, verified |-> TRUE, merged |-> None, by |-> w1],
     [email |-> None, name |-> guest, verified |-> FALSE, merged |-> None, by |-> None] >>
MCCodes ==
  << [user |-> 1, used |-> FALSE, expired |-> FALSE, sent |-> TRUE,
      created |-> 1, by |-> w1] >>
MCOwner == [p \in {p1} |-> 2]
MCLikes == {<<p1, 2>>}
MCComments == << [user |-> 2, deleted |-> FALSE, editor |-> None] >>
=============================================================================
