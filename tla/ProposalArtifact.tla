-------------------------- MODULE ProposalArtifact --------------------------
(***************************************************************************)
(* What the published-proposal store promises: a proposal is one artifact  *)
(* that is only ever replaced whole, its states are numbered from 1        *)
(* without a gap, and its timeline has one entry for each of them.  The    *)
(* owner makes new states, the system recomputes the stored one under the  *)
(* owner's name, and a merge hands everything a guest owns to the account  *)
(* it registered as.  There are no requests, transactions, locks, tables,  *)
(* builds or scripts here: ProposalView.tla shows that the store of        *)
(* ProposalStore.tla, in which there are, implements this.                 *)
(***************************************************************************)
EXTENDS Integers, Sequences

CONSTANTS
  Pids,     \* proposal ids
  Users,    \* accounts
  Guests,   \* the accounts that can be merged into another
  Names,    \* display names
  Member,   \* computed routes with their evaluation
  None      \* no artifact, no user

VARIABLES
  artifact,  \* [Pids -> the proposal as it is shown, or None]
  timeline,  \* [Pids -> Seq([user, event])]: entry n made state n
  mergedInto \* the account a guest was merged into, or None

vars == <<artifact, timeline, mergedInto>>

State(version, owner, name, member) ==
  [version |-> version, owner |-> owner, name |-> name, member |-> member]

Made(user, event) == [user |-> user, event |-> event]

Published == {p \in Pids : artifact[p] # None}

-----------------------------------------------------------------------------
\* A proposal appears, in its first state.
Publish(p, user, name, member) ==
  /\ artifact[p] = None
  /\ artifact' = [artifact EXCEPT ![p] = State(1, user, name, member)]
  /\ timeline' = [timeline EXCEPT ![p] = <<Made(user, "published")>>]
  /\ UNCHANGED mergedInto

\* Its owner replaces it.
Overwrite(p, name, member) ==
  /\ artifact[p] # None
  /\ LET old == artifact[p]
     IN  /\ artifact' = [artifact EXCEPT ![p] =
                           State(old.version + 1, old.owner, name, member)]
         /\ timeline' = [timeline EXCEPT ![p] =
                           Append(@, Made(old.owner, "overwritten"))]
  /\ UNCHANGED mergedInto

\* The system computes it again: nobody's name is on the new state.
Recalculate(p, member) ==
  /\ artifact[p] # None
  /\ LET old == artifact[p]
     IN  /\ artifact' = [artifact EXCEPT ![p] =
                           State(old.version + 1, old.owner, old.name, member)]
         /\ timeline' = [timeline EXCEPT ![p] =
                           Append(@, Made(None, "recalculated"))]
  /\ UNCHANGED mergedInto

\* A guest becomes `user`, once and with everything it owns.
Merge(guest, user) ==
  /\ mergedInto[guest] = None
  /\ mergedInto' = [mergedInto EXCEPT ![guest] = user]
  /\ artifact' = [p \in Pids |->
                    IF p \in Published /\ artifact[p].owner = guest
                    THEN [artifact[p] EXCEPT !.owner = user]
                    ELSE artifact[p]]
  /\ UNCHANGED timeline

-----------------------------------------------------------------------------
\* Nothing is published, or proposals in their first state are.
Init ==
  /\ mergedInto = [u \in Users |-> None]
  /\ artifact \in [Pids -> [version : {1}, owner : Users, name : Names,
                            member : Member] \cup {None}]
  /\ timeline = [p \in Pids |->
                   IF artifact[p] = None THEN <<>>
                   ELSE <<Made(artifact[p].owner, "published")>>]

Next ==
  \/ \E p \in Pids, name \in Names, member \in Member :
       \/ \E user \in Users : Publish(p, user, name, member)
       \/ Overwrite(p, name, member)
       \/ Recalculate(p, member)
  \/ \E guest \in Guests, user \in Users \ Guests : Merge(guest, user)

Spec == Init /\ [][Next]_vars
=============================================================================
