----------------------------- MODULE Engagement -----------------------------
(***************************************************************************)
(* What accounts leave on proposals: likes, comments and ownership, the     *)
(* merge that moves a guest's rows to the account it registered, the        *)
(* redemption of gate codes, and the system of all request threads          *)
(* (adapters/proposal/engagement_repository.py, api/proposal_engagement.py, *)
(* AuthRepository.merge_guest_into(), api/gate.py).                         *)
(***************************************************************************)
EXTENDS Accounts

CONSTANTS
  Proposals,
  MaxRedemptions,  \* max_redemptions of the gate code; 0 is unlimited
  StartOwner,      \* the user_id of each proposal at the start
  StartLikes,      \* the likes at the start
  StartComments    \* and the comments

ASSUME MaxRedemptionsAssumption == MaxRedemptions \in Nat

VARIABLES
  likes,     \* proposals.likes: pairs of a proposal and a user
  comments,  \* proposals.comments, the row's number is comment_id
  owner,     \* proposals.proposals.user_id
  redeemed   \* rows of admin.access_code_redemptions of the code

rows == <<likes, comments, owner>>
vars == <<accountVars, rows, redeemed>>

Comment == [user : UserIds, deleted : BOOLEAN, editor : UserIds \cup {None}]

ASSUME StartRowsAssumption ==
  /\ StartOwner \in [Proposals -> UserIds]
  /\ StartLikes \subseteq Proposals \X UserIds
  /\ StartComments \in Seq(Comment)

-----------------------------------------------------------------------------
(* Row locks, read off the steps of the threads that hold them.            *)

\* A row of admin.users: the merge holds the guest's FOR UPDATE, and an
\* insert that refers to the user waits for it, as for a registration.
MergeSteps == {"move", "drop", "relike", "mark"}
MergeHasUser(v, u) == req[v].at \in MergeSteps /\ req[v].guest = u
Renaming(u) == \E v \in Workers : Renames(v, u)
NobodyHolds(u) == FALSE
UserHeld(u) == \E v \in Workers : MergeHasUser(v, u) \/ Renames(v, u)

\* The account of a merge that has moved rows to it; a registration waits.
MergeHasRows == {"drop", "relike", "mark"}
RefersTo(v, u) ==
  /\ req[v].at \in MergeHasRows /\ req[v].user = u
  /\ \/ \E p \in Proposals : owner[p] = req[v].guest
     \/ At(v, "mark") /\ req[v].held # {}

\* Mutant: the request has locked the row on another connection of its own,
\* which is no circle to the database.
HeldTwice(p) == \E v \in Workers : req[v].at \in {"lock", "log"} /\ req[v].item = p

\* A row of proposals: an overwrite that has it FOR UPDATE, or a merge past
\* its first UPDATE.
OverwriteHolds(p) == \E v \in Workers : At(v, "log") /\ req[v].item = p
MergeHolds(p) ==
  \E v \in Workers :
    req[v].at \in MergeHasRows /\ owner[p] = req[v].guest

\* A like: a merge that has deleted the guest's copy, or has moved it (which
\* also keeps the target from inserting its own until the merge ends).
Dropped(v) == IF req[v].at \in {"relike", "mark"} THEN req[v].seen ELSE {}
Moved(v) == IF At(v, "mark") THEN req[v].held ELSE {}
HoldsLike(v, p, u) ==
  \/ req[v].guest = u /\ p \in Dropped(v) \cup Moved(v)
  \/ req[v].user = u /\ p \in Moved(v)
LikeHeld(p, u) == \E v \in Workers : HoldsLike(v, p, u)

LikedBy(u) == {p \in Proposals : <<p, u>> \in likes}

-----------------------------------------------------------------------------
(* merge_guest_into(), after the verification of the account `user`: lock  *)
(* the guest's row and look at it; move proposals and feedback; drop the   *)
(* likes the account has too; move the others; move the comments and mark  *)
(* the guest.  The writes become visible with the last step.               *)

AnyGuest(g) == IsGuest(g)
StillGuest(g) == IsGuest(g) /\ users[g].merged = None

MergeLock(w) ==
  /\ At(w, "merge") /\ ~UserHeld(req[w].guest)
  /\ IF StillGuest(req[w].guest) THEN Go(w, "move") ELSE End(w)
  /\ UNCHANGED <<tables, started, rows, redeemed>>

MoveProposals(w) ==
  /\ At(w, "move")
  /\ \A p \in Proposals :
       owner[p] = req[w].guest => ~OverwriteHolds(p) /\ ~Renaming(req[w].user)
  /\ Go(w, "drop")
  /\ UNCHANGED <<tables, started, rows, redeemed>>

DropLikes(w) ==
  /\ At(w, "drop")
  /\ req' = [req EXCEPT ![w].at = "relike",
               ![w].seen = LikedBy(req[w].guest) \cap LikedBy(req[w].user)]
  /\ UNCHANGED <<tables, started, rows, redeemed>>

\* A like the account added since the last statement breaks the UNIQUE
\* constraint: the merge is rolled back and verify() goes on without it.
MoveLikes(w) ==
  /\ At(w, "relike")
  /\ LET rest == LikedBy(req[w].guest) \ req[w].seen
     IN  /\ rest # {} => ~Renaming(req[w].user)
         /\ IF rest \cap LikedBy(req[w].user) = {}
            THEN req' = [req EXCEPT ![w].at = "mark", ![w].held = rest]
            ELSE End(w)
  /\ UNCHANGED <<tables, started, rows, redeemed>>

MarkMerged(w) ==
  /\ At(w, "mark") /\ ~Renaming(req[w].user)
  /\ LET g == req[w].guest
         u == req[w].user
     IN  /\ likes' = (likes \ {<<p, g>> : p \in req[w].seen \cup req[w].held})
                       \cup {<<p, u>> : p \in req[w].held}
         /\ owner' = [p \in Proposals |-> IF owner[p] = g THEN u ELSE owner[p]]
         /\ comments' = [c \in DOMAIN comments |->
                           IF comments[c].user = g
                           THEN [comments[c] EXCEPT !.user = u] ELSE comments[c]]
         /\ users' = [users EXCEPT ![g].merged = u]
  /\ End(w)
  /\ UNCHANGED <<codes, sessions, clock, started, redeemed>>

-----------------------------------------------------------------------------
(* Likes.  The identity is read when the request is accepted.              *)

Engage(w) ==
  \E u \in Identities, p \in Proposals, step \in {"like", "unlike", "comment"} :
    /\ Accept(w, step, [Free EXCEPT !.at = step, !.user = u, !.item = p])
    /\ UNCHANGED <<tables, rows, redeemed>>

\* INSERT ... ON CONFLICT DO NOTHING
AddLike(w) ==
  /\ At(w, "like") /\ ~UserHeld(req[w].user) /\ ~LikeHeld(req[w].item, req[w].user)
  /\ likes' = likes \cup {<<req[w].item, req[w].user>>}
  /\ End(w)
  /\ UNCHANGED <<tables, started, comments, owner, redeemed>>

RemoveLike(w) ==
  /\ At(w, "unlike") /\ ~LikeHeld(req[w].item, req[w].user)
  /\ likes' = likes \ {<<req[w].item, req[w].user>>}
  /\ End(w)
  /\ UNCHANGED <<tables, started, comments, owner, redeemed>>

-----------------------------------------------------------------------------
(* Comments.                                                               *)

AddComment(w) ==
  /\ At(w, "comment") /\ ~UserHeld(req[w].user)
  /\ comments' = Append(comments,
                   [user |-> req[w].user, deleted |-> FALSE, editor |-> None])
  /\ End(w)
  /\ UNCHANGED <<tables, started, likes, owner, redeemed>>

\* PATCH and DELETE: look at the comment, then write it in a transaction
\* whose statement names nothing but the comment.
Change(w) ==
  \E u \in Identities, c \in DOMAIN comments, step \in {"may edit", "may delete"} :
    /\ Accept(w, "change", [Free EXCEPT !.at = step, !.user = u, !.item = c])
    /\ UNCHANGED <<tables, rows, redeemed>>

StillThere(c, u) == ~comments[c].deleted
MayChange(c, u) == ~comments[c].deleted /\ comments[c].user = u

AuthorizeComment(w) ==
  /\ req[w].at \in {"may edit", "may delete"}
  /\ IF MayChange(req[w].item, req[w].user)
     THEN Go(w, IF At(w, "may edit") THEN "edit" ELSE "delete")
     ELSE End(w)
  /\ UNCHANGED <<tables, started, rows, redeemed>>

EditComment(w) ==
  /\ At(w, "edit")
  /\ comments' = [comments EXCEPT ![req[w].item].editor = req[w].user]
  /\ End(w)
  /\ UNCHANGED <<tables, started, likes, owner, redeemed>>

DeleteComment(w) ==
  /\ At(w, "delete")
  /\ comments' = [comments EXCEPT ![req[w].item].deleted = TRUE,
                                  ![req[w].item].editor = req[w].user]
  /\ End(w)
  /\ UNCHANGED <<tables, started, likes, owner, redeemed>>

-----------------------------------------------------------------------------
(* An overwrite of a proposal, for its locks: the row FOR UPDATE and the   *)
(* owner check, then the timeline row that references the user.            *)

Overwrite(w) ==
  \E u \in Identities, p \in Proposals :
    /\ Accept(w, "overwrite", [Free EXCEPT !.at = "lock", !.user = u, !.item = p])
    /\ UNCHANGED <<tables, rows, redeemed>>

LockForOverwrite(w) ==
  /\ At(w, "lock") /\ ~OverwriteHolds(req[w].item) /\ ~MergeHolds(req[w].item)
  /\ IF owner[req[w].item] = req[w].user THEN Go(w, "log") ELSE End(w)
  /\ UNCHANGED <<tables, started, rows, redeemed>>

WriteLog(w) ==
  /\ At(w, "log") /\ ~UserHeld(req[w].user)
  /\ End(w)
  /\ UNCHANGED <<tables, started, rows, redeemed>>

\* Who waits for whom, by the step the first is at.
WaitsFor(w, v) ==
  LET r == req[w]
  IN  \/ r.at = "replace" /\ StoreWaits(w, v)
      \/ r.at = "register" /\ (RegisterWaits(w, v) \/ RefersTo(v, r.user))
      \/ r.at \in {"use", "consume"} /\ TokenHeld(r.code, v)
      \/ r.at \in {"confirm", "mark"} /\ Renames(v, r.user)
      \/ r.at = "insert" /\ NameHeld(r.name, v)
      \/ r.at = "merge" /\ (MergeHasUser(v, r.guest) \/ Renames(v, r.guest))
      \/ /\ r.at = "move"
         /\ \E p \in Proposals :
              /\ owner[p] = r.guest
              /\ (At(v, "log") /\ req[v].item = p) \/ Renames(v, r.user)
      \/ /\ r.at = "relike" /\ Renames(v, r.user)
         /\ LikedBy(r.guest) \ r.seen # {}
      \/ r.at \in {"like", "comment", "log"} /\ (MergeHasUser(v, r.user) \/ Renames(v, r.user))
      \/ r.at \in {"like", "unlike"} /\ HoldsLike(v, r.item, r.user)
      \/ /\ r.at = "lock"
         /\ \/ At(v, "log") /\ req[v].item = r.item
            \/ req[v].at \in MergeHasRows /\ owner[r.item] = req[v].guest

\* Threads that wait for each other in a circle: PostgreSQL fails the
\* transaction of one of them.
Entangled(D) == D # {} /\ \A w \in D : \E v \in D : WaitsFor(w, v)
Circle(D) == Entangled(D) /\ \A E \in SUBSET D : Entangled(E) => E = D
Deadlock ==
  \E D \in SUBSET Workers :
    /\ Circle(D)
    /\ \E w \in D : End(w)
    /\ UNCHANGED <<tables, started, rows, redeemed>>

-----------------------------------------------------------------------------
(* POST /api/gate/redeem: count, then insert, each committed by itself.    *)

Admits(n) == MaxRedemptions = 0 \/ n < MaxRedemptions

Redeem(w) ==
  /\ Admits(redeemed)
  /\ Accept(w, "redeem", [Free EXCEPT !.at = "redeem"])
  /\ UNCHANGED <<tables, rows, redeemed>>

InsertRedemption(w) ==
  /\ At(w, "redeem")
  /\ redeemed' = redeemed + 1
  /\ End(w)
  /\ UNCHANGED <<tables, started, rows>>

-----------------------------------------------------------------------------
Init ==
  /\ AccountsInit
  /\ likes = StartLikes /\ comments = StartComments /\ owner = StartOwner
  /\ redeemed = 0

MergeStep(w) ==
  MergeLock(w) \/ MoveProposals(w) \/ DropLikes(w) \/ MoveLikes(w) \/ MarkMerged(w)

EngagementStep(w) ==
  \/ AddLike(w) \/ RemoveLike(w) \/ AddComment(w)
  \/ AuthorizeComment(w) \/ EditComment(w) \/ DeleteComment(w)
  \/ LockForOverwrite(w) \/ WriteLog(w) \/ InsertRedemption(w)

\* What a thread does to finish the request it has.
Step(w) ==
  \/ /\ AccountStep(w) /\ UNCHANGED <<rows, redeemed>>
     /\ At(w, "register") => \A v \in Workers : ~RefersTo(v, req[w].user)
  \/ MergeStep(w)
  \/ EngagementStep(w)

Next ==
  \/ \E w \in Workers :
       \/ AccountRequest(w) /\ UNCHANGED <<rows, redeemed>>
       \/ Engage(w) \/ Change(w) \/ Overwrite(w) \/ Redeem(w)
       \/ Step(w)
       \/ Raises(w) /\ UNCHANGED <<rows, redeemed>>
  \/ Expire /\ UNCHANGED <<rows, redeemed>>
  \/ Deadlock

Spec == Init /\ [][Next]_vars

\* Threads run, a lock that is free again and again is granted, and the
\* database resolves deadlocks.
Fairness ==
  /\ \A w \in Workers : SF_vars(Step(w))
  /\ WF_vars(Deadlock)
FairSpec == Spec /\ Fairness

-----------------------------------------------------------------------------
(* Properties.                                                             *)

EngagementTypeOK ==
  /\ AccountsTypeOK
  /\ likes \subseteq Proposals \X UserIds
  /\ comments \in Seq(Comment)
  /\ owner \in [Proposals -> UserIds]
  /\ redeemed \in 0 .. MaxRequests

\* Counting before inserting lets a gate code be redeemed too often only by
\* the threads that counted together.
RedemptionsRaced ==
  MaxRedemptions > 0 => redeemed <= MaxRedemptions + Cardinality(Workers) - 1

\* Codes, sessions, names and redemptions: each of the four limits is checked
\* in one statement and used up in another, and gives way only to requests
\* that were checked at the same time, never to one after the other.
LimitsYieldToRacesOnly ==
  /\ EngagementTypeOK
  /\ LiveCodesRaced /\ SessionsRaced /\ NamesRaced /\ RedemptionsRaced

\* When a guest becomes merged, nothing is left under its name: no request
\* of the guest slips a row in between the statements of the merge.
MergeTakesAll ==
  [][\A g \in DOMAIN users :
       users[g].merged = None /\ users'[g].merged # None =>
         /\ \A p \in Proposals : owner'[p] # g /\ <<p, g>> \notin likes'
         /\ \A c \in DOMAIN comments' : comments'[c].user # g]_vars

\* A comment is changed by its author only, though whose comment it is may
\* have moved with a merge since the author was checked.
AuthorsChange ==
  [][\A c \in DOMAIN comments :
       comments'[c].editor # comments[c].editor =>
         LET u == comments'[c].editor
         IN  comments[c].user \in {u, users[u].merged}]_vars

\* Every request ends: whatever a thread waits for is released.
RequestsEnd == \A w \in Workers : []<>At(w, "free")
=============================================================================
