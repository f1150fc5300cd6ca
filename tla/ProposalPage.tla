---------------------------- MODULE ProposalPage ----------------------------
(***************************************************************************)
(* The proposal page (ProposalViewport.vue): what is asked, what is shown,  *)
(* the family it is served from, and the proposal it is stored as.          *)
(*                                                                         *)
(* The stored side is the API as the page sees it: a publish commits or is  *)
(* refused, and its answer may be lost.  The scenario is left out (nothing  *)
(* of it is stored), and so are the Details inputs; How is the expert       *)
(* timetable and the fixed night, which a look at another member keeps.     *)
(***************************************************************************)
EXTENDS FamilyClient, Integers, Sequences, FiniteSets

CONSTANTS
  Default,        \* the composition the backend presents when none is asked
  Broken,         \* itinerary and composition pairs whose member is an error
  HasCandidates,  \* itineraries with stops to suggest along the way
  AtRest,         \* How without overrides
  Openings,       \* how the page is opened: "builder", "own", "other"
  Hurries,        \* whether the user acts while the page waits for an answer
  Failing,        \* requests that may fail: "build", "views", "load", "publish", "answer"
  MaxTurns        \* bound: changes of an input and failed requests, together

ASSUME PageAssumption ==
  /\ Default \in Composition
  /\ AtRest \in How
  /\ Broken \subseteq Itinerary \X Composition
  /\ HasCandidates \subseteq Itinerary
  /\ Itinerary # {}
  /\ Hurries \subseteq BOOLEAN
  /\ None \notin Nat \cup Document

VARIABLES
  page,      \* the builder: mode, inputs, the plan on screen and its views
  session,   \* whose proposal it is and where it is stored, as the page knows
  saver,     \* the debounce, the gate and the publish requests out
  stored,    \* the proposals of the server
  budget     \* edits and failures so far, and whether the user hurries

page_vars == <<page, session, saver, stored, budget>>
vars == <<page_vars, family_vars>>

Plan == [stops : Itinerary, how : How, comp : Composition]

PageState ==
  [mode : {"edit", "loading", "suggest", "display"},
   asked : [stops : Itinerary \cup {None}, how : How, comp : Composition \cup {None}],
   plan : Plan \cup {None}, base : Plan \cup {None}, views : Plan \cup {None},
   last : [stops : Itinerary, flavour : Flavour] \cup {None},
   toast : BOOLEAN, load : {"none", "out", "failed"}]

SessionState ==
  [props : Nat \cup {None}, published : Nat \cup {None},
   ownership : {"unknown", "own", "other"},
   saved : Composition \cup {None}, signed : BOOLEAN]

PublishRequest ==
  [n : Nat, mode : {"new", "overwrite", "copy"}, plan : Plan, pid : Nat \cup {None},
   silent : BOOLEAN, first : BOOLEAN, phase : {"sent", "done", "failed"}]

SaverState ==
  [timer : BOOLEAN, pending : BOOLEAN, saving : BOOLEAN, out : SUBSET PublishRequest]

StoredRow == [mine : BOOLEAN, plan : Plan, by : {"before", "new", "copy"}]

Budget == [edits : Nat, failures : Nat, hurry : BOOLEAN]

PageTypeOK ==
  /\ FamilyTypeOK
  /\ page \in PageState
  /\ session \in SessionState
  /\ saver \in SaverState
  /\ IsFiniteSet(saver.out)
  /\ stored \in Seq(StoredRow)
  /\ budget \in Budget

-----------------------------------------------------------------------------
(* What the page derives                                                    *)

\* isDirty: the itinerary has left the evaluated one.
DirtyIn(p) == p.plan # None /\ p.asked.stops # p.plan.stops
Dirty == DirtyIn(page)

PlanOf(key, comp) == [stops |-> key.stops, how |-> key.how, comp |-> comp]

\* memberPlanFor() finds an ok member.
Ok(key, comp) == <<key.stops, comp>> \notin Broken

\* selectionSaveNeeded()
SaveNeeded(p, s) ==
  /\ session.ownership = "own" /\ session.published # None
  /\ ~DirtyIn(p)
  /\ p.mode # "loading" /\ ~s.saving
  /\ p.asked.comp # None /\ p.asked.comp # session.saved

\* The panel of a failed load replaces every control.
AtTheControls == page.load # "failed" /\ (budget.hurry \/ ~saver.saving)

TurnsLeft == budget.edits + budget.failures < MaxTurns
Edit == TurnsLeft /\ budget' = [budget EXCEPT !.edits = @ + 1]
Fails(kind) ==
  kind \in Failing /\ TurnsLeft /\ budget' = [budget EXCEPT !.failures = @ + 1]

-----------------------------------------------------------------------------
(* Publishing                                                               *)

\* doPublish(): someone else's proposal is copied, the session's own overwritten.
Copying == session.ownership = "other" /\ session.props # None

\* Mutant: what the page holds an id of is overwritten.
SaveModeById == IF session.published # None THEN "overwrite" ELSE "new"

SaveMode ==
  IF Copying THEN "copy" ELSE IF session.published # None THEN "overwrite" ELSE "new"

\* Two requests out are two requests, though they ask the same.
Unused(out) == CHOOSE n \in 1 .. 1 + Cardinality(out) : \A s \in out : s.n # n

Saving(s, plan, silent) ==
  [s EXCEPT !.saving = TRUE,
            !.out = @ \cup {[n |-> Unused(@), mode |-> SaveMode, plan |-> plan,
                             pid |-> session.published, silent |-> silent,
                             first |-> session.published = None \/ Copying,
                             phase |-> "sent"]}]

\* applyPlan(): a visitor who has not chosen an identity meets the gate first.
Publish(s, plan) ==
  IF session.signed THEN Saving(s, plan, FALSE) ELSE [s EXCEPT !.pending = TRUE]

-----------------------------------------------------------------------------
(* A document at hand: show its member, offer its stops, or report its error *)

\* A bundle that is cached needs no request.
Fetching(doc, plan) ==
  IF doc = None \/ Cached(doc.key, plan.comp) THEN {}
  ELSE {[key |-> doc.key, composition |-> plan.comp, latest |-> TRUE, stale |-> FALSE]}

\* Mutant: no token.
ViewsAnyTime(doc, plan, fs) == fs \cup Fetching(doc, plan)

\* loadViews(): older fetches have lost the token.
ViewsFrom(doc, plan, fs) == {[f EXCEPT !.latest = FALSE] : f \in fs} \cup Fetching(doc, plan)

\* applyPlan() with a member of doc, whose views are not in it.
Shown(pg, doc, plan) ==
  [pg EXCEPT !.mode = "display", !.plan = plan, !.asked = plan,
             !.views = IF doc # None /\ Cached(doc.key, plan.comp) THEN plan ELSE None]

ShowPlan(pg, sv, doc, plan, fs, publish) ==
  /\ page' = Shown(pg, doc, plan)
  /\ fetches' = ViewsFrom(doc, plan, fs)
  /\ saver' = IF publish THEN Publish(sv, plan) ELSE sv

\* What the caller of requestPlan() does with the document.
Continue(pg, sv, doc, purpose, fs) ==
  LET comp == IF pg.asked.comp = None THEN doc.presented ELSE pg.asked.comp
      plan == PlanOf(doc.key, comp)
      offers == /\ purpose = "evaluate"
                /\ comp = doc.presented
                /\ doc.key.stops \in HasCandidates
  IN \/ /\ purpose = "background"
        /\ page' = pg /\ saver' = sv /\ fetches' = fs
     \/ /\ purpose # "background" /\ ~Ok(doc.key, comp)
        /\ page' = [pg EXCEPT !.mode = "edit", !.toast = TRUE]
        /\ saver' = sv /\ fetches' = fs
     \/ /\ Ok(doc.key, comp) /\ offers
        /\ page' = [pg EXCEPT !.mode = "suggest", !.base = plan]
        /\ saver' = sv /\ fetches' = fs
     \/ /\ purpose # "background" /\ Ok(doc.key, comp) /\ ~offers
        /\ ShowPlan(pg, sv, doc, plan, fs,
                    purpose = "recompute" => session.ownership = "own")

\* requestFamily(): start() answers from what it has or sends a request.
Request(pg, sv, key, purpose) ==
  LET comp == IF pg.asked.comp = None THEN Default ELSE pg.asked.comp
      asking == [pg EXCEPT !.mode = "loading",
                           !.last = [stops |-> key.stops, flavour |-> key.flavour]]
  IN \/ /\ ~Held(key)
        /\ StartFamily(key, comp, purpose)
        /\ page' = asking /\ saver' = sv
     \/ /\ Held(key) /\ family.document = None
        /\ page' = asking /\ saver' = sv
        /\ UNCHANGED family_vars
     \/ /\ Held(key) /\ family.document # None
        /\ Continue(asking, sv, family.document, purpose, fetches)
        /\ UNCHANGED <<family, builds, cache>>

KeyFor(stops, flavour) == [stops |-> stops, how |-> page.asked.how, flavour |-> flavour]

-----------------------------------------------------------------------------
(* The user                                                                 *)

\* Add, remove or move a stop.  The itinerary becomes dirty: watch(isDirty).
EditStops(stops) ==
  LET edited == [page EXCEPT !.mode = "edit", !.asked.stops = stops]
      leaves == ~Dirty /\ DirtyIn(edited)
  IN /\ AtTheControls /\ page.mode \in {"edit", "display"}
     /\ stops # page.asked.stops /\ Edit
     /\ page' = edited
     /\ IF leaves THEN ResetFamily ELSE UNCHANGED family_vars
     /\ saver' = IF leaves THEN [saver EXCEPT !.timer = FALSE] ELSE saver
     /\ UNCHANGED <<session, stored>>

StartEdit ==
  /\ AtTheControls /\ page.mode = "display"
  /\ page' = [page EXCEPT !.mode = "edit"]
  /\ UNCHANGED <<session, saver, stored, budget, family_vars>>

\* Back to the plan on screen.  Its overrides stand for those committed with it.
CancelEdit ==
  /\ AtTheControls /\ page.mode = "edit" /\ page.plan # None
  /\ page' = [page EXCEPT !.mode = "display", !.asked = page.plan]
  /\ UNCHANGED <<session, saver, stored, budget, family_vars>>

\* The expert timetable or the night, over the computed one.
ChangeHow(how) ==
  /\ AtTheControls /\ page.mode = "display" /\ how # page.asked.how /\ Edit
  /\ page' = [page EXCEPT !.asked.how = how]
  /\ UNCHANGED <<session, saver, stored, family_vars>>

\* applyMemberFromFamily(): a look at another member, saved once the selection rests.
Look(comp) ==
  LET doc == family.document
      plan == PlanOf(doc.key, comp)
      shown == Shown(page, doc, plan)
  IN /\ page' = [shown EXCEPT !.asked.how = page.asked.how]
     /\ fetches' = ViewsFrom(doc, plan, fetches)
     /\ saver' = [saver EXCEPT !.timer = SaveNeeded(shown, saver)]
     /\ UNCHANGED <<family, builds, cache>>

\* The supply table.  Without a member the selection only marks the figures stale.
PickComposition(comp) ==
  LET doc == family.document
      served == /\ comp # page.plan.comp
                /\ ~Dirty /\ doc # None
                /\ doc # None => Ok(doc.key, comp)
  IN /\ AtTheControls /\ page.mode \in {"edit", "display"} /\ page.plan # None
     /\ comp # page.asked.comp /\ Edit
     /\ \/ served /\ Look(comp)
        \/ /\ ~served
           /\ page' = [page EXCEPT !.asked.comp = comp]
           /\ UNCHANGED <<saver, family_vars>>
     /\ UNCHANGED <<session, stored>>

\* The Evaluate button.
Evaluate ==
  /\ AtTheControls /\ page.mode = "edit" /\ page.asked.stops # None
  /\ page.plan = None \/ Dirty
  /\ Request([page EXCEPT !.toast = FALSE], saver,
             KeyFor(page.asked.stops, "suggest"), "evaluate")
  /\ UNCHANGED <<session, stored, budget>>

\* The Recalculate control over stale results.
Recalculate ==
  /\ AtTheControls /\ page.mode \in {"edit", "display"}
  /\ page.plan # None /\ ~Dirty /\ page.asked # page.plan
  /\ Request([page EXCEPT !.toast = FALSE], [saver EXCEPT !.timer = FALSE],
             KeyFor(page.asked.stops, "off"), "recompute")
  /\ UNCHANGED <<session, stored, budget>>

\* Continue out of suggest mode with no stop taken and none removed ...
ConfirmNone ==
  /\ AtTheControls /\ page.mode = "suggest"
  /\ ShowPlan([page EXCEPT !.base = None], saver, family.document, page.base, fetches, TRUE)
  /\ UNCHANGED <<session, stored, budget, family, builds, cache>>

\* ... or with other stops.
ConfirmStops(stops) ==
  /\ AtTheControls /\ page.mode = "suggest" /\ stops # page.base.stops /\ Edit
  /\ Request([page EXCEPT !.base = None, !.asked.stops = stops], saver,
             KeyFor(stops, "off"), "settle")
  /\ UNCHANGED <<session, stored>>

\* Back to edit.
CancelSuggest ==
  /\ AtTheControls /\ page.mode = "suggest"
  /\ page' = [page EXCEPT !.mode = "edit", !.base = None]
  /\ UNCHANGED <<session, saver, stored, budget, family_vars>>

\* Retry in the toast replays the stops and the flavour of the last request.
Retry ==
  /\ AtTheControls /\ page.toast
  /\ Request([page EXCEPT !.toast = FALSE], saver,
             KeyFor(page.last.stops, page.last.flavour), "retry")
  /\ UNCHANGED <<session, stored, budget>>

\* Cancel beside the spinner.
Cancel ==
  /\ page.mode = "loading" /\ page.load # "failed"
  /\ page' = [page EXCEPT !.mode = "edit"]
  /\ AbortFamily
  /\ UNCHANGED <<session, saver, stored, budget>>

\* An identity is chosen.  A plan that waited at the gate is published.
SignIn ==
  /\ ~session.signed
  /\ budget.hurry \/ page.mode # "loading"
  /\ session' = [session EXCEPT !.signed = TRUE]
  /\ saver' = IF saver.pending
                THEN Saving([saver EXCEPT !.pending = FALSE], page.plan, FALSE)
                ELSE saver
  /\ UNCHANGED <<page, stored, budget, family_vars>>

-----------------------------------------------------------------------------
(* Answers and the timer                                                    *)

BuildAnswers(b) ==
  /\ b \in builds
  /\ HoldDocument(b)
  /\ Continue(page, saver, DocumentOf(b), b.purpose, Disown(fetches))
  /\ UNCHANGED <<session, stored, budget>>

BuildFails(b) ==
  /\ b \in builds /\ Fails("build")
  /\ HoldFailure(b)
  /\ page' = IF b.purpose = "background" THEN page
             ELSE [page EXCEPT !.mode = "edit", !.toast = TRUE]
  /\ UNCHANGED <<session, saver, stored>>

\* views(): an answer for a document no longer held is dropped; the others are
\* cached, and land when no later loadViews() has taken the token.
ViewsAnswer(f) ==
  /\ f \in fetches
  /\ fetches' = fetches \ {f}
  /\ \/ f.stale /\ UNCHANGED <<page, cache>>
     \/ /\ ~f.stale
        /\ cache' = cache \cup {[key |-> f.key, composition |-> f.composition]}
        /\ page' = IF f.latest THEN [page EXCEPT !.views = PlanOf(f.key, f.composition)]
                   ELSE page
  /\ UNCHANGED <<session, saver, stored, budget, family, builds>>

ViewsFail(f) ==
  /\ f \in fetches /\ Fails("views")
  /\ fetches' = fetches \ {f}
  /\ UNCHANGED <<page, session, saver, stored, family, builds, cache>>

\* loadStoredProposal(): the stored plan with its views, then its family behind it.
\* What an applyPlan() before it left in flight keeps its token.
LoadAnswers ==
  LET row == stored[session.props]
      key == [stops |-> row.plan.stops, how |-> row.plan.how, flavour |-> "background"]
  IN /\ page.load = "out"
     /\ page' = [page EXCEPT !.load = "none", !.mode = "display", !.plan = row.plan,
                             !.asked = row.plan, !.views = row.plan]
     /\ session' = [session EXCEPT !.published = session.props,
                      !.saved = row.plan.comp,
                      !.ownership = IF session.signed /\ row.mine THEN "own" ELSE "other"]
     /\ IF Held(key) THEN UNCHANGED family_vars
        ELSE StartFamily(key, row.plan.comp, "background")
     /\ UNCHANGED <<saver, stored, budget>>

LoadFails ==
  /\ page.load = "out" /\ Fails("load")
  /\ page' = [page EXCEPT !.load = "failed"]
  /\ UNCHANGED <<session, saver, stored, family_vars>>

RetryLoad ==
  /\ page.load = "failed"
  /\ page' = [page EXCEPT !.load = "out", !.mode = "loading"]
  /\ session' = [session EXCEPT !.ownership = "unknown"]
  /\ UNCHANGED <<saver, stored, budget, family_vars>>

\* The debounce elapses.  The rule is asked again.
TimerFires ==
  /\ saver.timer
  /\ LET off == [saver EXCEPT !.timer = FALSE]
     IN saver' = IF SaveNeeded(page, saver) THEN Saving(off, page.plan, TRUE) ELSE off
  /\ UNCHANGED <<page, session, stored, budget, family_vars>>

-----------------------------------------------------------------------------
(* The server                                                               *)

Moved(s, changes) == [saver EXCEPT !.out = (@ \ {s}) \cup {changes}]

Commit(s) ==
  /\ s \in saver.out /\ s.phase = "sent"
  /\ \/ /\ s.mode = "overwrite" /\ stored[s.pid].mine
        /\ stored' = [stored EXCEPT ![s.pid].plan = s.plan]
        /\ saver' = Moved(s, [s EXCEPT !.phase = "done"])
     \/ /\ s.mode # "overwrite"
        /\ stored' = Append(stored, [mine |-> TRUE, plan |-> s.plan, by |-> s.mode])
        /\ saver' = Moved(s, [s EXCEPT !.phase = "done", !.pid = Len(stored) + 1])
     \/ /\ s.mode = "overwrite" /\ ~stored[s.pid].mine
        /\ saver' = Moved(s, [s EXCEPT !.phase = "failed"])
        /\ UNCHANGED stored
  /\ UNCHANGED <<page, session, budget, family_vars>>

\* The request is refused, or its answer is lost.
PublishFails(s) ==
  /\ s \in saver.out
  /\ \/ s.phase = "sent" /\ Fails("publish")
     \/ s.phase = "done" /\ Fails("answer")
  /\ saver' = Moved(s, [s EXCEPT !.phase = "failed"])
  /\ UNCHANGED <<page, session, stored, family_vars>>

\* Mutant: the id of the stored proposal is not kept.
AdoptedNameless(s) ==
  [session EXCEPT !.ownership = "own", !.saved = s.plan.comp,
                  !.props = IF s.first /\ @ = None THEN s.pid ELSE @]

\* Mutant: the composition on screen counts as the stored one.
AdoptedOnScreen(s) ==
  [session EXCEPT !.published = s.pid, !.ownership = "own", !.saved = page.asked.comp,
                  !.props = IF s.first /\ @ = None THEN s.pid ELSE @]

\* doPublish() after its await.  onPublished() only leaves the builder's address.
Adopted(s) ==
  [session EXCEPT !.published = s.pid, !.ownership = "own", !.saved = s.plan.comp,
                  !.props = IF s.first /\ @ = None THEN s.pid ELSE @]

PublishAnswers(s) ==
  /\ s \in saver.out /\ s.phase \in {"done", "failed"}
  /\ saver' = [saver EXCEPT !.out = @ \ {s}, !.saving = FALSE]
  /\ session' = IF s.phase = "done" THEN Adopted(s) ELSE session
  /\ UNCHANGED <<page, stored, budget, family_vars>>

-----------------------------------------------------------------------------

Unasked == [stops |-> None, how |-> AtRest, comp |-> None]

Opened(opening) ==
  /\ stored = IF opening = "builder" THEN <<>>
              ELSE <<[mine |-> opening = "own", by |-> "before",
                      plan |-> [stops |-> CHOOSE i \in Itinerary : TRUE, how |-> AtRest,
                                comp |-> Default]]>>
  /\ page = [mode |-> IF opening = "builder" THEN "edit" ELSE "loading",
             asked |-> Unasked, plan |-> None, base |-> None, views |-> None,
             last |-> None, toast |-> FALSE,
             load |-> IF opening = "builder" THEN "none" ELSE "out"]
  /\ session \in [props : {IF opening = "builder" THEN None ELSE 1}, published : {None},
                  ownership : {"unknown"}, saved : {None}, signed : BOOLEAN]

Init ==
  /\ \E opening \in Openings : Opened(opening)
  /\ saver = [timer |-> FALSE, pending |-> FALSE, saving |-> FALSE, out |-> {}]
  /\ budget \in [edits : {0}, failures : {0}, hurry : Hurries]
  /\ family = NoFamily /\ builds = {} /\ fetches = {} /\ cache = {}

User ==
  \/ \E stops \in Itinerary : EditStops(stops) \/ ConfirmStops(stops)
  \/ \E how \in How : ChangeHow(how)
  \/ \E comp \in Composition : PickComposition(comp)
  \/ StartEdit \/ CancelEdit \/ Evaluate \/ Recalculate
  \/ ConfirmNone \/ CancelSuggest \/ Retry \/ Cancel \/ SignIn \/ RetryLoad

Answer ==
  \/ \E b \in builds : BuildAnswers(b) \/ BuildFails(b)
  \/ \E f \in fetches : ViewsAnswer(f) \/ ViewsFail(f)
  \/ LoadAnswers \/ LoadFails \/ TimerFires
  \/ \E s \in saver.out : Commit(s) \/ PublishFails(s) \/ PublishAnswers(s)

Next == User \/ Answer

Spec == Init /\ [][Next]_vars

-----------------------------------------------------------------------------

\* What is held, and what is on its way to being held, is the family asked for
\* last: an earlier request's document never lands over it, however late it is.
FamilyIsTheAskedOne ==
  /\ Cardinality(builds) <= 1
  /\ \A b \in builds : b.key = family.key /\ family.document = None
  /\ family.document # None => family.document.key = family.key

\* The six views on screen are the shown member's, in whatever order the
\* fetches of the members looked at in passing come back.
ViewsFitTheMember == page.views # None => page.views = page.plan

\* No publish of this page asks to overwrite a proposal of someone else: not
\* after a copy, a retry, a load that came late or an identity chosen late.
StrangersWorkStands ==
  \A s \in saver.out : s.mode = "overwrite" => stored[s.pid].mine

Created(kind) == {pid \in DOMAIN stored : stored[pid].by = kind}

\* A session whose user waits for each save makes one proposal, and one copy of
\* the one it opened, and one more for each request that failed: behind a lost
\* answer there is one, and the others are not told apart.
OneProposalPerSession ==
  ~budget.hurry =>
    \A kind \in {"new", "copy"} : Cardinality(Created(kind)) <= 1 + budget.failures

\* What the page believes is stored is stored: the composition that a later
\* selection is compared with, once every save is answered and none was lost.
SavedTellsTheStore ==
  (~budget.hurry /\ budget.failures = 0 /\ saver.out = {} /\ session.ownership = "own")
    => session.saved = stored[session.published].plan.comp

\* selectionSave.ts: a selection that is saved by itself is "deliberately only
\* the composition".
OnlyTheCompositionIsSaved ==
  \A s \in saver.out :
    s.silent /\ s.phase = "sent" => s.plan.stops = stored[s.pid].plan.stops
=============================================================================
