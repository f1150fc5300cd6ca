--------------------------- MODULE ProposalPageProofs ---------------------------
(***************************************************************************)
(* The proposal page, proved for every set of itineraries, compositions    *)
(* and inputs, and any number of turns.  The page is two machines that     *)
(* share the plan on screen: the family it is served from (FrontKnown) and *)
(* the proposal it is stored as (BackKnown).  LoadKnown ties them to the   *)
(* load of a stored proposal, which can arrive in the middle of either;    *)
(* ForegroundKnown says that an answer which may publish is never awaited  *)
(* beside a publish, unless the user acts while the page waits.            *)
(***************************************************************************)
EXTENDS ProposalPage, FiniteSetTheorems, TLAPS

LastState == [stops : Itinerary, flavour : Flavour]

Foreground(b) == b.purpose # "background"

\* A fetch that may still land is one for the plan on screen.
FetchesFit(fs, plan) ==
  \A f \in fs : f.latest /\ ~f.stale => plan = PlanOf(f.key, f.composition)

\* One request at most, for the family named, and none beside its document.
FamilyKnown ==
  /\ \A a, b \in builds : a = b
  /\ \A b \in builds : b.key = family.key /\ family.document = None
  /\ family.document # None => family.document.key = family.key

\* What is on screen, and what is offered, is of the document held.
ScreenKnown ==
  /\ ViewsFitTheMember
  /\ FetchesFit(fetches, page.plan)
  /\ page.mode = "suggest" =>
       /\ family.document # None /\ page.base \in Plan
       /\ page.base = PlanOf(family.document.key, page.base.comp)

\* The toast replays a request that was made, never that of a load.
LastKnown ==
  page.toast \/ (\E b \in builds : Foreground(b)) =>
    page.last \in LastState /\ page.last.flavour # "background"

\* Nothing of a stored proposal's family is held, or asked for.
NoBackground ==
  /\ \A k \in Key : k.flavour = "background" => ~Held(k)
  /\ \A b \in builds : b.key.flavour # "background"

\* The stored proposal is there, and nobody's yet: no copy of it has been made.
NothingCopied ==
  /\ session.ownership # "other"
  /\ session.props \in DOMAIN stored
  /\ Created("copy") = {}
  /\ \A s \in saver.out : s.mode # "copy"

\* Until the load has been answered.
LoadKnown == page.load # "none" => NoBackground /\ NothingCopied

FrontKnown == FamilyKnown /\ ScreenKnown /\ LastKnown

-----------------------------------------------------------------------------

\* What waits at the gate or for the debounce is on screen.
WaitingKnown == saver.timer \/ saver.pending => page.plan \in Plan

\* The id the page holds is of a proposal of its own, or of the one it opened
\* and would copy.
SessionKnown ==
  /\ session.published # None =>
       /\ session.published \in DOMAIN stored
       /\ \/ stored[session.published].mine
          \/ session.ownership = "other" /\ session.props # None
  /\ session.ownership = "own" =>
       session.published # None /\ stored[session.published].mine

\* A publish request overwrites what is the session's own, and what it has
\* stored is.
OutKnown ==
  \A s \in saver.out :
    s.mode = "overwrite" \/ s.phase = "done" =>
      s.pid \in DOMAIN stored /\ stored[s.pid].mine

\* Nothing is published before an identity is chosen.
SignedFirst ==
  ~session.signed => saver.out = {} /\ ~saver.saving /\ session.ownership # "own"

\* A user who waits has one publish request out at a time, and none beside a
\* request whose answer may publish.
OneAtATime ==
  ~budget.hurry =>
    /\ \A s, t \in saver.out : s = t
    /\ ~saver.saving => saver.out = {}

ForegroundKnown ==
  ~budget.hurry =>
    \A b \in builds : Foreground(b) => page.mode = "loading" /\ ~saver.saving

\* Another proposal of this kind may still be made.
Open(kind) ==
  \/ kind = "new" /\ session.published = None
  \/ kind = "copy" /\ session.ownership = "other"
  \/ \E s \in saver.out : s.mode = kind

Answering(kind) == \E s \in saver.out : s.mode = kind /\ s.phase = "done"

\* What was made and cannot be known of was lost with an answer.
CountsKnown ==
  ~budget.hurry =>
    \A kind \in {"new", "copy"} :
      /\ Cardinality(Created(kind)) <= 1 + budget.failures
      /\ Open(kind) /\ ~Answering(kind) => Cardinality(Created(kind)) <= budget.failures

SavedKnown ==
  ~budget.hurry /\ budget.failures = 0 =>
    /\ SavedTellsTheStore
    /\ \A s \in saver.out :
         s.phase # "failed" /\ (s.phase = "done" => stored[s.pid].plan = s.plan)

BackKnown ==
  /\ SessionKnown /\ OutKnown /\ SignedFirst /\ OneAtATime
  /\ CountsKnown /\ SavedKnown

IInv ==
  /\ PageTypeOK /\ FrontKnown /\ LoadKnown
  /\ WaitingKnown /\ BackKnown /\ ForegroundKnown

-----------------------------------------------------------------------------
(* Publish requests.                                                        *)

\* There is always a number no request out has.
LEMMA UnusedIsNew ==
  ASSUME NEW out, IsFiniteSet(out)
  PROVE  Unused(out) \in Nat /\ \A s \in out : s.n # Unused(out)
  <1> DEFINE numbers == {s.n : s \in out}
             C == Cardinality(out)
             number == [s \in out |-> s.n]
  <1>1. C \in Nat BY FS_CardinalityType
  <1>2. IsFiniteSet(numbers) /\ Cardinality(numbers) <= C
    <2>1. number \in Surjection(out, numbers) BY DEF Surjection
    <2> HIDE DEF number, numbers
    <2> QED BY <2>1, FS_Surjection
  <1>3. Cardinality(1 .. 1 + C) = 1 + C
    <2>1. 1 \in Int /\ 1 + C \in Int /\ ~(1 > 1 + C) /\ (1 + C) - 1 + 1 = 1 + C BY <1>1
    <2> HIDE DEF C
    <2>2. Cardinality(1 .. 1 + C) = IF 1 > 1 + C THEN 0 ELSE (1 + C) - 1 + 1
      BY <2>1, FS_Interval
    <2> QED BY <2>1, <2>2
  <1>4. \E n \in 1 .. 1 + C : n \notin numbers
    <2> SUFFICES ASSUME 1 .. 1 + C \subseteq numbers PROVE FALSE OBVIOUS
    <2>1. Cardinality(1 .. 1 + C) <= Cardinality(numbers) BY <1>2, FS_Subset
    <2>2. Cardinality(numbers) \in Nat BY <1>2, FS_CardinalityType
    <2> HIDE DEF C, numbers
    <2> QED BY <1>1, <1>2, <1>3, <2>1, <2>2
  <1>5. \E n \in 1 .. 1 + C : \A s \in out : s.n # n BY <1>4
  <1>6. Unused(out) \in 1 .. 1 + C /\ \A s \in out : s.n # Unused(out) BY <1>5 DEF Unused
  <1> QED BY <1>1, <1>6

-----------------------------------------------------------------------------
(* The screen and the family it is served from.                             *)

LEMMA PlanOfType ==
  ASSUME NEW key \in Key, NEW comp \in Composition
  PROVE  PlanOf(key, comp) \in Plan /\ PlanOf(key, comp).comp = comp
  BY DEF PlanOf, Plan, Key

\* A member shown is what its views are of, and its fetch has the token.
LEMMA ShownFits ==
  ASSUME NEW pg \in PageState, NEW doc \in Document, NEW plan \in Plan,
         plan = PlanOf(doc.key, plan.comp), NEW fs \in SUBSET Fetch
  PROVE  /\ Shown(pg, doc, plan) \in PageState
         /\ Shown(pg, doc, plan).plan = plan
         /\ Shown(pg, doc, plan).asked = plan
         /\ Shown(pg, doc, plan).mode = "display"
         /\ Shown(pg, doc, plan).views # None => Shown(pg, doc, plan).views = plan
         /\ Shown(pg, doc, plan).last = pg.last
         /\ Shown(pg, doc, plan).load = pg.load
         /\ Shown(pg, doc, plan).toast = pg.toast
         /\ ViewsFrom(doc, plan, fs) \subseteq Fetch
         /\ FetchesFit(ViewsFrom(doc, plan, fs), plan)
  <1>1. plan \in [stops : Itinerary \cup {None}, how : How, comp : Composition \cup {None}]
    BY DEF Plan
  <1>2. (IF doc # None /\ Cached(doc.key, plan.comp) THEN plan ELSE None) \in {plan, None} OBVIOUS
  <1>3. Shown(pg, doc, plan) \in PageState BY <1>1, <1>2 DEF Shown, PageState
  <1>4. Fetching(doc, plan) \subseteq Fetch
    <2>1. doc.key \in Key /\ plan.comp \in Composition BY DEF Document, Plan
    <2>2. [key |-> doc.key, composition |-> plan.comp, latest |-> TRUE, stale |-> FALSE] \in Fetch
      BY <2>1 DEF Fetch
    <2> QED BY <2>2 DEF Fetching
  <1>5. \A f \in fs : [f EXCEPT !.latest = FALSE] \in Fetch /\ ~[f EXCEPT !.latest = FALSE].latest
    BY DEF Fetch
  <1>6. \A f \in Fetching(doc, plan) : plan = PlanOf(f.key, f.composition) BY DEF Fetching
  <1>7. ViewsFrom(doc, plan, fs) \subseteq Fetch BY <1>4, <1>5 DEF ViewsFrom
  <1>8. FetchesFit(ViewsFrom(doc, plan, fs), plan) BY <1>5, <1>6 DEF ViewsFrom, FetchesFit
  <1> QED BY <1>2, <1>3, <1>7, <1>8 DEF Shown, PageState

\* The page as an answer or a request of the family leaves it, next to how it was.
ScreenFollows(pg, doc, fs) ==
  /\ page' \in PageState /\ fetches' \subseteq Fetch
  /\ page'.views # None => page'.views = page'.plan
  /\ FetchesFit(fetches', page'.plan)
  /\ page'.last = pg.last /\ page'.load = pg.load
  /\ page'.plan = pg.plan \/ page'.plan \in Plan
  /\ page'.mode = "suggest" =>
       page' = pg \/ (page'.base \in Plan /\ page'.base = PlanOf(doc.key, page'.base.comp))

\* ... and what it leaves of the saver.
MayPublish(sv) ==
  saver' = sv \/ (page'.plan \in Plan /\ saver' = Publish(sv, page'.plan))

LEMMA ContinueFollows ==
  ASSUME NEW pg \in PageState, NEW sv, NEW doc \in Document, NEW purpose, NEW fs \in SUBSET Fetch,
         pg.views # None => pg.views = pg.plan,
         FetchesFit(fs, pg.plan),
         Continue(pg, sv, doc, purpose, fs)
  PROVE  /\ ScreenFollows(pg, doc, fs) /\ MayPublish(sv)
         /\ purpose = "background" => page' = pg /\ saver' = sv
         /\ page'.toast => pg.toast \/ purpose # "background"
  <1> DEFINE comp == IF pg.asked.comp = None THEN doc.presented ELSE pg.asked.comp
             plan == PlanOf(doc.key, comp)
             offers == purpose = "evaluate" /\ comp = doc.presented /\ doc.key.stops \in HasCandidates
  <1>1. comp \in Composition BY DEF PageState, Document
  <1>2. doc.key \in Key BY DEF Document
  <1>3. plan \in Plan /\ plan = PlanOf(doc.key, plan.comp) BY <1>1, <1>2, PlanOfType
  <1> HIDE DEF comp
  <1>4. CASE page' = pg /\ saver' = sv /\ fetches' = fs
    BY <1>4 DEF ScreenFollows, MayPublish
  <1>5. CASE /\ purpose # "background"
             /\ page' = [pg EXCEPT !.mode = "edit", !.toast = TRUE]
             /\ saver' = sv /\ fetches' = fs
    <2>1. /\ page' \in PageState /\ page'.views = pg.views /\ page'.plan = pg.plan
          /\ page'.last = pg.last /\ page'.load = pg.load /\ page'.mode # "suggest"
      BY <1>5 DEF PageState
    <2> QED BY <1>5, <2>1 DEF ScreenFollows, MayPublish
  <1>6. CASE /\ purpose = "evaluate"
             /\ page' = [pg EXCEPT !.mode = "suggest", !.base = plan]
             /\ saver' = sv /\ fetches' = fs
    <2>1. /\ page' \in PageState /\ page'.views = pg.views /\ page'.plan = pg.plan
          /\ page'.last = pg.last /\ page'.load = pg.load /\ page'.base = plan
          /\ page'.toast = pg.toast
      BY <1>3, <1>6 DEF PageState
    <2> QED BY <1>3, <1>6, <2>1 DEF ScreenFollows, MayPublish
  <1>7. CASE /\ purpose # "background"
             /\ ShowPlan(pg, sv, doc, plan, fs, purpose = "recompute" => session.ownership = "own")
    <2>1. page' = Shown(pg, doc, plan) /\ fetches' = ViewsFrom(doc, plan, fs)
      BY <1>7 DEF ShowPlan
    <2>2. saver' = sv \/ saver' = Publish(sv, plan) BY <1>7 DEF ShowPlan
    <2> HIDE DEF plan
    <2>3. /\ page' \in PageState /\ page'.plan = plan /\ page'.mode = "display"
          /\ page'.views # None => page'.views = plan
          /\ page'.last = pg.last /\ page'.load = pg.load /\ page'.toast = pg.toast
          /\ fetches' \subseteq Fetch /\ FetchesFit(fetches', plan)
      BY <1>3, <2>1, ShownFits
    <2> QED BY <1>3, <1>7, <2>2, <2>3 DEF ScreenFollows, MayPublish
  <1> QED BY <1>4, <1>5, <1>6, <1>7 DEF Continue, comp

LEMMA DisownedFit ==
  ASSUME NEW fs \in SUBSET Fetch, NEW plan
  PROVE  Disown(fs) \subseteq Fetch /\ FetchesFit(Disown(fs), plan)
  <1>1. \A f \in fs : [f EXCEPT !.stale = TRUE] \in Fetch /\ [f EXCEPT !.stale = TRUE].stale
    BY DEF Fetch
  <1> QED BY <1>1 DEF Disown, FetchesFit

\* A new request takes the place of the one before and of its document.
LEMMA StartKeeps ==
  ASSUME FamilyTypeOK, NEW key \in Key, NEW comp \in Composition, NEW purpose \in Purpose,
         StartFamily(key, comp, purpose), NEW plan
  PROVE  /\ FamilyTypeOK' /\ FamilyKnown' /\ FetchesFit(fetches', plan)
         /\ family'.document = None /\ family'.key = key
         /\ builds' = {[key |-> key, presented |-> comp, purpose |-> purpose]}
  <1>1. /\ family' = [status |-> "loading", key |-> key, document |-> None]
        /\ builds' = {[key |-> key, presented |-> comp, purpose |-> purpose]}
        /\ cache' = {} /\ fetches' = Disown(fetches)
    BY DEF StartFamily
  <1>2. [key |-> key, presented |-> comp, purpose |-> purpose] \in Build BY DEF Build
  <1>3. FamilyTypeOK' BY <1>1, <1>2, DisownedFit DEF FamilyTypeOK
  <1>4. FamilyKnown' BY <1>1 DEF FamilyKnown
  <1>5. FetchesFit(fetches', plan) BY <1>1, DisownedFit DEF FamilyTypeOK
  <1> QED BY <1>1, <1>3, <1>4, <1>5

\* The family as a request or the load find it.
FamilyFits == FamilyTypeOK /\ FamilyKnown

LEMMA RequestFollows ==
  ASSUME NEW pg \in PageState, NEW sv, NEW key \in Key, key.flavour # "background",
         NEW purpose \in Purpose, purpose # "background",
         FamilyFits,
         pg.views # None => pg.views = pg.plan,
         FetchesFit(fetches, pg.plan),
         Request(pg, sv, key, purpose)
  PROVE  /\ page' \in PageState /\ FamilyTypeOK' /\ FrontKnown'
         /\ page'.load = pg.load
         /\ page'.plan = pg.plan \/ page'.plan \in Plan
         /\ NoBackground => NoBackground'
         /\ MayPublish(sv)
         /\ builds' # {} => page'.mode = "loading" /\ saver' = sv
  <1> DEFINE comp == IF pg.asked.comp = None THEN Default ELSE pg.asked.comp
             last == [stops |-> key.stops, flavour |-> key.flavour]
             asking == [pg EXCEPT !.mode = "loading", !.last = last]
  <1>1. comp \in Composition BY PageAssumption DEF PageState
  <1>2. last \in LastState /\ last.flavour # "background" BY DEF LastState, Key
  <1>3. /\ asking \in PageState /\ asking.mode = "loading" /\ asking.load = pg.load
        /\ asking.plan = pg.plan /\ asking.views = pg.views /\ asking.last = last
    BY <1>2 DEF PageState, LastState
  <1> HIDE DEF comp, last, asking
  <1>4. CASE ~Held(key) /\ StartFamily(key, comp, purpose) /\ page' = asking /\ saver' = sv
    <2>1. /\ FamilyTypeOK' /\ FamilyKnown' /\ FetchesFit(fetches', pg.plan)
          /\ family'.document = None /\ family'.key = key
          /\ builds' = {[key |-> key, presented |-> comp, purpose |-> purpose]}
      BY <1>1, <1>4, StartKeeps DEF FamilyFits
    <2>2. FrontKnown'
      <3>1. page'.views # None => page'.views = page'.plan BY <1>3, <1>4
      <3>2. FetchesFit(fetches', page'.plan) BY <1>3, <1>4, <2>1
      <3>3. ScreenKnown' BY <1>3, <1>4, <3>1, <3>2 DEF ScreenKnown, ViewsFitTheMember
      <3>4. LastKnown' BY <1>2, <1>3, <1>4 DEF LastKnown
      <3> QED BY <2>1, <3>3, <3>4 DEF FrontKnown
    <2>3. NoBackground' BY <2>1 DEF NoBackground, Held
    <2> QED BY <1>3, <1>4, <2>1, <2>2, <2>3 DEF MayPublish
  <1>5. CASE page' = asking /\ saver' = sv /\ UNCHANGED family_vars
    <2>1. family' = family /\ builds' = builds /\ fetches' = fetches /\ cache' = cache
      BY <1>5 DEF family_vars
    <2>2. FamilyTypeOK' /\ FamilyKnown' BY <2>1 DEF FamilyFits, FamilyTypeOK, FamilyKnown
    <2>3. ScreenKnown' BY <1>3, <1>5, <2>1 DEF ScreenKnown, ViewsFitTheMember, FetchesFit
    <2>4. LastKnown' BY <1>2, <1>3, <1>5 DEF LastKnown
    <2>5. NoBackground => NoBackground' BY <2>1 DEF NoBackground, Held
    <2> QED BY <1>3, <1>5, <2>2, <2>3, <2>4, <2>5 DEF FrontKnown, MayPublish
  <1>6. CASE /\ family.document # None
             /\ Continue(asking, sv, family.document, purpose, fetches)
             /\ UNCHANGED <<family, builds, cache>>
    <2>1. family.document \in Document /\ builds = {} /\ fetches \in SUBSET Fetch
      BY <1>6 DEF FamilyFits, FamilyTypeOK, FamilyKnown
    <2>2. FetchesFit(fetches, asking.plan) BY <1>3
    <2>3. asking.views # None => asking.views = asking.plan BY <1>3
    <2>4. Continue(asking, sv, family.document, purpose, fetches) BY <1>6
    <2>5. ScreenFollows(asking, family.document, fetches) /\ MayPublish(sv)
      BY <1>3, <2>1, <2>2, <2>3, <2>4, ContinueFollows
    <2>6. FamilyTypeOK' /\ FamilyKnown'
      BY <1>6, <2>5 DEF FamilyFits, FamilyTypeOK, FamilyKnown, ScreenFollows
    <2>7. ScreenKnown' BY <1>3, <1>6, <2>5 DEF ScreenKnown, ViewsFitTheMember, ScreenFollows
    <2>8. LastKnown' BY <1>2, <1>3, <2>5 DEF LastKnown, ScreenFollows
    <2>9. NoBackground => NoBackground' BY <1>6 DEF NoBackground, Held
    <2> QED BY <1>3, <1>6, <2>1, <2>5, <2>6, <2>7, <2>8, <2>9 DEF FrontKnown, ScreenFollows
  <1> QED BY <1>4, <1>5, <1>6 DEF Request, comp, asking, last

-----------------------------------------------------------------------------
(* The saver and the store.                                                 *)

BackTypeOK ==
  /\ session \in SessionState
  /\ saver \in SaverState /\ IsFiniteSet(saver.out)
  /\ stored \in Seq(StoredRow)
  /\ budget \in Budget

LEMMA CreatedFinite ==
  ASSUME stored \in Seq(StoredRow), NEW kind
  PROVE  /\ IsFiniteSet(Created(kind)) /\ Cardinality(Created(kind)) \in Nat
         /\ Created(kind) \subseteq 1 .. Len(stored)
  <1>1. Len(stored) \in Int /\ 1 \in Int OBVIOUS
  <1>2. IsFiniteSet(1 .. Len(stored)) BY <1>1, FS_Interval
  <1>3. Created(kind) \subseteq 1 .. Len(stored) BY DEF Created
  <1>4. IsFiniteSet(Created(kind)) BY <1>2, <1>3, FS_Subset
  <1> QED BY <1>3, <1>4, FS_CardinalityType

\* The other fields of the session are left alone; an identity may be chosen.
SessionKept ==
  /\ session' \in SessionState
  /\ session'.published = session.published /\ session'.props = session.props
  /\ session'.ownership = session.ownership /\ session'.saved = session.saved
  /\ session.signed => session'.signed

BudgetKept ==
  /\ budget' \in Budget
  /\ budget'.hurry = budget.hurry /\ budget'.failures >= budget.failures

LEMMA BackKeeps ==
  ASSUME BackTypeOK, BackKnown, SessionKept, BudgetKept, stored' = stored,
         saver'.out = saver.out, saver'.saving = saver.saving
  PROVE  BackKnown' /\ (NothingCopied => NothingCopied')
  <1>1. /\ budget.failures \in Nat /\ budget'.failures \in Nat
        /\ budget'.failures >= budget.failures /\ budget'.hurry = budget.hurry
    BY DEF BackTypeOK, BudgetKept, Budget
  <1>2. \A kind : Created(kind)' = Created(kind) BY DEF Created
  <1>3. SessionKnown' BY DEF BackKnown, SessionKnown, SessionKept
  <1>4. OutKnown' BY DEF BackKnown, OutKnown
  <1>5. SignedFirst' BY DEF BackKnown, SignedFirst, SessionKept
  <1>6. OneAtATime' BY <1>1 DEF BackKnown, OneAtATime
  <1>7. CountsKnown'
    <2> SUFFICES ASSUME ~budget'.hurry, NEW kind \in {"new", "copy"}
                 PROVE  /\ Cardinality(Created(kind)') <= 1 + budget'.failures
                        /\ Open(kind)' /\ ~Answering(kind)' =>
                             Cardinality(Created(kind)') <= budget'.failures
      BY DEF CountsKnown
    <2> DEFINE C == Cardinality(Created(kind))
    <2>1. C \in Nat BY CreatedFinite DEF BackTypeOK
    <2>2. C <= 1 + budget.failures /\ (Open(kind) /\ ~Answering(kind) => C <= budget.failures)
      BY <1>1 DEF BackKnown, CountsKnown
    <2>3. Open(kind)' = Open(kind) /\ Answering(kind)' = Answering(kind)
      BY DEF Open, Answering, SessionKept
    <2>4. Created(kind)' = Created(kind) BY <1>2
    <2> HIDE DEF C
    <2>5. C <= 1 + budget'.failures /\ (Open(kind) /\ ~Answering(kind) => C <= budget'.failures)
      BY <1>1, <2>1, <2>2
    <2> QED BY <2>3, <2>4, <2>5 DEF C
  <1>8. SavedKnown'
    <2>1. budget'.failures = 0 => budget.failures = 0 BY <1>1
    <2> QED BY <1>1, <2>1 DEF BackKnown, SavedKnown, SavedTellsTheStore, SessionKept
  <1>9. NothingCopied => NothingCopied' BY <1>2 DEF NothingCopied, SessionKept
  <1> QED BY <1>3, <1>4, <1>5, <1>6, <1>7, <1>8, <1>9 DEF BackKnown

\* A publish request goes out.
LEMMA SavingKeeps ==
  ASSUME BackTypeOK, BackKnown, SessionKept, BudgetKept, stored' = stored,
         session'.signed,
         ~budget.hurry => ~saver.saving,
         NEW sv \in SaverState, sv.out = saver.out, NEW plan \in Plan, NEW silent \in BOOLEAN,
         saver' = Saving(sv, plan, silent)
  PROVE  /\ BackTypeOK' /\ BackKnown' /\ (NothingCopied => NothingCopied')
         /\ saver'.timer = sv.timer /\ saver'.pending = sv.pending
  <1> DEFINE request == [n |-> Unused(saver.out), mode |-> SaveMode, plan |-> plan,
                         pid |-> session.published, silent |-> silent,
                         first |-> session.published = None \/ Copying, phase |-> "sent"]
  <1>1. SaveMode \in {"new", "overwrite", "copy"} BY DEF SaveMode
  <1>2. Unused(saver.out) \in Nat BY UnusedIsNew DEF BackTypeOK
  <1>3. request \in PublishRequest BY <1>1, <1>2 DEF PublishRequest, BackTypeOK, SessionState
  <1>4. request.phase = "sent" /\ request.mode = SaveMode /\ request.pid = session.published OBVIOUS
  <1>5. saver' = [sv EXCEPT !.saving = TRUE, !.out = saver.out \cup {request}]
    BY DEF Saving
  <1> HIDE DEF request
  <1>6. /\ saver' \in SaverState /\ saver'.out = saver.out \cup {request} /\ saver'.saving
        /\ saver'.timer = sv.timer /\ saver'.pending = sv.pending
    BY <1>3, <1>5 DEF SaverState
  <1>7. IsFiniteSet(saver'.out) BY <1>6, FS_AddElement DEF BackTypeOK
  <1>8. BackTypeOK' BY <1>6, <1>7 DEF BackTypeOK, SessionKept, BudgetKept
  <1>9. /\ budget.failures \in Nat /\ budget'.failures \in Nat
        /\ budget'.failures >= budget.failures /\ budget'.hurry = budget.hurry
    BY DEF BackTypeOK, BudgetKept, Budget
  <1>10. ~budget.hurry => saver.out = {} BY DEF BackKnown, OneAtATime
  <1>11. SessionKnown' BY DEF BackKnown, SessionKnown, SessionKept
  <1>12. OutKnown'
    <2>1. request.mode = "overwrite" =>
            session.published \in DOMAIN stored /\ stored[session.published].mine
      BY <1>4 DEF SaveMode, Copying, BackKnown, SessionKnown
    <2> QED BY <1>4, <1>6, <2>1 DEF BackKnown, OutKnown
  <1>13. SignedFirst' BY DEF SignedFirst
  <1>14. OneAtATime' BY <1>6, <1>9, <1>10 DEF OneAtATime
  <1>15. CountsKnown'
    <2> SUFFICES ASSUME ~budget'.hurry, NEW kind \in {"new", "copy"}
                 PROVE  /\ Cardinality(Created(kind)') <= 1 + budget'.failures
                        /\ Open(kind)' /\ ~Answering(kind)' =>
                             Cardinality(Created(kind)') <= budget'.failures
      BY DEF CountsKnown
    <2> DEFINE C == Cardinality(Created(kind))
    <2>1. C \in Nat BY CreatedFinite DEF BackTypeOK
    <2>2. C <= 1 + budget.failures /\ (Open(kind) /\ ~Answering(kind) => C <= budget.failures)
      BY <1>9 DEF BackKnown, CountsKnown
    <2>3. request.mode = kind => Open(kind) BY <1>4 DEF SaveMode, Copying, Open
    <2>4. Open(kind)' => Open(kind) BY <1>6, <2>3 DEF Open, SessionKept
    <2>5. ~Answering(kind) BY <1>9, <1>10 DEF Answering
    <2>6. Created(kind)' = Created(kind) BY DEF Created
    <2> HIDE DEF C
    <2>7. C <= 1 + budget'.failures /\ (Open(kind) => C <= budget'.failures)
      BY <1>9, <2>1, <2>2, <2>5
    <2> QED BY <2>4, <2>6, <2>7 DEF C
  <1>16. SavedKnown'
    <2>1. saver'.out # {} BY <1>6
    <2>2. SavedTellsTheStore' BY <2>1 DEF SavedTellsTheStore
    <2>3. ~budget'.hurry => \A s \in saver'.out : s.phase = "sent" BY <1>4, <1>6, <1>9, <1>10
    <2> QED BY <2>2, <2>3 DEF SavedKnown
  <1>17. NothingCopied => NothingCopied'
    <2>1. Created("copy")' = Created("copy") BY DEF Created
    <2>2. session.ownership # "other" => request.mode # "copy" BY <1>4 DEF SaveMode, Copying
    <2> QED BY <1>6, <2>1, <2>2 DEF NothingCopied, SessionKept
  <1> QED BY <1>6, <1>8, <1>11, <1>12, <1>13, <1>14, <1>15, <1>16, <1>17 DEF BackKnown

\* A plan that was shown may be published at once, or wait at the gate.
LEMMA PublishKeeps ==
  ASSUME BackTypeOK, BackKnown, WaitingKnown, budget' \in Budget,
         budget'.hurry = budget.hurry, budget'.failures = budget.failures,
         session' = session, stored' = stored,
         NEW sv \in SaverState, sv.out = saver.out, sv.saving = saver.saving,
         sv.pending = saver.pending, sv.timer => saver.timer,
         page'.plan = page.plan \/ page'.plan \in Plan,
         MayPublish(sv),
         budget.hurry \/ ~saver.saving \/ saver' = sv
  PROVE  /\ BackTypeOK' /\ BackKnown' /\ WaitingKnown'
         /\ NothingCopied => NothingCopied'
  <1>1. SessionKept BY DEF SessionKept, BackTypeOK
  <1>2. BudgetKept BY DEF BudgetKept, BackTypeOK, Budget
  <1>3. CASE saver' = sv
    <2>1. BackTypeOK' BY <1>1, <1>3 DEF BackTypeOK, SessionKept
    <2>2. WaitingKnown' BY <1>3 DEF WaitingKnown
    <2> QED BY <1>1, <1>2, <1>3, <2>1, <2>2, BackKeeps
  <1>4. CASE page'.plan \in Plan /\ saver' = [sv EXCEPT !.pending = TRUE]
    <2>1. saver' \in SaverState /\ saver'.out = saver.out /\ saver'.saving = saver.saving
      BY <1>4 DEF SaverState
    <2>2. BackTypeOK' BY <1>1, <2>1 DEF BackTypeOK, SessionKept
    <2>3. WaitingKnown' BY <1>4 DEF WaitingKnown
    <2> QED BY <1>1, <1>2, <2>1, <2>2, <2>3, BackKeeps
  <1>5. CASE /\ page'.plan \in Plan /\ session.signed
             /\ saver' = Saving(sv, page'.plan, FALSE) /\ saver' # sv
    <2>1. /\ BackTypeOK' /\ BackKnown' /\ (NothingCopied => NothingCopied')
      BY <1>1, <1>2, <1>5, SavingKeeps
    <2> QED BY <1>5, <2>1 DEF WaitingKnown
  <1> QED BY <1>3, <1>4, <1>5 DEF MayPublish, Publish

\* An id of a stored proposal is an id.
LEMMA StoredIds ==
  ASSUME stored \in Seq(StoredRow), NEW pid \in DOMAIN stored
  PROVE  /\ pid \in Nat /\ pid # None /\ stored[pid] \in StoredRow /\ pid <= Len(stored)
  <1>1. pid \in 1 .. Len(stored) /\ stored[pid] \in StoredRow OBVIOUS
  <1> QED BY <1>1, PageAssumption

\* What a step of the server, or its answer, does to the requests that are out.
LEMMA MovedOut ==
  ASSUME BackTypeOK, NEW s \in saver.out, NEW changes \in PublishRequest,
         saver' = Moved(s, changes)
  PROVE  /\ saver' \in SaverState /\ IsFiniteSet(saver'.out)
         /\ saver'.out = (saver.out \ {s}) \cup {changes}
         /\ saver'.saving = saver.saving
         /\ saver'.timer = saver.timer /\ saver'.pending = saver.pending
  <1>1. /\ saver' \in SaverState
        /\ saver'.out = (saver.out \ {s}) \cup {changes}
        /\ saver'.saving = saver.saving
        /\ saver'.timer = saver.timer /\ saver'.pending = saver.pending
    BY DEF Moved, BackTypeOK, SaverState
  <1>2. IsFiniteSet(saver.out \ {s}) BY FS_RemoveElement DEF BackTypeOK
  <1>3. IsFiniteSet(saver'.out) BY <1>1, <1>2, FS_AddElement
  <1> QED BY <1>1, <1>3

LEMMA CommitOverwrites ==
  ASSUME BackTypeOK, BackKnown, NEW s \in saver.out, s.phase = "sent",
         s.mode = "overwrite", stored[s.pid].mine,
         stored' = [stored EXCEPT ![s.pid].plan = s.plan],
         saver' = Moved(s, [s EXCEPT !.phase = "done"]),
         session' = session, budget' = budget
  PROVE  /\ BackTypeOK' /\ BackKnown' /\ (NothingCopied => NothingCopied')
  <1> DEFINE done == [s EXCEPT !.phase = "done"]
  <1>1. s \in PublishRequest BY DEF BackTypeOK, SaverState
  <1>2. /\ done \in PublishRequest /\ done.phase = "done" /\ done.mode = s.mode
        /\ done.pid = s.pid /\ done.plan = s.plan
    BY <1>1 DEF PublishRequest
  <1> HIDE DEF done
  <1>3. saver' \in SaverState /\ IsFiniteSet(saver'.out)
    /\ saver'.out = (saver.out \ {s}) \cup {done} /\ saver'.saving = saver.saving
    BY <1>2, MovedOut DEF done
  <1>4. s.pid \in DOMAIN stored BY DEF BackKnown, OutKnown
  <1>5. stored[s.pid] \in StoredRow BY <1>4 DEF BackTypeOK
  <1>6. /\ stored' \in Seq(StoredRow) /\ DOMAIN stored' = DOMAIN stored
        /\ stored'[s.pid] = [stored[s.pid] EXCEPT !.plan = s.plan]
        /\ \A pid \in DOMAIN stored : pid # s.pid => stored'[pid] = stored[pid]
    <2>1. [stored[s.pid] EXCEPT !.plan = s.plan] \in StoredRow
      BY <1>1, <1>5 DEF StoredRow, PublishRequest
    <2> QED BY <1>4, <2>1 DEF BackTypeOK
  <1>7. \A pid \in DOMAIN stored : stored'[pid].mine = stored[pid].mine /\ stored'[pid].by = stored[pid].by
    BY <1>5, <1>6 DEF StoredRow
  <1>8. stored'[s.pid].plan = s.plan BY <1>5, <1>6 DEF StoredRow
  <1>9. BackTypeOK' BY <1>3, <1>6 DEF BackTypeOK
  <1>10. \A kind : Created(kind)' = Created(kind) BY <1>6, <1>7 DEF Created
  <1>11. SessionKnown' BY <1>6, <1>7 DEF BackKnown, SessionKnown
  <1>12. OutKnown' BY <1>2, <1>3, <1>4, <1>6, <1>7 DEF BackKnown, OutKnown
  <1>13. SignedFirst' BY <1>3 DEF BackKnown, SignedFirst
  <1>14. OneAtATime' BY <1>3 DEF BackKnown, OneAtATime
  <1>15. CountsKnown'
    <2> SUFFICES ASSUME ~budget.hurry, NEW kind \in {"new", "copy"}
                 PROVE  /\ Cardinality(Created(kind)') <= 1 + budget.failures
                        /\ Open(kind)' /\ ~Answering(kind)' =>
                             Cardinality(Created(kind)') <= budget.failures
      BY DEF CountsKnown
    <2>1. /\ Cardinality(Created(kind)) <= 1 + budget.failures
          /\ Open(kind) /\ ~Answering(kind) => Cardinality(Created(kind)) <= budget.failures
      BY DEF BackKnown, CountsKnown
    <2>2. Open(kind)' => Open(kind) BY <1>2, <1>3 DEF Open
    <2>3. ~Answering(kind) BY DEF Answering, BackKnown, OneAtATime
    <2> QED BY <1>10, <2>1, <2>2, <2>3
  <1>16. SavedKnown'
    <2>1. saver'.out # {} BY <1>3
    <2>2. SavedTellsTheStore' BY <2>1 DEF SavedTellsTheStore
    <2>3. ~budget.hurry => \A t \in saver'.out : t = done
      BY <1>3 DEF BackKnown, OneAtATime
    <2> QED BY <1>2, <1>8, <2>2, <2>3 DEF SavedKnown
  <1>17. NothingCopied => NothingCopied' BY <1>2, <1>3, <1>6, <1>10 DEF NothingCopied
  <1> QED BY <1>9, <1>11, <1>12, <1>13, <1>14, <1>15, <1>16, <1>17 DEF BackKnown

LEMMA CommitAppends ==
  ASSUME BackTypeOK, BackKnown, NEW s \in saver.out, s.phase = "sent",
         s.mode # "overwrite",
         stored' = Append(stored, [mine |-> TRUE, plan |-> s.plan, by |-> s.mode]),
         saver' = Moved(s, [s EXCEPT !.phase = "done", !.pid = Len(stored) + 1]),
         session' = session, budget' = budget
  PROVE  /\ BackTypeOK' /\ BackKnown' /\ (NothingCopied => NothingCopied')
  <1> DEFINE next == Len(stored) + 1
             done == [s EXCEPT !.phase = "done", !.pid = next]
             row == [mine |-> TRUE, plan |-> s.plan, by |-> s.mode]
  <1>1. s \in PublishRequest BY DEF BackTypeOK, SaverState
  <1>2. next \in Nat /\ next \notin DOMAIN stored BY DEF BackTypeOK
  <1>3. /\ done \in PublishRequest /\ done.phase = "done" /\ done.mode = s.mode
        /\ done.pid = next /\ done.plan = s.plan
    BY <1>1, <1>2 DEF PublishRequest
  <1>4. row \in StoredRow /\ row.mine /\ row.plan = s.plan /\ row.by = s.mode
    BY <1>1 DEF PublishRequest, StoredRow
  <1>5. stored' = Append(stored, row) OBVIOUS
  <1>6. saver' = Moved(s, done) OBVIOUS
  <1> HIDE DEF done, row
  <1>7. /\ stored' \in Seq(StoredRow) /\ DOMAIN stored' = DOMAIN stored \cup {next}
        /\ stored'[next] = row
        /\ \A pid \in DOMAIN stored : stored'[pid] = stored[pid]
    BY <1>4, <1>5 DEF BackTypeOK
  <1> HIDE DEF next
  <1>8. saver' \in SaverState /\ IsFiniteSet(saver'.out)
    /\ saver'.out = (saver.out \ {s}) \cup {done} /\ saver'.saving = saver.saving
    BY <1>3, <1>6, MovedOut
  <1>9. BackTypeOK' BY <1>7, <1>8 DEF BackTypeOK
  <1>10. \A kind : Created(kind)' = IF kind = s.mode THEN Created(kind) \cup {next} ELSE Created(kind)
    BY <1>4, <1>7 DEF Created
  <1>11. SessionKnown' BY <1>7 DEF BackKnown, SessionKnown
  <1>12. OutKnown' BY <1>3, <1>4, <1>7, <1>8 DEF BackKnown, OutKnown
  <1>13. SignedFirst' BY <1>8 DEF BackKnown, SignedFirst
  <1>14. OneAtATime' BY <1>8 DEF BackKnown, OneAtATime
  <1>15. CountsKnown'
    <2> SUFFICES ASSUME ~budget.hurry, NEW kind \in {"new", "copy"}
                 PROVE  /\ Cardinality(Created(kind)') <= 1 + budget.failures
                        /\ Open(kind)' /\ ~Answering(kind)' =>
                             Cardinality(Created(kind)') <= budget.failures
      BY DEF CountsKnown
    <2>1. /\ Cardinality(Created(kind)) <= 1 + budget.failures
          /\ Open(kind) /\ ~Answering(kind) => Cardinality(Created(kind)) <= budget.failures
      BY DEF BackKnown, CountsKnown
    <2>2. ~Answering(kind) BY DEF Answering, BackKnown, OneAtATime
    <2>3. CASE kind = s.mode
      <3>1. Cardinality(Created(kind)) <= budget.failures BY <2>1, <2>2, <2>3 DEF Open
      <3>2. /\ Cardinality(Created(kind)) \in Nat /\ IsFiniteSet(Created(kind))
            /\ Created(kind) \subseteq DOMAIN stored
        BY CreatedFinite DEF BackTypeOK, Created
      <3>3. Cardinality(Created(kind) \cup {next}) = Cardinality(Created(kind)) + 1
        BY <1>2, <3>2, FS_AddElement
      <3>4. budget.failures \in Nat BY DEF BackTypeOK, Budget
      <3>5. Answering(kind)' BY <1>3, <1>8, <2>3 DEF Answering
      <3>6. Cardinality(Created(kind)') = Cardinality(Created(kind)) + 1 BY <1>10, <2>3, <3>3
      <3>7. Cardinality(Created(kind)) + 1 <= 1 + budget.failures BY <3>1, <3>2, <3>4
      <3> QED BY <3>5, <3>6, <3>7
    <2>4. CASE kind # s.mode
      <3>1. Open(kind)' => Open(kind) BY <1>3, <1>8, <2>4 DEF Open
      <3> QED BY <1>10, <2>1, <2>2, <2>4, <3>1
    <2> QED BY <2>3, <2>4
  <1>16. SavedKnown'
    <2>1. saver'.out # {} BY <1>8
    <2>2. SavedTellsTheStore' BY <2>1 DEF SavedTellsTheStore
    <2>3. ~budget.hurry => \A t \in saver'.out : t = done
      BY <1>8 DEF BackKnown, OneAtATime
    <2> QED BY <1>3, <1>4, <1>7, <2>2, <2>3 DEF SavedKnown
  <1>17. NothingCopied => NothingCopied' BY <1>3, <1>7, <1>8, <1>10 DEF NothingCopied
  <1> QED BY <1>9, <1>11, <1>12, <1>13, <1>14, <1>15, <1>16, <1>17 DEF BackKnown

LEMMA RefusalKeeps ==
  ASSUME BackTypeOK, BackKnown, NEW s \in saver.out,
         budget' = [budget EXCEPT !.failures = @ + 1],
         saver' = Moved(s, [s EXCEPT !.phase = "failed"]),
         session' = session, stored' = stored
  PROVE  /\ BackTypeOK' /\ BackKnown' /\ (NothingCopied => NothingCopied')
  <1> DEFINE failed == [s EXCEPT !.phase = "failed"]
  <1>1. s \in PublishRequest BY DEF BackTypeOK, SaverState
  <1>2. /\ failed \in PublishRequest /\ failed.phase = "failed" /\ failed.mode = s.mode
        /\ failed.pid = s.pid
    BY <1>1 DEF PublishRequest
  <1> HIDE DEF failed
  <1>3. saver' \in SaverState /\ IsFiniteSet(saver'.out)
    /\ saver'.out = (saver.out \ {s}) \cup {failed} /\ saver'.saving = saver.saving
    BY <1>2, MovedOut DEF failed
  <1>4. /\ budget.failures \in Nat /\ budget' \in Budget /\ budget'.failures = budget.failures + 1
        /\ budget'.hurry = budget.hurry
    BY DEF BackTypeOK, Budget
  <1>5. BackTypeOK' BY <1>3, <1>4 DEF BackTypeOK
  <1>6. \A kind : Created(kind)' = Created(kind) BY DEF Created
  <1>7. SessionKnown' BY DEF BackKnown, SessionKnown
  <1>8. OutKnown' BY <1>2, <1>3 DEF BackKnown, OutKnown
  <1>9. SignedFirst' BY <1>3 DEF BackKnown, SignedFirst
  <1>10. OneAtATime' BY <1>3, <1>4 DEF BackKnown, OneAtATime
  <1>11. CountsKnown'
    <2> SUFFICES ASSUME ~budget'.hurry, NEW kind \in {"new", "copy"}
                 PROVE  Cardinality(Created(kind)') <= budget'.failures
      BY <1>4, <1>6, CreatedFinite DEF CountsKnown, BackTypeOK
    <2>1. Cardinality(Created(kind)) <= 1 + budget.failures
      BY <1>4 DEF BackKnown, CountsKnown
    <2> QED BY <1>4, <1>6, <2>1
  <1>12. SavedKnown' BY <1>4 DEF SavedKnown
  <1>13. NothingCopied => NothingCopied' BY <1>2, <1>3, <1>6 DEF NothingCopied
  <1> QED BY <1>5, <1>7, <1>8, <1>9, <1>10, <1>11, <1>12, <1>13 DEF BackKnown

\* Bookkeeping of CountsKnown: a step that makes nothing and opens nothing.
LEMMA CountsKept ==
  ASSUME BackTypeOK, CountsKnown, stored' = stored, budget' = budget,
         ~budget.hurry => \A kind \in {"new", "copy"} :
            Open(kind)' /\ ~Answering(kind)' =>
              (Open(kind) /\ ~Answering(kind)) \/ Created(kind) = {}
  PROVE  CountsKnown'
  <1> SUFFICES ASSUME ~budget.hurry, NEW kind \in {"new", "copy"}
               PROVE  /\ Cardinality(Created(kind)') <= 1 + budget.failures
                      /\ Open(kind)' /\ ~Answering(kind)' =>
                           Cardinality(Created(kind)') <= budget.failures
    BY DEF CountsKnown
  <1>1. /\ Cardinality(Created(kind)) <= 1 + budget.failures
        /\ Open(kind) /\ ~Answering(kind) => Cardinality(Created(kind)) <= budget.failures
    BY DEF CountsKnown
  <1>2. Created(kind) = {} => Cardinality(Created(kind)) <= budget.failures
    <2>1. Cardinality({}) = 0 BY FS_EmptySet
    <2>2. 0 <= budget.failures BY DEF BackTypeOK, Budget
    <2> QED BY <2>1, <2>2
  <1>3. Created(kind)' = Created(kind) BY DEF Created
  <1> QED BY <1>1, <1>2, <1>3

LEMMA AnswerKeeps ==
  ASSUME BackTypeOK, BackKnown, NEW s \in saver.out, PublishAnswers(s)
  PROVE  /\ BackTypeOK' /\ BackKnown' /\ (NothingCopied => NothingCopied')
         /\ saver'.timer = saver.timer /\ saver'.pending = saver.pending /\ ~saver'.saving
  <1>1. /\ s.phase \in {"done", "failed"}
        /\ saver' = [saver EXCEPT !.out = @ \ {s}, !.saving = FALSE]
        /\ session' = IF s.phase = "done" THEN Adopted(s) ELSE session
        /\ stored' = stored /\ budget' = budget
    BY DEF PublishAnswers
  <1>2. s \in PublishRequest BY DEF BackTypeOK, SaverState
  <1>3. /\ saver' \in SaverState /\ saver'.out = saver.out \ {s} /\ ~saver'.saving
        /\ saver'.timer = saver.timer /\ saver'.pending = saver.pending
    BY <1>1 DEF BackTypeOK, SaverState
  <1>4. IsFiniteSet(saver'.out) BY <1>3, FS_RemoveElement DEF BackTypeOK
  <1>5. \A kind : Created(kind)' = Created(kind) BY <1>1 DEF Created
  <1>6. OutKnown' BY <1>1, <1>3 DEF BackKnown, OutKnown
  <1>7. OneAtATime' BY <1>1, <1>3 DEF BackKnown, OneAtATime
  <1>8. ~budget.hurry => saver'.out = {} BY <1>3 DEF BackKnown, OneAtATime
  <1>9. \A kind : ~budget.hurry => ~Answering(kind)' BY <1>8 DEF Answering
  <1>10. CASE s.phase = "done"
    <2>1. s.pid \in DOMAIN stored /\ stored[s.pid].mine BY <1>10 DEF BackKnown, OutKnown
    <2>2. s.pid \in Nat /\ s.pid # None BY <2>1, StoredIds DEF BackTypeOK
    <2>3. s.plan.comp \in Composition BY <1>2 DEF PublishRequest, Plan
    <2>4. /\ session' \in SessionState /\ session'.published = s.pid
          /\ session'.ownership = "own" /\ session'.saved = s.plan.comp
          /\ session'.props \in {s.pid, session.props}
          /\ session'.props = session.props \/ session.props = None
          /\ session'.signed = session.signed
      BY <1>1, <1>10, <2>2, <2>3 DEF Adopted, BackTypeOK, SessionState
    <2>5. BackTypeOK' BY <1>1, <1>3, <1>4, <2>4 DEF BackTypeOK
    <2>6. SessionKnown' BY <1>1, <2>1, <2>2, <2>4 DEF SessionKnown
    <2>7. SignedFirst' BY <2>4 DEF BackKnown, SignedFirst
    <2>8. ~budget.hurry => \A kind \in {"new", "copy"} : ~Open(kind)'
      BY <1>8, <2>2, <2>4 DEF Open
    <2>9. CountsKnown' BY <1>1, <2>8, CountsKept DEF BackKnown
    <2>10. SavedKnown'
      <3> SUFFICES ASSUME ~budget.hurry, budget.failures = 0
                   PROVE  session'.saved = stored'[session'.published].plan.comp /\ saver'.out = {}
        BY <1>1 DEF SavedKnown, SavedTellsTheStore
      <3>1. stored[s.pid].plan = s.plan BY <1>10 DEF BackKnown, SavedKnown
      <3> QED BY <1>1, <1>8, <2>4, <3>1
    <2>11. NothingCopied => NothingCopied' BY <1>1, <1>3, <1>5, <2>1, <2>4 DEF NothingCopied
    <2> QED BY <1>3, <1>6, <1>7, <2>5, <2>6, <2>7, <2>9, <2>10, <2>11 DEF BackKnown
  <1>11. CASE s.phase = "failed"
    <2>1. session' = session BY <1>1, <1>11
    <2>2. BackTypeOK' BY <1>1, <1>3, <1>4, <2>1 DEF BackTypeOK
    <2>3. SessionKnown' BY <1>1, <2>1 DEF BackKnown, SessionKnown
    <2>4. SignedFirst' BY <1>3, <2>1 DEF BackKnown, SignedFirst
    <2>5. \A kind : Open(kind)' => Open(kind) BY <1>3, <2>1 DEF Open
    <2>6. ~budget.hurry => \A kind : ~Answering(kind)
      BY <1>11 DEF Answering, BackKnown, OneAtATime
    <2>7. CountsKnown' BY <1>1, <2>5, <2>6, CountsKept DEF BackKnown
    <2>8. SavedKnown' BY <1>1, <1>11 DEF BackKnown, SavedKnown
    <2>9. NothingCopied => NothingCopied' BY <1>1, <1>3, <1>5, <2>1 DEF NothingCopied
    <2> QED BY <1>3, <1>6, <1>7, <2>2, <2>3, <2>4, <2>7, <2>8, <2>9 DEF BackKnown
  <1> QED BY <1>1, <1>10, <1>11

\* The load makes the stored proposal the session's, or one it would copy.
LEMMA LoadKeeps ==
  ASSUME BackTypeOK, BackKnown, NothingCopied, LoadAnswers
  PROVE  /\ BackTypeOK' /\ BackKnown' /\ saver' = saver
         /\ stored[session.props].plan \in Plan
  <1> DEFINE row == stored[session.props]
  <1>1. session.props \in DOMAIN stored BY DEF NothingCopied
  <1>2. row \in StoredRow /\ session.props # None BY <1>1, StoredIds DEF BackTypeOK
  <1>3. row.plan \in Plan /\ row.plan.comp \in Composition BY <1>2 DEF StoredRow, Plan
  <1>4. /\ session' = [session EXCEPT !.published = session.props, !.saved = row.plan.comp,
             !.ownership = IF session.signed /\ row.mine THEN "own" ELSE "other"]
        /\ saver' = saver /\ stored' = stored /\ budget' = budget
    BY DEF LoadAnswers
  <1>5. /\ session' \in SessionState /\ session'.published = session.props
        /\ session'.ownership = IF session.signed /\ row.mine THEN "own" ELSE "other"
        /\ session'.saved = row.plan.comp /\ session'.props = session.props
        /\ session'.signed = session.signed
    BY <1>3, <1>4 DEF BackTypeOK, SessionState
  <1>6. BackTypeOK' BY <1>4, <1>5 DEF BackTypeOK
  <1>7. SessionKnown' BY <1>1, <1>2, <1>4, <1>5 DEF SessionKnown
  <1>8. OutKnown' BY <1>4 DEF BackKnown, OutKnown
  <1>9. SignedFirst' BY <1>4, <1>5 DEF BackKnown, SignedFirst
  <1>10. OneAtATime' BY <1>4 DEF BackKnown, OneAtATime
  <1>11. CountsKnown'
    <2>1. Open("new")' => Open("new") BY <1>2, <1>4, <1>5 DEF Open
    <2>2. Created("copy") = {} BY DEF NothingCopied
    <2>3. \A kind : Answering(kind)' = Answering(kind) BY <1>4 DEF Answering
    <2> QED BY <1>4, <2>1, <2>2, <2>3, CountsKept DEF BackKnown
  <1>12. SavedKnown' BY <1>4, <1>5 DEF BackKnown, SavedKnown, SavedTellsTheStore
  <1> QED BY <1>3, <1>4, <1>6, <1>7, <1>8, <1>9, <1>10, <1>11, <1>12 DEF BackKnown

LEMMA ReloadKeeps ==
  ASSUME BackTypeOK, BackKnown, NothingCopied, RetryLoad
  PROVE  BackTypeOK' /\ BackKnown' /\ NothingCopied'
  <1>1. /\ session' = [session EXCEPT !.ownership = "unknown"]
        /\ saver' = saver /\ stored' = stored /\ budget' = budget
    BY DEF RetryLoad
  <1>2. /\ session' \in SessionState /\ session'.ownership = "unknown"
        /\ session'.published = session.published /\ session'.props = session.props
        /\ session'.saved = session.saved /\ session'.signed = session.signed
    BY <1>1 DEF BackTypeOK, SessionState
  <1>3. BackTypeOK' BY <1>1, <1>2 DEF BackTypeOK
  <1>4. SessionKnown' BY <1>1, <1>2 DEF NothingCopied, BackKnown, SessionKnown
  <1>5. OutKnown' BY <1>1 DEF BackKnown, OutKnown
  <1>6. SignedFirst' BY <1>1, <1>2 DEF BackKnown, SignedFirst
  <1>7. OneAtATime' BY <1>1 DEF BackKnown, OneAtATime
  <1>8. \A kind : Answering(kind)' = Answering(kind) /\ (Open(kind)' => Open(kind))
    BY <1>1, <1>2 DEF Answering, Open
  <1>9. CountsKnown' BY <1>1, <1>8, CountsKept DEF BackKnown
  <1>10. SavedKnown' BY <1>1, <1>2 DEF BackKnown, SavedKnown, SavedTellsTheStore
  <1>11. NothingCopied' BY <1>1, <1>2 DEF NothingCopied, Created
  <1> QED BY <1>3, <1>4, <1>5, <1>6, <1>7, <1>9, <1>10, <1>11 DEF BackKnown

-----------------------------------------------------------------------------
(* One step at a time.                                                      *)

LEMMA IInvParts ==
  IInv <=> /\ FamilyTypeOK /\ page \in PageState /\ BackTypeOK
           /\ FrontKnown /\ LoadKnown /\ WaitingKnown /\ BackKnown /\ ForegroundKnown
  BY DEF IInv, PageTypeOK, BackTypeOK

LEMMA IInvNext ==
  ASSUME FamilyTypeOK', page' \in PageState, BackTypeOK',
         FrontKnown', LoadKnown', WaitingKnown', BackKnown', ForegroundKnown'
  PROVE  IInv'
  BY DEF IInv, PageTypeOK, BackTypeOK

\* A step that leaves the family alone, and what is on screen of it.
LEMMA FrontKeeps ==
  ASSUME FamilyTypeOK, FrontKnown, UNCHANGED family_vars, page' \in PageState,
         page'.plan = page.plan, page'.views = page.views, page'.last = page.last,
         page'.toast => page.toast,
         page'.mode = "suggest" => page.mode = "suggest" /\ page'.base = page.base
  PROVE  /\ FamilyTypeOK' /\ FrontKnown'
         /\ NoBackground => NoBackground'
         /\ builds' = builds
  <1>1. family' = family /\ builds' = builds /\ fetches' = fetches /\ cache' = cache
    BY DEF family_vars
  <1>2. FamilyTypeOK' BY <1>1 DEF FamilyTypeOK
  <1>3. FamilyKnown' BY <1>1 DEF FrontKnown, FamilyKnown
  <1>4. ScreenKnown'
    BY <1>1 DEF FrontKnown, ScreenKnown, ViewsFitTheMember, FetchesFit
  <1>5. LastKnown' BY <1>1 DEF FrontKnown, LastKnown
  <1>6. NoBackground => NoBackground' BY <1>1 DEF NoBackground, Held
  <1> QED BY <1>1, <1>2, <1>3, <1>4, <1>5, <1>6 DEF FrontKnown

\* A step that publishes nothing and gets no answer.
LEMMA BackStill ==
  ASSUME BackTypeOK, BackKnown, session' = session, stored' = stored, BudgetKept,
         saver' \in SaverState, saver'.out = saver.out, saver'.saving = saver.saving
  PROVE  BackTypeOK' /\ BackKnown' /\ (NothingCopied => NothingCopied')
  <1>1. SessionKept BY DEF SessionKept, BackTypeOK
  <1>2. BackTypeOK' BY <1>1 DEF BackTypeOK, SessionKept, BudgetKept
  <1> QED BY <1>1, <1>2, BackKeeps

LEMMA EditKeeps ==
  ASSUME budget \in Budget, Edit
  PROVE  BudgetKept /\ budget'.failures = budget.failures
  BY DEF Edit, BudgetKept, Budget

LEMMA FailsKeeps ==
  ASSUME budget \in Budget, NEW kind, Fails(kind)
  PROVE  BudgetKept /\ budget' = [budget EXCEPT !.failures = @ + 1]
  BY DEF Fails, BudgetKept, Budget

LEMMA SameBudget ==
  ASSUME budget \in Budget, budget' = budget
  PROVE  BudgetKept
  BY DEF BudgetKept, Budget

\* At the controls a user who waits has nothing in the air.
LEMMA AtRestAtTheControls ==
  ASSUME IInv, AtTheControls, ~budget.hurry
  PROVE  /\ ~saver.saving
         /\ page.mode # "loading" => \A b \in builds : ~Foreground(b)
  BY DEF IInv, AtTheControls, ForegroundKnown

LEMMA EditStopsStep ==
  ASSUME IInv, NEW stops \in Itinerary, EditStops(stops)
  PROVE  IInv'
  <1> DEFINE edited == [page EXCEPT !.mode = "edit", !.asked.stops = stops]
             leaves == ~Dirty /\ DirtyIn(edited)
  <1>1. /\ FamilyTypeOK /\ page \in PageState /\ BackTypeOK
        /\ FrontKnown /\ LoadKnown /\ WaitingKnown /\ BackKnown /\ ForegroundKnown
    BY IInvParts
  <1>2. /\ AtTheControls /\ page.mode \in {"edit", "display"} /\ Edit
        /\ page' = edited
        /\ IF leaves THEN ResetFamily ELSE UNCHANGED family_vars
        /\ saver' = IF leaves THEN [saver EXCEPT !.timer = FALSE] ELSE saver
        /\ session' = session /\ stored' = stored
    BY DEF EditStops
  <1>3. /\ edited \in PageState /\ edited.mode = "edit" /\ edited.plan = page.plan
        /\ edited.views = page.views /\ edited.last = page.last /\ edited.toast = page.toast
        /\ edited.load = page.load
    BY <1>1 DEF PageState
  <1> HIDE DEF edited, leaves
  <1>4. /\ saver' \in SaverState /\ saver'.out = saver.out /\ saver'.saving = saver.saving
        /\ (saver'.timer => saver.timer) /\ saver'.pending = saver.pending
    BY <1>1, <1>2 DEF BackTypeOK, SaverState
  <1>5. BudgetKept BY <1>1, <1>2, EditKeeps DEF BackTypeOK
  <1>6. BackTypeOK' /\ BackKnown' /\ (NothingCopied => NothingCopied')
    BY <1>1, <1>2, <1>4, <1>5, BackStill
  <1>7. WaitingKnown' BY <1>1, <1>2, <1>3, <1>4 DEF WaitingKnown
  <1>8. FamilyTypeOK' /\ FrontKnown' /\ (NoBackground => NoBackground') /\ builds' \subseteq builds
    <2>1. CASE leaves
      <3>1. family' = NoFamily /\ builds' = {} /\ cache' = {} /\ fetches' = Disown(fetches)
        BY <1>2, <2>1 DEF ResetFamily
      <3>2. fetches' \subseteq Fetch /\ FetchesFit(fetches', page'.plan)
        BY <1>1, <3>1, DisownedFit DEF FamilyTypeOK
      <3>3. FamilyTypeOK' BY <3>1, <3>2 DEF FamilyTypeOK, NoFamily
      <3>4. FamilyKnown' BY <3>1 DEF FamilyKnown, NoFamily
      <3>5. ScreenKnown'
        BY <1>1, <1>2, <1>3, <3>2 DEF FrontKnown, ScreenKnown, ViewsFitTheMember
      <3>6. LastKnown' BY <1>1, <1>2, <1>3, <3>1 DEF FrontKnown, LastKnown
      <3>7. NoBackground' BY <3>1 DEF NoBackground, Held, NoFamily
      <3> QED BY <3>1, <3>3, <3>4, <3>5, <3>6, <3>7 DEF FrontKnown
    <2>2. CASE ~leaves BY <1>1, <1>2, <1>3, <2>2, FrontKeeps
    <2> QED BY <2>1, <2>2
  <1>9. LoadKnown' BY <1>1, <1>2, <1>3, <1>6, <1>8 DEF LoadKnown
  <1>10. ForegroundKnown'
    BY <1>2, <1>5, <1>8, AtRestAtTheControls DEF ForegroundKnown, BudgetKept
  <1> QED BY <1>2, <1>3, <1>6, <1>7, <1>8, <1>9, <1>10, IInvNext

\* A step of the page that leaves the family, the session and the saver alone.
LEMMA PageStep ==
  ASSUME IInv, UNCHANGED family_vars, session' = session, saver' = saver, stored' = stored,
         BudgetKept, page' \in PageState,
         page'.plan = page.plan, page'.views = page.views, page'.last = page.last,
         page'.toast => page.toast, page'.load # "none" => page.load # "none",
         page'.mode = "suggest" => page.mode = "suggest" /\ page'.base = page.base,
         page'.mode = page.mode \/ (AtTheControls /\ page.mode # "loading")
  PROVE  IInv'
  <1>1. /\ FamilyTypeOK /\ page \in PageState /\ BackTypeOK
        /\ FrontKnown /\ LoadKnown /\ WaitingKnown /\ BackKnown /\ ForegroundKnown
    BY IInvParts
  <1>2. FamilyTypeOK' /\ FrontKnown' /\ (NoBackground => NoBackground') /\ builds' = builds
    BY <1>1, FrontKeeps
  <1>3. BackTypeOK' /\ BackKnown' /\ (NothingCopied => NothingCopied')
    BY <1>1, BackStill DEF BackTypeOK
  <1>4. WaitingKnown' BY <1>1 DEF WaitingKnown
  <1>5. LoadKnown' BY <1>1, <1>2, <1>3 DEF LoadKnown
  <1>6. ForegroundKnown'
    BY <1>1, <1>2, AtRestAtTheControls DEF ForegroundKnown, BudgetKept
  <1> QED BY <1>2, <1>3, <1>4, <1>5, <1>6, IInvNext

LEMMA StartEditStep ==
  ASSUME IInv, StartEdit
  PROVE  IInv'
  <1>1. page \in PageState /\ budget \in Budget BY DEF IInv, PageTypeOK
  <1>2. page' = [page EXCEPT !.mode = "edit"] BY DEF StartEdit
  <1>3. /\ page' \in PageState /\ page'.plan = page.plan /\ page'.views = page.views
        /\ page'.last = page.last /\ page'.toast = page.toast /\ page'.load = page.load
        /\ page'.mode = "edit"
    BY <1>1, <1>2 DEF PageState
  <1> QED BY <1>1, <1>3, SameBudget, PageStep DEF StartEdit

LEMMA CancelEditStep ==
  ASSUME IInv, CancelEdit
  PROVE  IInv'
  <1>1. page \in PageState /\ budget \in Budget BY DEF IInv, PageTypeOK
  <1>2. page' = [page EXCEPT !.mode = "display", !.asked = page.plan] /\ page.plan # None
    BY DEF CancelEdit
  <1>3. page.plan \in [stops : Itinerary \cup {None}, how : How, comp : Composition \cup {None}]
    BY <1>1, <1>2 DEF PageState, Plan
  <1>4. /\ page' \in PageState /\ page'.plan = page.plan /\ page'.views = page.views
        /\ page'.last = page.last /\ page'.toast = page.toast /\ page'.load = page.load
        /\ page'.mode = "display"
    BY <1>1, <1>2, <1>3 DEF PageState
  <1> QED BY <1>1, <1>4, SameBudget, PageStep DEF CancelEdit

LEMMA ChangeHowStep ==
  ASSUME IInv, NEW how \in How, ChangeHow(how)
  PROVE  IInv'
  <1>1. page \in PageState /\ budget \in Budget BY DEF IInv, PageTypeOK
  <1>2. page' = [page EXCEPT !.asked.how = how] BY DEF ChangeHow
  <1>3. /\ page' \in PageState /\ page'.plan = page.plan /\ page'.views = page.views
        /\ page'.last = page.last /\ page'.toast = page.toast /\ page'.load = page.load
        /\ page'.mode = page.mode /\ page'.base = page.base
    BY <1>1, <1>2 DEF PageState
  <1>4. BudgetKept BY <1>1, EditKeeps DEF ChangeHow
  <1> QED BY <1>1, <1>3, <1>4, PageStep DEF ChangeHow

LEMMA CancelSuggestStep ==
  ASSUME IInv, CancelSuggest
  PROVE  IInv'
  <1>1. page \in PageState /\ budget \in Budget BY DEF IInv, PageTypeOK
  <1>2. page' = [page EXCEPT !.mode = "edit", !.base = None] BY DEF CancelSuggest
  <1>3. /\ page' \in PageState /\ page'.plan = page.plan /\ page'.views = page.views
        /\ page'.last = page.last /\ page'.toast = page.toast /\ page'.load = page.load
        /\ page'.mode = "edit"
    BY <1>1, <1>2 DEF PageState
  <1> QED BY <1>1, <1>3, SameBudget, PageStep DEF CancelSuggest

LEMMA LoadFailsStep ==
  ASSUME IInv, LoadFails
  PROVE  IInv'
  <1>1. page \in PageState /\ budget \in Budget BY DEF IInv, PageTypeOK
  <1>2. page' = [page EXCEPT !.load = "failed"] /\ page.load = "out" BY DEF LoadFails
  <1>3. /\ page' \in PageState /\ page'.plan = page.plan /\ page'.views = page.views
        /\ page'.last = page.last /\ page'.toast = page.toast
        /\ page'.mode = page.mode /\ page'.base = page.base
    BY <1>1, <1>2 DEF PageState
  <1>4. BudgetKept BY <1>1, FailsKeeps DEF LoadFails
  <1> QED BY <1>1, <1>2, <1>3, <1>4, PageStep DEF LoadFails

LEMMA RequestStep ==
  ASSUME IInv, AtTheControls, session' = session, stored' = stored,
         budget' \in Budget, budget'.hurry = budget.hurry, budget'.failures = budget.failures,
         NEW pg \in PageState, pg.plan = page.plan, pg.views = page.views, pg.load = page.load,
         NEW sv \in SaverState, sv.out = saver.out, sv.saving = saver.saving,
         sv.pending = saver.pending, sv.timer => saver.timer,
         NEW key \in Key, key.flavour # "background",
         NEW purpose \in Purpose, purpose # "background",
         Request(pg, sv, key, purpose)
  PROVE  IInv'
  <1>1. /\ FamilyTypeOK /\ page \in PageState /\ BackTypeOK
        /\ FrontKnown /\ LoadKnown /\ WaitingKnown /\ BackKnown /\ ForegroundKnown
    BY IInvParts
  <1>2. /\ page' \in PageState /\ FamilyTypeOK' /\ FrontKnown'
        /\ page'.load = pg.load
        /\ page'.plan = pg.plan \/ page'.plan \in Plan
        /\ NoBackground => NoBackground'
        /\ MayPublish(sv)
        /\ builds' # {} => page'.mode = "loading" /\ saver' = sv
    BY <1>1, RequestFollows DEF FamilyFits, FrontKnown, ScreenKnown, ViewsFitTheMember
  <1>3. budget.hurry \/ ~saver.saving BY DEF AtTheControls
  <1>4. /\ BackTypeOK' /\ BackKnown' /\ WaitingKnown'
        /\ NothingCopied => NothingCopied'
    BY <1>1, <1>2, <1>3, PublishKeeps
  <1>5. LoadKnown' BY <1>1, <1>2, <1>4 DEF LoadKnown
  <1>6. ForegroundKnown' BY <1>2, <1>3 DEF ForegroundKnown
  <1> QED BY <1>2, <1>4, <1>5, <1>6, IInvNext

LEMMA KeyForType ==
  ASSUME page \in PageState, NEW stops \in Itinerary, NEW flavour \in Flavour
  PROVE  KeyFor(stops, flavour) \in Key /\ KeyFor(stops, flavour).flavour = flavour
  BY DEF KeyFor, Key, PageState

LEMMA WithoutToast ==
  ASSUME page \in PageState
  PROVE  LET pg == [page EXCEPT !.toast = FALSE]
         IN  pg \in PageState /\ pg.plan = page.plan /\ pg.views = page.views /\ pg.load = page.load
  BY DEF PageState

LEMMA EvaluateStep ==
  ASSUME IInv, Evaluate
  PROVE  IInv'
  <1> DEFINE pg == [page EXCEPT !.toast = FALSE]
             key == KeyFor(page.asked.stops, "suggest")
  <1>1. page \in PageState /\ saver \in SaverState /\ budget \in Budget BY DEF IInv, PageTypeOK
  <1>2. pg \in PageState /\ pg.plan = page.plan /\ pg.views = page.views /\ pg.load = page.load
    BY <1>1, WithoutToast
  <1>3. page.asked.stops \in Itinerary BY <1>1 DEF Evaluate, PageState
  <1>4. key \in Key /\ key.flavour = "suggest" BY <1>1, <1>3, KeyForType DEF Flavour
  <1>5. Request(pg, saver, key, "evaluate") BY DEF Evaluate
  <1>6. "evaluate" \in Purpose BY DEF Purpose
  <1> HIDE DEF pg, key
  <1> QED BY <1>1, <1>2, <1>4, <1>5, <1>6, RequestStep DEF Evaluate

LEMMA RecalculateStep ==
  ASSUME IInv, Recalculate
  PROVE  IInv'
  <1> DEFINE pg == [page EXCEPT !.toast = FALSE]
             sv == [saver EXCEPT !.timer = FALSE]
             key == KeyFor(page.asked.stops, "off")
  <1>1. page \in PageState /\ saver \in SaverState /\ budget \in Budget BY DEF IInv, PageTypeOK
  <1>2. pg \in PageState /\ pg.plan = page.plan /\ pg.views = page.views /\ pg.load = page.load
    BY <1>1, WithoutToast
  <1>3. page.asked.stops \in Itinerary
    BY <1>1 DEF Recalculate, PageState, Plan, Dirty, DirtyIn
  <1>4. key \in Key /\ key.flavour = "off" BY <1>1, <1>3, KeyForType DEF Flavour
  <1>5. Request(pg, sv, key, "recompute") BY DEF Recalculate
  <1>6. "recompute" \in Purpose BY DEF Purpose
  <1>7. sv \in SaverState /\ sv.out = saver.out /\ sv.saving = saver.saving
        /\ sv.pending = saver.pending /\ ~sv.timer
    BY <1>1 DEF SaverState
  <1> HIDE DEF pg, key, sv
  <1> QED BY <1>1, <1>2, <1>4, <1>5, <1>6, <1>7, RequestStep DEF Recalculate

LEMMA ConfirmStopsStep ==
  ASSUME IInv, NEW stops \in Itinerary, ConfirmStops(stops)
  PROVE  IInv'
  <1> DEFINE pg == [page EXCEPT !.base = None, !.asked.stops = stops]
             key == KeyFor(stops, "off")
  <1>1. page \in PageState /\ saver \in SaverState /\ budget \in Budget BY DEF IInv, PageTypeOK
  <1>2. pg \in PageState /\ pg.plan = page.plan /\ pg.views = page.views /\ pg.load = page.load
    BY <1>1 DEF PageState
  <1>3. key \in Key /\ key.flavour = "off" BY <1>1, KeyForType DEF Flavour
  <1>4. Request(pg, saver, key, "settle") BY DEF ConfirmStops
  <1>5. "settle" \in Purpose BY DEF Purpose
  <1>6. BudgetKept /\ budget'.failures = budget.failures BY <1>1, EditKeeps DEF ConfirmStops
  <1>7. budget' \in Budget /\ budget'.hurry = budget.hurry BY <1>6 DEF BudgetKept
  <1> HIDE DEF pg, key
  <1> QED BY <1>1, <1>2, <1>3, <1>4, <1>5, <1>6, <1>7, RequestStep DEF ConfirmStops

LEMMA RetryStep ==
  ASSUME IInv, Retry
  PROVE  IInv'
  <1> DEFINE pg == [page EXCEPT !.toast = FALSE]
             key == KeyFor(page.last.stops, page.last.flavour)
  <1>1. page \in PageState /\ saver \in SaverState /\ budget \in Budget BY DEF IInv, PageTypeOK
  <1>2. pg \in PageState /\ pg.plan = page.plan /\ pg.views = page.views /\ pg.load = page.load
    BY <1>1, WithoutToast
  <1>3. page.last \in LastState /\ page.last.flavour # "background"
    BY DEF Retry, IInv, FrontKnown, LastKnown
  <1>4. key \in Key /\ key.flavour = page.last.flavour
    <2>1. page.last.stops \in Itinerary /\ page.last.flavour \in Flavour
      BY <1>3 DEF LastState
    <2> QED BY <1>1, <2>1, KeyForType
  <1>5. Request(pg, saver, key, "retry") BY DEF Retry
  <1>6. "retry" \in Purpose BY DEF Purpose
  <1> HIDE DEF pg, key
  <1> QED BY <1>1, <1>2, <1>3, <1>4, <1>5, <1>6, RequestStep DEF Retry

LEMMA PickCompositionStep ==
  ASSUME IInv, NEW comp \in Composition, PickComposition(comp)
  PROVE  IInv'
  <1>1. /\ FamilyTypeOK /\ page \in PageState /\ BackTypeOK
        /\ FrontKnown /\ LoadKnown /\ WaitingKnown /\ BackKnown /\ ForegroundKnown
    BY IInvParts
  <1>2. /\ AtTheControls /\ page.mode \in {"edit", "display"} /\ BudgetKept
        /\ session' = session /\ stored' = stored
    BY <1>1, EditKeeps DEF PickComposition, BackTypeOK
  <1>3. CASE page' = [page EXCEPT !.asked.comp = comp] /\ saver' = saver /\ UNCHANGED family_vars
    <2>1. /\ page' \in PageState /\ page'.plan = page.plan /\ page'.views = page.views
          /\ page'.last = page.last /\ page'.toast = page.toast /\ page'.load = page.load
          /\ page'.mode = page.mode /\ page'.base = page.base
      BY <1>1, <1>3 DEF PageState
    <2> QED BY <1>2, <1>3, <2>1, PageStep
  <1>4. CASE family.document # None /\ Look(comp)
    <2> DEFINE doc == family.document
               plan == PlanOf(doc.key, comp)
               shown == Shown(page, doc, plan)
    <2>1. doc \in Document /\ doc.key \in Key /\ fetches \in SUBSET Fetch
      BY <1>1, <1>4 DEF FamilyTypeOK, Document
    <2>2. plan \in Plan /\ plan.comp = comp BY <2>1, PlanOfType
    <2>3. /\ page' = [shown EXCEPT !.asked.how = page.asked.how]
          /\ fetches' = ViewsFrom(doc, plan, fetches)
          /\ saver' = [saver EXCEPT !.timer = SaveNeeded(shown, saver)]
          /\ family' = family /\ builds' = builds /\ cache' = cache
      BY <1>4 DEF Look
    <2>4. page.asked.how \in How BY <1>1 DEF PageState
    <2> HIDE DEF plan
    <2>5. /\ shown \in PageState /\ shown.plan = plan /\ shown.mode = "display"
          /\ shown.views # None => shown.views = plan
          /\ shown.last = page.last /\ shown.load = page.load /\ shown.toast = page.toast
          /\ ViewsFrom(doc, plan, fetches) \subseteq Fetch
          /\ FetchesFit(ViewsFrom(doc, plan, fetches), plan)
      BY <1>1, <2>1, <2>2, ShownFits DEF plan
    <2> HIDE DEF shown
    <2>6. /\ page' \in PageState /\ page'.plan = plan /\ page'.mode = "display"
          /\ page'.views # None => page'.views = plan
          /\ page'.last = page.last /\ page'.load = page.load /\ page'.toast = page.toast
      BY <2>3, <2>4, <2>5 DEF PageState
    <2>7. builds = {} BY <1>1, <1>4 DEF FrontKnown, FamilyKnown
    <2>8. FamilyTypeOK' BY <1>1, <2>3, <2>5 DEF FamilyTypeOK
    <2>9. FrontKnown'
      BY <1>1, <2>3, <2>5, <2>6, <2>7
      DEF FrontKnown, FamilyKnown, ScreenKnown, ViewsFitTheMember, LastKnown
    <2>10. SaveNeeded(shown, saver) \in BOOLEAN BY DEF SaveNeeded
    <2>11. /\ saver' \in SaverState /\ saver'.out = saver.out /\ saver'.saving = saver.saving
      BY <1>1, <2>3, <2>10 DEF BackTypeOK, SaverState
    <2>12. BackTypeOK' /\ BackKnown' /\ (NothingCopied => NothingCopied')
      BY <1>1, <1>2, <2>11, BackStill
    <2>13. WaitingKnown' BY <2>2, <2>6 DEF WaitingKnown
    <2>14. LoadKnown'
      BY <1>1, <2>3, <2>6, <2>12 DEF LoadKnown, NoBackground, Held
    <2>15. ForegroundKnown' BY <2>3, <2>7 DEF ForegroundKnown
    <2> QED BY <2>6, <2>8, <2>9, <2>12, <2>13, <2>14, <2>15, IInvNext
  <1> QED BY <1>3, <1>4 DEF PickComposition

LEMMA ConfirmNoneStep ==
  ASSUME IInv, ConfirmNone
  PROVE  IInv'
  <1> DEFINE pg == [page EXCEPT !.base = None]
             doc == family.document
             plan == page.base
  <1>1. /\ FamilyTypeOK /\ page \in PageState /\ BackTypeOK
        /\ FrontKnown /\ LoadKnown /\ WaitingKnown /\ BackKnown /\ ForegroundKnown
    BY IInvParts
  <1>2. /\ AtTheControls /\ page.mode = "suggest"
        /\ page' = Shown(pg, doc, plan)
        /\ fetches' = ViewsFrom(doc, plan, fetches)
        /\ saver' = Publish(saver, plan)
        /\ session' = session /\ stored' = stored /\ budget' = budget
        /\ family' = family /\ builds' = builds /\ cache' = cache
    BY DEF ConfirmNone, ShowPlan
  <1>3. /\ doc # None /\ plan \in Plan /\ plan = PlanOf(doc.key, plan.comp)
    BY <1>1, <1>2 DEF FrontKnown, ScreenKnown
  <1>4. doc \in Document /\ fetches \in SUBSET Fetch BY <1>1, <1>3 DEF FamilyTypeOK
  <1>5. pg \in PageState /\ pg.last = page.last /\ pg.load = page.load /\ pg.toast = page.toast
    BY <1>1 DEF PageState
  <1> HIDE DEF pg, doc, plan
  <1>6. /\ page' \in PageState /\ page'.plan = plan /\ page'.mode = "display"
        /\ page'.views # None => page'.views = plan
        /\ page'.last = page.last /\ page'.load = page.load /\ page'.toast = page.toast
        /\ fetches' \subseteq Fetch /\ FetchesFit(fetches', plan)
    BY <1>2, <1>3, <1>4, <1>5, ShownFits
  <1>7. builds = {} BY <1>1, <1>3 DEF FrontKnown, FamilyKnown, doc
  <1>8. FamilyTypeOK' BY <1>1, <1>2, <1>6 DEF FamilyTypeOK
  <1>9. FrontKnown'
    BY <1>1, <1>2, <1>6, <1>7
    DEF FrontKnown, FamilyKnown, ScreenKnown, ViewsFitTheMember, LastKnown
  <1>10. MayPublish(saver) BY <1>2, <1>3, <1>6 DEF MayPublish
  <1>11. budget.hurry \/ ~saver.saving BY <1>2 DEF AtTheControls
  <1>12. /\ BackTypeOK' /\ BackKnown' /\ WaitingKnown'
         /\ NothingCopied => NothingCopied'
    BY <1>1, <1>2, <1>3, <1>6, <1>10, <1>11, PublishKeeps DEF BackTypeOK
  <1>13. LoadKnown'
    BY <1>1, <1>2, <1>6, <1>12 DEF LoadKnown, NoBackground, Held
  <1>14. ForegroundKnown' BY <1>2, <1>7 DEF ForegroundKnown
  <1> QED BY <1>6, <1>8, <1>9, <1>12, <1>13, <1>14, IInvNext

LEMMA CancelStep ==
  ASSUME IInv, Cancel
  PROVE  IInv'
  <1>1. /\ FamilyTypeOK /\ page \in PageState /\ BackTypeOK
        /\ FrontKnown /\ LoadKnown /\ WaitingKnown /\ BackKnown /\ ForegroundKnown
    BY IInvParts
  <1>2. /\ page' = [page EXCEPT !.mode = "edit"]
        /\ builds' = {} /\ family' = family /\ fetches' = fetches /\ cache' = cache
        /\ session' = session /\ saver' = saver /\ stored' = stored /\ budget' = budget
    BY DEF Cancel, AbortFamily
  <1>3. /\ page' \in PageState /\ page'.plan = page.plan /\ page'.views = page.views
        /\ page'.last = page.last /\ page'.toast = page.toast /\ page'.load = page.load
        /\ page'.mode = "edit"
    BY <1>1, <1>2 DEF PageState
  <1>4. FamilyTypeOK' BY <1>1, <1>2 DEF FamilyTypeOK
  <1>5. FrontKnown'
    BY <1>1, <1>2, <1>3
    DEF FrontKnown, FamilyKnown, ScreenKnown, ViewsFitTheMember, LastKnown
  <1>6. BackTypeOK' /\ BackKnown' /\ (NothingCopied => NothingCopied')
    BY <1>1, <1>2, SameBudget, BackStill DEF BackTypeOK
  <1>7. WaitingKnown' BY <1>1, <1>2, <1>3 DEF WaitingKnown
  <1>8. LoadKnown' BY <1>1, <1>2, <1>3, <1>6 DEF LoadKnown, NoBackground, Held
  <1>9. ForegroundKnown' BY <1>2 DEF ForegroundKnown
  <1> QED BY <1>3, <1>4, <1>5, <1>6, <1>7, <1>8, <1>9, IInvNext

\* A step that leaves the page and the family alone.
LEMMA SaverStep ==
  ASSUME IInv, page' = page, UNCHANGED family_vars,
         BackTypeOK', BackKnown', NothingCopied => NothingCopied',
         saver'.timer => saver.timer, saver'.pending => saver.pending,
         budget'.hurry = budget.hurry,
         saver'.saving => saver.saving \/ page.mode # "loading" \/ budget.hurry
  PROVE  IInv'
  <1>1. /\ FamilyTypeOK /\ page \in PageState
        /\ FrontKnown /\ LoadKnown /\ WaitingKnown /\ ForegroundKnown
    BY IInvParts
  <1>2. FamilyTypeOK' /\ FrontKnown' /\ (NoBackground => NoBackground') /\ builds' = builds
    BY <1>1, FrontKeeps
  <1>3. WaitingKnown' BY <1>1 DEF WaitingKnown
  <1>4. LoadKnown' BY <1>1, <1>2 DEF LoadKnown
  <1>5. ForegroundKnown' BY <1>1, <1>2 DEF ForegroundKnown
  <1> QED BY <1>1, <1>2, <1>3, <1>4, <1>5, IInvNext

LEMMA SignInStep ==
  ASSUME IInv, SignIn
  PROVE  IInv'
  <1>1. /\ page \in PageState /\ BackTypeOK /\ BackKnown /\ WaitingKnown
    BY IInvParts
  <1>2. /\ ~session.signed /\ (budget.hurry \/ page.mode # "loading")
        /\ session' = [session EXCEPT !.signed = TRUE]
        /\ page' = page /\ stored' = stored /\ budget' = budget /\ UNCHANGED family_vars
    BY DEF SignIn
  <1>3. SessionKept /\ session'.signed BY <1>1, <1>2 DEF BackTypeOK, SessionKept, SessionState
  <1>4. BudgetKept BY <1>1, <1>2, SameBudget DEF BackTypeOK
  <1>5. CASE saver' = saver
    <2>1. BackKnown' /\ (NothingCopied => NothingCopied') BY <1>1, <1>2, <1>3, <1>4, <1>5, BackKeeps
    <2>2. BackTypeOK' BY <1>1, <1>2, <1>3, <1>5 DEF BackTypeOK, SessionKept
    <2> QED BY <1>2, <1>5, <2>1, <2>2, SaverStep
  <1>6. CASE /\ saver.pending
             /\ saver' = Saving([saver EXCEPT !.pending = FALSE], page.plan, FALSE)
    <2> DEFINE sv == [saver EXCEPT !.pending = FALSE]
    <2>1. sv \in SaverState /\ sv.out = saver.out /\ ~sv.pending /\ sv.timer = saver.timer
      BY <1>1 DEF BackTypeOK, SaverState
    <2>2. saver' = Saving(sv, page.plan, FALSE) BY <1>6
    <2> HIDE DEF sv
    <2>3. page.plan \in Plan BY <1>1, <1>6 DEF WaitingKnown
    <2>4. ~saver.saving BY <1>1, <1>2 DEF BackKnown, SignedFirst
    <2>5. /\ BackTypeOK' /\ BackKnown' /\ (NothingCopied => NothingCopied')
          /\ saver'.timer = sv.timer /\ saver'.pending = sv.pending
      BY <1>1, <1>2, <1>3, <1>4, <2>1, <2>2, <2>3, <2>4, SavingKeeps
    <2> QED BY <1>2, <1>6, <2>1, <2>5, SaverStep
  <1> QED BY <1>5, <1>6 DEF SignIn

LEMMA TimerFiresStep ==
  ASSUME IInv, TimerFires
  PROVE  IInv'
  <1> DEFINE off == [saver EXCEPT !.timer = FALSE]
  <1>1. /\ page \in PageState /\ BackTypeOK /\ BackKnown /\ WaitingKnown
    BY IInvParts
  <1>2. /\ saver.timer
        /\ saver' = IF SaveNeeded(page, saver) THEN Saving(off, page.plan, TRUE) ELSE off
        /\ session' = session /\ page' = page /\ stored' = stored /\ budget' = budget
        /\ UNCHANGED family_vars
    BY DEF TimerFires
  <1>3. /\ off \in SaverState /\ off.out = saver.out /\ off.saving = saver.saving
        /\ ~off.timer /\ off.pending = saver.pending
    BY <1>1 DEF BackTypeOK, SaverState
  <1> HIDE DEF off
  <1>4. SessionKept BY <1>1, <1>2 DEF BackTypeOK, SessionKept
  <1>5. BudgetKept BY <1>1, <1>2, SameBudget DEF BackTypeOK
  <1>6. CASE SaveNeeded(page, saver)
    <2>1. session.ownership = "own" /\ ~saver.saving /\ page.mode # "loading"
      BY <1>6 DEF SaveNeeded
    <2>2. session'.signed BY <1>1, <1>2, <2>1 DEF BackKnown, SignedFirst
    <2>3. page.plan \in Plan BY <1>1, <1>2 DEF WaitingKnown
    <2>4. saver' = Saving(off, page.plan, TRUE) BY <1>2, <1>6
    <2>5. /\ BackTypeOK' /\ BackKnown' /\ (NothingCopied => NothingCopied')
          /\ saver'.timer = off.timer /\ saver'.pending = off.pending
      BY <1>1, <1>2, <1>3, <1>4, <1>5, <2>1, <2>2, <2>3, <2>4, SavingKeeps
    <2> QED BY <1>2, <1>3, <2>1, <2>5, SaverStep
  <1>7. CASE saver' = off
    <2>1. BackTypeOK' /\ BackKnown' /\ (NothingCopied => NothingCopied')
      BY <1>1, <1>2, <1>3, <1>5, <1>7, BackStill
    <2> QED BY <1>2, <1>3, <1>7, <2>1, SaverStep
  <1> QED BY <1>2, <1>6, <1>7

LEMMA CommitStep ==
  ASSUME IInv, NEW s \in saver.out, Commit(s)
  PROVE  IInv'
  <1>1. BackTypeOK /\ BackKnown BY IInvParts
  <1>2. /\ s.phase = "sent"
        /\ session' = session /\ page' = page /\ budget' = budget /\ UNCHANGED family_vars
    BY DEF Commit
  <1>3. s \in PublishRequest BY <1>1 DEF BackTypeOK, SaverState
  <1>4. \A phase \in {"sent", "done", "failed"}, pid \in Nat \cup {None} :
          [s EXCEPT !.phase = phase, !.pid = pid] \in PublishRequest
    BY <1>3 DEF PublishRequest
  <1>5. CASE /\ s.mode = "overwrite" /\ stored[s.pid].mine
             /\ stored' = [stored EXCEPT ![s.pid].plan = s.plan]
             /\ saver' = Moved(s, [s EXCEPT !.phase = "done"])
    <2>1. [s EXCEPT !.phase = "done"] \in PublishRequest BY <1>3 DEF PublishRequest
    <2>2. BackTypeOK' /\ BackKnown' /\ (NothingCopied => NothingCopied')
      BY <1>1, <1>2, <1>5, CommitOverwrites
    <2>3. saver'.saving = saver.saving /\ saver'.timer = saver.timer /\ saver'.pending = saver.pending
      BY <1>1, <1>5, <2>1, MovedOut
    <2> QED BY <1>2, <2>2, <2>3, SaverStep
  <1>6. CASE /\ s.mode # "overwrite"
             /\ stored' = Append(stored, [mine |-> TRUE, plan |-> s.plan, by |-> s.mode])
             /\ saver' = Moved(s, [s EXCEPT !.phase = "done", !.pid = Len(stored) + 1])
    <2>1. [s EXCEPT !.phase = "done", !.pid = Len(stored) + 1] \in PublishRequest
      <3>1. Len(stored) + 1 \in Nat BY <1>1 DEF BackTypeOK
      <3> QED BY <1>4, <3>1
    <2>2. BackTypeOK' /\ BackKnown' /\ (NothingCopied => NothingCopied')
      BY <1>1, <1>2, <1>6, CommitAppends
    <2>3. saver'.saving = saver.saving /\ saver'.timer = saver.timer /\ saver'.pending = saver.pending
      BY <1>1, <1>6, <2>1, MovedOut
    <2> QED BY <1>2, <2>2, <2>3, SaverStep
  <1>7. ~(s.mode = "overwrite" /\ ~stored[s.pid].mine) BY <1>1 DEF BackKnown, OutKnown
  <1> QED BY <1>5, <1>6, <1>7 DEF Commit

LEMMA PublishFailsStep ==
  ASSUME IInv, NEW s \in saver.out, PublishFails(s)
  PROVE  IInv'
  <1>1. BackTypeOK /\ BackKnown BY IInvParts
  <1>2. /\ Fails("publish") \/ Fails("answer")
        /\ saver' = Moved(s, [s EXCEPT !.phase = "failed"])
        /\ session' = session /\ page' = page /\ stored' = stored /\ UNCHANGED family_vars
    BY DEF PublishFails
  <1>3. BudgetKept /\ budget' = [budget EXCEPT !.failures = @ + 1]
    BY <1>1, <1>2, FailsKeeps DEF BackTypeOK
  <1>4. BackTypeOK' /\ BackKnown' /\ (NothingCopied => NothingCopied')
    BY <1>1, <1>2, <1>3, RefusalKeeps
  <1>5. s \in PublishRequest BY <1>1 DEF BackTypeOK, SaverState
  <1>6. [s EXCEPT !.phase = "failed"] \in PublishRequest BY <1>5 DEF PublishRequest
  <1>7. saver'.saving = saver.saving /\ saver'.timer = saver.timer /\ saver'.pending = saver.pending
    BY <1>1, <1>2, <1>6, MovedOut
  <1> QED BY <1>2, <1>3, <1>4, <1>7, SaverStep DEF BudgetKept

LEMMA PublishAnswersStep ==
  ASSUME IInv, NEW s \in saver.out, PublishAnswers(s)
  PROVE  IInv'
  <1>1. BackTypeOK /\ BackKnown BY IInvParts
  <1>2. /\ BackTypeOK' /\ BackKnown' /\ (NothingCopied => NothingCopied')
        /\ saver'.timer = saver.timer /\ saver'.pending = saver.pending /\ ~saver'.saving
    BY <1>1, AnswerKeeps
  <1> QED BY <1>2, SaverStep DEF PublishAnswers

LEMMA LoadAnswersStep ==
  ASSUME IInv, LoadAnswers
  PROVE  IInv'
  <1> DEFINE row == stored[session.props]
             key == [stops |-> row.plan.stops, how |-> row.plan.how, flavour |-> "background"]
  <1>1. /\ FamilyTypeOK /\ page \in PageState /\ BackTypeOK
        /\ FrontKnown /\ WaitingKnown /\ BackKnown /\ ForegroundKnown
    BY IInvParts
  <1>2. NoBackground /\ NothingCopied BY DEF LoadAnswers, IInv, LoadKnown
  <1>3. BackTypeOK' /\ BackKnown' /\ saver' = saver /\ row.plan \in Plan
    BY <1>1, <1>2, LoadKeeps
  <1>4. row.plan.comp \in Composition /\ key \in Key /\ key.flavour = "background"
    BY <1>3 DEF Plan, Key, Flavour
  <1>5. row.plan \in [stops : Itinerary \cup {None}, how : How, comp : Composition \cup {None}]
    BY <1>3 DEF Plan
  <1>6. ~Held(key) BY <1>2, <1>4 DEF NoBackground
  <1>7. /\ StartFamily(key, row.plan.comp, "background")
        /\ page' = [page EXCEPT !.load = "none", !.mode = "display", !.plan = row.plan,
                                !.asked = row.plan, !.views = row.plan]
        /\ budget' = budget
    BY <1>6 DEF LoadAnswers
  <1> HIDE DEF row, key
  <1>8. /\ page' \in PageState /\ page'.plan = row.plan /\ page'.views = row.plan
        /\ page'.last = page.last /\ page'.toast = page.toast /\ page'.load = "none"
        /\ page'.mode = "display"
    BY <1>1, <1>3, <1>5, <1>7 DEF PageState
  <1>9. "background" \in Purpose BY DEF Purpose
  <1>10. /\ FamilyTypeOK' /\ FamilyKnown' /\ FetchesFit(fetches', row.plan)
         /\ builds' = {[key |-> key, presented |-> row.plan.comp, purpose |-> "background"]}
    BY <1>1, <1>4, <1>7, <1>9, StartKeeps
  <1>11. \A b \in builds' : b.purpose = "background" BY <1>10
  <1>12. FrontKnown'
    <2>1. ScreenKnown' BY <1>8, <1>10 DEF ScreenKnown, ViewsFitTheMember
    <2>2. LastKnown' BY <1>1, <1>8, <1>11 DEF FrontKnown, LastKnown, Foreground
    <2> QED BY <1>10, <2>1, <2>2 DEF FrontKnown
  <1>13. WaitingKnown' BY <1>3, <1>8 DEF WaitingKnown
  <1>14. LoadKnown' BY <1>8 DEF LoadKnown
  <1>15. ForegroundKnown' BY <1>11 DEF ForegroundKnown, Foreground
  <1> QED BY <1>3, <1>8, <1>10, <1>12, <1>13, <1>14, <1>15, IInvNext

LEMMA RetryLoadStep ==
  ASSUME IInv, RetryLoad
  PROVE  IInv'
  <1>1. /\ FamilyTypeOK /\ page \in PageState /\ BackTypeOK
        /\ FrontKnown /\ LoadKnown /\ WaitingKnown /\ BackKnown /\ ForegroundKnown
    BY IInvParts
  <1>2. /\ page.load = "failed"
        /\ page' = [page EXCEPT !.load = "out", !.mode = "loading"]
        /\ saver' = saver /\ budget' = budget /\ UNCHANGED family_vars
    BY DEF RetryLoad
  <1>3. NoBackground /\ NothingCopied BY <1>1, <1>2 DEF LoadKnown
  <1>4. BackTypeOK' /\ BackKnown' /\ NothingCopied' BY <1>1, <1>3, ReloadKeeps
  <1>5. /\ page' \in PageState /\ page'.plan = page.plan /\ page'.views = page.views
        /\ page'.last = page.last /\ page'.toast = page.toast /\ page'.mode = "loading"
    BY <1>1, <1>2 DEF PageState
  <1>6. FamilyTypeOK' /\ FrontKnown' /\ NoBackground' /\ builds' = builds
    BY <1>1, <1>2, <1>3, <1>5, FrontKeeps
  <1>7. WaitingKnown' BY <1>1, <1>2, <1>5 DEF WaitingKnown
  <1>8. LoadKnown' BY <1>4, <1>6 DEF LoadKnown
  <1>9. ForegroundKnown' BY <1>1, <1>2, <1>5, <1>6 DEF ForegroundKnown
  <1> QED BY <1>4, <1>5, <1>6, <1>7, <1>8, <1>9, IInvNext

\* A request that ends is the only one, and it names the family.
LEMMA BuildOut ==
  ASSUME FamilyTypeOK, FamilyKnown, NEW b \in builds
  PROVE  /\ b \in Build /\ DocumentOf(b) \in Document
         /\ b.key = family.key /\ family.document = None
         /\ builds \ {b} = {}
  <1>1. b \in Build BY DEF FamilyTypeOK
  <1>2. DocumentOf(b) \in Document BY <1>1 DEF DocumentOf, Document, Build
  <1> QED BY <1>1, <1>2 DEF FamilyKnown

LEMMA NotOffering ==
  ASSUME FamilyTypeOK, FrontKnown, NEW b \in builds
  PROVE  page.mode # "suggest"
  BY DEF FrontKnown, FamilyKnown, ScreenKnown

LEMMA BuildAnswersStep ==
  ASSUME IInv, NEW b \in builds, BuildAnswers(b)
  PROVE  IInv'
  <1> DEFINE doc == DocumentOf(b)
             fs == Disown(fetches)
  <1>1. /\ FamilyTypeOK /\ page \in PageState /\ BackTypeOK
        /\ FrontKnown /\ LoadKnown /\ WaitingKnown /\ BackKnown /\ ForegroundKnown
    BY IInvParts
  <1>2. /\ family' = [family EXCEPT !.status = "complete", !.document = doc]
        /\ builds' = builds \ {b} /\ cache' = cache
        /\ Continue(page, saver, doc, b.purpose, fs)
        /\ session' = session /\ stored' = stored /\ budget' = budget
    BY DEF BuildAnswers, HoldDocument
  <1>3. /\ b \in Build /\ doc \in Document /\ b.key = family.key
        /\ family.document = None /\ builds' = {} /\ doc.key = b.key
    BY <1>1, <1>2, BuildOut DEF FrontKnown, DocumentOf
  <1>4. page.mode # "suggest" BY <1>1, NotOffering
  <1>5. fs \in SUBSET Fetch /\ FetchesFit(fs, page.plan)
    BY <1>1, DisownedFit DEF FamilyTypeOK
  <1>6. page.views # None => page.views = page.plan
    BY <1>1 DEF FrontKnown, ScreenKnown, ViewsFitTheMember
  <1> HIDE DEF doc, fs
  <1>7. /\ ScreenFollows(page, doc, fs) /\ MayPublish(saver)
        /\ b.purpose = "background" => page' = page /\ saver' = saver
        /\ page'.toast => page.toast \/ b.purpose # "background"
    BY <1>1, <1>2, <1>3, <1>5, <1>6, ContinueFollows
  <1>8. /\ family' \in [status : {"idle", "loading", "complete", "error"},
                        key : Key \cup {None}, document : Document \cup {None}]
        /\ family'.document = doc /\ family'.key = family.key /\ family'.status = "complete"
    BY <1>1, <1>2, <1>3 DEF FamilyTypeOK
  <1>9. FamilyTypeOK' BY <1>1, <1>2, <1>3, <1>7, <1>8 DEF FamilyTypeOK, ScreenFollows
  <1>10. FrontKnown'
    <2>1. FamilyKnown' BY <1>3, <1>8 DEF FamilyKnown
    <2>2. doc # None BY <1>3, PageAssumption
    <2>3. ScreenKnown'
      BY <1>4, <1>7, <1>8, <2>2 DEF ScreenKnown, ViewsFitTheMember, ScreenFollows
    <2>4. LastKnown'
      BY <1>1, <1>3, <1>7 DEF FrontKnown, LastKnown, ScreenFollows, Foreground
    <2> QED BY <2>1, <2>3, <2>4 DEF FrontKnown
  <1>11. budget.hurry \/ ~saver.saving \/ saver' = saver
    BY <1>1, <1>7 DEF ForegroundKnown, Foreground
  <1>12. /\ BackTypeOK' /\ BackKnown' /\ WaitingKnown'
         /\ NothingCopied => NothingCopied'
    BY <1>1, <1>2, <1>7, <1>11, PublishKeeps DEF BackTypeOK, ScreenFollows
  <1>13. NoBackground => NoBackground'
    BY <1>3, <1>8 DEF NoBackground, Held
  <1>14. LoadKnown' BY <1>1, <1>7, <1>12, <1>13 DEF LoadKnown, ScreenFollows
  <1>15. ForegroundKnown' BY <1>3 DEF ForegroundKnown
  <1> QED BY <1>7, <1>9, <1>10, <1>12, <1>14, <1>15, IInvNext DEF ScreenFollows

LEMMA BuildFailsStep ==
  ASSUME IInv, NEW b \in builds, BuildFails(b)
  PROVE  IInv'
  <1>1. /\ FamilyTypeOK /\ page \in PageState /\ BackTypeOK
        /\ FrontKnown /\ LoadKnown /\ WaitingKnown /\ BackKnown /\ ForegroundKnown
    BY IInvParts
  <1>2. /\ family' = [family EXCEPT !.status = "error"]
        /\ builds' = builds \ {b} /\ fetches' = fetches /\ cache' = cache
        /\ page' = IF b.purpose = "background" THEN page
                   ELSE [page EXCEPT !.mode = "edit", !.toast = TRUE]
        /\ session' = session /\ saver' = saver /\ stored' = stored
    BY DEF BuildFails, HoldFailure
  <1>3. b \in Build /\ builds' = {} BY <1>1, <1>2, BuildOut DEF FrontKnown
  <1>4. page.mode # "suggest" BY <1>1, NotOffering
  <1>5. /\ page' \in PageState /\ page'.plan = page.plan /\ page'.views = page.views
        /\ page'.last = page.last /\ page'.load = page.load /\ page'.mode # "suggest"
        /\ page'.toast => page.toast \/ b.purpose # "background"
    BY <1>1, <1>2, <1>4 DEF PageState
  <1>6. /\ family' \in [status : {"idle", "loading", "complete", "error"},
                        key : Key \cup {None}, document : Document \cup {None}]
        /\ family'.document = family.document /\ family'.key = family.key
        /\ family'.status = "error"
    BY <1>1, <1>2 DEF FamilyTypeOK
  <1>7. FamilyTypeOK' BY <1>1, <1>2, <1>3, <1>6 DEF FamilyTypeOK
  <1>8. FrontKnown'
    <2>1. FamilyKnown' BY <1>1, <1>3, <1>6 DEF FrontKnown, FamilyKnown
    <2>2. ScreenKnown'
      BY <1>1, <1>2, <1>5 DEF FrontKnown, ScreenKnown, ViewsFitTheMember, FetchesFit
    <2>3. LastKnown' BY <1>1, <1>3, <1>5 DEF FrontKnown, LastKnown, Foreground
    <2> QED BY <2>1, <2>2, <2>3 DEF FrontKnown
  <1>9. BudgetKept BY <1>1, FailsKeeps DEF BuildFails, BackTypeOK
  <1>10. BackTypeOK' /\ BackKnown' /\ (NothingCopied => NothingCopied')
    BY <1>1, <1>2, <1>9, BackStill DEF BackTypeOK
  <1>11. WaitingKnown' BY <1>1, <1>2, <1>5 DEF WaitingKnown
  <1>12. NoBackground => NoBackground' BY <1>3, <1>6 DEF NoBackground, Held
  <1>13. LoadKnown' BY <1>1, <1>5, <1>10, <1>12 DEF LoadKnown
  <1>14. ForegroundKnown' BY <1>3 DEF ForegroundKnown
  <1> QED BY <1>5, <1>7, <1>8, <1>10, <1>11, <1>13, <1>14, IInvNext

\* A step of a fetch: at most the views on screen are new.
LEMMA FetchStep ==
  ASSUME IInv, NEW f \in fetches, fetches' = fetches \ {f},
         family' = family, builds' = builds, cache' \subseteq Views,
         session' = session, saver' = saver, stored' = stored, BudgetKept,
         page' = page \/ (f.latest /\ ~f.stale /\
                          page' = [page EXCEPT !.views = PlanOf(f.key, f.composition)])
  PROVE  IInv'
  <1>1. /\ FamilyTypeOK /\ page \in PageState /\ BackTypeOK
        /\ FrontKnown /\ LoadKnown /\ WaitingKnown /\ BackKnown /\ ForegroundKnown
    BY IInvParts
  <1>2. f.key \in Key /\ f.composition \in Composition BY <1>1 DEF FamilyTypeOK, Fetch
  <1>3. PlanOf(f.key, f.composition) \in Plan BY <1>2, PlanOfType
  <1>4. f.latest /\ ~f.stale => page.plan = PlanOf(f.key, f.composition)
    BY <1>1 DEF FrontKnown, ScreenKnown, FetchesFit
  <1>5. /\ page' \in PageState /\ page'.plan = page.plan /\ page'.mode = page.mode
        /\ page'.last = page.last /\ page'.load = page.load /\ page'.toast = page.toast
        /\ page'.base = page.base
        /\ page'.views = page.views \/ page'.views = page.plan
    BY <1>1, <1>3, <1>4 DEF PageState
  <1>6. FamilyTypeOK' BY <1>1 DEF FamilyTypeOK
  <1>7. FrontKnown'
    <2>1. FamilyKnown' BY <1>1 DEF FrontKnown, FamilyKnown
    <2>2. ScreenKnown'
      BY <1>1, <1>5 DEF FrontKnown, ScreenKnown, ViewsFitTheMember, FetchesFit
    <2>3. LastKnown' BY <1>1, <1>5 DEF FrontKnown, LastKnown
    <2> QED BY <2>1, <2>2, <2>3 DEF FrontKnown
  <1>8. BackTypeOK' /\ BackKnown' /\ (NothingCopied => NothingCopied')
    BY <1>1, BackStill DEF BackTypeOK
  <1>9. WaitingKnown' BY <1>1, <1>5 DEF WaitingKnown
  <1>10. LoadKnown' BY <1>1, <1>5, <1>8 DEF LoadKnown, NoBackground, Held
  <1>11. ForegroundKnown' BY <1>1, <1>5 DEF ForegroundKnown, BudgetKept
  <1> QED BY <1>5, <1>6, <1>7, <1>8, <1>9, <1>10, <1>11, IInvNext

LEMMA ViewsAnswerStep ==
  ASSUME IInv, NEW f \in fetches, ViewsAnswer(f)
  PROVE  IInv'
  <1>1. FamilyTypeOK /\ budget \in Budget BY DEF IInv, PageTypeOK
  <1>2. BudgetKept BY <1>1, SameBudget DEF ViewsAnswer
  <1>3. [key |-> f.key, composition |-> f.composition] \in Views
    BY <1>1 DEF FamilyTypeOK, Fetch, Views
  <1>4. cache' \subseteq Views BY <1>1, <1>3 DEF ViewsAnswer, FamilyTypeOK
  <1> QED BY <1>2, <1>4, FetchStep DEF ViewsAnswer

LEMMA ViewsFailStep ==
  ASSUME IInv, NEW f \in fetches, ViewsFail(f)
  PROVE  IInv'
  <1>1. FamilyTypeOK /\ budget \in Budget BY DEF IInv, PageTypeOK
  <1>2. BudgetKept BY <1>1, FailsKeeps DEF ViewsFail
  <1>3. cache' \subseteq Views BY <1>1 DEF ViewsFail, FamilyTypeOK
  <1> QED BY <1>2, <1>3, FetchStep DEF ViewsFail

-----------------------------------------------------------------------------
(* The page as a whole.                                                     *)

LEMMA InitIInv ==
  ASSUME Init
  PROVE  IInv
  <1>1. PICK opening \in Openings : Opened(opening) BY DEF Init
  <1> DEFINE plan == [stops |-> CHOOSE i \in Itinerary : TRUE, how |-> AtRest, comp |-> Default]
             row == [mine |-> opening = "own", by |-> "before", plan |-> plan]
  <1>2. plan \in Plan BY PageAssumption DEF Plan
  <1>3. row \in StoredRow /\ row.by = "before" BY <1>2 DEF StoredRow
  <1> HIDE DEF plan
  <1>4. /\ stored = IF opening = "builder" THEN <<>> ELSE <<row>>
        /\ page = [mode |-> IF opening = "builder" THEN "edit" ELSE "loading",
                   asked |-> Unasked, plan |-> None, base |-> None, views |-> None,
                   last |-> None, toast |-> FALSE,
                   load |-> IF opening = "builder" THEN "none" ELSE "out"]
        /\ session \in [props : {IF opening = "builder" THEN None ELSE 1}, published : {None},
                        ownership : {"unknown"}, saved : {None}, signed : BOOLEAN]
    BY <1>1 DEF Opened, plan
  <1> HIDE DEF row
  <1>5. /\ saver = [timer |-> FALSE, pending |-> FALSE, saving |-> FALSE, out |-> {}]
        /\ budget \in [edits : {0}, failures : {0}, hurry : Hurries]
        /\ family = NoFamily /\ builds = {} /\ fetches = {} /\ cache = {}
    BY DEF Init
  <1>6. FamilyTypeOK BY <1>5 DEF FamilyTypeOK, NoFamily
  <1>7. Unasked \in [stops : Itinerary \cup {None}, how : How, comp : Composition \cup {None}]
    BY PageAssumption DEF Unasked
  <1>8. page \in PageState BY <1>4, <1>7 DEF PageState
  <1>9. stored \in Seq(StoredRow) /\ \A pid \in DOMAIN stored : stored[pid].by = "before"
    BY <1>3, <1>4
  <1>10. BackTypeOK
    <2>1. session \in SessionState BY <1>4 DEF SessionState
    <2>2. saver \in SaverState BY <1>5 DEF SaverState
    <2>3. IsFiniteSet(saver.out) BY <1>5, FS_EmptySet
    <2>4. budget \in Budget BY <1>5, PageAssumption DEF Budget
    <2> QED BY <1>9, <2>1, <2>2, <2>3, <2>4 DEF BackTypeOK
  <1>11. FrontKnown
    BY <1>4, <1>5
    DEF FrontKnown, FamilyKnown, ScreenKnown, ViewsFitTheMember, FetchesFit, LastKnown, NoFamily,
        LastState, Foreground
  <1>12. \A kind \in {"new", "copy"} : Created(kind) = {} BY <1>9 DEF Created
  <1>13. LoadKnown
    <2>1. NoBackground BY <1>5 DEF NoBackground, Held, NoFamily
    <2>2. page.load # "none" => NothingCopied
      <3> SUFFICES ASSUME page.load # "none" PROVE NothingCopied OBVIOUS
      <3>1. opening # "builder" BY <1>4
      <3>2. stored = <<row>> /\ session.props = 1 /\ session.ownership = "unknown"
        BY <1>4, <3>1
      <3> QED BY <1>5, <1>12, <3>2 DEF NothingCopied
    <2> QED BY <2>1, <2>2 DEF LoadKnown
  <1>14. WaitingKnown BY <1>5 DEF WaitingKnown
  <1>15. BackKnown
    <2>1. session.published = None /\ session.ownership = "unknown" BY <1>4
    <2>2. CountsKnown
      <3>1. Cardinality({}) = 0 BY FS_EmptySet
      <3>2. budget.failures \in Nat BY <1>5
      <3> QED BY <1>12, <3>1, <3>2 DEF CountsKnown
    <2> QED BY <1>5, <2>1, <2>2
        DEF BackKnown, SessionKnown, OutKnown, SignedFirst, OneAtATime, SavedKnown, SavedTellsTheStore
  <1>16. ForegroundKnown BY <1>5 DEF ForegroundKnown
  <1> QED BY <1>6, <1>8, <1>10, <1>11, <1>13, <1>14, <1>15, <1>16, IInvParts

LEMMA NextIInv ==
  ASSUME IInv, [Next]_vars
  PROVE  IInv'
  <1>1. CASE \E stops \in Itinerary : EditStops(stops) \/ ConfirmStops(stops)
    BY <1>1, EditStopsStep, ConfirmStopsStep
  <1>2. CASE \E how \in How : ChangeHow(how) BY <1>2, ChangeHowStep
  <1>3. CASE \E comp \in Composition : PickComposition(comp) BY <1>3, PickCompositionStep
  <1>4. CASE StartEdit \/ CancelEdit \/ Evaluate \/ Recalculate
    BY <1>4, StartEditStep, CancelEditStep, EvaluateStep, RecalculateStep
  <1>5. CASE ConfirmNone \/ CancelSuggest \/ Retry \/ Cancel \/ SignIn \/ RetryLoad
    BY <1>5, ConfirmNoneStep, CancelSuggestStep, RetryStep, CancelStep, SignInStep, RetryLoadStep
  <1>6. CASE \E b \in builds : BuildAnswers(b) \/ BuildFails(b)
    BY <1>6, BuildAnswersStep, BuildFailsStep
  <1>7. CASE \E f \in fetches : ViewsAnswer(f) \/ ViewsFail(f)
    BY <1>7, ViewsAnswerStep, ViewsFailStep
  <1>8. CASE LoadAnswers \/ LoadFails \/ TimerFires
    BY <1>8, LoadAnswersStep, LoadFailsStep, TimerFiresStep
  <1>9. CASE \E s \in saver.out : Commit(s) \/ PublishFails(s) \/ PublishAnswers(s)
    BY <1>9, CommitStep, PublishFailsStep, PublishAnswersStep
  <1>10. CASE UNCHANGED vars
    <2>1. /\ UNCHANGED family_vars /\ page' = page /\ session' = session
          /\ saver' = saver /\ stored' = stored /\ budget' = budget
      BY <1>10 DEF vars, page_vars
    <2>2. page \in PageState /\ budget \in Budget BY DEF IInv, PageTypeOK
    <2> QED BY <2>1, <2>2, SameBudget, PageStep
  <1> QED BY <1>1, <1>2, <1>3, <1>4, <1>5, <1>6, <1>7, <1>8, <1>9, <1>10
      DEF Next, User, Answer

THEOREM PageInvariant == Spec => []IInv
  <1>1. Init => IInv BY InitIInv
  <1>2. IInv /\ [Next]_vars => IInv' BY NextIInv
  <1> QED BY <1>1, <1>2, PTL DEF Spec

\* The types of the page, the session, the saver, the store and the family.
THEOREM PageTypes == Spec => []PageTypeOK
  <1>1. IInv => PageTypeOK BY DEF IInv
  <1> QED BY <1>1, PageInvariant, PTL

\* requestFamily(), run(): a document that lands is of the family asked for
\* last, for as many requests as are made and whenever their answers come.
THEOREM OnlyTheAskedFamilyLands == Spec => []FamilyIsTheAskedOne
  <1>1. IInv => FamilyIsTheAskedOne
    <2> SUFFICES ASSUME FamilyKnown PROVE FamilyIsTheAskedOne BY DEF IInv, FrontKnown
    <2>1. Cardinality(builds) <= 1
      <3>1. CASE builds = {} BY <3>1, FS_EmptySet
      <3>2. CASE builds # {}
        <4>1. PICK b : builds = {b} BY <3>2 DEF FamilyKnown
        <4>2. Cardinality({b}) = 1 BY FS_Singleton
        <4> QED BY <4>1, <4>2
      <3> QED BY <3>1, <3>2
    <2> QED BY <2>1 DEF FamilyKnown, FamilyIsTheAskedOne
  <1> QED BY <1>1, PageInvariant, PTL

\* loadViews(): the views on screen are those of the member on screen.
THEOREM ViewsAreTheMembers == Spec => []ViewsFitTheMember
  <1>1. IInv => ViewsFitTheMember BY DEF IInv, FrontKnown, ScreenKnown
  <1> QED BY <1>1, PageInvariant, PTL

\* doPublish(): no request of the page ever asks to overwrite what is another's.
THEOREM NoStrangerIsOverwritten == Spec => []StrangersWorkStands
  <1>1. IInv => StrangersWorkStands BY DEF IInv, BackKnown, OutKnown, StrangersWorkStands
  <1> QED BY <1>1, PageInvariant, PTL

\* doPublish(), onPublished(): whoever waits for each save makes one proposal
\* and one copy, and one more for each answer that was lost.
THEOREM OneProposalEach == Spec => []OneProposalPerSession
  <1>1. IInv => OneProposalPerSession BY DEF IInv, BackKnown, CountsKnown, OneProposalPerSession
  <1> QED BY <1>1, PageInvariant, PTL

\* selectionSaveNeeded(): what a selection is compared with is what is stored.
THEOREM SavedIsStored == Spec => []SavedTellsTheStore
  <1>1. IInv => SavedTellsTheStore BY DEF IInv, BackKnown, SavedKnown, SavedTellsTheStore
  <1> QED BY <1>1, PageInvariant, PTL
=============================================================================
