-------------------------- MODULE OntdBootstrapProofs --------------------------
(***************************************************************************)
(* What overlapping runs of bootstrap.py keep, for every number of runs,   *)
(* stops, catalog versions and disturbances.  That the summaries tell of   *)
(* the loaded timetable is not inductive: a projection writes the edition  *)
(* it read several steps before.  The strengthening says what the locks    *)
(* are for: while a projection has read the timetable, no loader is past   *)
(* the DROP of the canonical tables, and the edition it read is loaded.    *)
(***************************************************************************)
EXTENDS OntdBootstrap, TLAPS

Runs ==
  [at : Phases, force : BOOLEAN, facts : SUBSET Reading, todo : SUBSET StepNames,
   edition : Editions \cup {0}, kept : SUBSET OntdStops, ids : Ids, routed : BOOLEAN]

\* What HasRead() and HoldsTimetable() ask, of a run by itself.
Reads(r) == r.at \in {"upsert", "lock", "write"} /\ "timetable" \notin r.todo
Replaces(r) == r.at \in {"match", "upsert", "write"} /\ "timetable" \in r.todo

\* Only a run that is to load the timetable drops its tables, and only a
\* projection asks for the lock of the summaries after it has read.
DropsToLoad(r) ==
  /\ r.at \in {"drop", "rest"} => "timetable" \in r.todo
  /\ r.at = "lock" => "timetable" \notin r.todo

\* What a projection has read is what is loaded, and nobody is replacing it.
ReadersAreCurrent ==
  \A b \in Booters : Reads(boot[b]) =>
    /\ boot[b].edition = timetable
    /\ \A o \in Booters : ~Replaces(boot[o])

IInv ==
  /\ TypeOK
  /\ \A b \in Booters : DropsToLoad(boot[b])
  /\ ReadersAreCurrent
  /\ summaries.of = timetable

-----------------------------------------------------------------------------
(* Types.                                                                   *)

LEMMA OffType ==
  Off \in Runs
  BY DEF Off, Runs, Phases, Ids

\* Where a plan begins.
LEMMA BeginType ==
  ASSUME NEW todo \in SUBSET StepNames
  PROVE  /\ GoesOn(todo) \in Runs
         /\ GoesOn(todo).at = Begin(todo) /\ GoesOn(todo).todo = todo
         /\ Begin(todo) \in {"drop", "check", "match", "off"}
         /\ Begin(todo) = "drop" <=> "timetable" \in todo
  <1>1. /\ Begin(todo) \in {"drop", "check", "match", "off"}
        /\ Begin(todo) = "drop" <=> "timetable" \in todo
    BY DEF Begin
  <1> QED BY <1>1, OffType DEF GoesOn, Off, Runs, Phases

\* A run that becomes what Runs holds leaves the table of runs typed.
LEMMA BecomesType ==
  ASSUME TypeOK, NEW b \in Booters, NEW now \in Runs, Becomes(b, now)
  PROVE  /\ boot' \in [Booters -> Runs]
         /\ boot'[b] = now
         /\ \A o \in Booters \ {b} : boot'[o] = boot[o]
  BY DEF TypeOK, Becomes, Runs

\* A run that neither reads nor replaces the timetable, beside tables that
\* keep theirs, takes nothing from the others.
LEMMA Harmless ==
  ASSUME IInv, NEW b \in Booters, NEW now \in Runs, Becomes(b, now),
         UNCHANGED <<timetable, summaries>>,
         DropsToLoad(now), ~Reads(now), ~Replaces(now)
  PROVE  /\ \A o \in Booters : DropsToLoad(boot'[o])
         /\ ReadersAreCurrent'
         /\ summaries'.of = timetable'
  BY BecomesType DEF IInv, ReadersAreCurrent

\* The rest of the types, where a step changes the runs only.
LEMMA TypeOfRuns ==
  ASSUME TypeOK, NEW b \in Booters, NEW now \in Runs, Becomes(b, now),
         UNCHANGED <<tables, stops, router>>, disturbances' \in 0 .. MaxDisturbances
  PROVE  TypeOK'
  <1>1. boot' \in [Booters -> Runs] BY BecomesType
  <1> QED BY <1>1 DEF TypeOK, tables, Runs

LEMMA HarmlessInv ==
  ASSUME IInv, NEW b \in Booters, NEW now \in Runs, Becomes(b, now),
         UNCHANGED <<tables, stops, router>>, disturbances' \in 0 .. MaxDisturbances,
         DropsToLoad(now), ~Reads(now), ~Replaces(now)
  PROVE  IInv'
  <1>1. UNCHANGED <<timetable, summaries>> BY DEF tables
  <1>2. TypeOK' BY TypeOfRuns DEF IInv
  <1>3. /\ \A o \in Booters : DropsToLoad(boot'[o])
        /\ ReadersAreCurrent'
        /\ summaries'.of = timetable'
    BY <1>1, Harmless
  <1> QED BY <1>2, <1>3 DEF IInv, DropsToLoad

\* One disturbance more is still within the bound.
LEMMA DisturbType ==
  ASSUME TypeOK, Disturb
  PROVE  disturbances' \in 0 .. MaxDisturbances /\ disturbances' # disturbances
  BY CatalogsAssumption DEF TypeOK, Disturb

LEMMA PlanType ==
  ASSUME NEW force, NEW facts
  PROVE  PlanSteps(force, facts) \in SUBSET StepNames
  BY DEF PlanSteps, StepNames

\* A run that goes on with a plan neither reads nor replaces anything yet.
LEMMA GoingOnIsHarmless ==
  ASSUME NEW todo \in SUBSET StepNames
  PROVE  /\ GoesOn(todo) \in Runs
         /\ DropsToLoad(GoesOn(todo)) /\ ~Reads(GoesOn(todo)) /\ ~Replaces(GoesOn(todo))
  BY BeginType DEF DropsToLoad, Reads, Replaces

LEMMA OffIsHarmless ==
  DropsToLoad(Off) /\ ~Reads(Off) /\ ~Replaces(Off)
  BY DEF Off, DropsToLoad, Reads, Replaces

-----------------------------------------------------------------------------
(* The steps.                                                               *)

LEMMA InitInv ==
  ASSUME Init PROVE IInv
  <1>1. Off \in Runs /\ Off.ids \in Ids BY OffType DEF Runs
  <1>2. 1 \in Version BY CatalogsAssumption
  <1>3. TypeOK
    <2>1. timetable = 0 /\ timetable \in Editions \cup {0} BY DEF Init
    <2>2. summaries \in [of : Editions \cup {0}, routed : BOOLEAN, ids : Ids]
      BY <1>1 DEF Init
    <2>3. mappings \in [OntdStops -> [tn : TnStops \cup {NoStop}, byHand : BOOLEAN]]
      BY DEF Init
    <2>4. curated \in [Entries -> {"none", "sheet", "hand"}] BY DEF Init
    <2>5. disturbances \in 0 .. MaxDisturbances BY CatalogsAssumption DEF Init
    <2>6. boot \in [Booters -> Runs] BY <1>1 DEF Init
    <2> QED BY <1>2, <2>1, <2>2, <2>3, <2>4, <2>5, <2>6 DEF TypeOK, Init, Runs
  <1> QED BY <1>3, OffIsHarmless DEF IInv, ReadersAreCurrent, Init

\* What a run learns leads it to another check or to a plan.
LEMMA LearnInv ==
  ASSUME IInv, NEW b \in Booters, boot[b].at \in Reading,
         NEW facts \in SUBSET Reading, Learn(b, facts),
         UNCHANGED <<tables, stops, router>>, disturbances' \in 0 .. MaxDisturbances
  PROVE  IInv'
  <1> DEFINE run == boot[b]
  <1>1. run \in Runs BY DEF IInv, TypeOK, Runs
  <1>2. CASE run.at = "cataloged"
    <2>1. PlanSteps(run.force, facts) \in SUBSET StepNames BY PlanType
    <2>2. Becomes(b, GoesOn(PlanSteps(run.force, facts))) BY <1>2 DEF Learn
    <2> QED BY <2>1, <2>2, GoingOnIsHarmless, HarmlessInv
  <1>3. CASE run.at # "cataloged"
    <2> DEFINE now == [run EXCEPT !.facts = facts, !.at = After(run.at, run.force, facts)]
    <2>1. Becomes(b, now) BY <1>3 DEF Learn
    <2>2. After(run.at, run.force, facts) \in Reading
      BY <1>3 DEF After, Reading
    <2>3. now \in Runs /\ now.at \in Reading BY <1>1, <2>2 DEF Runs, Phases
    <2>4. DropsToLoad(now) /\ ~Reads(now) /\ ~Replaces(now)
      BY <2>3 DEF DropsToLoad, Reads, Replaces, Reading
    <2> QED BY <2>1, <2>3, <2>4, HarmlessInv
  <1> QED BY <1>2, <1>3

\* A run becomes another without a disturbance and without a write.
LEMMA Quietly ==
  ASSUME IInv, UNCHANGED <<tables, world>>
  PROVE  UNCHANGED <<tables, stops, router>> /\ disturbances' \in 0 .. MaxDisturbances
  BY DEF IInv, TypeOK, world

LEMMA StartInv ==
  ASSUME IInv, NEW b \in Booters, Start(b) \/ ForceStart(b)
  PROVE  IInv'
  <1>1. CASE Start(b)
    <2> DEFINE now == [Off EXCEPT !.at = "loaded"]
    <2>1. /\ now \in Runs /\ now.at = "loaded"
          /\ DropsToLoad(now) /\ ~Reads(now) /\ ~Replaces(now)
      BY OffType DEF Runs, Phases, Reading, Off, DropsToLoad, Reads, Replaces
    <2>2. Becomes(b, now) /\ UNCHANGED <<tables, world>> BY <1>1 DEF Start
    <2> HIDE DEF now
    <2> QED BY <2>1, <2>2, Quietly, HarmlessInv
  <1>2. CASE ForceStart(b)
    <2> DEFINE now == [Off EXCEPT !.at = "loaded", !.force = TRUE]
    <2>1. /\ now \in Runs /\ now.at = "loaded"
          /\ DropsToLoad(now) /\ ~Reads(now) /\ ~Replaces(now)
      BY OffType DEF Runs, Phases, Reading, Off, DropsToLoad, Reads, Replaces
    <2>2. Becomes(b, now) /\ UNCHANGED <<tables, stops, router>> BY <1>2 DEF ForceStart
    <2>3. disturbances' \in 0 .. MaxDisturbances BY <1>2, DisturbType DEF ForceStart, IInv
    <2> HIDE DEF now
    <2> QED BY <2>1, <2>2, <2>3, HarmlessInv
  <1> QED BY <1>1, <1>2

LEMMA CheckInv ==
  ASSUME IInv, NEW b \in Booters, ReadFact(b) \/ FactSkipped(b)
  PROVE  IInv'
  <1>1. boot[b].facts \in SUBSET Reading BY DEF IInv, TypeOK
  <1>2. CASE ReadFact(b)
    <2> DEFINE facts == IF Fact(boot[b].at) THEN boot[b].facts \cup {boot[b].at} ELSE boot[b].facts
    <2>1. boot[b].at \in Reading /\ Learn(b, facts) /\ UNCHANGED <<tables, world>>
      BY <1>2 DEF ReadFact
    <2>2. facts \in SUBSET Reading BY <1>1, <2>1
    <2> HIDE DEF facts
    <2> QED BY <2>1, <2>2, Quietly, LearnInv
  <1>3. CASE FactSkipped(b)
    <2>1. /\ boot[b].at \in Reading /\ Learn(b, boot[b].facts)
          /\ UNCHANGED <<tables, stops, router>> /\ Disturb
      BY <1>3 DEF FactSkipped
    <2> QED BY <1>1, <2>1, DisturbType, LearnInv DEF IInv
  <1> QED BY <1>2, <1>3

\* A run that ends, by itself or as the victim of a deadlock.
LEMMA EndInv ==
  ASSUME IInv, NEW b \in Booters, Stops(b) \/ DeadlockVictim(b)
  PROVE  IInv'
  <1>1. CASE Stops(b)
    <2>1. Becomes(b, Off) /\ UNCHANGED <<tables, stops, router>> BY <1>1 DEF Stops
    <2>2. disturbances' \in 0 .. MaxDisturbances BY <1>1, DisturbType DEF Stops, IInv
    <2> QED BY <2>1, <2>2, OffType, OffIsHarmless, HarmlessInv
  <1>2. CASE DeadlockVictim(b)
    <2>1. Becomes(b, Off) /\ UNCHANGED <<tables, world>> BY <1>2 DEF DeadlockVictim
    <2> QED BY <2>1, Quietly, OffType, OffIsHarmless, HarmlessInv
  <1> QED BY <1>1, <1>2

LEMMA DropInv ==
  ASSUME IInv, NEW b \in Booters, Drop(b)
  PROVE  IInv'
  <1> DEFINE now == [boot[b] EXCEPT !.at = "rest"]
  <1>1. boot[b] \in Runs /\ boot[b].at = "drop" /\ "timetable" \in boot[b].todo
    BY DEF IInv, TypeOK, Runs, Drop, DropsToLoad
  <1>2. now \in Runs /\ now.at = "rest" /\ now.todo = boot[b].todo
    BY <1>1 DEF Runs, Phases
  <1>3. Becomes(b, now) /\ UNCHANGED <<tables, world>> BY DEF Drop
  <1>4. DropsToLoad(now) /\ ~Reads(now) /\ ~Replaces(now)
    BY <1>1, <1>2 DEF DropsToLoad, Reads, Replaces
  <1> HIDE DEF now
  <1> QED BY <1>2, <1>3, <1>4, Quietly, HarmlessInv

\* The locks in the terms of the invariant.
LEMMA LocksSay ==
  ASSUME NEW b \in Booters
  PROVE  /\ HasRead(b) <=> Reads(boot[b])
         /\ HoldsTimetable(b) <=> Replaces(boot[b])
  BY DEF HasRead, Reads, HoldsTimetable, Loading, Replaces

\* The loader waits for every open reader before it drops the timetable.
LEMMA DropRestInv ==
  ASSUME IInv, NEW b \in Booters, DropRest(b)
  PROVE  IInv'
  <1>1. boot[b] \in Runs /\ boot[b].at = "rest" /\ "timetable" \in boot[b].todo
    BY DEF IInv, TypeOK, Runs, DropRest, DropsToLoad
  <1>2. PICK edition \in Editions : Becomes(b, [boot[b] EXCEPT !.at = "match", !.edition = edition])
    BY DEF DropRest
  <1> DEFINE now == [boot[b] EXCEPT !.at = "match", !.edition = edition]
  <1>3. /\ now \in Runs /\ now.at = "match" /\ now.todo = boot[b].todo
    BY <1>1 DEF Runs, Phases
  <1>4. Becomes(b, now) /\ UNCHANGED <<tables, world>> BY <1>2 DEF DropRest
  <1> HIDE DEF now
  <1>5. \A o \in Booters \ {b} : ~Reads(boot[o])
    BY <1>1, LocksSay DEF DropRest, Free, WaitsFor
  <1>6. UNCHANGED <<timetable, summaries>> BY <1>4 DEF tables
  <1>7. /\ \A o \in Booters : DropsToLoad(boot'[o]) /\ ~Reads(boot'[o])
    BY <1>3, <1>4, <1>5, BecomesType DEF IInv, DropsToLoad, Reads
  <1>8. TypeOK' BY <1>3, <1>4, Quietly, TypeOfRuns DEF IInv
  <1> QED BY <1>6, <1>7, <1>8 DEF IInv, ReadersAreCurrent

LEMMA MatchInv ==
  ASSUME IInv, NEW b \in Booters, MatchStops(b)
  PROVE  IInv'
  <1> DEFINE kept == {o \in OntdStops : mappings[o].byHand}
             ids == [o \in OntdStops |-> IF mappings[o].byHand THEN mappings[o].tn
                                         ELSE Match[stops][o]]
             edition == IF Loading(b) THEN boot[b].edition ELSE timetable
             now == [boot[b] EXCEPT !.at = "upsert", !.edition = edition,
                                    !.kept = kept, !.ids = ids]
  <1>1. boot[b] \in Runs /\ boot[b].at = "match" /\ Becomes(b, now) /\ UNCHANGED <<tables, world>>
    BY DEF IInv, TypeOK, Runs, MatchStops
  <1>2. ids \in Ids
    <2> SUFFICES ASSUME NEW o \in OntdStops PROVE ids[o] \in TnStops \cup {NoStop}
      BY DEF Ids
    <2>1. mappings[o].tn \in TnStops \cup {NoStop} BY DEF IInv, TypeOK
    <2>2. Match[stops][o] \in Catalogs[stops] \cup {NoStop} /\ stops \in Version
      BY CatalogsAssumption DEF IInv, TypeOK
    <2>3. Match[stops][o] \in TnStops \cup {NoStop} BY <2>2 DEF TnStops
    <2> QED BY <2>1, <2>3
  <1>3. edition \in Editions \cup {0} BY <1>1 DEF IInv, TypeOK, Runs
  <1>4. kept \in SUBSET OntdStops OBVIOUS
  <1>5. /\ now \in Runs /\ now.at = "upsert" /\ now.todo = boot[b].todo /\ now.edition = edition
    <2> HIDE DEF kept, ids, edition
    <2> QED BY <1>1, <1>2, <1>3, <1>4 DEF Runs, Phases
  <1> HIDE DEF now, kept, ids
  <1>6. TypeOK' BY <1>1, <1>5, Quietly, TypeOfRuns DEF IInv
  <1>7. UNCHANGED <<timetable, summaries>> BY <1>1 DEF tables
  <1>8. \A o \in Booters : DropsToLoad(boot'[o])
    BY <1>1, <1>5, BecomesType DEF IInv, DropsToLoad
  <1>9. ReadersAreCurrent'
    <2>1. CASE "timetable" \in boot[b].todo
      <3>1. Replaces(boot[b]) /\ ~Reads(now) BY <1>1, <1>5, <2>1 DEF Replaces, Reads
      <3>2. \A o \in Booters : ~Reads(boot[o]) BY <3>1 DEF IInv, ReadersAreCurrent
      <3>3. \A o \in Booters : ~Reads(boot'[o])
        BY <1>1, <1>5, <3>1, <3>2, BecomesType DEF IInv
      <3> QED BY <3>3 DEF ReadersAreCurrent
    <2>2. CASE "timetable" \notin boot[b].todo
      <3>1. edition = timetable BY <2>2 DEF Loading
      <3>2. \A o \in Booters \ {b} : ~Replaces(boot[o])
        BY <1>1, LocksSay DEF MatchStops, Free, WaitsFor
      <3>3. ~Replaces(now) BY <1>5, <2>2 DEF Replaces
      <3>4. \A o \in Booters : ~Replaces(boot'[o])
        BY <1>1, <1>5, <3>2, <3>3, BecomesType DEF IInv
      <3>5. \A o \in Booters : Reads(boot'[o]) => boot'[o].edition = timetable
        BY <1>1, <1>5, <3>1, BecomesType DEF IInv, ReadersAreCurrent
      <3> QED BY <1>7, <3>4, <3>5 DEF ReadersAreCurrent
    <2> QED BY <2>1, <2>2
  <1> QED BY <1>6, <1>7, <1>8, <1>9 DEF IInv

\* The upserts and the TRUNCATE leave what a run has read and what it is to do.
LEMMA OnwardInv ==
  ASSUME IInv, NEW b \in Booters, Upsert(b) \/ LockSummaries(b)
  PROVE  IInv'
  <1> DEFINE now ==
        IF boot[b].at = "upsert"
        THEN [boot[b] EXCEPT !.at = IF Loading(b) THEN "write" ELSE "lock",
                             !.routed = router /\ ~Loading(b)]
        ELSE [boot[b] EXCEPT !.at = "write"]
  <1>1. boot[b] \in Runs /\ boot[b].at \in {"upsert", "lock"}
    BY DEF IInv, TypeOK, Runs, Upsert, LockSummaries
  <1>2. Becomes(b, now) /\ UNCHANGED <<tables, world>> BY DEF Upsert, LockSummaries
  <1>3. Loading(b) <=> boot[b].at = "upsert" /\ "timetable" \in boot[b].todo
    BY <1>1 DEF Loading
  <1>4. /\ now \in Runs /\ now.todo = boot[b].todo /\ now.edition = boot[b].edition
        /\ now.at = IF boot[b].at = "upsert" /\ ~Loading(b) THEN "lock" ELSE "write"
    BY <1>1 DEF Runs, Phases, IInv, TypeOK
  <1>5. boot[b].at = "lock" => "timetable" \notin boot[b].todo BY DEF IInv, DropsToLoad
  <1> HIDE DEF now
  <1>6. /\ Reads(now) <=> Reads(boot[b])
        /\ Replaces(now) <=> Replaces(boot[b])
        /\ DropsToLoad(now)
    BY <1>1, <1>3, <1>4, <1>5 DEF Reads, Replaces, DropsToLoad
  <1>7. TypeOK' BY <1>2, <1>4, Quietly, TypeOfRuns DEF IInv
  <1>8. UNCHANGED <<timetable, summaries>> BY <1>2 DEF tables
  <1>9. \A o \in Booters :
          /\ DropsToLoad(boot'[o]) /\ boot'[o].edition = boot[o].edition
          /\ Reads(boot'[o]) <=> Reads(boot[o])
          /\ Replaces(boot'[o]) <=> Replaces(boot[o])
    BY <1>2, <1>4, <1>6, BecomesType DEF IInv
  <1>10. ReadersAreCurrent' BY <1>8, <1>9 DEF IInv, ReadersAreCurrent
  <1> QED BY <1>7, <1>8, <1>9, <1>10 DEF IInv

\* What a commit leaves of the mappings keeps its type.
LEMMA UpsertedType ==
  ASSUME TypeOK, NEW b \in Booters
  PROVE  Upserted(b) \in [OntdStops -> [tn : TnStops \cup {NoStop}, byHand : BOOLEAN]]
  <1>1. boot[b].ids \in Ids BY DEF TypeOK
  <1> QED BY <1>1 DEF TypeOK, Upserted, Ids

\* A loader's commit has no reader beside it; a projection's writes the
\* edition that is loaded.
LEMMA CommitInv ==
  ASSUME IInv, NEW b \in Booters, Commit(b)
  PROVE  IInv'
  <1> DEFINE step == IF "timetable" \in boot[b].todo THEN "timetable" ELSE "projection"
             now == GoesOn(boot[b].todo \ {step})
  <1>1. boot[b] \in Runs /\ boot[b].at = "write" BY DEF IInv, TypeOK, Runs, Commit
  <1>2. /\ timetable' = IF "timetable" \in boot[b].todo THEN boot[b].edition ELSE timetable
        /\ summaries' = [of |-> boot[b].edition, routed |-> boot[b].routed, ids |-> boot[b].ids]
        /\ mappings' = Upserted(b)
        /\ Becomes(b, now) /\ UNCHANGED <<curated, world>>
    BY DEF Commit
  <1>3. boot[b].todo \ {step} \in SUBSET StepNames BY <1>1 DEF Runs
  <1>4. /\ now \in Runs /\ DropsToLoad(now) /\ ~Reads(now) /\ ~Replaces(now)
    BY <1>3, GoingOnIsHarmless
  <1> HIDE DEF now, step
  <1>5. TypeOK'
    <2>1. boot' \in [Booters -> Runs] BY <1>2, <1>4, BecomesType DEF IInv
    <2>2. timetable' \in Editions \cup {0} BY <1>1, <1>2 DEF IInv, TypeOK, Runs
    <2>3. summaries' \in [of : Editions \cup {0}, routed : BOOLEAN, ids : Ids]
      BY <1>1, <1>2 DEF Runs
    <2>4. mappings' \in [OntdStops -> [tn : TnStops \cup {NoStop}, byHand : BOOLEAN]]
      BY <1>2, UpsertedType DEF IInv
    <2> QED BY <1>2, <2>1, <2>2, <2>3, <2>4 DEF IInv, TypeOK, world, Runs
  <1>6. summaries'.of = timetable' /\ (Reads(boot[b]) => timetable' = timetable)
    <2>1. CASE "timetable" \in boot[b].todo BY <1>2, <2>1 DEF Reads
    <2>2. CASE "timetable" \notin boot[b].todo
      <3>1. Reads(boot[b]) BY <1>1, <2>2 DEF Reads
      <3> QED BY <1>2, <2>2, <3>1 DEF IInv, ReadersAreCurrent
    <2> QED BY <2>1, <2>2
  <1>7. Reads(boot[b]) \/ Replaces(boot[b]) BY <1>1 DEF Reads, Replaces
  <1>8. \A o \in Booters : DropsToLoad(boot'[o]) /\ (Reads(boot'[o]) => o # b)
    BY <1>2, <1>4, BecomesType DEF IInv
  <1>9. ReadersAreCurrent'
    <2> SUFFICES ASSUME NEW o \in Booters, Reads(boot'[o])
                 PROVE  /\ boot'[o].edition = timetable'
                        /\ \A a \in Booters : ~Replaces(boot'[a])
      BY DEF ReadersAreCurrent
    <2>1. o # b /\ boot'[o] = boot[o] BY <1>2, <1>4, <1>8, BecomesType DEF IInv
    <2>2. boot[o].edition = timetable /\ \A a \in Booters : ~Replaces(boot[a])
      BY <2>1 DEF IInv, ReadersAreCurrent
    <2>3. timetable' = timetable BY <1>6, <1>7, <2>2
    <2> QED BY <1>2, <1>4, <2>1, <2>2, <2>3, BecomesType DEF IInv
  <1> QED BY <1>5, <1>6, <1>8, <1>9 DEF IInv

LEMMA CheckCuratedInv ==
  ASSUME IInv, NEW b \in Booters, CheckCurated(b)
  PROVE  IInv'
  <1> DEFINE now == [boot[b] EXCEPT !.at = "import"]
  <1>1. boot[b] \in Runs BY DEF IInv, TypeOK, Runs
  <1>2. /\ now \in Runs /\ now.at = "import"
        /\ DropsToLoad(now) /\ ~Reads(now) /\ ~Replaces(now)
    BY <1>1 DEF Runs, Phases, DropsToLoad, Reads, Replaces
  <1>3. (Becomes(b, now) \/ Becomes(b, Off)) /\ UNCHANGED <<tables, world>> BY DEF CheckCurated
  <1> HIDE DEF now
  <1> QED BY <1>2, <1>3, Quietly, OffType, OffIsHarmless, HarmlessInv

LEMMA ImportInv ==
  ASSUME IInv, NEW b \in Booters, Import(b)
  PROVE  IInv'
  <1> DEFINE now == GoesOn(boot[b].todo \ {"catalog"})
  <1>1. boot[b] \in Runs BY DEF IInv, TypeOK, Runs
  <1>2. boot[b].todo \ {"catalog"} \in SUBSET StepNames BY <1>1 DEF Runs
  <1>3. /\ now \in Runs /\ DropsToLoad(now) /\ ~Reads(now) /\ ~Replaces(now)
    BY <1>2, GoingOnIsHarmless
  <1>4. /\ Becomes(b, now) /\ curated' = Imported
        /\ UNCHANGED <<timetable, summaries, mappings, world>>
    BY DEF Import
  <1> HIDE DEF now
  <1>5. boot' \in [Booters -> Runs] BY <1>3, <1>4, BecomesType DEF IInv
  <1>6. curated' \in [Entries -> {"none", "sheet", "hand"}]
    BY <1>4 DEF IInv, TypeOK, Imported
  <1>7. TypeOK' BY <1>4, <1>5, <1>6 DEF IInv, TypeOK, world, Runs
  <1> QED BY <1>3, <1>4, <1>7, Harmless DEF IInv, DropsToLoad

\* What happens around the runs leaves the runs and the timetable alone.
LEMMA AroundInv ==
  ASSUME IInv,
         \/ Reseed \/ RouterDown \/ RouterUp
         \/ \E o \in OntdStops : CorrectMapping(o)
         \/ \E e \in Entries : EditCatalog(e)
  PROVE  IInv'
  <1>1. UNCHANGED <<timetable, summaries, boot>>
    BY DEF Reseed, RouterDown, RouterUp, CorrectMapping, EditCatalog, tables
  <1>2. disturbances' \in 0 .. MaxDisturbances
    BY DisturbType DEF IInv, TypeOK, Reseed, RouterDown, RouterUp, CorrectMapping, EditCatalog
  <1>3. stops' \in Version /\ router' \in BOOLEAN
    BY DEF IInv, TypeOK, Reseed, RouterDown, RouterUp, CorrectMapping, EditCatalog
  <1>4. mappings' \in [OntdStops -> [tn : TnStops \cup {NoStop}, byHand : BOOLEAN]]
    <2>1. CASE UNCHANGED mappings BY <2>1 DEF IInv, TypeOK
    <2>2. ASSUME NEW o \in OntdStops, CorrectMapping(o)
          PROVE  mappings' \in [OntdStops -> [tn : TnStops \cup {NoStop}, byHand : BOOLEAN]]
      <3>1. Catalogs[stops] \subseteq TnStops BY DEF IInv, TypeOK, TnStops
      <3> QED BY <2>2, <3>1 DEF IInv, TypeOK, CorrectMapping
    <2> QED BY <2>1, <2>2 DEF Reseed, RouterDown, RouterUp, EditCatalog, tables
  <1>5. curated' \in [Entries -> {"none", "sheet", "hand"}]
    BY DEF IInv, TypeOK, Reseed, RouterDown, RouterUp, CorrectMapping, EditCatalog, tables
  <1>6. TypeOK' BY <1>1, <1>2, <1>3, <1>4, <1>5 DEF IInv, TypeOK
  <1> QED BY <1>1, <1>6 DEF IInv, ReadersAreCurrent, DropsToLoad, Reads, Replaces

LEMMA StepInv ==
  ASSUME IInv, [Next]_vars
  PROVE  IInv'
  <1>1. CASE UNCHANGED vars
    BY <1>1 DEF vars, tables, world, IInv, TypeOK, ReadersAreCurrent, DropsToLoad, Reads, Replaces
  <1>2. ASSUME NEW b \in Booters, Start(b) \/ Run(b) \/ ForceStart(b) \/ FactSkipped(b) \/ Stops(b)
        PROVE  IInv'
    BY <1>2, StartInv, CheckInv, EndInv, DropInv, DropRestInv, MatchInv, OnwardInv, CommitInv,
       CheckCuratedInv, ImportInv
       DEF Run
  <1> QED BY <1>1, <1>2, AroundInv DEF Next

\* The summaries tell of the loaded timetable and everything keeps its type,
\* for any number of overlapping runs (projection.py and loader.py, each in a
\* transaction of its own).
THEOREM SummariesNeverBehind ==
  Spec => []SummariesFollowTimetable
  <1>1. IInv => SummariesFollowTimetable BY DEF IInv, SummariesFollowTimetable
  <1> QED BY <1>1, InitInv, StepInv, PTL DEF Spec

-----------------------------------------------------------------------------
(* What a step may never do.                                               *)

\* A hand-made mapping is only ever changed by hand: a commit looks at the row
\* it replaces, not at what its run had read (stop_matching.py).
THEOREM HandMappingsKept ==
  Spec => HandMappingsStay
  <1> DEFINE Kept == \A o \in OntdStops :
        mappings[o].byHand => mappings'[o] = mappings[o] \/ CorrectMapping(o)
  <1>1. ASSUME IInv, Next PROVE Kept
    <2> SUFFICES ASSUME NEW o \in OntdStops, mappings[o].byHand, ~CorrectMapping(o)
                 PROVE  mappings'[o] = mappings[o]
      OBVIOUS
    <2>1. CASE UNCHANGED mappings BY <2>1
    <2>2. ASSUME NEW b \in Booters, Commit(b) PROVE mappings'[o] = mappings[o]
      BY <2>2 DEF Commit, Upserted
    <2>3. ASSUME NEW q \in OntdStops, CorrectMapping(q) PROVE mappings'[o] = mappings[o]
      <3>1. q # o BY <2>3
      <3> QED BY <1>1, <2>3, <3>1 DEF CorrectMapping, IInv, TypeOK
    <2>4. (\E b \in Booters : Commit(b)) \/ (\E q \in OntdStops : CorrectMapping(q))
          \/ UNCHANGED mappings
      BY <1>1 DEF Next, Run, Start, ForceStart, FactSkipped, ReadFact, Stops, Drop, DropRest,
         MatchStops, Upsert, LockSummaries, DeadlockVictim, CheckCurated, Import, Reseed,
         RouterDown, RouterUp, EditCatalog, tables
    <2> QED BY <2>1, <2>2, <2>3, <2>4
  <1>2. IInv /\ [Next]_vars => [Kept]_vars BY <1>1
  <1>3. [][Kept]_vars => HandMappingsStay BY PTL DEF HandMappingsStay
  <1> QED BY <1>2, <1>3, InitInv, StepInv, PTL DEF Spec

\* What was edited by hand in the curated tables survives every import.
THEOREM CurationKept ==
  Spec => CurationStays
  <1> DEFINE Kept == \A e \in Entries : curated[e] = "hand" => curated'[e] = "hand"
  <1>1. ASSUME IInv, Next PROVE Kept
    <2> SUFFICES ASSUME NEW e \in Entries, curated[e] = "hand" PROVE curated'[e] = "hand"
      OBVIOUS
    <2>1. CASE UNCHANGED curated BY <2>1
    <2>2. CASE curated' = Imported BY <2>2 DEF Imported
    <2>3. ASSUME NEW d \in Entries, EditCatalog(d) PROVE curated'[e] = "hand"
      BY <2>3 DEF EditCatalog, IInv, TypeOK
    <2>4. curated' = Imported \/ (\E d \in Entries : EditCatalog(d)) \/ UNCHANGED curated
      BY <1>1 DEF Next, Run, Start, ForceStart, FactSkipped, ReadFact, Stops, Drop, DropRest,
         MatchStops, Upsert, LockSummaries, Commit, DeadlockVictim, CheckCurated, Import, Reseed,
         RouterDown, RouterUp, CorrectMapping, tables
    <2> QED BY <2>1, <2>2, <2>3, <2>4
  <1>2. IInv /\ [Next]_vars => [Kept]_vars BY <1>1
  <1>3. [][Kept]_vars => CurationStays BY PTL DEF CurationStays
  <1> QED BY <1>2, <1>3, InitInv, StepInv, PTL DEF Spec

\* Neither an import nor a projection undoes what a curator did.
THEOREM HandWorkKept ==
  Spec => HandWorkStays
  BY HandMappingsKept, CurationKept DEF HandWorkStays

\* A run of a settled database, as Settled has it.
Resting(r) ==
  /\ r.at \in Reading \cup {"off"} /\ ~r.force
  /\ r.facts \subseteq {"loaded"}
  /\ r.at \in {"stale", "unrouted", "cataloged"} => r.facts = {"loaded"}

\* A run that becomes another resting one leaves the database settled.
LEMMA RestingOn ==
  ASSUME IInv, Settled, NEW b \in Booters, NEW now \in Runs, Becomes(b, now),
         Resting(now), UNCHANGED <<tables, world>>
  PROVE  Settled' /\ UNCHANGED tables
  <1>1. \A o \in Booters : Resting(boot[o]) BY DEF Settled, Resting
  <1>2. \A o \in Booters : Resting(boot'[o]) BY <1>1, BecomesType DEF IInv
  <1>3. StaleMappings' <=> StaleMappings BY DEF StaleMappings, tables, world
  <1> QED BY <1>2, <1>3 DEF Settled, Resting, tables

\* The checks of a run find a settled database in order, and it has nothing to do.
LEMMA CheckRests ==
  ASSUME IInv, Settled, NEW b \in Booters, ReadFact(b)
  PROVE  Settled' /\ UNCHANGED tables
  <1> DEFINE run == boot[b]
             facts == IF Fact(run.at) THEN run.facts \cup {run.at} ELSE run.facts
             now == [run EXCEPT !.facts = facts, !.at = After(run.at, run.force, facts)]
  <1>1. run \in Runs /\ run.at \in Reading /\ Resting(run) /\ run.force = FALSE
    BY DEF IInv, TypeOK, Runs, ReadFact, Settled, Resting
  <1>2. Learn(b, facts) /\ UNCHANGED <<tables, world>> BY DEF ReadFact
  <1>3. CASE run.at = "cataloged"
    <2>1. {"stale", "unrouted"} \cap facts = {} /\ "loaded" \in facts BY <1>1, <1>3 DEF Resting
    <2>2. PlanSteps(run.force, facts) = {} BY <1>1, <2>1 DEF PlanSteps
    <2>3. Becomes(b, GoesOn({})) BY <1>2, <1>3, <2>2 DEF Learn
    <2>4. GoesOn({}) \in Runs /\ Resting(GoesOn({}))
      BY BeginType DEF GoesOn, Off, Begin, Resting
    <2> QED BY <1>2, <2>3, <2>4, RestingOn
  <1>4. CASE run.at # "cataloged"
    <2>1. facts = {"loaded"}
      <3>1. CASE run.at = "loaded" BY <1>1, <3>1 DEF Resting, Fact, Settled
      <3>2. CASE run.at = "stale" BY <1>1, <3>2 DEF Resting, Fact, Settled
      <3>3. CASE run.at = "unrouted" BY <1>1, <3>3 DEF Resting, Fact, Settled
      <3> QED BY <1>1, <1>4, <3>1, <3>2, <3>3 DEF Reading
    <2>2. Becomes(b, now) BY <1>2, <1>4 DEF Learn
    <2> HIDE DEF facts
    <2>3. After(run.at, run.force, facts) \in Reading BY <1>1, <1>4 DEF After, Reading
    <2>4. now \in Runs /\ Resting(now)
      BY <1>1, <2>1, <2>3 DEF Runs, Phases, Reading, Resting
    <2> HIDE DEF now
    <2> QED BY <1>2, <2>2, <2>4, RestingOn
  <1> QED BY <1>3, <1>4

\* A container restart costs a settled database nothing: without a disturbance
\* from outside every run only looks, and ends.
THEOREM RestartsAreFree ==
  Spec => RestartsCostNothing
  <1> DEFINE Costless == Settled /\ disturbances' = disturbances => Settled' /\ UNCHANGED tables
  <1>1. ASSUME IInv, Next, Settled, disturbances' = disturbances
        PROVE  Settled' /\ UNCHANGED tables
    <2>1. ~Disturb BY <1>1, DisturbType DEF IInv
    <2>2. CASE RouterUp
      BY <1>1, <2>2 DEF RouterUp, Settled, StaleMappings, tables
    <2>3. ASSUME NEW b \in Booters, Start(b) PROVE Settled' /\ UNCHANGED tables
      <3> DEFINE now == [Off EXCEPT !.at = "loaded"]
      <3>1. now \in Runs /\ Resting(now)
        BY OffType DEF Runs, Phases, Reading, Off, Resting
      <3>2. Becomes(b, now) /\ UNCHANGED <<tables, world>> BY <2>3 DEF Start
      <3> HIDE DEF now
      <3> QED BY <1>1, <3>1, <3>2, RestingOn
    <2>4. ASSUME NEW b \in Booters, Run(b) PROVE Settled' /\ UNCHANGED tables
      <3>1. \A o \in Booters : boot[o].at \in Reading \cup {"off"} BY <1>1 DEF Settled
      <3>2. \A o \in Booters : ~WaitsFor(b, o)
        BY <3>1 DEF WaitsFor, HoldsSummaries, HoldsTimetable, Loading, HasRead, RowsOf, Reading
      <3>3. ReadFact(b)
        BY <2>4, <3>1, <3>2 DEF Run, Drop, DropRest, MatchStops, Upsert, LockSummaries, Commit,
           DeadlockVictim, CheckCurated, Import, Reading
      <3> QED BY <1>1, <3>3, CheckRests
    <2> QED BY <1>1, <2>1, <2>2, <2>3, <2>4
        DEF Next, ForceStart, FactSkipped, Stops, Reseed, RouterDown, CorrectMapping, EditCatalog
  <1>2. IInv /\ [Next]_vars => [Costless]_vars BY <1>1
  <1>3. [][Costless]_vars => RestartsCostNothing BY PTL DEF RestartsCostNothing
  <1> QED BY <1>2, <1>3, InitInv, StepInv, PTL DEF Spec
================================================================================
