--------------------------- MODULE DeploymentProofs ---------------------------
(***************************************************************************)
(* Proofs about Deployment, for any releases, migrations, tasks and        *)
(* runners.  IInv says what a runner in the middle of its queue knows:     *)
(* the files of its image that are not in its queue are recorded, and a    *)
(* runner about to commit is alone with a file nobody has recorded.        *)
(***************************************************************************)
EXTENDS Deployment, WellFoundedInduction, TLAPS

\* What a runner of migrate.py knows in each step.
QueuesKnown ==
  \A d \in Runners :
    /\ mig[d].todo \subseteq Files[mig[d].image]
    /\ InTransaction(d) \/ mig[d].step = "done" => Files[mig[d].image] \ mig[d].todo \subseteq recorded
    /\ InTransaction(d) => mig[d].todo # {}
    /\ mig[d].step = "done" => mig[d].todo = {}

\* A file about to be committed is neither recorded nor about to be
\* committed by anybody else.
CommitsAlone ==
  \A d \in Runners :
    mig[d].step = "commit" => First(mig[d].todo) \notin recorded /\ ~RowHeld(d, First(mig[d].todo))

\* What a runner of run_tasks.py knows in each step.
TaskQueuesKnown ==
  \A d \in Runners :
    Running(d) =>
      /\ task[d].todo \subseteq Tasks[task[d].image]
      /\ task[d].todo # {}
      /\ Tasks[task[d].image] \ task[d].todo \subseteq completed
      /\ Files[task[d].image] \subseteq recorded
      /\ task[d].step = "end" => First(task[d].todo) \in work

ApisKnown == \A d \in Runners : api[d] # 0 => Files[api[d]] \subseteq recorded

IInv ==
  /\ TypeOK
  /\ EffectIsRecorded
  /\ DoneMeansWorked
  /\ QueuesKnown
  /\ CommitsAlone
  /\ TaskQueuesKnown
  /\ ApisKnown

-----------------------------------------------------------------------------

\* The first of a queue is its smallest file: the natural numbers are well
\* founded.
LEMMA FirstIsLeast ==
  ASSUME NEW S \in SUBSET Nat, S # {}
  PROVE  First(S) \in S /\ \A g \in S : First(S) <= g
  <1> DEFINE R == OpToRel(<, Nat)
  <1>1. PICK x \in S : \A y \in S : ~ (<<y, x>> \in R)
    <2>1. IsWellFoundedOn(R, Nat) BY NatLessThanWellFounded
    <2> HIDE DEF R
    <2> QED BY <2>1, WFMin
  <1>2. \A y \in S : x <= y
    <2> TAKE y \in S
    <2>1. ~(y < x) BY <1>1 DEF OpToRel
    <2> QED BY <2>1
  <1> QED BY <1>2 DEF First

\* Files and tasks are numbers.
LEMMA Numbers ==
  /\ Migration \subseteq Nat
  /\ Task \subseteq Nat
  /\ \A r \in Release : Files[r] \subseteq Migration /\ Tasks[r] \subseteq Task
  BY FilesAssumption, TasksAssumption DEF Migration, Task

\* The first of a queue of files, with the facts the steps need.
LEMMA FirstFile ==
  ASSUME TypeOK, QueuesKnown, NEW d \in Runners, InTransaction(d)
  PROVE  /\ First(mig[d].todo) \in mig[d].todo
         /\ First(mig[d].todo) \in Files[mig[d].image]
         /\ First(mig[d].todo) \in Migration
         /\ \A f \in Files[mig[d].image] : f < First(mig[d].todo) => f \in recorded
  <1>1. /\ mig[d].image \in Release
        /\ mig[d].todo \subseteq Files[mig[d].image]
        /\ mig[d].todo # {}
        /\ Files[mig[d].image] \ mig[d].todo \subseteq recorded
    BY DEF TypeOK, MigrateTypeOK, Runner, QueuesKnown
  <1>2. mig[d].todo \in SUBSET Nat /\ Files[mig[d].image] \subseteq Migration /\ Migration \subseteq Nat
    BY <1>1, Numbers
  <1>3. First(mig[d].todo) \in mig[d].todo /\ \A g \in mig[d].todo : First(mig[d].todo) <= g
    BY <1>1, <1>2, FirstIsLeast
  <1>4. ASSUME NEW f \in Files[mig[d].image], f < First(mig[d].todo)
        PROVE  f \in recorded
    <2>1. f \in Nat /\ First(mig[d].todo) \in Nat BY <1>1, <1>2, <1>3
    <2>2. f \notin mig[d].todo BY <1>3, <1>4, <2>1
    <2> QED BY <1>1, <2>2
  <1> QED BY <1>1, <1>2, <1>3, <1>4

\* The first of a queue of tasks.
LEMMA FirstTask ==
  ASSUME TypeOK, TaskQueuesKnown, NEW d \in Runners, Running(d)
  PROVE  /\ First(task[d].todo) \in task[d].todo
         /\ First(task[d].todo) \in Tasks[task[d].image]
         /\ First(task[d].todo) \in Task
         /\ \A u \in Tasks[task[d].image] : u < First(task[d].todo) => u \in completed
  <1>1. /\ task[d].image \in Release
        /\ task[d].todo \subseteq Tasks[task[d].image]
        /\ task[d].todo # {}
        /\ Tasks[task[d].image] \ task[d].todo \subseteq completed
    BY DEF TypeOK, TaskQueuesKnown
  <1>2. task[d].todo \in SUBSET Nat /\ Tasks[task[d].image] \subseteq Task /\ Task \subseteq Nat
    BY <1>1, Numbers
  <1>3. First(task[d].todo) \in task[d].todo /\ \A g \in task[d].todo : First(task[d].todo) <= g
    BY <1>1, <1>2, FirstIsLeast
  <1>4. ASSUME NEW u \in Tasks[task[d].image], u < First(task[d].todo)
        PROVE  u \in completed
    <2>1. u \in Nat /\ First(task[d].todo) \in Nat BY <1>1, <1>2, <1>3
    <2>2. u \notin task[d].todo BY <1>3, <1>4, <2>1
    <2> QED BY <1>1, <2>2
  <1> QED BY <1>1, <1>2, <1>3, <1>4

-----------------------------------------------------------------------------

LEMMA InitInvariant == Init => IInv
  <1> SUFFICES ASSUME Init PROVE IInv OBVIOUS
  <1>1. 1 \in Release /\ Files[1] \subseteq Migration /\ Tasks[1] \subseteq Task
    BY FilesAssumption, Numbers DEF Release
  <1>2. "off" \in Steps /\ "off" \in TaskSteps BY DEF Steps, TaskSteps
  <1>3. TypeOK
    BY <1>1, <1>2, TasksAssumption, FilesAssumption
    DEF Init, MigrateInit, TypeOK, MigrateTypeOK, Runner, Release
  <1>4. EffectIsRecorded /\ DoneMeansWorked
    BY DEF Init, MigrateInit, EffectIsRecorded, DoneMeansWorked
  <1>5. QueuesKnown /\ CommitsAlone /\ TaskQueuesKnown /\ ApisKnown
    BY DEF Init, MigrateInit, QueuesKnown, CommitsAlone, TaskQueuesKnown, ApisKnown,
       InTransaction, Running
  <1> QED BY <1>3, <1>4, <1>5 DEF IInv

-----------------------------------------------------------------------------
(* The steps of migrate.py.                                                *)

\* A step that moves one runner without touching the database: what is left
\* to show is what that runner knows now.
LEMMA RunnerMoves ==
  ASSUME IInv, NEW d \in Runners, NEW now \in Runner,
         mig' = [mig EXCEPT ![d] = now],
         UNCHANGED <<release, recorded, effect, taskVars, api>>,
         now.todo \subseteq Files[now.image],
         now.step \in {"sql", "insert", "commit", "done"} =>
           Files[now.image] \ now.todo \subseteq recorded,
         now.step \in {"sql", "insert", "commit"} => now.todo # {},
         now.step = "done" => now.todo = {},
         now.step = "commit" =>
           First(now.todo) \notin recorded /\ ~RowHeld(d, First(now.todo))
  PROVE  IInv'
  <1>1. /\ mig \in [Runners -> Runner] /\ mig'[d] = now
        /\ \A o \in Runners \ {d} : mig'[o] = mig[o]
    BY DEF IInv, TypeOK, MigrateTypeOK
  <1>2. TypeOK' BY DEF IInv, TypeOK, MigrateTypeOK, taskVars
  <1>3. EffectIsRecorded' /\ DoneMeansWorked'
    BY DEF IInv, EffectIsRecorded, DoneMeansWorked, taskVars
  <1>4. QueuesKnown'
    BY <1>1 DEF IInv, QueuesKnown, InTransaction
  <1>5. CommitsAlone'
    <2> SUFFICES ASSUME NEW o \in Runners, mig'[o].step = "commit"
                 PROVE  First(mig'[o].todo) \notin recorded' /\ ~RowHeld(o, First(mig[o].todo))'
      BY DEF CommitsAlone
    <2>1. CASE o = d
      <3>1. First(now.todo) \notin recorded /\ ~RowHeld(d, First(now.todo))
        BY <1>1, <2>1
      <3> QED BY <1>1, <2>1, <3>1 DEF RowHeld
    <2>2. CASE o # d
      <3>1. First(mig[o].todo) \notin recorded /\ ~RowHeld(o, First(mig[o].todo))
        BY <1>1, <2>2 DEF IInv, CommitsAlone
      <3>2. mig'[d].step = "commit" => First(mig'[d].todo) # First(mig[o].todo)
        BY <1>1, <2>2 DEF RowHeld
      <3> QED BY <1>1, <2>2, <3>1, <3>2 DEF RowHeld
    <2> QED BY <2>1, <2>2
  <1>6. TaskQueuesKnown' /\ ApisKnown'
    BY DEF IInv, TaskQueuesKnown, ApisKnown, taskVars, Running
  <1> QED BY <1>2, <1>3, <1>4, <1>5, <1>6 DEF IInv

LEMMA StartMigrateSafe ==
  ASSUME IInv, NEW d \in Runners, NEW image \in Release, StartMigrate(d, image),
         UNCHANGED <<taskVars, api>>
  PROVE  IInv'
  <1> DEFINE now == [image |-> image, todo |-> Pending(image),
                     step |-> IF Unknown(image) # {} THEN "failed"
                              ELSE IF Pending(image) = {} THEN "done" ELSE "sql"]
  <1>1. Pending(image) \subseteq Files[image] /\ Files[image] \ Pending(image) \subseteq recorded
    BY DEF Pending
  <1>2. now \in Runner
    <2>1. Files[image] \subseteq Migration BY Numbers
    <2>2. now.step \in {"failed", "done", "sql"} OBVIOUS
    <2> QED BY <1>1, <2>1, <2>2 DEF Runner, Steps
  <1>3. mig' = [mig EXCEPT ![d] = now] BY DEF StartMigrate
  <1>4. UNCHANGED <<release, recorded, effect, taskVars, api>> BY DEF StartMigrate
  <1>5. now.step # "commit" /\ now.step # "insert" OBVIOUS
  <1>6. /\ now.todo = Pending(image) /\ now.image = image
        /\ now.step = "sql" => Pending(image) # {}
        /\ now.step = "done" => Pending(image) = {}
    OBVIOUS
  <1> HIDE DEF now
  <1> QED BY <1>1, <1>2, <1>3, <1>4, <1>5, <1>6, RunnerMoves

\* RunSql, InsertRow, RowExists and MigrateFails only move the runner on.
LEMMA RunnerMovesOn ==
  ASSUME IInv, NEW d \in Runners, NEW step \in Steps, InTransaction(d), Moves(d, step),
         UNCHANGED <<release, recorded, effect, taskVars, api>>,
         step \in {"insert", "commit", "failed"},
         step = "commit" =>
           First(mig[d].todo) \notin recorded /\ ~RowHeld(d, First(mig[d].todo))
  PROVE  IInv'
  <1> DEFINE now == [mig[d] EXCEPT !.step = step]
  <1>1. mig[d] \in Runner BY DEF IInv, TypeOK, MigrateTypeOK
  <1>2. now \in Runner /\ now.todo = mig[d].todo /\ now.image = mig[d].image /\ now.step = step
    BY <1>1 DEF Runner
  <1>3. mig' = [mig EXCEPT ![d] = now] BY DEF Moves, IInv, TypeOK, MigrateTypeOK
  <1>4. /\ mig[d].todo \subseteq Files[mig[d].image] /\ mig[d].todo # {}
        /\ Files[mig[d].image] \ mig[d].todo \subseteq recorded
    BY DEF IInv, QueuesKnown
  <1> HIDE DEF now
  <1> QED BY <1>2, <1>3, <1>4, RunnerMoves

LEMMA MigrateMovesSafe ==
  ASSUME IInv, NEW d \in Runners, UNCHANGED <<taskVars, api>>,
         RunSql(d) \/ InsertRow(d) \/ RowExists(d) \/ MigrateFails(d)
  PROVE  IInv'
  <1>0. {"insert", "commit", "failed"} \subseteq Steps BY DEF Steps
  <1>1. CASE RunSql(d)
    BY <1>0, <1>1, RunnerMovesOn DEF RunSql, InTransaction
  <1>2. CASE InsertRow(d)
    BY <1>0, <1>2, RunnerMovesOn DEF InsertRow, InTransaction
  <1>3. CASE RowExists(d)
    BY <1>0, <1>3, RunnerMovesOn DEF RowExists, InTransaction
  <1>4. CASE MigrateFails(d)
    BY <1>0, <1>4, RunnerMovesOn DEF MigrateFails
  <1> QED BY <1>1, <1>2, <1>3, <1>4

\* Recorded files only get more, so whoever relied on some still may.
LEMMA NewReleaseSafe ==
  ASSUME IInv, NewRelease, UNCHANGED <<taskVars, api>>
  PROVE  IInv'
  <1>1. release' \in Release
    BY FilesAssumption DEF NewRelease, IInv, TypeOK, MigrateTypeOK, Release
  <1>2. TypeOK'
    BY <1>1 DEF NewRelease, IInv, TypeOK, MigrateTypeOK, taskVars
  <1> QED
    BY <1>2 DEF NewRelease, taskVars, IInv, EffectIsRecorded, DoneMeansWorked, QueuesKnown,
       InTransaction, CommitsAlone, RowHeld, TaskQueuesKnown, Running, ApisKnown

\* The commit: because nobody else is about to commit the file and nobody has
\* recorded it, its effect and its row appear together and once.
LEMMA CommitMigrationSafe ==
  ASSUME IInv, NEW d \in Runners, CommitMigration(d), UNCHANGED <<taskVars, api>>
  PROVE  IInv'
  <1> DEFINE f    == First(mig[d].todo)
             next == IF mig[d].todo = {f} THEN "done" ELSE "sql"
  <1>1. mig[d].step = "commit" /\ InTransaction(d)
    BY DEF CommitMigration, InTransaction
  <1>2. f \in mig[d].todo /\ f \in Migration /\ f \notin recorded
    BY <1>1, FirstFile DEF IInv, CommitsAlone
  <1>3. /\ recorded' = recorded \cup {f}
        /\ effect' = [effect EXCEPT ![f] = @ + 1]
        /\ mig' = [mig EXCEPT ![d].todo = @ \ {f}, ![d].step = next]
        /\ release' = release
    BY DEF CommitMigration
  <1>4. /\ mig[d] \in Runner /\ mig \in [Runners -> Runner]
        /\ mig'[d] = [mig[d] EXCEPT !.todo = @ \ {f}, !.step = next]
        /\ \A o \in Runners \ {d} : mig'[o] = mig[o]
    BY <1>3 DEF IInv, TypeOK, MigrateTypeOK
  <1>5. /\ mig'[d].image = mig[d].image /\ mig'[d].todo = mig[d].todo \ {f}
        /\ mig'[d].step = next /\ next \in {"done", "sql"}
    BY <1>4 DEF Runner
  <1> HIDE DEF f
  <1>6. TypeOK'
    <2>1. mig'[d] \in Runner
      BY <1>4, <1>5 DEF Runner, Steps
    <2>2. mig' \in [Runners -> Runner]
      BY <1>3, <1>4, <2>1 DEF IInv, TypeOK, MigrateTypeOK
    <2>3. recorded' \subseteq Migration /\ effect' \in [Migration -> Nat]
      BY <1>2, <1>3 DEF IInv, TypeOK, MigrateTypeOK
    <2> QED BY <1>3, <2>2, <2>3 DEF IInv, TypeOK, MigrateTypeOK, taskVars
  <1>7. EffectIsRecorded'
    BY <1>2, <1>3 DEF IInv, EffectIsRecorded, TypeOK, MigrateTypeOK
  <1>8. QueuesKnown'
    <2> SUFFICES ASSUME NEW o \in Runners
                 PROVE  /\ mig'[o].todo \subseteq Files[mig'[o].image]
                        /\ InTransaction(o)' \/ mig'[o].step = "done" =>
                             Files[mig'[o].image] \ mig'[o].todo \subseteq recorded'
                        /\ InTransaction(o)' => mig'[o].todo # {}
                        /\ mig'[o].step = "done" => mig'[o].todo = {}
      BY DEF QueuesKnown
    <2>1. CASE o = d
      <3>1. Files[mig[d].image] \ mig[d].todo \subseteq recorded /\ mig[d].todo \subseteq Files[mig[d].image]
        BY <1>1 DEF IInv, QueuesKnown
      <3> QED BY <1>2, <1>3, <1>5, <2>1, <3>1 DEF InTransaction
    <2>2. CASE o # d
      BY <1>3, <1>4, <2>2 DEF IInv, QueuesKnown, InTransaction
    <2> QED BY <2>1, <2>2
  <1>9. CommitsAlone'
    <2> SUFFICES ASSUME NEW o \in Runners, mig'[o].step = "commit"
                 PROVE  First(mig'[o].todo) \notin recorded' /\ ~RowHeld(o, First(mig[o].todo))'
      BY DEF CommitsAlone
    <2>1. o # d BY <1>5
    <2>2. mig'[o] = mig[o] BY <1>4, <2>1
    <2>3. First(mig[o].todo) \notin recorded /\ ~RowHeld(o, First(mig[o].todo))
      BY <2>2 DEF IInv, CommitsAlone
    <2>4. First(mig[o].todo) # f
      BY <1>1, <2>1, <2>3 DEF RowHeld, f
    <2>5. ~RowHeld(o, First(mig[o].todo))'
      BY <1>4, <1>5, <2>2, <2>3 DEF RowHeld
    <2> QED BY <1>3, <2>2, <2>3, <2>4, <2>5
  <1>10. TaskQueuesKnown' /\ ApisKnown' /\ DoneMeansWorked'
    BY <1>3 DEF IInv, TaskQueuesKnown, ApisKnown, DoneMeansWorked, taskVars, Running
  <1> QED BY <1>6, <1>7, <1>8, <1>9, <1>10 DEF IInv

-----------------------------------------------------------------------------
(* The steps of run_tasks.py and the api.                                  *)

\* No step of theirs touches what migrate.py keeps.
LEMMA MigrationsUntouched ==
  ASSUME IInv, UNCHANGED migrateVars
  PROVE  (MigrateTypeOK /\ EffectIsRecorded /\ QueuesKnown /\ CommitsAlone)'
  BY DEF migrateVars, IInv, TypeOK, MigrateTypeOK, EffectIsRecorded, QueuesKnown,
     InTransaction, CommitsAlone, RowHeld

\* A step that moves one task runner, with the tables growing or standing.
LEMMA TaskRunnerMoves ==
  ASSUME IInv, UNCHANGED migrateVars, UNCHANGED api,
         NEW d \in Runners,
         NEW now \in [image : Release, step : TaskSteps, todo : SUBSET Task],
         task' = [task EXCEPT ![d] = now],
         work' \in SUBSET Task, completed' \in SUBSET Task,
         work \subseteq work', completed \subseteq completed',
         completed' \subseteq work' \cup Baselined,
         now.step \in {"start", "work", "end"} =>
           /\ now.todo \subseteq Tasks[now.image]
           /\ now.todo # {}
           /\ Tasks[now.image] \ now.todo \subseteq completed'
           /\ Files[now.image] \subseteq recorded,
         now.step = "end" => First(now.todo) \in work'
  PROVE  IInv'
  <1>1. /\ task'[d] = now
        /\ \A o \in Runners \ {d} : task'[o] = task[o]
    BY DEF IInv, TypeOK
  <1>2. TypeOK'
    <2>1. task' \in [Runners -> [image : Release, step : TaskSteps, todo : SUBSET Task]]
      BY DEF IInv, TypeOK
    <2> QED BY <2>1, MigrationsUntouched DEF IInv, TypeOK
  <1>3. TaskQueuesKnown'
    <2> SUFFICES ASSUME NEW o \in Runners, task'[o].step \in {"start", "work", "end"}
                 PROVE  /\ task'[o].todo \subseteq Tasks[task'[o].image]
                        /\ task'[o].todo # {}
                        /\ Tasks[task'[o].image] \ task'[o].todo \subseteq completed'
                        /\ Files[task'[o].image] \subseteq recorded'
                        /\ task'[o].step = "end" => First(task'[o].todo) \in work'
      BY DEF TaskQueuesKnown, Running
    <2>1. CASE o = d BY <1>1, <2>1 DEF migrateVars
    <2>2. CASE o # d BY <1>1, <2>2 DEF IInv, TaskQueuesKnown, Running, migrateVars
    <2> QED BY <2>1, <2>2
  <1>4. ApisKnown' /\ DoneMeansWorked'
    BY DEF IInv, ApisKnown, DoneMeansWorked, migrateVars
  <1> QED BY <1>2, <1>3, <1>4, MigrationsUntouched DEF IInv

\* A run starts with its image's schema complete, or it fails at once.
LEMMA StartTasksSafe ==
  ASSUME IInv, NEW d \in Runners, NEW image \in Release, StartTasks(d, image)
  PROVE  IInv'
  <1> DEFINE now == [image |-> image, todo |-> Tasks[image] \ completed,
                     step |-> IF ~SchemaReady(image) THEN "failed"
                              ELSE IF Tasks[image] \subseteq completed THEN "done" ELSE "start"]
  <1>1. /\ task' = [task EXCEPT ![d] = now]
        /\ UNCHANGED <<migrateVars, completed, work, api>>
    BY DEF StartTasks
  <1>2. now \in [image : Release, step : TaskSteps, todo : SUBSET Task]
    <2>1. Tasks[image] \subseteq Task BY Numbers
    <2>2. now.step \in {"failed", "done", "start"} OBVIOUS
    <2> QED BY <2>1, <2>2 DEF TaskSteps
  <1>3. now.step = "start" => Files[image] \subseteq recorded /\ Tasks[image] \ completed # {}
    BY DEF SchemaReady, Pending
  <1>4. /\ now.step \in {"failed", "done", "start"}
        /\ now.todo = Tasks[image] \ completed /\ now.image = image
    OBVIOUS
  <1>5. /\ work' = work /\ completed' = completed
        /\ work \subseteq Task /\ completed \subseteq Task
        /\ completed \subseteq work \cup Baselined
    BY <1>1 DEF IInv, TypeOK, DoneMeansWorked
  <1>6. now.step \in {"start", "work", "end"} =>
           /\ now.todo \subseteq Tasks[now.image]
           /\ now.todo # {}
           /\ Tasks[now.image] \ now.todo \subseteq completed'
           /\ Files[now.image] \subseteq recorded
    BY <1>3, <1>4, <1>5
  <1>7. now.step # "end" BY <1>4
  <1>8. UNCHANGED migrateVars /\ UNCHANGED api BY <1>1
  <1> HIDE DEF now
  <1> QED BY <1>1, <1>2, <1>5, <1>6, <1>7, <1>8, TaskRunnerMoves

\* A runner that only changes what it is doing.
LEMMA TaskRunnerMovesOn ==
  ASSUME IInv, NEW d \in Runners, Running(d), NEW step \in {"work", "end", "failed"},
         TaskMoves(d, step), UNCHANGED <<migrateVars, completed, api>>,
         work' \in SUBSET Task, work \subseteq work',
         step = "end" => First(task[d].todo) \in work'
  PROVE  IInv'
  <1> DEFINE now == [task[d] EXCEPT !.step = step]
  <1>1. /\ task[d] \in [image : Release, step : TaskSteps, todo : SUBSET Task]
        /\ task' = [task EXCEPT ![d] = now]
    BY DEF IInv, TypeOK, TaskMoves
  <1>2. /\ now \in [image : Release, step : TaskSteps, todo : SUBSET Task]
        /\ now.todo = task[d].todo /\ now.image = task[d].image /\ now.step = step
    BY <1>1 DEF TaskSteps
  <1>3. /\ task[d].todo \subseteq Tasks[task[d].image] /\ task[d].todo # {}
        /\ Tasks[task[d].image] \ task[d].todo \subseteq completed
        /\ Files[task[d].image] \subseteq recorded
    BY DEF IInv, TaskQueuesKnown
  <1>4. /\ completed' = completed /\ completed \in SUBSET Task
        /\ completed \subseteq work \cup Baselined
    BY DEF IInv, TypeOK, DoneMeansWorked
  <1>5. completed' \subseteq work' \cup Baselined BY <1>4
  <1>6. UNCHANGED migrateVars /\ UNCHANGED api OBVIOUS
  <1> HIDE DEF now
  <1> QED BY <1>1, <1>2, <1>3, <1>4, <1>5, <1>6, TaskRunnerMoves

LEMMA TaskMovesSafe ==
  ASSUME IInv, NEW d \in Runners,
         RecordStart(d) \/ CommitWork(d) \/ TaskFails(d)
  PROVE  IInv'
  <1>0. work \in SUBSET Task BY DEF IInv, TypeOK
  <1>1. CASE RecordStart(d)
    <2>1. /\ Running(d) /\ TaskMoves(d, "work") /\ work' = work
          /\ UNCHANGED <<migrateVars, completed, api>>
      BY <1>1 DEF RecordStart, Running
    <2> QED BY <1>0, <2>1, TaskRunnerMovesOn
  <1>2. CASE CommitWork(d)
    <2>1. /\ Running(d) /\ TaskMoves(d, "end") /\ work' = work \cup {First(task[d].todo)}
          /\ UNCHANGED <<migrateVars, completed, api>>
      BY <1>2 DEF CommitWork, Running
    <2>2. First(task[d].todo) \in Task BY <2>1, FirstTask DEF IInv
    <2> QED BY <1>0, <2>1, <2>2, TaskRunnerMovesOn
  <1>3. CASE TaskFails(d)
    <2>1. /\ Running(d) /\ TaskMoves(d, "failed") /\ work' = work
          /\ UNCHANGED <<migrateVars, completed, api>>
      BY <1>3 DEF TaskFails
    <2> QED BY <1>0, <2>1, TaskRunnerMovesOn
  <1> QED BY <1>1, <1>2, <1>3

\* What is recorded done is the task whose work was just committed.
LEMMA RecordEndSafe ==
  ASSUME IInv, NEW d \in Runners, RecordEnd(d)
  PROVE  IInv'
  <1> DEFINE t    == First(task[d].todo)
             next == IF task[d].todo = {t} THEN "done" ELSE "start"
             now  == [task[d] EXCEPT !.todo = @ \ {t}, !.step = next]
  <1>1. /\ task[d].step = "end" /\ Running(d)
        /\ completed' = completed \cup {t}
        /\ task' = [task EXCEPT ![d].todo = @ \ {t}, ![d].step = next]
        /\ UNCHANGED <<migrateVars, work, api>>
    BY DEF RecordEnd, Running
  <1>2. task[d] \in [image : Release, step : TaskSteps, todo : SUBSET Task]
    BY DEF IInv, TypeOK
  <1>3. t \in task[d].todo /\ t \in Task /\ t \in work
    BY <1>1, FirstTask DEF IInv, TaskQueuesKnown
  <1>4. task' = [task EXCEPT ![d] = now]
    BY <1>1, <1>2 DEF IInv, TypeOK
  <1>5. next \in {"done", "start"} /\ next \in TaskSteps BY DEF TaskSteps
  <1>6. next = "start" => task[d].todo \ {t} # {} BY <1>3
  <1> HIDE DEF next, t
  <1>7. /\ now \in [image : Release, step : TaskSteps, todo : SUBSET Task]
        /\ now.todo = task[d].todo \ {t} /\ now.image = task[d].image /\ now.step = next
    BY <1>2, <1>5
  <1>8. /\ task[d].todo \subseteq Tasks[task[d].image]
        /\ Tasks[task[d].image] \ task[d].todo \subseteq completed
        /\ Files[task[d].image] \subseteq recorded
    BY <1>1 DEF IInv, TaskQueuesKnown
  <1>9. /\ work' = work /\ work \in SUBSET Task /\ completed \in SUBSET Task
        /\ completed \subseteq work \cup Baselined
    BY <1>1 DEF IInv, TypeOK, DoneMeansWorked
  <1> HIDE DEF now
  <1>10. /\ completed' \in SUBSET Task /\ completed \subseteq completed'
         /\ completed' \subseteq work' \cup Baselined
    BY <1>1, <1>3, <1>9
  <1>11. now.step # "end" BY <1>5, <1>7
  <1>12. now.step \in {"start", "work", "end"} =>
           /\ now.todo \subseteq Tasks[now.image]
           /\ now.todo # {}
           /\ Tasks[now.image] \ now.todo \subseteq completed'
           /\ Files[now.image] \subseteq recorded
    BY <1>1, <1>5, <1>6, <1>7, <1>8
  <1>13. UNCHANGED migrateVars /\ UNCHANGED api BY <1>1
  <1> QED BY <1>4, <1>7, <1>9, <1>10, <1>11, <1>12, <1>13, TaskRunnerMoves

\* The api of a stack starts behind its own migrations.
LEMMA StartApiSafe ==
  ASSUME IInv, NEW d \in Runners, StartApi(d)
  PROVE  IInv'
  <1>1. /\ mig[d].step = "done"
        /\ api' = [api EXCEPT ![d] = mig[d].image]
        /\ UNCHANGED <<migrateVars, taskVars>>
    BY DEF StartApi
  <1>2. Files[mig[d].image] \subseteq recorded
    BY <1>1 DEF IInv, QueuesKnown
  <1>3. mig[d].image \in 0 .. MaxRelease
    BY FilesAssumption DEF IInv, TypeOK, MigrateTypeOK, Runner, Release
  <1>4. TypeOK'
    BY <1>1, <1>3 DEF IInv, TypeOK, MigrateTypeOK, migrateVars, taskVars
  <1>5. ApisKnown'
    BY <1>1, <1>2 DEF IInv, ApisKnown, TypeOK, migrateVars
  <1>6. (EffectIsRecorded /\ DoneMeansWorked /\ QueuesKnown /\ CommitsAlone /\ TaskQueuesKnown)'
    BY <1>1 DEF IInv, EffectIsRecorded, DoneMeansWorked, QueuesKnown, InTransaction,
       CommitsAlone, RowHeld, TaskQueuesKnown, Running, migrateVars, taskVars
  <1> QED BY <1>4, <1>5, <1>6 DEF IInv

-----------------------------------------------------------------------------

\* IInv is inductive.
LEMMA StepInvariant == IInv /\ [Next]_vars => IInv'
  <1> SUFFICES ASSUME IInv, [Next]_vars PROVE IInv' OBVIOUS
  <1>1. CASE MigrateNext /\ UNCHANGED <<taskVars, api>>
    <2>1. CASE NewRelease BY <1>1, <2>1, NewReleaseSafe
    <2>2. CASE \E d \in Runners : MigrateStep(d)
      <3>1. PICK d \in Runners : MigrateStep(d) BY <2>2
      <3>2. CASE \E image \in Release : StartMigrate(d, image)
        BY <1>1, <3>2, StartMigrateSafe
      <3>3. CASE RunSql(d) \/ InsertRow(d) \/ RowExists(d) \/ MigrateFails(d)
        BY <1>1, <3>3, MigrateMovesSafe
      <3>4. CASE CommitMigration(d) BY <1>1, <3>4, CommitMigrationSafe
      <3> QED BY <3>1, <3>2, <3>3, <3>4 DEF MigrateStep
    <2> QED BY <1>1, <2>1, <2>2 DEF MigrateNext
  <1>2. ASSUME NEW d \in Runners, NEW image \in Release, StartTasks(d, image)
        PROVE  IInv'
    BY <1>2, StartTasksSafe
  <1>3. ASSUME NEW d \in Runners, RecordStart(d) \/ CommitWork(d) \/ TaskFails(d)
        PROVE  IInv'
    BY <1>3, TaskMovesSafe
  <1>4. ASSUME NEW d \in Runners, RecordEnd(d) PROVE IInv' BY <1>4, RecordEndSafe
  <1>5. ASSUME NEW d \in Runners, StartApi(d) PROVE IInv' BY <1>5, StartApiSafe
  <1>6. CASE UNCHANGED vars
    BY <1>6 DEF vars, migrateVars, taskVars, IInv, TypeOK, MigrateTypeOK, EffectIsRecorded,
       DoneMeansWorked, QueuesKnown, InTransaction, CommitsAlone, RowHeld, TaskQueuesKnown,
       Running, ApisKnown
  <1> QED BY <1>1, <1>2, <1>3, <1>4, <1>5, <1>6 DEF Next

LEMMA Invariant == Spec => []IInv
  BY InitInvariant, StepInvariant, PTL DEF Spec

\* The migrations table tells what happened to the schema, and a task
\* recorded done has committed its work or came with the baseline, though
\* runners of different releases overlap and die anywhere.
THEOREM LedgersAlwaysTrue == Spec => []LedgersAreTrue
  <1>1. IInv => LedgersAreTrue BY DEF IInv, LedgersAreTrue
  <1> QED BY <1>1, Invariant, PTL

\* Tasks and apis only ever run on a schema that has their image's files.
THEOREM SchemaComesFirst == Spec => []SchemaBeforeCode
  <1>1. IInv => TasksSeeTheirSchema
    <2> SUFFICES ASSUME IInv, NEW d \in Runners, Running(d), NEW m \in Files[task[d].image]
                 PROVE  effect[m] = 1
      BY DEF TasksSeeTheirSchema
    <2>1. m \in recorded BY DEF IInv, TaskQueuesKnown
    <2> QED BY <2>1 DEF IInv, EffectIsRecorded, TypeOK, MigrateTypeOK
  <1>2. IInv => ApiSeesItsSchema
    <2> SUFFICES ASSUME IInv, NEW d \in Runners, api[d] # 0, NEW m \in Files[api[d]]
                 PROVE  effect[m] = 1
      BY DEF ApiSeesItsSchema
    <2>1. m \in recorded BY DEF IInv, ApisKnown
    <2> QED BY <2>1 DEF IInv, EffectIsRecorded, TypeOK, MigrateTypeOK
  <1>3. IInv => SchemaBeforeCode BY <1>1, <1>2 DEF SchemaBeforeCode
  <1> QED BY <1>3, Invariant, PTL

\* Whatever commits a migration has all earlier files of its image behind it.
LEMMA CommitInOrder ==
  ASSUME IInv, Next, NEW m \in recorded' \ recorded
  PROVE  \E d \in Runners :
           /\ m \in Files[mig[d].image]
           /\ \A f \in Files[mig[d].image] : f < m => f \in recorded
  <1>1. PICK d \in Runners : CommitMigration(d)
    BY DEF Next, MigrateNext, MigrateStep, NewRelease, StartMigrate, RunSql, InsertRow,
       RowExists, MigrateFails, StartTasks, RecordStart, CommitWork, RecordEnd, TaskFails,
       StartApi, migrateVars
  <1>2. InTransaction(d) /\ recorded' = recorded \cup {First(mig[d].todo)}
    BY <1>1 DEF CommitMigration, InTransaction
  <1>3. m = First(mig[d].todo) BY <1>2
  <1> QED BY <1>2, <1>3, FirstFile DEF IInv

\* migrate.py applies a file on top of every earlier file of its image.
THEOREM AppliedInOrder == Spec => FilesInOrder
  <1> DEFINE Ordered ==
        \A m \in recorded' \ recorded :
          \E d \in Runners :
            /\ m \in Files[mig[d].image]
            /\ \A f \in Files[mig[d].image] : f < m => f \in recorded
  <1>1. IInv /\ [Next]_vars => [Ordered]_migrateVars
    <2> SUFFICES ASSUME IInv, Next PROVE Ordered
      BY DEF vars
    <2> QED BY CommitInOrder
  <1> QED BY <1>1, Invariant, PTL DEF Spec, FilesInOrder

\* Whatever commits a task's work has all earlier tasks of its image behind it.
LEMMA WorkInOrder ==
  ASSUME IInv, Next, NEW t \in work' \ work
  PROVE  \E d \in Runners :
           /\ t \in Tasks[task[d].image]
           /\ \A u \in Tasks[task[d].image] : u < t => u \in completed
  <1>1. PICK d \in Runners : CommitWork(d)
    BY DEF Next, StartTasks, RecordStart, RecordEnd, TaskFails, StartApi, taskVars
  <1>2. Running(d) /\ work' = work \cup {First(task[d].todo)}
    BY <1>1 DEF CommitWork, Running
  <1>3. t = First(task[d].todo) BY <1>2
  <1> QED BY <1>2, <1>3, FirstTask DEF IInv

\* run_tasks.py works on a task after every earlier task of its image.
THEOREM WorkedInOrder == Spec => TasksInOrder
  <1> DEFINE Ordered ==
        \A t \in work' \ work :
          \E d \in Runners :
            /\ t \in Tasks[task[d].image]
            /\ \A u \in Tasks[task[d].image] : u < t => u \in completed
  <1>1. IInv /\ [Next]_vars => [Ordered]_vars
    <2> SUFFICES ASSUME IInv, Next PROVE Ordered
      BY DEF vars
    <2> QED BY WorkInOrder
  <1> QED BY <1>1, Invariant, PTL DEF Spec, TasksInOrder

\* The two orders together.
THEOREM TakenInOrder == Spec => InOrder
  BY AppliedInOrder, WorkedInOrder DEF InOrder
==============================================================================
