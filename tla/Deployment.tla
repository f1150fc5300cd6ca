------------------------------ MODULE Deployment ------------------------------
(***************************************************************************)
(* What a deployment does to the database beside the schema: the data      *)
(* tasks of db/run_tasks.py, and the api that starts when the migrations   *)
(* are through.  A stack is one `docker compose up`, or the same one-shot  *)
(* containers started by hand.                                             *)
(***************************************************************************)
EXTENDS Migrations

CONSTANTS
  Tasks,     \* Tasks[r]: the data tasks in the image of release r
  Baselined  \* tasks recorded by --baseline: the first seed needed none of them

ASSUME TasksAssumption ==
  /\ Tasks \in [Release -> SUBSET Nat]
  /\ \A r \in Release : r + 1 \in Release => Tasks[r] \subseteq Tasks[r + 1]
  /\ Baselined \subseteq Tasks[1]

VARIABLES
  completed,  \* tasks with a row of admin.data_task_runs done or baselined
  work,       \* tasks whose work is committed
  task,       \* the task runner's image, what it is doing, and its queue
  api         \* the release a stack's api serves, 0 before the first

taskVars == <<completed, work, task>>
vars == <<migrateVars, taskVars, api>>

Task == UNION {Tasks[r] : r \in Release}

TaskSteps == {"off", "start", "work", "end", "failed", "done"}

Running(d) == task[d].step \in {"start", "work", "end"}

TaskMoves(d, step) == task' = [task EXCEPT ![d].step = step]

-----------------------------------------------------------------------------
(* db/run_tasks.py                                                         *)

\* Mutant: pending migrations are not looked at.
NoneUnknown(image) == Unknown(image) = {}

\* Tasks assume the schema they were written against: a pending migration,
\* or one the image does not know, stops the run.
SchemaReady(image) == Pending(image) = {} /\ Unknown(image) = {}

\* main(): the pending tasks are read once, when the run starts.
StartTasks(d, image) ==
  /\ ~Running(d)
  /\ image <= release
  /\ task' = [task EXCEPT ![d] =
       [image |-> image, todo |-> Tasks[image] \ completed,
        step |-> IF ~SchemaReady(image) THEN "failed"
                 ELSE IF Tasks[image] \subseteq completed THEN "done" ELSE "start"]]
  /\ UNCHANGED <<migrateVars, completed, work, api>>

\* _record_start(): the row 'running' says nothing about completion.
RecordStart(d) ==
  /\ task[d].step = "start"
  /\ TaskMoves(d, "work")
  /\ UNCHANGED <<migrateVars, completed, work, api>>

\* The task works on a connection of its own.
CommitWork(d) ==
  /\ task[d].step = "work"
  /\ work' = work \cup {First(task[d].todo)}
  /\ TaskMoves(d, "end")
  /\ UNCHANGED <<migrateVars, completed, api>>

\* _record_end(), on the tracking connection; then the next of the queue.
RecordEnd(d) ==
  LET t == First(task[d].todo)
  IN  /\ task[d].step = "end"
      /\ completed' = completed \cup {t}
      /\ task' = [task EXCEPT ![d].todo = @ \ {t},
                              ![d].step = IF task[d].todo = {t} THEN "done" ELSE "start"]
      /\ UNCHANGED <<migrateVars, work, api>>

\* The work raises and is rolled back ('failed' is recorded, the queue ends),
\* or the process dies and leaves 'running' behind: the task stays pending.
TaskFails(d) ==
  /\ Running(d)
  /\ TaskMoves(d, "failed")
  /\ UNCHANGED <<migrateVars, completed, work, api>>

-----------------------------------------------------------------------------

\* The api container depends on the migrate one-shot of its own image.
StartApi(d) ==
  /\ mig[d].step = "done"
  /\ api[d] # mig[d].image
  /\ api' = [api EXCEPT ![d] = mig[d].image]
  /\ UNCHANGED <<migrateVars, taskVars>>

Init ==
  /\ MigrateInit
  /\ completed = Baselined
  /\ work = {}
  /\ task = [d \in Runners |-> [image |-> 1, step |-> "off", todo |-> {}]]
  /\ api = [d \in Runners |-> 0]

Next ==
  \/ MigrateNext /\ UNCHANGED <<taskVars, api>>
  \/ \E d \in Runners :
       \/ \E image \in Release : StartTasks(d, image)
       \/ RecordStart(d) \/ CommitWork(d) \/ RecordEnd(d) \/ TaskFails(d)
       \/ StartApi(d)

Spec == Init /\ [][Next]_vars

\* A deployment of the newest image is repeated while something is pending,
\* and no failure is permanent: a step some runner can take again and again
\* is taken.
Migrates(step) == step /\ UNCHANGED <<taskVars, api>>

Fairness ==
  /\ SF_vars(\E d \in Runners : Migrates(StartMigrate(d, release)))
  /\ SF_vars(\E d \in Runners : Migrates(RunSql(d)))
  /\ SF_vars(\E d \in Runners : Migrates(InsertRow(d)))
  /\ SF_vars(\E d \in Runners : Migrates(RowExists(d)))
  /\ SF_vars(\E d \in Runners : Migrates(CommitMigration(d)))
  /\ SF_vars(\E d \in Runners : StartTasks(d, release))
  /\ SF_vars(\E d \in Runners : RecordStart(d))
  /\ SF_vars(\E d \in Runners : CommitWork(d))
  /\ SF_vars(\E d \in Runners : RecordEnd(d))

FairSpec == Spec /\ Fairness

-----------------------------------------------------------------------------

TypeOK ==
  /\ MigrateTypeOK
  /\ completed \subseteq Task
  /\ work \subseteq Task
  /\ task \in [Runners -> [image : Release, step : TaskSteps, todo : SUBSET Task]]
  /\ api \in [Runners -> 0 .. MaxRelease]

\* A task counts as done only when its work is committed.
DoneMeansWorked == completed \subseteq work \cup Baselined

\* Both ledgers tell the truth: what they record has taken effect, and a
\* schema change has taken effect only if its ledger says so.
LedgersAreTrue == EffectIsRecorded /\ DoneMeansWorked

\* A running task finds every migration of its image applied, though other
\* images come and go beside it.
TasksSeeTheirSchema ==
  \A d \in Runners :
    Running(d) => \A m \in Files[task[d].image] : effect[m] = 1

\* An api never serves from a database that lacks a migration of its image.
ApiSeesItsSchema ==
  \A d \in Runners :
    api[d] # 0 => \A m \in Files[api[d]] : effect[m] = 1

\* Whatever another image does meanwhile, code runs on its own schema.
SchemaBeforeCode == TasksSeeTheirSchema /\ ApiSeesItsSchema

\* A task works only after every earlier task of its image is done.
TasksInOrder ==
  [][\A t \in work' \ work :
       \E d \in Runners :
         /\ t \in Tasks[task[d].image]
         /\ \A u \in Tasks[task[d].image] : u < t => u \in completed]_vars

\* Schema changes and tasks each take effect in the order of their files.
InOrder == FilesInOrder /\ TasksInOrder

\* Crashes and failures delay a deployment, they do not lose part of it.
EventuallyDeployed ==
  <>[](Files[release] \subseteq recorded /\ Tasks[release] \subseteq completed)
==============================================================================
