------------------------------ MODULE Migrations ------------------------------
(***************************************************************************)
(* db/migrate.py: the schema moves forward by numbered files, each in one  *)
(* transaction with its row of admin.schema_migrations.                    *)
(*                                                                         *)
(* Several runners may be at it at once (a deployment's one-shot container *)
(* beside one started by hand), from different releases, and any of them   *)
(* may die.  A file is a number, its place in the filename order; a later  *)
(* release may bring a file that sorts before one already applied.         *)
(***************************************************************************)
EXTENDS Integers, FiniteSets

CONSTANTS
  Runners,     \* processes that run migrate.py
  MaxRelease,  \* releases 1 .. MaxRelease get deployed, in this order
  Files        \* Files[r]: the migrations in the image of release r

Release == 1 .. MaxRelease

\* History is never rewritten: a release only adds migrations.
ASSUME FilesAssumption ==
  /\ MaxRelease \in Nat \ {0}
  /\ Files \in [Release -> SUBSET Nat]
  /\ \A r \in Release : r + 1 \in Release => Files[r] \subseteq Files[r + 1]

VARIABLES
  release,   \* the newest image
  recorded,  \* filenames in admin.schema_migrations
  effect,    \* how many times a migration's SQL has been committed
  mig        \* the runner's image, what it is doing, and the files it has left

migrateVars == <<release, recorded, effect, mig>>

Migration == UNION {Files[r] : r \in Release}

Steps == {"off", "sql", "insert", "commit", "failed", "done"}

Runner == [image : Release, step : Steps, todo : SUBSET Migration]

InTransaction(d) == mig[d].step \in {"sql", "insert", "commit"}

\* for f in pending, in filename order
First(files) == CHOOSE f \in files : \A g \in files : f <= g

Moves(d, step) == mig' = [mig EXCEPT ![d].step = step]

-----------------------------------------------------------------------------

\* A database whose schema came with the first release, its files recorded
\* by --baseline.
MigrateInit ==
  /\ release = 1
  /\ recorded = Files[1]
  /\ effect = [m \in Migration |-> IF m \in Files[1] THEN 1 ELSE 0]
  /\ mig = [d \in Runners |-> [image |-> 1, step |-> "off", todo |-> {}]]

NewRelease ==
  /\ release < MaxRelease
  /\ release' = release + 1
  /\ UNCHANGED <<recorded, effect, mig>>

\* A row whose file the image does not have stops the run.
Unknown(image) == recorded \ Files[image]

\* Mutant: only what sorts after the newest row.
PendingAfterLast(image) == {f \in Files[image] : \A g \in recorded : f > g}

Pending(image) == Files[image] \ recorded

\* main(): the pending files are read once, when the run starts.
StartMigrate(d, image) ==
  /\ ~InTransaction(d)
  /\ image <= release
  /\ mig' = [mig EXCEPT ![d] =
       [image |-> image, todo |-> Pending(image),
        step |-> IF Unknown(image) # {} THEN "failed"
                 ELSE IF Pending(image) = {} THEN "done" ELSE "sql"]]
  /\ UNCHANGED <<release, recorded, effect>>

\* _apply(): the file's statements succeed ...
RunSql(d) ==
  /\ mig[d].step = "sql"
  /\ Moves(d, "insert")
  /\ UNCHANGED <<release, recorded, effect>>

\* Mutant: the row is inserted without a key to collide on.
NeverHeld(d, f) == FALSE

\* ... then its row is inserted.  The primary key makes an insert wait for
\* another runner's uncommitted row of the same file.
RowHeld(d, f) ==
  \E other \in Runners \ {d} : mig[other].step = "commit" /\ First(mig[other].todo) = f

InsertRow(d) ==
  LET f == First(mig[d].todo)
  IN  /\ mig[d].step = "insert"
      /\ ~RowHeld(d, f)
      /\ f \notin recorded
      /\ Moves(d, "commit")
      /\ UNCHANGED <<release, recorded, effect>>

\* Another runner was first: a unique violation, which ends the run.
RowExists(d) ==
  /\ mig[d].step = "insert"
  /\ First(mig[d].todo) \in recorded
  /\ Moves(d, "failed")
  /\ UNCHANGED <<release, recorded, effect>>

CommitMigration(d) ==
  LET f == First(mig[d].todo)
  IN  /\ mig[d].step = "commit"
      /\ recorded' = recorded \cup {f}
      /\ effect' = [effect EXCEPT ![f] = @ + 1]
      /\ mig' = [mig EXCEPT ![d].todo = @ \ {f},
                            ![d].step = IF mig[d].todo = {f} THEN "done" ELSE "sql"]
      /\ UNCHANGED release

\* Mutant: the run goes on with the next file.
SkipFailed(d) ==
  /\ InTransaction(d)
  /\ mig' = [mig EXCEPT ![d].todo = @ \ {First(mig[d].todo)},
                        ![d].step = IF mig[d].todo = {First(mig[d].todo)} THEN "done" ELSE "sql"]
  /\ UNCHANGED <<release, recorded, effect>>

\* A statement fails or the process dies: the transaction is rolled back and
\* nothing after the file is attempted.
MigrateFails(d) ==
  /\ InTransaction(d)
  /\ Moves(d, "failed")
  /\ UNCHANGED <<release, recorded, effect>>

MigrateStep(d) ==
  \/ \E image \in Release : StartMigrate(d, image)
  \/ RunSql(d) \/ InsertRow(d) \/ RowExists(d)
  \/ CommitMigration(d) \/ MigrateFails(d)

MigrateNext == NewRelease \/ \E d \in Runners : MigrateStep(d)

-----------------------------------------------------------------------------

MigrateTypeOK ==
  /\ release \in Release
  /\ recorded \subseteq Migration
  /\ effect \in [Migration -> Nat]
  /\ mig \in [Runners -> Runner]

\* A migration is recorded exactly when its statements have taken effect,
\* and they never take effect twice, however runners overlap and die.
EffectIsRecorded ==
  \A m \in Migration : effect[m] = IF m \in recorded THEN 1 ELSE 0

\* A migration is applied only on top of every earlier file of its release.
FilesInOrder ==
  [][\A m \in recorded' \ recorded :
       \E d \in Runners :
         /\ m \in Files[mig[d].image]
         /\ \A f \in Files[mig[d].image] : f < m => f \in recorded]_migrateVars
==============================================================================
