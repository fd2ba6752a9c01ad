------------------------------ MODULE Database ------------------------------
(***************************************************************************)
(* The SQLite file of the control API: lib/db.ts opens it once per process *)
(* and upgrades what an older build left, statement by statement; each     *)
(* statement commits by itself, so the process may die between any two.    *)
(* lib/sqlite.ts wraps the driver, lib/txStore.ts writes batches of blocks *)
(* in a transaction, scripts/resetDb.ts deletes the file, also below a     *)
(* process that has it open.                                               *)
(*                                                                         *)
(* A table is its shape and its rows.  The shapes are the generations of   *)
(* the schema: "plain" has no chain_id, "chain" no project_id, "scoped"    *)
(* has it outside the primary key, "keyed" inside (blocks only).  Rows are *)
(* those of one chain, told apart by number and project.  Indexes, and the *)
(* tables that no upgrade touches, are left out.                           *)
(***************************************************************************)
EXTENDS FiniteSets

CONSTANTS
    Number,     \* block numbers
    Project,    \* project ids
    NoProject,  \* the sentinel '' of lib/db.ts
    Null,       \* NULL, which older builds wrote for "no project"
    Other       \* the project-scoped tables besides blocks and transactions

ASSUME DatabaseAssumption ==
    /\ NoProject \notin Project /\ Null \notin Project \cup {NoProject}
    /\ Other \cap {"blocks", "blocks_legacy", "blocks_old", "transactions"} = {}

VARIABLES
    disk,       \* the tables in the file this process has open, or would open
    linked,     \* the path leads to that file
    handle,     \* _db: "closed", "migrating", "open", or "broken" when the upgrade threw
    stage,      \* the next statement of migrate
    todo,       \* tables the present loop or script has not come to
    pending,    \* rows written by the open transaction
    batch,      \* rows the open transaction is to write
    due         \* rows committed to the path's file so far (history)

dbVars == <<disk, linked, handle, stage, todo, pending, batch, due>>

Scopes == Project \cup {NoProject, Null}
Row    == [n : Number, scope : Scopes]
Shape  == {"absent", "plain", "chain", "scoped", "keyed"}
Table  == [shape : Shape, rows : SUBSET Row]

ProjectScoped == {"blocks", "transactions"} \cup Other
Tables == ProjectScoped \cup {"blocks_legacy", "blocks_old"}
Stage  == {"renamePlain", "createChain", "copyPlain", "dropPlain", "addChain", "addProject",
           "create", "renameOld", "createKeyed", "copyOld", "dropOld", "addProjectAgain", "index"}

NoTable     == [shape |-> "absent", rows |-> {}]
Has(t)      == disk[t].shape # "absent"
HasScope(t) == disk[t].shape \in {"scoped", "keyed"}

\* scopeId, and COALESCE(project_id, ''): no project is the sentinel.
scopeId(s) == IF s = Null THEN NoProject ELSE s
Scoped(rows) == {[n |-> r.n, scope |-> scopeId(r.scope)] : r \in rows}

DatabaseTypeOK ==
    /\ disk \in [Tables -> Table]
    /\ linked \in BOOLEAN
    /\ handle \in {"closed", "migrating", "open", "broken"}
    /\ stage \in Stage /\ todo \subseteq ProjectScoped
    /\ pending \subseteq Row /\ batch \subseteq Row /\ due \subseteq Row

\* What an older build may have left: its key told its rows apart, and a table without
\* project_id knows no project.
OldBlocks(t) ==
    /\ t.shape = "absent" => t.rows = {}
    /\ t.shape \in {"plain", "chain"} => \A r \in t.rows : r.scope = Null
    /\ \A r, q \in t.rows : r # q /\ r.n = q.n => t.shape = "keyed" /\ scopeId(r.scope) # scopeId(q.scope)

\* Of the rows of the other tables only those an upgrade touches matter.
NullRow     == [n : Number, scope : {Null}]
OldOther(t) == t.shape = "absent" <=> t.rows = {}

DatabaseInit ==
    /\ \E blocks \in Table, others \in [{"transactions"} \cup Other ->
             [shape : {"absent", "plain", "chain", "scoped"}, rows : {{}} \cup {{r} : r \in NullRow}]] :
         /\ OldBlocks(blocks)
         /\ \A t \in DOMAIN others : OldOther(others[t])
         /\ \A t \in Other : others[t].shape # "plain"
         /\ disk = [t \in Tables |-> CASE t = "blocks"          -> blocks
                                       [] t \in DOMAIN others   -> others[t]
                                       [] OTHER                 -> NoTable]
         /\ due = Scoped(blocks.rows)
    /\ linked = TRUE
    /\ handle = "closed" /\ stage = "renamePlain" /\ todo = {}
    /\ pending = {} /\ batch = {}

-----------------------------------------------------------------------------
(* migrate.  A statement can run when what it names is there, or is not.   *)

CanRun ==
    CASE stage = "renamePlain"   -> disk["blocks"].shape = "plain" => ~Has("blocks_legacy")
      [] stage \in {"createChain", "createKeyed"} -> ~Has("blocks")
      [] stage = "copyPlain"     -> Has("blocks") /\ Has("blocks_legacy")
      [] stage = "dropPlain"     -> Has("blocks_legacy")
      [] stage = "renameOld"     -> Has("blocks") /\ (disk["blocks"].shape # "keyed" => ~Has("blocks_old"))
      [] stage = "copyOld"       -> Has("blocks") /\ HasScope("blocks_old")
      [] stage = "dropOld"       -> Has("blocks_old")
      [] stage = "index"         -> \A t \in ProjectScoped : HasScope(t)
      [] OTHER                   -> TRUE

Runs(s) == handle = "migrating" /\ stage = s /\ CanRun

Goto(s, tables) == /\ stage' = s /\ todo' = tables
                   /\ UNCHANGED <<linked, handle, pending, batch, due>>

\* ALTER TABLE blocks RENAME TO ...
Rename(to) == disk' = [disk EXCEPT !["blocks"] = NoTable, ![to] = disk["blocks"]]

Create(t, shape) == disk' = [disk EXCEPT ![t] = [shape |-> shape, rows |-> {}]]

\* INSERT OR IGNORE INTO blocks SELECT ... FROM ...: what the old key told apart, the new one does.
Copy(from, rows) == disk' = [disk EXCEPT !["blocks"].rows = @ \cup rows]

Drop(t) == disk' = [disk EXCEPT ![t] = NoTable]

\* upgradeChainId, the blocks: four statements if they have no chain_id.
RenamePlain ==
    /\ Runs("renamePlain")
    /\ \/ /\ disk["blocks"].shape = "plain"
          /\ Rename("blocks_legacy") /\ Goto("createChain", {})
       \/ /\ disk["blocks"].shape # "plain"
          /\ Goto("addChain", {}) /\ UNCHANGED disk

CreateChain == Runs("createChain") /\ Create("blocks", "chain") /\ Goto("copyPlain", {})
CopyPlain   == Runs("copyPlain") /\ Copy("blocks_legacy", disk["blocks_legacy"].rows) /\ Goto("dropPlain", {})
DropPlain   == Runs("dropPlain") /\ Drop("blocks_legacy") /\ Goto("addChain", {})

\* upgradeChainId, the transactions.
AddChain ==
    /\ Runs("addChain") /\ Goto("addProject", ProjectScoped)
    /\ disk' = IF disk["transactions"].shape = "plain"
                 THEN [disk EXCEPT !["transactions"].shape = "chain"] ELSE disk

\* Mutant: a column that is there is left as it is.
AddProjectToPlain(t) ==
    disk' = IF ~Has(t) \/ HasScope(t) THEN disk ELSE [disk EXCEPT ![t].shape = "scoped"]

\* upgradeProjectId on one table: add the column, or turn NULL into the sentinel.
AddProjectTo(t) ==
    disk' = IF ~Has(t) THEN disk
            ELSE [disk EXCEPT ![t] = [shape |-> IF HasScope(t) THEN @.shape ELSE "scoped",
                                      rows  |-> Scoped(@.rows)]]

AddProject ==
    \/ /\ Runs("addProject") /\ todo # {}
       /\ \E t \in todo : AddProjectTo(t) /\ Goto("addProject", todo \ {t})
    \/ /\ Runs("addProject") /\ todo = {}
       /\ Goto("create", ProjectScoped) /\ UNCHANGED disk

\* The key of a new table.  Mutant: the blocks keep their old key.
NewShapeOld(t) == "scoped"
NewShape(t)    == IF t = "blocks" THEN "keyed" ELSE "scoped"

\* CREATE TABLE IF NOT EXISTS, table by table.
CreateMissing ==
    \/ /\ Runs("create") /\ todo # {}
       /\ \E t \in todo :
             /\ IF Has(t) THEN UNCHANGED disk
                ELSE Create(t, NewShape(t))
             /\ Goto("create", todo \ {t})
    \/ /\ Runs("create") /\ todo = {}
       /\ Goto("renameOld", {}) /\ UNCHANGED disk

\* upgradeBlocksPrimaryKey: four statements if project_id is not in the key.
RenameOld ==
    /\ Runs("renameOld")
    /\ \/ /\ disk["blocks"].shape # "keyed"
          /\ Rename("blocks_old") /\ Goto("createKeyed", {})
       \/ /\ disk["blocks"].shape = "keyed"
          /\ Goto("addProjectAgain", ProjectScoped) /\ UNCHANGED disk

\* Mutant: the old table goes before its rows are copied.
CreateKeyedOnly == Runs("createKeyed") /\ Create("blocks", "keyed") /\ Goto("dropOld", {})

CreateKeyed == Runs("createKeyed") /\ Create("blocks", "keyed") /\ Goto("copyOld", {})
CopyOld     == Runs("copyOld") /\ Copy("blocks_old", Scoped(disk["blocks_old"].rows)) /\ Goto("dropOld", {})
DropOld     == Runs("dropOld") /\ Drop("blocks_old") /\ Goto("addProjectAgain", ProjectScoped)

AddProjectAgain ==
    \/ /\ Runs("addProjectAgain") /\ todo # {}
       /\ \E t \in todo : AddProjectTo(t) /\ Goto("addProjectAgain", todo \ {t})
    \/ /\ Runs("addProjectAgain") /\ todo = {}
       /\ Goto("index", {}) /\ UNCHANGED disk

Finish ==
    /\ Runs("index")
    /\ handle' = "open" /\ stage' = "renamePlain"
    /\ UNCHANGED <<disk, linked, todo, pending, batch, due>>

Migrate ==
    \/ RenamePlain \/ CreateChain \/ CopyPlain \/ DropPlain \/ AddChain \/ AddProject
    \/ CreateMissing \/ RenameOld \/ CreateKeyed \/ CopyOld \/ DropOld \/ AddProjectAgain
    \/ Finish

-----------------------------------------------------------------------------
(* The handle.                                                             *)

\* getDB without a handle: a deleted file is created empty.
getDB ==
    /\ handle = "closed"
    /\ handle' = "migrating" /\ stage' = "renamePlain" /\ todo' = {}
    /\ disk' = IF linked THEN disk ELSE [t \in Tables |-> NoTable]
    /\ linked' = TRUE
    /\ UNCHANGED <<pending, batch, due>>

\* A statement throws: another process holds the lock for longer than busy_timeout.
\* _db was assigned before migrate, so the process goes on with the handle it has.
Throw ==
    /\ handle = "migrating" /\ handle' = "broken"
    /\ UNCHANGED <<disk, linked, stage, todo, pending, batch, due>>

\* The process ends, at any statement; closeDB is the same between two requests.
Crash ==
    /\ handle # "closed"
    /\ handle' = "closed" /\ todo' = {} /\ stage' = "renamePlain"
    /\ pending' = {} /\ batch' = {}
    /\ UNCHANGED <<disk, linked, due>>

\* scripts/resetDb.ts.
ResetDb ==
    /\ linked /\ linked' = FALSE
    /\ due' = {}
    /\ UNCHANGED <<disk, handle, stage, todo, pending, batch>>

-----------------------------------------------------------------------------
(* SqliteDatabase.transaction around the inserts of insertBlocksAndTxs.    *)

Ready == handle = "open" /\ batch = {}

\* BEGIN, for the blocks of one project.
Begin ==
    /\ Ready
    /\ \E ns \in SUBSET Number, s \in Project \cup {NoProject} :
          ns # {} /\ batch' = [n : ns, scope : {s}]
    /\ UNCHANGED <<disk, linked, handle, stage, todo, pending, due>>

Insert ==
    /\ \E r \in batch \ pending : pending' = pending \cup {r}
    /\ UNCHANGED <<disk, linked, handle, stage, todo, batch, due>>

Commit ==
    /\ batch # {} /\ pending = batch
    /\ disk' = [disk EXCEPT !["blocks"].rows = @ \cup pending]
    /\ due' = IF linked THEN due \cup batch ELSE due
    /\ pending' = {} /\ batch' = {}
    /\ UNCHANGED <<linked, handle, stage, todo>>

\* A row that cannot be bound throws: ROLLBACK.
Rollback ==
    /\ batch # {} /\ pending' = {} /\ batch' = {}
    /\ UNCHANGED <<disk, linked, handle, stage, todo, due>>

DatabaseNext ==
    \/ getDB \/ Migrate \/ Throw \/ Crash \/ ResetDb
    \/ Begin \/ Insert \/ Commit \/ Rollback

DatabaseSpec == DatabaseInit /\ [][DatabaseNext]_dbVars

-----------------------------------------------------------------------------
(* Properties.                                                             *)

\* No statement of an upgrade finds a table where it needs none, or none where it needs one, wherever
\* earlier upgrades of the same file were cut off.
UpgradeNeverFails == handle = "migrating" => CanRun

\* ... and once getDB has returned a handle without throwing, the file has the present schema: blocks keyed
\* by project, every scoped table with its column, and no NULL left in it.
ReadyIsCurrent ==
    handle = "open" =>
        /\ disk["blocks"].shape = "keyed"
        /\ \A t \in ProjectScoped : HasScope(t) /\ \A r \in disk[t].rows : r.scope # Null

UpgradeIsSound == UpgradeNeverFails /\ ReadyIsCurrent

\* Where an upgrade was cut off, the rows it was moving are still in one of the three tables; where
\* none was, a usable database has exactly the rows that were there and those of whole batches.
RowsKept ==
    linked =>
        LET kept == UNION {Scoped(disk[t].rows) : t \in {"blocks", "blocks_legacy", "blocks_old"}}
        IN  /\ kept = due
            /\ handle = "open" /\ ~Has("blocks_legacy") /\ ~Has("blocks_old")
                 => disk["blocks"].rows = due
=============================================================================
