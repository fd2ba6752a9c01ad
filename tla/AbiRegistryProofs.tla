------------------------- MODULE AbiRegistryProofs --------------------------
(***************************************************************************)
(* Proofs about Database and about AbiRegistry on top of it.  Of the       *)
(* database, for any tables, rows and projects: an upgrade may be cut off  *)
(* after each of its statements, any number of times.  Of the registry: it *)
(* leaves the database below it what it is, its cache agrees with the      *)
(* table, and no late answer of a source takes the place of an ABI that    *)
(* the user had saved before it was asked.                                 *)
(***************************************************************************)
EXTENDS AbiRegistry, TLAPS

(***************************************************************************)
(* The database.                                                           *)
(***************************************************************************)

\* A table with the column, and no NULL in it.
Current(t) == HasScope(t) /\ \A r \in disk[t].rows : r.scope # Null
Upgraded(t) == Has(t) => Current(t)

\* The tables a cut-off upgrade leaves: a second one never meets them in its way.
Leftovers ==
  /\ Has("blocks_legacy") => disk["blocks"].shape # "plain"
  /\ Has("blocks_old") => disk["blocks"].shape \in {"absent", "keyed"}
  /\ \A t \in Tables : ~Has(t) => disk[t].rows = {}

\* What the statements before the next one have established.
FromPlain ==
  /\ stage \in {"createChain", "copyPlain", "dropPlain"} => Has("blocks_legacy") /\ ~Has("blocks_old")
  /\ stage = "createChain" => ~Has("blocks")
  /\ stage \in {"copyPlain", "dropPlain"} => disk["blocks"].shape = "chain"

ToScoped ==
  /\ stage = "addProject" => \A t \in ProjectScoped \ todo : Upgraded(t)
  /\ stage \in {"create", "renameOld", "createKeyed", "copyOld", "dropOld", "addProjectAgain", "index"}
       => \A t \in ProjectScoped : Upgraded(t)
  /\ stage = "create" => \A t \in ProjectScoped \ todo : Has(t)
  /\ stage \in {"renameOld", "addProjectAgain", "index"} => \A t \in ProjectScoped : Has(t)

ToKeyed ==
  /\ stage \in {"createKeyed", "copyOld", "dropOld"} =>
       Current("blocks_old") /\ \A t \in ProjectScoped \ {"blocks"} : Has(t)
  /\ stage = "createKeyed" => ~Has("blocks")
  /\ stage \in {"copyOld", "dropOld", "addProjectAgain", "index"} => disk["blocks"].shape = "keyed"

\* A table is dropped only when its rows are in the new one.
Moved ==
  /\ stage = "dropPlain" => disk["blocks_legacy"].rows \subseteq disk["blocks"].rows
  /\ stage = "dropOld" => Scoped(disk["blocks_old"].rows) \subseteq disk["blocks"].rows

Reached == handle = "migrating" => FromPlain /\ ToScoped /\ ToKeyed /\ Moved

Kept == Scoped(disk["blocks"].rows) \cup Scoped(disk["blocks_legacy"].rows) \cup Scoped(disk["blocks_old"].rows)

Counted ==
  /\ linked => Kept = due
  /\ ~linked => due = {}
  /\ \A r \in batch : r.scope # Null
  /\ batch # {} => handle = "open"

DatabaseInv == DatabaseTypeOK /\ Leftovers /\ Reached /\ ReadyIsCurrent /\ Counted

-----------------------------------------------------------------------------
(* Scoped.                                                                 *)

\* The sentinel is a scope, and no project but NULL is changed.
LEMMA ScopeIdFacts ==
  /\ \A s \in Scopes : scopeId(s) \in Scopes /\ scopeId(s) # Null
  /\ \A s \in Scopes : s # Null => scopeId(s) = s
BY DatabaseAssumption DEF scopeId, Scopes

\* Scoped, element by element.
LEMMA ScopedFacts ==
  ASSUME NEW A \in SUBSET Row
  PROVE  /\ Scoped(A) \subseteq Row
         /\ \A r \in Scoped(A) : r.scope # Null
         /\ (\A r \in A : r.scope # Null) => Scoped(A) = A
<1>1. \A r \in A : r \in Row /\ r = [n |-> r.n, scope |-> r.scope] /\ r.n \in Number /\ r.scope \in Scopes
  BY DEF Row
<1>2. ASSUME NEW r \in A
      PROVE  /\ [n |-> r.n, scope |-> scopeId(r.scope)] \in Row
             /\ [n |-> r.n, scope |-> scopeId(r.scope)].scope # Null
  BY <1>1, ScopeIdFacts DEF Row
<1>3. (\A r \in A : r.scope # Null) => \A r \in A : [n |-> r.n, scope |-> scopeId(r.scope)] = r
  BY <1>1, ScopeIdFacts
<1> QED BY <1>2, <1>3 DEF Scoped

\* Scoped of what it has done already.
LEMMA ScopedAgain ==
  ASSUME NEW A \in SUBSET Row
  PROVE  Scoped(Scoped(A)) = Scoped(A) /\ Scoped(A) \in SUBSET Row
BY ScopedFacts

\* Scoped of two tables.
LEMMA ScopedUnion ==
  ASSUME NEW A, NEW B
  PROVE  Scoped(A \cup B) = Scoped(A) \cup Scoped(B) /\ Scoped({}) = {} /\ (A \subseteq B => Scoped(A) \subseteq Scoped(B))
BY DEF Scoped

-----------------------------------------------------------------------------
(* The statements.                                                         *)

\* The tables an upgrade works on are not the same one.
LEMMA TableNames ==
  /\ {"blocks", "transactions", "blocks_legacy", "blocks_old"} \subseteq Tables
  /\ ProjectScoped \subseteq Tables
  /\ "blocks" \in ProjectScoped /\ "transactions" \in ProjectScoped
  /\ "blocks_legacy" \notin ProjectScoped /\ "blocks_old" \notin ProjectScoped
BY DatabaseAssumption DEF Tables, ProjectScoped

\* What typing says of one table.
LEMMA TableFacts ==
  ASSUME DatabaseTypeOK, NEW t \in Tables
  PROVE  /\ disk[t] \in Table /\ disk[t].rows \in SUBSET Row /\ disk[t].shape \in Shape
         /\ disk[t] = [shape |-> disk[t].shape, rows |-> disk[t].rows]
BY DEF DatabaseTypeOK, Table

\* A renamed table.
LEMMA RenameEffect ==
  ASSUME DatabaseTypeOK, NEW to \in {"blocks_legacy", "blocks_old"}, Rename(to)
  PROVE  /\ disk' \in [Tables -> Table]
         /\ disk'["blocks"] = NoTable /\ disk'[to] = disk["blocks"]
         /\ \A t \in Tables \ {"blocks", to} : disk'[t] = disk[t]
BY TableNames, DatabaseAssumption DEF DatabaseTypeOK, Rename, NoTable, Table, Shape

\* A created table.
LEMMA CreateEffect ==
  ASSUME DatabaseTypeOK, NEW t \in Tables, NEW shape \in Shape, Create(t, shape)
  PROVE  /\ disk' \in [Tables -> Table]
         /\ disk'[t].shape = shape /\ disk'[t].rows = {}
         /\ \A u \in Tables \ {t} : disk'[u] = disk[u]
BY DEF DatabaseTypeOK, Create, Table

\* A dropped table.
LEMMA DropEffect ==
  ASSUME DatabaseTypeOK, NEW t \in Tables, Drop(t)
  PROVE  /\ disk' \in [Tables -> Table]
         /\ disk'[t] = NoTable
         /\ \A u \in Tables \ {t} : disk'[u] = disk[u]
BY DEF DatabaseTypeOK, Drop, NoTable, Table, Shape

\* Rows copied into the blocks.
LEMMA CopyEffect ==
  ASSUME DatabaseTypeOK, NEW from, NEW rows \in SUBSET Row, Copy(from, rows)
  PROVE  /\ disk' \in [Tables -> Table]
         /\ disk'["blocks"].shape = disk["blocks"].shape
         /\ disk'["blocks"].rows = disk["blocks"].rows \cup rows
         /\ \A u \in Tables \ {"blocks"} : disk'[u] = disk[u]
<1> DEFINE new == [disk["blocks"] EXCEPT !.rows = @ \cup rows]
<1>1. "blocks" \in Tables
  BY TableNames
<1>2. /\ new \in Table /\ new.shape = disk["blocks"].shape
      /\ new.rows = disk["blocks"].rows \cup rows
  BY <1>1, TableFacts DEF Table
<1>3. disk' = [disk EXCEPT !["blocks"] = new]
  BY DEF Copy
<1> HIDE DEF new
<1> QED BY <1>1, <1>2, <1>3 DEF DatabaseTypeOK

\* The column added, and NULL turned into the sentinel.
LEMMA AddProjectEffect ==
  ASSUME DatabaseTypeOK, NEW t \in ProjectScoped, AddProjectTo(t), ~Has(t) => disk[t].rows = {}
  PROVE  /\ disk' \in [Tables -> Table]
         /\ disk'[t].rows = Scoped(disk[t].rows)
         /\ ~Has(t) => disk'[t] = disk[t]
         /\ Has(t) => disk'[t].shape \in {"scoped", "keyed"} /\ (disk[t].shape = "keyed" <=> disk'[t].shape = "keyed")
         /\ \A u \in Tables \ {t} : disk'[u] = disk[u]
<1>1. t \in Tables /\ disk \in [Tables -> Table]
  BY TableNames DEF DatabaseTypeOK
<1>2. disk[t].rows \in SUBSET Row /\ disk[t].shape \in Shape
  BY <1>1, TableFacts
<1>3. CASE ~Has(t)
  BY <1>1, <1>3, ScopedUnion DEF AddProjectTo, Has
<1>4. CASE Has(t)
  <2> DEFINE new == [shape |-> IF HasScope(t) THEN disk[t].shape ELSE "scoped", rows |-> Scoped(disk[t].rows)]
  <2>1. disk' = [disk EXCEPT ![t] = new]
    BY <1>4 DEF AddProjectTo
  <2>2. new \in Table
    BY <1>2, ScopedFacts DEF Table, Shape, HasScope
  <2>3. /\ new.rows = Scoped(disk[t].rows) /\ new.shape \in {"scoped", "keyed"}
        /\ disk[t].shape = "keyed" <=> new.shape = "keyed"
    BY DEF HasScope
  <2> HIDE DEF new
  <2> QED BY <1>1, <1>4, <2>1, <2>2, <2>3
<1> QED BY <1>3, <1>4

-----------------------------------------------------------------------------
(* One lemma for each statement.                                           *)

\* What a statement leaves alone, and what is left to show of it.
LEMMA StatementStep ==
  ASSUME DatabaseInv, NEW s \in Stage, NEW ts \in SUBSET ProjectScoped,
         handle = "migrating", Goto(s, ts), disk' \in [Tables -> Table]
  PROVE  /\ DatabaseTypeOK' /\ ReadyIsCurrent'
         /\ handle' = "migrating" /\ stage' = s /\ todo' = ts /\ UNCHANGED <<linked, due>>
         /\ Kept' = Kept => Counted'
BY DEF DatabaseInv, DatabaseTypeOK, Goto, ReadyIsCurrent, Counted

LEMMA RenamePlainStep ==
  ASSUME DatabaseInv, RenamePlain
  PROVE  DatabaseInv'
<1>1. DatabaseTypeOK /\ Leftovers /\ handle = "migrating" /\ stage = "renamePlain"
  BY DEF DatabaseInv, RenamePlain, Runs
<1>2. CASE disk["blocks"].shape = "plain" /\ Rename("blocks_legacy") /\ Goto("createChain", {})
  <2>1. /\ disk' \in [Tables -> Table]
        /\ disk'["blocks"] = NoTable /\ disk'["blocks_legacy"] = disk["blocks"]
        /\ \A t \in Tables \ {"blocks", "blocks_legacy"} : disk'[t] = disk[t]
    BY <1>1, <1>2, RenameEffect
  <2>2. /\ DatabaseTypeOK' /\ ReadyIsCurrent' /\ handle' = "migrating" /\ stage' = "createChain"
        /\ Kept' = Kept => Counted'
    BY <1>1, <1>2, <2>1, StatementStep DEF Stage
  <2>3. ~Has("blocks_legacy") /\ ~Has("blocks_old") /\ disk["blocks_legacy"].rows = {}
    BY <1>1, <1>2, TableNames DEF Leftovers
  <2>4. Leftovers'
    BY <1>1, <1>2, <2>1, <2>3, TableNames DEF Leftovers, Has, NoTable
  <2>5. Reached'
    BY <1>2, <2>1, <2>2, <2>3, TableNames DEF Reached, FromPlain, ToScoped, ToKeyed, Moved, Has, NoTable
  <2>6. Kept' = Kept
    BY <2>1, <2>3, TableNames, ScopedUnion DEF Kept, NoTable
  <2> QED BY <2>2, <2>4, <2>5, <2>6 DEF DatabaseInv
<1>3. CASE disk["blocks"].shape # "plain" /\ Goto("addChain", {}) /\ UNCHANGED disk
  <2>1. /\ DatabaseTypeOK' /\ ReadyIsCurrent' /\ handle' = "migrating" /\ stage' = "addChain"
        /\ Kept' = Kept => Counted'
    BY <1>1, <1>3, StatementStep DEF Stage, DatabaseTypeOK
  <2>2. Leftovers' /\ Kept' = Kept
    BY <1>1, <1>3 DEF Leftovers, Has, Kept
  <2>3. Reached'
    BY <2>1 DEF Reached, FromPlain, ToScoped, ToKeyed, Moved
  <2> QED BY <2>1, <2>2, <2>3 DEF DatabaseInv
<1> QED BY <1>2, <1>3 DEF RenamePlain

LEMMA CreateChainStep ==
  ASSUME DatabaseInv, CreateChain
  PROVE  DatabaseInv'
<1>1. /\ DatabaseTypeOK /\ Leftovers /\ handle = "migrating" /\ stage = "createChain"
      /\ Has("blocks_legacy") /\ ~Has("blocks_old") /\ ~Has("blocks") /\ disk["blocks"].rows = {}
  BY TableNames DEF DatabaseInv, CreateChain, Runs, Reached, FromPlain, Leftovers
<1>2. /\ disk' \in [Tables -> Table]
      /\ disk'["blocks"].shape = "chain" /\ disk'["blocks"].rows = {}
      /\ \A t \in Tables \ {"blocks"} : disk'[t] = disk[t]
  BY <1>1, TableNames, CreateEffect DEF CreateChain, Shape
<1>3. /\ DatabaseTypeOK' /\ ReadyIsCurrent' /\ handle' = "migrating" /\ stage' = "copyPlain"
      /\ Kept' = Kept => Counted'
  BY <1>1, <1>2, StatementStep DEF CreateChain, Stage
<1>4. Leftovers' /\ Kept' = Kept
  BY <1>1, <1>2, TableNames DEF Leftovers, Has, Kept
<1>5. Reached'
  BY <1>1, <1>2, <1>3, TableNames DEF Reached, FromPlain, ToScoped, ToKeyed, Moved, Has
<1> QED BY <1>3, <1>4, <1>5 DEF DatabaseInv

LEMMA CopyPlainStep ==
  ASSUME DatabaseInv, CopyPlain
  PROVE  DatabaseInv'
<1>1. /\ DatabaseTypeOK /\ Leftovers /\ handle = "migrating" /\ stage = "copyPlain"
      /\ Has("blocks_legacy") /\ ~Has("blocks_old") /\ disk["blocks"].shape = "chain"
      /\ disk["blocks_legacy"].rows \in SUBSET Row
  BY TableNames, TableFacts DEF DatabaseInv, CopyPlain, Runs, Reached, FromPlain
<1>2. /\ disk' \in [Tables -> Table]
      /\ disk'["blocks"].shape = "chain"
      /\ disk'["blocks"].rows = disk["blocks"].rows \cup disk["blocks_legacy"].rows
      /\ \A t \in Tables \ {"blocks"} : disk'[t] = disk[t]
  BY <1>1, CopyEffect DEF CopyPlain
<1>3. /\ DatabaseTypeOK' /\ ReadyIsCurrent' /\ handle' = "migrating" /\ stage' = "dropPlain"
      /\ Kept' = Kept => Counted'
  BY <1>1, <1>2, StatementStep DEF CopyPlain, Stage
<1>4. Leftovers'
  BY <1>1, <1>2, TableNames DEF Leftovers, Has
<1>5. Kept' = Kept
  BY <1>2, TableNames, ScopedUnion DEF Kept
<1>6. Reached'
  BY <1>1, <1>2, <1>3, TableNames DEF Reached, FromPlain, ToScoped, ToKeyed, Moved, Has
<1> QED BY <1>3, <1>4, <1>5, <1>6 DEF DatabaseInv

LEMMA DropPlainStep ==
  ASSUME DatabaseInv, DropPlain
  PROVE  DatabaseInv'
<1>1. /\ DatabaseTypeOK /\ Leftovers /\ handle = "migrating" /\ stage = "dropPlain"
      /\ ~Has("blocks_old") /\ disk["blocks"].shape = "chain"
      /\ disk["blocks_legacy"].rows \subseteq disk["blocks"].rows
  BY DEF DatabaseInv, DropPlain, Runs, Reached, FromPlain, Moved
<1>2. /\ disk' \in [Tables -> Table] /\ disk'["blocks_legacy"] = NoTable
      /\ \A t \in Tables \ {"blocks_legacy"} : disk'[t] = disk[t]
  BY <1>1, TableNames, DropEffect DEF DropPlain
<1>3. /\ DatabaseTypeOK' /\ ReadyIsCurrent' /\ handle' = "migrating" /\ stage' = "addChain"
      /\ Kept' = Kept => Counted'
  BY <1>1, <1>2, StatementStep DEF DropPlain, Stage
<1>4. Leftovers'
  BY <1>1, <1>2, TableNames DEF Leftovers, Has, NoTable
<1>5. Kept' = Kept
  BY <1>1, <1>2, TableNames, ScopedUnion DEF Kept, NoTable
<1>6. Reached'
  BY <1>3 DEF Reached, FromPlain, ToScoped, ToKeyed, Moved
<1> QED BY <1>3, <1>4, <1>5, <1>6 DEF DatabaseInv

LEMMA AddChainStep ==
  ASSUME DatabaseInv, AddChain
  PROVE  DatabaseInv'
<1>1. /\ DatabaseTypeOK /\ Leftovers /\ handle = "migrating" /\ stage = "addChain"
  BY DEF DatabaseInv, AddChain, Runs
<1>2. /\ disk' \in [Tables -> Table]
      /\ disk'["transactions"].rows = disk["transactions"].rows
      /\ disk'["transactions"].shape = "absent" <=> disk["transactions"].shape = "absent"
      /\ \A t \in Tables \ {"transactions"} : disk'[t] = disk[t]
  BY <1>1, TableNames, TableFacts DEF AddChain, DatabaseTypeOK, Table, Shape
<1>3. /\ DatabaseTypeOK' /\ ReadyIsCurrent' /\ handle' = "migrating" /\ stage' = "addProject"
      /\ todo' = ProjectScoped
      /\ Kept' = Kept => Counted'
  BY <1>1, <1>2, StatementStep DEF AddChain, Stage
<1>4. Leftovers' /\ Kept' = Kept
  BY <1>1, <1>2, TableNames DEF Leftovers, Has, Kept, ProjectScoped
<1>5. Reached'
  BY <1>3 DEF Reached, FromPlain, ToScoped, ToKeyed, Moved
<1> QED BY <1>3, <1>4, <1>5 DEF DatabaseInv

\* The column added to one table, in either loop.
LEMMA AddProjectToKeeps ==
  ASSUME DatabaseTypeOK, Leftovers, NEW t \in ProjectScoped, AddProjectTo(t),
         Has("blocks_old") => t # "blocks" \/ disk[t].shape \in {"absent", "keyed"}
  PROVE  /\ disk' \in [Tables -> Table]
         /\ Leftovers' /\ Kept' = Kept
         /\ Upgraded(t)' /\ (Has(t)' <=> Has(t)) /\ (disk[t].shape = "keyed" => disk'[t].shape = "keyed")
         /\ \A u \in Tables \ {t} : disk'[u] = disk[u]
<1>1. t \in Tables /\ disk[t].rows \in SUBSET Row /\ (~Has(t) => disk[t].rows = {})
  BY TableNames, TableFacts DEF Leftovers
<1>2. /\ disk' \in [Tables -> Table]
      /\ disk'[t].rows = Scoped(disk[t].rows)
      /\ ~Has(t) => disk'[t] = disk[t]
      /\ Has(t) => /\ disk'[t].shape \in {"scoped", "keyed"}
                   /\ disk[t].shape = "keyed" <=> disk'[t].shape = "keyed"
      /\ \A u \in Tables \ {t} : disk'[u] = disk[u]
  BY <1>1, AddProjectEffect
<1>3. Has(t)' <=> Has(t)
  BY <1>2 DEF Has
<1>4. Upgraded(t)'
  BY <1>1, <1>2, <1>3, ScopedFacts DEF Upgraded, Current, Has, HasScope
<1>5. Leftovers'
  BY <1>1, <1>2, <1>3, TableNames DEF Leftovers, Has
<1>6. Scoped(disk'[t].rows) = Scoped(disk[t].rows)
  BY <1>1, <1>2, ScopedAgain
<1>7. Kept' = Kept
  BY <1>2, <1>6, TableNames DEF Kept
<1> QED BY <1>2, <1>3, <1>4, <1>5, <1>7

LEMMA AddProjectStep ==
  ASSUME DatabaseInv, AddProject
  PROVE  DatabaseInv'
<1>1. /\ DatabaseTypeOK /\ Leftovers /\ handle = "migrating" /\ stage = "addProject"
      /\ todo \in SUBSET ProjectScoped
      /\ \A t \in ProjectScoped \ todo : Upgraded(t)
  BY DEF DatabaseInv, AddProject, Runs, Reached, ToScoped, DatabaseTypeOK
<1>2. ASSUME NEW t \in todo, AddProjectTo(t), Goto("addProject", todo \ {t})
      PROVE  DatabaseInv'
  <2>1. t \in ProjectScoped /\ (Has("blocks_old") => t # "blocks" \/ disk[t].shape \in {"absent", "keyed"})
    BY <1>1 DEF Leftovers
  <2>2. /\ disk' \in [Tables -> Table]
        /\ Leftovers' /\ Kept' = Kept /\ Upgraded(t)'
        /\ \A u \in Tables \ {t} : disk'[u] = disk[u]
    BY <1>1, <1>2, <2>1, AddProjectToKeeps
  <2>3. /\ DatabaseTypeOK' /\ ReadyIsCurrent' /\ handle' = "migrating" /\ stage' = "addProject"
        /\ todo' = todo \ {t}
        /\ Kept' = Kept => Counted'
    BY <1>1, <1>2, <2>2, StatementStep DEF Stage
  <2>4. ASSUME NEW u \in ProjectScoped \ todo'
        PROVE  Upgraded(u)'
    BY <1>1, <2>2, <2>3, <2>4, TableNames DEF Upgraded, Current, Has, HasScope
  <2>5. Reached'
    BY <2>3, <2>4 DEF Reached, FromPlain, ToScoped, ToKeyed, Moved
  <2> QED BY <2>2, <2>3, <2>5 DEF DatabaseInv
<1>3. CASE todo = {} /\ Goto("create", ProjectScoped) /\ UNCHANGED disk
  <2>1. /\ DatabaseTypeOK' /\ ReadyIsCurrent' /\ handle' = "migrating" /\ stage' = "create"
        /\ todo' = ProjectScoped
        /\ Kept' = Kept => Counted'
    BY <1>1, <1>3, StatementStep DEF Stage, DatabaseTypeOK
  <2>2. Leftovers' /\ Kept' = Kept
    BY <1>1, <1>3 DEF Leftovers, Has, Kept
  <2>3. \A t \in ProjectScoped : Upgraded(t)'
    BY <1>1, <1>3 DEF Upgraded, Current, Has, HasScope
  <2>4. Reached'
    BY <2>1, <2>3 DEF Reached, FromPlain, ToScoped, ToKeyed, Moved
  <2> QED BY <2>1, <2>2, <2>4 DEF DatabaseInv
<1> QED BY <1>2, <1>3 DEF AddProject

LEMMA CreateMissingStep ==
  ASSUME DatabaseInv, CreateMissing
  PROVE  DatabaseInv'
<1>1. /\ DatabaseTypeOK /\ Leftovers /\ handle = "migrating" /\ stage = "create"
      /\ todo \in SUBSET ProjectScoped
      /\ \A t \in ProjectScoped : Upgraded(t)
      /\ \A t \in ProjectScoped \ todo : Has(t)
  BY DEF DatabaseInv, CreateMissing, Runs, Reached, ToScoped, DatabaseTypeOK
<1>2. ASSUME NEW t \in todo, IF Has(t) THEN UNCHANGED disk ELSE Create(t, NewShape(t)),
             Goto("create", todo \ {t})
      PROVE  DatabaseInv'
  <2>1. t \in ProjectScoped /\ t \in Tables /\ NewShape(t) \in {"scoped", "keyed"}
        /\ (t = "blocks" => NewShape(t) = "keyed") /\ NewShape(t) \in Shape
        /\ (~Has(t) => disk[t].rows = {})
    BY <1>1, TableNames DEF NewShape, Shape, Leftovers
  <2>2. /\ disk' \in [Tables -> Table]
        /\ Has(t)' /\ disk'[t].rows = disk[t].rows
        /\ \A u \in Tables \ {t} : disk'[u] = disk[u]
        /\ ~Has(t) => disk'[t].shape = NewShape(t)
        /\ Has(t) => UNCHANGED disk
    <3>1. CASE Has(t)
      BY <1>1, <1>2, <3>1 DEF DatabaseTypeOK, Has
    <3>2. CASE ~Has(t)
      BY <1>1, <1>2, <2>1, <3>2, CreateEffect DEF Has
    <3> QED BY <3>1, <3>2
  <2>3. /\ DatabaseTypeOK' /\ ReadyIsCurrent' /\ handle' = "migrating" /\ stage' = "create"
        /\ todo' = todo \ {t}
        /\ Kept' = Kept => Counted'
    BY <1>1, <1>2, <2>2, StatementStep DEF Stage
  <2>4. Leftovers' /\ Kept' = Kept
    BY <1>1, <2>1, <2>2, TableNames DEF Leftovers, Has, Kept
  <2>5. ASSUME NEW u \in ProjectScoped
        PROVE  Upgraded(u)' /\ (u \notin todo' => Has(u)')
    BY <1>1, <2>1, <2>2, <2>3, TableNames DEF Upgraded, Current, Has, HasScope
  <2>6. Reached'
    BY <2>3, <2>5 DEF Reached, FromPlain, ToScoped, ToKeyed, Moved
  <2> QED BY <2>3, <2>4, <2>6 DEF DatabaseInv
<1>3. CASE todo = {} /\ Goto("renameOld", {}) /\ UNCHANGED disk
  <2>1. /\ DatabaseTypeOK' /\ ReadyIsCurrent' /\ handle' = "migrating" /\ stage' = "renameOld"
        /\ Kept' = Kept => Counted'
    BY <1>1, <1>3, StatementStep DEF Stage, DatabaseTypeOK
  <2>2. Leftovers' /\ Kept' = Kept
    BY <1>1, <1>3 DEF Leftovers, Has, Kept
  <2>3. \A t \in ProjectScoped : Upgraded(t)' /\ Has(t)'
    BY <1>1, <1>3 DEF Upgraded, Current, Has, HasScope
  <2>4. Reached'
    BY <2>1, <2>3 DEF Reached, FromPlain, ToScoped, ToKeyed, Moved
  <2> QED BY <2>1, <2>2, <2>4 DEF DatabaseInv
<1> QED BY <1>2, <1>3 DEF CreateMissing

LEMMA RenameOldStep ==
  ASSUME DatabaseInv, RenameOld
  PROVE  DatabaseInv'
<1>1. /\ DatabaseTypeOK /\ Leftovers /\ handle = "migrating" /\ stage = "renameOld"
      /\ \A t \in ProjectScoped : Upgraded(t) /\ Has(t)
  BY DEF DatabaseInv, RenameOld, Runs, Reached, ToScoped
<1>2. CASE disk["blocks"].shape # "keyed" /\ Rename("blocks_old") /\ Goto("createKeyed", {})
  <2>1. /\ disk' \in [Tables -> Table]
        /\ disk'["blocks"] = NoTable /\ disk'["blocks_old"] = disk["blocks"]
        /\ \A t \in Tables \ {"blocks", "blocks_old"} : disk'[t] = disk[t]
    BY <1>1, <1>2, RenameEffect
  <2>2. /\ DatabaseTypeOK' /\ ReadyIsCurrent' /\ handle' = "migrating" /\ stage' = "createKeyed"
        /\ Kept' = Kept => Counted'
    BY <1>1, <1>2, <2>1, StatementStep DEF Stage
  <2>3. ~Has("blocks_old") /\ disk["blocks_old"].rows = {} /\ Current("blocks") /\ Has("blocks")
    BY <1>1, <1>2, TableNames DEF Leftovers, Has, Upgraded
  <2>4. Leftovers' /\ Current("blocks_old")' /\ ~Has("blocks")'
    BY <1>1, <1>2, <2>1, <2>3, TableNames DEF Leftovers, Has, NoTable, Current, HasScope
  <2>5. ASSUME NEW t \in ProjectScoped
        PROVE  Upgraded(t)' /\ (t # "blocks" => Has(t)')
    BY <1>1, <2>1, <2>4, TableNames DEF Upgraded, Current, Has, HasScope
  <2>6. Reached'
    BY <2>2, <2>4, <2>5 DEF Reached, FromPlain, ToScoped, ToKeyed, Moved
  <2>7. Kept' = Kept
    BY <2>1, <2>3, TableNames, ScopedUnion DEF Kept, NoTable
  <2> QED BY <2>2, <2>4, <2>6, <2>7 DEF DatabaseInv
<1>3. CASE disk["blocks"].shape = "keyed" /\ Goto("addProjectAgain", ProjectScoped) /\ UNCHANGED disk
  <2>1. /\ DatabaseTypeOK' /\ ReadyIsCurrent' /\ handle' = "migrating" /\ stage' = "addProjectAgain"
        /\ Kept' = Kept => Counted'
    BY <1>1, <1>3, StatementStep DEF Stage, DatabaseTypeOK
  <2>2. Leftovers' /\ Kept' = Kept
    BY <1>1, <1>3 DEF Leftovers, Has, Kept
  <2>3. (\A t \in ProjectScoped : Upgraded(t)' /\ Has(t)') /\ disk'["blocks"].shape = "keyed"
    BY <1>1, <1>3 DEF Upgraded, Current, Has, HasScope
  <2>4. Reached'
    BY <2>1, <2>3 DEF Reached, FromPlain, ToScoped, ToKeyed, Moved
  <2> QED BY <2>1, <2>2, <2>4 DEF DatabaseInv
<1> QED BY <1>2, <1>3 DEF RenameOld

LEMMA CreateKeyedStep ==
  ASSUME DatabaseInv, CreateKeyed
  PROVE  DatabaseInv'
<1>1. /\ DatabaseTypeOK /\ Leftovers /\ handle = "migrating" /\ stage = "createKeyed"
      /\ Current("blocks_old") /\ ~Has("blocks") /\ disk["blocks"].rows = {}
      /\ \A t \in ProjectScoped : Upgraded(t)
      /\ \A t \in ProjectScoped \ {"blocks"} : Has(t)
  BY TableNames DEF DatabaseInv, CreateKeyed, Runs, Reached, ToScoped, ToKeyed, Leftovers
<1>2. /\ disk' \in [Tables -> Table]
      /\ disk'["blocks"].shape = "keyed" /\ disk'["blocks"].rows = {}
      /\ \A t \in Tables \ {"blocks"} : disk'[t] = disk[t]
  BY <1>1, TableNames, CreateEffect DEF CreateKeyed, Shape
<1>3. /\ DatabaseTypeOK' /\ ReadyIsCurrent' /\ handle' = "migrating" /\ stage' = "copyOld"
      /\ Kept' = Kept => Counted'
  BY <1>1, <1>2, StatementStep DEF CreateKeyed, Stage
<1>4. Leftovers' /\ Kept' = Kept /\ Current("blocks_old")'
  BY <1>1, <1>2, TableNames DEF Leftovers, Has, Kept, Current, HasScope
<1>5. ASSUME NEW t \in ProjectScoped
      PROVE  Upgraded(t)' /\ (t # "blocks" => Has(t)')
  BY <1>1, <1>2, TableNames DEF Upgraded, Current, Has, HasScope
<1>6. Reached'
  BY <1>2, <1>3, <1>4, <1>5 DEF Reached, FromPlain, ToScoped, ToKeyed, Moved
<1> QED BY <1>3, <1>4, <1>6 DEF DatabaseInv

LEMMA CopyOldStep ==
  ASSUME DatabaseInv, CopyOld
  PROVE  DatabaseInv'
<1>1. /\ DatabaseTypeOK /\ Leftovers /\ handle = "migrating" /\ stage = "copyOld"
      /\ Current("blocks_old") /\ disk["blocks"].shape = "keyed"
      /\ \A t \in ProjectScoped : Upgraded(t)
      /\ \A t \in ProjectScoped \ {"blocks"} : Has(t)
      /\ disk["blocks_old"].rows \in SUBSET Row
  BY TableNames, TableFacts DEF DatabaseInv, CopyOld, Runs, Reached, ToScoped, ToKeyed
<1>2. /\ Scoped(disk["blocks_old"].rows) \in SUBSET Row
      /\ \A r \in Scoped(disk["blocks_old"].rows) : r.scope # Null
      /\ Scoped(Scoped(disk["blocks_old"].rows)) = Scoped(disk["blocks_old"].rows)
  BY <1>1, ScopedFacts, ScopedAgain
<1>3. /\ disk' \in [Tables -> Table]
      /\ disk'["blocks"].shape = "keyed"
      /\ disk'["blocks"].rows = disk["blocks"].rows \cup Scoped(disk["blocks_old"].rows)
      /\ \A t \in Tables \ {"blocks"} : disk'[t] = disk[t]
  BY <1>1, <1>2, CopyEffect DEF CopyOld
<1>4. /\ DatabaseTypeOK' /\ ReadyIsCurrent' /\ handle' = "migrating" /\ stage' = "dropOld"
      /\ Kept' = Kept => Counted'
  BY <1>1, <1>3, StatementStep DEF CopyOld, Stage
<1>5. Leftovers' /\ Current("blocks_old")'
  BY <1>1, <1>3, TableNames DEF Leftovers, Has, Current, HasScope
<1>6. Kept' = Kept
  BY <1>2, <1>3, TableNames, ScopedUnion DEF Kept
<1>7. ASSUME NEW t \in ProjectScoped
      PROVE  Upgraded(t)' /\ (t # "blocks" => Has(t)')
  <2>1. CASE t = "blocks"
    BY <1>1, <1>2, <1>3, <2>1 DEF Upgraded, Current, Has, HasScope
  <2>2. CASE t # "blocks"
    BY <1>1, <1>3, <2>2, TableNames DEF Upgraded, Current, Has, HasScope
  <2> QED BY <2>1, <2>2
<1>8. disk'["blocks_old"] = disk["blocks_old"]
  BY <1>3, TableNames
<1>9. Reached'
  BY <1>3, <1>4, <1>5, <1>7, <1>8 DEF Reached, FromPlain, ToScoped, ToKeyed, Moved
<1> QED BY <1>4, <1>5, <1>6, <1>9 DEF DatabaseInv

LEMMA DropOldStep ==
  ASSUME DatabaseInv, DropOld
  PROVE  DatabaseInv'
<1>1. /\ DatabaseTypeOK /\ Leftovers /\ handle = "migrating" /\ stage = "dropOld"
      /\ disk["blocks"].shape = "keyed" /\ Has("blocks")
      /\ Scoped(disk["blocks_old"].rows) \subseteq disk["blocks"].rows
      /\ \A t \in ProjectScoped : Upgraded(t)
      /\ \A t \in ProjectScoped \ {"blocks"} : Has(t)
      /\ disk["blocks_old"].rows \in SUBSET Row
  BY TableNames, TableFacts DEF DatabaseInv, DropOld, Runs, Reached, ToScoped, ToKeyed, Moved, Has
<1>2. /\ disk' \in [Tables -> Table] /\ disk'["blocks_old"] = NoTable
      /\ \A t \in Tables \ {"blocks_old"} : disk'[t] = disk[t]
  BY <1>1, TableNames, DropEffect DEF DropOld
<1>3. /\ DatabaseTypeOK' /\ ReadyIsCurrent' /\ handle' = "migrating" /\ stage' = "addProjectAgain"
      /\ Kept' = Kept => Counted'
  BY <1>1, <1>2, StatementStep DEF DropOld, Stage
<1>4. Leftovers'
  BY <1>1, <1>2, TableNames DEF Leftovers, Has, NoTable
<1>5. Scoped(disk["blocks_old"].rows) \subseteq Scoped(disk["blocks"].rows)
  BY <1>1, ScopedAgain, ScopedUnion
<1>6. Kept' = Kept
  BY <1>2, <1>5, TableNames, ScopedUnion DEF Kept, NoTable
<1>7. ASSUME NEW t \in ProjectScoped
      PROVE  Upgraded(t)' /\ Has(t)'
  BY <1>1, <1>2, TableNames DEF Upgraded, Current, Has, HasScope
<1>8. disk'["blocks"].shape = "keyed"
  BY <1>1, <1>2, TableNames
<1>9. Reached'
  BY <1>3, <1>7, <1>8 DEF Reached, FromPlain, ToScoped, ToKeyed, Moved
<1> QED BY <1>3, <1>4, <1>6, <1>9 DEF DatabaseInv

LEMMA AddProjectAgainStep ==
  ASSUME DatabaseInv, AddProjectAgain
  PROVE  DatabaseInv'
<1>1. /\ DatabaseTypeOK /\ Leftovers /\ handle = "migrating" /\ stage = "addProjectAgain"
      /\ todo \in SUBSET ProjectScoped /\ disk["blocks"].shape = "keyed"
      /\ \A t \in ProjectScoped : Upgraded(t) /\ Has(t)
  BY DEF DatabaseInv, AddProjectAgain, Runs, Reached, ToScoped, ToKeyed, DatabaseTypeOK
<1>2. ASSUME NEW t \in todo, AddProjectTo(t), Goto("addProjectAgain", todo \ {t})
      PROVE  DatabaseInv'
  <2>1. t \in ProjectScoped /\ (Has("blocks_old") => t # "blocks" \/ disk[t].shape \in {"absent", "keyed"})
    BY <1>1
  <2>2. /\ disk' \in [Tables -> Table]
        /\ Leftovers' /\ Kept' = Kept /\ Upgraded(t)' /\ (Has(t)' <=> Has(t))
        /\ disk[t].shape = "keyed" => disk'[t].shape = "keyed"
        /\ \A u \in Tables \ {t} : disk'[u] = disk[u]
    BY <1>1, <1>2, <2>1, AddProjectToKeeps
  <2>3. /\ DatabaseTypeOK' /\ ReadyIsCurrent' /\ handle' = "migrating" /\ stage' = "addProjectAgain"
        /\ Kept' = Kept => Counted'
    BY <1>1, <1>2, <2>2, StatementStep DEF Stage
  <2>4. ASSUME NEW u \in ProjectScoped
        PROVE  Upgraded(u)' /\ Has(u)'
    BY <1>1, <2>1, <2>2, TableNames DEF Upgraded, Current, Has, HasScope
  <2>5. disk'["blocks"].shape = "keyed"
    BY <1>1, <2>2, TableNames
  <2>6. Reached'
    BY <2>3, <2>4, <2>5 DEF Reached, FromPlain, ToScoped, ToKeyed, Moved
  <2> QED BY <2>2, <2>3, <2>6 DEF DatabaseInv
<1>3. CASE todo = {} /\ Goto("index", {}) /\ UNCHANGED disk
  <2>1. /\ DatabaseTypeOK' /\ ReadyIsCurrent' /\ handle' = "migrating" /\ stage' = "index"
        /\ Kept' = Kept => Counted'
    BY <1>1, <1>3, StatementStep DEF Stage, DatabaseTypeOK
  <2>2. Leftovers' /\ Kept' = Kept
    BY <1>1, <1>3 DEF Leftovers, Has, Kept
  <2>3. (\A t \in ProjectScoped : Upgraded(t)' /\ Has(t)') /\ disk'["blocks"].shape = "keyed"
    BY <1>1, <1>3 DEF Upgraded, Current, Has, HasScope
  <2>4. Reached'
    BY <2>1, <2>3 DEF Reached, FromPlain, ToScoped, ToKeyed, Moved
  <2> QED BY <2>1, <2>2, <2>4 DEF DatabaseInv
<1> QED BY <1>2, <1>3 DEF AddProjectAgain

LEMMA FinishStep ==
  ASSUME DatabaseInv, Finish
  PROVE  DatabaseInv'
<1>1. /\ handle = "migrating" /\ stage = "index" /\ handle' = "open" /\ stage' = "renamePlain"
      /\ UNCHANGED <<disk, linked, todo, pending, batch, due>>
      /\ disk["blocks"].shape = "keyed"
      /\ \A t \in ProjectScoped : Upgraded(t) /\ Has(t)
  BY DEF DatabaseInv, Finish, Runs, Reached, ToScoped, ToKeyed
<1>2. DatabaseTypeOK' /\ Leftovers' /\ Counted'
  BY <1>1 DEF DatabaseInv, DatabaseTypeOK, Leftovers, Has, Counted, Kept, Stage
<1>3. ReadyIsCurrent'
  BY <1>1 DEF ReadyIsCurrent, Upgraded, Current, HasScope
<1>4. Reached'
  BY <1>1 DEF Reached
<1> QED BY <1>2, <1>3, <1>4 DEF DatabaseInv

LEMMA MigrateStep ==
  ASSUME DatabaseInv, Migrate
  PROVE  DatabaseInv'
BY RenamePlainStep, CreateChainStep, CopyPlainStep, DropPlainStep, AddChainStep, AddProjectStep,
   CreateMissingStep, RenameOldStep, CreateKeyedStep, CopyOldStep, DropOldStep, AddProjectAgainStep,
   FinishStep DEF Migrate

-----------------------------------------------------------------------------
(* The handle and the transactions.                                        *)

LEMMA GetDBStep ==
  ASSUME DatabaseInv, getDB
  PROVE  DatabaseInv'
<1> DEFINE empty == [t \in Tables |-> NoTable]
<1>1. /\ DatabaseTypeOK /\ Leftovers /\ Counted
      /\ handle = "closed"
      /\ handle' = "migrating" /\ stage' = "renamePlain" /\ todo' = {} /\ linked' = TRUE
      /\ disk' = IF linked THEN disk ELSE empty
      /\ UNCHANGED <<pending, batch, due>>
  BY DEF DatabaseInv, getDB
<1>2. /\ empty \in [Tables -> Table]
      /\ \A t \in Tables : empty[t].shape = "absent" /\ empty[t].rows = {}
  BY DEF NoTable, Table, Shape
<1> HIDE DEF empty
<1>3. disk' \in [Tables -> Table] /\ Leftovers'
  BY <1>1, <1>2, TableNames DEF DatabaseTypeOK, Leftovers, Has
<1>4. DatabaseTypeOK' /\ ReadyIsCurrent'
  BY <1>1, <1>3 DEF DatabaseTypeOK, ReadyIsCurrent, Stage
<1>5. Kept' = due'
  <2>1. CASE linked
    BY <1>1, <2>1 DEF Kept, Counted
  <2>2. CASE ~linked
    BY <1>1, <1>2, <2>2, TableNames, ScopedUnion DEF Kept, Counted
  <2> QED BY <2>1, <2>2
<1>6. Counted' /\ Reached'
  BY <1>1, <1>5 DEF Counted, Reached, FromPlain, ToScoped, ToKeyed, Moved
<1> QED BY <1>3, <1>4, <1>6 DEF DatabaseInv

LEMMA ThrowStep ==
  ASSUME DatabaseInv, Throw
  PROVE  DatabaseInv'
BY DEF DatabaseInv, Throw, DatabaseTypeOK, Leftovers, Has, Reached, ReadyIsCurrent, Counted, Kept

LEMMA CrashStep ==
  ASSUME DatabaseInv, Crash
  PROVE  DatabaseInv'
BY DEF DatabaseInv, Crash, DatabaseTypeOK, Leftovers, Has, Reached, ReadyIsCurrent, Counted, Kept, Stage

LEMMA ResetDbStep ==
  ASSUME DatabaseInv, ResetDb
  PROVE  DatabaseInv'
<1>1. DatabaseTypeOK' /\ Leftovers' /\ Counted'
  BY DEF DatabaseInv, ResetDb, DatabaseTypeOK, Leftovers, Has, Counted, Kept
<1>2. ReadyIsCurrent'
  BY DEF DatabaseInv, ResetDb, ReadyIsCurrent, HasScope
<1>3. Reached'
  BY DEF DatabaseInv, ResetDb, Reached, FromPlain, ToScoped, ToKeyed, Moved, Upgraded, Current, Has, HasScope
<1> QED BY <1>1, <1>2, <1>3 DEF DatabaseInv

\* A step that changes nothing but the rows a transaction has in hand.
LEMMA TransactionStep ==
  ASSUME DatabaseInv, UNCHANGED <<disk, linked, handle, stage, todo, due>>,
         pending' \in SUBSET Row, batch' \in SUBSET Row, \A r \in batch' : r.scope # Null,
         batch' # {} => handle = "open"
  PROVE  DatabaseInv'
<1>1. DatabaseTypeOK' /\ Leftovers' /\ Counted'
  BY DEF DatabaseInv, DatabaseTypeOK, Leftovers, Has, Counted, Kept
<1>2. ReadyIsCurrent'
  BY DEF DatabaseInv, ReadyIsCurrent, HasScope
<1>3. Reached'
  BY DEF DatabaseInv, Reached, FromPlain, ToScoped, ToKeyed, Moved, Upgraded, Current, Has, HasScope
<1> QED BY <1>1, <1>2, <1>3 DEF DatabaseInv

LEMMA BeginStep ==
  ASSUME DatabaseInv, Begin
  PROVE  DatabaseInv'
<1>1. PICK ns \in SUBSET Number, s \in Project \cup {NoProject} : batch' = [n : ns, scope : {s}]
  BY DEF Begin
<1>2. \A r \in batch' : r \in Row /\ r.scope # Null
  BY <1>1, DatabaseAssumption DEF Row, Scopes
<1>3. /\ UNCHANGED <<disk, linked, handle, stage, todo, pending, due>> /\ pending \in SUBSET Row
      /\ handle = "open"
  BY DEF Begin, Ready, DatabaseInv, DatabaseTypeOK
<1> QED BY <1>2, <1>3, TransactionStep

LEMMA InsertStep ==
  ASSUME DatabaseInv, Insert
  PROVE  DatabaseInv'
<1>1. /\ UNCHANGED <<disk, linked, handle, stage, todo, batch, due>>
      /\ pending' \in SUBSET Row /\ batch' \in SUBSET Row
      /\ \A r \in batch' : r.scope # Null
      /\ batch' # {} => handle = "open"
  BY DEF Insert, DatabaseInv, DatabaseTypeOK, Counted
<1> QED BY <1>1, TransactionStep

LEMMA RollbackStep ==
  ASSUME DatabaseInv, Rollback
  PROVE  DatabaseInv'
BY TransactionStep DEF Rollback

LEMMA CommitStep ==
  ASSUME DatabaseInv, Commit
  PROVE  DatabaseInv'
<1>1. /\ DatabaseTypeOK /\ Leftovers /\ ReadyIsCurrent /\ Counted /\ pending \in SUBSET Row
      /\ \A r \in pending : r.scope # Null
      /\ handle = "open" /\ pending = batch /\ pending' = {} /\ batch' = {}
      /\ due' = (IF linked THEN due \cup batch ELSE due)
      /\ UNCHANGED <<linked, handle, stage, todo>>
  BY DEF DatabaseInv, Commit, DatabaseTypeOK, Counted
<1>2. /\ disk' \in [Tables -> Table]
      /\ disk'["blocks"].shape = disk["blocks"].shape
      /\ disk'["blocks"].rows = disk["blocks"].rows \cup pending
      /\ \A u \in Tables \ {"blocks"} : disk'[u] = disk[u]
  BY <1>1, CopyEffect DEF Commit, Copy
<1>3. DatabaseTypeOK'
  BY <1>1, <1>2 DEF DatabaseTypeOK
<1>4. Leftovers' /\ ReadyIsCurrent' /\ Reached'
  BY <1>1, <1>2, TableNames DEF Leftovers, ReadyIsCurrent, Reached, Has, HasScope
<1>5. Kept' = Kept \cup pending
  <2>1. Scoped(pending) = pending
    BY <1>1, ScopedFacts
  <2>2. Scoped(disk'["blocks"].rows) = Scoped(disk["blocks"].rows) \cup pending
    BY <1>2, <2>1, ScopedUnion
  <2>3. disk'["blocks_legacy"] = disk["blocks_legacy"] /\ disk'["blocks_old"] = disk["blocks_old"]
    BY <1>2, TableNames
  <2> QED BY <2>2, <2>3 DEF Kept
<1>6. Counted'
  BY <1>1, <1>5 DEF Counted
<1> QED BY <1>3, <1>4, <1>6 DEF DatabaseInv

-----------------------------------------------------------------------------
(* The theorems.                                                           *)

LEMMA DatabaseInvInit == DatabaseInit => DatabaseInv
<1> SUFFICES ASSUME DatabaseInit PROVE DatabaseInv
  OBVIOUS
<1>1. PICK blocks \in Table, others \in [{"transactions"} \cup Other ->
             [shape : {"absent", "plain", "chain", "scoped"}, rows : {{}} \cup {{r} : r \in NullRow}]] :
        /\ OldBlocks(blocks)
        /\ \A t \in DOMAIN others : OldOther(others[t])
        /\ disk = [t \in Tables |-> CASE t = "blocks"        -> blocks
                                      [] t \in DOMAIN others -> others[t]
                                      [] OTHER               -> NoTable]
        /\ due = Scoped(blocks.rows)
  BY DEF DatabaseInit
<1>2. /\ linked = TRUE /\ handle = "closed" /\ stage = "renamePlain" /\ todo = {}
      /\ pending = {} /\ batch = {}
  BY DEF DatabaseInit
<1>3. NullRow \subseteq Row
  BY DEF NullRow, Row, Scopes
<1>4. ASSUME NEW t \in DOMAIN others
      PROVE  others[t] \in Table /\ (others[t].shape = "absent" => others[t].rows = {}) /\ t # "blocks"
             /\ t # "blocks_legacy" /\ t # "blocks_old"
  BY <1>1, <1>3, <1>4, DatabaseAssumption DEF Table, Shape, OldOther
<1>5. NoTable \in Table /\ NoTable.shape = "absent" /\ NoTable.rows = {}
  BY DEF NoTable, Table, Shape
<1>6. /\ disk["blocks"] = blocks
      /\ disk["blocks_legacy"] = NoTable /\ disk["blocks_old"] = NoTable
      /\ \A t \in DOMAIN others : t \in Tables => disk[t] = others[t]
      /\ \A t \in Tables \ ({"blocks"} \cup DOMAIN others) : disk[t] = NoTable
  BY <1>1, <1>4, TableNames
<1>7. disk \in [Tables -> Table]
  BY <1>1, <1>4, <1>5
<1>8. due \in SUBSET Row
  BY <1>1, ScopedFacts DEF Table
<1>9. DatabaseTypeOK
  BY <1>2, <1>7, <1>8 DEF DatabaseTypeOK, Stage
<1>10. ASSUME NEW t \in Tables, ~Has(t)
       PROVE  disk[t].rows = {}
  <2>1. CASE t = "blocks"
    BY <1>1, <1>6, <1>10, <2>1 DEF OldBlocks, Has
  <2>2. CASE t \in DOMAIN others
    BY <1>4, <1>6, <1>10, <2>2 DEF Has
  <2>3. CASE t \notin {"blocks"} \cup DOMAIN others
    BY <1>5, <1>6, <2>3
  <2> QED BY <2>1, <2>2, <2>3
<1>11. Leftovers
  BY <1>5, <1>6, <1>10 DEF Leftovers, Has
<1>12. Counted
  BY <1>1, <1>2, <1>5, <1>6, ScopedUnion DEF Counted, Kept
<1> QED BY <1>2, <1>9, <1>11, <1>12 DEF DatabaseInv, Reached, ReadyIsCurrent

LEMMA DatabaseInvStep == DatabaseInv /\ [DatabaseNext]_dbVars => DatabaseInv'
<1> SUFFICES ASSUME DatabaseInv, [DatabaseNext]_dbVars PROVE DatabaseInv'
  OBVIOUS
<1>1. CASE UNCHANGED dbVars
  BY <1>1, TransactionStep DEF dbVars, DatabaseInv, DatabaseTypeOK, Counted
<1>2. CASE DatabaseNext
  BY <1>2, GetDBStep, MigrateStep, ThrowStep, CrashStep, ResetDbStep, BeginStep, InsertStep, CommitStep,
     RollbackStep DEF DatabaseNext
<1> QED BY <1>1, <1>2

\* What the invariant says of the next statement, and of the rows.
LEMMA DatabaseInvSound == DatabaseInv => UpgradeIsSound /\ RowsKept
<1> SUFFICES ASSUME DatabaseInv PROVE UpgradeIsSound /\ RowsKept
  OBVIOUS
<1>1. /\ DatabaseTypeOK /\ Leftovers /\ Reached /\ ReadyIsCurrent /\ Counted
      /\ stage \in Stage
  BY DEF DatabaseInv, DatabaseTypeOK
<1>2. ASSUME handle = "migrating" PROVE CanRun
  <2>1. FromPlain /\ ToScoped /\ ToKeyed
    BY <1>1, <1>2 DEF Reached
  <2>2. CASE stage \in {"renamePlain", "createChain", "copyPlain", "dropPlain", "addChain"}
    BY <1>1, <2>1, <2>2 DEF CanRun, FromPlain, Leftovers, Has
  <2>3. CASE stage \in {"addProject", "create", "addProjectAgain"}
    BY <2>3 DEF CanRun
  <2>4. CASE stage = "renameOld"
    BY <1>1, <2>1, <2>4, TableNames DEF CanRun, ToScoped, Leftovers, Has
  <2>5. CASE stage \in {"createKeyed", "copyOld", "dropOld"}
    BY <2>1, <2>5 DEF CanRun, ToKeyed, Current, Has, HasScope
  <2>6. CASE stage = "index"
    BY <2>1, <2>6 DEF CanRun, ToScoped, Upgraded, Current
  <2> QED BY <1>1, <2>2, <2>3, <2>4, <2>5, <2>6 DEF Stage
<1>3. Kept = UNION {Scoped(disk[t].rows) : t \in {"blocks", "blocks_legacy", "blocks_old"}}
  BY DEF Kept
<1>4. ASSUME linked, handle = "open", ~Has("blocks_legacy"), ~Has("blocks_old")
      PROVE  disk["blocks"].rows = due
  <2>1. /\ disk["blocks"].rows \in SUBSET Row
        /\ \A r \in disk["blocks"].rows : r.scope # Null
        /\ disk["blocks_legacy"].rows = {} /\ disk["blocks_old"].rows = {}
    BY <1>1, <1>4, TableNames, TableFacts DEF Leftovers, ReadyIsCurrent
  <2>2. Scoped(disk["blocks"].rows) = disk["blocks"].rows /\ Scoped({}) = {}
    BY <2>1, ScopedFacts, ScopedUnion
  <2> QED BY <1>1, <1>4, <2>1, <2>2 DEF Counted, Kept
<1>5. linked => Kept = due
  BY <1>1 DEF Counted
<1> QED BY <1>1, <1>2, <1>3, <1>4, <1>5 DEF UpgradeIsSound, UpgradeNeverFails, RowsKept

\* No statement of an upgrade fails for what an earlier one, cut off after any of its statements, has
\* left; an upgrade that ends leaves the present schema; and no row is lost on the way.
THEOREM UpgradesAreSound == DatabaseSpec => []UpgradeIsSound /\ []RowsKept
<1>1. DatabaseInit => DatabaseInv
  BY DatabaseInvInit
<1>2. DatabaseInv /\ [DatabaseNext]_dbVars => DatabaseInv'
  BY DatabaseInvStep
<1>3. DatabaseInv => UpgradeIsSound /\ RowsKept
  BY DatabaseInvSound
<1> QED BY <1>1, <1>2, <1>3, PTL DEF DatabaseSpec

-----------------------------------------------------------------------------
(***************************************************************************)
(* The registry.                                                           *)
(***************************************************************************)

\* The parts of TypeOK that the arguments use.
Typed ==
  /\ contracts \in [Addr -> Abi \cup {None}] /\ abiCache \in [Addr -> Abi \cup {None}]
  /\ missCache \in [Addr -> {"none", "fresh", "stale"}]
  /\ lookup \in [Lookup -> LookupState]
  /\ verified \in [Addr -> SUBSET Chain]

\* A lookup under way has an address and a chain.
Asking == \A l \in Lookup : lookup[l].at # "idle" => lookup[l].addr \in Addr /\ lookup[l].chain \in Chain

\* Before and during an upgrade the process has answered nothing yet.
Agrees ==
  /\ \A a \in Addr : abiCache[a] # None => abiCache[a] = contracts[a]
  /\ handle \in {"closed", "migrating"} => abiCache = Forgotten

\* A lookup that nobody has crossed found no ABI of the user's, and there is none.
Uncrossed ==
  \A l \in Lookup : lookup[l].at # "idle" /\ ~lookup[l].crossed => contracts[lookup[l].addr] # User

Inv == Typed /\ Asking /\ Agrees /\ Uncrossed

-----------------------------------------------------------------------------
(* The database below.                                                     *)

\* A step of the registry is a step of the database, or leaves it alone.
THEOREM RegistryKeepsDatabase == Spec => DatabaseSpec
<1>1. Init => DatabaseInit
  BY DEF Init
<1>2. ASSUME [Next]_vars
      PROVE  [DatabaseNext]_dbVars
  <2>1. CASE Restart \/ Reopen \/ DatabaseStep
    BY <2>1 DEF Restart, Reopen, DatabaseStep, DatabaseNext
  <2>2. CASE ListContracts
    BY <2>2 DEF ListContracts
  <2>3. ASSUME NEW a \in Addr, PostContract(a) \/ DeleteRoute(a) \/ Decode(a) \/ Expire(a)
        PROVE  UNCHANGED dbVars
    BY <2>3 DEF PostContract, DeleteRoute, Decode, Expire
  <2>4. ASSUME NEW a \in Addr, NEW c \in Chain, Verify(a, c)
        PROVE  UNCHANGED dbVars
    BY <2>4 DEF Verify
  <2>5. ASSUME NEW l \in Lookup, Hit(l) \/ Miss(l)
        PROVE  UNCHANGED dbVars
    BY <2>5 DEF Hit, Miss
  <2>6. ASSUME NEW l \in Lookup, NEW a \in Addr, NEW c \in Chain, Request(l, a, c)
        PROVE  UNCHANGED dbVars
    BY <2>6 DEF Request, Known, Ask
  <2>7. CASE UNCHANGED vars
    BY <2>7 DEF vars
  <2> QED BY <1>2, <2>1, <2>2, <2>3, <2>4, <2>5, <2>6, <2>7 DEF Next
<1> QED BY <1>1, <1>2, PTL DEF Spec, DatabaseSpec

\* Whatever the registry does, an upgrade below it is sound.
THEOREM UpgradesBelowAreSound == Spec => []UpgradeIsSound
BY RegistryKeepsDatabase, UpgradesAreSound, PTL

\* ... and the rows of the file are kept.
THEOREM RowsBelowAreKept == Spec => []RowsKept
BY RegistryKeepsDatabase, UpgradesAreSound, PTL

-----------------------------------------------------------------------------
(* The registry.                                                           *)

\* The values that caches and lookups may take.
LEMMA Values ==
  /\ Forgotten \in [Addr -> Abi \cup {None}] /\ \A a \in Addr : Forgotten[a] = None
  /\ [a \in Addr |-> "none"] \in [Addr -> {"none", "fresh", "stale"}]
  /\ Idle \in LookupState /\ Idle.at = "idle"
  /\ User \in Abi /\ User # None /\ \A c \in Chain : c \in Abi /\ c # None /\ c # User
BY RegistryAssumption DEF Forgotten, Abi, Idle, LookupState

\* A save changes one row and agrees with the cache.
LEMMA SaveEffect ==
  ASSUME Typed, Agrees, Ready, NEW a \in Addr, NEW abi \in Abi, saveContract(a, abi), UNCHANGED handle
  PROVE  /\ contracts' \in [Addr -> Abi \cup {None}] /\ abiCache' \in [Addr -> Abi \cup {None}]
         /\ missCache' \in [Addr -> {"none", "fresh", "stale"}]
         /\ contracts'[a] = abi /\ \A b \in Addr \ {a} : contracts'[b] = contracts[b]
         /\ Agrees'
BY DEF Typed, Agrees, Ready, saveContract

\* A delete likewise.
LEMMA DeleteEffect ==
  ASSUME Typed, Agrees, Ready, NEW a \in Addr, deleteContract(a), UNCHANGED handle
  PROVE  /\ contracts' \in [Addr -> Abi \cup {None}] /\ abiCache' \in [Addr -> Abi \cup {None}]
         /\ missCache' \in [Addr -> {"none", "fresh", "stale"}]
         /\ contracts'[a] = None /\ \A b \in Addr \ {a} : contracts'[b] = contracts[b]
         /\ Agrees'
BY DEF Typed, Agrees, Ready, deleteContract

\* Every lookup for the address is marked, the others stay.
LEMMA CrossEffect ==
  ASSUME Typed, Asking, NEW a \in Addr, Cross(a)
  PROVE  /\ lookup' \in [Lookup -> LookupState] /\ Asking'
         /\ \A l \in Lookup : /\ lookup'[l].at = lookup[l].at /\ lookup'[l].addr = lookup[l].addr
                              /\ lookup'[l].crossed = (lookup[l].crossed \/ lookup[l].addr = a)
<1>1. ASSUME NEW l \in Lookup
      PROVE  LET new == [lookup[l] EXCEPT !.crossed = @ \/ lookup[l].addr = a]
             IN  /\ new \in LookupState
                 /\ new.at = lookup[l].at /\ new.addr = lookup[l].addr /\ new.chain = lookup[l].chain
                 /\ new.crossed = (lookup[l].crossed \/ lookup[l].addr = a)
  BY DEF Typed, LookupState
<1> QED BY <1>1 DEF Cross, Asking

-----------------------------------------------------------------------------
(* One lemma for each action.                                              *)

LEMMA PostStep ==
  ASSUME Inv, NEW a \in Addr, PostContract(a)
  PROVE  Inv'
<1>1. /\ Typed /\ Asking /\ Agrees /\ Uncrossed /\ Ready /\ saveContract(a, User) /\ Cross(a)
      /\ UNCHANGED handle /\ UNCHANGED verified
  BY DEF Inv, PostContract, dbVars
<1>2. /\ contracts' \in [Addr -> Abi \cup {None}] /\ abiCache' \in [Addr -> Abi \cup {None}]
      /\ missCache' \in [Addr -> {"none", "fresh", "stale"}]
      /\ \A b \in Addr \ {a} : contracts'[b] = contracts[b]
      /\ Agrees'
  BY <1>1, Values, SaveEffect
<1>3. /\ lookup' \in [Lookup -> LookupState] /\ Asking'
      /\ \A l \in Lookup : /\ lookup'[l].at = lookup[l].at /\ lookup'[l].addr = lookup[l].addr
                           /\ lookup'[l].crossed = (lookup[l].crossed \/ lookup[l].addr = a)
  BY <1>1, CrossEffect
<1>4. Uncrossed'
  BY <1>1, <1>2, <1>3 DEF Uncrossed, Asking
<1> QED BY <1>1, <1>2, <1>3, <1>4 DEF Inv, Typed

LEMMA DeleteStep ==
  ASSUME Inv, NEW a \in Addr, DeleteRoute(a)
  PROVE  Inv'
<1>1. /\ Typed /\ Asking /\ Agrees /\ Uncrossed /\ Ready /\ deleteContract(a) /\ Cross(a)
      /\ UNCHANGED handle /\ UNCHANGED verified
  BY DEF Inv, DeleteRoute, dbVars
<1>2. /\ contracts' \in [Addr -> Abi \cup {None}] /\ abiCache' \in [Addr -> Abi \cup {None}]
      /\ missCache' \in [Addr -> {"none", "fresh", "stale"}]
      /\ \A b \in Addr \ {a} : contracts'[b] = contracts[b]
      /\ Agrees'
  BY <1>1, DeleteEffect
<1>3. /\ lookup' \in [Lookup -> LookupState] /\ Asking'
      /\ \A l \in Lookup : /\ lookup'[l].at = lookup[l].at /\ lookup'[l].addr = lookup[l].addr
                           /\ lookup'[l].crossed = (lookup[l].crossed \/ lookup[l].addr = a)
  BY <1>1, CrossEffect
<1>4. Uncrossed'
  BY <1>1, <1>2, <1>3 DEF Uncrossed, Asking
<1> QED BY <1>1, <1>2, <1>3, <1>4 DEF Inv, Typed

\* Reading fills the cache from the table.
LEMMA FilledStep ==
  ASSUME Inv, Ready, UNCHANGED <<dbVars, contracts, missCache, lookup, verified>>,
         \/ \E a \in Addr : abiCache' = Filled(a)
         \/ abiCache' = [a \in Addr |-> IF contracts[a] # None THEN contracts[a] ELSE abiCache[a]]
  PROVE  Inv'
<1>1. Typed' /\ Asking' /\ Uncrossed'
  BY DEF Inv, Typed, Asking, Uncrossed, Filled, getContract
<1>2. handle' = handle /\ handle = "open"
  BY DEF dbVars, Ready
<1>3. Agrees'
  BY <1>2 DEF Inv, Typed, Agrees, Filled, getContract
<1> QED BY <1>1, <1>3 DEF Inv

LEMMA AskStep ==
  ASSUME Inv, NEW l \in Lookup, NEW a \in Addr, NEW c \in Chain, Ask(l, a, c)
  PROVE  Inv'
<1> DEFINE new == [at |-> "full_match", addr |-> a, chain |-> c, crossed |-> FALSE]
<1>1. /\ lookup' = [lookup EXCEPT ![l] = new]
      /\ UNCHANGED <<dbVars, contracts, abiCache, missCache, verified>>
      /\ contracts[a] = None
  BY DEF Ask, getContract
<1>2. /\ new \in LookupState /\ new.at = "full_match" /\ new.addr = a /\ new.chain = c
      /\ ~new.crossed
  BY DEF LookupState
<1> HIDE DEF new
<1>3. Typed'
  BY <1>1, <1>2 DEF Inv, Typed
<1>4. Asking' /\ Uncrossed'
  BY <1>1, <1>2, Values DEF Inv, Typed, Asking, Uncrossed
<1>5. Agrees'
  BY <1>1 DEF Inv, Agrees, dbVars
<1> QED BY <1>3, <1>4, <1>5 DEF Inv

LEMMA HitStep ==
  ASSUME Inv, NEW l \in Lookup, Hit(l)
  PROVE  Inv'
<1> DEFINE a == lookup[l].addr
           c == lookup[l].chain
<1>1. /\ Typed /\ Asking /\ Agrees /\ Uncrossed /\ Ready /\ a \in Addr /\ c \in Chain /\ saveContract(a, c)
      /\ lookup' = [lookup EXCEPT ![l] = Idle] /\ UNCHANGED handle /\ UNCHANGED verified
  BY DEF Inv, Hit, Asking, dbVars
<1> HIDE DEF a, c
<1>2. /\ contracts' \in [Addr -> Abi \cup {None}] /\ abiCache' \in [Addr -> Abi \cup {None}]
      /\ missCache' \in [Addr -> {"none", "fresh", "stale"}]
      /\ contracts'[a] = c /\ \A b \in Addr \ {a} : contracts'[b] = contracts[b]
      /\ Agrees'
  BY <1>1, Values, SaveEffect
<1>3. Typed' /\ Asking' /\ Uncrossed'
  BY <1>1, <1>2, Values DEF Typed, Asking, Uncrossed
<1> QED BY <1>2, <1>3 DEF Inv

LEMMA MissStep ==
  ASSUME Inv, NEW l \in Lookup, Miss(l)
  PROVE  Inv'
<1>1. /\ Typed /\ Asking /\ Agrees /\ Uncrossed /\ UNCHANGED <<dbVars, contracts, abiCache, verified>>
      /\ lookup[l].at # "idle" /\ lookup[l].addr \in Addr
  BY DEF Inv, Miss, Asking
<1>2. missCache' \in [Addr -> {"none", "fresh", "stale"}]
  BY <1>1 DEF Miss, Typed
<1>3. PICK new \in LookupState :
        /\ lookup' = [lookup EXCEPT ![l] = new]
        /\ new.at = "idle" \/ (/\ new.addr = lookup[l].addr /\ new.chain = lookup[l].chain
                               /\ new.crossed = lookup[l].crossed)
  <2> DEFINE next == NextSource(lookup[l].at)
             moved == [lookup[l] EXCEPT !.at = next]
  <2>1. next \in {"partial_match", "explorer", "idle"}
    BY DEF NextSource
  <2>2. moved \in LookupState /\ moved.addr = lookup[l].addr /\ moved.chain = lookup[l].chain
        /\ moved.crossed = lookup[l].crossed
    BY <1>1, <2>1 DEF Typed, LookupState
  <2>3. lookup' = [lookup EXCEPT ![l] = moved] \/ lookup' = [lookup EXCEPT ![l] = Idle]
    BY DEF Miss
  <2> HIDE DEF moved, next
  <2> QED BY <2>2, <2>3, Values
<1>4. Typed' /\ Asking' /\ Uncrossed'
  BY <1>1, <1>2, <1>3 DEF Typed, Asking, Uncrossed
<1>5. Agrees'
  BY <1>1 DEF Agrees, dbVars
<1> QED BY <1>4, <1>5 DEF Inv

\* Steps outside the registry.
LEMMA OutsideStep ==
  ASSUME Inv, UNCHANGED <<contracts, abiCache, lookup>>,
         missCache' \in [Addr -> {"none", "fresh", "stale"}], verified' \in [Addr -> SUBSET Chain],
         handle' \in {"closed", "migrating"} => handle \in {"closed", "migrating"}
  PROVE  Inv'
BY DEF Inv, Typed, Asking, Agrees, Uncrossed

LEMMA DatabaseStepStep ==
  ASSUME Inv, DatabaseStep
  PROVE  Inv'
<1>1. UNCHANGED <<contracts, abiCache, missCache, lookup, verified>>
  BY DEF DatabaseStep, registryVars
<1>2. ASSUME handle' \in {"closed", "migrating"} PROVE handle \in {"closed", "migrating"}
  <2>1. CASE Migrate
    BY <2>1 DEF Migrate, RenamePlain, CreateChain, CopyPlain, DropPlain, AddChain, AddProject, CreateMissing,
       RenameOld, CreateKeyed, CopyOld, DropOld, AddProjectAgain, Finish, Runs
  <2>2. CASE Throw \/ ResetDb \/ Begin \/ Insert \/ Commit \/ Rollback
    BY <1>2, <2>2 DEF Throw, ResetDb, Begin, Insert, Commit, Rollback
  <2> QED BY <2>1, <2>2 DEF DatabaseStep
<1> QED BY <1>1, <1>2, OutsideStep DEF Inv, Typed

LEMMA RestartStep ==
  ASSUME Inv, Restart
  PROVE  Inv'
<1>1. /\ UNCHANGED <<contracts, verified>> /\ abiCache' = Forgotten
      /\ missCache' = [a \in Addr |-> "none"] /\ lookup' = [l \in Lookup |-> Idle]
  BY DEF Restart
<1>2. Typed' /\ Asking' /\ Agrees' /\ Uncrossed'
  BY <1>1, Values DEF Inv, Typed, Asking, Agrees, Uncrossed
<1> QED BY <1>2 DEF Inv

LEMMA ReopenStep ==
  ASSUME Inv, Reopen
  PROVE  Inv'
<1>1. /\ UNCHANGED <<abiCache, missCache, lookup, verified>> /\ handle = "closed"
      /\ contracts' = contracts \/ contracts' = Forgotten
  BY DEF Reopen, getDB
<1>2. Typed' /\ Asking' /\ Agrees' /\ Uncrossed'
  BY <1>1, Values DEF Inv, Typed, Asking, Agrees, Uncrossed
<1> QED BY <1>2 DEF Inv

LEMMA ExpireStep ==
  ASSUME Inv, NEW a \in Addr, Expire(a)
  PROVE  Inv'
BY OutsideStep DEF Expire, Inv, Typed, dbVars

LEMMA VerifyStep ==
  ASSUME Inv, NEW a \in Addr, NEW c \in Chain, Verify(a, c)
  PROVE  Inv'
BY OutsideStep DEF Verify, Inv, Typed, dbVars

-----------------------------------------------------------------------------
(* The theorems.                                                           *)

LEMMA InvInit == Init => Inv
BY Values DEF Init, Inv, Typed, Asking, Agrees, Uncrossed

LEMMA InvStep == Inv /\ [Next]_vars => Inv'
<1> SUFFICES ASSUME Inv, [Next]_vars PROVE Inv'
  OBVIOUS
<1>1. CASE UNCHANGED vars
  BY <1>1, OutsideStep DEF vars, registryVars, dbVars, Inv, Typed
<1>2. CASE Restart \/ Reopen \/ DatabaseStep
  BY <1>2, RestartStep, ReopenStep, DatabaseStepStep
<1>3. CASE ListContracts
  BY <1>3, FilledStep DEF ListContracts
<1>4. ASSUME NEW a \in Addr, PostContract(a) \/ DeleteRoute(a) \/ Decode(a) \/ Expire(a)
      PROVE  Inv'
  BY <1>4, PostStep, DeleteStep, FilledStep, ExpireStep DEF Decode
<1>5. ASSUME NEW l \in Lookup, Hit(l) \/ Miss(l)
      PROVE  Inv'
  BY <1>5, HitStep, MissStep
<1>6. ASSUME NEW l \in Lookup, NEW a \in Addr, NEW c \in Chain, Request(l, a, c)
      PROVE  Inv'
  BY <1>6, AskStep, FilledStep DEF Request, Known
<1> QED BY <1>1, <1>2, <1>3, <1>4, <1>5, <1>6, VerifyStep DEF Next

\* However saves, deletes, late answers, restarts and deleted files follow each other.
THEOREM CacheAgrees == Spec => []CacheIsTable
<1>1. Inv => CacheIsTable
  BY DEF Inv, Agrees, CacheIsTable
<1> QED BY <1>1, InvInit, InvStep, PTL DEF Spec

\* An ABI of the user's gives way only to a lookup that was under way when it was saved.
THEOREM UserAbisStand == Spec => UserAbiStands
<1> DEFINE Crossed(a) == \E l \in Lookup : lookup[l].addr = a /\ lookup[l].crossed /\ lookup'[l] = Idle
           Stands == \A a \in Addr : contracts[a] = User /\ contracts'[a] \in Chain => Crossed(a)
<1>1. ASSUME Inv, [Next]_vars, NEW a \in Addr, contracts[a] = User, contracts'[a] \in Chain
      PROVE  Crossed(a)
  <2>1. contracts'[a] # contracts[a] /\ contracts'[a] # User /\ contracts'[a] # None
    BY <1>1, Values
  <2>2. PICK l \in Lookup : Hit(l)
    <3>1. ASSUME NEW b \in Addr, PostContract(b) \/ DeleteRoute(b)
          PROVE  FALSE
      BY <1>1, <2>1, <3>1 DEF PostContract, DeleteRoute, saveContract, deleteContract, Inv, Typed
    <3>2. CASE Reopen
      BY <1>1, <2>1, <3>2, Values DEF Reopen
    <3>3. CASE UNCHANGED contracts
      BY <2>1, <3>3
    <3> QED BY <1>1, <3>1, <3>2, <3>3 DEF Next, vars, registryVars, Restart, DatabaseStep, ListContracts, Decode,
              Expire, Verify, Miss, Request, Known, Ask
  <2>3. /\ lookup[l].addr = a /\ lookup[l].at # "idle" /\ lookup'[l] = Idle
    BY <1>1, <2>1, <2>2 DEF Hit, saveContract, Inv, Typed
  <2>4. lookup[l].crossed
    BY <1>1, <2>3 DEF Inv, Uncrossed, Typed, LookupState
  <2> QED BY <2>3, <2>4
<1>2. Inv /\ [Next]_vars => [Stands]_vars
  BY <1>1
<1>3. Spec => [][Stands]_vars
  BY <1>2, InvInit, InvStep, PTL DEF Spec
<1> QED BY <1>3 DEF UserAbiStands

\* Type correctness of the registry with the database below it.
THEOREM RegistryTyped == Spec => []TypeOK
<1>1. Inv /\ DatabaseInv => TypeOK
  BY DEF Inv, Typed, DatabaseInv, TypeOK
<1>2. DatabaseInit => DatabaseInv
  BY DatabaseInvInit
<1>3. DatabaseInv /\ [DatabaseNext]_dbVars => DatabaseInv'
  BY DatabaseInvStep
<1>4. Spec => []DatabaseInv
  BY <1>2, <1>3, RegistryKeepsDatabase, PTL DEF DatabaseSpec
<1> QED BY <1>1, <1>4, InvInit, InvStep, PTL DEF Spec

=============================================================================
