------------------------------ MODULE Catalog ------------------------------
(***************************************************************************)
(* The catalog (src/catalog/catalog_manager.cpp), the relation manager     *)
(* (src/storage/relation_manager.cpp) and the statements of the SQL front  *)
(* end that change them (src/sql/planner_frontend_runtime.cpp): tables and *)
(* indexes are created, rows inserted, the program is closed, dies and is  *)
(* started again.                                                          *)
(*                                                                         *)
(* One thread runs the statements.  A statement is cut into steps where it *)
(* makes something durable, for the program can die there and the buffer   *)
(* pool may have written any of its pages by then.  Heaps of one page and  *)
(* trees of a metapage and a root leaf are enough for every case.  Front   *)
(* end statements run without a transaction, so nothing of this is logged. *)
(* Names are made of the characters of SQL identifiers, for which loading  *)
(* a saved catalog gives back what was saved.                              *)
(***************************************************************************)
EXTENDS Integers, Sequences, FiniteSetsExt, Functions

CONSTANTS
    TableName, IndexName,
    Row,
    KeyOf,              \* the key of each row, the same for every index
    MaxId,              \* bound: relation ids
    MaxCrashes          \* bound: crashes

ASSUME CatalogAssumption ==
    /\ MaxId \in Nat /\ MaxCrashes \in Nat
    /\ DOMAIN KeyOf = Row

RelationId == 1 .. MaxId

\* Files: "<table>.heap" and "<index>.idx".
HeapPath(t) == <<"heap", t>>
IndexPath(i) == <<"idx", i>>
Path == {HeapPath(t) : t \in TableName} \cup {IndexPath(i) : i \in IndexName}

\* What a page holds.
Zero == [kind |-> "zero", rows |-> {}]
Meta == [kind |-> "meta", rows |-> {}]
Rows(S) == [kind |-> "rows", rows |-> S]

NoFile == [exists |-> FALSE, pages |-> <<>>]
File(pages) == [exists |-> TRUE, pages |-> pages]
Closed == [path |-> <<>>, num_pages |-> 0]
EmptyCatalog == [tables |-> {}, indexes |-> {}]
NoStatement == [step |-> "none"]

VARIABLES
    file,       \* the relation files on disk
    saved,      \* catalog.txt
    power,      \* "down", "up", or "refused": the constructor threw
    catalog,    \* CatalogManager::relations_by_id_
    known,      \* RelationManager::relation_name_to_id_
    next_id,    \* next_relation_id_
    handle,     \* DiskManager::relations_
    pool,       \* the dirty pages of the buffer pool
    statement,  \* the statement under way
    rows,       \* the rows of every table, as the clients were told
    crashes,
    reused      \* history: the index names given to CREATE INDEX while in use

disk == <<file, saved>>
memory == <<catalog, known, next_id, handle, pool>>
history == <<crashes, reused>>
vars == <<disk, power, memory, statement, rows, history>>

Init ==
    /\ file = [p \in Path |-> NoFile] /\ saved = EmptyCatalog
    /\ power = "down" /\ catalog = EmptyCatalog /\ known = {} /\ next_id = 1
    /\ handle = [id \in RelationId |-> Closed] /\ pool = <<>>
    /\ statement = NoStatement
    /\ rows = [t \in TableName |-> {}] /\ crashes = 0 /\ reused = {}

Idle == power = "up" /\ statement = NoStatement

(***************************************************************************)
(* Pages.                                                                  *)
(***************************************************************************)

\* FetchPage: from the pool, or read from the file.
PageOf(id, no) ==
    IF <<id, no>> \in DOMAIN pool THEN pool[<<id, no>>] ELSE file[handle[id].path].pages[no + 1]

\* The page is changed and unpinned dirty.
Put(p, image, pages) == [q \in {p} \cup DOMAIN pages |-> IF q = p THEN image ELSE pages[q]]

PoolPagesOf(id) == {p \in DOMAIN pool : p[1] = id}

\* WritePage and Sync; a hole before the page reads as zeros.
Written(f, no, image) ==
    File([k \in 1 .. Max({Len(f.pages), no + 1}) |->
                  IF k = no + 1 THEN image ELSE IF k <= Len(f.pages) THEN f.pages[k] ELSE Zero])

HeapRows(id) == IF handle[id].num_pages = 0 THEN {} ELSE PageOf(id, 0).rows

\* CreateRelation: the file is truncated if it exists.
CreateRelation(id, path) ==
    /\ file' = [file EXCEPT ![path] = File(<<>>)]
    /\ handle' = [handle EXCEPT ![id] = [path |-> path, num_pages |-> 0]]

(***************************************************************************)
(* CREATE TABLE.                                                           *)
(***************************************************************************)

TableExists(t) == t \in known

CreateHeapRelation(t) ==
    /\ Idle /\ next_id \in RelationId /\ ~TableExists(t)
    /\ CreateRelation(next_id, HeapPath(t))
    /\ known' = known \cup {t} /\ next_id' = next_id + 1
    /\ statement' = [step |-> "register table", table |-> t, id |-> next_id]
    /\ UNCHANGED <<saved, power, catalog, pool, rows, history>>

\* Save is atomic: a temporary file, a rename, a sync of the directory.
RegisterRelation ==
    /\ power = "up" /\ statement.step = "register table"
    /\ LET taken == \E e \in catalog.tables :
               e.id = statement.id \/ e.name = statement.table
       IN  catalog' = IF taken THEN catalog
                      ELSE [catalog EXCEPT !.tables =
                                @ \cup {[id |-> statement.id, name |-> statement.table]}]
    /\ saved' = catalog' /\ statement' = NoStatement
    /\ UNCHANGED <<file, power, known, next_id, handle, pool, rows, history>>

(***************************************************************************)
(* CREATE INDEX.                                                           *)
(***************************************************************************)

\* Nothing asks whether the name is in use before the file is truncated.  Bound:
\* a name in use is taken once more, not twice.
CreateIndexRelation(i, t, unique) ==
    /\ Idle /\ next_id \in RelationId /\ t \in catalog.tables /\ i \notin reused
    /\ CreateRelation(next_id, IndexPath(i))
    /\ next_id' = next_id + 1
    /\ statement' = [step |-> "initialize", name |-> i, table |-> t, unique |-> unique, id |-> next_id]
    /\ reused' = reused \cup {x.name : x \in {x \in catalog.indexes : x.name = i}}
    /\ UNCHANGED <<saved, power, catalog, known, pool, rows, crashes>>

\* InitializeIfNeeded on an empty file: the two pages are allocated, zeroed and
\* synced at once; what they hold stays in the pool.
InitializeIfNeeded ==
    /\ power = "up" /\ statement.step = "initialize"
    /\ LET id == statement.id IN
       /\ file' = [file EXCEPT ![handle[id].path] = File(<<Zero, Zero>>)]
       /\ handle' = [handle EXCEPT ![id].num_pages = 2]
       /\ pool' = Put(<<id, 0>>, Meta, Put(<<id, 1>>, Rows({}), pool))
    /\ statement' = [statement EXCEPT !.step = "build"]
    /\ UNCHANGED <<saved, power, catalog, known, next_id, rows, history>>

Clash(S) == \E r, s \in S : r # s /\ KeyOf[r] = KeyOf[s]

\* The entries up to the first duplicate are inserted, in the order of the heap.
BuildIndex ==
    /\ power = "up" /\ statement.step = "build"
    /\ LET id == statement.id
           heap == HeapRows(statement.table.id)
           fails == statement.unique /\ Clash(heap)
       IN  /\ \E S \in SUBSET heap :
                  /\ IF fails THEN S # heap /\ ~Clash(S) ELSE S = heap
                  /\ pool' = Put(<<id, 1>>, Rows(S), pool)
           /\ statement' = [statement EXCEPT !.step = IF fails THEN "clean up" ELSE "register index"]
    /\ UNCHANGED <<disk, power, catalog, known, next_id, handle, rows, history>>

\* Fault variant of RegisterIndex: the entry is saved before the index is built.
RegisterIndexFirst ==
    /\ power = "up" /\ statement.step = "build"
    /\ catalog' = [catalog EXCEPT !.indexes = @ \cup
           {[id |-> statement.id, name |-> statement.name,
             table |-> statement.table.name, unique |-> statement.unique]}]
    /\ saved' = catalog'
    /\ UNCHANGED <<file, power, known, next_id, handle, pool, statement, rows, history>>

RegisterIndex ==
    /\ power = "up" /\ statement.step = "register index"
    /\ LET taken == \E x \in catalog.indexes :
               x.table = statement.table.name /\ x.name = statement.name
           entry == [id |-> statement.id, name |-> statement.name,
                     table |-> statement.table.name, unique |-> statement.unique]
       IN  IF taken
           THEN /\ statement' = [statement EXCEPT !.step = "clean up"]
                /\ UNCHANGED <<catalog, saved>>
           ELSE /\ catalog' = [catalog EXCEPT !.indexes = @ \cup {entry}]
                /\ saved' = catalog' /\ statement' = NoStatement
    /\ UNCHANGED <<file, power, known, next_id, handle, pool, rows, history>>

\* The catch block: DeletePage of every page, then DestroyRelation.
DestroyRelation(id) ==
    /\ pool' = Restrict(pool, DOMAIN pool \ PoolPagesOf(id))
    /\ file' = [file EXCEPT ![handle[id].path] = NoFile]
    /\ handle' = [handle EXCEPT ![id] = Closed]

CleanUp ==
    /\ power = "up" /\ statement.step = "clean up"
    /\ DestroyRelation(statement.id)
    /\ statement' = NoStatement
    /\ UNCHANGED <<saved, power, catalog, known, next_id, rows, history>>

(***************************************************************************)
(* INSERT, without a transaction.                                          *)
(***************************************************************************)

IndexesOn(t) == {x \in catalog.indexes : x.table = t.name}

\* A root leaf of zeros, left by a crash, is no tree page and the call fails.
\* Bound: a table is left alone once the file of one of its indexes was taken.
InsertTuple(t, r) ==
    /\ Idle /\ t \in catalog.tables /\ r \notin rows[t.name]
    /\ \A x \in IndexesOn(t) :
           /\ x.name \notin reused
           /\ PageOf(x.id, 1) # Zero
           /\ x.unique => ~Clash(PageOf(x.id, 1).rows \cup {r})
    /\ LET first == handle[t.id].num_pages = 0
           leaves == {<<x.id, 1>> : x \in IndexesOn(t)}
       IN  /\ file' = IF first THEN [file EXCEPT ![handle[t.id].path] = File(<<Zero>>)] ELSE file
           /\ handle' = [handle EXCEPT ![t.id].num_pages = 1]
           /\ pool' = Put(<<t.id, 0>>, Rows({r} \cup HeapRows(t.id)),
                          [p \in leaves \cup DOMAIN pool |->
                              IF p \in leaves THEN Rows({r} \cup PageOf(p[1], p[2]).rows) ELSE pool[p]])
    /\ rows' = [rows EXCEPT ![t.name] = @ \cup {r}]
    /\ UNCHANGED <<saved, power, catalog, known, next_id, statement, history>>

(***************************************************************************)
(* Write-back, the end of the program and its start.                       *)
(***************************************************************************)

\* Sync opens the file by its name: it throws, and the page stays dirty, when
\* a CREATE INDEX under the same name removed the file.
FlushFrame(p) ==
    /\ power = "up" /\ p \in DOMAIN pool /\ file[handle[p[1]].path].exists
    /\ file' = [file EXCEPT ![handle[p[1]].path] = Written(@, p[2], pool[p])]
    /\ pool' = Restrict(pool, DOMAIN pool \ {p})
    /\ UNCHANGED <<saved, power, catalog, known, next_id, handle, statement, rows, history>>

Forget ==
    /\ catalog' = EmptyCatalog /\ known' = {} /\ next_id' = 1
    /\ handle' = [id \in RelationId |-> Closed] /\ pool' = <<>>
    /\ statement' = NoStatement

\* Fault variant of Shutdown: the pool does not write its pages.
ShutdownUnflushed ==
    /\ Idle
    /\ power' = "down" /\ Forget
    /\ UNCHANGED <<disk, rows, history>>

\* The destructors.  ~BufferPoolManager writes every dirty page, in steps of
\* FlushFrame; a page whose file is gone throws out of it, which ends the
\* program with the pages behind it unwritten.
Shutdown ==
    /\ Idle
    /\ DOMAIN pool # {} => \E p \in DOMAIN pool : ~file[handle[p[1]].path].exists
    /\ power' = "down" /\ Forget
    /\ UNCHANGED <<disk, rows, history>>

Crash ==
    /\ power = "up" /\ crashes < MaxCrashes
    /\ crashes' = crashes + 1
    /\ power' = "down" /\ Forget
    /\ UNCHANGED <<disk, rows, reused>>

\* OpenRelation needs the file, BTreeIndex a metapage with its magic number.
HeapOpens(e) == file[HeapPath(e.name)].exists
IndexOpens(x) ==
    LET f == file[IndexPath(x.name)]
    IN  f.exists /\ (Len(f.pages) > 0 => f.pages[1] = Meta)

\* Fault variant of FirstFreeId: behind those of the tables, as
\* RegisterExistingHeapRelation leaves it.
FirstFreeIdOfTables == 1 + Max({0} \cup {e.id : e \in saved.tables})

\* BootstrapFromCatalog: ids start behind those of tables and indexes.
FirstFreeId == 1 + Max({0} \cup {e.id : e \in saved.tables} \cup {x.id : x \in saved.indexes})

\* Indexes whose file is empty, a CREATE INDEX under the same name having been
\* cut short: InitializeIfNeeded makes a new tree in it.
EmptyIndexes == {x \in saved.indexes : file[IndexPath(x.name)].pages = <<>>}

NewTreePages == {<<x.id, no>> : x \in EmptyIndexes, no \in {0, 1}}

Opened(path) ==
    IF \E x \in EmptyIndexes : path = IndexPath(x.name) THEN File(<<Zero, Zero>>) ELSE file[path]

OpenedAs(path) == [path |-> path, num_pages |-> Len(Opened(path).pages)]

CatalogOpens == (\A e \in saved.tables : HeapOpens(e)) /\ (\A x \in saved.indexes : IndexOpens(x))

\* BootstrapFromCatalog: every table is opened, then every index.
BootstrapFromCatalog ==
    /\ power' = "up" /\ catalog' = saved
    /\ known' = {e.name : e \in saved.tables}
    /\ next_id' = FirstFreeId
    /\ handle' = [id \in RelationId |->
           LET heaps == {HeapPath(e.name) : e \in {e \in saved.tables : e.id = id}}
               trees == {IndexPath(x.name) : x \in {x \in saved.indexes : x.id = id}}
           IN  IF heaps \cup trees = {} THEN Closed
               ELSE OpenedAs(CHOOSE p \in heaps \cup trees : trees # {} => p \in trees)]
    /\ file' = [path \in Path |-> Opened(path)]
    /\ pool' = [p \in NewTreePages |-> IF p[2] = 0 THEN Meta ELSE Rows({})]

\* A start that is refused leaves the files as they are (an empty index opened
\* before the one that refuses gets its pages, but every later start is refused
\* too).
RefuseToStart ==
    /\ power' = "refused"
    /\ UNCHANGED <<file, catalog, known, next_id, handle, pool>>

Start ==
    /\ power # "up"
    /\ IF CatalogOpens THEN BootstrapFromCatalog ELSE RefuseToStart
    /\ UNCHANGED <<saved, statement, rows, history>>

Next ==
    \/ \E t \in TableName : CreateHeapRelation(t)
    \/ RegisterRelation
    \/ \E i \in IndexName, t \in catalog.tables, u \in BOOLEAN : CreateIndexRelation(i, t, u)
    \/ InitializeIfNeeded \/ BuildIndex \/ RegisterIndex \/ CleanUp
    \/ \E t \in catalog.tables, r \in Row : InsertTuple(t, r)
    \/ \E p \in DOMAIN pool : FlushFrame(p)
    \/ Shutdown \/ Crash \/ Start

Spec == Init /\ [][Next]_vars

(***************************************************************************)
(* Properties.                                                             *)
(***************************************************************************)

\* The file of an index is there, with the pages its constructor allocated.
HasItsFile(x) == file[IndexPath(x.name)].exists /\ Len(file[IndexPath(x.name)].pages) >= 2

\* What catalog.txt names is on disk, whenever the program dies and however a
\* CREATE INDEX ends: the file of every table, and of every index with the
\* pages its constructor allocated, unless a later CREATE INDEX was given
\* the name of that index.
CatalogNamesFiles ==
    /\ \A e \in saved.tables : file[HeapPath(e.name)].exists
    /\ \A x \in saved.indexes : x.name \notin reused => HasItsFile(x)

\* The same of every index.  It does not hold: CREATE INDEX truncates the file
\* of an index that has the name already, and removes it when it fails.
EveryIndexHasItsFile == \A x \in saved.indexes : HasItsFile(x)

\* The disk manager and the pool address pages by relation id: the id of every
\* table and index leads to its file, also for the ids given out after a
\* restart, and no other table or index has that file, unless the name was
\* given to a second CREATE INDEX.
IdsLeadToTheirFiles ==
    power = "up" =>
        /\ \A e \in catalog.tables : handle[e.id].path = HeapPath(e.name)
        /\ \A x \in catalog.indexes : handle[x.id].path = IndexPath(x.name)
        /\ \A x, y \in catalog.indexes : x # y /\ handle[x.id].path = handle[y.id].path
                                           => x.name \in reused

\* For clients that give an index name to one CREATE INDEX only, and without a
\* crash, closing the program leaves every row a client inserted in its
\* table's file, and in every index of the table, and the next start opens
\* them all.
CleanRestartKeepsAll ==
    reused = {} /\ crashes = 0 /\ power # "up" =>
        /\ power # "refused"
        /\ \A e \in saved.tables :
              LET pages == file[HeapPath(e.name)].pages
              IN  rows[e.name] = IF pages = <<>> THEN {} ELSE pages[1].rows
        /\ \A x \in saved.indexes :
              file[IndexPath(x.name)].pages = <<Meta, Rows(rows[x.table])>>

\* The database opens again after a crash.  It does not hold: the catalog
\* names an index as soon as CREATE INDEX ends, while its metapage may still be
\* a page of zeros on disk.
OpensAfterCrash == power # "refused"
=============================================================================
