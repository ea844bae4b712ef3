--------------------------- MODULE CatalogProofs ---------------------------
(***************************************************************************)
(* Proofs about Catalog: what catalog.txt names is on disk, relation ids   *)
(* lead to their own files, and closing the program keeps every row and    *)
(* every index entry.                                                      *)
(***************************************************************************)
EXTENDS Catalog, NaturalLemmas, TLAPS

-----------------------------------------------------------------------------
(* The inductive invariant.                                                *)

Image == {Zero, Meta} \cup {Rows(S) : S \in SUBSET Row}

TableEntry == [id : RelationId, name : TableName]
IndexEntry == [id : RelationId, name : IndexName, table : TableName, unique : BOOLEAN]

TableStatement == [step : {"register table"}, table : TableName, id : RelationId]
IndexStatement ==
    [step : {"initialize", "build", "register index", "clean up"}, name : IndexName,
     table : TableEntry, unique : BOOLEAN, id : RelationId]

TypeOK ==
    /\ file \in [Path -> [exists : BOOLEAN, pages : Seq(Image)]]
    /\ saved \in [tables : SUBSET TableEntry, indexes : SUBSET IndexEntry]
    /\ power \in {"down", "up", "refused"}
    /\ known \subseteq TableName
    /\ next_id \in 1 .. MaxId + 1
    /\ handle \in [RelationId -> [path : Path \cup {<<>>}, num_pages : Nat]]
    /\ \A p \in DOMAIN pool : pool[p] \in Image
    /\ statement \in {NoStatement} \cup TableStatement \cup IndexStatement
    /\ rows \in [TableName -> SUBSET Row]
    /\ crashes \in Nat /\ reused \subseteq IndexName

\* Running, the catalog in memory is the saved one; otherwise memory is empty.
MemoryMatches ==
    /\ power = "up" => catalog = saved /\ \A e \in saved.tables : e.name \in known
    /\ power # "up" => statement = NoStatement /\ DOMAIN pool = {}

\* Ids and the names of tables are used once, the names of indexes once or
\* they are in reused, and every index has its table.
EntriesDistinct ==
    /\ \A e, f \in saved.tables : e.id = f.id \/ e.name = f.name => e = f
    /\ \A x, y \in saved.indexes : x.id = y.id => x = y
    /\ \A x, y \in saved.indexes : x.name = y.name => x = y \/ x.name \in reused
    /\ \A e \in saved.tables, x \in saved.indexes : e.id # x.id
    /\ \A x \in saved.indexes : \E e \in saved.tables : e.name = x.table

\* next_relation_id_ is behind every id in use, and the statement under way
\* has an id of its own.
IdsBehind ==
    power = "up" =>
        /\ \A e \in saved.tables : e.id < next_id
        /\ \A x \in saved.indexes : x.id < next_id
        /\ statement # NoStatement =>
               /\ statement.id < next_id
               /\ \A e \in saved.tables : e.id # statement.id
               /\ \A x \in saved.indexes : x.id # statement.id

\* Every relation is open on its own file, which has room for its pages.
HandlesOpen ==
    power = "up" =>
        /\ \A e \in saved.tables :
               /\ handle[e.id].path = HeapPath(e.name)
               /\ handle[e.id].num_pages <= Len(file[HeapPath(e.name)].pages)
               /\ <<e.id, 0>> \in DOMAIN pool => Len(file[HeapPath(e.name)].pages) >= 1
        /\ \A x \in saved.indexes : handle[x.id].path = IndexPath(x.name)

\* What each step of CREATE TABLE and CREATE INDEX can rely on.
StatementSound ==
    /\ statement \in TableStatement =>
           /\ \A e \in saved.tables : e.name # statement.table
           /\ statement.table \in known
           /\ handle[statement.id] = [path |-> HeapPath(statement.table), num_pages |-> 0]
           /\ file[HeapPath(statement.table)] = File(<<>>)
    /\ statement \in IndexStatement =>
           /\ statement.table \in saved.tables
           /\ handle[statement.id].path = IndexPath(statement.name)
           /\ \A x \in saved.indexes : x.name = statement.name => x.name \in reused
           /\ statement.step # "initialize" =>
                  /\ file[IndexPath(statement.name)].exists
                  /\ Len(file[IndexPath(statement.name)].pages) >= 2

\* The pages an index, or the one under construction, may have in the pool.
TreePages(id) == {<<id, 0>>, <<id, 1>>}

\* The pool holds pages of relations that are open, and no others.
PoolOwned ==
    \A p \in DOMAIN pool :
        \/ \E e \in saved.tables : p = <<e.id, 0>>
        \/ \E x \in saved.indexes : p \in TreePages(x.id)
        \/ /\ statement \in IndexStatement /\ statement.step # "initialize"
           /\ p \in TreePages(statement.id)

\* What FetchPage finds, with the pages po in the pool and the files f.
PageIn(po, f, id, path, no) ==
    IF <<id, no>> \in DOMAIN po THEN po[<<id, no>>] ELSE f[path].pages[no + 1]

\* The heap of table t, open under id with n pages, holds the rows S.
HeapIn(po, f, n, id, t, S) ==
    \/ n = 0 /\ f[HeapPath(t)].pages = <<>> /\ S = {} /\ <<id, 0>> \notin DOMAIN po
    \/ n = 1 /\ Len(f[HeapPath(t)].pages) = 1 /\ PageIn(po, f, id, HeapPath(t), 0) = Rows(S)

\* Index i, open under id with n pages, is a tree with the entries S.
TreeIn(po, f, n, id, i, S) ==
    /\ n = 2 /\ Len(f[IndexPath(i)].pages) = 2
    /\ PageIn(po, f, id, IndexPath(i), 0) = Meta
    /\ PageIn(po, f, id, IndexPath(i), 1) = Rows(S)

\* No crash so far, and no index name was given to CREATE INDEX twice.
Undisturbed == crashes = 0 /\ reused = {}

\* Running undisturbed, pool and files together have everything.
RelationsKept ==
    Undisturbed /\ power = "up" =>
        /\ \A e \in saved.tables :
               HeapIn(pool, file, handle[e.id].num_pages, e.id, e.name, rows[e.name])
        /\ \A x \in saved.indexes :
               TreeIn(pool, file, handle[x.id].num_pages, x.id, x.name, rows[x.table])

\* The same of the index under construction, when it will be registered.
NewIndexKept ==
    Undisturbed /\ statement \in IndexStatement =>
        /\ statement.step = "build" =>
               TreeIn(pool, file, handle[statement.id].num_pages, statement.id, statement.name, {})
        /\ statement.step = "register index" =>
               TreeIn(pool, file, handle[statement.id].num_pages, statement.id, statement.name,
                      rows[statement.table.name])

\* Only tables that were created have rows.
RowsHaveTables ==
    crashes = 0 => \A t \in TableName : rows[t] # {} => \E e \in saved.tables : e.name = t

\* Closed undisturbed, a heap file is empty or one page of rows.
HeapsClosed ==
    Undisturbed /\ power # "up" =>
        \A e \in saved.tables :
            \/ file[HeapPath(e.name)].pages = <<>> /\ rows[e.name] = {}
            \/ file[HeapPath(e.name)].pages = <<Rows(rows[e.name])>>

CatalogInv ==
    /\ TypeOK
    /\ MemoryMatches
    /\ EntriesDistinct
    /\ IdsBehind
    /\ HandlesOpen
    /\ StatementSound
    /\ PoolOwned
    /\ CatalogNamesFiles
    /\ RelationsKept
    /\ NewIndexKept
    /\ RowsHaveTables
    /\ HeapsClosed
    /\ CleanRestartKeepsAll

-----------------------------------------------------------------------------
(* Lemmas about paths, pages and entries.                                  *)

(* The files of different relations have different paths.                  *)
LEMMA PathsApart ==
    /\ \A t \in TableName : HeapPath(t) \in Path /\ HeapPath(t) # <<>>
    /\ \A i \in IndexName : IndexPath(i) \in Path /\ IndexPath(i) # <<>>
    /\ \A t, u : HeapPath(t) = HeapPath(u) => t = u
    /\ \A i, j : IndexPath(i) = IndexPath(j) => i = j
    /\ \A t, i : HeapPath(t) # IndexPath(i)
<1>1. \A t \in TableName : HeapPath(t) \in Path
  BY DEF Path
<1>2. \A i \in IndexName : IndexPath(i) \in Path
  BY DEF Path
<1>3. /\ \A t : HeapPath(t) # <<>> /\ HeapPath(t)[1] = "heap" /\ HeapPath(t)[2] = t
      /\ \A i : IndexPath(i) # <<>> /\ IndexPath(i)[1] = "idx" /\ IndexPath(i)[2] = i
  BY DEF HeapPath, IndexPath
<1>4. /\ \A t, u : HeapPath(t) = HeapPath(u) => t = u
      /\ \A i, j : IndexPath(i) = IndexPath(j) => i = j
  BY <1>3
<1>5. \A t, i : HeapPath(t) # IndexPath(i)
  BY <1>3
<1> QED BY <1>1, <1>2, <1>3, <1>4, <1>5

(* The images of pages.                                                    *)
LEMMA Images ==
    /\ Zero \in Image /\ Meta \in Image
    /\ \A S \in SUBSET Row : Rows(S) \in Image
    /\ \A v \in Image : v.rows \in SUBSET Row
    /\ \A S : Rows(S).rows = S
<1>1. Zero \in Image /\ Meta \in Image
  BY DEF Image
<1>2. \A S \in SUBSET Row : Rows(S) \in Image
  BY DEF Image
<1>3. \A S : Rows(S).rows = S
  BY DEF Rows
<1>4. Zero.rows = {} /\ Meta.rows = {}
  BY DEF Zero, Meta
<1>5. ASSUME NEW v \in Image PROVE v.rows \in SUBSET Row
  <2>1. v = Zero \/ v = Meta \/ \E S \in SUBSET Row : v = Rows(S)
    BY DEF Image
  <2> QED BY <2>1, <1>3, <1>4
<1> QED BY <1>1, <1>2, <1>3, <1>5

(* The fields of catalog entries and of statements.                        *)
LEMMA EntryFields ==
    /\ \A e \in TableEntry : e.id \in RelationId /\ e.name \in TableName
    /\ \A x \in IndexEntry : /\ x.id \in RelationId /\ x.name \in IndexName
                             /\ x.table \in TableName /\ x.unique \in BOOLEAN
    /\ \A s \in TableStatement : /\ s.step = "register table" /\ s.table \in TableName
                                 /\ s.id \in RelationId
    /\ \A s \in IndexStatement :
           /\ s.step \in {"initialize", "build", "register index", "clean up"}
           /\ s.name \in IndexName /\ s.table \in TableEntry /\ s.unique \in BOOLEAN
           /\ s.id \in RelationId
BY DEF TableEntry, IndexEntry, TableStatement, IndexStatement

LEMMA StatementKinds ==
    /\ NoStatement.step = "none"
    /\ NoStatement \notin TableStatement /\ NoStatement \notin IndexStatement
    /\ \A s \in TableStatement : s \notin IndexStatement
BY EntryFields DEF NoStatement

(* A relation whose file and pages in the pool stay holds what it held.    *)
LEMMA HeapStays ==
    ASSUME NEW po, NEW po2, NEW f, NEW f2, NEW n, NEW id, NEW t, NEW S,
           HeapIn(po, f, n, id, t, S),
           f2[HeapPath(t)] = f[HeapPath(t)],
           <<id, 0>> \in DOMAIN po2 <=> <<id, 0>> \in DOMAIN po,
           <<id, 0>> \in DOMAIN po => po2[<<id, 0>>] = po[<<id, 0>>]
    PROVE  HeapIn(po2, f2, n, id, t, S)
BY DEF HeapIn, PageIn

LEMMA TreeStays ==
    ASSUME NEW po, NEW po2, NEW f, NEW f2, NEW n, NEW id, NEW i, NEW S,
           TreeIn(po, f, n, id, i, S),
           f2[IndexPath(i)] = f[IndexPath(i)],
           \A p \in TreePages(id) : p \in DOMAIN po2 <=> p \in DOMAIN po,
           \A p \in TreePages(id) : p \in DOMAIN po => po2[p] = po[p]
    PROVE  TreeIn(po2, f2, n, id, i, S)
BY DEF TreeIn, PageIn, TreePages

(* Page numbers carry their relation.                                      *)
LEMMA PageIds ==
    /\ \A id, no : <<id, no>>[1] = id /\ <<id, no>>[2] = no
    /\ \A id, p : p \in TreePages(id) => p[1] = id
    /\ \A id : <<id, 0>> \in TreePages(id) /\ <<id, 1>> \in TreePages(id)
BY DEF TreePages

(* FetchPage of a relation that is open on its file.                       *)
LEMMA PageOfIs ==
    ASSUME NEW id, NEW no, NEW path, handle[id].path = path
    PROVE  PageOf(id, no) = PageIn(pool, file, id, path, no)
BY DEF PageOf, PageIn

-----------------------------------------------------------------------------
(* CREATE TABLE and CREATE INDEX keep the invariant.                       *)

\* The page is in the pool, or not, as it was.
SamePage(p) ==
    /\ p \in DOMAIN pool' <=> p \in DOMAIN pool
    /\ p \in DOMAIN pool => pool'[p] = pool[p]

LEMMA TypedEntries ==
    ASSUME TypeOK
    PROVE  /\ \A e \in saved.tables : e \in TableEntry /\ e.id \in RelationId /\ e.name \in TableName
           /\ \A x \in saved.indexes : /\ x \in IndexEntry /\ x.id \in RelationId
                                       /\ x.name \in IndexName /\ x.table \in TableName
BY EntryFields DEF TypeOK

(* A step that leaves the registered relations alone.                      *)
LEMMA OthersStay ==
    ASSUME TypeOK, HandlesOpen, CatalogNamesFiles, RelationsKept, RowsHaveTables,
           saved' = saved, power' = power, rows' = rows, crashes' = crashes,
           reused \subseteq reused',
           \A e \in saved.tables :
               /\ handle'[e.id] = handle[e.id] /\ SamePage(<<e.id, 0>>)
               /\ file'[HeapPath(e.name)] = file[HeapPath(e.name)],
           \A x \in saved.indexes :
               /\ handle'[x.id] = handle[x.id] /\ \A p \in TreePages(x.id) : SamePage(p)
               /\ x.name \notin reused' => file'[IndexPath(x.name)] = file[IndexPath(x.name)]
    PROVE  HandlesOpen' /\ CatalogNamesFiles' /\ RelationsKept' /\ RowsHaveTables'
<1>1. HandlesOpen'
  BY DEF HandlesOpen, SamePage
<1>2. CatalogNamesFiles'
  BY DEF CatalogNamesFiles, HasItsFile
<1>3. RowsHaveTables'
  BY DEF RowsHaveTables
<1>4. ASSUME Undisturbed', power = "up", NEW e \in saved.tables
      PROVE  HeapIn(pool', file', handle'[e.id].num_pages, e.id, e.name, rows'[e.name])
  <2>1. HeapIn(pool, file, handle[e.id].num_pages, e.id, e.name, rows[e.name])
    BY <1>4 DEF RelationsKept, Undisturbed
  <2>2. SamePage(<<e.id, 0>>)
    OBVIOUS
  <2>3. HeapIn(pool', file', handle[e.id].num_pages, e.id, e.name, rows[e.name])
    BY <2>1, <2>2, HeapStays DEF SamePage
  <2> QED BY <2>3
<1>5. ASSUME Undisturbed', power = "up", NEW x \in saved.indexes
      PROVE  TreeIn(pool', file', handle'[x.id].num_pages, x.id, x.name, rows'[x.table])
  <2>1. TreeIn(pool, file, handle[x.id].num_pages, x.id, x.name, rows[x.table])
    BY <1>5 DEF RelationsKept, Undisturbed
  <2>2. \A p \in TreePages(x.id) : SamePage(p)
    OBVIOUS
  <2>3. file'[IndexPath(x.name)] = file[IndexPath(x.name)]
    BY <1>5 DEF Undisturbed
  <2>4. TreeIn(pool', file', handle[x.id].num_pages, x.id, x.name, rows[x.table])
    BY <2>1, <2>2, <2>3, TreeStays DEF SamePage
  <2> QED BY <2>4
<1> QED BY <1>1, <1>2, <1>3, <1>4, <1>5 DEF RelationsKept

LEMMA CreateHeapRelationKeepsInv ==
    ASSUME CatalogInv, NEW t \in TableName, CreateHeapRelation(t)
    PROVE  CatalogInv'
<1>1. power = "up" /\ statement = NoStatement /\ next_id \in RelationId /\ t \notin known
  BY DEF CreateHeapRelation, Idle, TableExists
<1>2. /\ file' = [file EXCEPT ![HeapPath(t)] = File(<<>>)]
      /\ handle' = [handle EXCEPT ![next_id] = [path |-> HeapPath(t), num_pages |-> 0]]
      /\ known' = known \cup {t} /\ next_id' = next_id + 1
  BY DEF CreateHeapRelation, CreateRelation
<1>3. statement' = [step |-> "register table", table |-> t, id |-> next_id]
  BY DEF CreateHeapRelation
<1>4. UNCHANGED <<saved, power, catalog, pool, rows, crashes, reused>>
  BY DEF CreateHeapRelation, history
<1>5. TypeOK /\ MemoryMatches /\ EntriesDistinct /\ IdsBehind /\ HandlesOpen
  BY DEF CatalogInv
<1>6. PoolOwned /\ CatalogNamesFiles /\ RelationsKept /\ RowsHaveTables
  BY DEF CatalogInv
<1>7. statement' \in TableStatement
  BY <1>1, <1>3 DEF TableStatement
<1>8. TypeOK'
  <2>1. File(<<>>) \in [exists : BOOLEAN, pages : Seq(Image)]
    BY DEF File
  <2>2. file' \in [Path -> [exists : BOOLEAN, pages : Seq(Image)]]
    BY <1>2, <1>5, <2>1 DEF TypeOK
  <2>3. handle' \in [RelationId -> [path : Path \cup {<<>>}, num_pages : Nat]]
    BY <1>1, <1>2, <1>5, PathsApart DEF TypeOK
  <2>4. next_id' \in 1 .. MaxId + 1 /\ known' \subseteq TableName
    BY <1>1, <1>2, <1>5, CatalogAssumption DEF TypeOK, RelationId
  <2> QED BY <1>4, <1>5, <1>7, <2>2, <2>3, <2>4 DEF TypeOK
<1>9. /\ \A e \in saved.tables : e.id # next_id /\ e.id < next_id /\ e.name # t
      /\ \A x \in saved.indexes : x.id # next_id /\ x.id < next_id
  BY <1>1, <1>5, TypedEntries DEF IdsBehind, MemoryMatches, RelationId
<1>10. /\ \A e \in saved.tables : /\ handle'[e.id] = handle[e.id]
                                  /\ file'[HeapPath(e.name)] = file[HeapPath(e.name)]
       /\ \A x \in saved.indexes : /\ handle'[x.id] = handle[x.id]
                                   /\ file'[IndexPath(x.name)] = file[IndexPath(x.name)]
  BY <1>2, <1>5, <1>9, TypedEntries, PathsApart DEF TypeOK
<1>11. \A p : SamePage(p)
  BY <1>4 DEF SamePage
<1>12. HandlesOpen' /\ CatalogNamesFiles' /\ RelationsKept' /\ RowsHaveTables'
  BY <1>4, <1>5, <1>6, <1>10, <1>11, OthersStay
<1>13. MemoryMatches' /\ EntriesDistinct'
  BY <1>1, <1>2, <1>4, <1>5 DEF MemoryMatches, EntriesDistinct
<1>14. IdsBehind'
  <2>0. next_id \in Nat
    BY <1>5, CatalogAssumption DEF TypeOK
  <2>1. statement'.id = next_id
    BY <1>3
  <2>2. \A e \in saved.tables : e.id \in Nat
    BY <1>5, TypedEntries DEF RelationId
  <2>3. \A x \in saved.indexes : x.id \in Nat
    BY <1>5, TypedEntries DEF RelationId
  <2> QED BY <1>2, <1>4, <1>9, <2>0, <2>1, <2>2, <2>3 DEF IdsBehind
<1>15. StatementSound'
  <2>1. statement'.table = t /\ statement'.id = next_id
    BY <1>3
  <2>2. /\ handle'[next_id] = [path |-> HeapPath(t), num_pages |-> 0]
        /\ file'[HeapPath(t)] = File(<<>>)
    BY <1>1, <1>2, <1>5, PathsApart DEF TypeOK
  <2> QED BY <1>2, <1>4, <1>7, <1>9, <2>1, <2>2, StatementKinds DEF StatementSound
<1>16. PoolOwned'
  BY <1>1, <1>4, <1>6, StatementKinds DEF PoolOwned
<1>17. NewIndexKept'
  BY <1>7, StatementKinds DEF NewIndexKept
<1>18. HeapsClosed' /\ CleanRestartKeepsAll'
  BY <1>1, <1>4 DEF HeapsClosed, CleanRestartKeepsAll, Undisturbed
<1> QED BY <1>8, <1>12, <1>13, <1>14, <1>15, <1>16, <1>17, <1>18 DEF CatalogInv

LEMMA RegisterRelationKeepsInv ==
    ASSUME CatalogInv, RegisterRelation
    PROVE  CatalogInv'
<1>1. TypeOK /\ MemoryMatches /\ EntriesDistinct /\ IdsBehind /\ HandlesOpen /\ StatementSound
  BY DEF CatalogInv
<1>2. PoolOwned /\ CatalogNamesFiles /\ RelationsKept /\ RowsHaveTables
  BY DEF CatalogInv
<1>3. power = "up" /\ statement.step = "register table" /\ catalog = saved
  BY <1>1 DEF RegisterRelation, MemoryMatches
<1>4. statement \in TableStatement
  BY <1>1, <1>3, EntryFields, StatementKinds DEF TypeOK
<1>5. PICK new : new = [id |-> statement.id, name |-> statement.table]
  OBVIOUS
<1>6. /\ new \in TableEntry /\ new.id = statement.id /\ new.name = statement.table
      /\ statement.id \in RelationId /\ statement.table \in TableName
  BY <1>4, <1>5, EntryFields DEF TableEntry
<1>7. statement # NoStatement
  BY <1>4, StatementKinds
<1>8. /\ \A e \in saved.tables : e.id # new.id /\ e.name # new.name
      /\ \A x \in saved.indexes : x.id # new.id
      /\ new.id < next_id
  BY <1>1, <1>3, <1>4, <1>6, <1>7 DEF IdsBehind, StatementSound
<1>9. /\ handle[new.id].path = HeapPath(new.name) /\ handle[new.id].num_pages = 0
      /\ file[HeapPath(new.name)].exists /\ file[HeapPath(new.name)].pages = <<>>
      /\ new.name \in known
  BY <1>1, <1>4, <1>6 DEF StatementSound, File
<1>10. /\ saved' = [saved EXCEPT !.tables = @ \cup {new}] /\ catalog' = saved'
       /\ statement' = NoStatement
  BY <1>3, <1>5, <1>6, <1>8 DEF RegisterRelation
<1>11. UNCHANGED <<file, power, known, next_id, handle, pool, rows, crashes, reused>>
  BY DEF RegisterRelation, history
<1>12. saved'.tables = saved.tables \cup {new} /\ saved'.indexes = saved.indexes
  BY <1>1, <1>10 DEF TypeOK
<1>13. TypeOK'
  <2>1. saved' \in [tables : SUBSET TableEntry, indexes : SUBSET IndexEntry]
    BY <1>1, <1>6, <1>10 DEF TypeOK
  <2> QED BY <1>1, <1>10, <1>11, <2>1 DEF TypeOK
<1>14. MemoryMatches'
  BY <1>1, <1>3, <1>9, <1>10, <1>11, <1>12 DEF MemoryMatches
<1>15. EntriesDistinct'
  BY <1>1, <1>8, <1>11, <1>12 DEF EntriesDistinct
<1>16. IdsBehind'
  BY <1>1, <1>3, <1>8, <1>10, <1>11, <1>12 DEF IdsBehind
<1>17. HandlesOpen'
  <2>1. handle[new.id].num_pages <= Len(file[HeapPath(new.name)].pages)
    BY <1>9
  <2>2. <<new.id, 0>> \notin DOMAIN pool
    BY <1>2, <1>4, <1>8, PageIds, StatementKinds DEF PoolOwned
  <2> QED BY <1>1, <1>3, <1>9, <1>11, <1>12, <2>1, <2>2 DEF HandlesOpen
<1>18. StatementSound' /\ NewIndexKept'
  BY <1>10, StatementKinds DEF StatementSound, NewIndexKept
<1>19. PoolOwned'
  BY <1>2, <1>4, <1>11, <1>12, StatementKinds DEF PoolOwned
<1>20. CatalogNamesFiles'
  BY <1>2, <1>9, <1>11, <1>12 DEF CatalogNamesFiles, HasItsFile
<1>21. RelationsKept'
  <2>1. SUFFICES ASSUME Undisturbed
                 PROVE  /\ \A e \in saved.tables \cup {new} :
                               HeapIn(pool, file, handle[e.id].num_pages, e.id, e.name, rows[e.name])
                        /\ \A x \in saved.indexes :
                               TreeIn(pool, file, handle[x.id].num_pages, x.id, x.name, rows[x.table])
    BY <1>11, <1>12 DEF RelationsKept, Undisturbed
  <2>2. rows[new.name] = {}
    BY <1>2, <1>6, <1>8, <2>1 DEF RowsHaveTables, Undisturbed
  <2>3. <<new.id, 0>> \notin DOMAIN pool
    BY <1>2, <1>4, <1>8, PageIds, StatementKinds DEF PoolOwned
  <2>4. HeapIn(pool, file, handle[new.id].num_pages, new.id, new.name, rows[new.name])
    BY <1>9, <2>2, <2>3 DEF HeapIn
  <2> QED BY <1>2, <1>3, <2>1, <2>4 DEF RelationsKept
<1>22. RowsHaveTables'
  BY <1>2, <1>11, <1>12 DEF RowsHaveTables
<1>23. HeapsClosed' /\ CleanRestartKeepsAll'
  BY <1>3, <1>11 DEF HeapsClosed, CleanRestartKeepsAll, Undisturbed
<1> QED BY <1>13, <1>14, <1>15, <1>16, <1>17, <1>18, <1>19, <1>20, <1>21, <1>22, <1>23 DEF CatalogInv

LEMMA CreateIndexRelationKeepsInv ==
    ASSUME CatalogInv,
           NEW i \in IndexName, NEW t \in catalog.tables, NEW u \in BOOLEAN,
           CreateIndexRelation(i, t, u)
    PROVE  CatalogInv'
<1>1. TypeOK /\ MemoryMatches /\ EntriesDistinct /\ IdsBehind /\ HandlesOpen
  BY DEF CatalogInv
<1>2. PoolOwned /\ CatalogNamesFiles /\ RelationsKept /\ RowsHaveTables
  BY DEF CatalogInv
<1>3. /\ power = "up" /\ statement = NoStatement /\ next_id \in RelationId /\ catalog = saved
      /\ t \in saved.tables /\ reused' = reused \cup {x.name : x \in {x \in saved.indexes : x.name = i}}
  BY <1>1 DEF CreateIndexRelation, Idle, MemoryMatches
<1>r. /\ reused \subseteq reused' /\ reused' \subseteq IndexName
      /\ \A x \in saved.indexes : x.name = i => x.name \in reused'
  BY <1>1, <1>3 DEF TypeOK
<1>4. /\ file' = [file EXCEPT ![IndexPath(i)] = File(<<>>)]
      /\ handle' = [handle EXCEPT ![next_id] = [path |-> IndexPath(i), num_pages |-> 0]]
      /\ next_id' = next_id + 1
  BY DEF CreateIndexRelation, CreateRelation
<1>5. statement' = [step |-> "initialize", name |-> i, table |-> t, unique |-> u, id |-> next_id]
  BY DEF CreateIndexRelation
<1>6. UNCHANGED <<saved, power, catalog, known, pool, rows, crashes>>
  BY DEF CreateIndexRelation
<1>7. statement' \in IndexStatement
  BY <1>1, <1>3, <1>5, TypedEntries DEF IndexStatement
<1>8. TypeOK'
  <2>1. File(<<>>) \in [exists : BOOLEAN, pages : Seq(Image)]
    BY DEF File
  <2>2. file' \in [Path -> [exists : BOOLEAN, pages : Seq(Image)]]
    BY <1>1, <1>4, <2>1 DEF TypeOK
  <2>3. handle' \in [RelationId -> [path : Path \cup {<<>>}, num_pages : Nat]]
    BY <1>1, <1>3, <1>4, PathsApart DEF TypeOK
  <2>4. next_id' \in 1 .. MaxId + 1
    BY <1>1, <1>3, <1>4, CatalogAssumption DEF TypeOK, RelationId
  <2> QED BY <1>1, <1>6, <1>7, <1>r, <2>2, <2>3, <2>4 DEF TypeOK
<1>9. /\ \A e \in saved.tables : e.id # next_id /\ e.id < next_id
      /\ \A x \in saved.indexes : x.id # next_id /\ x.id < next_id
  BY <1>1, <1>3, TypedEntries DEF IdsBehind, RelationId
<1>10. /\ \A e \in saved.tables : /\ handle'[e.id] = handle[e.id]
                                  /\ file'[HeapPath(e.name)] = file[HeapPath(e.name)]
       /\ \A x \in saved.indexes : /\ handle'[x.id] = handle[x.id]
                                   /\ x.name \notin reused' =>
                                          file'[IndexPath(x.name)] = file[IndexPath(x.name)]
  BY <1>1, <1>3, <1>4, <1>9, <1>r, TypedEntries, PathsApart DEF TypeOK
<1>11. \A p : SamePage(p)
  BY <1>6 DEF SamePage
<1>12. HandlesOpen' /\ CatalogNamesFiles' /\ RelationsKept' /\ RowsHaveTables'
  BY <1>1, <1>2, <1>6, <1>10, <1>11, <1>r, OthersStay
<1>13. MemoryMatches' /\ EntriesDistinct'
  BY <1>1, <1>3, <1>6, <1>r DEF MemoryMatches, EntriesDistinct
<1>14. IdsBehind'
  <2>1. statement'.id = next_id /\ next_id \in Nat
    BY <1>3, <1>5, CatalogAssumption DEF RelationId
  <2>2. \A e \in saved.tables : e.id \in Nat
    BY <1>1, TypedEntries DEF RelationId
  <2>3. \A x \in saved.indexes : x.id \in Nat
    BY <1>1, TypedEntries DEF RelationId
  <2> QED BY <1>4, <1>6, <1>9, <2>1, <2>2, <2>3 DEF IdsBehind
<1>15. StatementSound'
  <2>1. /\ statement'.table = t /\ statement'.id = next_id /\ statement'.name = i
        /\ statement'.step = "initialize"
    BY <1>5
  <2>2. handle'[next_id].path = IndexPath(i)
    BY <1>1, <1>3, <1>4 DEF TypeOK
  <2> QED BY <1>3, <1>6, <1>7, <1>r, <2>1, <2>2, StatementKinds DEF StatementSound
<1>16. PoolOwned'
  BY <1>2, <1>3, <1>6, StatementKinds DEF PoolOwned
<1>17. NewIndexKept'
  BY <1>5 DEF NewIndexKept
<1>18. HeapsClosed' /\ CleanRestartKeepsAll'
  BY <1>3, <1>6 DEF HeapsClosed, CleanRestartKeepsAll, Undisturbed
<1> QED BY <1>8, <1>12, <1>13, <1>14, <1>15, <1>16, <1>17, <1>18 DEF CatalogInv

(* Pages of the index under construction are no pages of other relations.  *)
LEMMA NewPagesApart ==
    ASSUME TypeOK, IdsBehind, StatementSound, power = "up", statement \in IndexStatement
    PROVE  /\ \A e \in saved.tables : e.id # statement.id /\ <<e.id, 0>> \notin TreePages(statement.id)
           /\ \A x \in saved.indexes :
                  /\ x.id # statement.id /\ (x.name = statement.name => x.name \in reused)
                  /\ \A p \in TreePages(x.id) : p \notin TreePages(statement.id)
<1>1. statement # NoStatement
  BY StatementKinds
<1>2. /\ \A e \in saved.tables : e.id # statement.id
      /\ \A x \in saved.indexes : x.id # statement.id /\ (x.name = statement.name => x.name \in reused)
  BY <1>1 DEF IdsBehind, StatementSound
<1> QED BY <1>2, PageIds

LEMMA InitializeIfNeededKeepsInv ==
    ASSUME CatalogInv, InitializeIfNeeded
    PROVE  CatalogInv'
<1>1. TypeOK /\ MemoryMatches /\ EntriesDistinct /\ IdsBehind /\ HandlesOpen /\ StatementSound
  BY DEF CatalogInv
<1>2. PoolOwned /\ CatalogNamesFiles /\ RelationsKept /\ RowsHaveTables
  BY DEF CatalogInv
<1>3. power = "up" /\ statement.step = "initialize"
  BY DEF InitializeIfNeeded
<1>4. statement \in IndexStatement
  BY <1>1, <1>3, EntryFields, StatementKinds DEF TypeOK
<1>5. PICK id, i : id = statement.id /\ i = statement.name
  OBVIOUS
<1>6. id \in RelationId /\ i \in IndexName /\ handle[id].path = IndexPath(i)
  BY <1>1, <1>4, <1>5, EntryFields DEF StatementSound
<1>7. /\ file' = [file EXCEPT ![IndexPath(i)] = File(<<Zero, Zero>>)]
      /\ handle' = [handle EXCEPT ![id].num_pages = 2]
  BY <1>5, <1>6 DEF InitializeIfNeeded
<1>8. pool' = Put(<<id, 0>>, Meta, Put(<<id, 1>>, Rows({}), pool))
  BY <1>5 DEF InitializeIfNeeded
<1>9. statement' = [statement EXCEPT !.step = "build"]
  BY DEF InitializeIfNeeded
<1>10. UNCHANGED <<saved, power, catalog, known, next_id, rows, crashes, reused>>
  BY DEF InitializeIfNeeded, history
<1>11. /\ statement' \in IndexStatement /\ statement'.step = "build" /\ statement'.id = id
       /\ statement'.name = i /\ statement'.table = statement.table
  BY <1>4, <1>5, <1>9 DEF IndexStatement
<1>12. <<id, 0>> # <<id, 1>>
  OBVIOUS
<1>13. /\ DOMAIN pool' = TreePages(id) \cup DOMAIN pool
       /\ pool'[<<id, 0>>] = Meta /\ pool'[<<id, 1>>] = Rows({})
       /\ \A q \in DOMAIN pool : q \notin TreePages(id) => pool'[q] = pool[q]
  <2>1. PICK po : po = Put(<<id, 1>>, Rows({}), pool)
    OBVIOUS
  <2>2. /\ DOMAIN po = {<<id, 1>>} \cup DOMAIN pool /\ po[<<id, 1>>] = Rows({})
        /\ \A q \in DOMAIN pool : q # <<id, 1>> => po[q] = pool[q]
    BY <2>1 DEF Put
  <2>3. pool' = Put(<<id, 0>>, Meta, po)
    BY <1>8, <2>1
  <2>4. /\ DOMAIN pool' = {<<id, 0>>} \cup DOMAIN po /\ pool'[<<id, 0>>] = Meta
        /\ \A q \in DOMAIN po : q # <<id, 0>> => pool'[q] = po[q]
    BY <2>3 DEF Put
  <2> QED BY <1>12, <2>2, <2>4 DEF TreePages
<1>14. /\ \A e \in saved.tables : e.id # id /\ <<e.id, 0>> \notin TreePages(id)
       /\ \A x \in saved.indexes : /\ x.id # id /\ (x.name = i => x.name \in reused)
                                   /\ \A p \in TreePages(x.id) : p \notin TreePages(id)
  BY <1>1, <1>3, <1>4, <1>5, NewPagesApart
<1>15. /\ \A e \in saved.tables : /\ handle'[e.id] = handle[e.id]
                                  /\ file'[HeapPath(e.name)] = file[HeapPath(e.name)]
       /\ \A x \in saved.indexes : /\ handle'[x.id] = handle[x.id]
                                   /\ x.name \notin reused =>
                                          file'[IndexPath(x.name)] = file[IndexPath(x.name)]
  BY <1>1, <1>7, <1>14, TypedEntries, PathsApart DEF TypeOK
<1>16. \A p : p \notin TreePages(id) => SamePage(p)
  BY <1>13 DEF SamePage
<1>17. HandlesOpen' /\ CatalogNamesFiles' /\ RelationsKept' /\ RowsHaveTables'
  BY <1>1, <1>2, <1>10, <1>14, <1>15, <1>16, OthersStay
<1>18. /\ file'[IndexPath(i)].exists /\ file'[IndexPath(i)].pages = <<Zero, Zero>>
       /\ handle'[id].path = IndexPath(i) /\ handle'[id].num_pages = 2
  BY <1>1, <1>6, <1>7, PathsApart DEF TypeOK, File
<1>19. TypeOK'
  <2>1. File(<<Zero, Zero>>) \in [exists : BOOLEAN, pages : Seq(Image)]
    BY Images DEF File
  <2>2. file' \in [Path -> [exists : BOOLEAN, pages : Seq(Image)]]
    BY <1>1, <1>7, <2>1 DEF TypeOK
  <2>3. handle' \in [RelationId -> [path : Path \cup {<<>>}, num_pages : Nat]]
    BY <1>1, <1>6, <1>7 DEF TypeOK
  <2>4. \A p \in DOMAIN pool' : pool'[p] \in Image
    <3>1. Meta \in Image /\ Rows({}) \in Image
      BY Images
    <3>2. \A p \in DOMAIN pool : p \notin TreePages(id) => pool'[p] \in Image
      BY <1>1, <1>13 DEF TypeOK
    <3>3. \A p \in TreePages(id) : pool'[p] \in Image
      BY <1>13, <3>1 DEF TreePages
    <3> QED BY <1>13, <3>2, <3>3
  <2> QED BY <1>1, <1>10, <1>11, <2>2, <2>3, <2>4 DEF TypeOK
<1>20. MemoryMatches' /\ EntriesDistinct'
  BY <1>1, <1>3, <1>10 DEF MemoryMatches, EntriesDistinct
<1>21. IdsBehind'
  <2>1. statement # NoStatement /\ statement'.id = statement.id
    BY <1>4, <1>5, <1>11, StatementKinds
  <2> QED BY <1>1, <1>3, <1>10, <2>1 DEF IdsBehind
<1>22. StatementSound'
  <2>1. statement.table \in saved.tables
    BY <1>1, <1>4 DEF StatementSound
  <2>2. Len(file'[IndexPath(i)].pages) = 2
    BY <1>18
  <2> QED BY <1>10, <1>11, <1>14, <1>18, <2>1, <2>2, StatementKinds DEF StatementSound
<1>23. PoolOwned'
  BY <1>2, <1>4, <1>5, <1>10, <1>11, <1>13 DEF PoolOwned
<1>24. NewIndexKept'
  <2>1. TreeIn(pool', file', 2, id, i, {})
    <3>1. Len(file'[IndexPath(i)].pages) = 2
      BY <1>18
    <3>2. <<id, 0>> \in DOMAIN pool' /\ <<id, 1>> \in DOMAIN pool'
      BY <1>13 DEF TreePages
    <3> QED BY <1>13, <3>1, <3>2 DEF TreeIn, PageIn
  <2> QED BY <1>11, <1>18, <2>1 DEF NewIndexKept
<1>25. HeapsClosed' /\ CleanRestartKeepsAll'
  BY <1>3, <1>10 DEF HeapsClosed, CleanRestartKeepsAll, Undisturbed
<1> QED BY <1>17, <1>19, <1>20, <1>21, <1>22, <1>23, <1>24, <1>25 DEF CatalogInv

(* What the heap scan of an open table finds.                              *)
LEMMA HeapScan ==
    ASSUME TypeOK, HandlesOpen, RelationsKept, power = "up", NEW e \in saved.tables
    PROVE  /\ HeapRows(e.id) \in SUBSET Row
           /\ Undisturbed => HeapRows(e.id) = rows[e.name]
<1>1. /\ e.id \in RelationId /\ e.name \in TableName
      /\ handle[e.id].path = HeapPath(e.name)
      /\ handle[e.id].num_pages <= Len(file[HeapPath(e.name)].pages)
  BY TypedEntries DEF HandlesOpen
<1>2. handle[e.id].num_pages \in Nat /\ file[HeapPath(e.name)].pages \in Seq(Image)
  BY <1>1, PathsApart DEF TypeOK
<1>3. PageOf(e.id, 0) = PageIn(pool, file, e.id, HeapPath(e.name), 0)
  BY <1>1, PageOfIs
<1>4. HeapRows(e.id) \in SUBSET Row
  <2>1. CASE handle[e.id].num_pages = 0
    BY <2>1 DEF HeapRows
  <2>2. CASE handle[e.id].num_pages # 0
    <3>1. file[HeapPath(e.name)].pages[0 + 1] \in Image
      BY <1>1, <1>2, <2>2
    <3>2. PageIn(pool, file, e.id, HeapPath(e.name), 0) \in Image
      BY <3>1 DEF PageIn, TypeOK
    <3> QED BY <1>3, <2>2, <3>2, Images DEF HeapRows
  <2> QED BY <2>1, <2>2
<1>5. ASSUME Undisturbed PROVE HeapRows(e.id) = rows[e.name]
  <2>1. HeapIn(pool, file, handle[e.id].num_pages, e.id, e.name, rows[e.name])
    BY <1>5 DEF RelationsKept
  <2>2. CASE handle[e.id].num_pages = 0
    BY <2>1, <2>2 DEF HeapIn, HeapRows
  <2>3. CASE handle[e.id].num_pages # 0
    <3>1. PageOf(e.id, 0) = Rows(rows[e.name])
      BY <1>3, <2>1, <2>3 DEF HeapIn
    <3>2. PageOf(e.id, 0).rows = rows[e.name]
      BY <3>1, Images
    <3> QED BY <2>3, <3>2 DEF HeapRows
  <2> QED BY <2>2, <2>3
<1> QED BY <1>4, <1>5

LEMMA BuildIndexKeepsInv ==
    ASSUME CatalogInv, BuildIndex
    PROVE  CatalogInv'
<1>1. TypeOK /\ MemoryMatches /\ EntriesDistinct /\ IdsBehind /\ HandlesOpen /\ StatementSound
  BY DEF CatalogInv
<1>2. PoolOwned /\ CatalogNamesFiles /\ RelationsKept /\ RowsHaveTables /\ NewIndexKept
  BY DEF CatalogInv
<1>3. power = "up" /\ statement.step = "build"
  BY DEF BuildIndex
<1>4. statement \in IndexStatement
  BY <1>1, <1>3, EntryFields, StatementKinds DEF TypeOK
<1>5. PICK id, i, t : id = statement.id /\ i = statement.name /\ t = statement.table
  OBVIOUS
<1>6. /\ id \in RelationId /\ i \in IndexName /\ handle[id].path = IndexPath(i)
      /\ t \in saved.tables
  BY <1>1, <1>4, <1>5, EntryFields DEF StatementSound
<1>7. PICK S \in SUBSET HeapRows(t.id) :
          /\ pool' = Put(<<id, 1>>, Rows(S), pool)
          /\ \/ statement' = [statement EXCEPT !.step = "clean up"]
             \/ S = HeapRows(t.id) /\ statement' = [statement EXCEPT !.step = "register index"]
  BY <1>5 DEF BuildIndex
<1>8. UNCHANGED <<file, saved, power, catalog, known, next_id, handle, rows, crashes, reused>>
  BY DEF BuildIndex, disk, history
<1>9. /\ statement' \in IndexStatement /\ statement'.step \in {"clean up", "register index"}
      /\ statement'.id = id /\ statement'.name = i /\ statement'.table = t
      /\ statement'.step = "register index" => S = HeapRows(t.id)
  BY <1>4, <1>5, <1>7 DEF IndexStatement
<1>10. HeapRows(t.id) \in SUBSET Row /\ (Undisturbed => HeapRows(t.id) = rows[t.name])
  BY <1>1, <1>2, <1>3, <1>6, HeapScan
<1>11. /\ DOMAIN pool' = {<<id, 1>>} \cup DOMAIN pool /\ pool'[<<id, 1>>] = Rows(S)
       /\ \A q \in DOMAIN pool : q # <<id, 1>> => pool'[q] = pool[q]
  BY <1>7 DEF Put
<1>12. /\ \A e \in saved.tables : e.id # id /\ <<e.id, 0>> \notin TreePages(id)
       /\ \A x \in saved.indexes : /\ x.id # id /\ (x.name = i => x.name \in reused)
                                   /\ \A p \in TreePages(x.id) : p \notin TreePages(id)
  BY <1>1, <1>3, <1>4, <1>5, NewPagesApart
<1>13. \A p : p \notin TreePages(id) => SamePage(p)
  BY <1>11 DEF SamePage, TreePages
<1>14. HandlesOpen' /\ CatalogNamesFiles' /\ RelationsKept' /\ RowsHaveTables'
  BY <1>1, <1>2, <1>8, <1>12, <1>13, OthersStay
<1>15. TypeOK'
  <2>1. Rows(S) \in Image
    BY <1>10, Images
  <2>2. \A p \in DOMAIN pool' : pool'[p] \in Image
    BY <1>1, <1>11, <2>1 DEF TypeOK
  <2> QED BY <1>1, <1>8, <1>9, <2>2 DEF TypeOK
<1>16. MemoryMatches' /\ EntriesDistinct'
  BY <1>1, <1>3, <1>8 DEF MemoryMatches, EntriesDistinct
<1>17. IdsBehind'
  <2>1. statement # NoStatement /\ statement'.id = statement.id
    BY <1>4, <1>5, <1>9, StatementKinds
  <2> QED BY <1>1, <1>3, <1>8, <2>1 DEF IdsBehind
<1>18. StatementSound'
  <2>1. file[IndexPath(i)].exists /\ Len(file[IndexPath(i)].pages) >= 2
    BY <1>1, <1>3, <1>4, <1>5 DEF StatementSound
  <2> QED BY <1>6, <1>8, <1>9, <1>12, <2>1, StatementKinds DEF StatementSound
<1>19. PoolOwned'
  BY <1>2, <1>4, <1>5, <1>8, <1>9, <1>11 DEF PoolOwned, TreePages
<1>20. NewIndexKept'
  <2>1. ASSUME Undisturbed, statement'.step = "register index"
        PROVE  TreeIn(pool', file', handle'[id].num_pages, id, i, rows'[t.name])
    <3>1. TreeIn(pool, file, handle[id].num_pages, id, i, {})
      BY <1>2, <1>3, <1>4, <1>5, <2>1 DEF NewIndexKept
    <3>2. pool'[<<id, 1>>] = Rows(rows[t.name]) /\ <<id, 1>> \in DOMAIN pool'
      BY <1>9, <1>10, <1>11, <2>1
    <3>3. <<id, 0>> # <<id, 1>>
      OBVIOUS
    <3>4. PageIn(pool', file, id, IndexPath(i), 0) = PageIn(pool, file, id, IndexPath(i), 0)
      BY <1>11, <3>3 DEF PageIn
    <3>5. PageIn(pool', file, id, IndexPath(i), 1) = Rows(rows[t.name])
      BY <3>2 DEF PageIn
    <3> QED BY <1>8, <3>1, <3>4, <3>5 DEF TreeIn
  <2> QED BY <1>8, <1>9, <2>1 DEF NewIndexKept, Undisturbed
<1>21. HeapsClosed' /\ CleanRestartKeepsAll'
  BY <1>3, <1>8 DEF HeapsClosed, CleanRestartKeepsAll, Undisturbed
<1> QED BY <1>14, <1>15, <1>16, <1>17, <1>18, <1>19, <1>20, <1>21 DEF CatalogInv

LEMMA RegisterIndexKeepsInv ==
    ASSUME CatalogInv, RegisterIndex
    PROVE  CatalogInv'
<1>1. TypeOK /\ MemoryMatches /\ EntriesDistinct /\ IdsBehind /\ HandlesOpen /\ StatementSound
  BY DEF CatalogInv
<1>2. PoolOwned /\ CatalogNamesFiles /\ RelationsKept /\ RowsHaveTables /\ NewIndexKept
  BY DEF CatalogInv
<1>3. power = "up" /\ statement.step = "register index" /\ catalog = saved
  BY <1>1 DEF RegisterIndex, MemoryMatches
<1>4. statement \in IndexStatement
  BY <1>1, <1>3, EntryFields, StatementKinds DEF TypeOK
<1>5. PICK new : new = [id |-> statement.id, name |-> statement.name,
                        table |-> statement.table.name, unique |-> statement.unique]
  OBVIOUS
<1>6. /\ new.id = statement.id /\ new.name = statement.name /\ new.table = statement.table.name
      /\ statement.table \in saved.tables
  BY <1>1, <1>4, <1>5 DEF StatementSound
<1>7. new \in IndexEntry
  BY <1>4, <1>5, EntryFields DEF IndexEntry
<1>8. /\ \A e \in saved.tables : e.id # new.id
      /\ \A x \in saved.indexes : x.id # new.id /\ (x.name = new.name => x.name \in reused)
  BY <1>1, <1>3, <1>4, <1>6, NewPagesApart
<1>9. new.id < next_id
  BY <1>1, <1>3, <1>4, <1>6, StatementKinds DEF IdsBehind
<1>10. /\ handle[new.id].path = IndexPath(new.name) /\ file[IndexPath(new.name)].exists
       /\ Len(file[IndexPath(new.name)].pages) >= 2
  BY <1>1, <1>3, <1>4, <1>6 DEF StatementSound
<1>11. UNCHANGED <<file, power, known, next_id, handle, pool, rows, crashes, reused>>
  BY DEF RegisterIndex, history
<1>12. CASE \E x \in catalog.indexes : x.table = statement.table.name /\ x.name = statement.name
  <2>1. statement' = [statement EXCEPT !.step = "clean up"] /\ UNCHANGED <<catalog, saved>>
    BY <1>12 DEF RegisterIndex
  <2>2. /\ statement' \in IndexStatement /\ statement'.step = "clean up"
        /\ statement'.id = statement.id /\ statement'.name = statement.name
        /\ statement'.table = statement.table
    BY <1>4, <2>1 DEF IndexStatement
  <2>3. TypeOK' /\ MemoryMatches' /\ EntriesDistinct' /\ HandlesOpen'
    BY <1>1, <1>3, <1>11, <2>1, <2>2 DEF TypeOK, MemoryMatches, EntriesDistinct, HandlesOpen
  <2>4. IdsBehind'
    <3>1. statement # NoStatement
      BY <1>4, StatementKinds
    <3> QED BY <1>1, <1>3, <1>11, <2>1, <2>2, <3>1 DEF IdsBehind
  <2>5. StatementSound'
    BY <1>1, <1>3, <1>4, <1>11, <2>1, <2>2, StatementKinds DEF StatementSound
  <2>6. PoolOwned'
    BY <1>2, <1>3, <1>4, <1>11, <2>1, <2>2 DEF PoolOwned
  <2>7. CatalogNamesFiles' /\ RelationsKept' /\ RowsHaveTables'
    BY <1>2, <1>11, <2>1 DEF CatalogNamesFiles, HasItsFile, RelationsKept, RowsHaveTables, Undisturbed
  <2>8. NewIndexKept'
    BY <2>2 DEF NewIndexKept
  <2>9. HeapsClosed' /\ CleanRestartKeepsAll'
    BY <1>3, <1>11 DEF HeapsClosed, CleanRestartKeepsAll
  <2> QED BY <2>3, <2>4, <2>5, <2>6, <2>7, <2>8, <2>9 DEF CatalogInv
<1>13. CASE ~ \E x \in catalog.indexes : x.table = statement.table.name /\ x.name = statement.name
  <2>1. /\ saved' = [saved EXCEPT !.indexes = @ \cup {new}] /\ catalog' = saved'
        /\ statement' = NoStatement
    BY <1>3, <1>5, <1>13 DEF RegisterIndex
  <2>2. saved'.tables = saved.tables /\ saved'.indexes = saved.indexes \cup {new}
    BY <1>1, <2>1 DEF TypeOK
  <2>3. TypeOK'
    <3>1. saved' \in [tables : SUBSET TableEntry, indexes : SUBSET IndexEntry]
      BY <1>1, <1>7, <2>1 DEF TypeOK
    <3> QED BY <1>1, <2>1, <1>11, <3>1 DEF TypeOK
  <2>4. MemoryMatches'
    BY <1>1, <1>3, <2>1, <1>11, <2>2 DEF MemoryMatches
  <2>5. EntriesDistinct'
    BY <1>1, <1>6, <1>8, <1>11, <2>2 DEF EntriesDistinct
  <2>6. IdsBehind'
    BY <1>1, <1>3, <1>9, <2>1, <1>11, <2>2 DEF IdsBehind
  <2>7. HandlesOpen'
    BY <1>1, <1>3, <1>10, <1>11, <2>2 DEF HandlesOpen
  <2>8. StatementSound' /\ NewIndexKept'
    BY <2>1, StatementKinds DEF StatementSound, NewIndexKept
  <2>9. PoolOwned'
    BY <1>2, <1>6, <1>11, <2>2 DEF PoolOwned
  <2>10. CatalogNamesFiles'
    BY <1>2, <1>10, <1>11, <2>2 DEF CatalogNamesFiles, HasItsFile
  <2>11. RelationsKept'
    <3>1. ASSUME Undisturbed
          PROVE  TreeIn(pool, file, handle[new.id].num_pages, new.id, new.name, rows[new.table])
      BY <1>2, <1>3, <1>4, <1>6, <3>1 DEF NewIndexKept
    <3> QED BY <1>2, <1>3, <1>11, <2>2, <3>1 DEF RelationsKept, Undisturbed
  <2>12. RowsHaveTables'
    BY <1>2, <1>11, <2>2 DEF RowsHaveTables
  <2>13. HeapsClosed' /\ CleanRestartKeepsAll'
    BY <1>3, <1>11 DEF HeapsClosed, CleanRestartKeepsAll, Undisturbed
  <2> QED BY <2>3, <2>4, <2>5, <2>6, <2>7, <2>8, <2>9, <2>10, <2>11, <2>12, <2>13 DEF CatalogInv
<1> QED BY <1>12, <1>13

LEMMA CleanUpKeepsInv ==
    ASSUME CatalogInv, CleanUp
    PROVE  CatalogInv'
<1>1. TypeOK /\ MemoryMatches /\ EntriesDistinct /\ IdsBehind /\ HandlesOpen /\ StatementSound
  BY DEF CatalogInv
<1>2. PoolOwned /\ CatalogNamesFiles /\ RelationsKept /\ RowsHaveTables
  BY DEF CatalogInv
<1>3. power = "up" /\ statement.step = "clean up"
  BY DEF CleanUp
<1>4. statement \in IndexStatement
  BY <1>1, <1>3, EntryFields, StatementKinds DEF TypeOK
<1>5. PICK id, i : id = statement.id /\ i = statement.name
  OBVIOUS
<1>6. id \in RelationId /\ i \in IndexName /\ handle[id].path = IndexPath(i)
  BY <1>1, <1>4, <1>5, EntryFields DEF StatementSound
<1>7. /\ file' = [file EXCEPT ![IndexPath(i)] = NoFile]
      /\ handle' = [handle EXCEPT ![id] = Closed]
  BY <1>5, <1>6 DEF CleanUp, DestroyRelation
<1>8. pool' = Restrict(pool, DOMAIN pool \ PoolPagesOf(id))
  BY <1>5 DEF CleanUp, DestroyRelation
<1>9. UNCHANGED <<saved, power, catalog, known, next_id, rows, crashes, reused>> /\ statement' = NoStatement
  BY DEF CleanUp, history
<1>10. /\ DOMAIN pool' = {p \in DOMAIN pool : p[1] # id}
       /\ \A p \in DOMAIN pool' : pool'[p] = pool[p]
  BY <1>8 DEF Restrict, PoolPagesOf
<1>11. /\ \A e \in saved.tables : e.id # id
       /\ \A x \in saved.indexes : x.id # id /\ (x.name = i => x.name \in reused)
  BY <1>1, <1>3, <1>4, <1>5, NewPagesApart
<1>12. /\ \A e \in saved.tables : /\ handle'[e.id] = handle[e.id]
                                  /\ file'[HeapPath(e.name)] = file[HeapPath(e.name)]
       /\ \A x \in saved.indexes : /\ handle'[x.id] = handle[x.id]
                                   /\ x.name \notin reused =>
                                          file'[IndexPath(x.name)] = file[IndexPath(x.name)]
  BY <1>1, <1>7, <1>11, TypedEntries, PathsApart DEF TypeOK
<1>13. \A p : p[1] # id => SamePage(p)
  BY <1>10 DEF SamePage
<1>14. /\ \A e \in saved.tables : SamePage(<<e.id, 0>>)
       /\ \A x \in saved.indexes : \A p \in TreePages(x.id) : SamePage(p)
  BY <1>11, <1>13, PageIds
<1>15. HandlesOpen' /\ CatalogNamesFiles' /\ RelationsKept' /\ RowsHaveTables'
  BY <1>1, <1>2, <1>9, <1>12, <1>14, OthersStay
<1>16. TypeOK'
  <2>1. NoFile \in [exists : BOOLEAN, pages : Seq(Image)]
    BY DEF NoFile
  <2>2. file' \in [Path -> [exists : BOOLEAN, pages : Seq(Image)]]
    BY <1>1, <1>7, <2>1 DEF TypeOK
  <2>3. handle' \in [RelationId -> [path : Path \cup {<<>>}, num_pages : Nat]]
    BY <1>1, <1>6, <1>7 DEF TypeOK, Closed
  <2>4. \A p \in DOMAIN pool' : pool'[p] \in Image
    BY <1>1, <1>10 DEF TypeOK
  <2> QED BY <1>1, <1>9, <2>2, <2>3, <2>4 DEF TypeOK
<1>17. MemoryMatches' /\ EntriesDistinct'
  BY <1>1, <1>3, <1>9 DEF MemoryMatches, EntriesDistinct
<1>18. IdsBehind'
  BY <1>1, <1>3, <1>9 DEF IdsBehind
<1>19. StatementSound' /\ NewIndexKept'
  BY <1>9, StatementKinds DEF StatementSound, NewIndexKept
<1>20. PoolOwned'
  <2>1. ASSUME NEW p \in DOMAIN pool'
        PROVE  \/ \E e \in saved.tables : p = <<e.id, 0>>
               \/ \E x \in saved.indexes : p \in TreePages(x.id)
    <3>1. p \in DOMAIN pool /\ p[1] # id
      BY <1>10
    <3>2. p \notin TreePages(statement.id)
      BY <1>5, <3>1, PageIds
    <3> QED BY <1>2, <3>1, <3>2 DEF PoolOwned
  <2> QED BY <1>9, <2>1 DEF PoolOwned
<1>21. HeapsClosed' /\ CleanRestartKeepsAll'
  BY <1>3, <1>9 DEF HeapsClosed, CleanRestartKeepsAll, Undisturbed
<1> QED BY <1>15, <1>16, <1>17, <1>18, <1>19, <1>20, <1>21 DEF CatalogInv

-----------------------------------------------------------------------------
(* INSERT keeps the invariant.                                             *)

LEMMA InsertTupleKeepsInv ==
    ASSUME CatalogInv, NEW t \in catalog.tables, NEW r \in Row, InsertTuple(t, r)
    PROVE  CatalogInv'
<1>1. TypeOK /\ MemoryMatches /\ EntriesDistinct /\ IdsBehind /\ HandlesOpen
  BY DEF CatalogInv
<1>2. PoolOwned /\ CatalogNamesFiles /\ RelationsKept /\ RowsHaveTables
  BY DEF CatalogInv
<1>3. power = "up" /\ statement = NoStatement /\ catalog = saved /\ t \in saved.tables
  BY <1>1 DEF InsertTuple, Idle, MemoryMatches
<1>4. /\ t.id \in RelationId /\ t.name \in TableName /\ handle[t.id].path = HeapPath(t.name)
      /\ handle[t.id].num_pages <= Len(file[HeapPath(t.name)].pages)
  BY <1>1, <1>3, TypedEntries DEF HandlesOpen
<1>5. PICK f : f = file[HeapPath(t.name)]
  OBVIOUS
<1>6. f \in [exists : BOOLEAN, pages : Seq(Image)] /\ handle[t.id].num_pages \in Nat
  BY <1>1, <1>4, <1>5, PathsApart DEF TypeOK
<1>7. PICK heap, H, leaves :
          /\ heap = <<t.id, 0>> /\ H = HeapRows(t.id)
          /\ leaves = {<<x.id, 1>> : x \in IndexesOn(t)}
  OBVIOUS
<1>8. file' = IF handle[t.id].num_pages = 0 THEN [file EXCEPT ![HeapPath(t.name)] = File(<<Zero>>)]
              ELSE file
  BY <1>4 DEF InsertTuple
<1>9. handle' = [handle EXCEPT ![t.id].num_pages = 1]
  BY DEF InsertTuple
<1>10. pool' = Put(heap, Rows({r} \cup H),
                   [p \in leaves \cup DOMAIN pool |->
                       IF p \in leaves THEN Rows({r} \cup PageOf(p[1], p[2]).rows) ELSE pool[p]])
  BY <1>7 DEF InsertTuple
<1>11. rows' = [rows EXCEPT ![t.name] = @ \cup {r}]
  BY DEF InsertTuple
<1>12. UNCHANGED <<saved, power, catalog, known, next_id, statement, crashes, reused>>
  BY DEF InsertTuple, history
<1>13. H \in SUBSET Row /\ (Undisturbed => H = rows[t.name])
  BY <1>1, <1>2, <1>3, <1>7, HeapScan
<1>14. /\ DOMAIN pool' = {heap} \cup leaves \cup DOMAIN pool
       /\ pool'[heap] = Rows({r} \cup H)
       /\ \A p \in leaves : p # heap => pool'[p] = Rows({r} \cup PageOf(p[1], p[2]).rows)
       /\ \A p \in DOMAIN pool : p # heap /\ p \notin leaves => pool'[p] = pool[p]
  BY <1>10 DEF Put
<1>15. ASSUME NEW x \in saved.indexes
       PROVE  /\ x.id \in RelationId /\ x.name \in IndexName /\ x.id # t.id
              /\ PageOf(x.id, 1) = PageIn(pool, file, x.id, IndexPath(x.name), 1)
              /\ x.table = t.name => PageOf(x.id, 1).rows \in SUBSET Row
              /\ <<x.id, 0>> # heap /\ <<x.id, 1>> # heap /\ <<x.id, 0>> \notin leaves
              /\ <<x.id, 1>> \in leaves => x.table = t.name
              /\ x.table = t.name =>
                     /\ <<x.id, 1>> \in leaves
                     /\ pool'[<<x.id, 1>>] = Rows({r} \cup PageOf(x.id, 1).rows)
  <2>1. x.id \in RelationId /\ x.name \in IndexName /\ x.id # t.id
    BY <1>1, <1>3, TypedEntries DEF EntriesDistinct
  <2>2. PageOf(x.id, 1) = PageIn(pool, file, x.id, IndexPath(x.name), 1)
    BY <1>1, <1>3, PageOfIs DEF HandlesOpen
  <2>3. ASSUME x.table = t.name PROVE PageIn(pool, file, x.id, IndexPath(x.name), 1) \in Image
    <3>0. x.name \notin reused
      BY <1>3, <2>3 DEF InsertTuple, IndexesOn
    <3>1. /\ file[IndexPath(x.name)].pages \in Seq(Image)
          /\ Len(file[IndexPath(x.name)].pages) >= 2
      BY <1>1, <1>2, <2>1, <3>0, PathsApart DEF TypeOK, CatalogNamesFiles, HasItsFile
    <3>2. file[IndexPath(x.name)].pages[1 + 1] \in Image
      BY <3>1
    <3> QED BY <1>1, <3>2 DEF PageIn, TypeOK
  <2>4. x.table = t.name => PageOf(x.id, 1).rows \in SUBSET Row
    BY <2>2, <2>3, Images
  <2>5. <<x.id, 0>> # heap /\ <<x.id, 1>> # heap /\ <<x.id, 0>> \notin leaves
    BY <1>7, <2>1
  <2>6. ASSUME <<x.id, 1>> \in leaves PROVE x.table = t.name
    <3>1. PICK y \in saved.indexes : y.table = t.name /\ <<x.id, 1>> = <<y.id, 1>>
      BY <1>3, <1>7, <2>6 DEF IndexesOn
    <3> QED BY <1>1, <3>1 DEF EntriesDistinct
  <2>7. ASSUME x.table = t.name
        PROVE  /\ <<x.id, 1>> \in leaves
               /\ pool'[<<x.id, 1>>] = Rows({r} \cup PageOf(x.id, 1).rows)
    <3>1. <<x.id, 1>> \in leaves
      BY <1>3, <1>7, <2>7 DEF IndexesOn
    <3> QED BY <1>14, <2>5, <3>1
  <2> QED BY <2>1, <2>2, <2>4, <2>5, <2>6, <2>7
<1>16. /\ file'[HeapPath(t.name)].exists
       /\ file'[HeapPath(t.name)].pages \in Seq(Image)
       /\ Len(file'[HeapPath(t.name)].pages) =
              IF handle[t.id].num_pages = 0 THEN 1 ELSE Len(f.pages)
       /\ Len(file'[HeapPath(t.name)].pages) >= 1
  <2>1. CASE handle[t.id].num_pages = 0
    <3>1. file'[HeapPath(t.name)] = File(<<Zero>>)
      BY <1>1, <1>4, <1>8, <2>1, PathsApart DEF TypeOK
    <3>2. File(<<Zero>>).exists /\ File(<<Zero>>).pages = <<Zero>>
      BY DEF File
    <3>3. <<Zero>> \in Seq(Image) /\ Len(<<Zero>>) = 1
      BY Images
    <3>4. file'[HeapPath(t.name)].exists /\ file'[HeapPath(t.name)].pages = <<Zero>>
      BY <3>1, <3>2, Zenon
    <3>5. Len(file'[HeapPath(t.name)].pages) = 1
      BY <3>3, <3>4, Zenon
    <3> QED BY <2>1, <3>3, <3>4, <3>5
  <2>2. CASE handle[t.id].num_pages # 0
    BY <1>2, <1>3, <1>4, <1>5, <1>6, <1>8, <2>2 DEF CatalogNamesFiles
  <2> QED BY <2>1, <2>2
<1>17. \A path \in Path : path # HeapPath(t.name) => file'[path] = file[path]
  BY <1>1, <1>8 DEF TypeOK
<1>18. /\ handle'[t.id].path = HeapPath(t.name) /\ handle'[t.id].num_pages = 1
       /\ \A id \in RelationId : id # t.id => handle'[id] = handle[id]
  BY <1>1, <1>4, <1>9 DEF TypeOK
<1>19. /\ rows'[t.name] = {r} \cup rows[t.name]
       /\ \A u \in TableName : u # t.name => rows'[u] = rows[u]
  BY <1>1, <1>4, <1>11 DEF TypeOK
<1>20. \A e \in saved.tables : e # t => /\ e.id # t.id /\ e.name # t.name
                                        /\ e.id \in RelationId /\ e.name \in TableName
                                        /\ HeapPath(e.name) \in Path /\ HeapPath(e.name) # HeapPath(t.name)
                                        /\ <<e.id, 0>> # heap /\ <<e.id, 0>> \notin leaves
  BY <1>1, <1>3, <1>7, TypedEntries, PathsApart DEF EntriesDistinct
<1>21. TypeOK'
  <2>1. file' \in [Path -> [exists : BOOLEAN, pages : Seq(Image)]]
    <3>1. File(<<Zero>>) \in [exists : BOOLEAN, pages : Seq(Image)]
      BY Images DEF File
    <3> QED BY <1>1, <1>8, <3>1 DEF TypeOK
  <2>2. handle' \in [RelationId -> [path : Path \cup {<<>>}, num_pages : Nat]]
    BY <1>1, <1>4, <1>9 DEF TypeOK
  <2>3. rows' \in [TableName -> SUBSET Row]
    BY <1>1, <1>4, <1>11 DEF TypeOK
  <2>4. ASSUME NEW p \in DOMAIN pool' PROVE pool'[p] \in Image
    <3>1. CASE p = heap
      <4>1. {r} \cup H \in SUBSET Row
        BY <1>13
      <4> QED BY <1>14, <3>1, <4>1, Images
    <3>2. CASE p # heap /\ p \in leaves
      <4>1. PICK x \in saved.indexes : p = <<x.id, 1>> /\ x.table = t.name
        BY <1>3, <1>7, <3>2 DEF IndexesOn
      <4>2. pool'[p] = Rows({r} \cup PageOf(x.id, 1).rows) /\ PageOf(x.id, 1).rows \in SUBSET Row
        BY <1>15, <4>1
      <4>3. {r} \cup PageOf(x.id, 1).rows \in SUBSET Row
        BY <4>2
      <4> QED BY <4>2, <4>3, Images
    <3>3. CASE p # heap /\ p \notin leaves
      BY <1>1, <1>14, <3>3 DEF TypeOK
    <3> QED BY <3>1, <3>2, <3>3
  <2> QED BY <1>1, <1>12, <2>1, <2>2, <2>3, <2>4 DEF TypeOK
<1>22. MemoryMatches' /\ EntriesDistinct' /\ IdsBehind'
  BY <1>1, <1>3, <1>12 DEF MemoryMatches, EntriesDistinct, IdsBehind
<1>23. HandlesOpen'
  <2>1. ASSUME NEW e \in saved.tables
        PROVE  /\ handle'[e.id].path = HeapPath(e.name)
               /\ handle'[e.id].num_pages <= Len(file'[HeapPath(e.name)].pages)
               /\ <<e.id, 0>> \in DOMAIN pool' => Len(file'[HeapPath(e.name)].pages) >= 1
    <3>1. CASE e = t
      BY <1>16, <1>18, <3>1
    <3>2. CASE e # t
      <4>1. /\ handle[e.id].path = HeapPath(e.name)
            /\ handle[e.id].num_pages <= Len(file[HeapPath(e.name)].pages)
            /\ <<e.id, 0>> \in DOMAIN pool => Len(file[HeapPath(e.name)].pages) >= 1
        BY <1>1, <1>3 DEF HandlesOpen
      <4>2. /\ handle'[e.id] = handle[e.id] /\ file'[HeapPath(e.name)] = file[HeapPath(e.name)]
            /\ <<e.id, 0>> \in DOMAIN pool' => <<e.id, 0>> \in DOMAIN pool
        BY <1>14, <1>17, <1>18, <1>20, <3>2
      <4> QED BY <4>1, <4>2
    <3> QED BY <3>1, <3>2
  <2>2. \A x \in saved.indexes : handle'[x.id].path = IndexPath(x.name)
    BY <1>1, <1>3, <1>15, <1>18 DEF HandlesOpen
  <2> QED BY <1>12, <2>1, <2>2 DEF HandlesOpen
<1>24. StatementSound' /\ NewIndexKept'
  BY <1>3, <1>12, StatementKinds DEF StatementSound, NewIndexKept
<1>25. PoolOwned'
  <2>1. ASSUME NEW p \in DOMAIN pool'
        PROVE  \/ \E e \in saved.tables : p = <<e.id, 0>>
               \/ \E x \in saved.indexes : p \in TreePages(x.id)
    <3>1. CASE p = heap
      BY <1>3, <1>7, <3>1
    <3>2. CASE p \in leaves
      <4>1. PICK x \in saved.indexes : p = <<x.id, 1>>
        BY <1>3, <1>7, <3>2 DEF IndexesOn
      <4> QED BY <4>1 DEF TreePages
    <3>3. CASE p \in DOMAIN pool
      BY <1>2, <1>3, <3>3, StatementKinds DEF PoolOwned
    <3> QED BY <1>14, <3>1, <3>2, <3>3
  <2> QED BY <1>12, <2>1 DEF PoolOwned
<1>26. CatalogNamesFiles'
  <2>1. \A e \in saved.tables : file'[HeapPath(e.name)].exists
    BY <1>2, <1>16, <1>17, <1>20 DEF CatalogNamesFiles
  <2>2. \A x \in saved.indexes : file'[IndexPath(x.name)] = file[IndexPath(x.name)]
    BY <1>15, <1>17, PathsApart
  <2> QED BY <1>2, <1>12, <2>1, <2>2 DEF CatalogNamesFiles, HasItsFile
<1>27. RelationsKept'
  <2>1. ASSUME Undisturbed, NEW e \in saved.tables
        PROVE  HeapIn(pool', file', handle'[e.id].num_pages, e.id, e.name, rows'[e.name])
    <3>1. HeapIn(pool, file, handle[e.id].num_pages, e.id, e.name, rows[e.name])
      BY <1>2, <1>3, <2>1 DEF RelationsKept
    <3>2. CASE e = t
      <4>1. Len(file'[HeapPath(t.name)].pages) = 1
        BY <1>5, <1>16, <3>1, <3>2 DEF HeapIn
      <4>2. pool'[<<t.id, 0>>] = Rows(rows'[t.name]) /\ <<t.id, 0>> \in DOMAIN pool'
        BY <1>7, <1>13, <1>14, <1>19, <2>1
      <4> QED BY <1>18, <3>2, <4>1, <4>2 DEF HeapIn, PageIn
    <3>3. CASE e # t
      <4>1. /\ file'[HeapPath(e.name)] = file[HeapPath(e.name)]
            /\ <<e.id, 0>> \in DOMAIN pool' <=> <<e.id, 0>> \in DOMAIN pool
            /\ <<e.id, 0>> \in DOMAIN pool => pool'[<<e.id, 0>>] = pool[<<e.id, 0>>]
        BY <1>14, <1>17, <1>20, <3>3
      <4>2. HeapIn(pool', file', handle[e.id].num_pages, e.id, e.name, rows[e.name])
        BY <3>1, <4>1, HeapStays
      <4> QED BY <1>18, <1>19, <1>20, <3>3, <4>2
    <3> QED BY <3>2, <3>3
  <2>2. ASSUME Undisturbed, NEW x \in saved.indexes
        PROVE  TreeIn(pool', file', handle'[x.id].num_pages, x.id, x.name, rows'[x.table])
    <3>1. TreeIn(pool, file, handle[x.id].num_pages, x.id, x.name, rows[x.table])
      BY <1>2, <1>3, <2>2 DEF RelationsKept
    <3>2. /\ file'[IndexPath(x.name)] = file[IndexPath(x.name)] /\ handle'[x.id] = handle[x.id]
          /\ <<x.id, 0>> \in DOMAIN pool' <=> <<x.id, 0>> \in DOMAIN pool
          /\ <<x.id, 0>> \in DOMAIN pool => pool'[<<x.id, 0>>] = pool[<<x.id, 0>>]
      BY <1>14, <1>15, <1>17, <1>18, PathsApart
    <3>3. PageIn(pool', file', x.id, IndexPath(x.name), 0) = Meta
      BY <3>1, <3>2 DEF TreeIn, PageIn
    <3>4. PageIn(pool', file', x.id, IndexPath(x.name), 1) = Rows(rows'[x.table])
      <4>1. CASE x.table = t.name
        <5>1. <<x.id, 1>> \in DOMAIN pool'
          BY <1>14, <1>15, <4>1
        <5>2. PageOf(x.id, 1).rows = rows[t.name]
          BY <1>15, <3>1, <4>1, Images DEF TreeIn
        <5>3. pool'[<<x.id, 1>>] = Rows(rows'[x.table])
          BY <1>15, <1>19, <4>1, <5>2
        <5> QED BY <5>1, <5>3 DEF PageIn
      <4>2. CASE x.table # t.name
        <5>1. /\ <<x.id, 1>> \in DOMAIN pool' <=> <<x.id, 1>> \in DOMAIN pool
              /\ <<x.id, 1>> \in DOMAIN pool => pool'[<<x.id, 1>>] = pool[<<x.id, 1>>]
          BY <1>14, <1>15, <4>2
        <5>2. rows'[x.table] = rows[x.table]
          BY <1>1, <1>19, <4>2, TypedEntries
        <5> QED BY <3>1, <3>2, <5>1, <5>2 DEF TreeIn, PageIn
      <4> QED BY <4>1, <4>2
    <3> QED BY <3>1, <3>2, <3>3, <3>4 DEF TreeIn
  <2> QED BY <1>12, <2>1, <2>2 DEF RelationsKept, Undisturbed
<1>28. RowsHaveTables'
  BY <1>2, <1>3, <1>12, <1>19 DEF RowsHaveTables
<1>29. HeapsClosed' /\ CleanRestartKeepsAll'
  BY <1>3, <1>12 DEF HeapsClosed, CleanRestartKeepsAll, Undisturbed
<1> QED BY <1>21, <1>22, <1>23, <1>24, <1>25, <1>26, <1>27, <1>28, <1>29 DEF CatalogInv

-----------------------------------------------------------------------------
(* Write-back keeps the invariant.                                         *)

\* The relation with this id is open on the file with this path.
OpenAs(id, path) ==
    \/ \E e \in saved.tables : id = e.id /\ path = HeapPath(e.name)
    \/ \E x \in saved.indexes : id = x.id /\ path = IndexPath(x.name)
    \/ /\ statement \in IndexStatement /\ statement.step # "initialize"
       /\ id = statement.id /\ path = IndexPath(statement.name)

LEMMA OpenRelations ==
    ASSUME CatalogInv, power = "up", NEW id, NEW path, OpenAs(id, path)
    PROVE  /\ id \in RelationId /\ path \in Path /\ handle[id].path = path
           /\ \A t : path = HeapPath(t) => \E e \in saved.tables : id = e.id /\ t = e.name
<1>1. TypeOK /\ HandlesOpen /\ StatementSound
  BY DEF CatalogInv
<1>2. \A e \in saved.tables : /\ e.id \in RelationId /\ HeapPath(e.name) \in Path
                              /\ handle[e.id].path = HeapPath(e.name)
  BY <1>1, TypedEntries, PathsApart DEF HandlesOpen
<1>3. \A x \in saved.indexes : /\ x.id \in RelationId /\ IndexPath(x.name) \in Path
                               /\ handle[x.id].path = IndexPath(x.name)
  BY <1>1, TypedEntries, PathsApart DEF HandlesOpen
<1>4. statement \in IndexStatement =>
          /\ statement.id \in RelationId /\ IndexPath(statement.name) \in Path
          /\ handle[statement.id].path = IndexPath(statement.name)
  BY <1>1, EntryFields, PathsApart DEF StatementSound
<1> QED BY <1>2, <1>3, <1>4, PathsApart DEF OpenAs

(* With no name taken twice, every open relation has a file, for itself.   *)
LEMMA OpenApart ==
    ASSUME CatalogInv, power = "up", reused = {}
    PROVE  /\ \A id, path : OpenAs(id, path) => file[path].exists
           /\ \A id, path, id2, path2 :
                  OpenAs(id, path) /\ OpenAs(id2, path2) => (id = id2 <=> path = path2)
<1>1. TypeOK /\ EntriesDistinct /\ IdsBehind /\ HandlesOpen /\ StatementSound /\ CatalogNamesFiles
  BY DEF CatalogInv
<1>2. \A id, path : OpenAs(id, path) => handle[id].path = path
  BY OpenRelations
<1>3. ASSUME NEW id, NEW path, NEW id2, NEW path2, OpenAs(id, path), OpenAs(id2, path2),
             path = path2
      PROVE  id = id2
  <2>1. CASE \E e \in saved.tables : id = e.id /\ path = HeapPath(e.name)
    BY <1>1, <1>3, <2>1, PathsApart DEF OpenAs, EntriesDistinct
  <2>2. CASE \E x \in saved.indexes : id = x.id /\ path = IndexPath(x.name)
    BY <1>1, <1>3, <2>2, PathsApart DEF OpenAs, EntriesDistinct, StatementSound
  <2>3. CASE /\ statement \in IndexStatement /\ statement.step # "initialize"
             /\ id = statement.id /\ path = IndexPath(statement.name)
    BY <1>1, <1>3, <2>3, PathsApart DEF OpenAs, StatementSound
  <2> QED BY <1>3, <2>1, <2>2, <2>3 DEF OpenAs
<1>4. \A id, path, id2, path2 : OpenAs(id, path) /\ OpenAs(id2, path2) /\ id = id2 => path = path2
  BY <1>2
<1>5. \A id, path : OpenAs(id, path) => file[path].exists
  BY <1>1 DEF OpenAs, CatalogNamesFiles, HasItsFile, StatementSound
<1> QED BY <1>3, <1>4, <1>5

(* Every page in the pool belongs to an open relation and, with no name    *)
(* taken twice, has its place in the file.                                 *)
LEMMA PagesHavePlaces ==
    ASSUME CatalogInv, power = "up", NEW p \in DOMAIN pool
    PROVE  \E id, path, no : /\ OpenAs(id, path) /\ p = <<id, no>> /\ no \in 0 .. 1
                             /\ reused = {} => no + 1 <= Len(file[path].pages)
<1>1. HandlesOpen /\ StatementSound /\ CatalogNamesFiles /\ PoolOwned
  BY DEF CatalogInv
<1>2. CASE \E e \in saved.tables : p = <<e.id, 0>>
  <2>1. PICK e \in saved.tables : p = <<e.id, 0>>
    BY <1>2
  <2>2. OpenAs(e.id, HeapPath(e.name)) /\ Len(file[HeapPath(e.name)].pages) >= 0 + 1
    BY <1>1, <2>1 DEF OpenAs, HandlesOpen
  <2>3. 0 + 1 <= Len(file[HeapPath(e.name)].pages) /\ 0 \in 0 .. 1
    BY <2>2
  <2> QED BY <2>1, <2>2, <2>3
<1>3. CASE \E x \in saved.indexes : p \in TreePages(x.id)
  <2>1. PICK x \in saved.indexes : p \in TreePages(x.id)
    BY <1>3
  <2>2. /\ OpenAs(x.id, IndexPath(x.name))
        /\ reused = {} => Len(file[IndexPath(x.name)].pages) >= 2
    BY <1>1, <2>1 DEF OpenAs, CatalogNamesFiles, HasItsFile
  <2>3. PICK no \in 0 .. 1 : p = <<x.id, no>>
    BY <2>1 DEF TreePages
  <2>4. reused = {} => no + 1 <= Len(file[IndexPath(x.name)].pages)
    BY <2>2, <2>3
  <2> QED BY <2>2, <2>3, <2>4
<1>4. CASE /\ statement \in IndexStatement /\ statement.step # "initialize"
           /\ p \in TreePages(statement.id)
  <2>1. PICK id, i : id = statement.id /\ i = statement.name
    OBVIOUS
  <2>2. OpenAs(id, IndexPath(i)) /\ Len(file[IndexPath(i)].pages) >= 2
    BY <1>1, <1>4, <2>1 DEF OpenAs, StatementSound
  <2>3. PICK no \in 0 .. 1 : p = <<id, no>>
    BY <1>4, <2>1 DEF TreePages
  <2>4. no + 1 <= Len(file[IndexPath(i)].pages)
    BY <2>2, <2>3
  <2> QED BY <2>2, <2>3, <2>4
<1> QED BY <1>1, <1>2, <1>3, <1>4 DEF PoolOwned

(* A page is written in its place, behind the others if it has none yet.   *)
LEMMA WrittenInPlace ==
    ASSUME NEW old \in Seq(Image), NEW no \in Nat, NEW image \in Image
    PROVE  \E pages \in Seq(Image) :
               /\ Written(File(old), no, image) = File(pages)
               /\ Len(pages) >= Len(old)
               /\ no + 1 <= Len(old) =>
                      /\ Len(pages) = Len(old) /\ pages[no + 1] = image
                      /\ \A m \in Nat : m + 1 <= Len(old) /\ m # no => pages[m + 1] = old[m + 1]
<1>1. PICK k \in Nat : k = Len(old)
  OBVIOUS
<1>2. PICK n : n = Max({k, no + 1})
  OBVIOUS
<1>3. n \in Nat /\ n >= k /\ n >= no + 1 /\ (no + 1 <= k => n = k)
  <2>1. PICK S, b : S = {k, no + 1} /\ b = k + no + 1
    OBVIOUS
  <2>2. b \in Nat /\ S \subseteq 0 .. b /\ S # {} /\ k \in S /\ no + 1 \in S
    BY <1>1, <2>1
  <2>3. Max(S) \in S /\ \A m \in S : m <= Max(S)
    BY <2>2, MaxOfBounded
  <2>4. n \in S /\ \A m \in S : m <= n
    BY <1>2, <2>1, <2>3
  <2> QED BY <1>1, <2>1, <2>2, <2>4
<1>4. PICK pages : pages = [m \in 1 .. n |-> IF m = no + 1 THEN image
                                             ELSE IF m <= k THEN old[m] ELSE Zero]
  OBVIOUS
<1>5. Written(File(old), no, image) = File(pages)
  <2>1. PICK f : f = File(old)
    OBVIOUS
  <2>2. f.pages = old
    BY <2>1 DEF File
  <2>3. Written(f, no, image) = File(pages)
    BY <1>1, <1>2, <1>4, <2>2, Zenon DEF Written
  <2> QED BY <2>1, <2>3
<1>6. pages \in Seq(Image) /\ Len(pages) = n
  <2>1. \A m \in 1 .. k : old[m] \in Image
    BY <1>1
  <2>2. Zero \in Image
    BY Images
  <2>3. \A m \in 1 .. n : m <= k => m \in 1 .. k
    BY <1>1, <1>3
  <2>4. pages \in [1 .. n -> Image]
    BY <1>4, <2>1, <2>2, <2>3
  <2> QED BY <1>3, <2>4
<1>7. no + 1 <= k =>
          /\ pages[no + 1] = image
          /\ \A m \in Nat : m + 1 <= k /\ m # no => pages[m + 1] = old[m + 1]
  BY <1>1, <1>3, <1>4
<1> QED BY <1>1, <1>3, <1>5, <1>6, <1>7

(* Moving pages from the pool to their files changes nothing else.         *)
LEMMA ContentsStay ==
    ASSUME CatalogInv, power = "up", TypeOK',
           UNCHANGED <<saved, power, catalog, known, next_id, handle, statement, rows, crashes, reused>>,
           DOMAIN pool' \subseteq DOMAIN pool,
           statement \in TableStatement =>
               file'[HeapPath(statement.table)] = file[HeapPath(statement.table)],
           \A path \in Path : file[path].exists =>
               file'[path].exists /\ Len(file'[path].pages) >= Len(file[path].pages),
           reused = {} => \A id, path : OpenAs(id, path) =>
               /\ Len(file'[path].pages) = Len(file[path].pages)
               /\ \A m \in Nat : m + 1 <= Len(file[path].pages) =>
                      PageIn(pool', file', id, path, m) = PageIn(pool, file, id, path, m)
    PROVE  CatalogInv'
<1>1. TypeOK /\ MemoryMatches /\ EntriesDistinct /\ IdsBehind /\ HandlesOpen /\ StatementSound
  BY DEF CatalogInv
<1>2. PoolOwned /\ CatalogNamesFiles /\ RelationsKept /\ RowsHaveTables /\ NewIndexKept
  BY DEF CatalogInv
<1>3. /\ \A e \in saved.tables : OpenAs(e.id, HeapPath(e.name))
      /\ \A x \in saved.indexes : OpenAs(x.id, IndexPath(x.name))
      /\ statement \in IndexStatement /\ statement.step # "initialize" =>
             OpenAs(statement.id, IndexPath(statement.name))
  BY DEF OpenAs
<1>4. /\ MemoryMatches' /\ EntriesDistinct' /\ IdsBehind' /\ RowsHaveTables'
      /\ HeapsClosed' /\ CleanRestartKeepsAll'
  BY <1>1, <1>2 DEF MemoryMatches, EntriesDistinct, IdsBehind, RowsHaveTables,
     HeapsClosed, CleanRestartKeepsAll, Undisturbed
<1>5. HandlesOpen' /\ CatalogNamesFiles'
  <2>1. ASSUME NEW path \in Path, file[path].exists
        PROVE  \E n \in Nat, k \in Nat : /\ n = Len(file[path].pages) /\ k = Len(file'[path].pages)
                                         /\ k >= n
    <3>1. file[path].pages \in Seq(Image) /\ file'[path].pages \in Seq(Image)
      BY <1>1 DEF TypeOK
    <3>2. Len(file[path].pages) \in Nat /\ Len(file'[path].pages) \in Nat
      BY <3>1
    <3> QED BY <2>1, <3>2
  <2>2. ASSUME NEW e \in saved.tables
        PROVE  /\ file'[HeapPath(e.name)].exists
               /\ handle[e.id].path = HeapPath(e.name)
               /\ handle[e.id].num_pages <= Len(file'[HeapPath(e.name)].pages)
               /\ <<e.id, 0>> \in DOMAIN pool' => Len(file'[HeapPath(e.name)].pages) >= 1
    <3>1. HeapPath(e.name) \in Path /\ e.id \in RelationId /\ file[HeapPath(e.name)].exists
      BY <1>1, <1>2, TypedEntries, PathsApart DEF CatalogNamesFiles
    <3>2. PICK n \in Nat, k \in Nat : /\ n = Len(file[HeapPath(e.name)].pages)
                                      /\ k = Len(file'[HeapPath(e.name)].pages) /\ k >= n
      BY <2>1, <3>1
    <3>3. PICK h \in Nat : h = handle[e.id].num_pages
      BY <1>1, <3>1 DEF TypeOK
    <3>4. /\ handle[e.id].path = HeapPath(e.name) /\ h <= n
          /\ <<e.id, 0>> \in DOMAIN pool => n >= 1
      BY <1>1, <3>2, <3>3 DEF HandlesOpen
    <3>5. h <= k /\ (<<e.id, 0>> \in DOMAIN pool' => k >= 1)
      BY <3>2, <3>3, <3>4
    <3> QED BY <3>1, <3>2, <3>3, <3>4, <3>5
  <2>3. ASSUME NEW x \in saved.indexes, x.name \notin reused
        PROVE  file'[IndexPath(x.name)].exists /\ Len(file'[IndexPath(x.name)].pages) >= 2
    <3>1. /\ IndexPath(x.name) \in Path /\ file[IndexPath(x.name)].exists
          /\ Len(file[IndexPath(x.name)].pages) >= 2
      BY <1>1, <1>2, <2>3, TypedEntries, PathsApart DEF CatalogNamesFiles, HasItsFile
    <3> QED BY <2>1, <3>1
  <2>4. HandlesOpen'
    BY <1>1, <2>2 DEF HandlesOpen
  <2> QED BY <2>2, <2>3, <2>4 DEF CatalogNamesFiles, HasItsFile
<1>6. StatementSound'
  <2>1. ASSUME statement \in IndexStatement, statement.step # "initialize"
        PROVE  /\ file'[IndexPath(statement.name)].exists
               /\ Len(file'[IndexPath(statement.name)].pages) >= 2
    <3>1. PICK path \in Path : path = IndexPath(statement.name)
      BY <2>1, EntryFields, PathsApart
    <3>2. file[path].exists /\ Len(file[path].pages) >= 2
      BY <1>1, <2>1, <3>1 DEF StatementSound
    <3>3. Len(file[path].pages) \in Nat /\ Len(file'[path].pages) \in Nat
      BY <1>1 DEF TypeOK
    <3> QED BY <3>1, <3>2, <3>3
  <2> QED BY <1>1, <2>1 DEF StatementSound
<1>7. PoolOwned'
  BY <1>2 DEF PoolOwned
<1>8. ASSUME reused = {}, NEW id, NEW i, NEW n, NEW S, OpenAs(id, IndexPath(i)), TreeIn(pool, file, n, id, i, S)
      PROVE  TreeIn(pool', file', n, id, i, S)
  <2>1. /\ n = 2 /\ Len(file[IndexPath(i)].pages) = 2
        /\ PageIn(pool, file, id, IndexPath(i), 0) = Meta
        /\ PageIn(pool, file, id, IndexPath(i), 1) = Rows(S)
    BY <1>8 DEF TreeIn
  <2>2. /\ Len(file'[IndexPath(i)].pages) = 2
        /\ PageIn(pool', file', id, IndexPath(i), 0) = PageIn(pool, file, id, IndexPath(i), 0)
        /\ PageIn(pool', file', id, IndexPath(i), 1) = PageIn(pool, file, id, IndexPath(i), 1)
    <3>1. /\ Len(file'[IndexPath(i)].pages) = 2
          /\ \A m \in Nat : m + 1 <= 2 =>
                 PageIn(pool', file', id, IndexPath(i), m) = PageIn(pool, file, id, IndexPath(i), m)
      BY <1>8, <2>1, Zenon
    <3>2. 0 \in Nat /\ 1 \in Nat /\ 0 + 1 <= 2 /\ 1 + 1 <= 2
      OBVIOUS
    <3> QED BY <3>1, <3>2, Zenon
  <2> QED BY <2>1, <2>2 DEF TreeIn
<1>9. ASSUME reused = {}, NEW e \in saved.tables, NEW n, NEW S, HeapIn(pool, file, n, e.id, e.name, S)
      PROVE  HeapIn(pool', file', n, e.id, e.name, S)
  <2>1. OpenAs(e.id, HeapPath(e.name)) /\ HeapPath(e.name) \in Path
    BY <1>1, <1>3, TypedEntries, PathsApart
  <2>2. /\ Len(file'[HeapPath(e.name)].pages) = Len(file[HeapPath(e.name)].pages)
        /\ file'[HeapPath(e.name)].pages \in Seq(Image)
    BY <1>9, <2>1 DEF TypeOK
  <2>3. CASE n = 0
    <3>1. file[HeapPath(e.name)].pages = <<>> /\ S = {} /\ <<e.id, 0>> \notin DOMAIN pool
      BY <1>9, <2>3 DEF HeapIn
    <3>2. Len(file'[HeapPath(e.name)].pages) = 0
      BY <2>2, <3>1
    <3>3. file'[HeapPath(e.name)].pages = <<>>
      BY <2>2, <3>2
    <3> QED BY <2>3, <3>1, <3>3 DEF HeapIn
  <2>4. CASE n # 0
    <3>1. /\ n = 1 /\ Len(file[HeapPath(e.name)].pages) = 1
          /\ PageIn(pool, file, e.id, HeapPath(e.name), 0) = Rows(S)
      BY <1>9, <2>4 DEF HeapIn
    <3>2. PageIn(pool', file', e.id, HeapPath(e.name), 0) = PageIn(pool, file, e.id, HeapPath(e.name), 0)
      <4>1. \A m \in Nat : m + 1 <= 1 =>
                PageIn(pool', file', e.id, HeapPath(e.name), m) = PageIn(pool, file, e.id, HeapPath(e.name), m)
        BY <1>9, <2>1, <3>1, Zenon
      <4>2. 0 \in Nat /\ 0 + 1 <= 1
        OBVIOUS
      <4> QED BY <4>1, <4>2, Zenon
    <3> QED BY <2>2, <3>1, <3>2 DEF HeapIn
  <2> QED BY <2>3, <2>4
<1>10. RelationsKept'
  <2>1. ASSUME Undisturbed, NEW e \in saved.tables
        PROVE  HeapIn(pool', file', handle[e.id].num_pages, e.id, e.name, rows[e.name])
    <3>1. HeapIn(pool, file, handle[e.id].num_pages, e.id, e.name, rows[e.name])
      BY <1>2, <2>1 DEF RelationsKept
    <3> QED BY <1>9, <2>1, <3>1 DEF Undisturbed
  <2>2. ASSUME Undisturbed, NEW x \in saved.indexes
        PROVE  TreeIn(pool', file', handle[x.id].num_pages, x.id, x.name, rows[x.table])
    <3>1. TreeIn(pool, file, handle[x.id].num_pages, x.id, x.name, rows[x.table])
      BY <1>2, <2>2 DEF RelationsKept
    <3> QED BY <1>3, <1>8, <2>2, <3>1 DEF Undisturbed
  <2> QED BY <2>1, <2>2 DEF RelationsKept, Undisturbed
<1>11. NewIndexKept'
  <2>1. ASSUME Undisturbed, statement \in IndexStatement, statement.step = "build"
        PROVE  TreeIn(pool', file', handle[statement.id].num_pages, statement.id, statement.name, {})
    <3>1. TreeIn(pool, file, handle[statement.id].num_pages, statement.id, statement.name, {})
      BY <1>2, <2>1 DEF NewIndexKept
    <3> QED BY <1>3, <1>8, <2>1, <3>1 DEF Undisturbed
  <2>2. ASSUME Undisturbed, statement \in IndexStatement, statement.step = "register index"
        PROVE  TreeIn(pool', file', handle[statement.id].num_pages, statement.id, statement.name,
                      rows[statement.table.name])
    <3>1. TreeIn(pool, file, handle[statement.id].num_pages, statement.id, statement.name,
                 rows[statement.table.name])
      BY <1>2, <2>2 DEF NewIndexKept
    <3> QED BY <1>3, <1>8, <2>2, <3>1 DEF Undisturbed
  <2> QED BY <2>1, <2>2 DEF NewIndexKept, Undisturbed
<1> QED BY <1>4, <1>5, <1>6, <1>7, <1>10, <1>11 DEF CatalogInv

LEMMA FlushFrameKeepsInv ==
    ASSUME CatalogInv, NEW p \in DOMAIN pool, FlushFrame(p)
    PROVE  CatalogInv'
<1>1. TypeOK /\ StatementSound
  BY DEF CatalogInv
<1>2. power = "up"
  BY DEF FlushFrame
<1>3. PICK id, path, no : /\ OpenAs(id, path) /\ p = <<id, no>> /\ no \in 0 .. 1
                          /\ reused = {} => no + 1 <= Len(file[path].pages)
  BY <1>2, PagesHavePlaces
<1>4. p[1] = id /\ p[2] = no
  BY <1>3
<1>5. /\ id \in RelationId /\ path \in Path /\ handle[id].path = path /\ file[path].exists
  BY <1>2, <1>3, <1>4, OpenRelations DEF FlushFrame
<1>6. PICK f, image : f = file[path] /\ image = pool[p]
  OBVIOUS
<1>7. /\ f \in [exists : BOOLEAN, pages : Seq(Image)] /\ f.exists
      /\ image \in Image /\ no \in Nat /\ (reused = {} => no + 1 <= Len(f.pages))
  BY <1>1, <1>3, <1>5, <1>6 DEF TypeOK
<1>8. PICK pages \in Seq(Image) :
          /\ Written(f, no, image) = File(pages)
          /\ Len(pages) >= Len(f.pages)
          /\ no + 1 <= Len(f.pages) =>
                 /\ Len(pages) = Len(f.pages) /\ pages[no + 1] = image
                 /\ \A m \in Nat : m + 1 <= Len(f.pages) /\ m # no => pages[m + 1] = f.pages[m + 1]
  <2>1. PICK old : old = f.pages
    OBVIOUS
  <2>2. old \in Seq(Image) /\ no \in Nat /\ image \in Image
    BY <1>7, <2>1
  <2>3. \E pages \in Seq(Image) :
            /\ Written(File(old), no, image) = File(pages)
            /\ Len(pages) >= Len(old)
            /\ no + 1 <= Len(old) =>
                   /\ Len(pages) = Len(old) /\ pages[no + 1] = image
                   /\ \A m \in Nat : m + 1 <= Len(old) /\ m # no => pages[m + 1] = old[m + 1]
    BY <2>2, WrittenInPlace, ZenonT(60)
  <2>4. f = File(old)
    BY <1>7, <2>1 DEF File
  <2> QED BY <2>1, <2>3, <2>4, Zenon
<1>9. PICK g : g = File(pages)
  OBVIOUS
<1>10. g \in [exists : BOOLEAN, pages : Seq(Image)] /\ g.exists /\ g.pages = pages
  BY <1>8, <1>9 DEF File
<1>11. file' = [file EXCEPT ![path] = g]
  BY <1>5, <1>4, <1>6, <1>8, <1>9 DEF FlushFrame
<1>12. pool' = Restrict(pool, DOMAIN pool \ {p})
  BY DEF FlushFrame
<1>13. UNCHANGED <<saved, power, catalog, known, next_id, handle, statement, rows, crashes, reused>>
  BY DEF FlushFrame, history
<1>14. DOMAIN pool' = DOMAIN pool \ {p} /\ \A q \in DOMAIN pool' : pool'[q] = pool[q]
  BY <1>12 DEF Restrict
<1>15. file'[path] = g /\ \A path2 \in Path : path2 # path => file'[path2] = file[path2]
  BY <1>1, <1>5, <1>11 DEF TypeOK
<1>16. TypeOK'
  <2>1. file' \in [Path -> [exists : BOOLEAN, pages : Seq(Image)]]
    BY <1>1, <1>10, <1>11 DEF TypeOK
  <2>2. \A q \in DOMAIN pool' : pool'[q] \in Image
    BY <1>1, <1>14 DEF TypeOK
  <2> QED BY <1>1, <1>13, <2>1, <2>2 DEF TypeOK
<1>17. ASSUME statement \in TableStatement
       PROVE  file'[HeapPath(statement.table)] = file[HeapPath(statement.table)]
  <2>1. HeapPath(statement.table) \in Path
    BY <1>17, EntryFields, PathsApart
  <2>2. path # HeapPath(statement.table)
    <3>1. \A e \in saved.tables : e.name # statement.table
      BY <1>1, <1>17 DEF StatementSound
    <3>2. \A t : path = HeapPath(t) => \E e \in saved.tables : id = e.id /\ t = e.name
      BY <1>2, <1>3, OpenRelations
    <3> QED BY <3>1, <3>2
  <2> QED BY <1>15, <2>1, <2>2
<1>18. ASSUME NEW path2 \in Path, file[path2].exists
       PROVE  file'[path2].exists /\ Len(file'[path2].pages) >= Len(file[path2].pages)
  <2>1. CASE path2 = path
    BY <1>6, <1>8, <1>10, <1>15, <2>1
  <2>2. CASE path2 # path
    <3>1. file'[path2] = file[path2]
      BY <1>15, <2>2
    <3>2. Len(file[path2].pages) \in Nat
      BY <1>1 DEF TypeOK
    <3> QED BY <1>18, <3>1, <3>2
  <2> QED BY <2>1, <2>2
<1>19. ASSUME reused = {}, NEW id2, NEW path2, OpenAs(id2, path2)
       PROVE  /\ Len(file'[path2].pages) = Len(file[path2].pages)
              /\ \A m \in Nat : m + 1 <= Len(file[path2].pages) =>
                     PageIn(pool', file', id2, path2, m) = PageIn(pool, file, id2, path2, m)
  <2>1. path2 \in Path /\ (id = id2 <=> path = path2) /\ no + 1 <= Len(f.pages)
    BY <1>2, <1>3, <1>6, <1>19, OpenRelations, OpenApart
  <2>2. CASE id2 = id
    <3>1. path2 = path
      BY <2>1, <2>2
    <3>2. ASSUME NEW m \in Nat, m + 1 <= Len(f.pages)
          PROVE  PageIn(pool', file', id, path, m) = PageIn(pool, file, id, path, m)
      <4>1. CASE m = no
        <5>1. <<id, m>> = p
          BY <1>3, <4>1
        <5>2. PageIn(pool, file, id, path, m) = image
          BY <1>6, <5>1 DEF PageIn
        <5>3. PageIn(pool', file', id, path, m) = g.pages[m + 1]
          BY <1>14, <1>15, <5>1 DEF PageIn
        <5> QED BY <1>8, <1>10, <2>1, <4>1, <5>2, <5>3
      <4>2. CASE m # no
        <5>1. <<id, m>> # p
          BY <1>3, <4>2
        <5>2. /\ <<id, m>> \in DOMAIN pool' <=> <<id, m>> \in DOMAIN pool
              /\ <<id, m>> \in DOMAIN pool => pool'[<<id, m>>] = pool[<<id, m>>]
          BY <1>14, <5>1
        <5>3. file'[path].pages[m + 1] = file[path].pages[m + 1]
          BY <1>6, <1>8, <1>10, <1>15, <2>1, <3>2, <4>2
        <5> QED BY <5>2, <5>3 DEF PageIn
      <4> QED BY <4>1, <4>2
    <3> QED BY <1>6, <1>8, <1>10, <1>15, <2>1, <2>2, <3>1, <3>2
  <2>3. CASE id2 # id
    <3>1. file'[path2] = file[path2]
      BY <1>15, <2>1, <2>3
    <3>2. ASSUME NEW m \in Nat
          PROVE  PageIn(pool', file', id2, path2, m) = PageIn(pool, file, id2, path2, m)
      <4>1. <<id2, m>> # p
        BY <1>3, <2>3
      <4>2. /\ <<id2, m>> \in DOMAIN pool' <=> <<id2, m>> \in DOMAIN pool
            /\ <<id2, m>> \in DOMAIN pool => pool'[<<id2, m>>] = pool[<<id2, m>>]
        BY <1>14, <4>1
      <4> QED BY <3>1, <4>2 DEF PageIn
    <3> QED BY <2>1, <3>1, <3>2
  <2> QED BY <2>2, <2>3
<1>20. DOMAIN pool' \subseteq DOMAIN pool
  BY <1>14
<1> QED BY <1>2, <1>13, <1>16, <1>17, <1>19, <1>20, <1>18, ContentsStay

(* However the program ends, its memory is gone.                           *)
LEMMA ForgetKeepsInv ==
    ASSUME CatalogInv, Forget, power' = "down", saved' = saved, rows' = rows, crashes' \in Nat,
           crashes' = 0 => crashes = 0, reused' = reused,
           file' \in [Path -> [exists : BOOLEAN, pages : Seq(Image)]],
           CatalogNamesFiles', HeapsClosed', CleanRestartKeepsAll'
    PROVE  CatalogInv'
<1>1. TypeOK /\ EntriesDistinct /\ RowsHaveTables
  BY DEF CatalogInv
<1>2. statement' = NoStatement /\ pool' = <<>>
  BY DEF Forget
<1>3. DOMAIN pool' = {}
  BY <1>2
<1>4. TypeOK'
  <2>1. next_id' \in 1 .. MaxId + 1 /\ known' \subseteq TableName
    BY CatalogAssumption DEF Forget
  <2>2. Closed \in [path : Path \cup {<<>>}, num_pages : Nat]
    BY DEF Closed
  <2>3. handle' \in [RelationId -> [path : Path \cup {<<>>}, num_pages : Nat]]
    BY <2>2 DEF Forget
  <2> QED BY <1>1, <1>2, <1>3, <2>1, <2>3 DEF TypeOK
<1>5. MemoryMatches' /\ EntriesDistinct' /\ IdsBehind' /\ HandlesOpen'
  BY <1>1, <1>2, <1>3 DEF MemoryMatches, EntriesDistinct, IdsBehind, HandlesOpen
<1>6. StatementSound' /\ NewIndexKept'
  BY <1>2, StatementKinds DEF StatementSound, NewIndexKept
<1>7. PoolOwned' /\ RelationsKept' /\ RowsHaveTables'
  BY <1>1, <1>3 DEF PoolOwned, RelationsKept, RowsHaveTables
<1> QED BY <1>4, <1>5, <1>6, <1>7 DEF CatalogInv

LEMMA CrashKeepsInv ==
    ASSUME CatalogInv, Crash
    PROVE  CatalogInv'
<1>1. TypeOK /\ CatalogNamesFiles
  BY DEF CatalogInv
<1>2. /\ Forget /\ power' = "down" /\ saved' = saved /\ file' = file /\ rows' = rows
      /\ reused' = reused
  BY DEF Crash, disk
<1>3. crashes' \in Nat /\ crashes' # 0
  BY <1>1 DEF Crash, TypeOK
<1>4. file' \in [Path -> [exists : BOOLEAN, pages : Seq(Image)]]
  BY <1>1, <1>2 DEF TypeOK
<1>5. CatalogNamesFiles' /\ HeapsClosed' /\ CleanRestartKeepsAll'
  BY <1>1, <1>2, <1>3 DEF CatalogNamesFiles, HasItsFile, HeapsClosed, CleanRestartKeepsAll, Undisturbed
<1> QED BY <1>2, <1>3, <1>4, <1>5, ForgetKeepsInv

LEMMA ShutdownKeepsInv ==
    ASSUME CatalogInv, Shutdown
    PROVE  CatalogInv'
<1>1. TypeOK /\ CatalogNamesFiles /\ RelationsKept
  BY DEF CatalogInv
<1>2. power = "up"
  BY DEF Shutdown, Idle
<1>3. /\ Forget /\ power' = "down" /\ saved' = saved /\ file' = file /\ rows' = rows
      /\ crashes' = crashes /\ reused' = reused
  BY DEF Shutdown, disk, history
<1>4. ASSUME Undisturbed PROVE DOMAIN pool = {}
  <2> SUFFICES ASSUME DOMAIN pool # {} PROVE FALSE
    OBVIOUS
  <2>1. PICK p \in DOMAIN pool : ~file[handle[p[1]].path].exists
    BY DEF Shutdown
  <2>2. PICK id, path, no : OpenAs(id, path) /\ p = <<id, no>>
    BY <1>2, PagesHavePlaces
  <2>3. handle[p[1]].path = path /\ p[1] = id
    BY <1>2, <2>2, OpenRelations
  <2>4. file[path].exists
    BY <1>2, <1>4, <2>2, OpenApart DEF Undisturbed
  <2> QED BY <2>1, <2>3, <2>4
<1>5. ASSUME Undisturbed, NEW e \in saved.tables
      PROVE  \/ file[HeapPath(e.name)].pages = <<>> /\ rows[e.name] = {}
             \/ file[HeapPath(e.name)].pages = <<Rows(rows[e.name])>>
  <2>1. PICK pages, r : pages = file[HeapPath(e.name)].pages /\ r = Rows(rows[e.name])
    OBVIOUS
  <2>2. pages \in Seq(Image)
    BY <1>1, <2>1, TypedEntries, PathsApart DEF TypeOK
  <2>3. HeapIn(pool, file, handle[e.id].num_pages, e.id, e.name, rows[e.name])
    BY <1>1, <1>2, <1>5 DEF RelationsKept
  <2>4. PageIn(pool, file, e.id, HeapPath(e.name), 0) = pages[0 + 1]
    BY <1>4, <1>5, <2>1 DEF PageIn
  <2>5. (pages = <<>> /\ rows[e.name] = {}) \/ (Len(pages) = 1 /\ pages[0 + 1] = r)
    BY <2>1, <2>3, <2>4 DEF HeapIn
  <2>6. Len(pages) = 1 /\ pages[0 + 1] = r => pages = <<r>>
    BY <2>2
  <2> QED BY <2>1, <2>5, <2>6
<1>6. ASSUME Undisturbed, NEW x \in saved.indexes
      PROVE  file[IndexPath(x.name)].pages = <<Meta, Rows(rows[x.table])>>
  <2>1. PICK pages, r : pages = file[IndexPath(x.name)].pages /\ r = Rows(rows[x.table])
    OBVIOUS
  <2>2. pages \in Seq(Image)
    BY <1>1, <2>1, TypedEntries, PathsApart DEF TypeOK
  <2>3. TreeIn(pool, file, handle[x.id].num_pages, x.id, x.name, rows[x.table])
    BY <1>1, <1>2, <1>6 DEF RelationsKept
  <2>4. /\ PageIn(pool, file, x.id, IndexPath(x.name), 0) = pages[0 + 1]
        /\ PageIn(pool, file, x.id, IndexPath(x.name), 1) = pages[1 + 1]
    BY <1>4, <1>6, <2>1 DEF PageIn
  <2>5. Len(pages) = 2 /\ pages[0 + 1] = Meta /\ pages[1 + 1] = r
    BY <2>1, <2>3, <2>4 DEF TreeIn
  <2>6. PICK m : m = Meta
    OBVIOUS
  <2>7. pages = <<m, r>>
    BY <2>2, <2>5, <2>6
  <2> QED BY <2>1, <2>6, <2>7
<1>7. HeapsClosed'
  BY <1>3, <1>5 DEF HeapsClosed, Undisturbed
<1>8. CleanRestartKeepsAll'
  <2>1. ASSUME Undisturbed, NEW e \in saved.tables
        PROVE  rows[e.name] = IF file[HeapPath(e.name)].pages = <<>> THEN {}
                              ELSE file[HeapPath(e.name)].pages[1].rows
    <3>1. PICK pages, r : pages = file[HeapPath(e.name)].pages /\ r = Rows(rows[e.name])
      OBVIOUS
    <3>2. r.rows = rows[e.name]
      BY <3>1, Images
    <3>3. (pages = <<>> /\ rows[e.name] = {}) \/ pages = <<r>>
      BY <1>5, <2>1, <3>1
    <3>4. pages = <<r>> => pages # <<>> /\ pages[1] = r
      OBVIOUS
    <3> QED BY <3>1, <3>2, <3>3, <3>4
  <2> QED BY <1>3, <1>6, <2>1 DEF CleanRestartKeepsAll, Undisturbed
<1>9. CatalogNamesFiles' /\ crashes' \in Nat
      /\ file' \in [Path -> [exists : BOOLEAN, pages : Seq(Image)]]
  BY <1>1, <1>3 DEF CatalogNamesFiles, HasItsFile, TypeOK
<1> QED BY <1>3, <1>7, <1>8, <1>9, ForgetKeepsInv

(* The ids given out after a start are behind those of the saved catalog.  *)
LEMMA FirstFreeIdBehind ==
    ASSUME TypeOK
    PROVE  /\ FirstFreeId \in 1 .. MaxId + 1
           /\ \A e \in saved.tables : e.id < FirstFreeId
           /\ \A x \in saved.indexes : x.id < FirstFreeId
<1>1. PICK S : S = {0} \cup {e.id : e \in saved.tables} \cup {x.id : x \in saved.indexes}
  OBVIOUS
<1>2. PICK n \in Nat : n = MaxId
  BY CatalogAssumption
<1>3. /\ \A e \in saved.tables : e.id \in 1 .. n
      /\ \A x \in saved.indexes : x.id \in 1 .. n
  BY <1>2, TypedEntries DEF RelationId
<1>4. S \subseteq 0 .. n /\ S # {}
  BY <1>1, <1>3
<1>5. Max(S) \in S /\ \A m \in S : m <= Max(S)
  BY <1>4, MaxOfBounded
<1>6. PICK z : z = Max(S)
  OBVIOUS
<1>7. z \in 0 .. n /\ \A m \in S : m <= z
  BY <1>4, <1>5, <1>6
<1>8. FirstFreeId = 1 + z
  BY <1>1, <1>6, Zenon DEF FirstFreeId
<1>9. /\ \A e \in saved.tables : e.id \in S
      /\ \A x \in saved.indexes : x.id \in S
  BY <1>1
<1> QED BY <1>2, <1>3, <1>7, <1>8, <1>9

(* A start opens everything, or is refused and opens nothing.              *)
LEMMA StartsUp ==
    ASSUME Start
    PROVE  /\ power' \in {"up", "refused"}
           /\ power' = "up" => BootstrapFromCatalog
           /\ power' = "refused" => ~CatalogOpens /\ RefuseToStart
<1>1. \/ CatalogOpens /\ BootstrapFromCatalog
      \/ ~CatalogOpens /\ RefuseToStart
  BY Zenon DEF Start
<1>2. (BootstrapFromCatalog => power' = "up") /\ (RefuseToStart => power' = "refused")
  BY Zenon DEF BootstrapFromCatalog, RefuseToStart
<1> QED BY <1>1, <1>2

\* The files the saved catalog has for an id, and the one that is opened.
HeapsOf(id) == {HeapPath(e.name) : e \in {e \in saved.tables : e.id = id}}
TreesOf(id) == {IndexPath(x.name) : x \in {x \in saved.indexes : x.id = id}}
ChosenPath(heaps, trees) == CHOOSE p \in heaps \cup trees : trees # {} => p \in trees

(* A start that is not refused opens every relation on one of its files.   *)
LEMMA OpenedOn ==
    ASSUME Start, power' = "up", NEW id \in RelationId
    PROVE  IF HeapsOf(id) \cup TreesOf(id) = {} THEN handle'[id] = Closed
           ELSE \E path \in HeapsOf(id) \cup TreesOf(id) : handle'[id] = OpenedAs(path)
<1>1. PICK H, T : H = HeapsOf(id) /\ T = TreesOf(id)
  OBVIOUS
<1>2. handle' = [k \in RelationId |->
                    IF HeapsOf(k) \cup TreesOf(k) = {} THEN Closed
                    ELSE OpenedAs(ChosenPath(HeapsOf(k), TreesOf(k)))]
  BY StartsUp, Zenon DEF BootstrapFromCatalog, HeapsOf, TreesOf, ChosenPath
<1>3. handle'[id] = IF H \cup T = {} THEN Closed ELSE OpenedAs(ChosenPath(H, T))
  BY <1>1, <1>2
<1>4. H \cup T # {} => \E p \in H \cup T : T # {} => p \in T
  OBVIOUS
<1>5. H \cup T # {} => ChosenPath(H, T) \in H \cup T
  BY <1>4, Zenon DEF ChosenPath
<1> QED BY <1>1, <1>3, <1>5

(* Ids and names are used once: a relation has one file to open.           *)
LEMMA OpenedOnItsFile ==
    ASSUME TypeOK, EntriesDistinct, Start, power' = "up"
    PROVE  /\ \A e \in saved.tables : handle'[e.id] = OpenedAs(HeapPath(e.name))
           /\ \A x \in saved.indexes : handle'[x.id] = OpenedAs(IndexPath(x.name))
<1>1. ASSUME NEW e \in saved.tables PROVE handle'[e.id] = OpenedAs(HeapPath(e.name))
  <2>1. PICK id \in RelationId : id = e.id
    BY TypedEntries
  <2>2. \A f \in saved.tables : f.id = id => f = e
    BY <2>1 DEF EntriesDistinct
  <2>3. \A x \in saved.indexes : x.id # id
    BY <2>1 DEF EntriesDistinct
  <2>4. HeapsOf(id) = {HeapPath(e.name)}
    BY <2>1, <2>2 DEF HeapsOf
  <2>5. TreesOf(id) = {}
    BY <2>3 DEF TreesOf
  <2>6. PICK H, T : H = HeapsOf(id) /\ T = TreesOf(id)
    OBVIOUS
  <2>7. IF H \cup T = {} THEN handle'[id] = Closed
        ELSE \E path \in H \cup T : handle'[id] = OpenedAs(path)
    BY <2>6, OpenedOn
  <2>8. H \cup T = {HeapPath(e.name)}
    BY <2>4, <2>5, <2>6
  <2> QED BY <2>1, <2>7, <2>8
<1>2. ASSUME NEW x \in saved.indexes PROVE handle'[x.id] = OpenedAs(IndexPath(x.name))
  <2>1. PICK id \in RelationId : id = x.id
    BY TypedEntries
  <2>2. \A y \in saved.indexes : y.id = id => y = x
    BY <2>1 DEF EntriesDistinct
  <2>3. \A e \in saved.tables : e.id # id
    BY <2>1 DEF EntriesDistinct
  <2>4. TreesOf(id) = {IndexPath(x.name)}
    BY <2>1, <2>2 DEF TreesOf
  <2>5. HeapsOf(id) = {}
    BY <2>3 DEF HeapsOf
  <2>6. PICK H, T : H = HeapsOf(id) /\ T = TreesOf(id)
    OBVIOUS
  <2>7. IF H \cup T = {} THEN handle'[id] = Closed
        ELSE \E path \in H \cup T : handle'[id] = OpenedAs(path)
    BY <2>6, OpenedOn
  <2>8. H \cup T = {IndexPath(x.name)}
    BY <2>4, <2>5, <2>6
  <2> QED BY <2>1, <2>7, <2>8
<1> QED BY <1>1, <1>2

LEMMA StartKeepsInv ==
    ASSUME CatalogInv, Start
    PROVE  CatalogInv'
<1>1. TypeOK /\ MemoryMatches /\ EntriesDistinct /\ CatalogNamesFiles
  BY DEF CatalogInv
<1>2. RowsHaveTables /\ HeapsClosed /\ CleanRestartKeepsAll
  BY DEF CatalogInv
<1>3. UNCHANGED <<saved, statement, rows, crashes, reused>> /\ power # "up"
  BY DEF Start, history
<1>4. statement = NoStatement /\ DOMAIN pool = {}
  BY <1>1, <1>3 DEF MemoryMatches
<1>5. EntriesDistinct' /\ RowsHaveTables'
  BY <1>1, <1>2, <1>3 DEF EntriesDistinct, RowsHaveTables
<1>6. StatementSound' /\ NewIndexKept'
  BY <1>3, <1>4, StatementKinds DEF StatementSound, NewIndexKept
<1>7. CASE power' = "refused"
  <2>1. /\ ~((\A e \in saved.tables : HeapOpens(e)) /\ (\A x \in saved.indexes : IndexOpens(x)))
        /\ UNCHANGED <<file, catalog, known, next_id, handle, pool>>
    BY <1>7, StartsUp DEF CatalogOpens, RefuseToStart
  <2>2. ~Undisturbed
    <3> SUFFICES ASSUME Undisturbed PROVE FALSE
      OBVIOUS
    <3>1. \A e \in saved.tables : HeapOpens(e)
      BY <1>1 DEF HeapOpens, CatalogNamesFiles
    <3>2. ASSUME NEW x \in saved.indexes PROVE IndexOpens(x)
      <4>1. PICK pages, r : pages = file[IndexPath(x.name)].pages /\ r = Rows(rows[x.table])
        OBVIOUS
      <4>2. pages = <<Meta, r>>
        BY <1>2, <1>3, <4>1 DEF CleanRestartKeepsAll, Undisturbed
      <4>3. pages[1] = Meta
        BY <4>2
      <4> QED BY <1>1, <4>1, <4>3 DEF IndexOpens, CatalogNamesFiles, HasItsFile, Undisturbed
    <3> QED BY <2>1, <3>1, <3>2
  <2>3. TypeOK'
    BY <1>1, <1>3, <1>7, <2>1 DEF TypeOK
  <2>4. MemoryMatches' /\ IdsBehind' /\ HandlesOpen'
    BY <1>3, <1>4, <1>7, <2>1 DEF MemoryMatches, IdsBehind, HandlesOpen
  <2>5. RelationsKept' /\ HeapsClosed' /\ CleanRestartKeepsAll'
    BY <1>3, <1>7, <2>1, <2>2 DEF RelationsKept, HeapsClosed, CleanRestartKeepsAll, Undisturbed
  <2>6. PoolOwned' /\ CatalogNamesFiles'
    BY <1>1, <1>3, <1>4, <2>1 DEF PoolOwned, CatalogNamesFiles, HasItsFile
  <2> QED BY <1>5, <1>6, <2>3, <2>4, <2>5, <2>6 DEF CatalogInv
<1>8. CASE power' = "up"
  <2>1. /\ catalog' = saved /\ known' = {e.name : e \in saved.tables} /\ next_id' = FirstFreeId
        /\ DOMAIN handle' = RelationId
    <3>2. catalog' = saved /\ known' = {e.name : e \in saved.tables} /\ next_id' = FirstFreeId
      BY <1>8, StartsUp, Zenon DEF BootstrapFromCatalog
    <3>3. DOMAIN handle' = RelationId
      BY <1>8, StartsUp, Zenon DEF BootstrapFromCatalog
    <3> QED BY <3>2, <3>3
  <2>10. /\ file' = [path \in Path |-> Opened(path)]
         /\ pool' = [p \in NewTreePages |-> IF p[2] = 0 THEN Meta ELSE Rows({})]
    BY <1>8, StartsUp, Zenon DEF BootstrapFromCatalog
  <2>11. ASSUME NEW x \in EmptyIndexes PROVE x \in saved.indexes /\ x.name \in reused
    <3>1. x \in saved.indexes /\ file[IndexPath(x.name)].pages = <<>>
      BY DEF EmptyIndexes
    <3>2. ~(Len(file[IndexPath(x.name)].pages) >= 2)
      BY <3>1
    <3> QED BY <1>1, <3>1, <3>2 DEF CatalogNamesFiles, HasItsFile
  <2>12. /\ \A e \in saved.tables : /\ HeapPath(e.name) \in Path
                                    /\ file'[HeapPath(e.name)] = file[HeapPath(e.name)]
         /\ \A x \in saved.indexes : /\ IndexPath(x.name) \in Path
                                     /\ x.name \notin reused =>
                                            file'[IndexPath(x.name)] = file[IndexPath(x.name)]
    <3>1. ASSUME NEW e \in saved.tables
          PROVE  HeapPath(e.name) \in Path /\ Opened(HeapPath(e.name)) = file[HeapPath(e.name)]
      BY <1>1, TypedEntries, PathsApart DEF Opened
    <3>2. ASSUME NEW x \in saved.indexes
          PROVE  /\ IndexPath(x.name) \in Path
                 /\ x.name \notin reused => Opened(IndexPath(x.name)) = file[IndexPath(x.name)]
      <4>1. IndexPath(x.name) \in Path
        BY <1>1, TypedEntries, PathsApart
      <4>2. x.name \notin reused => ~ \E y \in EmptyIndexes : IndexPath(x.name) = IndexPath(y.name)
        BY <2>11, PathsApart
      <4> QED BY <4>1, <4>2 DEF Opened
    <3> QED BY <2>10, <3>1, <3>2
  <2>13. /\ \A p \in DOMAIN pool' : pool'[p] \in Image
         /\ \A p \in DOMAIN pool' : \E x \in saved.indexes : p \in TreePages(x.id)
         /\ reused = {} => DOMAIN pool' = {}
    <3>1. \A p \in DOMAIN pool' : \E x \in EmptyIndexes, no \in {0, 1} : p = <<x.id, no>>
      BY <2>10 DEF NewTreePages
    <3>2. ASSUME NEW p \in DOMAIN pool' PROVE pool'[p] \in Image
      <4>1. pool'[p] = IF p[2] = 0 THEN Meta ELSE Rows({})
        BY <2>10
      <4> QED BY <4>1, Images
    <3>3. ASSUME NEW p \in DOMAIN pool' PROVE \E x \in saved.indexes : p \in TreePages(x.id)
      BY <2>11, <3>1 DEF TreePages
    <3>4. ASSUME reused = {} PROVE DOMAIN pool' = {}
      BY <2>11, <3>1, <3>4
    <3> QED BY <3>2, <3>3, <3>4
  <2>14. \A path \in Path : /\ Opened(path) \in [exists : BOOLEAN, pages : Seq(Image)]
                            /\ OpenedAs(path).path = path
                            /\ OpenedAs(path).num_pages = Len(file'[path].pages)
                            /\ OpenedAs(path) \in [path : Path \cup {<<>>}, num_pages : Nat]
    <3>1. File(<<Zero, Zero>>) \in [exists : BOOLEAN, pages : Seq(Image)]
      BY Images DEF File
    <3>2. ASSUME NEW path \in Path
          PROVE  Opened(path) \in [exists : BOOLEAN, pages : Seq(Image)]
      <4>1. Opened(path) = File(<<Zero, Zero>>) \/ Opened(path) = file[path]
        BY DEF Opened
      <4> QED BY <1>1, <3>1, <4>1 DEF TypeOK
    <3>3. ASSUME NEW path \in Path PROVE OpenedAs(path) \in [path : Path \cup {<<>>}, num_pages : Nat]
      BY <3>2 DEF OpenedAs
    <3>4. \A path \in Path : /\ OpenedAs(path).path = path
                             /\ OpenedAs(path).num_pages = Len(Opened(path).pages)
      BY DEF OpenedAs
    <3> QED BY <2>10, <3>2, <3>3, <3>4
  <2>2. /\ \A e \in saved.tables :
               /\ handle'[e.id].path = HeapPath(e.name)
               /\ handle'[e.id].num_pages = Len(file[HeapPath(e.name)].pages)
        /\ \A x \in saved.indexes :
               /\ handle'[x.id].path = IndexPath(x.name)
               /\ x.name \notin reused => handle'[x.id].num_pages = Len(file[IndexPath(x.name)].pages)
    <3>1. /\ \A e \in saved.tables : handle'[e.id] = OpenedAs(HeapPath(e.name))
          /\ \A x \in saved.indexes : handle'[x.id] = OpenedAs(IndexPath(x.name))
      BY <1>1, <1>8, OpenedOnItsFile
    <3> QED BY <2>12, <2>14, <3>1, Zenon
  <2>3. TypeOK'
    <3>1. next_id' \in 1 .. MaxId + 1
      BY <1>1, <2>1, FirstFreeIdBehind
    <3>2. known' \subseteq TableName
      BY <1>1, <2>1, TypedEntries
    <3>3. ASSUME NEW id \in RelationId
          PROVE  handle'[id] \in [path : Path \cup {<<>>}, num_pages : Nat]
      <4>1. PICK S : S = HeapsOf(id) \cup TreesOf(id)
        OBVIOUS
      <4>2. IF S = {} THEN handle'[id] = Closed ELSE \E path \in S : handle'[id] = OpenedAs(path)
        BY <1>8, <4>1, OpenedOn
      <4>3. HeapsOf(id) \subseteq Path /\ TreesOf(id) \subseteq Path
        BY <1>1, TypedEntries, PathsApart DEF HeapsOf, TreesOf
      <4>4. Closed \in [path : Path \cup {<<>>}, num_pages : Nat]
        BY DEF Closed
      <4> QED BY <2>14, <4>1, <4>2, <4>3, <4>4
    <3>4. handle' \in [RelationId -> [path : Path \cup {<<>>}, num_pages : Nat]]
      <4>1. handle' = [id \in RelationId |-> handle'[id]]
        BY <1>8, StartsUp, Zenon DEF BootstrapFromCatalog
      <4> QED BY <3>3, <4>1
    <3>5. file' \in [Path -> [exists : BOOLEAN, pages : Seq(Image)]]
      BY <2>10, <2>14
    <3> QED BY <1>1, <1>3, <1>8, <2>13, <3>1, <3>2, <3>4, <3>5 DEF TypeOK
  <2>15. CatalogNamesFiles'
    BY <1>1, <1>3, <2>12 DEF CatalogNamesFiles, HasItsFile
  <2>16. PoolOwned'
    BY <1>3, <2>13 DEF PoolOwned
  <2>4. MemoryMatches' /\ IdsBehind'
    <3>1. MemoryMatches'
      BY <1>3, <1>8, <2>1 DEF MemoryMatches
    <3>2. IdsBehind'
      BY <1>1, <1>3, <1>4, <2>1, FirstFreeIdBehind DEF IdsBehind
    <3> QED BY <3>1, <3>2
  <2>5. HandlesOpen'
    <3>1. ASSUME NEW e \in saved.tables
          PROVE  /\ handle'[e.id].path = HeapPath(e.name)
                 /\ handle'[e.id].num_pages <= Len(file[HeapPath(e.name)].pages)
      <4>1. HeapPath(e.name) \in Path
        BY <1>1, TypedEntries, PathsApart
      <4>2. PICK n \in Nat : n = Len(file[HeapPath(e.name)].pages)
        BY <1>1, <4>1 DEF TypeOK
      <4>3. handle'[e.id].path = HeapPath(e.name) /\ handle'[e.id].num_pages = n
        BY <2>2, <4>2
      <4> QED BY <4>2, <4>3
    <3>2. \A x \in saved.indexes : handle'[x.id].path = IndexPath(x.name)
      BY <2>2
    <3>3. \A e \in saved.tables : <<e.id, 0>> \notin DOMAIN pool'
      BY <1>1, <2>13, PageIds DEF EntriesDistinct
    <3> QED BY <1>3, <2>12, <3>1, <3>2, <3>3 DEF HandlesOpen
  <2>6. HeapsClosed' /\ CleanRestartKeepsAll'
    BY <1>8 DEF HeapsClosed, CleanRestartKeepsAll, Undisturbed
  <2>7. ASSUME Undisturbed, NEW e \in saved.tables
        PROVE  HeapIn(pool', file', handle'[e.id].num_pages, e.id, e.name, rows[e.name])
    <3>1. PICK pages, r, n : /\ pages = file[HeapPath(e.name)].pages /\ r = Rows(rows[e.name])
                             /\ n = handle'[e.id].num_pages
      OBVIOUS
    <3>2. n = Len(pages)
      BY <2>2, <3>1
    <3>3. (pages = <<>> /\ rows[e.name] = {}) \/ pages = <<r>>
      BY <1>2, <1>3, <2>7, <3>1 DEF HeapsClosed, Undisturbed
    <3>6. DOMAIN pool' = {} /\ file'[HeapPath(e.name)] = file[HeapPath(e.name)]
      BY <2>7, <2>12, <2>13 DEF Undisturbed
    <3>4. CASE pages = <<>> /\ rows[e.name] = {}
      <4>1. n = 0
        BY <3>2, <3>4
      <4> QED BY <3>1, <3>4, <3>6, <4>1 DEF HeapIn
    <3>5. CASE pages = <<r>>
      <4>1. n = 1 /\ Len(pages) = 1 /\ pages[0 + 1] = r
        BY <3>2, <3>5
      <4>2. PageIn(pool', file', e.id, HeapPath(e.name), 0) = r
        BY <3>1, <3>6, <4>1 DEF PageIn
      <4> QED BY <3>1, <3>6, <4>1, <4>2 DEF HeapIn
    <3> QED BY <3>3, <3>4, <3>5
  <2>8. ASSUME Undisturbed, NEW x \in saved.indexes
        PROVE  TreeIn(pool', file', handle'[x.id].num_pages, x.id, x.name, rows[x.table])
    <3>1. PICK pages, r, n : /\ pages = file[IndexPath(x.name)].pages /\ r = Rows(rows[x.table])
                             /\ n = handle'[x.id].num_pages
      OBVIOUS
    <3>2. n = Len(pages)
      BY <2>2, <2>8, <3>1 DEF Undisturbed
    <3>3. pages = <<Meta, r>>
      BY <1>2, <1>3, <2>8, <3>1 DEF CleanRestartKeepsAll, Undisturbed
    <3>6. DOMAIN pool' = {} /\ file'[IndexPath(x.name)] = file[IndexPath(x.name)]
      BY <2>8, <2>12, <2>13 DEF Undisturbed
    <3>4. n = 2 /\ Len(pages) = 2 /\ pages[0 + 1] = Meta /\ pages[1 + 1] = r
      BY <3>2, <3>3
    <3>5. /\ PageIn(pool', file', x.id, IndexPath(x.name), 0) = Meta
          /\ PageIn(pool', file', x.id, IndexPath(x.name), 1) = r
      BY <3>1, <3>4, <3>6 DEF PageIn
    <3> QED BY <3>1, <3>4, <3>5, <3>6 DEF TreeIn
  <2>9. RelationsKept'
    BY <1>3, <2>7, <2>8 DEF RelationsKept, Undisturbed
  <2> QED BY <1>5, <1>6, <2>3, <2>4, <2>5, <2>6, <2>9, <2>15, <2>16 DEF CatalogInv
<1>9. power' \in {"up", "refused"}
  BY StartsUp
<1> QED BY <1>7, <1>8, <1>9

LEMMA InitCatalogInv == Init => CatalogInv
<1> SUFFICES ASSUME Init PROVE CatalogInv
  OBVIOUS
<1>1. /\ saved = EmptyCatalog /\ power = "down" /\ known = {} /\ next_id = 1
      /\ pool = <<>> /\ statement = NoStatement
      /\ rows = [t \in TableName |-> {}] /\ crashes = 0 /\ reused = {}
  BY DEF Init
<1>2. saved.tables = {} /\ saved.indexes = {} /\ DOMAIN pool = {}
  BY <1>1 DEF EmptyCatalog
<1>3. TypeOK
  <2>1. NoFile \in [exists : BOOLEAN, pages : Seq(Image)]
    BY DEF NoFile
  <2>2. file \in [Path -> [exists : BOOLEAN, pages : Seq(Image)]]
    BY <2>1 DEF Init
  <2>3. Closed \in [path : Path \cup {<<>>}, num_pages : Nat]
    BY DEF Closed
  <2>4. handle \in [RelationId -> [path : Path \cup {<<>>}, num_pages : Nat]]
    BY <2>3 DEF Init
  <2>5. saved \in [tables : SUBSET TableEntry, indexes : SUBSET IndexEntry]
    BY <1>1 DEF EmptyCatalog
  <2>6. next_id \in 1 .. MaxId + 1
    BY <1>1, CatalogAssumption
  <2> QED BY <1>1, <1>2, <2>2, <2>4, <2>5, <2>6 DEF TypeOK
<1>4. MemoryMatches /\ EntriesDistinct /\ IdsBehind /\ HandlesOpen
  BY <1>1, <1>2 DEF MemoryMatches, EntriesDistinct, IdsBehind, HandlesOpen
<1>5. StatementSound /\ PoolOwned /\ CatalogNamesFiles /\ NewIndexKept
  BY <1>1, <1>2, StatementKinds DEF StatementSound, PoolOwned, CatalogNamesFiles, NewIndexKept
<1>6. RelationsKept /\ RowsHaveTables /\ HeapsClosed /\ CleanRestartKeepsAll
  BY <1>1, <1>2 DEF RelationsKept, RowsHaveTables, HeapsClosed, CleanRestartKeepsAll
<1> QED BY <1>3, <1>4, <1>5, <1>6 DEF CatalogInv

LEMMA NextCatalogInv ==
    ASSUME CatalogInv, [Next]_vars
    PROVE  CatalogInv'
<1>1. CASE UNCHANGED vars
  <2>1. UNCHANGED <<file, saved, power, catalog, known, next_id, handle, pool, statement, rows, crashes, reused>>
    BY <1>1 DEF vars, disk, memory, history
  <2>2. TypeOK' /\ MemoryMatches' /\ EntriesDistinct' /\ IdsBehind' /\ HandlesOpen'
    BY <2>1 DEF CatalogInv, TypeOK, MemoryMatches, EntriesDistinct, IdsBehind, HandlesOpen
  <2>3. StatementSound' /\ PoolOwned' /\ CatalogNamesFiles' /\ RelationsKept'
    BY <2>1 DEF CatalogInv, StatementSound, PoolOwned, CatalogNamesFiles, HasItsFile, RelationsKept,
       Undisturbed
  <2>4. NewIndexKept' /\ RowsHaveTables' /\ HeapsClosed' /\ CleanRestartKeepsAll'
    BY <2>1 DEF CatalogInv, NewIndexKept, RowsHaveTables, HeapsClosed, CleanRestartKeepsAll,
       Undisturbed
  <2> QED BY <2>2, <2>3, <2>4 DEF CatalogInv
<1>2. ASSUME NEW t \in TableName, CreateHeapRelation(t) PROVE CatalogInv'
  BY <1>2, CreateHeapRelationKeepsInv
<1>3. CASE RegisterRelation
  BY <1>3, RegisterRelationKeepsInv
<1>4. ASSUME NEW i \in IndexName, NEW t \in catalog.tables, NEW u \in BOOLEAN,
             CreateIndexRelation(i, t, u)
      PROVE  CatalogInv'
  BY <1>4, CreateIndexRelationKeepsInv
<1>5. CASE InitializeIfNeeded
  BY <1>5, InitializeIfNeededKeepsInv
<1>6. CASE BuildIndex
  BY <1>6, BuildIndexKeepsInv
<1>7. CASE RegisterIndex
  BY <1>7, RegisterIndexKeepsInv
<1>8. CASE CleanUp
  BY <1>8, CleanUpKeepsInv
<1>9. ASSUME NEW t \in catalog.tables, NEW r \in Row, InsertTuple(t, r) PROVE CatalogInv'
  BY <1>9, InsertTupleKeepsInv
<1>10. ASSUME NEW p \in DOMAIN pool, FlushFrame(p) PROVE CatalogInv'
  BY <1>10, FlushFrameKeepsInv
<1>11. CASE Shutdown
  BY <1>11, ShutdownKeepsInv
<1>12. CASE Crash
  BY <1>12, CrashKeepsInv
<1>13. CASE Start
  BY <1>13, StartKeepsInv
<1> QED BY <1>1, <1>2, <1>3, <1>4, <1>5, <1>6, <1>7, <1>8, <1>9, <1>10, <1>11, <1>12, <1>13
        DEF Next

-----------------------------------------------------------------------------
(* The theorems.  They are about every client: reused has the index names  *)
(* that were given to CREATE INDEX while in use.                           *)

(* Every reachable state satisfies CatalogInv: whatever statement the      *)
(* program died in, catalog.txt, the files, the open relations and the     *)
(* pool fit together.                                                      *)
THEOREM CatalogInvariant ==
    Spec => []CatalogInv
<1>1. Init => CatalogInv
  BY InitCatalogInv
<1>2. CatalogInv /\ [Next]_vars => CatalogInv'
  BY NextCatalogInv
<1> QED BY <1>1, <1>2, PTL DEF Spec

(* catalog.txt names only tables whose files exist, and indexes whose two  *)
(* pages were allocated, whenever the program dies and however a CREATE    *)
(* INDEX ends, except indexes whose name a later CREATE INDEX was given:   *)
(* that one truncates the file and may remove it.                          *)
THEOREM CatalogNamesItsFiles ==
    Spec => []CatalogNamesFiles
<1>1. CatalogInv => CatalogNamesFiles
  BY DEF CatalogInv
<1>2. Spec => []CatalogInv
  BY CatalogInvariant
<1> QED BY <1>1, <1>2, PTL

(* The id of every table and of every index leads to its file, with the    *)
(* ids that BootstrapFromCatalog gives out after a restart too, and two    *)
(* indexes have one file only when CREATE INDEX was given a name in use.   *)
THEOREM IdsAreSafe ==
    Spec => []IdsLeadToTheirFiles
<1>1. CatalogInv => IdsLeadToTheirFiles
  <2> SUFFICES ASSUME CatalogInv, power = "up" PROVE IdsLeadToTheirFiles
    BY DEF IdsLeadToTheirFiles
  <2>1. HandlesOpen /\ MemoryMatches /\ EntriesDistinct
    BY DEF CatalogInv
  <2>2. \A x, y \in saved.indexes : handle[x.id].path = handle[y.id].path => x.name = y.name
    BY <2>1, PathsApart DEF HandlesOpen
  <2> QED BY <2>1, <2>2 DEF HandlesOpen, MemoryMatches, EntriesDistinct, IdsLeadToTheirFiles
<1>2. Spec => []CatalogInv
  BY CatalogInvariant
<1> QED BY <1>1, <1>2, PTL

(* The destructors lose nothing: closing the program leaves every inserted *)
(* row in its heap file and in every index, and the next start opens them, *)
(* as long as no CREATE INDEX was given a name in use.                     *)
THEOREM CleanRestart ==
    Spec => []CleanRestartKeepsAll
<1>1. CatalogInv => CleanRestartKeepsAll
  BY DEF CatalogInv
<1>2. Spec => []CatalogInv
  BY CatalogInvariant
<1> QED BY <1>1, <1>2, PTL
=============================================================================
