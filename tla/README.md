# GraniteDB: TLA+ models, checks and proofs

GraniteDB is a relational engine in C++: slotted heap pages and B+ trees over a
buffer pool, strict two-phase locking with multiple granularities, write-ahead
logging and restart recovery, a cost-based optimizer and an SQL front end. This
directory holds TLA+ modules for its storage engine, its concurrency control, its
recovery system, its catalog and the algorithms of its executors.

All paths are relative to the repository root.

## 1. Inventory

| part | state | operations | hard behaviour |
|---|---|---|---|
| lock manager (`concurrency/lock_manager*`) | a queue of requests per table, record and index; upgrade marks; registered transactions | LockTable, LockRecord, LockKey(Range), ReleaseAll, escalation, detector thread | condition variables, in-place upgrades, deadlock victims, lost wakeups |
| transactions (`concurrency/transaction*`) | state, last LSN, own locks; active transactions | Begin, Commit, Abort, abort callback | Abort called by two threads, waiting for another thread's abort |
| page retirement (`concurrency/page_retire_manager*`) | global epoch, active readers, retired pages | EnterEpoch, ExitEpoch, RetirePage, Drain | a page reclaimed under a reader |
| log manager (`recovery/log_manager*`, `wal_records.h`) | file, `next_lsn_`, `persistent_lsn_`, master record | AppendRecord, FlushUpTo, SetMaster, open and trim | what is durable when |
| recovery (`recovery/recovery_manager*`) | transaction table, dirty page table | Analysis, Redo, Undo | crashes during recovery, reused ids |
| checkpoints (`recovery/checkpoint_manager*`) | none of its own | CreateCheckpoint | snapshots taken while others run |
| buffer pool (`buffer/*`) | frames, page table, dirty page table, clock hand | Fetch, New, Delete, Unpin, Flush | write-back of pages in use, pin counts |
| disk manager (`storage/disk_manager*`, `common/durable_io*`) | files, free lists, page counts | Allocate, Deallocate, Read, Write, Sync | crash between file and metadata |
| slotted page, free space map (`storage/`) | slots, free space; page buckets | insert, overwrite, delete, compact | space accounting at the limits |
| heap file, table (`access/heap_file*`, `storage/table*`, `relation_manager*`) | pages; heap and its indexes | insert, delete, update | a failure between heap and indexes |
| B+ trees (`access/btree*`, `access/generic_btree*`) | tree pages, root, leaf chain | insert, delete, scan | splits, merges, iterators against writers |
| catalog (`catalog/*`) | relations, indexes, statistics | create, load, save | crash between catalog and files |
| executors, optimizer, SQL (`execution/`, `optimizer/`, `sql/`) | per query | operators, plan enumeration, parsing | correctness of algorithms |

How they interact. A statement runs under a transaction. The heap file and the
table layer ask the lock manager for a table lock (X for every write), record
locks and index key locks, fetch pages from the buffer pool, change them under
the page latch, append a record with full page images to the log, stamp the page
with the record's LSN, and unpin it dirty, which enters it in the dirty page
table. The buffer pool flushes the log up to a page's LSN before it writes the
page. Commit appends and flushes COMMIT, then releases all locks; Abort restores
before images from the log, then does the same with ABORT. The detector thread
marks a victim ABORTING and calls back into Abort. CreateCheckpoint reads the
tables of the transaction manager and the buffer pool. At startup the log is
trimmed and `Recover` runs before anything else.

What makes each part correct is stated as properties below; the places where it
could go wrong, with the property that would notice, are listed under "hazards"
in `PROJECT.json`.

## 2. Modules

| module | contents | composes |
|---|---|---|
| `LockManager` | the lock manager, the locking side of transactions, the detector | |
| `LockManagerProofs` | its inductive invariant and the theorems that follow, for TLAPS | `LockManager` |
| `WalRecovery` | log, write path, buffer flushes, checkpoints, crash, recovery | |
| `WalRecoveryProofs` | what a log says of transactions and pages, the inductive invariant and theorems | `WalRecovery` |
| `BufferPool` | frames, pins, clock, page allocation and free list, crashes inside a call | |
| `BufferPoolProofs` | its inductive invariant and theorems | `BufferPool` |
| `PageRetire` | epoch-based retirement of index pages | |
| `PageRetireProofs` | its inductive invariant and theorems, for TLAPS | `PageRetire` |
| `SlottedPage` | slots, lengths, free space, compaction (operators) | |
| `Table` | heap file, free space map, a table and its indexes, failing steps, commit, abort, restart | `SlottedPage`; implements `TableRows` |
| `TableRows` | abstract: a set of rows changed by whole statements | |
| `TableProofs` | its inductive invariant and theorems, that `Table` implements `TableRows`, and the soundness of its pages | `Table` |
| `BTreeNode` | node format, split, borrow and merge, the consistency checker (operators) | |
| `BTree` | the single-column tree, latch by latch, a writer beside a reader | `BTreeNode`; implements `OrderedIndex` |
| `GenericBTree` | the composite-key tree, insert, delete and scans | `BTreeNode`; implements `OrderedIndex` |
| `OrderedIndex` | abstract: a set of pairs of key and record | |
| `Executors` | joins, sort, top-N, set operations, aggregation | |
| `ExecutorsProofs` | an inductive invariant for each kind of operator and the theorems | `Executors` |
| `Catalog` | catalog, relation manager, CREATE TABLE, CREATE INDEX, INSERT, restarts | |
| `CatalogProofs` | its inductive invariant and theorems | `Catalog` |
| `NaturalLemmas` | least and greatest elements of sets of numbers, for the proofs | |

`MC...` modules give the instances for TLC.

Each module also holds a few definitions introduced by "Fault variant of ...":
they describe a plausible mistake in the code, are used by no specification, and
serve to show that a property notices the mistake.

### LockManager

Threads: one per transaction and the detector. What the code does under one hold
of `LockManager::latch_` is one step; the latch is given up in `cv.wait` and on
return. The detector keeps it while it chooses victims, which are several steps,
so all other latched steps require `LatchFree`.

| model | code |
|---|---|
| `mode`, `granted`, `ahead` | the `std::list` of requests of a queue: presence and mode, the granted flag, the order between requests of different transactions |
| `upgrading` | `upgrading_txn` |
| `held` | `Transaction::table_locks_`, `record_locks_` |
| `registered` | `LockManager::txn_table_` |
| `wait`, `asleep` | the arguments of the lock call a thread is in; the threads inside `cv.wait` |
| `victims` | the local vector in `DeadlockWorker` |
| `undo` | what the rollback a thread is running will overwrite |
| `Request`, `Resume` | the part of a lock call before and after `cv.wait` |
| `DetectVictim`, `ScanComplete`, `AbortCallback` | the body of `DeadlockWorker` |
| `FinishRollback`, `ReleaseAll`, `UnregisterTransaction` | the tails of Commit and Abort |

The queue is not a sequence because every loop in the code skips requests of its
own transaction; a relation between requests is all they look at, and it makes
the inductive invariant a first-order statement. `Whole` is the range of table
and record requests, so that one definition of `Blocks` covers `CanGrantRequest`
and `CanGrantKeyRangeRequest`. The victim of a cycle is the largest id on it;
which cycle the depth-first search finds depends on hash order, hence the set
`CycleVictims`. Calls that throw before they change anything (an invalid mode, a
record lock without a table lock) are guards. `CommitsAfterFailure` says whether
a client calls Commit after a lock call failed, as the regression program does.

### WalRecovery

The LSN of a record is its index in `log`. `durable` is how much of the log is
known to be synced, `persistent` is `persistent_lsn_`; the two differ, and some
of the weaknesses below come from the difference. Heap and index records all carry full
before and after images and are one type, UPDATE. A page stands for a relation
that a writer holds in mode X until it ends (`owner`, the lock manager reduced
to what writers use of it). Every write produces a fresh value, so a page that
holds the wrong version is noticed.

| model | code |
|---|---|
| `ModifyPage`, `LogUpdate`, `UnpinPage` | latch and change, append and stamp, unpin: the write path in `HeapFile` (the index code follows the same path) |
| `Commit`, `FlushEnd`, `EndTransaction` | `TransactionManager::Commit` in the steps other threads can see |
| `Abort`, `RollbackRecord`, `ApplyRollback`, `RollbackDone`, `LogAbort` | `Abort` and `RollbackTransaction` |
| `Evict` | `FlushFrame` of a victim frame |
| `BeginCheckpoint` ... `SetMasterCheckpointLSN` | `CreateCheckpoint` |
| `Crash` | loss of memory, `ScanWalFile`, `EnsureWalInitializedAndTrimmed`, the constructor |
| `AnalyzeRecord`, `AnalysisDone`, `RedoRecord`, `RedoDone`, `UndoRecord`, `UndoSkip`, `FinishAbortingTxn`, `UndoDone` | `Recover` |

`Crash` may happen between any two steps, recovery included, which subsumes the
fault injector's points. After a power failure the log is cut anywhere behind
the synced part (records are contiguous and `ScanWalFile` cuts at the first one
that does not parse). After the death of the process (`"process"`) all that was
written is still in the file, without being synced; a last record without images
may still have been in the stream's buffer (a record with page images is larger
than what the stream buffers). Page writes are taken to be atomic: the code has
neither checksums nor double writes, so a torn page is outside what it handles.
Undo of one record (append CLR, apply) is one step, because a crash forgets the
buffer and either order of CLR and flush is covered by `Evict` before the step. The three
passes go through the log record by record.

`Concurrent = FALSE` lets an operation start only when no other is under way,
which is how every program in the repository drives checkpoints and how the
crash tests run; `Concurrent = TRUE` lets operations and the checkpoint overlap,
which the latches of the code are meant to allow. `LogUpdate` is one step where the
code appends the record, then sets the transaction's last LSN, then the page's; with
one operation at a time nothing can come in between but a crash, which forgets the
two LSNs and the page.

### BufferPool

One relation file, a pool of `PoolSize` frames and clients that fetch, change,
unpin, allocate and free pages. Every call runs under the pool's latch, so a call
is one step, with two exceptions between whose steps only a crash can come. The
search for a victim is a step per frame the hand passes (`call.steps` counts
them). And a call that makes two changes durable is two steps: `AllocatePage` then
`NewPage`, and `DeletePage` then `PersistFreedPage`. A flush of several frames is
written in closed form (`FlushFrames`): they hold different pages, so the order of
the loop does not matter. The content of a page is a version number and `latest` remembers the
newest version a client gave it.

| model | code |
|---|---|
| `frame_table`, `page_table`, `dirty_pages`, `clock_hand` | the members of `BufferPoolManager` and `ClockReplacer` |
| `file`, `freelist`, `handle` | the relation file, the saved allocator state, `RelationHandle` in memory |
| `Sweeping`, `TurnHand`, `Takes`, `VictimFound`, `MaxSteps` | the loop of `ClockReplacer::Victim` |
| `FetchResident`, `FetchMiss`, `FetchFromDisk`, `NoFrameToPrepare` | `FetchPage`: a hit; a miss, with its two outcomes |
| `NewPageBegins`, `AllocatePage`, `NewPage` | `NewPage`: the victim, `DiskManager::AllocatePage`, the frame |
| `Trimmed`, `SavedByAllocate`, `Loadable` | `TrimTrailingFreePages`, `PersistAllocatorState`, the checks of `LoadAllocatorState` |
| `Shutdown`, `Crash`, `OpenRelation` | destructors, loss of memory, opening |

Clients fetch only pages that are allocated. `FetchPage` itself checks the length
of the file only, so a client that kept the number of a freed page could load it,
and after the page is allocated again two frames would hold it. `DiskManager` has
no latch; all concurrent callers come through the pool.

### PageRetire

`EnterEpoch` is two steps because it reads the epoch before it takes the latch.
`linked` and `seen` are not in the code: they say which pages an operation may
have found a link to. The callback the trees register always succeeds and keeps
the page for recovery, so today a page is never really freed.

### SlottedPage and Table

A statement is a heap step and one step per index. Each step may throw
(`StepThrows`) and then the steps done are taken back in the order of the catch
blocks, which may throw as well (`UndoThrows`). An index step may throw before it
changed its index (the pool has no frame) or after: both trees write the leaf first
and split or merge the pages above it afterwards, and a merge that does not fit
throws (`btree_insert.cpp:384`, `btree_delete_entry.cpp:320`,
`generic_btree_modify.cpp:375`). The catch blocks take back the steps *before* the
one that threw, so an insert that threw half-way leaves an entry of a tuple that is
deleted again, and a delete that threw half-way leaves a live tuple without its
entry. The history variable `torn` holds the indexes to which this, or a failing
rollback step, happened; what they answer from then on is left open (`MaySucceed`,
`MayFail`), and the properties are about the others. An abort restores pages from
their before images, so it mends the indexes torn since the last commit; it leaves
the free space map as it is, and a restart rebuilds the map.

An index that is not torn is the set of pairs `OrderedIndex` describes. A throwing
`GenericBTree` call leaves page latches and pins behind in the code, so that later
calls on that index may block; the model lets them go on, which covers more.

| model | code |
|---|---|
| `heap`, `fsm`, `entries`, `attached` | pages, `FreeSpaceMap`, the indexes and which exist |
| `torn` | not in the code: the indexes a failing step put out of step with the heap |
| `call` | the statement under way: steps to do, steps done, the rows from before |
| `InsertTuple`, `DeleteTuple`, `UpdateInPlace`, `MoveTuple`, `UpdateTuple` | the operations of `Table` and `HeapFile`, validation included |
| `CandidatePages`, `TriedBefore`, `IsPageForInsert` | the search of `InsertTupleImpl` through the map, which may be out of date |
| `CreateIndex` | building an index over the rows there are |
| `NextStep`, `StepThrows`, `UndoStep`, `UndoThrows` | the loops and catch blocks |
| `MoveFails` | `HeapFile::UpdateTupleImpl` returning false, or throwing, with the new tuple in place and the old one not deleted |

The table lock in mode X keeps others away, so the record lock asked for under a
page latch never waits. What may stay behind after a failure is in the abstract
specification too (`LeaveBehind`, `LoseConstraints` in `TableRows`), so
`ImplementsTable` says that there is nothing else.

### BTreeNode, BTree, GenericBTree

A page is the record its bytes decode to. Entries have a fixed size and a node a
capacity in bytes, so the thresholds of the code (what fits, what is underfull,
who can lend) are the code's formulas with small numbers. The numbers are chosen so
that the capacity is no multiple of twice an entry, as in the code (8134 bytes for
leaf entries of 28, 8136 for 26, 8140 for internal entries of 20): two underfull
neighbours may then be too large for one page, and the merge throws after the entry
was removed.

`BTree` has one writer and one reader. `Table` holds the index relation in mode X
around every change, so writers follow one another (two would be able to lose a
root split); searches and iterators take page latches only. A step ends where a
thread asks for its next latch.

| model | code |
|---|---|
| `w.held`, `w.path`, `w.todo` | write latches, the frames of the path, latches asked for |
| `BeginInsert` ... `AcceptChild` | latch coupling, with safe nodes releasing what is above |
| `InsertIntoLeaf`, `InsertIntoParent`, `GrowRoot`, `WriteMetaPage` | `Insert` and split propagation |
| `DeleteFromLeaf`, `BorrowLeft`, `BorrowRight`, `MergeLeft`, `MergeRight`, `FinishFix` | `DeleteEntry` and its fix-up loop |
| `RelatchPair` | `relatch_pair`: give up the node's latch, take both in page order |
| `DescendStep`, `ReturnLeaf`, `ReadStep` | `FindLeafPageNoEncoded`, `Search` |
| `AdvanceStep`, `IteratorNext` | `BTreeIndexIterator` |

`btree_delete_recursive.cpp` and lines 17-160 of `btree_insert.cpp` are called by
nobody. On a retired leaf `AdvanceToNextValid` releases the latch twice; the model
ends the iterator in a state of its own there. A leaf or internal merge that does not
fit throws (`Throw`), the pages changed so far staying as they are.

`GenericBTree` treats one call as one step. Its operators are recursive, as the
code is. Where `std::sort` meets equal keys the order is taken to be stable. In a
tree of three levels a delete latches for reading a page it holds for writing, and
throws; a merge that does not fit throws in any tree of two levels or more. After an
exception the calls end.

Two things the code does not keep apart, and the history variables that mark them:

- Delete raises the separator above a leaf whose first key went and leaves the high
  key of the leaf to the left. A key inserted into that gap (`InGap`) is led to the
  left leaf and from there, by its high key, to the right one, below that leaf's
  fence. Scans and searches still find the key; the consistency checker objects
  (`tools/consistency_checker.cpp:351`), and `Shape` says nothing from then on.
  Deleting such a key again raises the separator of the *left* leaf: the order of
  the separators and the order of the leaf chain part, and a later merge joins
  leaves that are not neighbours and loses entries (`MCGenericGaps`). `strays` counts
  such inserts, and `MaxStrays` of them end the calls.
- A key for two records may stand in two leaves, with an equal separator in between.
  Descents go right of it, so a search, a delete or a scan that starts at the key
  misses the entry on the left (`MCGenericDuplicates`). `repeated` holds the keys that
  were stored for two records at once; the properties say that no other entry is ever
  missed, and that the delete which misses one changes nothing.

### Executors

The initial state chooses an operator and the rows of its children; a step is one
iteration of the operator's loop. NULL is 0 and sorts first. The rows of joins
have no NULL keys: a hash join takes two NULLs for equal
(`SerializeValueForHash`), a nested loop does not, merge and index joins throw,
and a hash join never matches an INT32 with an INT64. Aggregation takes NULL group
keys: hashing returns their group, streaming throws on them (`SameGroup` calls
`CompareValues`) as soon as there is a second row, and `AggregatesAgree` says that
this is the only difference but one: without GROUP BY an empty input gives streaming
a tuple without columns (`emit_empty_`, "scalarStream"), which the planner does not
reach, because it streams only when there is something to group by
(`planner_frontend_select.cpp:255`). Group keys in the model cannot contain the
separator of the code's key text. Scans, filters, projections
and limits hand rows on and are left out; `merge_fan_in` is at least 2 (with 1 the
merge loop does not end).

### Catalog

One thread runs statements without a transaction. A statement is cut where it
makes something durable. The pool may write any of its pages at any time
(`FlushFrame`).

| model | code |
|---|---|
| `file`, `saved` | files by path, `catalog.txt` (replaced atomically) |
| `catalog`, `known`, `next_id`, `handle`, `pool` | `CatalogManager`, `RelationManager`, open relations, dirty pages |
| `CreateHeapRelation`, `RegisterRelation` | `ExecuteCreateTable` |
| `CreateIndexRelation`, `InitializeIfNeeded`, `BuildIndex`, `RegisterIndex`, `CleanUp` | `ExecuteCreateIndex` and its catch block |
| `InsertTuple` | `ExecuteInsert` |
| `Shutdown`, `Crash`, `Start` | destructors, loss of memory, `BootstrapFromCatalog` |

`Put` is the change and dirty unpin of a page. `Shutdown` follows the `FlushFrame`
steps that empty the pool.

No code asks whether an index name is in use before `CREATE INDEX` truncates the file
of that name. The model follows what happens then: the old index's handle goes on
writing into the same file; when the name is taken on the same table too, the catch
block removes the file, after which `Sync`, which opens files by name, throws for the
old index's pages, also out of the destructor, which ends the program
(`Shutdown` with pages left); a file left empty by a crash gets a new, empty tree at
the next start (`EmptyIndexes`). The history variable `reused` holds the names given
to CREATE INDEX while in use, and the properties say what is kept for the others and
for all tables. Two bounds: such a name is taken a second time and not a third, and a
table is not inserted into once the file of one of its indexes was taken
(the index is then two trees over one file).

`Crash` is the end of the process without its destructors; what was written is on
disk. A save that throws is not modelled; it would leave the entry in memory with a
pointer to an index that was destroyed. Nor are the parsing of `catalog.txt` and its
older formats: `Start` begins with what `Save` wrote.

## 3. Runs

| run | bounds | shows |
|---|---|---|
| `MCLockSafety` | 2 transactions, a table (IX, S and what escalation asks for), a record with escalation at one record, an index with overlapping ranges | held locks compatible, queues fair and clean, victims can be aborted, no key under conflicting locks |
| `MCLockLiveness` | 2 transactions, 2 tables, fairness | deadlocks are broken |
| `MCWalRecovery` | 2 transactions, 1 page, 2 writes, 3 power failures, 1 checkpoint, fairness of recovery | the committed state is restored, redo repeats history, disk images are logged, acknowledged commits are durable, recovery ends |
| `MCBufferPool` | 3 clients (symmetric), 2 frames, 3 pages, 2 versions, 2 frees, 1 crash | pool tables agree, pinned pages stay, no update is lost, no used page is free, the clock finds a victim, the free list loads |
| `MCPageRetire` | 3 operations, 2 pages | no page reclaimed under a guard, nothing left when no guard is active |
| `MCTable` | 2 pages of two or three records, 2 indexes (one unique), 3 tuples, 4 statements, 2 failing steps, 1 abort | pages sound, space not overstated; in the indexes that are not torn, no dangling entry at any step and agreement with the heap between statements; `TableRows` is implemented |
| `MCBTree` | nodes of at most four entries; starts from seven trees of one to three levels, six keys, two changes | shape, descents reach their leaf, latch cycles only through `relatch_pair`, `OrderedIndex` is implemented |
| `MCGenericBTree` | 6 keys of two columns, one of them for two records, leaves of four and internal nodes of two entries, starts from three trees, 2 retired pages, calls up to the first insert into a gap | shape until then, every prefix and range scan and exact search misses at most the repeated key, `OrderedIndex` is implemented |
| `MCExecutors` | inputs of up to 3 rows over 3 keys and NULL, 5 rows to sort, runs of 2, fan-in 2 | joins, orderings, set operations and aggregates equal their definitions; streaming throws exactly on a NULL among several rows |
| `MCCatalog` | 2 tables, an index name taken up to twice, 2 rows with one key, 4 ids, 1 crash; table names symmetric | the catalog names only files that are there, ids lead to their files, closing keeps all rows and entries; each for relations whose name was not taken again |
| `MCWalCheckpointCommit` | 1 transaction, 1 checkpoint, overlapping | violated: a committed transaction is undone |
| `MCIteratorOrder` | a leaf of four entries, one insert beside an iterator | violated: after 4 the iterator returns 3 again, because the leaf split under it |

`CHECK_DEADLOCK FALSE` stands where a behaviour stops when its bounds are used up
or a call has thrown; `MCPageRetire`, `MCExecutors` and `MCCatalog` check deadlock.

Why the bounds are enough. Two transactions give every upgrade conflict and every
two-party deadlock; a third, a waiter behind a waiter, is in `MCLockTables.cfg`,
and the proofs remove the bounds for the safety properties. Three crashes let
recovery be interrupted twice and ids and LSNs be used again after two restarts;
two writes give a transaction two records to undo, or one winner and one loser.
Two frames and three pages force eviction while a page is pinned; three clients can
pin both frames and ask for a third, so that the clock gives up. Two guards of
different age and a third between its two entry steps are all that
`ComputeSafeEpochLocked` can tell apart. The initial trees of `MCBTree`, each built
by the inserts its comment lists, bring every case within two changes: a root that
splits, internal nodes that lend to the left and to the right, that merge so that the
tree loses a level, and leaves and internal nodes that can neither lend nor merge.
Four ids are two tables and an index created twice, the second time on the same
table or on the other one. Three rows give a duplicate on each side of a
join and a third row after it; five rows make three runs, hence two merge passes.

Fairness. In `LockManager` a thread that can run runs (`ClientStep`, the
detector), and a client between calls ends its transaction (an assumption about
clients, without which nobody has to get a lock). No fairness is assumed of
spurious wakeups. That every lock call returns is not stated: the lost wakeup below
breaks it for three transactions. Recovery runs in the
only thread the program has at startup, hence weak fairness of `RecoveryStep`;
crashes are bounded, not unfair.

Refinement. `OrderedIndex` has the call in its state: its operation, its pair and
its answer. `ImplementsIndex` maps the abstract index to the entries in the live
leaves: of all the steps of a call one changes them, by the call's own pair, and the
splits, borrows and merges around it stutter; a delete answers whether its pair was
there, and an exception may leave the pair removed. For `GenericBTree` the abstract
index is what a full scan returns, and a delete may answer "absent" for a stored pair
only if its key is in `repeated`. `ImplementsTable` maps the abstract rows to the heap
between statements and to the rows from before while a statement is under way, so a
statement that failed half-way and was taken back is a stutter.

### Further instances

These configurations are kept beside the runs. The first group passes with larger
or other bounds:

| configuration | module | result |
|---|---|---|
| `MCLockTables` | `MCLockManager` | 3 transactions, 2 tables: the safety properties and `UpgradeMarkIsLive` hold |
| `MCLockRecords`, `MCLockRanges` | `MCLockManager` | the inductive invariant `LockInv` holds, with five modes and escalation at two, and with touching, overlapping and unbounded ranges |
| `MCWalSequential` | `MCWalRecovery` | 2 pages: the safety properties and `WinnersNotUndone` hold |
| `MCWalRestarts` | `MCWalRecovery` | 3 transactions of one id over 3 restarts: the same, and recovery ends |
| `MCCatalogTwoNames` | `MCCatalog` | 2 index names, 3 ids: the properties of `MCCatalog` |

The second group shows weaknesses; each property is violated:

| configuration | property | what happens |
|---|---|---|
| `MCLostWakeup` | `SleepersCanBeWoken` | everyone asleep without a deadlock: a lock is granted without a notification |
| `MCCommitHang` | `CommitReturns` | every lock call returned true and Commit never returns |
| `MCDoubleRollback` | `RollbackIsolated` | client and detector roll one transaction back at the same time, over another's lock |
| `MCVictimLosesLock` | `LocksHeldUntilRolledBack` | the victim's old lock disappears with its upgrade before it is rolled back |
| `MCWalUnloggedFlush` | `CommittedStateRestored` | a rollback flushes a page another thread is changing: an unlogged change survives a crash |
| `MCGenericDuplicates` | `SearchesComplete` | equal keys over several leaves: search and delete miss those to the left. `Table::UpdateTuple` inserts the entry of a moved tuple before it deletes the old one, so keys repeat for a moment even in a unique index |
| `MCGenericGaps` | `ScansMatch` | a key inserted into a gap and deleted again raises the wrong separator; a later merge joins leaves that are not neighbours and a scan misses entries |
| `MCDuplicateIndex` | `EveryIndexHasItsFile` | CREATE INDEX under a name in use truncates the existing index's file, is refused, and its error path removes the file |
| `MCIndexNotFlushed` | `OpensAfterCrash` | a crash after CREATE INDEX leaves a metapage of zeros and the program refuses to start |

Other instances of `WalRecovery`: with `Concurrent = TRUE` a checkpoint between
`LogUpdate` and `UnpinPage` misses the page in the dirty page table and redo skips
the record (`HistoryRepeated` fails). With `CrashKinds = {"power", "process"}` the
log that survives the death of the process is taken for synced, and a power
failure after the restart leaves changes on disk that no record describes.
`persistent_lsn_` starts as the end of the file, so the first record appended
after opening is not synced before its page is written; the state is still
restored, because the next recovery appends the same record again.

In `BufferPool` a crash inside a DeallocatePage that shrank the file leaves a free
list that names missing pages, and OpenRelation refuses the file;
`AllocatorStateLoads` says that no other crash does.

The two findings are described, with the lines they rest on, in `PROJECT.json`.

## 4. Proofs

Every theorem holds for all values of the constants that satisfy the named
assumptions; the bounds of the runs play no part.

### LockManager

`LockManagerProofs` proves, for every set of transactions, tables, records,
indexes and key ranges, every escalation threshold and both client policies:

| theorem | statement |
|---|---|
| `LockInvariant` | `Spec => []LockInv` |
| `TypeCorrect` | `Spec => []TypeOK` |
| `LocksCompatible` | `Spec => []HeldLocksCompatible` |
| `KeysProtected` | `Spec => []KeyLocksCompatible` |
| `NeverOvertaken` | `Spec => []NoOvertaking` |
| `VictimsCanBeAborted` | `Spec => []WaitersAreAbortable` |
| `NoStaleUpgradeMark` | `Spec => []UpgradeMarkIsLive` |
| `QueuesAreCleaned` | `Spec => []NothingLeftBehind` |

Assumptions, all named in `LockManager`: ids are positive, the three kinds of
resources are disjoint, every record has a relation, keys are naturals, ranges
and modes are what their names say.

The argument. Compatibility of held locks is not inductive: what keeps a
conflicting request from being granted is in the queue, so `HeldAgreesWithQueues`
ties a transaction's own lock table to its requests. During an upgrade the queue
shows an ungranted request with the new mode, and the old lock lives on only in
`held` and in the upgrade mark. That it still protects rests on order: a request
behind a waiting one is not granted (`NoOvertaking`), everything in front of an
upgrade is granted (`UpgradeIsInFront`), and only one upgrade is under way per
queue (`UpgradeMarkIsLive`). `ProtectionCompatible` then says that any two
overlapping requests protect compatibly, where an upgrade protects with its old
mode. Cleanliness of the queues needs to know who may have a waiting request
(`WaitersAreAbortable`), which needs what each program point knows of its
transaction (`ThreadInv`). `LockInv` is the conjunction; each action has a lemma
that it preserves it, split by conjunct, and `NextLockInv` collects them. The
instances `MCLockRecords` and `MCLockRanges` check `LockInv` itself.

### PageRetire

`PageRetireProofs` proves for every set of operations and pages, assuming only
that `MaxEpoch` is a natural number:

| theorem | statement |
|---|---|
| `RetireInvariant` | `Spec => []RetireInv` |
| `RetirementIsSafe` | `Spec => []GuardedPagesKept` |
| `RetirementLeavesNothing` | `Spec => []NothingWaitsForNobody` |

The argument. An operation may register an epoch that is long past, because it
read it before it took the latch; that only makes it hold back more. What has to
be shown is that it holds back enough: a page it has seen and that is retired was
retired in an epoch after the one it registered. This holds because it starts to
follow links only after it has registered, when the page was still linked, and
every retirement raises the epoch. `RetireInv` says so, and that what an operation
has seen is linked or retired, hence not reclaimed.

### BufferPool

`BufferPoolProofs` proves for every pool size, usage limit, file size, number of
changes, frees and crashes, and every finite set of clients:

| theorem | statement |
|---|---|
| `PoolInvariant` | `Spec => []PoolInv` |
| `PoolIsConsistent` | `Spec => []PoolConsistent` |
| `PinsProtectPages` | `Spec => []PinnedPagesStay` |
| `NoUpdateIsLost` | `Spec => []NoLostUpdate` |
| `AllocatorIsSafe` | `Spec => []UsedPagesAreNotFree` |
| `VictimIsFound` | `Spec => []VictimExists` |
| `AllocatorStateIsLoadable` | `Spec => []AllocatorStateLoads` |

The assumptions are that the bounds are natural numbers, that there is a frame, and
that clients are finitely many, because a pin count counts them.

The argument. Page table and frames are inverse to each other (`FramesSound`), the
dirty page table is the set of dirty frames (`DirtyPagesSound`), and the pin count
of a frame is the number of clients that use it (`PinsSound`): so a frame the clock
may take is used by nobody, and a dirty one is written before it is reused. Two
things had to be added. A page in use is inside the file and on neither free list,
the one in memory and the saved one (`PagesExist`), and a page between
`AllocatePage` and `NewPage` is on no list and used by nobody (`CallSound`).
`StepsSuffice` is the argument for `max_steps`: a frame without pins whose usage is
u is taken when the hand comes to it for the u+1st time, so the steps left always
exceed u times the pool size plus the distance of the hand. Without this the clock
could return no victim although a frame is free, and `FetchPage` would fail.

`NaturalLemmas` supplies the only induction needed, that a set of natural numbers
has a least element, from the well-foundedness theorem of the library.

### WalRecovery

For every set of pages and of transaction ids, and every bound on transactions,
writes, checkpoints and crashes, `WalRecoveryProofs` proves, assuming `OneAtATime`:

| theorem | statement |
|---|---|
| `RecoveryInvariant` | `Spec => []RecoveryInv` |
| `CommittedStateIsRestored` | `Spec => []CommittedStateRestored` |
| `RedoRepeatsHistory` | `Spec => []HistoryRepeated` |
| `DiskFollowsLog` | `Spec => []DiskImagesAreLogged` |
| `CommitIsDurable` | `Spec => []AcknowledgedIsDurable` |

`OneAtATime` says that an operation, an abort or a checkpoint ends before the next
one begins (transactions themselves still overlap) and that crashes are power
failures. Neither can be dropped: `MCWalCheckpointCommit` and `MCWalUnloggedFlush`
violate `WinnersNotUndone` and `CommittedStateRestored` with overlapping operations,
and the death of the process followed by a power failure violates the latter too
(section 3).

The argument has two halves. The first is about the log alone.
Each record is justified by the records before it (`RecordSound`: an UPDATE is by a
transaction that runs, on a page no other running transaction has changed, with the
page's value as before image; a CLR compensates the update its transaction has to
undo next; a COMMIT follows no CLR). From this follow, by a least counterexample,
`Exclusive` (two running transactions share no page) and `Restorable` (the first
update of a page still to be undone was made to the committed value; a page with
none to undo holds it). They hold of every prefix, so cutting the log at a crash
keeps them. The second half (`RecoveryInv`) relates the state to the log: what is on
disk and in the pool is the image of a record (`DiskSound`, `PoolSound`); a page
that is older on disk is in the dirty page table from its first missing record on
(`DirtyPagesCovered`), also in the one a checkpoint saved (`CheckpointsSound`); the
tables of recovery say of the records read so far what the log says
(`AnalysisSound`), redo has brought the pages up to its cursor (`RedoSound`), and
undo has exactly the running transactions left, each where its rollback is to go on
(`UndoSound`).

One part of the code made the invariant harder than it looks. After a restart
`persistent_lsn_` is one more than the number of records, so `FlushUpTo` does not
sync the first new record, and its page may reach the disk before it: the
write-ahead rule is broken for one record. The state is restored nevertheless,
because a first record that changes a page is a CLR written by undo (an UPDATE comes
after its BEGIN), and the next recovery finds the same log and writes the same CLR
again. `CompensatesFirst` in `DiskSound` says this.

### Catalog

`CatalogProofs` proves for all tables, indexes, rows, keys and bounds, and for
clients that give CREATE INDEX any name:

| theorem | statement |
|---|---|
| `CatalogInvariant` | `Spec => []CatalogInv` |
| `CatalogNamesItsFiles` | `Spec => []CatalogNamesFiles` |
| `IdsAreSafe` | `Spec => []IdsLeadToTheirFiles` |
| `CleanRestart` | `Spec => []CleanRestartKeepsAll` |

The statements except what a CREATE INDEX under a name in use destroys (`reused`):
`MCDuplicateIndex` has the index that loses its file. What is proved is that nothing
else is lost: no table, and no index of another name.

The argument. Running, the catalog in memory is the saved one (`MemoryMatches`), its
ids and names are used once (`EntriesDistinct`) and lie behind `next_relation_id_`
(`IdsBehind`), which `BootstrapFromCatalog` restores from tables and indexes
together. So a new relation gets an id of its own, and a file of its own unless its
name is in `reused`; the statement under way has a relation whose file no table and no
index of another name has (`StatementSound`), and which its catch block may destroy. The pool holds pages of open relations only, each with its
place in its file (`PoolOwned`, `HandlesOpen`), so write-back never touches a foreign
file. For the rows, `RelationsKept` and `NewIndexKept` say what pool and file hold
together, page by page; `FlushFrame` moves a page from the one to the other, and
`Shutdown` finds the pool empty. These last two, and `CleanRestartKeepsAll`
itself, are about histories without a crash in which no name was taken again
(`Undisturbed`); the others hold in all.

### Table

`TableProofs` proves for all indexes, tuples, keys, tuple and page sizes and bounds:

| theorem | statement |
|---|---|
| `TableInvariant` | `Spec => []TableInv` |
| `EntriesReferToTuples` | `Spec => []NoDanglingEntries` |
| `IndexesFollowTheHeap` | `Spec => []IndexesAgree` |
| `StatementsAreAtomic` | `Spec => ImplementsTable` |
| `PagesInvariant` | `Spec => []PagesInv` |
| `RecordsKeepApart` | `Spec => []PagesSound` |
| `FreeSpaceIsReal` | `Spec => []FreeSpaceNotOverstated` |

The assumptions are that index ids are positive, finitely many, and that the unique
indexes are among them (`TableAssumption`), and, for the last three theorems, that
every tuple and its slot fit an empty page (`SizeAssumption`): `InsertTupleImpl`
refuses the others before it does anything.

The argument. Everything is said of the indexes that are not torn (`Sound`), a set
that only shrinks within a statement: a step on a torn index touches none of them.
`IndexesAgree` is about the time between statements; the invariant has
to say what is true inside one. Let R be the rows of the heap, E the entries of the
indexes and B the rows from before the statement (`call.before`). `Doing` says that
if the steps left are taken, E becomes the entries of the rows that survive them;
`Undoing` says that if the steps done are taken back, R becomes B and E the entries
of B. Both treat the steps as a set, which is right because a step only inserts an
entry of a new row or deletes one of an old row (`ForwardStep`, `BackwardStep`), and
rows have different rids, so no step touches what another one does
(`EntriesApart`). That a tuple is deleted last (`DeletesLast`) keeps R fixed until
then; it is also why a delete never has to be taken back. A step moves from `Doing`
to `Undoing` (`DoingShrinks`, `UndoingGrows`), a throw turns the steps done into the
steps of the rollback, and the last step of either leaves indexes and heap in
agreement (`NothingLeft`, `DeleteLeft`). `Allowed` keeps what the statement is going
to make of B: the abstract step that its last step implements, the others being
invisible in `TableRows`. A step that throws after it changed its index makes that
index torn and leaves the rest as it was; a rollback step that fails does the same, or,
when it is the removal of the new tuple, tears all indexes and leaves a row behind,
which is a step of `TableRows` (`LeaveBehind`, `LoseConstraints`). A commit saves what
is torn with the rest, and an abort restores entries, heap and `torn` as saved, which
agree (`SavedSound`).

Of a page this part of the proof needs the slots, their states and their tuples:
compaction keeps them (`Compacted`), an insert takes a slot nobody has (`SlotTaken`).
Offsets and lengths are left open (the parameter V of `Page`).

They are the matter of the second part. `PagesSound` alone is not inductive: that an
update in place or the reuse of a deleted slot leaves room needs an account of all
bytes. `BytesSound` gives it: `upper` and the lengths of all slots, the deleted ones
included, never exceed the page. `SumOfLengths` is a recursive
function, which `SumIsRunningSum` unfolds, and what is needed of it (`SumsAdd`, `SumsCompare`,
`SumWithSlot`) follows by a least counterexample. Compaction lays the live records from
the end of the page downwards, one below the other (`CompactedIs`), which keeps them
apart and leaves `upper` at what the live lengths leave free (`CompactedSound`). An
insert, directly or after a compaction, an overwrite and a delete each keep
`PageSound`; an abort puts back pages for which it holds too, so the invariant speaks
of `saved.heap` as well.

### Executors

`ExecutorsProofs` proves for inputs of any length and all keys, run capacities, merge
fan-ins, memory budgets, batch limits and limits:

| theorem | statement |
|---|---|
| `JoinsInvariant` | `Spec => []JoinInv` |
| `JoinsReturnEveryMatchOnce` | `Spec => []JoinsAgree` |
| `OrderInvariant` | `Spec => []OrderInv` |
| `SortsAndLimits` | `Spec => []OrderingCorrect` |
| `SetInvariant` | `Spec => []SetInv` |
| `SetOperationsFollowSQL` | `Spec => []SetOperationsCorrect` |
| `AggregateInvariant` | `Spec => []AggInv` |
| `AggregationsFollowSQL` | `Spec => []AggregatesAgree` |

The assumptions. `BoundsAssumption`: keys are positive numbers, a run and the memory
budget have room for a row (their defaults are far greater), the merge fan-in is at
least 2. `SerializeAssumption`: `SerializeValueForHash` gives different keys different
texts, which is true of INT32, INT64 and BOOLEAN keys and false of two DOUBLEs that
agree in six digits and of NULL and the VARCHAR 'NULL'.

Joins. `Yields` says that what was returned lists once each the pairs of an outer row
i and the inner rows P[i]. Every join has its own P: the pairs before its two positions
for the nested loop; for the lookups `Probed`, the outer rows that are done and the
matches taken of the current one. In the hash join the rows done are those of the
batches before and the probe rows before in this one, and two rows with equal keys fall
in the same batch (`BatchOf`); in the memoized join a cached list is what a lookup would
find (`CacheOK`). For the merge join the pairs of all groups passed are done, and
within a group the outer rows before the current one; going back to the mark is right
because the mark is the first inner row of the group (`MergeEmit`, `MergeOuter`).

Sort and top-N. `Files` says that sorted files share no row and hold a given set.
During a pass `Split` divides the rows of the input between the files that wait, the
group, what is merged of it and the files of the next pass; what is merged is not
greater than what the group still has, so the least head extends it in order. For
top-N no row outside the heap that was read is less than one inside it.

Set operations. Both children stand at a `Boundary` between groups; `Counted` says that
the copies returned, with those still owed of the last row, are what SQL asks for the
groups left behind on the left, and `Behind` that the groups left behind on the right
come before the next left row.

Aggregations. `AggOf` says what the rows at a set of places amount to, and
`AggOfApply` that `ApplyAggregateRow` adds a place; `Listed`, that the rows returned are
those of the groups of a set of keys, each once. Streaming has listed the keys read but
the last and accumulates that one; order in the input makes a group that ended
complete (`StreamGroupEnds`). Hashing has listed the keys of the batches before but
those in its table, and a batch has all the rows of its keys (`BatchTable`). That
streaming throws before it has returned anything rests on NULL sorting first: the
NULL rows are the first group. The folds
of the model and of the property are recursive functions: `IterateExists` shows by a
least counterexample that such a function exists, which is what unfolding it needs.

### Only model-checked

- liveness (`DeadlocksAreBroken`, `RecoveryCompletes`), which rests on fairness;
- `BTree` and `GenericBTree` (`Shape`, `DescentReachesLeaf`, `CyclesOnlyInRelatch`,
  `ScansMatch`, and that they implement `OrderedIndex`): what a
  descent or a scan of any depth finds is written with recursive operators over pages
  (`BTreeNode`), which the prover does not take.

## 5. Not modelled

Not modelled, with the reason:

- the optimizer: its choices rest on floating-point costs. Read for its effect on
  results: a WHERE clause that is not a conjunction of simple comparisons is not
  collected by `CollectConjunctiveBasePredicates`, and `planner_frontend_select.cpp`
  puts a filter on top for joins and for paths marked for a recheck only;
- lexer, parser and binder: functions of text without state. Of the front end the
  statements that change files are in `Catalog`. Multi-row UPDATE and DELETE are
  loops over `Table` operations without a transaction, atomic row by row;
- byte layouts of tuples, keys, log records and the older catalog formats; loading
  a catalog splits and unescapes each field twice, which matters for names with a
  backslash only, and SQL identifiers have none;
- statistics; value types; test and benchmark programs, which were read for what
  they expect. What the consistency checker asks of a tree is `Shape`.

What would come next: the operators of `BTreeNode` written as recursive functions, as
`Executors` and `SlottedPage` have theirs, and on top of them the order in which
latches are taken (`CyclesOnlyInRelatch`) and the shape of the tree as theorems.
