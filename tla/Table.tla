-------------------------------- MODULE Table --------------------------------
(***************************************************************************)
(* A table with its indexes: Table (src/storage/table.cpp) over the heap   *)
(* file (src/access/heap_file.cpp), its slotted pages and its free space   *)
(* map.  An insert, a delete or an update is a heap change and one change  *)
(* of every index; each of them is a step that may throw (no frame in the  *)
(* pool, a merge that does not fit), before or after it changed the index, *)
(* and then the steps done so far are taken back one by one, which may     *)
(* throw as well.  The step that threw is not taken back.  A transaction   *)
(* holds the table and its indexes in mode X until it ends, so statements  *)
(* follow one another; an abort puts the pages back as they were, and      *)
(* nothing else.  An index is the set of pairs that BTree and GenericBTree *)
(* implement.                                                              *)
(***************************************************************************)
EXTENDS SlottedPage

CONSTANTS
    Index,          \* index_relation_id of the indexes; naturals
    UniqueIndex,    \* the unique ones
    Tuple,          \* the tuples clients write
    KeyOf(_, _),    \* ExtractKey: the key a tuple has in an index
    Null,           \* a key with a NULL component
    SizeOf(_),      \* bytes of the encoded tuple
    BucketBytes,    \* bucket_size_ of the free space map
    MaxPages,       \* bound: pages of the heap
    MaxStatements,  \* bound: statements
    MaxFailures,    \* bound: steps that throw
    MaxAborts       \* bound: aborts

ASSUME TableAssumption ==
    /\ Index \subseteq Nat \ {0} /\ IsFiniteSet(Index) /\ UniqueIndex \subseteq Index
    /\ MaxPages \in Nat /\ MaxStatements \in Nat /\ MaxFailures \in Nat /\ MaxAborts \in Nat

\* A tuple that does not fit an empty page is refused before anything is done.
ASSUME SizeAssumption ==
    /\ PageBytes \in Nat /\ SlotBytes \in Nat
    /\ \A t \in Tuple : SizeOf(t) \in Nat /\ SizeOf(t) + SlotBytes <= PageBytes

VARIABLES
    heap,       \* the heap: a sequence of pages
    fsm,        \* exact_free_bytes of each page
    attached,   \* the indexes the catalog has
    entries,    \* the entries of each index
    torn,       \* history: the indexes a failing step put out of step with the heap
    call,       \* the statement under way
    saved,      \* the pages as they were at Begin
    counts

vars == <<heap, fsm, attached, entries, torn, call, saved, counts>>

NoRid == <<0, 0>>

\* The live tuples of page number p, and of all pages, as HeapFileIterator finds them.
RowsIn(p, page) ==
    {[rid |-> <<p, n>>, tuple |-> page.slots[n].tuple] : n \in Slots(page, "OCCUPIED")}

RowsOf(pages) == UNION {RowsIn(p, pages[p]) : p \in DOMAIN pages}

Rows == RowsOf(heap)

Idle == [op |-> "none", todo |-> <<>>, done |-> <<>>, before |-> {}]

Init ==
    /\ heap = <<>> /\ fsm = <<>>
    /\ attached \in SUBSET Index
    /\ entries = [i \in Index |-> {}]
    /\ torn = {}
    /\ call = Idle
    /\ saved = [heap |-> <<>>, entries |-> entries, torn |-> {}]
    /\ counts = [statements |-> 0, failures |-> 0, aborts |-> 0]

-----------------------------------------------------------------------------
(* The heap file.                                                          *)

BucketForFreeBytes(bytes) == bytes \div BucketBytes

\* GetCandidatePages: the emptiest bucket first, by page number within one.
CandidatePages(len) == {p \in DOMAIN fsm : fsm[p] >= len}

TriedBefore(p, q) ==
    \/ BucketForFreeBytes(fsm[p]) > BucketForFreeBytes(fsm[q])
    \/ BucketForFreeBytes(fsm[p]) = BucketForFreeBytes(fsm[q]) /\ p < q

\* A page of zeros is initialised on first use.
Usable(page) == IF page.initialized THEN page ELSE Initialize

\* The first candidate that really has room (the map may be out of date), or a
\* new page.
IsPageForInsert(p, len) ==
    LET fitting == {q \in CandidatePages(len) : CanInsert(Usable(heap[q]), len)}
    IN  IF fitting = {} THEN p = Len(heap) + 1
        ELSE p \in fitting /\ \A q \in fitting \ {p} : TriedBefore(p, q)

\* InsertTupleImpl.
Inserted(p, t) ==
    LET page == IF p > Len(heap) THEN Initialize ELSE Usable(heap[p])
        filled == InsertRecord(page, t, SizeOf(t))
    IN [page |-> filled, rid |-> <<p, SlotForInsert(page)>>]

SetPage(p, page) ==
    /\ heap' = [q \in 1 .. Max({p, Len(heap)}) |-> IF q = p THEN page ELSE heap[q]]
    /\ fsm' = [q \in 1 .. Max({p, Len(heap)}) |->
                    IF q = p THEN GetMaxInsertableBytesAfterCompaction(page) ELSE fsm[q]]

\* DeleteTupleImpl on a live tuple.
HeapDelete(rid) == SetPage(rid[1], DeleteRecord(heap[rid[1]], rid[2]))

CanUpdateTupleInPlace(rid, t) == SizeOf(t) <= heap[rid[1]].slots[rid[2]].length

-----------------------------------------------------------------------------
(* Index maintenance.                                                      *)

\* The indexes by their ids.
GetMaintenanceOrder ==
    [n \in 1 .. Cardinality(attached) |->
        CHOOSE i \in attached : Cardinality({j \in attached : j <= i}) = n]

ValidateIndexKeyCompatibility(t) == \A i \in attached : KeyOf(i, t) # Null

\* What a torn index answers is left open: the search may find the key or not.
ValidateUniqueIndexes(t, ignored) ==
    \A i \in (attached \cap UniqueIndex) \ torn :
        \A e \in entries[i] : e.key = KeyOf(i, t) => e.rid = ignored

AnyIndexedKeyChanged(old, new) == \E i \in attached : KeyOf(i, old) # KeyOf(i, new)

Step(op, index, t, rid) ==
    [op |-> op, index |-> index,
     entry |-> [key |-> IF index = 0 THEN Null ELSE KeyOf(index, t), rid |-> rid]]

HeapStep(op, rid) == Step(op, 0, Null, rid)

\* One step for each index, in maintenance order.
IndexSteps(op, t, rid) ==
    [n \in DOMAIN GetMaintenanceOrder |-> Step(op, GetMaintenanceOrder[n], t, rid)]

\* DeleteEntry returns false, and so does DeleteTuple, for what is not there.
CanDo(s) ==
    CASE s.op = "indexDelete" -> s.entry \in entries[s.index]
      [] s.op = "heapDelete" -> \E row \in Rows : row.rid = s.entry.rid
      [] OTHER -> TRUE

\* A torn index may hold a pair twice or have pages half rebuilt, so that each step on
\* it may succeed or fail.
MaySucceed(s) == CanDo(s) \/ s.index \in torn
Regular(s) == CanDo(s) /\ s.index \notin torn
MayFail(s) == Regular(s) => counts.failures < MaxFailures

CountFailure(s) == counts' = [counts EXCEPT !.failures = @ + IF Regular(s) THEN 1 ELSE 0]

Do(s) ==
    \/ /\ s.op = "indexInsert"
       /\ entries' = [entries EXCEPT ![s.index] = @ \cup {s.entry}]
       /\ UNCHANGED <<heap, fsm>>
    \/ /\ s.op = "indexDelete"
       /\ entries' = [entries EXCEPT ![s.index] = @ \ {s.entry}]
       /\ UNCHANGED <<heap, fsm>>
    \/ /\ s.op = "heapDelete"
       /\ HeapDelete(s.entry.rid)
       /\ UNCHANGED entries

\* What takes a step back; the heap delete comes last and is never taken back.
Undo(s) ==
    [s EXCEPT !.op = CASE s.op = "indexInsert" -> "indexDelete"
                       [] s.op = "indexDelete" -> "indexInsert"
                       [] s.op = "heapInsert" -> "heapDelete"]

-----------------------------------------------------------------------------
(* Statements.                                                             *)

BeginStatement ==
    /\ call = Idle /\ counts.statements < MaxStatements
    /\ counts' = [counts EXCEPT !.statements = @ + 1]

\* The heap part of an insert or an update, in page p, and the steps that follow it.
StartWithInsert(op, t, p, steps) ==
    /\ IsPageForInsert(p, SizeOf(t))
    /\ SetPage(p, Inserted(p, t).page)
    /\ call' = IF steps = <<>> THEN Idle
               ELSE [Idle EXCEPT !.op = op, !.todo = steps,
                                 !.done = <<HeapStep("heapInsert", Inserted(p, t).rid)>>, !.before = Rows]

InsertTuple(t, p) ==
    /\ BeginStatement
    /\ ValidateIndexKeyCompatibility(t)
    /\ ValidateUniqueIndexes(t, NoRid)
    /\ StartWithInsert("insert", t, p, IndexSteps("indexInsert", t, Inserted(p, t).rid))
    /\ UNCHANGED <<attached, entries, torn, saved>>

\* Fault variant of DeleteSteps: the heap tuple goes first.
DeleteStepsHeapFirst(row) ==
    <<HeapStep("heapDelete", row.rid)>> \o IndexSteps("indexDelete", row.tuple, row.rid)

DeleteSteps(row) ==
    IndexSteps("indexDelete", row.tuple, row.rid) \o <<HeapStep("heapDelete", row.rid)>>

DeleteTuple(row) ==
    /\ BeginStatement
    /\ call' = [Idle EXCEPT !.op = "delete", !.todo = DeleteSteps(row), !.before = Rows]
    /\ UNCHANGED <<heap, fsm, attached, entries, torn, saved>>

\* Fault variant of InPlace: the keys are not compared.
InPlaceIfItFits(row, t) == CanUpdateTupleInPlace(row.rid, t)

InPlace(row, t) == ~AnyIndexedKeyChanged(row.tuple, t) /\ CanUpdateTupleInPlace(row.rid, t)

UpdateInPlace(row, t) ==
    /\ BeginStatement
    /\ ValidateIndexKeyCompatibility(t)
    /\ InPlace(row, t)
    /\ heap' = [heap EXCEPT ![row.rid[1]] = OverwriteRecord(@, row.rid[2], t)]
    /\ UNCHANGED <<fsm, attached, entries, torn, call, saved>>

\* Without indexes HeapFile::UpdateTuple moves the tuple, by an insert and a delete.
MoveTuple(row, t, p) ==
    /\ BeginStatement
    /\ attached = {} /\ ~CanUpdateTupleInPlace(row.rid, t)
    /\ StartWithInsert("move", t, p, <<HeapStep("heapDelete", row.rid)>>)
    /\ UNCHANGED <<attached, entries, torn, saved>>

UpdateTuple(row, t, p) ==
    /\ BeginStatement
    /\ ValidateIndexKeyCompatibility(t)
    /\ attached # {} /\ ~InPlace(row, t)
    /\ ValidateUniqueIndexes(t, row.rid)
    /\ StartWithInsert("update", t, p, IndexSteps("indexInsert", t, Inserted(p, t).rid) \o DeleteSteps(row))
    /\ UNCHANGED <<attached, entries, torn, saved>>

\* The next step succeeds; with the last one the statement returns.
NextStep ==
    LET s == Head(call.todo) IN
    /\ call.op \in {"insert", "delete", "update", "move"} /\ MaySucceed(s)
    /\ Do(s)
    /\ call' = IF Len(call.todo) = 1 THEN Idle
               ELSE [call EXCEPT !.todo = Tail(@), !.done = <<s>> \o @]
    /\ UNCHANGED <<attached, torn, saved, counts>>

\* Fault variant of UndoSteps: the heap tuple is forgotten.
UndoIndexSteps(done) == [n \in 1 .. Len(done) - 1 |-> Undo(done[n])]

\* The steps done, taken back from the last to the first.
UndoSteps(done) == [n \in DOMAIN done |-> Undo(done[n])]

\* The next step throws.  An index step may have changed its leaf before a split or a
\* merge further up throws; the steps before it are taken back, that change is not.
StepThrows ==
    LET s == Head(call.todo) IN
    /\ call.op \in {"insert", "delete", "update"} /\ MayFail(s)
    /\ \/ UNCHANGED <<heap, fsm, entries, torn>>
       \/ /\ s.index # 0 /\ CanDo(s) /\ Do(s)
          /\ torn' = torn \cup {s.index}
    /\ CountFailure(s)
    /\ call' = IF UndoSteps(call.done) = <<>> THEN Idle
               ELSE [call EXCEPT !.op = "rollback", !.todo = UndoSteps(call.done), !.done = <<>>]
    /\ UNCHANGED <<attached, saved>>

\* A move that cannot delete the old tuple: HeapFile::UpdateTuple returns false and
\* both tuples stay in the heap.
MoveFails ==
    /\ call.op = "move" /\ counts.failures < MaxFailures
    /\ counts' = [counts EXCEPT !.failures = @ + 1]
    /\ call' = Idle
    /\ UNCHANGED <<heap, fsm, attached, entries, torn, saved>>

\* After the last step of the rollback the exception reaches the client.
AfterUndo == IF Len(call.todo) > 1 THEN [call EXCEPT !.todo = Tail(@)] ELSE Idle

UndoStep ==
    /\ call.op = "rollback" /\ MaySucceed(Head(call.todo))
    /\ Do(Head(call.todo))
    /\ call' = AfterUndo
    /\ UNCHANGED <<attached, torn, saved, counts>>

\* A step of the rollback throws, or returns false: it is noted and the rollback goes
\* on.  Without its effect the index keeps or lacks an entry; a tuple that stays in the
\* heap has no entry in any index.
UndoThrows ==
    LET s == Head(call.todo) IN
    /\ call.op = "rollback" /\ MayFail(s)
    /\ \/ /\ torn' = torn \cup (IF s.index = 0 THEN attached ELSE {s.index})
          /\ UNCHANGED <<heap, fsm, entries>>
       \/ /\ s.index # 0 /\ CanDo(s) /\ Do(s)
          /\ UNCHANGED torn
    /\ CountFailure(s)
    /\ call' = AfterUndo
    /\ UNCHANGED <<attached, saved>>

-----------------------------------------------------------------------------
(* Transactions, index creation, restart.                                  *)

Committed == [heap |-> heap, entries |-> entries, torn |-> torn]

Commit ==
    /\ call = Idle /\ saved # Committed
    /\ saved' = Committed
    /\ UNCHANGED <<heap, fsm, attached, entries, torn, call, counts>>

\* Before images are put back.  Pages allocated since are pages of zeros again,
\* and the free space map keeps what the aborted statements noted.
Abort ==
    /\ call = Idle /\ counts.aborts < MaxAborts
    /\ heap' = [p \in DOMAIN heap |-> IF p \in DOMAIN saved.heap THEN saved.heap[p] ELSE ZeroPage]
    /\ entries' = saved.entries
    /\ torn' = saved.torn
    /\ counts' = [counts EXCEPT !.aborts = @ + 1]
    /\ saved' = [saved EXCEPT !.heap = heap']
    /\ UNCHANGED <<fsm, attached, call>>

\* The entries that index i needs for a set of rows.
EntriesIn(rows, i) == {[key |-> KeyOf(i, row.tuple), rid |-> row.rid] : row \in rows}

EntriesOf(i) == EntriesIn(Rows, i)

\* ExecuteCreateIndex, with no transaction under way, scans the heap; a NULL key,
\* or a key twice in a unique index, makes it fail and drop the file.
CreateIndex(i) ==
    /\ call = Idle /\ i \notin attached /\ saved = Committed
    /\ Null \notin {e.key : e \in EntriesOf(i)}
    /\ i \in UniqueIndex => \A e, f \in EntriesOf(i) : e.key = f.key => e = f
    /\ attached' = attached \cup {i}
    /\ entries' = [entries EXCEPT ![i] = EntriesOf(i)]
    /\ saved' = [saved EXCEPT !.entries = entries']
    /\ UNCHANGED <<heap, fsm, torn, call, counts>>

\* BuildFreeSpaceMap, when the relation is opened again.
Restart ==
    /\ call = Idle /\ saved = Committed
    /\ fsm' = [p \in DOMAIN heap |-> GetMaxInsertableBytesAfterCompaction(Usable(heap[p]))]
    /\ fsm' # fsm
    /\ UNCHANGED <<heap, attached, entries, torn, call, saved, counts>>

Next ==
    \/ \E t \in Tuple, p \in 1..MaxPages : InsertTuple(t, p)
    \/ \E row \in Rows : DeleteTuple(row)
    \/ \E row \in Rows, t \in Tuple : UpdateInPlace(row, t)
    \/ \E row \in Rows, t \in Tuple, p \in 1..MaxPages : MoveTuple(row, t, p) \/ UpdateTuple(row, t, p)
    \/ NextStep \/ StepThrows \/ MoveFails \/ UndoStep \/ UndoThrows
    \/ Commit \/ Abort \/ Restart
    \/ \E i \in Index : CreateIndex(i)

Spec == Init /\ [][Next]_vars

-----------------------------------------------------------------------------
(* Properties.                                                             *)

\* InsertRecord, CompactPage and DeleteRecord keep every page sound: the slot
\* array does not reach the records, no two live records share a byte, and each
\* has room for its tuple.
PagesSound ==
    \A p \in DOMAIN heap :
        LET page == heap[p]
            live == Slots(page, "OCCUPIED")
        IN page.initialized =>
            /\ Lower(page) <= page.upper /\ page.upper <= PageBytes
            /\ \A n \in live :
                /\ page.slots[n].offset >= page.upper
                /\ page.slots[n].offset + page.slots[n].length <= PageBytes
                /\ SizeOf(page.slots[n].tuple) <= page.slots[n].length
            /\ \A m, n \in live : m # n =>
                \/ page.slots[m].offset + page.slots[m].length <= page.slots[n].offset
                \/ page.slots[n].offset + page.slots[n].length <= page.slots[m].offset

\* GetMaxInsertableBytesAfterCompaction never promises more than compaction can
\* make room for, however often slots are reused and records compacted.
FreeSpaceNotOverstated ==
    \A p \in DOMAIN heap : heap[p].initialized =>
        GetMaxInsertableBytesAfterCompaction(heap[p]) <=
            Max({0, PageBytes - Lower(heap[p]) - SlotOverhead(heap[p])
                    - SumOfLengths(heap[p], Slots(heap[p], "OCCUPIED"))})

\* At every step of a statement and of its rollback each entry of an index refers to a
\* live tuple that has the entry's key.  The exceptions are the indexes in torn: where a
\* step threw after it changed the index, or could not be taken back.
NoDanglingEntries ==
    \A i \in attached \ torn : entries[i] \subseteq EntriesOf(i)

\* Between statements an index that is not torn has exactly the entries of the live
\* tuples: a step that fails in one index puts no other index out of step, and an abort
\* mends what failed since the last commit.
IndexesAgree ==
    call = Idle => \A i \in attached \ torn : entries[i] = EntriesOf(i)

\* A table whose rows are those of the heap between statements, and those from
\* before the statement while one is under way.
TableSpec == INSTANCE TableRows WITH
    rows <- IF call = Idle THEN Rows ELSE call.before,
    enforced <- (attached \cap UniqueIndex) \ torn,
    saved <- [rows |-> RowsOf(saved.heap),
              enforced |-> (attached \cap UniqueIndex) \ saved.torn]

\* Insert, delete and update change the rows as one step or, when a step throws, not at
\* all, unless the new tuple could not be removed again; every unique index that is not
\* torn stays unique; an abort restores the rows and the constraints of the last commit.
ImplementsTable == TableSpec!Spec
=============================================================================
