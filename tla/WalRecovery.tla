---------------------------- MODULE WalRecovery ----------------------------
(***************************************************************************)
(* Write-ahead logging, fuzzy checkpoints and restart recovery: the log    *)
(* (recovery/log_manager.cpp), the write path of a transaction             *)
(* (access/heap_file.cpp, concurrency/transaction_manager.cpp), the part   *)
(* of the buffer pool that moves dirty pages to disk                       *)
(* (buffer/buffer_pool_manager.cpp), CreateCheckpoint and                  *)
(* RecoveryManager::Recover.                                               *)
(*                                                                         *)
(* The LSN of a record is its place in the log (its byte offset in the     *)
(* code); 0 is "none".  All heap and index records carry full before and   *)
(* after images of one page and are one record type, UPDATE.  Every write  *)
(* gives its page a value nobody wrote before.                             *)
(*                                                                         *)
(* Writers hold the exclusive lock of the page's relation until they end   *)
(* (HeapFile and Table lock in mode X), so a page stands for a relation:   *)
(* owner[p] is the lock.  Each transaction is run by one thread; one more  *)
(* thread may call CreateCheckpoint.  A frame that is evicted clean and    *)
(* read back holds the same bytes, so residency is left out and Evict      *)
(* stands for the write of a dirty victim.                                 *)
(***************************************************************************)
EXTENDS Integers, FiniteSets, Sequences, FiniteSetsExt

CONSTANTS
    Page,           \* pages
    Txn,            \* transaction ids of one run of the program
    MaxBegins,      \* bound: transactions begun in all
    MaxWrites,      \* bound: page updates in all
    MaxCrashes,     \* bound: crashes
    MaxCheckpoints, \* bound: checkpoints in all
    Concurrent,     \* may an operation start while another is under way?
    CrashKinds      \* subset of {"power", "process"}

ASSUME WalTxnAssumption == Txn \subseteq Nat \ {0}

ASSUME WalBoundAssumption ==
    MaxBegins \in Nat /\ MaxWrites \in Nat /\ MaxCrashes \in Nat /\ MaxCheckpoints \in Nat

ASSUME WalPolicyAssumption == Concurrent \in BOOLEAN /\ CrashKinds \subseteq {"power", "process"}

NoTxn == 0

VARIABLES
    log,        \* the records in the file and its stream buffer
    durable,    \* number of records known to be synced
    persistent, \* persistent_lsn_
    master,     \* master checkpoint LSN in the file header
    disk,       \* the pages on disk
    buf,        \* the pages as the buffer pool has them
    dpt,        \* dirty_page_table_, 0 = not dirty
    state,      \* TransactionState, "UNBORN" before Begin
    last,       \* last_lsn of each transaction
    active,     \* active_txns_
    pc,         \* where each transaction's thread is
    at,         \* its local variables: the page, its before image, the undo LSN
    owner,      \* the transaction that holds the page's relation in mode X
    ckpt,       \* the thread in CreateCheckpoint
    phase,      \* running, or the pass of Recover
    rtab,       \* txn_table_ of the recovery manager (last = 0: no entry)
    rdpt,       \* its dirty_page_table_
    cursor,     \* last record the analysis or the redo loop has passed
    todo,       \* the undo loop's priority queue
    counts      \* how many begins, writes, crashes and checkpoints so far

logVars == <<log, durable, persistent, master>>
pageVars == <<disk, buf, dpt>>
txnVars == <<state, last, active, pc, at, owner>>
recoveryVars == <<rtab, rdpt, cursor, todo>>
vars == <<logVars, pageVars, txnVars, ckpt, phase, recoveryVars, counts>>

NoCheckpoint == [pc |-> "idle", begin |-> 0, end |-> 0, txns |-> {}, pages |-> {}]

NoPlace == [page |-> "none", before |-> 0, undo |-> 0]

ForAllTxns(value) == [t \in Txn |-> value]

NoLSN == [p \in Page |-> 0]

NoEntry == [state |-> "ACTIVE", last |-> 0]

\* A new database: an empty log, opened.
Init ==
    /\ log = <<>> /\ durable = 0 /\ persistent = 1 /\ master = 0
    /\ disk = [p \in Page |-> [val |-> 0, lsn |-> 0]]
    /\ buf = disk
    /\ dpt = NoLSN
    /\ state = ForAllTxns("UNBORN") /\ last = ForAllTxns(0) /\ active = {}
    /\ pc = ForAllTxns("unborn") /\ at = ForAllTxns(NoPlace)
    /\ owner = [p \in Page |-> NoTxn]
    /\ ckpt = NoCheckpoint
    /\ phase = "running"
    /\ rtab = ForAllTxns(NoEntry) /\ rdpt = NoLSN /\ cursor = 0 /\ todo = {}
    /\ counts = [begins |-> 0, writes |-> 0, crashes |-> 0, checkpoints |-> 0]

-----------------------------------------------------------------------------
(* Log records (wal_records.h).                                            *)

TxnRecord(type, t, prev) == [type |-> type, txn |-> t, prev |-> prev]

MakePageImageLogRecord(t, prev, p, before, after) ==
    [type |-> "UPDATE", txn |-> t, prev |-> prev, page |-> p, before |-> before, after |-> after]

MakeClrPageUndoRecord(t, prev, undoNext, p, image) ==
    [type |-> "CLR", txn |-> t, prev |-> prev, undoNext |-> undoNext, page |-> p, after |-> image]

IsPageUpdateRecord(rec) == rec.type \in {"UPDATE", "CLR"}

EndLSN == Len(log) + 1

-----------------------------------------------------------------------------
(* Log manager.                                                            *)

AppendRecord(rec) == log' = Append(log, rec)

\* Fault variant of FlushUpTo: the position reached is the end of the log, not lsn.
FlushUpToEnd(lsn) ==
    IF lsn <= persistent THEN UNCHANGED <<durable, persistent>>
    ELSE durable' = Len(log) /\ persistent' = EndLSN

\* FlushUpTo, called on the log as it is before the step.
FlushUpTo(lsn) ==
    IF lsn <= persistent THEN UNCHANGED <<durable, persistent>>
    ELSE durable' = Len(log) /\ persistent' = lsn

-----------------------------------------------------------------------------
(* Buffer pool.                                                            *)

Dirty == {p \in Page : dpt[p] # 0}

MinRecLSN(old, lsn) == IF old = 0 \/ lsn < old THEN lsn ELSE old

\* FlushFrame for a set of dirty frames: log first, then the pages.
FlushFrames(pages) ==
    /\ FlushUpTo(Max({buf[p].lsn : p \in pages} \cup {0}))
    /\ disk' = [p \in Page |-> IF p \in pages THEN buf[p] ELSE disk[p]]
    /\ dpt' = [p \in Page |-> IF p \in pages THEN 0 ELSE dpt[p]]
    /\ UNCHANGED <<log, master, buf>>

\* All dirty frames, pinned and latched ones too.
FlushAllPages == FlushFrames(Dirty)

\* Fault variant of Pinned: pin counts are not looked at.
NeverPinned(p) == FALSE

Pinned(p) == \E t \in Txn : pc[t] \in {"modified", "logged"} /\ at[t].page = p

\* FlushFrame of the clock replacer's victim, during any FetchPage or NewPage.
Evict(p) ==
    /\ p \in Dirty /\ ~Pinned(p)
    /\ FlushFrames({p})
    /\ UNCHANGED <<txnVars, ckpt, phase, recoveryVars, counts>>

\* ApplyImage: the image with a new LSN, unpinned dirty.
ApplyImage(p, image, lsn) ==
    /\ buf' = [buf EXCEPT ![p] = [val |-> image, lsn |-> lsn]]
    /\ dpt' = [dpt EXCEPT ![p] = MinRecLSN(@, lsn)]

-----------------------------------------------------------------------------
(* Transactions.                                                           *)

\* An operation may start: no other is under way, or Concurrent.
MayStart ==
    /\ phase = "running"
    /\ Concurrent \/ (ckpt.pc = "idle" /\ \A t \in Txn : pc[t] \in {"unborn", "idle", "done"})

Goto(t, where) == pc' = [pc EXCEPT ![t] = where]

\* Append a record of t and make it t's last.
LogForTxn(t, rec) ==
    /\ AppendRecord(rec)
    /\ last' = [last EXCEPT ![t] = EndLSN]

\* Ids start from 1 in every run of the program.
Begin(t) ==
    /\ MayStart
    /\ counts.begins < MaxBegins
    /\ pc[t] = "unborn" /\ \A u \in Txn : u < t => pc[u] # "unborn"
    /\ LogForTxn(t, TxnRecord("BEGIN", t, 0))
    /\ state' = [state EXCEPT ![t] = "ACTIVE"]
    /\ Goto(t, "beginning")
    /\ counts' = [counts EXCEPT !.begins = @ + 1]
    /\ UNCHANGED <<durable, persistent, master, pageVars, active, at, owner, ckpt, phase,
                   recoveryVars>>

EnterActiveTxns(t) ==
    /\ pc[t] = "beginning"
    /\ active' = active \cup {t}
    /\ Goto(t, "idle")
    /\ UNCHANGED <<logVars, pageVars, state, last, at, owner, ckpt, phase, recoveryVars, counts>>

\* A tuple or index entry is changed: the lock is held, the page pinned and
\* latched, its before image saved and its bytes changed.
ModifyPage(t, p) ==
    /\ MayStart
    /\ pc[t] = "idle" /\ state[t] = "ACTIVE"
    /\ owner[p] \in {NoTxn, t}
    /\ counts.writes < MaxWrites
    /\ owner' = [owner EXCEPT ![p] = t]
    /\ at' = [at EXCEPT ![t] = [page |-> p, before |-> buf[p].val, undo |-> 0]]
    /\ buf' = [buf EXCEPT ![p].val = counts.writes + 1]
    /\ counts' = [counts EXCEPT !.writes = @ + 1]
    /\ Goto(t, "modified")
    /\ UNCHANGED <<logVars, disk, dpt, state, last, active, ckpt, phase, recoveryVars>>

\* The record is appended, and the transaction and the page get its LSN.  These are
\* three calls in the code; a flush or a checkpoint in between is left out.
LogUpdate(t) ==
    LET p == at[t].page IN
    /\ pc[t] = "modified"
    /\ LogForTxn(t, MakePageImageLogRecord(t, last[t], p, at[t].before, buf[p].val))
    /\ buf' = [buf EXCEPT ![p].lsn = EndLSN]
    /\ Goto(t, "logged")
    /\ UNCHANGED <<durable, persistent, master, disk, dpt, state, active, at, owner, ckpt, phase,
                   recoveryVars, counts>>

UnpinPage(t) ==
    LET p == at[t].page IN
    /\ pc[t] = "logged"
    /\ dpt' = [dpt EXCEPT ![p] = MinRecLSN(@, buf[p].lsn)]
    /\ at' = [at EXCEPT ![t] = NoPlace]
    /\ Goto(t, "idle")
    /\ UNCHANGED <<logVars, disk, buf, state, last, active, owner, ckpt, phase, recoveryVars, counts>>

Commit(t) ==
    /\ MayStart
    /\ pc[t] = "idle" /\ state[t] = "ACTIVE"
    /\ LogForTxn(t, TxnRecord("COMMIT", t, last[t]))
    /\ Goto(t, "committing")
    /\ UNCHANGED <<durable, persistent, master, pageVars, state, active, at, owner, ckpt, phase,
                   recoveryVars, counts>>

Abort(t) ==
    /\ MayStart
    /\ pc[t] = "idle" /\ state[t] = "ACTIVE"
    /\ state' = [state EXCEPT ![t] = "ABORTING"]
    /\ at' = [at EXCEPT ![t].undo = last[t]]
    /\ Goto(t, "rollback")
    /\ UNCHANGED <<logVars, pageVars, last, active, owner, ckpt, phase, recoveryVars, counts>>

\* RollbackTransaction, one record of its loop.  A transaction is rolled back
\* once here, so its chain holds updates and the BEGIN that ends the loop.
RollbackRecord(t) ==
    LET rec == log[at[t].undo] IN
    /\ pc[t] = "rollback" /\ rec.type = "UPDATE"
    /\ LogForTxn(t, MakeClrPageUndoRecord(t, last[t], rec.prev, rec.page, rec.before))
    /\ Goto(t, "applying")
    /\ UNCHANGED <<durable, persistent, master, pageVars, state, active, at, owner, ckpt, phase,
                   recoveryVars, counts>>

ApplyRollback(t) ==
    LET rec == log[at[t].undo] IN
    /\ pc[t] = "applying"
    /\ ApplyImage(rec.page, rec.before, last[t])
    /\ at' = [at EXCEPT ![t].undo = rec.prev]
    /\ Goto(t, "rollback")
    /\ UNCHANGED <<logVars, disk, state, last, active, owner, ckpt, phase, recoveryVars, counts>>

RollbackDone(t) ==
    /\ pc[t] = "rollback" /\ log[at[t].undo].type = "BEGIN"
    /\ FlushAllPages
    /\ at' = [at EXCEPT ![t] = NoPlace]
    /\ Goto(t, "rolledback")
    /\ UNCHANGED <<state, last, active, owner, ckpt, phase, recoveryVars, counts>>

LogAbort(t) ==
    /\ pc[t] = "rolledback"
    /\ LogForTxn(t, TxnRecord("ABORT", t, last[t]))
    /\ Goto(t, "aborting")
    /\ UNCHANGED <<durable, persistent, master, pageVars, state, active, at, owner, ckpt, phase,
                   recoveryVars, counts>>

\* The end of Commit and Abort: the last record is flushed, the state set.
FlushEnd(t) ==
    /\ pc[t] \in {"committing", "aborting"}
    /\ FlushUpTo(last[t])
    /\ state' = [state EXCEPT ![t] = IF pc[t] = "committing" THEN "COMMITTED" ELSE "ABORTED"]
    /\ Goto(t, "ending")
    /\ UNCHANGED <<log, master, pageVars, last, active, at, owner, ckpt, phase, recoveryVars, counts>>

\* ReleaseAll and the removal from active_txns_.
EndTransaction(t) ==
    /\ pc[t] = "ending"
    /\ owner' = [p \in Page |-> IF owner[p] = t THEN NoTxn ELSE owner[p]]
    /\ active' = active \ {t}
    /\ Goto(t, "done")
    /\ UNCHANGED <<logVars, pageVars, state, last, at, ckpt, phase, recoveryVars, counts>>

-----------------------------------------------------------------------------
(* CreateCheckpoint (checkpoint_manager.cpp).                              *)

BeginCheckpoint ==
    /\ MayStart
    /\ ckpt.pc = "idle" /\ counts.checkpoints < MaxCheckpoints
    /\ AppendRecord(TxnRecord("BEGIN_CHECKPOINT", NoTxn, 0))
    /\ ckpt' = [pc |-> "begun", begin |-> EndLSN, end |-> 0, txns |-> {}, pages |-> {}]
    /\ counts' = [counts EXCEPT !.checkpoints = @ + 1]
    /\ UNCHANGED <<durable, persistent, master, pageVars, txnVars, phase, recoveryVars>>

GetTransactionTableSnapshot ==
    /\ ckpt.pc = "begun"
    /\ ckpt' = [pc |-> "txns", begin |-> ckpt.begin, end |-> 0, pages |-> {},
                txns |-> {[txn |-> t, state |-> state[t], last |-> last[t]] : t \in active}]
    /\ UNCHANGED <<logVars, pageVars, txnVars, phase, recoveryVars, counts>>

GetDirtyPageTableSnapshot ==
    /\ ckpt.pc = "txns"
    /\ ckpt' = [pc |-> "pages", begin |-> ckpt.begin, end |-> 0, txns |-> ckpt.txns,
                pages |-> {[page |-> p, rec |-> dpt[p]] : p \in Dirty}]
    /\ UNCHANGED <<logVars, pageVars, txnVars, phase, recoveryVars, counts>>

EndCheckpoint ==
    /\ ckpt.pc = "pages"
    /\ AppendRecord([type |-> "END_CHECKPOINT", txn |-> NoTxn, prev |-> ckpt.begin,
                     txns |-> ckpt.txns, pages |-> ckpt.pages])
    /\ ckpt' = [pc |-> "ended", begin |-> ckpt.begin, end |-> EndLSN, txns |-> ckpt.txns,
                pages |-> ckpt.pages]
    /\ UNCHANGED <<durable, persistent, master, pageVars, txnVars, phase, recoveryVars, counts>>

\* FlushUpTo(end_lsn), then SetMasterCheckpointLSN, which syncs the file.
SetMasterCheckpointLSN ==
    /\ ckpt.pc = "ended"
    /\ durable' = Len(log)
    /\ persistent' = IF persistent < ckpt.end THEN ckpt.end ELSE persistent
    /\ master' = ckpt.begin
    /\ ckpt' = NoCheckpoint
    /\ UNCHANGED <<log, pageVars, txnVars, phase, recoveryVars, counts>>

-----------------------------------------------------------------------------
(* Crash and restart.                                                      *)

\* EnsureWalInitializedAndTrimmed on a file of n records.
CheckedMaster(n) ==
    IF master \in 1..n /\ log[master].type = "BEGIN_CHECKPOINT" THEN master ELSE 0

\* The first n records can be what is left of the log.  After a power failure
\* any record that was not synced may be missing, with all after it.  After
\* the death of the process what was written is still there, without being
\* synced; a last record without images may have been in the stream's buffer.
Survives(kind, n) ==
    /\ n \in durable..Len(log)
    /\ kind = "process" =>
            n = Len(log) \/ (n = Len(log) - 1 /\ ~IsPageUpdateRecord(log[Len(log)]))

\* Memory is lost, and the log is opened again: the LogManager constructor
\* takes the end of the file for persistent_lsn_.  Analysis will start at the
\* master checkpoint, if there is one.
Crash(kind, n) ==
    /\ counts.crashes < MaxCrashes
    /\ Survives(kind, n)
    /\ log' = SubSeq(log, 1, n)
    /\ durable' = IF kind = "power" THEN n ELSE durable
    /\ persistent' = n + 1
    /\ master' = CheckedMaster(n)
    /\ buf' = disk /\ dpt' = NoLSN
    /\ state' = ForAllTxns("UNBORN") /\ last' = ForAllTxns(0) /\ active' = {}
    /\ pc' = ForAllTxns("unborn") /\ at' = ForAllTxns(NoPlace)
    /\ owner' = [p \in Page |-> NoTxn]
    /\ ckpt' = NoCheckpoint
    /\ phase' = "analysis"
    /\ rtab' = ForAllTxns(NoEntry) /\ rdpt' = NoLSN /\ todo' = {}
    /\ cursor' = IF CheckedMaster(n) = 0 THEN 0 ELSE CheckedMaster(n) - 1
    /\ counts' = [counts EXCEPT !.crashes = @ + 1]
    /\ UNCHANGED disk

IsTxnEndState(s) == s \in {"COMMITTED", "ABORTED"}

IsLoserState(s) == s \in {"ACTIVE", "WAITING", "ABORTING"}

SetEntry(e, s) == [state |-> IF IsTxnEndState(e.state) THEN e.state ELSE s, last |-> e.last]

RaiseLast(e, lsn) == [state |-> e.state, last |-> IF e.last < lsn THEN lsn ELSE e.last]

\* The state a BEGIN, COMMIT or ABORT record gives to its transaction.
EndpointState(type) ==
    CASE type = "BEGIN" -> "ACTIVE"
      [] type = "COMMIT" -> "COMMITTED"
      [] type = "ABORT" -> "ABORTED"

\* Fault variant of EndpointEntry: a BEGIN does not reopen an ended entry.
StickyEndpointEntry(e, type, lsn) == RaiseLast(SetEntry(e, EndpointState(type)), lsn)

\* BEGIN, COMMIT and ABORT overwrite the transaction's entry e.
EndpointEntry(e, type, lsn) == [state |-> EndpointState(type), last |-> lsn]

\* Fault variant of MergePages: the checkpoint's dirty pages are not read.
IgnorePages(rec) == rdpt

\* The tables saved in END_CHECKPOINT are merged into what was found so far.
MergeTxns(rec) ==
    [t \in Txn |->
        IF \E e \in rec.txns : e.txn = t
        THEN LET e == CHOOSE x \in rec.txns : x.txn = t
             IN RaiseLast(SetEntry(rtab[t], e.state), e.last)
        ELSE rtab[t]]

MergePages(rec) ==
    [p \in Page |->
        IF \E d \in rec.pages : d.page = p
        THEN LET d == CHOOSE x \in rec.pages : x.page = p IN MinRecLSN(rdpt[p], d.rec)
        ELSE rdpt[p]]

\* One record of the analysis loop, and its effect on the transaction table ...
AnalyzedTxns(rec, lsn) ==
    IF rec.type \in {"BEGIN", "COMMIT", "ABORT"} THEN
        [rtab EXCEPT ![rec.txn] = EndpointEntry(@, rec.type, lsn)]
    ELSE IF IsPageUpdateRecord(rec) THEN
        [rtab EXCEPT ![rec.txn] = RaiseLast(SetEntry(@, "ACTIVE"), lsn)]
    ELSE IF rec.type = "END_CHECKPOINT" THEN MergeTxns(rec)
    ELSE rtab

\* ... and on the dirty page table.
AnalyzedPages(rec, lsn) ==
    IF IsPageUpdateRecord(rec) THEN [rdpt EXCEPT ![rec.page] = MinRecLSN(@, lsn)]
    ELSE IF rec.type = "END_CHECKPOINT" THEN MergePages(rec)
    ELSE rdpt

AnalyzeRecord ==
    /\ phase = "analysis" /\ cursor < Len(log)
    /\ rtab' = AnalyzedTxns(log[cursor + 1], cursor + 1)
    /\ rdpt' = AnalyzedPages(log[cursor + 1], cursor + 1)
    /\ cursor' = cursor + 1
    /\ UNCHANGED <<logVars, pageVars, txnVars, ckpt, phase, todo, counts>>

AnalysisDone ==
    /\ phase = "analysis" /\ cursor = Len(log)
    /\ phase' = "redo"
    /\ cursor' = 0
    /\ UNCHANGED <<logVars, pageVars, txnVars, ckpt, rtab, rdpt, todo, counts>>

ShouldRedoRecord(lsn) ==
    LET rec == log[lsn] IN
    /\ IsPageUpdateRecord(rec)
    /\ rdpt[rec.page] # 0 /\ lsn >= rdpt[rec.page]
    /\ buf[rec.page].lsn < lsn

\* The redo loop goes to the next record that has to be redone ...
RedoRecord(lsn) ==
    /\ phase = "redo"
    /\ lsn > cursor /\ ShouldRedoRecord(lsn)
    /\ \A i \in cursor + 1 .. lsn - 1 : ~ShouldRedoRecord(i)
    /\ ApplyImage(log[lsn].page, log[lsn].after, lsn)
    /\ cursor' = lsn
    /\ UNCHANGED <<logVars, disk, txnVars, ckpt, phase, rtab, rdpt, todo, counts>>

Losers == {t \in Txn : IsLoserState(rtab[t].state) /\ rtab[t].last # 0}

\* ... and ends when there is none; the undo pass starts with all losers.
RedoDone ==
    /\ phase = "redo"
    /\ \A i \in cursor + 1 .. Len(log) : ~ShouldRedoRecord(i)
    /\ FlushAllPages
    /\ todo' = {[lsn |-> rtab[t].last, txn |-> t] : t \in Losers}
    /\ phase' = "undo"
    /\ UNCHANGED <<txnVars, ckpt, rtab, rdpt, cursor, counts>>

\* The item on top of the priority queue.
Top(item) == item \in todo /\ \A other \in todo : other.lsn <= item.lsn

\* An update of a loser: log its compensation, put the before image back.
UndoRecord(item) ==
    LET rec == log[item.lsn] IN
    /\ phase = "undo" /\ Top(item) /\ rec.type = "UPDATE"
    /\ AppendRecord(MakeClrPageUndoRecord(item.txn, rtab[item.txn].last, rec.prev, rec.page, rec.before))
    /\ rtab' = [rtab EXCEPT ![item.txn].last = EndLSN]
    /\ ApplyImage(rec.page, rec.before, EndLSN)
    /\ todo' = (todo \ {item}) \cup {[lsn |-> rec.prev, txn |-> item.txn]}
    /\ UNCHANGED <<durable, persistent, master, disk, txnVars, ckpt, phase, rdpt, cursor, counts>>

\* Fault variant of UndoSkip: the record itself is put back into the queue.
UndoSkipNowhere(item) ==
    /\ phase = "undo" /\ Top(item) /\ log[item.lsn].type \notin {"UPDATE", "BEGIN"}
    /\ UNCHANGED vars

\* A CLR is skipped over to what it leaves to undo, other records to the one before.
UndoSkip(item) ==
    LET rec == log[item.lsn]
        next == IF rec.type = "CLR" THEN rec.undoNext ELSE rec.prev
    IN
    /\ phase = "undo" /\ Top(item) /\ rec.type \notin {"UPDATE", "BEGIN"}
    /\ todo' = (todo \ {item}) \cup {[lsn |-> next, txn |-> item.txn]}
    /\ UNCHANGED <<logVars, pageVars, txnVars, ckpt, phase, rtab, rdpt, cursor, counts>>

\* FinishAbortingTxn: the ABORT record is appended and flushed.
FinishAbortingTxn(item) ==
    /\ phase = "undo" /\ Top(item) /\ log[item.lsn].type = "BEGIN"
    /\ AppendRecord(TxnRecord("ABORT", item.txn, item.lsn))
    /\ IF EndLSN <= persistent THEN UNCHANGED <<durable, persistent>>
       ELSE durable' = EndLSN /\ persistent' = EndLSN
    /\ rtab' = [rtab EXCEPT ![item.txn] = [state |-> "ABORTED", last |-> EndLSN]]
    /\ todo' = todo \ {item}
    /\ UNCHANGED <<master, pageVars, txnVars, ckpt, phase, rdpt, cursor, counts>>

UndoDone ==
    /\ phase = "undo" /\ todo = {}
    /\ FlushAllPages
    /\ phase' = "running"
    /\ UNCHANGED <<txnVars, ckpt, recoveryVars, counts>>

-----------------------------------------------------------------------------
\* What a transaction's thread does once it is inside an operation.
OperationStep(t) ==
    \/ EnterActiveTxns(t)
    \/ LogUpdate(t)
    \/ UnpinPage(t)
    \/ RollbackRecord(t)
    \/ ApplyRollback(t)
    \/ RollbackDone(t)
    \/ LogAbort(t)
    \/ FlushEnd(t)
    \/ EndTransaction(t)

ClientCall(t) ==
    \/ Begin(t)
    \/ \E p \in Page : ModifyPage(t, p)
    \/ Commit(t)
    \/ Abort(t)

CheckpointStep ==
    \/ BeginCheckpoint
    \/ GetTransactionTableSnapshot
    \/ GetDirtyPageTableSnapshot
    \/ EndCheckpoint
    \/ SetMasterCheckpointLSN

RecoveryStep ==
    \/ AnalyzeRecord
    \/ AnalysisDone
    \/ \E lsn \in DOMAIN log : RedoRecord(lsn)
    \/ RedoDone
    \/ \E item \in todo : UndoRecord(item) \/ UndoSkip(item) \/ FinishAbortingTxn(item)
    \/ UndoDone

Next ==
    \/ \E t \in Txn : ClientCall(t) \/ OperationStep(t)
    \/ CheckpointStep
    \/ \E p \in Page : Evict(p)
    \/ RecoveryStep
    \/ \E kind \in CrashKinds, n \in 0..Len(log) : Crash(kind, n)

Spec == Init /\ [][Next]_vars

\* Recover runs in the one thread the program has at startup.
FairSpec == Spec /\ WF_vars(RecoveryStep)

-----------------------------------------------------------------------------
(* Properties.                                                             *)

\* The transaction that wrote record i has its COMMIT in the log.  Ids are
\* reused after a restart: a later BEGIN of the same id is another one.
Committed(i) ==
    \E c \in i..Len(log) :
        /\ log[c].type = "COMMIT" /\ log[c].txn = log[i].txn
        /\ \A b \in i..c : ~(b # i /\ log[b].type = "BEGIN" /\ log[b].txn = log[i].txn)

\* What page p should hold: the last write of a committed transaction.
CommittedValue(p) ==
    LET writes == {i \in DOMAIN log : /\ log[i].type = "UPDATE" /\ log[i].page = p
                                      /\ Committed(i)}
    IN IF writes = {} THEN 0 ELSE log[Max(writes)].after

\* Whenever the database runs and nobody holds a page's lock, the page holds
\* what the last committed transaction wrote to it: nothing of a transaction
\* that aborted or was cut off by a crash, everything of one that committed,
\* after power failures, also during recovery, and checkpoints.  Operations that
\* overlap (Concurrent) and the death of the process alone (CrashKinds) break it.
CommittedStateRestored ==
    phase = "running" => \A p \in Page : owner[p] = NoTxn => buf[p].val = CommittedValue(p)

\* Commit returns success only when the COMMIT record cannot be lost any more.
AcknowledgedIsDurable == \A t \in Txn : state[t] = "COMMITTED" => last[t] <= durable

\* When undo starts, and until it ends, redo has repeated all of history: no
\* page is older than its last record in the log.
HistoryRepeated ==
    phase = "undo" =>
        \A i \in DOMAIN log : IsPageUpdateRecord(log[i]) => buf[log[i].page].lsn >= i

\* Recovery never undoes a transaction whose COMMIT is in the log.
WinnersNotUndone == \A item \in todo : ~Committed(item.lsn)

\* A page on disk with the LSN of a record in the log holds that record's image.
DiskImagesAreLogged ==
    \A p \in Page :
        disk[p].lsn \in DOMAIN log =>
            /\ IsPageUpdateRecord(log[disk[p].lsn])
            /\ log[disk[p].lsn].page = p /\ log[disk[p].lsn].after = disk[p].val

\* Recovery ends, however often it was interrupted.
RecoveryCompletes == phase # "running" ~> phase = "running"
=============================================================================
