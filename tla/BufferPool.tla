----------------------------- MODULE BufferPool -----------------------------
(***************************************************************************)
(* The buffer pool with its clock replacer (src/buffer) on top of the disk *)
(* manager and its page allocator (src/storage/disk_manager.cpp), for the  *)
(* file of one relation.                                                   *)
(*                                                                         *)
(* Every call of the pool runs under its latch.  A call that allocates or  *)
(* frees a page makes two changes durable, one in the relation file and    *)
(* one in the free list, and the program can die in between: NewPage and   *)
(* DeletePage are two steps, and only a crash comes between them.  A page  *)
(* write and the sync after it leave the old or the new page, so a flush   *)
(* is one step.  The search of the clock for a victim is a loop under the  *)
(* latch, one step of the model for each turn of the hand.  A page's       *)
(* content is a version number: 0 is the zero page, every change gives a   *)
(* new version.                                                            *)
(***************************************************************************)
EXTENDS Integers, Sequences, FiniteSets, FiniteSetsExt

CONSTANTS
    Client,         \* threads that use the pool
    PoolSize,       \* pool_size_
    MaxUsage,       \* kMaxUsageCount
    MaxPages,       \* bound: pages of the file
    MaxVersion,     \* bound: changes of pages
    MaxFrees,       \* bound: DeletePage calls
    MaxCrashes      \* bound: crashes

ASSUME PoolAssumption ==
    /\ PoolSize \in Nat \ {0} /\ MaxUsage \in Nat
    /\ MaxPages \in Nat /\ MaxVersion \in Nat /\ MaxFrees \in Nat /\ MaxCrashes \in Nat

\* Threads are finitely many; a pin count counts them.
ASSUME ClientAssumption == IsFiniteSet(Client)

Frame == 0 .. PoolSize - 1
Page == 0 .. MaxPages - 1
NoPage == -1
NoFrame == -1

VARIABLES
    frame_table,    \* the descriptors
    data,           \* the bytes of each frame
    page_table,     \* page_table_, NoFrame = not resident
    dirty_pages,    \* the keys of dirty_page_table_
    clock_hand,
    handle,         \* the open relation: num_pages, free_pages
    file,           \* the relation file: a version for each of its pages
    freelist,       \* the .freelist file
    call,           \* the call that holds the latch between two steps
    client,         \* what each client has pinned, and whether it changed it
    latest,         \* the last version given to each page in use
    counts          \* versions, frees and crashes so far

pool == <<frame_table, data, page_table, dirty_pages, clock_hand>>
disk == <<handle, file, freelist>>
vars == <<pool, disk, call, client, latest, counts>>

EmptyFrame == [page |-> NoPage, dirty |-> FALSE, valid |-> FALSE, pin |-> 0, usage |-> 0]
NoCall == [op |-> "none", frame |-> NoFrame, page |-> NoPage, client |-> "none", steps |-> 0]
Idle == [page |-> NoPage, frame |-> NoFrame, changed |-> FALSE]
Using(p, f) == [page |-> p, frame |-> f, changed |-> FALSE]

EmptyPool ==
    [frames |-> [f \in Frame |-> EmptyFrame], table |-> [p \in Page |-> NoFrame]]

\* CreateRelation: an empty file and an empty free list.
Init ==
    /\ frame_table = EmptyPool.frames /\ page_table = EmptyPool.table
    /\ data = [f \in Frame |-> 0] /\ dirty_pages = {} /\ clock_hand = 0
    /\ handle = [open |-> TRUE, num_pages |-> 0, free_pages |-> {}]
    /\ file = <<>>
    /\ freelist = [num_pages |-> 0, free_pages |-> {}]
    /\ call = NoCall
    /\ client = [c \in Client |-> Idle]
    /\ latest = [p \in Page |-> NoPage]
    /\ counts = [versions |-> 0, frees |-> 0, crashes |-> 0]

\* Page p of the file is its element p + 1.
PageOnDisk(p) == file[p + 1]

\* The pages callers may name: handed out by NewPage and not freed since.
InUse == {p \in Page : latest[p] # NoPage}

-----------------------------------------------------------------------------
(* The clock (clock_replacer.cpp).                                         *)

RecordAccess(frame) == [frame EXCEPT !.usage = IF @ < MaxUsage THEN @ + 1 ELSE @]

\* Fault variant of MaxSteps: one sweep for each use, and none to take the frame.
MaxStepsForUses == PoolSize * MaxUsage

MaxSteps == PoolSize * (MaxUsage + 2)

\* The frame under the hand becomes the victim.
Takes(frame) == ~frame.valid \/ (frame.pin = 0 /\ frame.usage = 0)

NextHand == (clock_hand + 1) % PoolSize

\* FetchPage or NewPage looks for a frame.
Sweeping == call.op \in {"fetch", "new"}

\* The hand passes a pinned frame, and takes a use from one that is not.
TurnHand ==
    /\ Sweeping /\ call.steps < MaxSteps /\ ~Takes(frame_table[clock_hand])
    /\ frame_table' = [frame_table EXCEPT ![clock_hand].usage =
                            IF frame_table[clock_hand].pin > 0 THEN @ ELSE @ - 1]
    /\ clock_hand' = NextHand
    /\ call' = [call EXCEPT !.steps = @ + 1]
    /\ UNCHANGED <<data, page_table, dirty_pages, disk, client, latest, counts>>

\* Victim has found the frame under the hand.
VictimFound == Sweeping /\ call.steps < MaxSteps /\ Takes(frame_table[clock_hand])

\* Victim gives up, and the call returns nullptr; the hand has turned all the same.
NoFrameToPrepare ==
    /\ Sweeping /\ call.steps = MaxSteps
    /\ call' = NoCall
    /\ UNCHANGED <<pool, disk, client, latest, counts>>

-----------------------------------------------------------------------------
(* Frames (buffer_pool_manager.cpp).  FlushFrame writes a dirty page, syncs *)
(* the file and saves the allocator state.  FlushPage and the eviction of a *)
(* victim flush one frame, FlushAllPages all of them: S is the set of       *)
(* frames.  That the log goes first (FlushUpTo) is the subject of           *)
(* WalRecovery.                                                             *)

\* PersistAllocatorState replaces the .freelist file.
AllocatorState(h) == [num_pages |-> h.num_pages, free_pages |-> h.free_pages]

\* FlushFrame does nothing to the other frames.
ToFlush(S) == {f \in S : frame_table[f].valid /\ frame_table[f].dirty}

FlushedFile(S) ==
    [i \in 1..Len(file) |->
        IF \E f \in ToFlush(S) : frame_table[f].page + 1 = i
        THEN data[CHOOSE f \in ToFlush(S) : frame_table[f].page + 1 = i]
        ELSE file[i]]

FlushedFreelist(S) == IF ToFlush(S) = {} THEN freelist ELSE AllocatorState(handle)

\* Fault variant of FlushedDirtyPages: the dirty page table keeps the pages.
FlushKeepsDirtyEntries(S) == dirty_pages

FlushedDirtyPages(S) == dirty_pages \ {frame_table[f].page : f \in ToFlush(S)}

FlushFrames(S) ==
    /\ frame_table' = [f \in Frame |-> IF f \in ToFlush(S) THEN [frame_table[f] EXCEPT !.dirty = FALSE]
                                       ELSE frame_table[f]]
    /\ file' = FlushedFile(S) /\ freelist' = FlushedFreelist(S)
    /\ dirty_pages' = FlushedDirtyPages(S)

\* PrepareFrame forgets the page of the victim.
TableWithout(f) ==
    [p \in Page |-> IF frame_table[f].valid /\ frame_table[f].page = p THEN NoFrame ELSE page_table[p]]

\* A frame that FetchPage or NewPage has filled.
Loaded(p) == RecordAccess([page |-> p, dirty |-> FALSE, valid |-> TRUE, pin |-> 1, usage |-> 0])

\* A frame FetchPage finds its page in.
Pinned(frame) == RecordAccess([frame EXCEPT !.pin = @ + 1])

\* A call of the pool can start: the relation is open, nobody has the latch.
Latched == handle.open /\ call = NoCall

-----------------------------------------------------------------------------
(* Clients.  A client pins one page, changes it under the page latch,      *)
(* unpins it and says whether it changed it.  Clients name only pages that *)
(* are in use: trees never free a page and nothing links to one that is    *)
(* freed with its index.                                                   *)

FetchResident(c, p) ==
    LET f == page_table[p] IN
    /\ Latched /\ client[c] = Idle /\ p \in InUse /\ f # NoFrame
    /\ frame_table' = [frame_table EXCEPT ![f] = Pinned(frame_table[f])]
    /\ client' = [client EXCEPT ![c] = Using(p, f)]
    /\ UNCHANGED <<data, page_table, dirty_pages, clock_hand, disk, call, latest, counts>>

\* FetchPage finds the page in the file only, and looks for a frame.
FetchMiss(c, p) ==
    /\ Latched /\ client[c] = Idle /\ p \in InUse /\ page_table[p] = NoFrame
    /\ p < handle.num_pages
    /\ call' = [NoCall EXCEPT !.op = "fetch", !.page = p, !.client = c]
    /\ UNCHANGED <<pool, disk, client, latest, counts>>

\* The victim is flushed and reset, and the page read into its frame.
FetchFromDisk ==
    LET f == clock_hand
        p == call.page
    IN
    /\ call.op = "fetch" /\ VictimFound
    /\ file' = FlushedFile({f}) /\ freelist' = FlushedFreelist({f})
    /\ dirty_pages' = FlushedDirtyPages({f})
    /\ frame_table' = [frame_table EXCEPT ![f] = Loaded(p)]
    /\ data' = [data EXCEPT ![f] = FlushedFile({f})[p + 1]]
    /\ page_table' = [TableWithout(f) EXCEPT ![p] = f]
    /\ clock_hand' = NextHand
    /\ client' = [client EXCEPT ![call.client] = Using(p, f)]
    /\ call' = NoCall
    /\ UNCHANGED <<handle, latest, counts>>

ModifyPage(c) ==
    /\ client[c].page # NoPage /\ counts.versions < MaxVersion
    /\ counts' = [counts EXCEPT !.versions = @ + 1]
    /\ data' = [data EXCEPT ![client[c].frame] = counts.versions + 1]
    /\ latest' = [latest EXCEPT ![client[c].page] = counts.versions + 1]
    /\ client' = [client EXCEPT ![c].changed = TRUE]
    /\ UNCHANGED <<frame_table, page_table, dirty_pages, clock_hand, disk, call>>

\* Fault variant of DirtyAfterUnpin: the last user decides.
DirtyIfLastSaysSo(frame, changed) == changed

\* A dirty frame stays dirty.
DirtyAfterUnpin(frame, changed) == frame.dirty \/ changed

UnpinPage(c) ==
    LET f == client[c].frame IN
    /\ Latched /\ client[c].page # NoPage
    /\ frame_table' = [frame_table EXCEPT ![f].pin = @ - 1,
                                          ![f].dirty = DirtyAfterUnpin(frame_table[f], client[c].changed)]
    /\ dirty_pages' = IF client[c].changed THEN dirty_pages \cup {client[c].page} ELSE dirty_pages
    /\ client' = [client EXCEPT ![c] = Idle]
    /\ UNCHANGED <<data, page_table, clock_hand, disk, call, latest, counts>>

FlushPage(p) ==
    /\ Latched /\ page_table[p] # NoFrame
    /\ FlushFrames({page_table[p]})
    /\ UNCHANGED <<data, page_table, clock_hand, handle, call, client, latest, counts>>

FlushAllPages ==
    /\ Latched
    /\ FlushFrames(Frame)
    /\ UNCHANGED <<data, page_table, clock_hand, handle, call, client, latest, counts>>

-----------------------------------------------------------------------------
(* Allocation (disk_manager.cpp).                                          *)

\* NewPage looks for a frame.
NewPageBegins(c) ==
    /\ Latched /\ client[c] = Idle
    /\ handle.free_pages # {} \/ handle.num_pages < MaxPages
    /\ call' = [NoCall EXCEPT !.op = "new", !.client = c]
    /\ UNCHANGED <<pool, disk, client, latest, counts>>

\* The victim is flushed and reset; AllocatePage zeroes the lowest free page, or
\* appends a page to the file, and syncs the file.
AllocatePage ==
    LET f == clock_hand
        reused == handle.free_pages # {}
        p == IF reused THEN Min(handle.free_pages) ELSE handle.num_pages
    IN
    /\ call.op = "new" /\ VictimFound
    /\ frame_table' = [frame_table EXCEPT ![f] = EmptyFrame]
    /\ data' = [data EXCEPT ![f] = 0]
    /\ page_table' = TableWithout(f)
    /\ dirty_pages' = FlushedDirtyPages({f})
    /\ clock_hand' = NextHand
    /\ freelist' = FlushedFreelist({f})
    /\ file' = IF reused THEN [FlushedFile({f}) EXCEPT ![p + 1] = 0] ELSE Append(FlushedFile({f}), 0)
    /\ handle' = IF reused THEN [handle EXCEPT !.free_pages = @ \ {p}]
                 ELSE [handle EXCEPT !.num_pages = @ + 1]
    /\ call' = [call EXCEPT !.op = "allocate", !.frame = f, !.page = p, !.steps = 0]
    /\ UNCHANGED <<client, latest, counts>>

\* Fault variant of SavedByAllocate: the free list is left to the next Sync.
NotSavedByAllocate == freelist

\* The free list AllocatePage leaves on disk.
SavedByAllocate == AllocatorState(handle)

\* The free list is saved; NewPage hands the page out, pinned and not dirty.
NewPage ==
    /\ call.op = "allocate"
    /\ freelist' = SavedByAllocate
    /\ frame_table' = [frame_table EXCEPT ![call.frame] = Loaded(call.page)]
    /\ data' = [data EXCEPT ![call.frame] = 0]
    /\ page_table' = [page_table EXCEPT ![call.page] = call.frame]
    /\ client' = [client EXCEPT ![call.client] = Using(call.page, call.frame)]
    /\ latest' = [latest EXCEPT ![call.page] = 0]
    /\ call' = NoCall
    /\ UNCHANGED <<dirty_pages, clock_hand, handle, file, counts>>

\* Fault variant of Trimmed: the pages cut off stay on the free list.
TrimmedKeepsFree(h) ==
    LET kept == {n \in 0..h.num_pages : n..(h.num_pages - 1) \subseteq h.free_pages}
    IN [h EXCEPT !.num_pages = Min(kept)]

\* TrimTrailingFreePages: the free pages at the end of the file go.
Trimmed(h) ==
    LET kept == {n \in 0..h.num_pages : n..(h.num_pages - 1) \subseteq h.free_pages}
    IN [h EXCEPT !.num_pages = Min(kept), !.free_pages = {p \in @ : p < Min(kept)}]

\* Fault variant of Deletable: the pin count is not looked at.
DeletableThoughPinned(p) == TRUE

\* DeletePage returns false for a page somebody has pinned.
Deletable(p) == page_table[p] # NoFrame => frame_table[page_table[p]].pin = 0

\* A page nobody has pinned leaves the pool and the file.
DeletePage(p) ==
    LET f == page_table[p]
        after == Trimmed([handle EXCEPT !.free_pages = @ \cup {p}])
    IN
    /\ Latched /\ p \in InUse /\ counts.frees < MaxFrees
    /\ Deletable(p)
    /\ frame_table' = IF f = NoFrame THEN frame_table ELSE [frame_table EXCEPT ![f] = EmptyFrame]
    /\ data' = IF f = NoFrame THEN data ELSE [data EXCEPT ![f] = 0]
    /\ page_table' = [page_table EXCEPT ![p] = NoFrame]
    /\ dirty_pages' = dirty_pages \ {p}
    /\ handle' = after /\ file' = SubSeq(file, 1, after.num_pages)
    /\ latest' = [latest EXCEPT ![p] = NoPage]
    /\ call' = [NoCall EXCEPT !.op = "free", !.page = p]
    /\ counts' = [counts EXCEPT !.frees = @ + 1]
    /\ UNCHANGED <<clock_hand, freelist, client>>

\* DeallocatePage saves the free list after the file has shrunk.
PersistFreedPage ==
    /\ call.op = "free"
    /\ freelist' = AllocatorState(handle)
    /\ call' = NoCall
    /\ UNCHANGED <<pool, handle, file, client, latest, counts>>

-----------------------------------------------------------------------------
(* Shutdown, crash and restart.                                            *)

ForgetMemory ==
    /\ frame_table' = EmptyPool.frames /\ page_table' = EmptyPool.table
    /\ data' = [f \in Frame |-> 0] /\ dirty_pages' = {} /\ clock_hand' = 0
    /\ handle' = [open |-> FALSE, num_pages |-> 0, free_pages |-> {}]
    /\ client' = [c \in Client |-> Idle]
    /\ call' = NoCall

\* ~BufferPoolManager flushes; DiskManager::Shutdown saves and closes.
Shutdown ==
    /\ Latched /\ \A c \in Client : client[c] = Idle
    /\ file' = FlushedFile(Frame) /\ freelist' = AllocatorState(handle)
    /\ ForgetMemory
    /\ UNCHANGED <<latest, counts>>

\* What was not flushed is lost; recovery rebuilds it from the log.
Crash ==
    /\ handle.open /\ counts.crashes < MaxCrashes
    /\ counts' = [counts EXCEPT !.crashes = @ + 1]
    /\ latest' = [p \in Page |-> IF latest[p] = NoPage THEN NoPage ELSE PageOnDisk(p)]
    /\ ForgetMemory
    /\ UNCHANGED <<file, freelist>>

\* LoadAllocatorState throws when the free list names pages that do not exist.
Loadable == freelist.num_pages <= Len(file) /\ \A p \in freelist.free_pages : p < Len(file)

OpenRelation ==
    /\ ~handle.open /\ Loadable
    /\ handle' = [open |-> TRUE, num_pages |-> Len(file), free_pages |-> freelist.free_pages]
    /\ UNCHANGED <<pool, file, freelist, call, client, latest, counts>>

Next ==
    \/ \E c \in Client, p \in Page : FetchResident(c, p) \/ FetchMiss(c, p)
    \/ \E c \in Client : ModifyPage(c) \/ UnpinPage(c) \/ NewPageBegins(c)
    \/ \E p \in Page : FlushPage(p) \/ DeletePage(p)
    \/ TurnHand \/ NoFrameToPrepare \/ FetchFromDisk \/ AllocatePage
    \/ FlushAllPages \/ NewPage \/ PersistFreedPage
    \/ Shutdown \/ Crash \/ OpenRelation

Spec == Init /\ [][Next]_vars

-----------------------------------------------------------------------------
(* Properties.                                                             *)

\* Types; the page table, the frames and the dirty page table agree.
PoolConsistent ==
    /\ \A p \in Page : page_table[p] # NoFrame =>
            frame_table[page_table[p]].valid /\ frame_table[page_table[p]].page = p
    /\ \A f \in Frame : frame_table[f].valid => page_table[frame_table[f].page] = f
    /\ \A f \in Frame : frame_table[f].usage <= MaxUsage
    /\ dirty_pages = {frame_table[f].page : f \in {g \in Frame : frame_table[g].dirty}}

\* A pinned page stays where it is: the pointer FetchPage returned is the page's
\* frame until it is unpinned, and a frame has as many pins as users.
PinnedPagesStay ==
    /\ \A c \in Client : client[c].page # NoPage =>
            frame_table[client[c].frame].page = client[c].page
    /\ \A f \in Frame : frame_table[f].pin =
            Cardinality({c \in Client : client[c].page # NoPage /\ client[c].frame = f})

\* No change is lost by eviction, flushing or reuse of frames: a page in use
\* reads as its last version, in its frame if it has one and in the file else,
\* and a clean frame that nobody is changing equals the page on disk.
NoLostUpdate ==
    /\ \A p \in InUse :
            latest[p] = IF page_table[p] # NoFrame THEN data[page_table[p]] ELSE PageOnDisk(p)
    /\ \A f \in Frame :
            /\ frame_table[f].valid /\ ~frame_table[f].dirty
            /\ \A c \in Client : ~(client[c].frame = f /\ client[c].changed)
            => data[f] = PageOnDisk(frame_table[f].page)

\* The allocator gives no page to two users, across crashes too: a page in use
\* is on neither free list, and exists in the file.
UsedPagesAreNotFree ==
    \A p \in InUse :
        /\ p \notin freelist.free_pages \cup handle.free_pages
        /\ p < Len(file)

\* max_steps is enough: Victim gives up only when every frame is pinned.
VictimExists ==
    Sweeping /\ call.steps = MaxSteps => \A f \in Frame : frame_table[f].pin > 0

\* OpenRelation can load the allocator state after every crash and after every
\* shutdown, unless the program died inside a DeallocatePage that had shrunk the
\* file: then the free list on disk names pages the file no longer has.
AllocatorStateLoads ==
    (IF handle.open THEN call.op # "free" ELSE counts.crashes = 0) => Loadable
=============================================================================
