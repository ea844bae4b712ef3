-------------------------- MODULE BufferPoolProofs --------------------------
(***************************************************************************)
(* The buffer pool and the page allocator are correct for every pool size, *)
(* usage limit and number of threads, pages, changes, frees and crashes.   *)
(***************************************************************************)
EXTENDS BufferPool, NaturalLemmas, FiniteSetTheorems, SequenceTheorems

-----------------------------------------------------------------------------
(* The inductive invariant.                                                *)

FrameDesc == [page : Page \cup {NoPage}, dirty : BOOLEAN, valid : BOOLEAN,
              pin : Nat, usage : 0..MaxUsage]

CallType == [op : {"none", "fetch", "new", "allocate", "free"}, frame : Frame \cup {NoFrame},
             page : Page \cup {NoPage}, client : Client \cup {"none"}, steps : Nat]

ClientState == [page : Page \cup {NoPage}, frame : Frame \cup {NoFrame}, changed : BOOLEAN]

TypeOK ==
    /\ frame_table \in [Frame -> FrameDesc]
    /\ data \in [Frame -> Nat]
    /\ page_table \in [Page -> Frame \cup {NoFrame}]
    /\ dirty_pages \in SUBSET Page
    /\ clock_hand \in Frame
    /\ handle \in [open : BOOLEAN, num_pages : 0..MaxPages, free_pages : SUBSET Page]
    /\ file \in Seq(Nat)
    /\ freelist \in [num_pages : Nat, free_pages : SUBSET Page]
    /\ call \in CallType
    /\ client \in [Client -> ClientState]
    /\ latest \in [Page -> Nat \cup {NoPage}]
    /\ counts \in [versions : Nat, frees : Nat, crashes : Nat]

\* An invalid frame is a reset one; a valid one holds a page in use, and the page
\* table leads from the page to the frame and back.
FramesSound ==
    /\ \A f \in Frame : ~frame_table[f].valid => frame_table[f] = EmptyFrame
    /\ \A f \in Frame : frame_table[f].valid =>
            /\ frame_table[f].page \in Page
            /\ latest[frame_table[f].page] # NoPage
            /\ page_table[frame_table[f].page] = f
    /\ \A p \in Page : page_table[p] # NoFrame =>
            frame_table[page_table[p]].valid /\ frame_table[page_table[p]].page = p

DirtyPagesSound ==
    \A p \in Page : p \in dirty_pages <=> \E f \in Frame : frame_table[f].dirty /\ frame_table[f].page = p

\* A client is idle, or its frame holds its page.
ClientsSound ==
    \A c \in Client :
        \/ client[c] = Idle
        \/ /\ client[c].page \in Page /\ client[c].frame \in Frame
           /\ frame_table[client[c].frame].valid
           /\ frame_table[client[c].frame].page = client[c].page

Users(f) == {c \in Client : client[c].page # NoPage /\ client[c].frame = f}

PinsSound == \A f \in Frame : frame_table[f].pin = Cardinality(Users(f))

\* A page in use exists, and is on no free list.
PagesExist ==
    /\ \A p \in Page : latest[p] # NoPage =>
            p < Len(file) /\ p \notin handle.free_pages /\ p \notin freelist.free_pages
    /\ handle.open => handle.num_pages = Len(file)
    /\ Len(file) <= MaxPages
    /\ \A p \in handle.free_pages : p < handle.num_pages

\* The call that holds the latch.
CallSound ==
    /\ call.op = "none" => call = NoCall
    /\ call # NoCall => handle.open
    /\ call.op \in {"fetch", "new", "allocate"} => call.client \in Client /\ client[call.client] = Idle
    /\ call.op = "fetch" =>
            call.page \in Page /\ latest[call.page] # NoPage /\ page_table[call.page] = NoFrame
    /\ call.op = "new" => handle.free_pages # {} \/ handle.num_pages < MaxPages
    /\ call.op = "allocate" =>
            /\ call.page \in Page /\ call.frame \in Frame
            /\ frame_table[call.frame] = EmptyFrame
            /\ latest[call.page] = NoPage /\ call.page < Len(file) /\ PageOnDisk(call.page) = 0
            /\ call.page \notin handle.free_pages

ClosedSound ==
    ~handle.open =>
        /\ \A f \in Frame : ~frame_table[f].valid
        /\ \A c \in Client : client[c] = Idle
        /\ handle.free_pages = {}

\* The turns of the hand before it comes to frame g.
Distance(g) == IF g >= clock_hand THEN g - clock_hand ELSE g - clock_hand + PoolSize

\* While no victim is found, the steps left suffice to wear off the uses of every
\* frame that is not pinned and to come to it once more.
StepsSuffice ==
    Sweeping =>
        /\ call.steps <= MaxSteps
        /\ \A g \in Frame : frame_table[g].pin = 0 =>
                frame_table[g].usage * PoolSize + Distance(g) < MaxSteps - call.steps

PoolInv ==
    /\ TypeOK /\ FramesSound /\ DirtyPagesSound /\ ClientsSound /\ PinsSound
    /\ NoLostUpdate /\ PagesExist /\ CallSound /\ ClosedSound /\ StepsSuffice
    /\ AllocatorStateLoads

-----------------------------------------------------------------------------
(* The parts every step uses.                                              *)

(* Frames and pages are numbers, and the markers for "none" are not.       *)
LEMMA Domains ==
    /\ NoFrame \notin Frame /\ NoPage \notin Page /\ NoPage \notin Nat
    /\ Frame \subseteq Nat /\ Page \subseteq Nat /\ 0 \in Frame
    /\ EmptyFrame \in FrameDesc /\ NoCall \in CallType
    /\ Idle \in ClientState
BY PoolAssumption DEF NoFrame, Frame, NoPage, Page, EmptyFrame, FrameDesc, NoCall, CallType, Idle, ClientState

(* The hand stays on the frames and goes round.                            *)
LEMMA HandTurns ==
    ASSUME clock_hand \in Frame
    PROVE  NextHand \in Frame /\ NextHand = IF clock_hand + 1 = PoolSize THEN 0 ELSE clock_hand + 1
BY PoolAssumption DEF Frame, NextHand

(* An access changes only the usage of a frame, and keeps it in bounds.    *)
LEMMA AccessedFrame ==
    ASSUME NEW frame \in FrameDesc
    PROVE  /\ RecordAccess(frame) \in FrameDesc
           /\ RecordAccess(frame).page = frame.page /\ RecordAccess(frame).valid = frame.valid
           /\ RecordAccess(frame).dirty = frame.dirty /\ RecordAccess(frame).pin = frame.pin
<1>1. frame.usage \in 0..MaxUsage
  BY DEF FrameDesc
<1>2. (IF frame.usage < MaxUsage THEN frame.usage + 1 ELSE frame.usage) \in 0..MaxUsage
  BY <1>1, PoolAssumption
<1> QED BY <1>2 DEF RecordAccess, FrameDesc

(* A frame the pool fills holds the page, clean, with one pin.             *)
LEMMA LoadedFrame ==
    ASSUME NEW p \in Page
    PROVE  /\ Loaded(p) \in FrameDesc
           /\ Loaded(p).page = p /\ Loaded(p).valid /\ ~Loaded(p).dirty /\ Loaded(p).pin = 1
<1> DEFINE fresh == [page |-> p, dirty |-> FALSE, valid |-> TRUE, pin |-> 1, usage |-> 0]
<1>1. fresh \in FrameDesc
  BY PoolAssumption DEF FrameDesc
<1>2. fresh.page = p /\ fresh.valid = TRUE /\ fresh.dirty = FALSE /\ fresh.pin = 1
  OBVIOUS
<1> HIDE DEF fresh
<1>3. Loaded(p) = RecordAccess(fresh)
  BY DEF Loaded, fresh
<1> QED BY <1>1, <1>2, <1>3, AccessedFrame

(* One more pin on a frame changes only the pin and the usage.             *)
LEMMA PinnedFrame ==
    ASSUME NEW frame \in FrameDesc
    PROVE  /\ Pinned(frame) \in FrameDesc
           /\ Pinned(frame).page = frame.page /\ Pinned(frame).valid = frame.valid
           /\ Pinned(frame).dirty = frame.dirty /\ Pinned(frame).pin = frame.pin + 1
<1> DEFINE more == [frame EXCEPT !.pin = @ + 1]
<1>1. /\ more \in FrameDesc
      /\ more.page = frame.page /\ more.valid = frame.valid /\ more.dirty = frame.dirty
      /\ more.pin = frame.pin + 1
  BY DEF FrameDesc
<1> QED BY <1>1, AccessedFrame DEF Pinned

(* A flush keeps the length of the file and writes the frames it is given. *)
LEMMA FlushedFileIs ==
    ASSUME TypeOK, FramesSound, NEW S \in SUBSET Frame
    PROVE  /\ FlushedFile(S) \in Seq(Nat) /\ Len(FlushedFile(S)) = Len(file)
           /\ \A p \in Page : p < Len(file) =>
                  FlushedFile(S)[p + 1] = IF page_table[p] \in ToFlush(S) THEN data[page_table[p]]
                                          ELSE file[p + 1]
<1> DEFINE Writes(i, f) == f \in ToFlush(S) /\ frame_table[f].page + 1 = i
<1>1. Len(file) \in Nat /\ \A i \in 1..Len(file) : file[i] \in Nat
  BY DEF TypeOK
<1>2. \A f \in ToFlush(S) : f \in Frame /\ frame_table[f].page \in Page /\ page_table[frame_table[f].page] = f
  BY DEF ToFlush, FramesSound
<1>3. \A i \in 1..Len(file) : FlushedFile(S)[i] \in Nat
  <2> SUFFICES ASSUME NEW i \in 1..Len(file) PROVE FlushedFile(S)[i] \in Nat
    OBVIOUS
  <2>1. CASE \E f \in ToFlush(S) : frame_table[f].page + 1 = i
    <3>1. (CHOOSE f \in ToFlush(S) : frame_table[f].page + 1 = i) \in Frame
      BY <1>2, <2>1
    <3> QED BY <2>1, <3>1 DEF FlushedFile, TypeOK
  <2>2. CASE ~ \E f \in ToFlush(S) : frame_table[f].page + 1 = i
    BY <1>1, <2>2 DEF FlushedFile
  <2> QED BY <2>1, <2>2
<1>4. FlushedFile(S) \in [1..Len(file) -> Nat]
  BY <1>3 DEF FlushedFile
<1>5. FlushedFile(S) \in Seq(Nat) /\ Len(FlushedFile(S)) = Len(file)
  BY <1>1, <1>4
<1>6. ASSUME NEW p \in Page, p < Len(file)
      PROVE  FlushedFile(S)[p + 1] = IF page_table[p] \in ToFlush(S) THEN data[page_table[p]] ELSE file[p + 1]
  <2>1. p + 1 \in 1..Len(file)
    BY <1>1, <1>6, Domains
  <2>2. ASSUME NEW f \in ToFlush(S)
        PROVE  frame_table[f].page + 1 = p + 1 <=> f = page_table[p]
    <3>1. frame_table[f].page \in Nat /\ p \in Nat
      BY <1>2, Domains
    <3>2. frame_table[f].page + 1 = p + 1 <=> frame_table[f].page = p
      BY <3>1
    <3>3. f = page_table[p] => frame_table[f].page = p
      BY <1>2, <2>2, Domains DEF FramesSound
    <3> QED BY <3>2, <3>3, <1>2
  <2>3. CASE page_table[p] \in ToFlush(S)
    <3>1. (CHOOSE f \in ToFlush(S) : frame_table[f].page + 1 = p + 1) = page_table[p]
      BY <2>2, <2>3
    <3> QED BY <2>1, <2>2, <2>3, <3>1 DEF FlushedFile
  <2>4. CASE page_table[p] \notin ToFlush(S)
    BY <2>1, <2>2, <2>4 DEF FlushedFile
  <2> QED BY <2>3, <2>4
<1> QED BY <1>5, <1>6

(* The free list a flush leaves is well-formed.                            *)
LEMMA FlushedFreelistType ==
    ASSUME TypeOK, NEW S
    PROVE  FlushedFreelist(S) \in [num_pages : Nat, free_pages : SUBSET Page]
BY PoolAssumption DEF FlushedFreelist, AllocatorState, TypeOK

-----------------------------------------------------------------------------
(* Calls that begin and end, and the search for a victim.                  *)

(* With frames, page table, clients and contents as they were, what speaks *)
(* of them only still holds.                                               *)
LEMMA PoolUntouched ==
    ASSUME PoolInv, UNCHANGED <<frame_table, data, page_table, dirty_pages, client, latest>>
    PROVE  /\ FramesSound' /\ DirtyPagesSound' /\ ClientsSound' /\ PinsSound'
           /\ file' = file => NoLostUpdate'
<1>1. FramesSound' /\ DirtyPagesSound' /\ ClientsSound'
  BY Zenon DEF PoolInv, FramesSound, DirtyPagesSound, ClientsSound
<1>2. PinsSound'
  BY Zenon DEF PoolInv, PinsSound, Users
<1>3. file' = file => NoLostUpdate'
  BY Zenon DEF PoolInv, NoLostUpdate, InUse, PageOnDisk
<1> QED BY <1>1, <1>2, <1>3

(* At the start of a search the steps suffice.                             *)
LEMMA SweepStarts ==
    ASSUME TypeOK
    PROVE  /\ MaxSteps \in Nat
           /\ \A g \in Frame : frame_table[g].usage * PoolSize + Distance(g) < MaxSteps
<1> SUFFICES ASSUME NEW g \in Frame
             PROVE  frame_table[g].usage * PoolSize + Distance(g) < MaxSteps
  BY PoolAssumption DEF MaxSteps
<1>1. frame_table[g].usage \in Nat /\ frame_table[g].usage <= MaxUsage
  BY PoolAssumption DEF TypeOK, FrameDesc
<1>2. frame_table[g].usage * PoolSize <= MaxUsage * PoolSize
  BY <1>1, PoolAssumption
<1>3. Distance(g) \in Nat /\ Distance(g) < PoolSize
  BY PoolAssumption DEF Distance, Frame, TypeOK
<1>4. MaxSteps = MaxUsage * PoolSize + PoolSize + PoolSize
  BY PoolAssumption DEF MaxSteps
<1>5. MaxUsage * PoolSize \in Nat /\ frame_table[g].usage * PoolSize \in Nat
  BY <1>1, PoolAssumption
<1> QED BY <1>2, <1>3, <1>4, <1>5, PoolAssumption

(* FetchPage starts its search.                                            *)
LEMMA FetchMissStep ==
    ASSUME PoolInv, NEW c \in Client, NEW p \in Page, FetchMiss(c, p)
    PROVE  PoolInv'
<1>1. TypeOK /\ UNCHANGED <<pool, disk, client, latest, counts>>
  BY DEF PoolInv, FetchMiss
<1>2. call' = [op |-> "fetch", frame |-> NoFrame, page |-> p, client |-> c, steps |-> 0]
  BY DEF FetchMiss, NoCall
<1>3. TypeOK'
  BY <1>1, <1>2 DEF TypeOK, CallType, pool, disk
<1>4. FramesSound' /\ DirtyPagesSound' /\ ClientsSound' /\ PinsSound' /\ NoLostUpdate'
  BY <1>1, PoolUntouched DEF pool, disk
<1>5. PagesExist' /\ ClosedSound'
  BY <1>1, Zenon DEF PoolInv, PagesExist, ClosedSound, pool, disk
<1>6. CallSound'
  BY <1>1, <1>2 DEF FetchMiss, Latched, CallSound, InUse, pool, disk, NoCall
<1>7. StepsSuffice'
  <2>1. frame_table' = frame_table /\ call'.steps = 0 /\ \A g \in Frame : Distance(g)' = Distance(g)
    BY <1>1, <1>2 DEF Distance, pool
  <2> QED BY <1>1, <2>1, SweepStarts DEF StepsSuffice, MaxSteps
<1>8. AllocatorStateLoads'
  BY <1>1, <1>2 DEF PoolInv, AllocatorStateLoads, Loadable, FetchMiss, Latched, NoCall, disk
<1> QED BY <1>3, <1>4, <1>5, <1>6, <1>7, <1>8 DEF PoolInv

(* NewPage starts its search.                                              *)
LEMMA NewPageBeginsStep ==
    ASSUME PoolInv, NEW c \in Client, NewPageBegins(c)
    PROVE  PoolInv'
<1>1. TypeOK /\ UNCHANGED <<pool, disk, client, latest, counts>>
  BY DEF PoolInv, NewPageBegins
<1>2. call' = [op |-> "new", frame |-> NoFrame, page |-> NoPage, client |-> c, steps |-> 0]
  BY DEF NewPageBegins, NoCall
<1>3. TypeOK'
  BY <1>1, <1>2 DEF TypeOK, CallType, pool, disk
<1>4. FramesSound' /\ DirtyPagesSound' /\ ClientsSound' /\ PinsSound' /\ NoLostUpdate'
  BY <1>1, PoolUntouched DEF pool, disk
<1>5. PagesExist' /\ ClosedSound'
  BY <1>1, Zenon DEF PoolInv, PagesExist, ClosedSound, pool, disk
<1>6. CallSound'
  BY <1>1, <1>2 DEF NewPageBegins, Latched, CallSound, pool, disk, NoCall
<1>7. StepsSuffice'
  <2>1. frame_table' = frame_table /\ call'.steps = 0 /\ \A g \in Frame : Distance(g)' = Distance(g)
    BY <1>1, <1>2 DEF Distance, pool
  <2> QED BY <1>1, <2>1, SweepStarts DEF StepsSuffice, MaxSteps
<1>8. AllocatorStateLoads'
  BY <1>1, <1>2 DEF PoolInv, AllocatorStateLoads, Loadable, NewPageBegins, Latched, NoCall, disk
<1> QED BY <1>3, <1>4, <1>5, <1>6, <1>7, <1>8 DEF PoolInv

(* The search ends without a victim.                                       *)
LEMMA NoFrameToPrepareStep ==
    ASSUME PoolInv, NoFrameToPrepare
    PROVE  PoolInv'
<1>1. TypeOK /\ UNCHANGED <<pool, disk, client, latest, counts>> /\ call' = NoCall
  BY DEF PoolInv, NoFrameToPrepare
<1>2. call'.op = "none"
  BY <1>1 DEF NoCall
<1>3. TypeOK'
  BY <1>1, Domains DEF TypeOK, pool, disk
<1>4. FramesSound' /\ DirtyPagesSound' /\ ClientsSound' /\ PinsSound' /\ NoLostUpdate'
  BY <1>1, PoolUntouched DEF pool, disk
<1>5. PagesExist' /\ ClosedSound'
  BY <1>1, Zenon DEF PoolInv, PagesExist, ClosedSound, pool, disk
<1>6. CallSound' /\ StepsSuffice'
  BY <1>1, <1>2 DEF CallSound, StepsSuffice, Sweeping
<1>7. AllocatorStateLoads'
  BY <1>1, <1>2 DEF PoolInv, AllocatorStateLoads, Loadable, NoFrameToPrepare, Sweeping, disk
<1> QED BY <1>3, <1>4, <1>5, <1>6, <1>7 DEF PoolInv

(* A turn of the hand takes one step and either one use or one frame of    *)
(* the distance.                                                           *)
LEMMA TurnHandStep ==
    ASSUME PoolInv, TurnHand
    PROVE  PoolInv'
<1>1. /\ TypeOK /\ UNCHANGED <<data, page_table, dirty_pages, disk, client, latest, counts>>
      /\ clock_hand \in Frame /\ frame_table[clock_hand] \in FrameDesc
  BY DEF PoolInv, TypeOK, TurnHand
<1>2. frame_table[clock_hand].pin # 0 => frame_table[clock_hand].pin > 0
  BY <1>1 DEF FrameDesc
<1>3. frame_table[clock_hand].pin = 0 => frame_table[clock_hand].usage \in 1..MaxUsage
  BY <1>1, PoolAssumption DEF TurnHand, Takes, FrameDesc
<1>4. ASSUME NEW g \in Frame
      PROVE  /\ frame_table'[g] \in FrameDesc
             /\ frame_table'[g].page = frame_table[g].page /\ frame_table'[g].valid = frame_table[g].valid
             /\ frame_table'[g].dirty = frame_table[g].dirty /\ frame_table'[g].pin = frame_table[g].pin
             /\ frame_table'[g].usage = IF g = clock_hand /\ frame_table[g].pin = 0
                                        THEN frame_table[g].usage - 1 ELSE frame_table[g].usage
  <2> DEFINE turned == [frame_table[clock_hand] EXCEPT
                            !.usage = IF frame_table[clock_hand].pin > 0 THEN @ ELSE @ - 1]
  <2>1. frame_table' = [frame_table EXCEPT ![clock_hand] = turned]
    BY DEF TurnHand
  <2>2. /\ turned \in FrameDesc
        /\ turned.page = frame_table[clock_hand].page /\ turned.valid = frame_table[clock_hand].valid
        /\ turned.dirty = frame_table[clock_hand].dirty /\ turned.pin = frame_table[clock_hand].pin
        /\ turned.usage = IF frame_table[clock_hand].pin = 0 THEN frame_table[clock_hand].usage - 1
                          ELSE frame_table[clock_hand].usage
    BY <1>1, <1>2, <1>3, PoolAssumption DEF FrameDesc
  <2> HIDE DEF turned
  <2>3. frame_table'[g] = IF g = clock_hand THEN turned ELSE frame_table[g]
    BY <1>1, <1>4, <2>1 DEF TypeOK
  <2>4. frame_table[g] \in FrameDesc
    BY <1>1 DEF TypeOK
  <2> QED BY <2>2, <2>3, <2>4
<1>5. frame_table' \in [Frame -> FrameDesc]
  BY <1>1, <1>4 DEF TypeOK, TurnHand
<1>6. call' = [call EXCEPT !.steps = @ + 1] /\ call \in CallType
  BY <1>1 DEF TurnHand, TypeOK
<1>7. /\ call'.op = call.op /\ call'.page = call.page /\ call'.client = call.client
      /\ call'.frame = call.frame /\ call'.steps = call.steps + 1 /\ call' \in CallType
  BY <1>6 DEF CallType
<1>8. clock_hand' \in Frame /\ clock_hand' = IF clock_hand + 1 = PoolSize THEN 0 ELSE clock_hand + 1
  BY <1>1, HandTurns DEF TurnHand
<1>9. TypeOK'
  BY <1>1, <1>5, <1>7, <1>8 DEF TypeOK, disk
<1>10. FramesSound'
  <2>1. ASSUME NEW f \in Frame, ~frame_table'[f].valid PROVE frame_table'[f] = EmptyFrame
    <3>1. ~frame_table[f].valid /\ frame_table[f] = EmptyFrame
      BY <1>4, <2>1 DEF PoolInv, FramesSound
    <3>2. f # clock_hand
      BY <3>1 DEF TurnHand, Takes
    <3> QED BY <1>1, <3>1, <3>2 DEF TurnHand, TypeOK
  <2>2. ASSUME NEW f \in Frame, frame_table'[f].valid
        PROVE  /\ frame_table'[f].page \in Page
               /\ latest'[frame_table'[f].page] # NoPage /\ page_table'[frame_table'[f].page] = f
    BY <1>1, <1>4, <2>2 DEF PoolInv, FramesSound
  <2>3. ASSUME NEW p \in Page, page_table'[p] # NoFrame
        PROVE  frame_table'[page_table'[p]].valid /\ frame_table'[page_table'[p]].page = p
    <3>1. page_table[p] \in Frame
      BY <1>1, <2>3 DEF TypeOK
    <3> QED BY <1>1, <1>4, <2>3, <3>1 DEF PoolInv, FramesSound
  <2> QED BY <2>1, <2>2, <2>3 DEF FramesSound
<1>11. DirtyPagesSound'
  BY <1>1, <1>4 DEF PoolInv, DirtyPagesSound
<1>12. ClientsSound'
  BY <1>1, <1>4 DEF PoolInv, ClientsSound
<1>13. PinsSound'
  <2>1. \A f \in Frame : Users(f)' = Users(f)
    BY <1>1 DEF Users
  <2> QED BY <1>4, <2>1 DEF PoolInv, PinsSound
<1>14. NoLostUpdate'
  <2>1. InUse' = InUse
    BY <1>1 DEF InUse
  <2> QED BY <1>1, <1>4, <2>1 DEF PoolInv, NoLostUpdate, PageOnDisk, disk
<1>15. PagesExist'
  BY <1>1, Zenon DEF PoolInv, PagesExist, disk
<1>16. CallSound'
  <2>1. call.op \in {"fetch", "new"} /\ call # NoCall
    BY DEF TurnHand, Sweeping, NoCall
  <2> QED BY <1>1, <1>7, <2>1, Zenon DEF PoolInv, CallSound, disk
<1>17. ClosedSound'
  BY <1>1, <1>4 DEF PoolInv, ClosedSound, disk
<1>18. StepsSuffice'
  <2>1. /\ Sweeping /\ call.steps \in Nat /\ call.steps < MaxSteps /\ MaxSteps \in Nat
        /\ \A g \in Frame : frame_table[g].pin = 0 =>
                frame_table[g].usage * PoolSize + Distance(g) < MaxSteps - call.steps
    BY <1>1, SweepStarts DEF PoolInv, TurnHand, TypeOK, CallType, StepsSuffice
  <2>2. ASSUME NEW g \in Frame, frame_table'[g].pin = 0
        PROVE  frame_table'[g].usage * PoolSize + Distance(g)' < MaxSteps - (call.steps + 1)
    <3>1. frame_table[g].pin = 0 /\ frame_table[g].usage \in Nat
      BY <1>1, <1>4, <2>2, PoolAssumption DEF TypeOK, FrameDesc
    <3>2. frame_table[g].usage * PoolSize + Distance(g) < MaxSteps - call.steps
      BY <2>1, <3>1
    <3>3. CASE g = clock_hand
      <4>1. frame_table'[g].usage = frame_table[g].usage - 1 /\ frame_table[g].usage >= 1
        BY <1>3, <1>4, <3>1, <3>3, PoolAssumption
      <4>2. frame_table'[g].usage * PoolSize = frame_table[g].usage * PoolSize - PoolSize
        BY <3>1, <4>1, PoolAssumption
      <4>3. Distance(g) = 0 /\ Distance(g)' = PoolSize - 1
        BY <1>1, <1>8, <3>3, PoolAssumption DEF Distance, Frame
      <4>4. frame_table[g].usage * PoolSize \in Nat
        BY <3>1, PoolAssumption
      <4> QED BY <2>1, <3>2, <4>2, <4>3, <4>4, PoolAssumption
    <3>4. CASE g # clock_hand
      <4>1. Distance(g)' = Distance(g) - 1 /\ Distance(g) \in Nat
        BY <1>1, <1>8, <3>4, PoolAssumption DEF Distance, Frame
      <4>2. frame_table'[g].usage = frame_table[g].usage
        BY <1>4, <3>4
      <4>3. frame_table[g].usage * PoolSize \in Nat
        BY <3>1, PoolAssumption
      <4> QED BY <2>1, <3>2, <4>1, <4>2, <4>3
    <3> QED BY <3>3, <3>4
  <2> QED BY <1>7, <2>1, <2>2 DEF StepsSuffice, Sweeping, MaxSteps
<1>19. AllocatorStateLoads'
  BY <1>1, <1>7 DEF PoolInv, AllocatorStateLoads, Loadable, disk
<1> QED BY <1>9, <1>10, <1>11, <1>12, <1>13, <1>14, <1>15, <1>16, <1>17, <1>18, <1>19 DEF PoolInv

(* A client changes the page it has pinned: nobody else's frame, and no    *)
(* other page, is touched.                                                 *)
LEMMA ModifyPageStep ==
    ASSUME PoolInv, NEW c \in Client, ModifyPage(c)
    PROVE  PoolInv'
<1> DEFINE f == client[c].frame
           p == client[c].page
           v == counts.versions + 1
<1>1. /\ TypeOK /\ FramesSound
      /\ UNCHANGED <<frame_table, page_table, dirty_pages, clock_hand, disk, call>>
      /\ data' = [data EXCEPT ![f] = v] /\ latest' = [latest EXCEPT ![p] = v]
      /\ client' = [client EXCEPT ![c].changed = TRUE]
  BY DEF PoolInv, ModifyPage
<1>2. v \in Nat /\ v # NoPage
  BY <1>1 DEF TypeOK, NoPage
<1>3. /\ client[c] # Idle /\ p \in Page /\ f \in Frame
      /\ frame_table[f].valid /\ frame_table[f].page = p
  BY DEF PoolInv, ClientsSound, ModifyPage, Idle
<1>4. latest[p] # NoPage /\ page_table[p] = f
  BY <1>1, <1>3 DEF FramesSound
<1>5. \A g \in Frame : data'[g] = IF g = f THEN v ELSE data[g]
  BY <1>1 DEF TypeOK
<1>6. \A q \in Page : latest'[q] = IF q = p THEN v ELSE latest[q]
  BY <1>1 DEF TypeOK
<1> HIDE DEF v
<1>7. \A d \in Client : client'[d] = IF d = c THEN [client[c] EXCEPT !.changed = TRUE] ELSE client[d]
  BY <1>1 DEF TypeOK
<1>8. client[c] \in ClientState
  BY <1>1 DEF TypeOK
<1>9. \A d \in Client : client'[d].page = client[d].page /\ client'[d].frame = client[d].frame
  BY <1>7, <1>8 DEF ClientState
<1>10. client'[c].changed
  BY <1>7, <1>8 DEF ClientState
<1>11. TypeOK'
  <2>1. client' \in [Client -> ClientState]
    <3>1. [client[c] EXCEPT !.changed = TRUE] \in ClientState
      BY <1>8 DEF ClientState
    <3>2. client' = [client EXCEPT ![c] = [client[c] EXCEPT !.changed = TRUE]]
      BY <1>1
    <3> QED BY <1>1, <3>1, <3>2 DEF TypeOK
  <2>2. data' \in [Frame -> Nat] /\ latest' \in [Page -> Nat \cup {NoPage}]
    BY <1>1, <1>2, <1>3 DEF TypeOK
  <2>3. counts' \in [versions : Nat, frees : Nat, crashes : Nat]
    <3>1. counts \in [versions : Nat, frees : Nat, crashes : Nat]
      BY <1>1 DEF TypeOK
    <3>2. counts' = [counts EXCEPT !.versions = @ + 1]
      BY DEF ModifyPage
    <3> QED BY <3>1, <3>2
  <2> QED BY <1>1, <2>1, <2>2, <2>3 DEF TypeOK, disk
<1>12. \A q \in Page : latest'[q] = NoPage <=> latest[q] = NoPage
  BY <1>2, <1>4, <1>6
<1>13. FramesSound'
  BY <1>1, <1>12 DEF FramesSound
<1>14. DirtyPagesSound'
  BY <1>1, Zenon DEF PoolInv, DirtyPagesSound
<1>15. ClientsSound'
  <2> SUFFICES ASSUME NEW d \in Client, client'[d] # Idle
               PROVE  /\ client'[d].page \in Page /\ client'[d].frame \in Frame
                      /\ frame_table'[client'[d].frame].valid
                      /\ frame_table'[client'[d].frame].page = client'[d].page
    BY DEF ClientsSound
  <2>1. client[d] # Idle
    BY <1>3, <1>7
  <2> QED BY <1>1, <1>9, <2>1 DEF PoolInv, ClientsSound
<1>16. PinsSound'
  <2>1. \A g \in Frame : Users(g)' = Users(g)
    BY <1>9 DEF Users
  <2> QED BY <1>1, <2>1 DEF PoolInv, PinsSound
<1>17. NoLostUpdate'
  <2>1. ASSUME NEW q \in Page, latest'[q] # NoPage
        PROVE  latest'[q] = IF page_table'[q] # NoFrame THEN data'[page_table'[q]] ELSE PageOnDisk(q)'
    <3>1. latest[q] # NoPage
      BY <1>12, <2>1
    <3>2. latest[q] = IF page_table[q] # NoFrame THEN data[page_table[q]] ELSE file[q + 1]
      BY <3>1 DEF PoolInv, NoLostUpdate, InUse, PageOnDisk
    <3>3. CASE q = p
      BY <1>1, <1>3, <1>4, <1>5, <1>6, <3>3, Domains
    <3>4. CASE q # p
      <4>1. page_table[q] \in Frame => page_table[q] # f
        BY <1>1, <1>3, <3>4, Domains DEF FramesSound
      <4>2. page_table[q] # NoFrame => page_table[q] \in Frame
        BY <1>1 DEF TypeOK
      <4> QED BY <1>1, <1>5, <1>6, <3>2, <3>4, <4>1, <4>2 DEF PageOnDisk, disk
    <3> QED BY <3>3, <3>4
  <2>2. ASSUME NEW g \in Frame, frame_table'[g].valid, ~frame_table'[g].dirty,
               \A d \in Client : ~(client'[d].frame = g /\ client'[d].changed)
        PROVE  data'[g] = PageOnDisk(frame_table[g].page)'
    <3>1. g # f
      BY <1>9, <1>10, <2>2
    <3>2. \A d \in Client : ~(client[d].frame = g /\ client[d].changed)
      BY <1>7, <2>2, <3>1
    <3> QED BY <1>1, <1>5, <2>2, <3>1, <3>2 DEF PoolInv, NoLostUpdate, PageOnDisk, disk
  <2> QED BY <1>1, <2>1, <2>2 DEF NoLostUpdate, InUse, PageOnDisk
<1>18. PagesExist'
  BY <1>1, <1>12 DEF PoolInv, PagesExist, disk
<1>19. CallSound'
  <2>1. \A d \in Client : client[d] = Idle => client'[d] = Idle
    BY <1>3, <1>7
  <2>2. call.op = "fetch" => call.page \in Page
    BY DEF PoolInv, CallSound
  <2>3. call.op = "allocate" => call.page \in Page
    BY DEF PoolInv, CallSound
  <2> QED BY <1>1, <1>12, <2>1, <2>2, <2>3 DEF PoolInv, CallSound, PageOnDisk, disk
<1>20. ClosedSound' /\ StepsSuffice'
  <2>1. handle.open
    BY <1>3 DEF PoolInv, ClosedSound
  <2> QED BY <1>1, <2>1 DEF PoolInv, ClosedSound, StepsSuffice, Sweeping, Distance, disk
<1>21. AllocatorStateLoads'
  <2>1. counts'.crashes = counts.crashes
    BY <1>1 DEF ModifyPage, TypeOK
  <2> QED BY <1>1, <2>1 DEF PoolInv, AllocatorStateLoads, Loadable, disk
<1> QED BY <1>11, <1>13, <1>14, <1>15, <1>16, <1>17, <1>18, <1>19, <1>20, <1>21 DEF PoolInv

(* The freed page is saved as free, and the call ends.                     *)
LEMMA PersistFreedPageStep ==
    ASSUME PoolInv, PersistFreedPage
    PROVE  PoolInv'
<1>1. /\ TypeOK /\ UNCHANGED <<pool, handle, file, client, latest, counts>> /\ call' = NoCall
      /\ freelist' = [num_pages |-> handle.num_pages, free_pages |-> handle.free_pages]
  BY DEF PoolInv, PersistFreedPage, AllocatorState
<1>2. call'.op = "none" /\ handle.open
  BY <1>1 DEF NoCall, PoolInv, CallSound, PersistFreedPage
<1>3. TypeOK'
  BY <1>1, PoolAssumption, Domains, SMTT(30) DEF TypeOK, pool
<1>4. FramesSound' /\ DirtyPagesSound' /\ ClientsSound' /\ PinsSound' /\ NoLostUpdate'
  BY <1>1, PoolUntouched DEF pool
<1>5. PagesExist'
  BY <1>1 DEF PoolInv, PagesExist
<1>6. CallSound' /\ StepsSuffice' /\ ClosedSound'
  BY <1>1, <1>2 DEF CallSound, StepsSuffice, Sweeping, ClosedSound
<1>7. AllocatorStateLoads'
  BY <1>1, <1>2, Domains DEF PoolInv, PagesExist, AllocatorStateLoads, Loadable, TypeOK
<1> QED BY <1>3, <1>4, <1>5, <1>6, <1>7 DEF PoolInv

(* The relation opens with the pages of the file and the free list.        *)
LEMMA OpenRelationStep ==
    ASSUME PoolInv, OpenRelation
    PROVE  PoolInv'
<1>1. /\ TypeOK /\ ~handle.open /\ Loadable
      /\ handle' = [open |-> TRUE, num_pages |-> Len(file), free_pages |-> freelist.free_pages]
      /\ UNCHANGED <<pool, file, freelist, call, client, latest, counts>>
  BY DEF PoolInv, OpenRelation
<1>2. call = NoCall
  BY <1>1 DEF PoolInv, CallSound
<1>3. TypeOK'
  BY <1>1, PoolAssumption DEF PoolInv, PagesExist, TypeOK, pool
<1>4. FramesSound' /\ DirtyPagesSound' /\ ClientsSound' /\ PinsSound' /\ NoLostUpdate'
  BY <1>1, PoolUntouched DEF pool
<1>5. PagesExist'
  BY <1>1 DEF PoolInv, PagesExist, Loadable
<1>6. CallSound' /\ StepsSuffice' /\ ClosedSound'
  BY <1>1, <1>2 DEF CallSound, StepsSuffice, Sweeping, ClosedSound, NoCall
<1>7. AllocatorStateLoads'
  BY <1>1 DEF AllocatorStateLoads, Loadable
<1> QED BY <1>3, <1>4, <1>5, <1>6, <1>7 DEF PoolInv

-----------------------------------------------------------------------------
(* Calls on resident pages.                                                *)

(* A client that gets a frame is one user more of that frame only.         *)
LEMMA UserAdded ==
    ASSUME TypeOK, NEW c \in Client, NEW p \in Page, NEW f \in Frame, client[c] = Idle,
           client' = [client EXCEPT ![c] = Using(p, f)]
    PROVE  /\ client' \in [Client -> ClientState]
           /\ client'[c] = [page |-> p, frame |-> f, changed |-> FALSE]
           /\ \A d \in Client : d # c => client'[d] = client[d]
           /\ Cardinality(Users(f)') = Cardinality(Users(f)) + 1
           /\ \A g \in Frame : g # f => Users(g)' = Users(g)
<1> DEFINE new == [page |-> p, frame |-> f, changed |-> FALSE]
<1>1. Using(p, f) = new
  BY DEF Using
<1>2. new \in ClientState /\ new.page = p /\ new.frame = f
  BY DEF ClientState
<1> HIDE DEF new
<1>3. /\ client' \in [Client -> ClientState] /\ client'[c] = new
      /\ \A d \in Client : d # c => client'[d] = client[d]
  BY <1>1, <1>2 DEF TypeOK
<1>4. p # NoPage /\ client[c].page = NoPage
  BY Domains DEF Idle
<1>5. c \in Users(f)' /\ c \notin Users(f)
  BY <1>2, <1>3, <1>4 DEF Users
<1>6. Users(f)' = Users(f) \cup {c}
  BY <1>3, <1>5 DEF Users
<1>7. IsFiniteSet(Users(f))
  <2>1. Users(f) \subseteq Client
    BY DEF Users
  <2> QED BY <2>1, ClientAssumption, FS_Subset
<1>8. Cardinality(Users(f)') = Cardinality(Users(f)) + 1
  BY <1>5, <1>6, <1>7, FS_AddElement
<1>9. \A g \in Frame : g # f => Users(g)' = Users(g)
  BY <1>2, <1>3, <1>4 DEF Users
<1> QED BY <1>3, <1>8, <1>9 DEF new

(* A client that unpins is one user less of its frame only.                *)
LEMMA UserRemoved ==
    ASSUME TypeOK, NEW c \in Client, client[c].page # NoPage, client' = [client EXCEPT ![c] = Idle]
    PROVE  /\ client' \in [Client -> ClientState]
           /\ client'[c] = Idle /\ \A d \in Client : d # c => client'[d] = client[d]
           /\ \A f \in Frame : f = client[c].frame => Cardinality(Users(f)) \in Nat /\ Cardinality(Users(f)) > 0
                                                   /\ Cardinality(Users(f)') = Cardinality(Users(f)) - 1
           /\ \A g \in Frame : g # client[c].frame => Users(g)' = Users(g)
<1>1. /\ client' \in [Client -> ClientState] /\ client'[c] = Idle
      /\ \A d \in Client : d # c => client'[d] = client[d]
  BY Domains DEF TypeOK
<1>2. Idle.page = NoPage
  BY DEF Idle
<1>3. ASSUME NEW f \in Frame, f = client[c].frame
      PROVE  /\ Cardinality(Users(f)) \in Nat /\ Cardinality(Users(f)) > 0
             /\ Cardinality(Users(f)') = Cardinality(Users(f)) - 1
  <2>1. c \in Users(f) /\ Users(f)' = Users(f) \ {c}
    BY <1>1, <1>2, <1>3 DEF Users
  <2>2. IsFiniteSet(Users(f)) /\ IsFiniteSet(Users(f)')
    <3>1. Users(f) \subseteq Client /\ Users(f)' \subseteq Client
      BY DEF Users
    <3> QED BY <3>1, ClientAssumption, FS_Subset
  <2>3. Cardinality(Users(f)') = Cardinality(Users(f)) - 1
    BY <2>1, <2>2, FS_RemoveElement
  <2>4. Cardinality(Users(f)) \in Nat /\ Cardinality(Users(f)') \in Nat
    BY <2>2, FS_CardinalityType
  <2> QED BY <2>3, <2>4
<1>4. \A g \in Frame : g # client[c].frame => Users(g)' = Users(g)
  BY <1>1, <1>2 DEF Users
<1> QED BY <1>1, <1>3, <1>4

(* A page that is resident gets one pin more.                              *)
LEMMA FetchResidentStep ==
    ASSUME PoolInv, NEW c \in Client, NEW p \in Page, FetchResident(c, p)
    PROVE  PoolInv'
<1> PICK f \in Frame : f = page_table[p]
  BY DEF PoolInv, TypeOK, FetchResident
<1> DEFINE pinned == Pinned(frame_table[f])
<1>1. /\ TypeOK /\ FramesSound /\ handle.open /\ call = NoCall /\ client[c] = Idle
      /\ UNCHANGED <<data, page_table, dirty_pages, clock_hand, disk, call, latest, counts>>
      /\ client' = [client EXCEPT ![c] = Using(p, f)]
  BY DEF PoolInv, FetchResident, Latched
<1>2. f = page_table[p] /\ f # NoFrame
  BY DEF FetchResident
<1>3. frame_table[f] \in FrameDesc /\ frame_table[f].valid /\ frame_table[f].page = p
  BY <1>1, <1>2 DEF TypeOK, FramesSound
<1>4. /\ pinned \in FrameDesc
      /\ pinned.page = frame_table[f].page /\ pinned.valid = frame_table[f].valid
      /\ pinned.dirty = frame_table[f].dirty /\ pinned.pin = frame_table[f].pin + 1
  BY <1>3, PinnedFrame
<1>5. frame_table' = [frame_table EXCEPT ![f] = pinned]
  BY Zenon DEF FetchResident
<1> HIDE DEF pinned
<1>6. ASSUME NEW g \in Frame
      PROVE  /\ frame_table'[g] = IF g = f THEN pinned ELSE frame_table[g]
             /\ frame_table'[g].page = frame_table[g].page /\ frame_table'[g].valid = frame_table[g].valid
             /\ frame_table'[g].dirty = frame_table[g].dirty
             /\ frame_table'[g].pin = IF g = f THEN frame_table[g].pin + 1 ELSE frame_table[g].pin
  BY <1>1, <1>4, <1>5 DEF TypeOK
<1>7. /\ client' \in [Client -> ClientState]
      /\ client'[c] = [page |-> p, frame |-> f, changed |-> FALSE]
      /\ \A d \in Client : d # c => client'[d] = client[d]
      /\ Cardinality(Users(f)') = Cardinality(Users(f)) + 1
      /\ \A g \in Frame : g # f => Users(g)' = Users(g)
  BY <1>1, <1>2, UserAdded, ZenonT(60)
<1>8. TypeOK'
  BY <1>1, <1>2, <1>4, <1>5, <1>7 DEF TypeOK, disk
<1>9. FramesSound'
  <2>1. ASSUME NEW g \in Frame, ~frame_table'[g].valid PROVE frame_table'[g] = EmptyFrame
    BY <1>1, <1>3, <1>6, <2>1 DEF FramesSound
  <2>2. ASSUME NEW q \in Page, page_table'[q] # NoFrame
        PROVE  frame_table'[page_table'[q]].valid /\ frame_table'[page_table'[q]].page = q
    <3>1. page_table[q] \in Frame
      BY <1>1, <2>2 DEF TypeOK
    <3> QED BY <1>1, <1>6, <2>2, <3>1 DEF FramesSound
  <2> QED BY <1>1, <1>6, <2>1, <2>2 DEF FramesSound
<1>10. DirtyPagesSound'
  BY <1>1, <1>6 DEF PoolInv, DirtyPagesSound
<1>11. ClientsSound'
  <2>1. client'[c].page = p /\ client'[c].frame = f
    BY <1>7
  <2>2. ASSUME NEW d \in Client, d # c
        PROVE  \/ client'[d] = Idle
               \/ /\ client'[d].page \in Page /\ client'[d].frame \in Frame
                  /\ frame_table'[client'[d].frame].valid
                  /\ frame_table'[client'[d].frame].page = client'[d].page
    BY <1>6, <1>7, <2>2 DEF PoolInv, ClientsSound
  <2> QED BY <1>2, <1>3, <1>6, <2>1, <2>2 DEF ClientsSound
<1>12. PinsSound'
  BY <1>6, <1>7 DEF PoolInv, PinsSound
<1>13. NoLostUpdate'
  <2>1. InUse' = InUse
    BY <1>1 DEF InUse
  <2>2. ASSUME NEW g \in Frame, \A d \in Client : ~(client'[d].frame = g /\ client'[d].changed)
        PROVE  \A d \in Client : ~(client[d].frame = g /\ client[d].changed)
    <3>1. ~client[c].changed
      BY <1>1 DEF Idle
    <3> QED BY <1>7, <2>2, <3>1
  <2> QED BY <1>1, <1>6, <2>1, <2>2 DEF PoolInv, NoLostUpdate, PageOnDisk, disk
<1>14. PagesExist'
  BY <1>1, Zenon DEF PoolInv, PagesExist, disk
<1>15. CallSound' /\ StepsSuffice' /\ ClosedSound'
  BY <1>1 DEF CallSound, StepsSuffice, Sweeping, ClosedSound, disk, NoCall
<1>16. AllocatorStateLoads'
  BY <1>1 DEF PoolInv, AllocatorStateLoads, Loadable, disk
<1> QED BY <1>8, <1>9, <1>10, <1>11, <1>12, <1>13, <1>14, <1>15, <1>16 DEF PoolInv

(* A page loses one pin; a change marks its frame and the page dirty.      *)
LEMMA UnpinPageStep ==
    ASSUME PoolInv, NEW c \in Client, UnpinPage(c)
    PROVE  PoolInv'
<1> PICK f \in Frame, p \in Page : f = client[c].frame /\ p = client[c].page
  <2>1. client[c] # Idle
    BY DEF UnpinPage, Idle
  <2> QED BY <2>1 DEF PoolInv, ClientsSound
<1> DEFINE changed == client[c].changed
           unpinned == [frame_table[f] EXCEPT !.pin = @ - 1, !.dirty = frame_table[f].dirty \/ changed]
<1>1. /\ TypeOK /\ FramesSound /\ handle.open /\ call = NoCall /\ p # NoPage
      /\ UNCHANGED <<data, page_table, clock_hand, disk, call, latest, counts>>
      /\ client' = [client EXCEPT ![c] = Idle]
      /\ dirty_pages' = IF changed THEN dirty_pages \cup {p} ELSE dirty_pages
  BY DEF PoolInv, UnpinPage, Latched
<1>2. /\ p = client[c].page /\ f = client[c].frame /\ frame_table[f].valid /\ frame_table[f].page = p
      /\ changed \in BOOLEAN /\ frame_table[f] \in FrameDesc
  <2>1. client[c] # Idle
    BY <1>1 DEF Idle
  <2> QED BY <1>1, <2>1 DEF PoolInv, ClientsSound, TypeOK, ClientState
<1>3. /\ client' \in [Client -> ClientState]
      /\ client'[c] = Idle /\ \A d \in Client : d # c => client'[d] = client[d]
      /\ Cardinality(Users(f)) \in Nat /\ Cardinality(Users(f)) > 0
      /\ Cardinality(Users(f)') = Cardinality(Users(f)) - 1
      /\ \A g \in Frame : g # f => Users(g)' = Users(g)
  BY <1>1, <1>2, UserRemoved
<1>4. frame_table[f].pin = Cardinality(Users(f))
  BY <1>2 DEF PoolInv, PinsSound
<1>5. frame_table[f].pin - 1 \in Nat /\ (frame_table[f].dirty \/ changed) \in BOOLEAN
  BY <1>2, <1>3, <1>4 DEF FrameDesc
<1>6. /\ unpinned \in FrameDesc
      /\ unpinned.page = p /\ unpinned.valid = frame_table[f].valid
      /\ unpinned.dirty = (frame_table[f].dirty \/ changed) /\ unpinned.pin = frame_table[f].pin - 1
  BY <1>2, <1>5 DEF FrameDesc
<1>7. frame_table' = [frame_table EXCEPT ![f] = unpinned]
  BY DEF UnpinPage, DirtyAfterUnpin
<1> HIDE DEF unpinned, changed
<1>8. ASSUME NEW g \in Frame
      PROVE  /\ frame_table'[g] = IF g = f THEN unpinned ELSE frame_table[g]
             /\ frame_table'[g].page = frame_table[g].page /\ frame_table'[g].valid = frame_table[g].valid
  BY <1>1, <1>2, <1>6, <1>7 DEF TypeOK
<1>9. TypeOK'
  <2>1. dirty_pages' \in SUBSET Page
    BY <1>1, <1>2 DEF TypeOK
  <2>2. frame_table' \in [Frame -> FrameDesc]
    BY <1>1, <1>2, <1>6, <1>7 DEF TypeOK
  <2> QED BY <1>1, <1>3, <2>1, <2>2 DEF TypeOK, disk
<1>10. FramesSound'
  <2>1. ASSUME NEW g \in Frame, ~frame_table'[g].valid PROVE frame_table'[g] = EmptyFrame
    BY <1>1, <1>2, <1>8, <2>1 DEF FramesSound
  <2>2. ASSUME NEW q \in Page, page_table'[q] # NoFrame
        PROVE  frame_table'[page_table'[q]].valid /\ frame_table'[page_table'[q]].page = q
    <3>1. page_table[q] \in Frame
      BY <1>1, <2>2 DEF TypeOK
    <3> QED BY <1>1, <1>8, <2>2, <3>1 DEF FramesSound
  <2> QED BY <1>1, <1>8, <2>1, <2>2 DEF FramesSound
<1>11. DirtyPagesSound'
  <2> SUFFICES ASSUME NEW q \in Page
               PROVE  q \in dirty_pages' <=> \E g \in Frame : frame_table'[g].dirty /\ frame_table'[g].page = q
    BY DEF DirtyPagesSound
  <2>1. q \in dirty_pages <=> \E g \in Frame : frame_table[g].dirty /\ frame_table[g].page = q
    BY DEF PoolInv, DirtyPagesSound
  <2>2. CASE changed
    BY <1>1, <1>2, <1>6, <1>8, <2>1, <2>2, ZenonT(60)
  <2>3. CASE ~changed
    <3>1. \A g \in Frame : frame_table'[g].dirty = frame_table[g].dirty
      BY <1>2, <1>6, <1>8, <2>3 DEF FrameDesc
    <3> QED BY <1>1, <1>8, <2>1, <2>3, <3>1
  <2> QED BY <2>2, <2>3
<1>12. ClientsSound'
  BY <1>3, <1>8 DEF PoolInv, ClientsSound
<1>13. PinsSound'
  BY <1>3, <1>4, <1>6, <1>8 DEF PoolInv, PinsSound
<1>14. NoLostUpdate'
  <2>1. InUse' = InUse
    BY <1>1 DEF InUse
  <2>2. ASSUME NEW g \in Frame, frame_table'[g].valid, ~frame_table'[g].dirty,
               \A d \in Client : ~(client'[d].frame = g /\ client'[d].changed)
        PROVE  data[g] = file[frame_table[g].page + 1]
    <3>1. ~frame_table[g].dirty /\ (g = f => ~changed)
      BY <1>2, <1>6, <1>8, <2>2 DEF FrameDesc
    <3>2. \A d \in Client : ~(client[d].frame = g /\ client[d].changed)
      BY <1>3, <2>2, <3>1 DEF changed
    <3> QED BY <1>8, <2>2, <3>1, <3>2 DEF PoolInv, NoLostUpdate, PageOnDisk
  <2> QED BY <1>1, <1>8, <2>1, <2>2 DEF PoolInv, NoLostUpdate, PageOnDisk, disk
<1>15. PagesExist'
  BY <1>1, Zenon DEF PoolInv, PagesExist, disk
<1>16. CallSound' /\ StepsSuffice' /\ ClosedSound'
  BY <1>1 DEF CallSound, StepsSuffice, Sweeping, ClosedSound, disk, NoCall
<1>17. AllocatorStateLoads'
  BY <1>1 DEF PoolInv, AllocatorStateLoads, Loadable, disk
<1> QED BY <1>9, <1>10, <1>11, <1>12, <1>13, <1>14, <1>15, <1>16, <1>17 DEF PoolInv

-----------------------------------------------------------------------------
(* Flushing.                                                               *)

(* What a flush of the frames S leaves on disk: contents of frames it is   *)
(* given, and a free list that can be loaded and names no page in use.     *)
LEMMA FlushedDisk ==
    ASSUME PoolInv, handle.open, call.op # "free", NEW S \in SUBSET Frame
    PROVE  /\ \A f \in Frame : frame_table[f].valid =>
                  /\ frame_table[f].page \in Page /\ frame_table[f].page < Len(file)
                  /\ FlushedFile(S)[frame_table[f].page + 1] =
                        IF f \in S /\ frame_table[f].dirty THEN data[f] ELSE file[frame_table[f].page + 1]
           /\ \A p \in Page : p < Len(file) /\ page_table[p] = NoFrame =>
                  FlushedFile(S)[p + 1] = file[p + 1]
           /\ FlushedFreelist(S).num_pages <= Len(file)
           /\ \A p \in FlushedFreelist(S).free_pages : p < Len(file)
           /\ \A p \in Page : latest[p] # NoPage => p \notin FlushedFreelist(S).free_pages
<1>1. TypeOK /\ FramesSound
  BY DEF PoolInv
<1>2. \A p \in Page : p < Len(file) =>
          FlushedFile(S)[p + 1] = IF page_table[p] \in ToFlush(S) THEN data[page_table[p]]
                                  ELSE file[p + 1]
  BY <1>1, FlushedFileIs
<1>3. ASSUME NEW f \in Frame, frame_table[f].valid
      PROVE  /\ frame_table[f].page \in Page /\ frame_table[f].page < Len(file)
             /\ FlushedFile(S)[frame_table[f].page + 1] =
                    IF f \in S /\ frame_table[f].dirty THEN data[f] ELSE file[frame_table[f].page + 1]
  <2>1. frame_table[f].page \in Page /\ latest[frame_table[f].page] # NoPage /\ page_table[frame_table[f].page] = f
    BY <1>1, <1>3 DEF FramesSound
  <2>2. frame_table[f].page < Len(file)
    BY <2>1 DEF PoolInv, PagesExist
  <2>3. f \in ToFlush(S) <=> f \in S /\ frame_table[f].dirty
    BY <1>3 DEF ToFlush
  <2> QED BY <1>2, <2>1, <2>2, <2>3
<1>4. \A p \in Page : p < Len(file) /\ page_table[p] = NoFrame => FlushedFile(S)[p + 1] = file[p + 1]
  <2>1. NoFrame \notin ToFlush(S)
    BY Domains DEF ToFlush
  <2> QED BY <1>2, <2>1
<1>5. Loadable /\ handle.num_pages = Len(file) /\ Len(file) \in Nat
  BY <1>1 DEF PoolInv, AllocatorStateLoads, PagesExist, TypeOK
<1>6. \/ FlushedFreelist(S) = freelist
      \/ FlushedFreelist(S) = [num_pages |-> handle.num_pages, free_pages |-> handle.free_pages]
  BY DEF FlushedFreelist, AllocatorState
<1>7. /\ FlushedFreelist(S).num_pages <= Len(file)
      /\ \A p \in FlushedFreelist(S).free_pages : p < Len(file)
      /\ \A p \in Page : latest[p] # NoPage => p \notin FlushedFreelist(S).free_pages
  BY <1>5, <1>6 DEF PoolInv, PagesExist, Loadable
<1> QED BY <1>3, <1>4, <1>7

(* A flush takes from the dirty page table the pages it has written.       *)
LEMMA FlushedDirtyPagesAre ==
    ASSUME PoolInv, NEW S \in SUBSET Frame, NEW p \in Page
    PROVE  p \in FlushedDirtyPages(S) <=>
               \E f \in Frame : f \notin S /\ frame_table[f].dirty /\ frame_table[f].page = p
<1>1. p \in dirty_pages <=> \E f \in Frame : frame_table[f].dirty /\ frame_table[f].page = p
  BY DEF PoolInv, DirtyPagesSound
<1>2. \A f \in Frame : frame_table[f].dirty => frame_table[f].valid
  <2>1. FramesSound
    BY DEF PoolInv
  <2> QED BY <2>1 DEF FramesSound, EmptyFrame
<1>3. \A f, g \in Frame : (/\ frame_table[f].dirty /\ frame_table[f].page = p
                           /\ frame_table[g].dirty /\ frame_table[g].page = p) => f = g
  <2>1. \A f \in Frame : frame_table[f].valid => page_table[frame_table[f].page] = f
    BY DEF PoolInv, FramesSound
  <2>2. \A f \in Frame : frame_table[f].dirty /\ frame_table[f].page = p => page_table[p] = f
    BY <1>2, <2>1
  <2> QED BY <2>2
<1>4. p \in {frame_table[f].page : f \in ToFlush(S)} <=>
          \E f \in S : frame_table[f].dirty /\ frame_table[f].page = p
  BY <1>2 DEF ToFlush
<1> QED BY <1>1, <1>3, <1>4 DEF FlushedDirtyPages

(* FlushPage and FlushAllPages.                                            *)
LEMMA FlushFramesStep ==
    ASSUME PoolInv, NEW S \in SUBSET Frame, FlushFrames(S), Latched,
           UNCHANGED <<data, page_table, clock_hand, handle, call, client, latest, counts>>
    PROVE  PoolInv'
<1>1. /\ TypeOK /\ FramesSound /\ handle.open /\ call = NoCall /\ call.op = "none"
      /\ file' = FlushedFile(S) /\ freelist' = FlushedFreelist(S) /\ dirty_pages' = FlushedDirtyPages(S)
  BY DEF PoolInv, FlushFrames, Latched, NoCall
<1>2. ASSUME NEW f \in Frame
      PROVE  /\ frame_table[f] \in FrameDesc /\ frame_table'[f] \in FrameDesc
             /\ f \notin ToFlush(S) => frame_table'[f] = frame_table[f]
             /\ frame_table'[f].page = frame_table[f].page /\ frame_table'[f].valid = frame_table[f].valid
             /\ frame_table'[f].pin = frame_table[f].pin /\ frame_table'[f].usage = frame_table[f].usage
             /\ f \in ToFlush(S) => ~frame_table'[f].dirty
  <2>1. frame_table[f] \in FrameDesc
    BY <1>1 DEF TypeOK
  <2>2. frame_table'[f] = IF f \in ToFlush(S) THEN [frame_table[f] EXCEPT !.dirty = FALSE] ELSE frame_table[f]
    BY DEF FlushFrames
  <2> QED BY <2>1, <2>2 DEF FrameDesc
<1>3. \A f \in Frame : f \in ToFlush(S) <=> f \in S /\ frame_table[f].valid /\ frame_table[f].dirty
  BY DEF ToFlush
<1>4. \A f \in Frame : frame_table[f].dirty => frame_table[f].valid
  BY <1>1 DEF FramesSound, EmptyFrame
<1>5. \A f \in Frame : frame_table'[f].dirty <=> f \notin S /\ frame_table[f].dirty
  BY <1>2, <1>3, <1>4
<1>6. file' \in Seq(Nat) /\ Len(file') = Len(file)
  BY <1>1, FlushedFileIs
<1>7. /\ \A f \in Frame : frame_table[f].valid =>
             /\ frame_table[f].page \in Page /\ frame_table[f].page < Len(file)
             /\ file'[frame_table[f].page + 1] =
                   IF f \in S /\ frame_table[f].dirty THEN data[f] ELSE file[frame_table[f].page + 1]
      /\ \A p \in Page : p < Len(file) /\ page_table[p] = NoFrame => file'[p + 1] = file[p + 1]
      /\ freelist'.num_pages <= Len(file) /\ \A p \in freelist'.free_pages : p < Len(file)
      /\ \A p \in Page : latest[p] # NoPage => p \notin freelist'.free_pages
  BY <1>1, FlushedDisk
<1>8. TypeOK'
  <2>1. frame_table' \in [Frame -> FrameDesc]
    BY <1>2 DEF FlushFrames
  <2>2. dirty_pages' \in SUBSET Page
    BY <1>1 DEF TypeOK, FlushedDirtyPages
  <2>3. freelist' \in [num_pages : Nat, free_pages : SUBSET Page]
    BY <1>1, FlushedFreelistType
  <2> QED BY <1>1, <1>6, <2>1, <2>2, <2>3 DEF TypeOK
<1>9. FramesSound'
  <2>1. ASSUME NEW f \in Frame, ~frame_table'[f].valid PROVE frame_table'[f] = EmptyFrame
    BY <1>1, <1>2, <1>3, <2>1 DEF FramesSound
  <2>2. ASSUME NEW q \in Page, page_table'[q] # NoFrame
        PROVE  frame_table'[page_table'[q]].valid /\ frame_table'[page_table'[q]].page = q
    <3>1. page_table[q] \in Frame
      BY <1>1, <2>2 DEF TypeOK
    <3> QED BY <1>1, <1>2, <2>2, <3>1 DEF FramesSound
  <2> QED BY <1>1, <1>2, <2>1, <2>2 DEF FramesSound
<1>10. DirtyPagesSound'
  BY <1>1, <1>2, <1>5, FlushedDirtyPagesAre DEF DirtyPagesSound
<1>11. ClientsSound'
  BY <1>2 DEF PoolInv, ClientsSound
<1>12. PinsSound'
  <2>1. \A f \in Frame : Users(f)' = Users(f)
    BY DEF Users
  <2> QED BY <1>2, <2>1 DEF PoolInv, PinsSound
<1>13. NoLostUpdate'
  <2>1. ASSUME NEW q \in Page, latest[q] # NoPage
        PROVE  latest[q] = IF page_table[q] # NoFrame THEN data[page_table[q]] ELSE file'[q + 1]
    <3>1. latest[q] = IF page_table[q] # NoFrame THEN data[page_table[q]] ELSE file[q + 1]
      BY <2>1 DEF PoolInv, NoLostUpdate, InUse, PageOnDisk
    <3>2. q < Len(file)
      BY <2>1 DEF PoolInv, PagesExist
    <3> QED BY <1>7, <3>1, <3>2
  <2>2. ASSUME NEW g \in Frame, frame_table'[g].valid, ~frame_table'[g].dirty,
               \A d \in Client : ~(client'[d].frame = g /\ client'[d].changed)
        PROVE  data[g] = file'[frame_table[g].page + 1]
    <3>1. frame_table[g].valid
      BY <1>2, <2>2
    <3>2. CASE g \in S /\ frame_table[g].dirty
      BY <1>7, <3>1, <3>2
    <3>3. CASE ~frame_table[g].dirty
      <4>1. data[g] = file[frame_table[g].page + 1]
        BY <2>2, <3>1, <3>3 DEF PoolInv, NoLostUpdate, PageOnDisk
      <4> QED BY <1>7, <3>1, <3>3, <4>1
    <3> QED BY <1>5, <2>2, <3>2, <3>3
  <2> QED BY <1>2, <2>1, <2>2 DEF NoLostUpdate, InUse, PageOnDisk
<1>14. PagesExist'
  BY <1>6, <1>7 DEF PoolInv, PagesExist
<1>15. CallSound' /\ StepsSuffice' /\ ClosedSound'
  BY <1>1 DEF CallSound, StepsSuffice, Sweeping, ClosedSound, NoCall
<1>16. AllocatorStateLoads'
  BY <1>1, <1>6, <1>7 DEF AllocatorStateLoads, Loadable
<1> QED BY <1>8, <1>9, <1>10, <1>11, <1>12, <1>13, <1>14, <1>15, <1>16 DEF PoolInv

(* FlushPage flushes the page's frame.                                     *)
LEMMA FlushPageStep ==
    ASSUME PoolInv, NEW p \in Page, FlushPage(p)
    PROVE  PoolInv'
<1> PICK f \in Frame : f = page_table[p]
  BY DEF PoolInv, TypeOK, FlushPage
<1>1. FlushFrames({f}) /\ Latched
      /\ UNCHANGED <<data, page_table, clock_hand, handle, call, client, latest, counts>>
  BY DEF FlushPage
<1> QED BY <1>1, FlushFramesStep

(* FlushAllPages flushes every frame.                                      *)
LEMMA FlushAllPagesStep ==
    ASSUME PoolInv, FlushAllPages
    PROVE  PoolInv'
BY FlushFramesStep DEF FlushAllPages

-----------------------------------------------------------------------------
(* Eviction.                                                               *)

(* Nobody uses the frame the clock takes.                                  *)
LEMMA VictimUnused ==
    ASSUME PoolInv, VictimFound
    PROVE  /\ clock_hand \in Frame /\ handle.open
           /\ \A c \in Client : client[c] = Idle \/ client[c].frame # clock_hand
           /\ \A f \in Frame : f = clock_hand => Cardinality(Users(f)) = 0
<1>1. TypeOK /\ FramesSound /\ ClientsSound /\ PinsSound /\ clock_hand \in Frame
  BY DEF PoolInv, TypeOK
<1>2. handle.open
  BY DEF PoolInv, CallSound, VictimFound, Sweeping, NoCall
<1>3. frame_table[clock_hand].pin = 0
  BY <1>1 DEF FramesSound, EmptyFrame, VictimFound, Takes
<1>4. ASSUME NEW f \in Frame, f = clock_hand
      PROVE  Cardinality(Users(f)) = 0 /\ Users(f) = {}
  <2>1. Cardinality(Users(f)) = 0
    BY <1>1, <1>3, <1>4 DEF PinsSound
  <2>2. Users(f) \subseteq Client
    BY DEF Users
  <2>3. IsFiniteSet(Users(f))
    BY <2>2, ClientAssumption, FS_Subset
  <2> QED BY <2>1, <2>3, FS_EmptySet
<1>5. ASSUME NEW c \in Client, client[c] # Idle, client[c].frame = clock_hand
      PROVE  FALSE
  <2>1. client[c].page \in Page /\ client[c].page # NoPage
    BY <1>1, <1>5, Domains DEF ClientsSound
  <2> PICK f \in Frame : f = clock_hand
    BY <1>1
  <2>2. c \in Users(f)
    BY <1>5, <2>1 DEF Users
  <2> QED BY <1>4, <2>2
<1> QED BY <1>1, <1>2, <1>4, <1>5

(* After PrepareFrame the victim's frame is out of the page table, and     *)
(* every page in use still reads as its last version.                      *)
LEMMA Evicted ==
    ASSUME PoolInv, VictimFound, NEW f \in Frame, f = clock_hand
    PROVE  /\ TableWithout(f) \in [Page -> Frame \cup {NoFrame}]
           /\ \A p \in Page : TableWithout(f)[p] # NoFrame =>
                  /\ TableWithout(f)[p] = page_table[p]
                  /\ TableWithout(f)[p] \in Frame \ {f}
           /\ \A g \in Frame : g # f /\ frame_table[g].valid => TableWithout(f)[frame_table[g].page] = g
           /\ \A p \in Page : latest[p] # NoPage =>
                  latest[p] = IF TableWithout(f)[p] # NoFrame THEN data[TableWithout(f)[p]]
                              ELSE FlushedFile({f})[p + 1]
           /\ \A g \in Frame :
                  /\ g # f /\ frame_table[g].valid /\ ~frame_table[g].dirty
                  /\ \A c \in Client : ~(client[c].frame = g /\ client[c].changed)
                  => data[g] = FlushedFile({f})[frame_table[g].page + 1]
<1>1. TypeOK /\ FramesSound /\ NoLostUpdate /\ handle.open /\ call.op # "free" /\ {f} \in SUBSET Frame
  BY VictimUnused DEF PoolInv, VictimFound, Sweeping
<1>2. /\ \A g \in Frame : frame_table[g].valid =>
             /\ frame_table[g].page \in Page /\ frame_table[g].page < Len(file)
             /\ FlushedFile({f})[frame_table[g].page + 1] =
                   IF g \in {f} /\ frame_table[g].dirty THEN data[g] ELSE file[frame_table[g].page + 1]
      /\ \A p \in Page : p < Len(file) /\ page_table[p] = NoFrame =>
             FlushedFile({f})[p + 1] = file[p + 1]
  BY <1>1, FlushedDisk
<1>3. \A p \in Page : TableWithout(f)[p] = IF frame_table[f].valid /\ frame_table[f].page = p
                                           THEN NoFrame ELSE page_table[p]
  BY DEF TableWithout
<1>4. TableWithout(f) \in [Page -> Frame \cup {NoFrame}]
  BY <1>1 DEF TableWithout, TypeOK
<1>5. ASSUME NEW p \in Page, TableWithout(f)[p] # NoFrame
      PROVE  TableWithout(f)[p] = page_table[p] /\ TableWithout(f)[p] \in Frame \ {f}
  BY <1>1, <1>3, <1>4, <1>5 DEF FramesSound
<1>6. ASSUME NEW g \in Frame, g # f, frame_table[g].valid
      PROVE  TableWithout(f)[frame_table[g].page] = g
  BY <1>1, <1>3, <1>6 DEF FramesSound
<1>7. \A c \in Client : ~(client[c].frame = f /\ client[c].changed)
  <2>1. \A c \in Client : client[c] = Idle \/ client[c].frame # f
    BY VictimUnused
  <2> QED BY <2>1, Domains DEF Idle
<1>8. ASSUME NEW p \in Page, latest[p] # NoPage
      PROVE  latest[p] = IF TableWithout(f)[p] # NoFrame THEN data[TableWithout(f)[p]]
                         ELSE FlushedFile({f})[p + 1]
  <2>1. latest[p] = IF page_table[p] # NoFrame THEN data[page_table[p]] ELSE file[p + 1]
    BY <1>1, <1>8 DEF NoLostUpdate, InUse, PageOnDisk
  <2>2. p < Len(file)
    BY <1>8 DEF PoolInv, PagesExist
  <2>3. CASE TableWithout(f)[p] # NoFrame
    BY <1>5, <2>1, <2>3
  <2>4. CASE page_table[p] = NoFrame
    <3>1. TableWithout(f)[p] = NoFrame
      BY <1>3, <2>4
    <3> QED BY <1>2, <2>1, <2>2, <2>4, <3>1
  <2>5. CASE page_table[p] # NoFrame /\ TableWithout(f)[p] = NoFrame
    <3>1. frame_table[f].valid /\ frame_table[f].page = p /\ page_table[p] = f
      BY <1>1, <1>3, <2>5 DEF FramesSound
    <3>2. CASE frame_table[f].dirty
      BY <1>2, <2>1, <2>5, <3>1, <3>2, ZenonT(60)
    <3>3. CASE ~frame_table[f].dirty
      <4>1. data[f] = file[p + 1]
        BY <1>1, <1>7, <3>1, <3>3 DEF NoLostUpdate, PageOnDisk
      <4>2. FlushedFile({f})[p + 1] = file[p + 1]
        BY <1>2, <3>1, <3>3
      <4> QED BY <2>1, <2>5, <3>1, <4>1, <4>2
    <3> QED BY <3>2, <3>3
  <2> QED BY <2>3, <2>4, <2>5
<1>9. ASSUME NEW g \in Frame, g # f, frame_table[g].valid, ~frame_table[g].dirty,
             \A c \in Client : ~(client[c].frame = g /\ client[c].changed)
      PROVE  data[g] = FlushedFile({f})[frame_table[g].page + 1]
  <2>1. data[g] = file[frame_table[g].page + 1]
    BY <1>1, <1>9 DEF NoLostUpdate, PageOnDisk
  <2> QED BY <1>2, <1>9, <2>1
<1> QED BY <1>4, <1>5, <1>6, <1>8, <1>9

(* The page is read into the frame of the victim.                          *)
LEMMA FetchFromDiskStep ==
    ASSUME PoolInv, FetchFromDisk
    PROVE  PoolInv'
<1>1. TypeOK /\ FramesSound /\ VictimFound /\ call.op = "fetch" /\ clock_hand \in Frame
  BY DEF PoolInv, TypeOK, FetchFromDisk
<1>f. PICK f \in Frame : f = clock_hand
  BY <1>1
<1>p. PICK p \in Page : p = call.page
  BY <1>1 DEF PoolInv, CallSound
<1>c. PICK c \in Client : c = call.client
  BY <1>1 DEF PoolInv, CallSound
<1>2. /\ client[c] = Idle /\ latest[p] # NoPage /\ page_table[p] = NoFrame
  BY <1>1, <1>p, <1>c DEF PoolInv, CallSound
<1>3. /\ file' = FlushedFile({f}) /\ freelist' = FlushedFreelist({f})
      /\ dirty_pages' = FlushedDirtyPages({f})
      /\ frame_table' = [frame_table EXCEPT ![f] = Loaded(p)]
      /\ data' = [data EXCEPT ![f] = FlushedFile({f})[p + 1]]
      /\ page_table' = [TableWithout(f) EXCEPT ![p] = f]
      /\ clock_hand' = NextHand /\ call' = NoCall
      /\ client' = [client EXCEPT ![c] = Using(p, f)]
      /\ UNCHANGED <<handle, latest, counts>>
  BY <1>f, <1>p, <1>c, Zenon DEF FetchFromDisk
<1>4. /\ handle.open /\ call.op # "free" /\ {f} \in SUBSET Frame
      /\ \A d \in Client : client[d] = Idle \/ client[d].frame # f
      /\ Cardinality(Users(f)) = 0
  BY <1>1, <1>f, VictimUnused
<1>5. /\ TableWithout(f) \in [Page -> Frame \cup {NoFrame}]
      /\ \A q \in Page : TableWithout(f)[q] # NoFrame =>
             /\ TableWithout(f)[q] = page_table[q]
             /\ TableWithout(f)[q] \in Frame \ {f}
      /\ \A g \in Frame : g # f /\ frame_table[g].valid => TableWithout(f)[frame_table[g].page] = g
      /\ \A q \in Page : latest[q] # NoPage =>
             latest[q] = IF TableWithout(f)[q] # NoFrame THEN data[TableWithout(f)[q]]
                         ELSE FlushedFile({f})[q + 1]
      /\ \A g \in Frame :
             /\ g # f /\ frame_table[g].valid /\ ~frame_table[g].dirty
             /\ \A d \in Client : ~(client[d].frame = g /\ client[d].changed)
             => data[g] = FlushedFile({f})[frame_table[g].page + 1]
  BY <1>1, <1>f, Evicted
<1>6. file' \in Seq(Nat) /\ Len(file') = Len(file)
  BY <1>1, <1>3, <1>4, FlushedFileIs
<1>7. /\ freelist'.num_pages <= Len(file) /\ \A q \in freelist'.free_pages : q < Len(file)
      /\ \A q \in Page : latest[q] # NoPage => q \notin freelist'.free_pages
  BY <1>3, <1>4, FlushedDisk
<1>8. /\ Loaded(p) \in FrameDesc
      /\ Loaded(p).page = p /\ Loaded(p).valid /\ ~Loaded(p).dirty /\ Loaded(p).pin = 1
  BY LoadedFrame
<1>9. \A g \in Frame : frame_table'[g] = IF g = f THEN Loaded(p) ELSE frame_table[g]
  BY <1>1, <1>3 DEF TypeOK
<1>10. \A q \in Page : page_table'[q] = IF q = p THEN f ELSE TableWithout(f)[q]
  BY <1>3, <1>5
<1>11. \A g \in Frame : data'[g] = IF g = f THEN file'[p + 1] ELSE data[g]
  BY <1>1, <1>3 DEF TypeOK
<1>12. /\ client' \in [Client -> ClientState]
       /\ client'[c] = [page |-> p, frame |-> f, changed |-> FALSE]
       /\ \A d \in Client : d # c => client'[d] = client[d]
       /\ Cardinality(Users(f)') = 1
       /\ \A g \in Frame : g # f => Users(g)' = Users(g)
  <2>1. /\ client' \in [Client -> ClientState]
        /\ client'[c] = [page |-> p, frame |-> f, changed |-> FALSE]
        /\ \A d \in Client : d # c => client'[d] = client[d]
        /\ Cardinality(Users(f)') = Cardinality(Users(f)) + 1
        /\ \A g \in Frame : g # f => Users(g)' = Users(g)
    <3>1. TypeOK /\ client[c] = Idle /\ client' = [client EXCEPT ![c] = Using(p, f)]
      BY <1>1, <1>2, <1>3
    <3> QED BY <3>1, UserAdded
  <2>2. Cardinality(Users(f)') = 1
    BY <1>4, <2>1
  <2> QED BY <2>1, <2>2, Zenon
<1>13. p < Len(file) /\ p + 1 \in 1..Len(file)
  <2>1. p < Len(file) /\ Len(file) \in Nat /\ p \in Nat
    BY <1>1, <1>2, Domains DEF PoolInv, PagesExist, TypeOK
  <2> QED BY <2>1
<1>14. TypeOK'
  <2>1. frame_table' \in [Frame -> FrameDesc]
    BY <1>1, <1>3, <1>8 DEF TypeOK
  <2>2. data' \in [Frame -> Nat]
    <3>1. file'[p + 1] \in Nat
      BY <1>6, <1>13
    <3> QED BY <1>1, <1>3, <3>1 DEF TypeOK
  <2>3. page_table' \in [Page -> Frame \cup {NoFrame}]
    BY <1>3, <1>5
  <2>4. dirty_pages' \in SUBSET Page
    BY <1>1, <1>3 DEF TypeOK, FlushedDirtyPages
  <2>5. freelist' \in [num_pages : Nat, free_pages : SUBSET Page]
    BY <1>1, <1>3, FlushedFreelistType
  <2>6. clock_hand' \in Frame
    BY <1>1, <1>3, HandTurns
  <2> QED BY <1>1, <1>3, <1>6, <1>12, <2>1, <2>2, <2>3, <2>4, <2>5, <2>6, Domains DEF TypeOK
<1>15. FramesSound'
  <2>1. ASSUME NEW g \in Frame, ~frame_table'[g].valid PROVE frame_table'[g] = EmptyFrame
    BY <1>1, <1>8, <1>9, <2>1 DEF FramesSound
  <2>2. ASSUME NEW g \in Frame, frame_table'[g].valid
        PROVE  /\ frame_table'[g].page \in Page
               /\ latest'[frame_table'[g].page] # NoPage /\ page_table'[frame_table'[g].page] = g
    <3>1. CASE g = f
      BY <1>2, <1>3, <1>8, <1>9, <1>10, <3>1
    <3>2. CASE g # f
      <4>1. frame_table'[g] = frame_table[g] /\ frame_table[g].valid
        BY <1>9, <2>2, <3>2
      <4>2. frame_table[g].page \in Page /\ latest[frame_table[g].page] # NoPage /\ page_table[frame_table[g].page] = g
        BY <1>1, <4>1 DEF FramesSound
      <4>3. frame_table[g].page # p
        BY <1>2, <4>2, Domains
      <4> QED BY <1>3, <1>5, <1>10, <3>2, <4>1, <4>2, <4>3
    <3> QED BY <3>1, <3>2
  <2>3. ASSUME NEW q \in Page, page_table'[q] # NoFrame
        PROVE  frame_table'[page_table'[q]].valid /\ frame_table'[page_table'[q]].page = q
    <3>1. CASE q = p
      BY <1>8, <1>9, <1>10, <3>1
    <3>2. CASE q # p
      <4>1. page_table'[q] = page_table[q] /\ page_table[q] \in Frame \ {f}
        BY <1>5, <1>10, <2>3, <3>2
      <4>2. frame_table[page_table[q]].valid /\ frame_table[page_table[q]].page = q
        BY <1>1, <4>1, Domains DEF FramesSound
      <4> QED BY <1>9, <4>1, <4>2
    <3> QED BY <3>1, <3>2
  <2> QED BY <2>1, <2>2, <2>3 DEF FramesSound
<1>16. DirtyPagesSound'
  <2> SUFFICES ASSUME NEW q \in Page
               PROVE  q \in dirty_pages' <=> \E g \in Frame : frame_table'[g].dirty /\ frame_table'[g].page = q
    BY DEF DirtyPagesSound
  <2>1. q \in dirty_pages' <=> \E g \in Frame : g \notin {f} /\ frame_table[g].dirty /\ frame_table[g].page = q
    BY <1>3, <1>4, FlushedDirtyPagesAre
  <2> QED BY <1>8, <1>9, <2>1
<1>17. ClientsSound'
  <2>1. client'[c].page = p /\ client'[c].frame = f
    BY <1>12
  <2>2. ASSUME NEW d \in Client, d # c, client'[d] # Idle
        PROVE  /\ client'[d].page \in Page /\ client'[d].frame \in Frame
               /\ frame_table'[client'[d].frame].valid
               /\ frame_table'[client'[d].frame].page = client'[d].page
    <3>1. client'[d] = client[d] /\ client[d] # Idle /\ client[d].frame # f
      BY <1>4, <1>12, <2>2
    <3> QED BY <1>9, <3>1 DEF PoolInv, ClientsSound
  <2> QED BY <1>8, <1>9, <2>1, <2>2 DEF ClientsSound
<1>18. PinsSound'
  BY <1>8, <1>9, <1>12 DEF PoolInv, PinsSound
<1>19. NoLostUpdate'
  <2>1. ASSUME NEW q \in Page, latest[q] # NoPage
        PROVE  latest[q] = IF page_table'[q] # NoFrame THEN data'[page_table'[q]] ELSE file'[q + 1]
    <3>1. latest[q] = IF TableWithout(f)[q] # NoFrame THEN data[TableWithout(f)[q]] ELSE file'[q + 1]
      BY <1>3, <1>5, <2>1
    <3>2. CASE q = p
      <4>1. TableWithout(f)[p] = NoFrame
        BY <1>2, <1>5
      <4>2. page_table'[q] = f /\ f # NoFrame /\ data'[f] = file'[q + 1]
        BY <1>10, <1>11, <3>2, Domains
      <4> QED BY <3>1, <3>2, <4>1, <4>2
    <3>3. CASE q # p
      BY <1>5, <1>10, <1>11, <3>1, <3>3
    <3> QED BY <3>2, <3>3
  <2>2. ASSUME NEW g \in Frame, frame_table'[g].valid, ~frame_table'[g].dirty,
               \A d \in Client : ~(client'[d].frame = g /\ client'[d].changed)
        PROVE  data'[g] = file'[frame_table'[g].page + 1]
    <3>1. CASE g = f
      BY <1>8, <1>9, <1>11, <3>1
    <3>2. CASE g # f
      <4>1. ~client[c].changed
        BY <1>2 DEF Idle
      <4>2. \A d \in Client : ~(client[d].frame = g /\ client[d].changed)
        BY <1>12, <2>2, <4>1
      <4>3. frame_table'[g] = frame_table[g] /\ data'[g] = data[g]
        BY <1>9, <1>11, <3>2
      <4> QED BY <1>3, <1>5, <2>2, <3>2, <4>2, <4>3
    <3> QED BY <3>1, <3>2
  <2> QED BY <1>3, <2>1, <2>2 DEF NoLostUpdate, InUse, PageOnDisk
<1>20. PagesExist'
  BY <1>3, <1>6, <1>7 DEF PoolInv, PagesExist
<1>21. CallSound' /\ StepsSuffice' /\ ClosedSound'
  BY <1>3, <1>4 DEF CallSound, StepsSuffice, Sweeping, ClosedSound, NoCall
<1>22. AllocatorStateLoads'
  BY <1>3, <1>4, <1>6, <1>7 DEF AllocatorStateLoads, Loadable
<1> QED BY <1>14, <1>15, <1>16, <1>17, <1>18, <1>19, <1>20, <1>21, <1>22 DEF PoolInv

(* AllocatePage takes a page that is free, or the first past the end.      *)
LEMMA AllocatedPage ==
    ASSUME PoolInv, call.op = "new"
    PROVE  LET reused == handle.free_pages # {}
               p == IF reused THEN Min(handle.free_pages) ELSE handle.num_pages
           IN /\ p \in Page /\ latest[p] = NoPage /\ page_table[p] = NoFrame
              /\ reused => p \in handle.free_pages /\ p < Len(file)
              /\ ~reused => p = Len(file) /\ Len(file) < MaxPages
<1> DEFINE p == IF handle.free_pages # {} THEN Min(handle.free_pages) ELSE handle.num_pages
<1>1. /\ TypeOK /\ FramesSound /\ PagesExist /\ handle.open /\ handle.num_pages = Len(file)
      /\ handle.free_pages # {} \/ handle.num_pages < MaxPages
  BY DEF PoolInv, CallSound, PagesExist, NoCall
<1>2. handle.free_pages \subseteq Page /\ handle.free_pages \subseteq Nat /\ handle.num_pages \in Nat
  <2>1. handle.free_pages \subseteq Page /\ handle.num_pages \in Nat
    BY <1>1, PoolAssumption DEF TypeOK
  <2> QED BY <2>1, Domains
<1>3. handle.free_pages # {} => p \in handle.free_pages
  BY <1>2, MinOfNaturals
<1>4. handle.free_pages = {} => p = Len(file) /\ p < MaxPages
  BY <1>1
<1>5. p \in Page
  BY <1>1, <1>2, <1>3, <1>4, PoolAssumption DEF Page
<1>6. latest[p] = NoPage
  <2>1. ASSUME latest[p] # NoPage PROVE FALSE
    <3>1. p < Len(file) /\ p \notin handle.free_pages
      BY <1>1, <1>5, <2>1 DEF PagesExist
    <3> QED BY <1>1, <1>2, <1>3, <1>4, <3>1
  <2> QED BY <2>1
<1>7. page_table[p] = NoFrame
  <2>1. ASSUME page_table[p] # NoFrame PROVE FALSE
    <3>1. page_table[p] \in Frame
      BY <1>1, <1>5, <2>1 DEF TypeOK
    <3> QED BY <1>1, <1>5, <1>6, <2>1, <3>1 DEF FramesSound
  <2> QED BY <2>1
<1>8. handle.free_pages # {} => p < Len(file)
  BY <1>1, <1>3 DEF PagesExist
<1> QED BY <1>1, <1>3, <1>4, <1>5, <1>6, <1>7, <1>8

(* A page zeroed in place, and a page appended.                            *)
LEMMA ZeroedPage ==
    ASSUME NEW s \in Seq(Nat), NEW p \in Nat, p < Len(s)
    PROVE  LET t == [s EXCEPT ![p + 1] = 0]
           IN /\ t \in Seq(Nat) /\ Len(t) = Len(s) /\ t[p + 1] = 0
              /\ \A q \in Nat : q < Len(s) /\ q # p => t[q + 1] = s[q + 1]
<1>1. p + 1 \in 1..Len(s) /\ 0 \in Nat
  OBVIOUS
<1>2. [s EXCEPT ![p + 1] = 0] \in Seq(Nat) /\ Len([s EXCEPT ![p + 1] = 0]) = Len(s)
  BY <1>1, ExceptSeq
<1>3. \A i \in 1..Len(s) : [s EXCEPT ![p + 1] = 0][i] = IF i = p + 1 THEN 0 ELSE s[i]
  BY <1>1
<1>4. \A q \in Nat : q < Len(s) => q + 1 \in 1..Len(s) /\ (q # p => q + 1 # p + 1)
  OBVIOUS
<1> QED BY <1>1, <1>2, <1>3, <1>4

LEMMA AppendedPage ==
    ASSUME NEW s \in Seq(Nat)
    PROVE  LET t == Append(s, 0)
           IN /\ t \in Seq(Nat) /\ Len(t) = Len(s) + 1 /\ t[Len(s) + 1] = 0
              /\ \A q \in Nat : q < Len(s) => t[q + 1] = s[q + 1]
<1>1. /\ Append(s, 0) \in Seq(Nat) /\ Len(Append(s, 0)) = Len(s) + 1
      /\ Append(s, 0)[Len(s) + 1] = 0 /\ \A i \in 1..Len(s) : Append(s, 0)[i] = s[i]
  BY AppendProperties
<1>2. \A q \in Nat : q < Len(s) => q + 1 \in 1..Len(s)
  OBVIOUS
<1> QED BY <1>1, <1>2

(* The page is zeroed or appended on disk; nobody knows of it yet.         *)
LEMMA AllocatePageStep ==
    ASSUME PoolInv, AllocatePage
    PROVE  PoolInv'
<1> DEFINE reused == handle.free_pages # {}
           next == IF reused THEN Min(handle.free_pages) ELSE handle.num_pages
<1>1. TypeOK /\ FramesSound /\ PagesExist /\ VictimFound /\ call.op = "new" /\ clock_hand \in Frame
  BY DEF PoolInv, TypeOK, AllocatePage
<1>f. PICK f \in Frame : f = clock_hand
  BY <1>1
<1>2. /\ next \in Page /\ latest[next] = NoPage /\ page_table[next] = NoFrame
      /\ reused => next \in handle.free_pages /\ next < Len(file)
      /\ ~reused => next = Len(file) /\ Len(file) < MaxPages
  BY <1>1, AllocatedPage
<1>p. PICK p \in Page : p = next
  BY <1>2
<1>3. /\ frame_table' = [frame_table EXCEPT ![f] = EmptyFrame]
      /\ data' = [data EXCEPT ![f] = 0]
      /\ page_table' = TableWithout(f)
      /\ dirty_pages' = FlushedDirtyPages({f})
      /\ clock_hand' = NextHand
      /\ freelist' = FlushedFreelist({f})
      /\ file' = IF reused THEN [FlushedFile({f}) EXCEPT ![p + 1] = 0] ELSE Append(FlushedFile({f}), 0)
      /\ handle' = IF reused THEN [handle EXCEPT !.free_pages = @ \ {p}]
                   ELSE [handle EXCEPT !.num_pages = @ + 1]
      /\ call' = [call EXCEPT !.op = "allocate", !.frame = f, !.page = p, !.steps = 0]
      /\ UNCHANGED <<client, latest, counts>>
  BY <1>f, <1>p DEF AllocatePage
<1>4. /\ latest[p] = NoPage /\ page_table[p] = NoFrame
      /\ reused => p \in handle.free_pages /\ p < Len(file)
      /\ ~reused => p = Len(file) /\ Len(file) < MaxPages
  BY <1>2, <1>p
<1> HIDE DEF next
<1>5. /\ handle.open /\ call.op # "free" /\ {f} \in SUBSET Frame
      /\ \A d \in Client : client[d] = Idle \/ client[d].frame # f
      /\ Cardinality(Users(f)) = 0
  BY <1>1, <1>f, VictimUnused
<1>6. /\ TableWithout(f) \in [Page -> Frame \cup {NoFrame}]
      /\ \A q \in Page : TableWithout(f)[q] # NoFrame =>
             /\ TableWithout(f)[q] = page_table[q]
             /\ TableWithout(f)[q] \in Frame \ {f}
      /\ \A g \in Frame : g # f /\ frame_table[g].valid => TableWithout(f)[frame_table[g].page] = g
      /\ \A q \in Page : latest[q] # NoPage =>
             latest[q] = IF TableWithout(f)[q] # NoFrame THEN data[TableWithout(f)[q]]
                         ELSE FlushedFile({f})[q + 1]
      /\ \A g \in Frame :
             /\ g # f /\ frame_table[g].valid /\ ~frame_table[g].dirty
             /\ \A d \in Client : ~(client[d].frame = g /\ client[d].changed)
             => data[g] = FlushedFile({f})[frame_table[g].page + 1]
  BY <1>1, <1>f, Evicted
<1>7. FlushedFile({f}) \in Seq(Nat) /\ Len(FlushedFile({f})) = Len(file) /\ Len(file) \in Nat
  BY <1>1, <1>5, FlushedFileIs DEF TypeOK
<1>8. /\ file' \in Seq(Nat) /\ Len(file') = IF reused THEN Len(file) ELSE Len(file) + 1
      /\ file'[p + 1] = 0
      /\ \A q \in Page : q < Len(file) /\ q # p => file'[q + 1] = FlushedFile({f})[q + 1]
  <2>1. p \in Nat /\ Page \subseteq Nat
    BY Domains
  <2>2. CASE reused
    BY <1>3, <1>4, <1>7, <2>1, <2>2, ZeroedPage
  <2>3. CASE ~reused
    BY <1>3, <1>4, <1>7, <2>1, <2>3, AppendedPage
  <2> QED BY <2>2, <2>3
<1>9. /\ freelist'.num_pages <= Len(file) /\ \A q \in freelist'.free_pages : q < Len(file)
      /\ \A q \in Page : latest[q] # NoPage => q \notin freelist'.free_pages
  BY <1>3, <1>5, FlushedDisk
<1>10. /\ handle' \in [open : BOOLEAN, num_pages : 0..MaxPages, free_pages : SUBSET Page]
       /\ handle'.open /\ handle'.num_pages = Len(file')
       /\ handle'.free_pages = handle.free_pages \ {p}
  <2>1. /\ handle \in [open : BOOLEAN, num_pages : 0..MaxPages, free_pages : SUBSET Page]
        /\ handle.open /\ handle.num_pages = Len(file)
    BY <1>1, <1>5 DEF TypeOK, PagesExist
  <2>2. CASE reused
    BY <1>3, <1>8, <2>1, <2>2
  <2>3. CASE ~reused
    <3>1. handle.num_pages + 1 \in 0..MaxPages /\ handle.free_pages \ {p} = handle.free_pages
      BY <1>4, <1>7, <2>1, <2>3, PoolAssumption
    <3>2. handle' = [handle EXCEPT !.num_pages = @ + 1] /\ Len(file') = Len(file) + 1
      BY <1>3, <1>8, <2>3
    <3> QED BY <2>1, <3>1, <3>2
  <2> QED BY <2>2, <2>3
<1>11. \A g \in Frame : frame_table'[g] = IF g = f THEN EmptyFrame ELSE frame_table[g]
  BY <1>1, <1>3 DEF TypeOK
<1>12. \A g \in Frame : data'[g] = IF g = f THEN 0 ELSE data[g]
  BY <1>1, <1>3 DEF TypeOK
<1>13. /\ call' \in CallType /\ call'.op = "allocate" /\ call'.frame = f /\ call'.page = p
       /\ call'.client = call.client
  <2>1. call \in CallType
    BY <1>1 DEF TypeOK
  <2> QED BY <1>3, <2>1 DEF CallType
<1>14. \A q \in Page : latest[q] # NoPage => q < Len(file) /\ q # p /\ file'[q + 1] = FlushedFile({f})[q + 1]
  BY <1>1, <1>4, <1>8 DEF PagesExist
<1>15. ~EmptyFrame.valid /\ ~EmptyFrame.dirty /\ EmptyFrame.pin = 0
  BY DEF EmptyFrame
<1>16. TypeOK'
  <2>1. frame_table' \in [Frame -> FrameDesc] /\ data' \in [Frame -> Nat]
    BY <1>1, <1>3, Domains DEF TypeOK
  <2>2. dirty_pages' \in SUBSET Page
    BY <1>1, <1>3 DEF TypeOK, FlushedDirtyPages
  <2>3. freelist' \in [num_pages : Nat, free_pages : SUBSET Page]
    BY <1>1, <1>3, FlushedFreelistType
  <2>4. clock_hand' \in Frame
    BY <1>1, <1>3, HandTurns
  <2> QED BY <1>1, <1>3, <1>6, <1>8, <1>10, <1>13, <2>1, <2>2, <2>3, <2>4 DEF TypeOK
<1>17. FramesSound'
  <2>1. ASSUME NEW g \in Frame, ~frame_table'[g].valid PROVE frame_table'[g] = EmptyFrame
    BY <1>1, <1>11, <2>1 DEF FramesSound
  <2>2. ASSUME NEW g \in Frame, frame_table'[g].valid
        PROVE  /\ frame_table'[g].page \in Page
               /\ latest'[frame_table'[g].page] # NoPage /\ page_table'[frame_table'[g].page] = g
    BY <1>1, <1>3, <1>6, <1>11, <1>15, <2>2 DEF FramesSound
  <2>3. ASSUME NEW q \in Page, page_table'[q] # NoFrame
        PROVE  frame_table'[page_table'[q]].valid /\ frame_table'[page_table'[q]].page = q
    <3>1. page_table'[q] = page_table[q] /\ page_table[q] \in Frame \ {f}
      BY <1>3, <1>6, <2>3
    <3>2. frame_table[page_table[q]].valid /\ frame_table[page_table[q]].page = q
      BY <1>1, <3>1, Domains DEF FramesSound
    <3> QED BY <1>11, <3>1, <3>2
  <2> QED BY <2>1, <2>2, <2>3 DEF FramesSound
<1>18. DirtyPagesSound'
  <2> SUFFICES ASSUME NEW q \in Page
               PROVE  q \in dirty_pages' <=> \E g \in Frame : frame_table'[g].dirty /\ frame_table'[g].page = q
    BY DEF DirtyPagesSound
  <2>1. q \in dirty_pages' <=> \E g \in Frame : g \notin {f} /\ frame_table[g].dirty /\ frame_table[g].page = q
    BY <1>3, <1>5, FlushedDirtyPagesAre
  <2> QED BY <1>11, <1>15, <2>1
<1>19. ClientsSound'
  BY <1>3, <1>5, <1>11 DEF PoolInv, ClientsSound
<1>20. PinsSound'
  <2>1. \A g \in Frame : Users(g)' = Users(g)
    BY <1>3 DEF Users
  <2> QED BY <1>5, <1>11, <1>15, <2>1 DEF PoolInv, PinsSound
<1>21. NoLostUpdate'
  <2>1. ASSUME NEW q \in Page, latest[q] # NoPage
        PROVE  latest[q] = IF page_table'[q] # NoFrame THEN data'[page_table'[q]] ELSE file'[q + 1]
    <3>1. latest[q] = IF TableWithout(f)[q] # NoFrame THEN data[TableWithout(f)[q]] ELSE file'[q + 1]
      BY <1>6, <1>14, <2>1
    <3> QED BY <1>3, <1>6, <1>12, <3>1
  <2>2. ASSUME NEW g \in Frame, frame_table'[g].valid, ~frame_table'[g].dirty,
               \A d \in Client : ~(client'[d].frame = g /\ client'[d].changed)
        PROVE  data'[g] = file'[frame_table'[g].page + 1]
    <3>1. g # f /\ frame_table'[g] = frame_table[g] /\ data'[g] = data[g]
      BY <1>11, <1>12, <1>15, <2>2
    <3>2. data[g] = FlushedFile({f})[frame_table[g].page + 1]
      BY <1>3, <1>6, <2>2, <3>1
    <3>3. frame_table[g].page \in Page /\ latest[frame_table[g].page] # NoPage
      BY <1>1, <2>2, <3>1 DEF FramesSound
    <3> QED BY <1>14, <3>1, <3>2, <3>3
  <2> QED BY <1>3, <2>1, <2>2 DEF NoLostUpdate, InUse, PageOnDisk
<1>22. PagesExist'
  <2>1. \A q \in handle'.free_pages : q < handle'.num_pages
    <3>1. \A q \in handle'.free_pages : q \in handle.free_pages /\ q \in Nat /\ q < Len(file)
      BY <1>1, <1>5, <1>10, Domains DEF PagesExist, TypeOK
    <3> QED BY <1>7, <1>8, <1>10, <3>1
  <2>2. Len(file') <= MaxPages /\ \A q \in Page : q < Len(file) => q < Len(file')
    <3>1. Page \subseteq Nat /\ Len(file) <= MaxPages
      BY <1>1, Domains DEF PagesExist
    <3> QED BY <1>4, <1>7, <1>8, <3>1, PoolAssumption, SMTT(30)
  <2> QED BY <1>1, <1>3, <1>9, <1>10, <1>14, <2>1, <2>2 DEF PagesExist
<1>23. CallSound'
  <2>1. call.client \in Client /\ client[call.client] = Idle
    BY <1>1 DEF PoolInv, CallSound
  <2>2. p < Len(file')
    BY <1>4, <1>7, <1>8
  <2> QED BY <1>3, <1>4, <1>8, <1>10, <1>11, <1>13, <2>1, <2>2 DEF CallSound, PageOnDisk, NoCall
<1>24. StepsSuffice' /\ ClosedSound'
  BY <1>10, <1>13 DEF StepsSuffice, Sweeping, ClosedSound
<1>25. AllocatorStateLoads'
  <2>1. freelist'.num_pages \in Nat /\ \A q \in freelist'.free_pages : q \in Nat
    BY <1>16, Domains DEF TypeOK
  <2> QED BY <1>7, <1>8, <1>9, <2>1 DEF AllocatorStateLoads, Loadable
<1> QED BY <1>16, <1>17, <1>18, <1>19, <1>20, <1>21, <1>22, <1>23, <1>24, <1>25 DEF PoolInv

(* NewPage hands the allocated page out, pinned, clean and zero.           *)
LEMMA NewPageStep ==
    ASSUME PoolInv, NewPage
    PROVE  PoolInv'
<1>1. TypeOK /\ FramesSound /\ PagesExist /\ call.op = "allocate" /\ CallSound
  BY DEF PoolInv, NewPage
<1>f. PICK f \in Frame : f = call.frame
  BY <1>1 DEF CallSound
<1>p. PICK p \in Page : p = call.page
  BY <1>1 DEF CallSound
<1>c. PICK c \in Client : c = call.client
  BY <1>1 DEF CallSound
<1>2. /\ client[c] = Idle /\ frame_table[f] = EmptyFrame /\ latest[p] = NoPage
      /\ p < Len(file) /\ file[p + 1] = 0 /\ p \notin handle.free_pages /\ handle.open
  BY <1>1, <1>f, <1>p, <1>c DEF CallSound, PageOnDisk, NoCall
<1>3. /\ freelist' = [num_pages |-> handle.num_pages, free_pages |-> handle.free_pages]
      /\ frame_table' = [frame_table EXCEPT ![f] = Loaded(p)]
      /\ data' = [data EXCEPT ![f] = 0]
      /\ page_table' = [page_table EXCEPT ![p] = f]
      /\ client' = [client EXCEPT ![c] = Using(p, f)]
      /\ latest' = [latest EXCEPT ![p] = 0]
      /\ call' = NoCall
      /\ UNCHANGED <<dirty_pages, clock_hand, handle, file, counts>>
  BY <1>f, <1>p, <1>c DEF NewPage, SavedByAllocate, AllocatorState
<1>4. ~frame_table[f].valid /\ ~frame_table[f].dirty /\ frame_table[f].pin = 0
  BY <1>2 DEF EmptyFrame
<1>5. page_table[p] = NoFrame /\ \A q \in Page : page_table[q] # f
  <2>1. \A q \in Page : page_table[q] = NoFrame \/ page_table[q] \in Frame
    BY <1>1 DEF TypeOK
  <2>2. ASSUME page_table[p] # NoFrame PROVE FALSE
    BY <1>1, <1>2, <2>1, <2>2 DEF FramesSound
  <2>3. ASSUME NEW q \in Page, page_table[q] = f PROVE FALSE
    BY <1>1, <1>4, <2>3, Domains DEF FramesSound
  <2> QED BY <2>2, <2>3
<1>6. /\ Loaded(p) \in FrameDesc
      /\ Loaded(p).page = p /\ Loaded(p).valid /\ ~Loaded(p).dirty /\ Loaded(p).pin = 1
  BY LoadedFrame
<1>7. \A g \in Frame : frame_table'[g] = IF g = f THEN Loaded(p) ELSE frame_table[g]
  BY <1>1, <1>3 DEF TypeOK
<1>8. \A q \in Page : page_table'[q] = IF q = p THEN f ELSE page_table[q]
  BY <1>1, <1>3 DEF TypeOK
<1>9. \A g \in Frame : data'[g] = IF g = f THEN 0 ELSE data[g]
  BY <1>1, <1>3 DEF TypeOK
<1>10. \A q \in Page : latest'[q] = IF q = p THEN 0 ELSE latest[q]
  BY <1>1, <1>3 DEF TypeOK
<1>11. /\ client' \in [Client -> ClientState]
       /\ client'[c] = [page |-> p, frame |-> f, changed |-> FALSE]
       /\ \A d \in Client : d # c => client'[d] = client[d]
       /\ Cardinality(Users(f)') = 1
       /\ \A g \in Frame : g # f => Users(g)' = Users(g)
  <2>1. /\ client' \in [Client -> ClientState]
        /\ client'[c] = [page |-> p, frame |-> f, changed |-> FALSE]
        /\ \A d \in Client : d # c => client'[d] = client[d]
        /\ Cardinality(Users(f)') = Cardinality(Users(f)) + 1
        /\ \A g \in Frame : g # f => Users(g)' = Users(g)
    <3>1. TypeOK /\ client[c] = Idle /\ client' = [client EXCEPT ![c] = Using(p, f)]
      BY <1>1, <1>2, <1>3
    <3> QED BY <3>1, UserAdded
  <2>2. Cardinality(Users(f)) = 0
    BY <1>4 DEF PoolInv, PinsSound
  <2>3. Cardinality(Users(f)') = 1
    BY <2>1, <2>2
  <2> QED BY <2>1, <2>3, Zenon
<1>12. 0 # NoPage /\ 0 \in Nat
  BY DEF NoPage
<1>13. TypeOK'
  <2>1. frame_table' \in [Frame -> FrameDesc] /\ data' \in [Frame -> Nat]
    BY <1>1, <1>3, <1>6 DEF TypeOK
  <2>2. page_table' \in [Page -> Frame \cup {NoFrame}] /\ latest' \in [Page -> Nat \cup {NoPage}]
    BY <1>1, <1>3 DEF TypeOK
  <2>3. freelist' \in [num_pages : Nat, free_pages : SUBSET Page]
    BY <1>1, <1>3, PoolAssumption DEF TypeOK
  <2> QED BY <1>1, <1>3, <1>11, <2>1, <2>2, <2>3, Domains DEF TypeOK
<1>14. FramesSound'
  <2>1. ASSUME NEW g \in Frame, ~frame_table'[g].valid PROVE frame_table'[g] = EmptyFrame
    BY <1>1, <1>6, <1>7, <2>1 DEF FramesSound
  <2>2. ASSUME NEW g \in Frame, frame_table'[g].valid
        PROVE  /\ frame_table'[g].page \in Page
               /\ latest'[frame_table'[g].page] # NoPage /\ page_table'[frame_table'[g].page] = g
    <3>1. CASE g = f
      BY <1>6, <1>7, <1>8, <1>10, <1>12, <3>1
    <3>2. CASE g # f
      <4>1. frame_table'[g] = frame_table[g] /\ frame_table[g].valid
        BY <1>7, <2>2, <3>2
      <4>2. frame_table[g].page \in Page /\ latest[frame_table[g].page] # NoPage /\ page_table[frame_table[g].page] = g
        BY <1>1, <4>1 DEF FramesSound
      <4>3. frame_table[g].page # p
        BY <1>2, <4>2
      <4> QED BY <1>8, <1>10, <4>1, <4>2, <4>3
    <3> QED BY <3>1, <3>2
  <2>3. ASSUME NEW q \in Page, page_table'[q] # NoFrame
        PROVE  frame_table'[page_table'[q]].valid /\ frame_table'[page_table'[q]].page = q
    <3>1. CASE q = p
      BY <1>6, <1>7, <1>8, <3>1
    <3>2. CASE q # p
      <4>1. page_table'[q] = page_table[q] /\ page_table[q] \in Frame /\ page_table[q] # f
        BY <1>1, <1>5, <1>8, <2>3, <3>2 DEF TypeOK
      <4>2. frame_table[page_table[q]].valid /\ frame_table[page_table[q]].page = q
        BY <1>1, <4>1, Domains DEF FramesSound
      <4> QED BY <1>7, <4>1, <4>2
    <3> QED BY <3>1, <3>2
  <2> QED BY <2>1, <2>2, <2>3 DEF FramesSound
<1>15. DirtyPagesSound'
  BY <1>3, <1>4, <1>6, <1>7 DEF PoolInv, DirtyPagesSound
<1>16. ClientsSound'
  <2>1. client'[c].page = p /\ client'[c].frame = f
    BY <1>11
  <2>2. ASSUME NEW d \in Client, d # c, client'[d] # Idle
        PROVE  /\ client'[d].page \in Page /\ client'[d].frame \in Frame
               /\ frame_table'[client'[d].frame].valid
               /\ frame_table'[client'[d].frame].page = client'[d].page
    <3>1. client'[d] = client[d] /\ client[d] # Idle
      BY <1>11, <2>2
    <3>2. client[d].page \in Page /\ client[d].frame \in Frame
          /\ frame_table[client[d].frame].valid /\ frame_table[client[d].frame].page = client[d].page
      BY <3>1 DEF PoolInv, ClientsSound
    <3> QED BY <1>4, <1>7, <3>1, <3>2
  <2> QED BY <1>6, <1>7, <2>1, <2>2 DEF ClientsSound
<1>17. PinsSound'
  BY <1>6, <1>7, <1>11 DEF PoolInv, PinsSound
<1>18. NoLostUpdate'
  <2>1. ASSUME NEW q \in Page, latest'[q] # NoPage
        PROVE  latest'[q] = IF page_table'[q] # NoFrame THEN data'[page_table'[q]] ELSE file[q + 1]
    <3>1. CASE q = p
      BY <1>8, <1>9, <1>10, <3>1, Domains
    <3>2. CASE q # p
      <4>1. latest[q] = IF page_table[q] # NoFrame THEN data[page_table[q]] ELSE file[q + 1]
        BY <1>10, <2>1, <3>2 DEF PoolInv, NoLostUpdate, InUse, PageOnDisk
      <4>2. page_table[q] # NoFrame => page_table[q] \in Frame /\ page_table[q] # f
        BY <1>1, <1>5 DEF TypeOK
      <4> QED BY <1>8, <1>9, <1>10, <3>2, <4>1, <4>2
    <3> QED BY <3>1, <3>2
  <2>2. ASSUME NEW g \in Frame, frame_table'[g].valid, ~frame_table'[g].dirty,
               \A d \in Client : ~(client'[d].frame = g /\ client'[d].changed)
        PROVE  data'[g] = file[frame_table'[g].page + 1]
    <3>1. CASE g = f
      BY <1>2, <1>6, <1>7, <1>9, <3>1
    <3>2. CASE g # f
      <4>1. ~client[c].changed
        BY <1>2 DEF Idle
      <4>2. \A d \in Client : ~(client[d].frame = g /\ client[d].changed)
        BY <1>11, <2>2, <4>1
      <4>3. frame_table'[g] = frame_table[g] /\ data'[g] = data[g]
        BY <1>7, <1>9, <3>2
      <4> QED BY <2>2, <4>2, <4>3 DEF PoolInv, NoLostUpdate, PageOnDisk
    <3> QED BY <3>1, <3>2
  <2> QED BY <1>3, <2>1, <2>2 DEF NoLostUpdate, InUse, PageOnDisk
<1>19. PagesExist'
  BY <1>1, <1>2, <1>3, <1>10 DEF PagesExist
<1>20. CallSound' /\ StepsSuffice' /\ ClosedSound'
  BY <1>2, <1>3 DEF CallSound, StepsSuffice, Sweeping, ClosedSound, NoCall
<1>21. AllocatorStateLoads'
  <2>1. handle.num_pages = Len(file) /\ Len(file) \in Nat /\ \A q \in handle.free_pages : q < Len(file)
    BY <1>1, <1>2 DEF PagesExist, TypeOK
  <2> QED BY <1>3, <2>1 DEF AllocatorStateLoads, Loadable
<1> QED BY <1>13, <1>14, <1>15, <1>16, <1>17, <1>18, <1>19, <1>20, <1>21 DEF PoolInv

(* Trimming cuts off free pages only, and keeps none beyond the end.       *)
LEMMA TrimmedHandle ==
    ASSUME NEW h \in [open : BOOLEAN, num_pages : 0..MaxPages, free_pages : SUBSET Page]
    PROVE  /\ Trimmed(h) \in [open : BOOLEAN, num_pages : 0..MaxPages, free_pages : SUBSET Page]
           /\ Trimmed(h).open = h.open /\ Trimmed(h).num_pages <= h.num_pages
           /\ Trimmed(h).free_pages \subseteq h.free_pages
           /\ \A p \in Trimmed(h).free_pages : p < Trimmed(h).num_pages
           /\ \A p \in Page : p < h.num_pages /\ p \notin h.free_pages => p < Trimmed(h).num_pages
<1> DEFINE kept == {n \in 0..h.num_pages : n..(h.num_pages - 1) \subseteq h.free_pages}
<1>1. h.num_pages \in Nat /\ h.num_pages <= MaxPages /\ h.free_pages \subseteq Page
  BY PoolAssumption
<1>2. kept \subseteq Nat /\ h.num_pages \in kept
  BY <1>1
<1>n. PICK n \in Nat : n = Min(kept)
  BY <1>2, MinOfNaturals
<1>3. n \in kept
  BY <1>2, <1>n, MinOfNaturals
<1>4. n <= h.num_pages /\ \A p \in Nat : n <= p /\ p < h.num_pages => p \in h.free_pages
  BY <1>1, <1>3
<1>5. Trimmed(h) = [h EXCEPT !.num_pages = n, !.free_pages = {p \in h.free_pages : p < n}]
  BY <1>n DEF Trimmed
<1> HIDE DEF kept
<1>6. n \in 0..MaxPages /\ {p \in h.free_pages : p < n} \in SUBSET Page
  BY <1>1, <1>4, PoolAssumption
<1>7. \A p \in Page : p < h.num_pages /\ p \notin h.free_pages => p < n
  BY <1>1, <1>4, Domains
<1> QED BY <1>4, <1>5, <1>6, <1>7, ZenonT(60)

(* A page nobody has pinned leaves the pool, and the file may shrink.      *)
LEMMA DeletePageStep ==
    ASSUME PoolInv, NEW p \in Page, DeletePage(p)
    PROVE  PoolInv'
<1> DEFINE freed == [handle EXCEPT !.free_pages = @ \cup {p}]
           after == Trimmed(freed)
<1>1. /\ TypeOK /\ FramesSound /\ PagesExist /\ ClientsSound /\ PinsSound
      /\ handle.open /\ call = NoCall /\ latest[p] # NoPage
  BY DEF PoolInv, DeletePage, Latched, InUse
<1>2. /\ page_table' = [page_table EXCEPT ![p] = NoFrame]
      /\ dirty_pages' = dirty_pages \ {p}
      /\ handle' = after /\ file' = SubSeq(file, 1, after.num_pages)
      /\ latest' = [latest EXCEPT ![p] = NoPage]
      /\ call' = [NoCall EXCEPT !.op = "free", !.page = p]
      /\ counts' = [counts EXCEPT !.frees = @ + 1]
      /\ UNCHANGED <<clock_hand, freelist, client>>
  BY DEF DeletePage
<1>3. \A g \in Frame : frame_table'[g] = IF g = page_table[p] THEN EmptyFrame ELSE frame_table[g]
  BY <1>1, Domains DEF DeletePage, TypeOK
<1>4. \A g \in Frame : data'[g] = IF g = page_table[p] THEN 0 ELSE data[g]
  BY <1>1, Domains DEF DeletePage, TypeOK
<1>5. frame_table' \in [Frame -> FrameDesc] /\ data' \in [Frame -> Nat]
  BY <1>1, Domains DEF DeletePage, TypeOK
<1>6. /\ handle' \in [open : BOOLEAN, num_pages : 0..MaxPages, free_pages : SUBSET Page]
      /\ handle'.open /\ handle'.num_pages <= Len(file)
      /\ \A q \in handle'.free_pages : q \in handle.free_pages \cup {p} /\ q < handle'.num_pages
      /\ \A q \in Page : q < Len(file) /\ q \notin handle.free_pages /\ q # p => q < handle'.num_pages
  <2>1. handle \in [open : BOOLEAN, num_pages : 0..MaxPages, free_pages : SUBSET Page]
        /\ handle.num_pages = Len(file)
    BY <1>1 DEF TypeOK, PagesExist
  <2>2. /\ freed \in [open : BOOLEAN, num_pages : 0..MaxPages, free_pages : SUBSET Page]
        /\ freed.open = handle.open /\ freed.num_pages = Len(file)
        /\ freed.free_pages = handle.free_pages \cup {p}
    BY <2>1
  <2> HIDE DEF freed
  <2>3. /\ after \in [open : BOOLEAN, num_pages : 0..MaxPages, free_pages : SUBSET Page]
        /\ after.open = freed.open /\ after.num_pages <= freed.num_pages
        /\ after.free_pages \subseteq freed.free_pages
        /\ \A q \in after.free_pages : q < after.num_pages
        /\ \A q \in Page : q < freed.num_pages /\ q \notin freed.free_pages => q < after.num_pages
    BY <2>2, TrimmedHandle
  <2> HIDE DEF after
  <2> QED BY <1>1, <1>2, <2>2, <2>3
<1>7. /\ file' \in Seq(Nat) /\ Len(file') = handle'.num_pages
      /\ \A q \in Page : q < handle'.num_pages => file'[q + 1] = file[q + 1]
  <2>n. PICK n \in Nat : n = handle'.num_pages
    BY <1>6, PoolAssumption
  <2>1. file \in Seq(Nat) /\ Len(file) \in Nat /\ n <= Len(file) /\ file' = SubSeq(file, 1, n)
    BY <1>1, <1>2, <1>6, <2>n DEF TypeOK
  <2>2. /\ file' \in Seq(Nat) /\ Len(file') = n /\ \A i \in 1..n : file'[i] = file[i]
    BY <2>1
  <2>3. \A q \in Page : q < n => q + 1 \in 1..n
    BY Domains
  <2> QED BY <2>n, <2>2, <2>3
<1>8. \A q \in Page : page_table'[q] = IF q = p THEN NoFrame ELSE page_table[q]
  BY <1>1, <1>2 DEF TypeOK
<1>9. \A q \in Page : latest'[q] = IF q = p THEN NoPage ELSE latest[q]
  BY <1>1, <1>2 DEF TypeOK
<1>10. call' = [op |-> "free", frame |-> NoFrame, page |-> p, client |-> "none", steps |-> 0]
  BY <1>2 DEF NoCall
<1>11. \A q \in Page : latest'[q] # NoPage =>
           /\ latest[q] # NoPage /\ q # p /\ q < Len(file) /\ q < Len(file')
           /\ q \notin handle'.free_pages /\ file'[q + 1] = file[q + 1]
  BY <1>1, <1>6, <1>7, <1>9 DEF PagesExist
<1>12. \A q \in Page : q # p /\ page_table[q] # NoFrame => page_table[q] \in Frame /\ page_table[q] # page_table[p]
  BY <1>1, SMTT(30) DEF FramesSound, TypeOK
<1>13. ~EmptyFrame.valid /\ ~EmptyFrame.dirty /\ EmptyFrame.pin = 0
  BY DEF EmptyFrame
<1>14. \A d \in Client : client[d] # Idle => client[d].frame # page_table[p]
  <2> SUFFICES ASSUME NEW d \in Client, client[d] # Idle, client[d].frame = page_table[p] PROVE FALSE
    OBVIOUS
  <2>1. client[d].page \in Page /\ client[d].page # NoPage /\ client[d].frame \in Frame
    BY <1>1, Domains DEF ClientsSound
  <2>f. PICK f \in Frame : f = page_table[p]
    BY <2>1
  <2>2. frame_table[f].pin = 0
    BY <2>f, Domains DEF DeletePage, Deletable
  <2>3. Cardinality(Users(f)) = 0 /\ d \in Users(f) /\ Users(f) \subseteq Client
    BY <1>1, <2>1, <2>2, <2>f DEF PinsSound, Users
  <2>4. IsFiniteSet(Users(f))
    BY <2>3, ClientAssumption, FS_Subset
  <2> QED BY <2>3, <2>4, FS_EmptySet
<1>15. TypeOK'
  <2>1. call' \in CallType
    BY <1>10 DEF CallType
  <2>2. counts' \in [versions : Nat, frees : Nat, crashes : Nat]
    <3>1. counts \in [versions : Nat, frees : Nat, crashes : Nat]
      BY <1>1 DEF TypeOK
    <3> QED BY <1>2, <3>1
  <2>3. page_table' \in [Page -> Frame \cup {NoFrame}] /\ latest' \in [Page -> Nat \cup {NoPage}]
        /\ dirty_pages' \in SUBSET Page
    BY <1>1, <1>2 DEF TypeOK
  <2> QED BY <1>1, <1>2, <1>5, <1>6, <1>7, <2>1, <2>2, <2>3 DEF TypeOK
<1>16. FramesSound'
  <2>1. ASSUME NEW g \in Frame, ~frame_table'[g].valid PROVE frame_table'[g] = EmptyFrame
    BY <1>1, <1>3, <2>1 DEF FramesSound
  <2>2. ASSUME NEW g \in Frame, frame_table'[g].valid
        PROVE  /\ frame_table'[g].page \in Page
               /\ latest'[frame_table'[g].page] # NoPage /\ page_table'[frame_table'[g].page] = g
    <3>1. g # page_table[p] /\ frame_table'[g] = frame_table[g] /\ frame_table[g].valid
      BY <1>3, <1>13, <2>2
    <3>2. frame_table[g].page \in Page /\ latest[frame_table[g].page] # NoPage /\ page_table[frame_table[g].page] = g
      BY <1>1, <3>1 DEF FramesSound
    <3>3. frame_table[g].page # p
      BY <3>1, <3>2
    <3> QED BY <1>8, <1>9, <3>1, <3>2, <3>3
  <2>3. ASSUME NEW q \in Page, page_table'[q] # NoFrame
        PROVE  frame_table'[page_table'[q]].valid /\ frame_table'[page_table'[q]].page = q
    <3>1. q # p /\ page_table'[q] = page_table[q] /\ page_table[q] \in Frame /\ page_table[q] # page_table[p]
      BY <1>8, <1>12, <2>3
    <3>2. frame_table[page_table[q]].valid /\ frame_table[page_table[q]].page = q
      BY <1>1, <3>1, Domains DEF FramesSound
    <3> QED BY <1>3, <3>1, <3>2
  <2> QED BY <2>1, <2>2, <2>3 DEF FramesSound
<1>17. DirtyPagesSound'
  <2> SUFFICES ASSUME NEW q \in Page
               PROVE  q \in dirty_pages' <=> \E g \in Frame : frame_table'[g].dirty /\ frame_table'[g].page = q
    BY DEF DirtyPagesSound
  <2>1. q \in dirty_pages <=> \E g \in Frame : frame_table[g].dirty /\ frame_table[g].page = q
    BY DEF PoolInv, DirtyPagesSound
  <2>2. \A g \in Frame : frame_table[g].dirty => frame_table[g].valid
    BY <1>1, <1>13 DEF FramesSound
  <2>3. ASSUME NEW g \in Frame, frame_table[g].dirty
        PROVE  g = page_table[p] <=> frame_table[g].page = p
    BY <1>1, <2>2, <2>3, Domains DEF FramesSound
  <2>4. ASSUME NEW g \in Frame PROVE frame_table'[g].dirty /\ frame_table'[g].page = q <=>
                      frame_table[g].dirty /\ frame_table[g].page = q /\ q # p
    <3>1. CASE g = page_table[p]
      BY <1>3, <1>13, <2>3, <3>1
    <3>2. CASE g # page_table[p]
      BY <1>3, <2>3, <3>2
    <3> QED BY <3>1, <3>2
  <2> QED BY <1>2, <2>1, <2>4
<1>18. ClientsSound'
  <2> SUFFICES ASSUME NEW d \in Client, client'[d] # Idle
               PROVE  /\ client'[d].page \in Page /\ client'[d].frame \in Frame
                      /\ frame_table'[client'[d].frame].valid
                      /\ frame_table'[client'[d].frame].page = client'[d].page
    BY DEF ClientsSound
  <2>1. client'[d] = client[d] /\ client[d] # Idle /\ client[d].frame # page_table[p]
    BY <1>2, <1>14
  <2> QED BY <1>1, <1>3, <2>1 DEF ClientsSound
<1>19. PinsSound'
  <2> SUFFICES ASSUME NEW g \in Frame PROVE frame_table'[g].pin = Cardinality(Users(g)')
    BY DEF PinsSound
  <2>1. Users(g)' = Users(g) /\ frame_table[g].pin = Cardinality(Users(g))
    BY <1>1, <1>2 DEF Users, PinsSound
  <2>2. frame_table'[g].pin = frame_table[g].pin
    BY <1>3, <1>13, Domains DEF DeletePage, Deletable
  <2> QED BY <2>1, <2>2
<1>20. NoLostUpdate'
  <2>1. ASSUME NEW q \in Page, latest'[q] # NoPage
        PROVE  latest'[q] = IF page_table'[q] # NoFrame THEN data'[page_table'[q]] ELSE file'[q + 1]
    <3>1. q # p /\ latest'[q] = latest[q] /\ latest[q] # NoPage /\ file'[q + 1] = file[q + 1]
      BY <1>9, <1>11, <2>1
    <3>2. latest[q] = IF page_table[q] # NoFrame THEN data[page_table[q]] ELSE file[q + 1]
      BY <3>1 DEF PoolInv, NoLostUpdate, InUse, PageOnDisk
    <3> QED BY <1>4, <1>8, <1>12, <3>1, <3>2
  <2>2. ASSUME NEW g \in Frame, frame_table'[g].valid, ~frame_table'[g].dirty,
               \A d \in Client : ~(client'[d].frame = g /\ client'[d].changed)
        PROVE  data'[g] = file'[frame_table'[g].page + 1]
    <3>1. g # page_table[p] /\ frame_table'[g] = frame_table[g] /\ data'[g] = data[g]
      BY <1>3, <1>4, <1>13, <2>2
    <3>2. data[g] = file[frame_table[g].page + 1]
      BY <1>2, <2>2, <3>1 DEF PoolInv, NoLostUpdate, PageOnDisk
    <3>3. frame_table'[g].page \in Page /\ latest'[frame_table'[g].page] # NoPage
      BY <1>16, <2>2 DEF FramesSound
    <3> QED BY <1>11, <3>1, <3>2, <3>3
  <2> QED BY <2>1, <2>2 DEF NoLostUpdate, InUse, PageOnDisk
<1>21. PagesExist'
  <2>1. Len(file') <= MaxPages
    BY <1>6, <1>7, PoolAssumption
  <2>2. \A q \in Page : latest'[q] # NoPage => q \notin freelist'.free_pages
    BY <1>1, <1>2, <1>11 DEF PagesExist
  <2> QED BY <1>6, <1>7, <1>11, <2>1, <2>2 DEF PagesExist
<1>22. CallSound' /\ StepsSuffice' /\ ClosedSound' /\ AllocatorStateLoads'
  BY <1>6, <1>10 DEF CallSound, StepsSuffice, Sweeping, ClosedSound, AllocatorStateLoads
<1> QED BY <1>15, <1>16, <1>17, <1>18, <1>19, <1>20, <1>21, <1>22 DEF PoolInv

(* With an empty pool and a closed relation only the disk counts.          *)
LEMMA ForgottenPool ==
    ASSUME TypeOK, ForgetMemory,
           file' \in Seq(Nat), Len(file') <= MaxPages,
           freelist' \in [num_pages : Nat, free_pages : SUBSET Page],
           latest' \in [Page -> Nat \cup {NoPage}], counts' \in [versions : Nat, frees : Nat, crashes : Nat],
           \A p \in Page : latest'[p] # NoPage =>
               p < Len(file') /\ latest'[p] = file'[p + 1] /\ p \notin freelist'.free_pages,
           counts'.crashes = 0 => Loadable'
    PROVE  PoolInv'
<1>1. /\ frame_table' = [f \in Frame |-> EmptyFrame] /\ page_table' = [p \in Page |-> NoFrame]
      /\ data' = [f \in Frame |-> 0] /\ dirty_pages' = {} /\ clock_hand' = 0
      /\ handle' = [open |-> FALSE, num_pages |-> 0, free_pages |-> {}]
      /\ client' = [c \in Client |-> Idle] /\ call' = NoCall
  BY DEF ForgetMemory, EmptyPool
<1>2. ~EmptyFrame.valid /\ ~EmptyFrame.dirty /\ EmptyFrame.pin = 0
  BY DEF EmptyFrame
<1>3. Idle.page = NoPage /\ ~Idle.changed
  BY DEF Idle
<1>4. TypeOK'
  BY <1>1, Domains, PoolAssumption DEF TypeOK
<1>5. FramesSound' /\ DirtyPagesSound' /\ ClientsSound'
  BY <1>1, <1>2 DEF FramesSound, DirtyPagesSound, ClientsSound
<1>6. PinsSound'
  <2> SUFFICES ASSUME NEW f \in Frame PROVE frame_table'[f].pin = Cardinality(Users(f)')
    BY DEF PinsSound
  <2>1. Users(f)' = {}
    BY <1>1, <1>3 DEF Users
  <2>2. Cardinality({}) = 0
    BY FS_EmptySet
  <2> QED BY <1>1, <1>2, <2>1, <2>2
<1>7. NoLostUpdate'
  BY <1>1, <1>2 DEF NoLostUpdate, InUse, PageOnDisk
<1>8. PagesExist'
  BY <1>1 DEF PagesExist
<1>9. CallSound' /\ StepsSuffice' /\ ClosedSound' /\ AllocatorStateLoads'
  BY <1>1, <1>2 DEF CallSound, StepsSuffice, Sweeping, ClosedSound, AllocatorStateLoads, NoCall
<1> QED BY <1>4, <1>5, <1>6, <1>7, <1>8, <1>9 DEF PoolInv

(* A shutdown writes every page that is not on disk as it should be.       *)
LEMMA ShutdownStep ==
    ASSUME PoolInv, Shutdown
    PROVE  PoolInv'
<1>1. /\ TypeOK /\ FramesSound /\ PagesExist /\ handle.open /\ call.op = "none" /\ ForgetMemory
      /\ \A c \in Client : client[c] = Idle
      /\ file' = FlushedFile(Frame) /\ UNCHANGED <<latest, counts>>
      /\ freelist' = [num_pages |-> handle.num_pages, free_pages |-> handle.free_pages]
  BY DEF PoolInv, Shutdown, Latched, NoCall, AllocatorState
<1>2. file' \in Seq(Nat) /\ Len(file') = Len(file) /\ Len(file) \in Nat /\ handle.num_pages = Len(file)
  BY <1>1, FlushedFileIs DEF TypeOK, PagesExist
<1>3. /\ \A f \in Frame : frame_table[f].valid =>
             /\ frame_table[f].page \in Page /\ frame_table[f].page < Len(file)
             /\ file'[frame_table[f].page + 1] =
                   IF f \in Frame /\ frame_table[f].dirty THEN data[f] ELSE file[frame_table[f].page + 1]
      /\ \A p \in Page : p < Len(file) /\ page_table[p] = NoFrame => file'[p + 1] = file[p + 1]
  BY <1>1, FlushedDisk
<1>4. ASSUME NEW p \in Page, latest[p] # NoPage
      PROVE  p < Len(file) /\ latest[p] = file'[p + 1] /\ p \notin handle.free_pages
  <2>1. p < Len(file) /\ p \notin handle.free_pages
    BY <1>1, <1>4 DEF PagesExist
  <2>2. latest[p] = IF page_table[p] # NoFrame THEN data[page_table[p]] ELSE file[p + 1]
    BY <1>4 DEF PoolInv, NoLostUpdate, InUse, PageOnDisk
  <2>3. CASE page_table[p] = NoFrame
    BY <1>3, <2>1, <2>2, <2>3
  <2>4. CASE page_table[p] # NoFrame
    <3>f. PICK f \in Frame : f = page_table[p]
      BY <1>1, <2>4 DEF TypeOK
    <3>1. frame_table[f].valid /\ frame_table[f].page = p /\ latest[p] = data[f]
      BY <1>1, <2>2, <2>4, <3>f DEF FramesSound
    <3>2. \A c \in Client : ~client[c].changed
      BY <1>1 DEF Idle
    <3>3. ~frame_table[f].dirty => data[f] = file[p + 1]
      BY <3>1, <3>2 DEF PoolInv, NoLostUpdate, PageOnDisk
    <3> QED BY <1>3, <2>1, <3>1, <3>3
  <2> QED BY <2>1, <2>3, <2>4
<1>5. freelist' \in [num_pages : Nat, free_pages : SUBSET Page] /\ Loadable'
  <2>1. \A q \in handle.free_pages : q < Len(file)
    BY <1>1, <1>2 DEF PagesExist
  <2> QED BY <1>1, <1>2, <2>1 DEF TypeOK, Loadable
<1>6. Len(file') <= MaxPages
  BY <1>1, <1>2 DEF PagesExist
<1> QED BY <1>1, <1>2, <1>4, <1>5, <1>6, ForgottenPool DEF TypeOK

(* After a crash a page is what the file holds.                            *)
LEMMA CrashStep ==
    ASSUME PoolInv, Crash
    PROVE  PoolInv'
<1>1. /\ TypeOK /\ PagesExist /\ ForgetMemory /\ UNCHANGED <<file, freelist>>
      /\ counts' = [counts EXCEPT !.crashes = @ + 1]
      /\ latest' = [p \in Page |-> IF latest[p] = NoPage THEN NoPage ELSE file[p + 1]]
  BY DEF PoolInv, Crash, PageOnDisk
<1>2. counts' \in [versions : Nat, frees : Nat, crashes : Nat] /\ counts'.crashes # 0
  <2>1. counts \in [versions : Nat, frees : Nat, crashes : Nat]
    BY <1>1 DEF TypeOK
  <2> QED BY <1>1, <2>1
<1>3. \A p \in Page : latest[p] # NoPage => p < Len(file) /\ file[p + 1] \in Nat /\ p \notin freelist.free_pages
  <2> SUFFICES ASSUME NEW p \in Page, latest[p] # NoPage
               PROVE  p < Len(file) /\ file[p + 1] \in Nat /\ p \notin freelist.free_pages
    OBVIOUS
  <2>1. p < Len(file) /\ p \in Nat /\ file \in Seq(Nat) /\ p \notin freelist.free_pages
    BY <1>1, Domains DEF PagesExist, TypeOK
  <2> QED BY <2>1
<1>4. latest' \in [Page -> Nat \cup {NoPage}]
  BY <1>1, <1>3
<1>5. \A p \in Page : latest'[p] # NoPage =>
          p < Len(file') /\ latest'[p] = file'[p + 1] /\ p \notin freelist'.free_pages
  BY <1>1, <1>3
<1>6. file' \in Seq(Nat) /\ Len(file') <= MaxPages /\ freelist' \in [num_pages : Nat, free_pages : SUBSET Page]
  BY <1>1 DEF TypeOK, PagesExist
<1> QED BY <1>1, <1>2, <1>4, <1>5, <1>6, ForgottenPool

-----------------------------------------------------------------------------
(* The invariant is inductive, and what follows from it.                   *)

(* An empty pool over an empty file.                                       *)
LEMMA InitPoolInv == Init => PoolInv
<1> SUFFICES ASSUME Init PROVE PoolInv
  OBVIOUS
<1>1. /\ frame_table = [f \in Frame |-> EmptyFrame] /\ page_table = [p \in Page |-> NoFrame]
      /\ data = [f \in Frame |-> 0] /\ dirty_pages = {} /\ clock_hand = 0
      /\ handle = [open |-> TRUE, num_pages |-> 0, free_pages |-> {}]
      /\ file = <<>> /\ freelist = [num_pages |-> 0, free_pages |-> {}]
      /\ client = [c \in Client |-> Idle] /\ call = NoCall
      /\ latest = [p \in Page |-> NoPage] /\ counts = [versions |-> 0, frees |-> 0, crashes |-> 0]
  BY DEF Init, EmptyPool
<1>2. ~EmptyFrame.valid /\ ~EmptyFrame.dirty /\ EmptyFrame.pin = 0
  BY DEF EmptyFrame
<1>3. Idle.page = NoPage /\ ~Idle.changed
  BY DEF Idle
<1>4. file \in Seq(Nat) /\ Len(file) = 0
  BY <1>1
<1>5. TypeOK
  BY <1>1, <1>4, Domains, PoolAssumption DEF TypeOK
<1>6. FramesSound /\ DirtyPagesSound /\ ClientsSound
  BY <1>1, <1>2 DEF FramesSound, DirtyPagesSound, ClientsSound
<1>7. PinsSound
  <2> SUFFICES ASSUME NEW f \in Frame PROVE frame_table[f].pin = Cardinality(Users(f))
    BY DEF PinsSound
  <2>1. Users(f) = {}
    BY <1>1, <1>3 DEF Users
  <2>2. Cardinality({}) = 0
    BY FS_EmptySet
  <2> QED BY <1>1, <1>2, <2>1, <2>2
<1>8. NoLostUpdate /\ PagesExist
  BY <1>1, <1>2, <1>4, PoolAssumption DEF NoLostUpdate, InUse, PageOnDisk, PagesExist
<1>9. CallSound /\ StepsSuffice /\ ClosedSound /\ AllocatorStateLoads
  BY <1>1, <1>4 DEF CallSound, StepsSuffice, Sweeping, ClosedSound, AllocatorStateLoads, NoCall, Loadable
<1> QED BY <1>5, <1>6, <1>7, <1>8, <1>9 DEF PoolInv

(* Every step keeps the invariant.                                         *)
LEMMA NextPoolInv == PoolInv /\ [Next]_vars => PoolInv'
<1> SUFFICES ASSUME PoolInv, [Next]_vars PROVE PoolInv'
  OBVIOUS
<1>1. CASE \E c \in Client, p \in Page : FetchResident(c, p) \/ FetchMiss(c, p)
  BY <1>1, FetchResidentStep, FetchMissStep
<1>2. CASE \E c \in Client : ModifyPage(c) \/ UnpinPage(c) \/ NewPageBegins(c)
  BY <1>2, ModifyPageStep, UnpinPageStep, NewPageBeginsStep
<1>3. CASE \E p \in Page : FlushPage(p) \/ DeletePage(p)
  BY <1>3, FlushPageStep, DeletePageStep
<1>4. CASE TurnHand
  BY <1>4, TurnHandStep
<1>5. CASE NoFrameToPrepare
  BY <1>5, NoFrameToPrepareStep
<1>6. CASE FetchFromDisk
  BY <1>6, FetchFromDiskStep
<1>7. CASE AllocatePage
  BY <1>7, AllocatePageStep
<1>8. CASE FlushAllPages
  BY <1>8, FlushAllPagesStep
<1>9. CASE NewPage
  BY <1>9, NewPageStep
<1>10. CASE PersistFreedPage
  BY <1>10, PersistFreedPageStep
<1>11. CASE Shutdown
  BY <1>11, ShutdownStep
<1>12. CASE Crash
  BY <1>12, CrashStep
<1>13. CASE OpenRelation
  BY <1>13, OpenRelationStep
<1>14. CASE UNCHANGED vars
  <2>1. /\ UNCHANGED <<frame_table, data, page_table, dirty_pages, client, latest>>
        /\ UNCHANGED <<clock_hand, handle, file, freelist, call, counts>>
    BY <1>14 DEF vars, pool, disk
  <2>2. FramesSound' /\ DirtyPagesSound' /\ ClientsSound' /\ PinsSound' /\ NoLostUpdate'
    BY <2>1, PoolUntouched
  <2>3. TypeOK'
    BY <2>1 DEF PoolInv, TypeOK
  <2>4. PagesExist' /\ CallSound' /\ ClosedSound'
    BY <2>1 DEF PoolInv, PagesExist, CallSound, ClosedSound, PageOnDisk
  <2>5. StepsSuffice' /\ AllocatorStateLoads'
    BY <2>1 DEF PoolInv, StepsSuffice, Sweeping, Distance, AllocatorStateLoads, Loadable
  <2> QED BY <2>2, <2>3, <2>4, <2>5 DEF PoolInv
<1> QED
  BY <1>1, <1>2, <1>3, <1>4, <1>5, <1>6, <1>7, <1>8, <1>9, <1>10, <1>11, <1>12, <1>13, <1>14
  DEF Next

(* The inductive invariant holds in every reachable state.                 *)
THEOREM PoolInvariant == Spec => []PoolInv
<1>1. Init => PoolInv
  BY InitPoolInv
<1>2. PoolInv /\ [Next]_vars => PoolInv'
  BY NextPoolInv
<1> QED BY <1>1, <1>2, PTL DEF Spec

(* The page table, the frame descriptors and the dirty page table of the   *)
(* buffer pool agree after any sequence of calls, evictions and crashes.   *)
THEOREM PoolIsConsistent == Spec => []PoolConsistent
<1>1. PoolInv => PoolConsistent
  <2> SUFFICES ASSUME PoolInv PROVE PoolConsistent
    OBVIOUS
  <2>1. TypeOK /\ FramesSound /\ DirtyPagesSound
    BY DEF PoolInv
  <2>2. \A f \in Frame : frame_table[f].usage <= MaxUsage
    BY <2>1, PoolAssumption DEF TypeOK, FrameDesc
  <2>3. \A f \in Frame : frame_table[f].dirty => frame_table[f].page \in Page
    BY <2>1 DEF FramesSound, EmptyFrame
  <2>4. dirty_pages \subseteq Page
    BY <2>1 DEF TypeOK
  <2>5. dirty_pages = {frame_table[f].page : f \in {g \in Frame : frame_table[g].dirty}}
    BY <2>1, <2>3, <2>4 DEF DirtyPagesSound
  <2> QED BY <2>1, <2>2, <2>5 DEF FramesSound, PoolConsistent
<1> QED BY <1>1, PoolInvariant, PTL

(* A page a client has pinned stays in its frame, and a frame has as many  *)
(* pins as users: the pointer FetchPage returned stays good.               *)
THEOREM PinsProtectPages == Spec => []PinnedPagesStay
<1>1. PoolInv => PinnedPagesStay
  <2> SUFFICES ASSUME PoolInv PROVE PinnedPagesStay
    OBVIOUS
  <2>1. ASSUME NEW c \in Client, client[c].page # NoPage
        PROVE  frame_table[client[c].frame].page = client[c].page
    <3>1. client[c] # Idle
      BY <2>1 DEF Idle
    <3> QED BY <3>1 DEF PoolInv, ClientsSound
  <2>2. \A f \in Frame : frame_table[f].pin =
            Cardinality({c \in Client : client[c].page # NoPage /\ client[c].frame = f})
    BY DEF PoolInv, PinsSound, Users
  <2> QED BY <2>1, <2>2 DEF PinnedPagesStay
<1> QED BY <1>1, PoolInvariant, PTL

(* No change of a page is lost by eviction, flushing or the reuse of a     *)
(* frame.                                                                  *)
THEOREM NoUpdateIsLost == Spec => []NoLostUpdate
<1>1. PoolInv => NoLostUpdate
  BY DEF PoolInv
<1> QED BY <1>1, PoolInvariant, PTL

(* No page is given to two users, across crashes inside AllocatePage and   *)
(* DeallocatePage too.                                                     *)
THEOREM AllocatorIsSafe == Spec => []UsedPagesAreNotFree
<1>1. PoolInv => UsedPagesAreNotFree
  BY DEF PoolInv, PagesExist, UsedPagesAreNotFree, InUse
<1> QED BY <1>1, PoolInvariant, PTL

(* max_steps of ClockReplacer::Victim is enough for every pool size and    *)
(* usage limit: FetchPage and NewPage return nullptr only when every frame *)
(* is pinned.                                                              *)
THEOREM VictimIsFound == Spec => []VictimExists
<1>1. PoolInv => VictimExists
  <2> SUFFICES ASSUME PoolInv, Sweeping, call.steps = MaxSteps, NEW f \in Frame
               PROVE  frame_table[f].pin > 0
    BY DEF VictimExists
  <2>1. TypeOK /\ frame_table[f].pin \in Nat /\ frame_table[f].usage \in Nat
    <3>1. TypeOK
      BY DEF PoolInv
    <3>2. frame_table[f] \in FrameDesc
      BY <3>1 DEF TypeOK
    <3> QED BY <3>1, <3>2, PoolAssumption DEF FrameDesc
  <2>2. frame_table[f].usage * PoolSize \in Nat /\ Distance(f) \in Nat
    <3>1. clock_hand \in Frame
      BY <2>1 DEF TypeOK
    <3> QED BY <2>1, <3>1, PoolAssumption DEF Distance, Frame
  <2>3. frame_table[f].pin = 0 => frame_table[f].usage * PoolSize + Distance(f) < MaxSteps - MaxSteps
    BY DEF PoolInv, StepsSuffice
  <2>4. MaxSteps \in Nat
    BY <2>1, SweepStarts
  <2> QED BY <2>1, <2>2, <2>3, <2>4
<1> QED BY <1>1, PoolInvariant, PTL

(* The allocator state can be loaded after every shutdown and every crash  *)
(* outside DeallocatePage.                                                 *)
THEOREM AllocatorStateIsLoadable == Spec => []AllocatorStateLoads
<1>1. PoolInv => AllocatorStateLoads
  BY DEF PoolInv
<1> QED BY <1>1, PoolInvariant, PTL
=============================================================================
