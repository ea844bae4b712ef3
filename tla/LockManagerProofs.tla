------------------------- MODULE LockManagerProofs -------------------------
(* Proofs about LockManager, for any set of transactions, relations,       *)
(* records, indexes and key ranges.                                        *)
EXTENDS LockManager, TLAPS

-----------------------------------------------------------------------------
(* Facts about modes, ranges and threads.                                  *)

\* Compatible is symmetric: it does not matter which of two locks came first.
LEMMA CompatibleSymmetric ==
    ASSUME NEW r \in Resource, NEW m1 \in LockMode, NEW m2 \in LockMode
    PROVE  Compatible(r, m1, m2) => Compatible(r, m2, m1)
BY DEF Compatible, CompatibleTableModes, LockMode

\* Combining modes gives a mode.
LEMMA CombineTableModesType ==
    ASSUME NEW m1 \in LockMode, NEW m2 \in LockMode
    PROVE  CombineTableModes(m1, m2) \in LockMode
BY DEF CombineTableModes, LockMode

\* Two ranges that share a key overlap (RangesOverlap never misses a conflict).
LEMMA SharedKeyOverlap ==
    ASSUME NEW a \in Range, NEW b \in Range, NEW k \in Nat,
           Contains(a, k), Contains(b, k)
    PROVE  RangesOverlap(a, b)
BY DEF Contains, RangesOverlap, RangeEndsBefore, Range, Bound, Unbounded

\* The detector is not a transaction.
LEMMA DetectorIsNoTxn == Detector \notin Txn /\ NoTxn \notin Txn
BY TxnAssumption DEF Detector, NoTxn

\* The parts of a slot.
LEMMA SlotType ==
    ASSUME NEW s \in Slot
    PROVE  s[1] \in Txn /\ s[2] \in KeyRange \cup {Whole} /\ s = <<s[1], s[2]>>
BY DEF Slot

\* The head and the tail of a non-empty list of victims.
LEMMA VictimsHeadTail ==
    ASSUME TypeOK, victims # <<>>
    PROVE  /\ Len(victims) \in Nat /\ 1 \in 1..Len(victims)
           /\ Head(victims) = victims[1] /\ Head(victims) \in Txn
           /\ Tail(victims) \in Seq(Txn) /\ Len(Tail(victims)) = Len(victims) - 1
           /\ \A i \in 1..Len(Tail(victims)) :
                i + 1 \in 1..Len(victims) /\ Tail(victims)[i] = victims[i + 1]
<1>1. victims \in Seq(Txn)
  BY DEF TypeOK
<1>. QED
  BY <1>1

\* A thread that is not the detector works for its own transaction.
LEMMA TargetType ==
    ASSUME TypeOK, ThreadInv, NEW th \in Thread,
           pc[th] \in {"rollback", "releasing", "unregistering"}
    PROVE  /\ Target(th) \in Txn
           /\ th \in Txn => Target(th) = th
           /\ th = Detector => victims # <<>> /\ Target(th) = Head(victims)
           /\ state[Target(th)] \in {"COMMITTED", "ABORTED", "ABORTING"}
<1>1. CASE th = Detector
  <2>1. victims # <<>>
    BY <1>1 DEF ThreadInv, DetectorInv
  <2>. QED
    BY <1>1, <2>1, VictimsHeadTail, DetectorIsNoTxn DEF ThreadInv, DetectorInv, Target
<1>2. CASE th \in Txn
  BY <1>2, DetectorIsNoTxn DEF ThreadInv, ClientInv, DetectorInv, Target
<1>. QED
  BY <1>1, <1>2 DEF Thread

-----------------------------------------------------------------------------
(* The initial states.                                                     *)

\* The initial state satisfies the inductive invariant.
LEMMA InitLockInv == Init => LockInv
<1>. SUFFICES ASSUME Init PROVE LockInv
  OBVIOUS
<1>. USE DetectorIsNoTxn DEF Init
<1>0. \A r \in Resource : Present(r) = {} /\ granted[r] = {} /\ ahead[r] = {} /\ upgrading[r] = NoTxn
  BY DEF Present
<1>1. TypeOK
  BY DEF TypeOK, TxnState, Mode, Thread, ClientPc, DetectorPc, Call
<1>2. ThreadInv
  BY DEF ThreadInv, ClientInv, DetectorInv, Thread
<1>3. QueueInv
  BY <1>0 DEF QueueInv
<1>4. WaitersAreAbortable /\ UpgradeMarkIsLive
  BY <1>0 DEF WaitersAreAbortable, UpgradeMarkIsLive
<1>5. HeldAgreesWithQueues
  BY <1>0 DEF HeldAgreesWithQueues, Resource
<1>6. NoOvertaking /\ UpgradeIsInFront
  BY <1>0 DEF NoOvertaking, UpgradeIsInFront
<1>7. ProtectionCompatible
  BY <1>0 DEF ProtectionCompatible, ProtectingMode
<1>8. ReleasedBeforeUnregistering
  BY <1>0 DEF ReleasedBeforeUnregistering, Thread
<1>9. NothingLeftBehind
  BY <1>0 DEF NothingLeftBehind, Present
<1>. QED
  BY <1>1, <1>2, <1>3, <1>4, <1>5, <1>6, <1>7, <1>8, <1>9 DEF LockInv

-----------------------------------------------------------------------------
(* Steps that leave the queues and the held locks alone.                   *)

\* What depends on the queues and on who is aborting survives a step that
\* changes neither, or only makes more transactions abort.
LEMMA QueuesUnchanged ==
    ASSUME LockInv, UNCHANGED <<queues, held>>,
           \A t \in Txn : IsAbortPendingOrDone(t) => IsAbortPendingOrDone(t)'
    PROVE  /\ QueueInv' /\ UpgradeMarkIsLive' /\ HeldAgreesWithQueues'
           /\ NoOvertaking' /\ UpgradeIsInFront' /\ ProtectionCompatible'
<1>. USE DEF queues
<1>1. QueueInv' /\ UpgradeMarkIsLive'
  BY DEF LockInv, QueueInv, UpgradeMarkIsLive, Present
<1>2. HeldAgreesWithQueues'
  BY DEF LockInv, HeldAgreesWithQueues, Present
<1>3. NoOvertaking' /\ UpgradeIsInFront'
  BY DEF LockInv, NoOvertaking, UpgradeIsInFront
<1>4. ProtectionCompatible'
  BY DEF LockInv, ProtectionCompatible, ProtectingMode, Present
<1>. QED
  BY <1>1, <1>2, <1>3, <1>4

\* Begin preserves the inductive invariant.
LEMMA BeginInv ==
    ASSUME LockInv, NEW t \in Txn, Begin(t)
    PROVE  LockInv'
<1>. USE DetectorIsNoTxn DEF LockInv, Begin, queues
<1>1. TypeOK'
  <2>1. state' \in [Txn -> TxnState]
    BY DEF TypeOK, TxnState
  <2>2. pc' \in [Thread -> ClientPc \cup DetectorPc]
    BY DEF TypeOK, ClientPc, DetectorPc, Thread
  <2>3. registered' \subseteq Txn
    BY DEF TypeOK, Thread
  <2>. QED
    BY <2>1, <2>2, <2>3 DEF TypeOK
<1>2. ThreadInv'
  <2>1. ClientInv'
    BY DEF TypeOK, ThreadInv, ClientInv, Thread
  <2>2. DetectorInv'
    BY VictimsHeadTail DEF TypeOK, ThreadInv, DetectorInv, Thread
  <2>. QED
    BY <2>1, <2>2 DEF ThreadInv
<1>3. WaitersAreAbortable'
  BY SlotType DEF TypeOK, WaitersAreAbortable, ThreadInv, ClientInv, DetectorInv, Present, Thread
<1>4. ReleasedBeforeUnregistering'
  <2>1. \A th \in Thread : /\ pc'[th] = "unregistering" => pc[th] = "unregistering"
                          /\ Target(th)' = Target(th)
    BY DEF TypeOK, Thread, Target
  <2>. QED
    BY <2>1 DEF ReleasedBeforeUnregistering, Present
<1>5. NothingLeftBehind'
  BY DEF TypeOK, NothingLeftBehind, ReleasedBeforeUnregistering, Present, Thread
<1>6. \A u \in Txn : IsAbortPendingOrDone(u) => IsAbortPendingOrDone(u)'
  BY DEF TypeOK, IsAbortPendingOrDone
<1>. QED
  BY <1>1, <1>2, <1>3, <1>4, <1>5, <1>6, QueuesUnchanged

\* Commit preserves the inductive invariant.
LEMMA CommitInv ==
    ASSUME LockInv, NEW t \in Txn, Commit(t)
    PROVE  LockInv'
<1>0. pc[t] \in {"idle", "failed"}
  BY DEF Commit, MayCommit
<1>. USE <1>0, DetectorIsNoTxn DEF LockInv, Commit, IsAbortPendingOrDone, queues
<1>1. TypeOK'
  <2>1. state' \in [Txn -> TxnState]
    BY DEF TypeOK, TxnState
  <2>2. pc' \in [Thread -> ClientPc \cup DetectorPc]
    BY DEF TypeOK, ClientPc, DetectorPc, Thread
  <2>. QED
    BY <2>1, <2>2 DEF TypeOK
<1>2. ThreadInv'
  <2>1. ClientInv'
    BY DEF TypeOK, ThreadInv, ClientInv, Thread
  <2>2. DetectorInv'
    BY VictimsHeadTail DEF TypeOK, ThreadInv, DetectorInv, Thread
  <2>. QED
    BY <2>1, <2>2 DEF ThreadInv
<1>3. WaitersAreAbortable'
  BY SlotType DEF TypeOK, WaitersAreAbortable, ThreadInv, ClientInv, DetectorInv, Present, Thread
<1>4. ReleasedBeforeUnregistering'
  <2>1. \A th \in Thread : /\ pc'[th] = "unregistering" => pc[th] = "unregistering"
                          /\ Target(th)' = Target(th)
    BY DEF TypeOK, Thread, Target
  <2>. QED
    BY <2>1 DEF ReleasedBeforeUnregistering, Present
<1>5. NothingLeftBehind'
  BY DEF TypeOK, NothingLeftBehind, ReleasedBeforeUnregistering, Present, Thread
<1>6. \A u \in Txn : IsAbortPendingOrDone(u) => IsAbortPendingOrDone(u)'
  BY DEF TypeOK, IsAbortPendingOrDone
<1>. QED
  BY <1>1, <1>2, <1>3, <1>4, <1>5, <1>6, QueuesUnchanged

\* Abort preserves the inductive invariant.
LEMMA AbortInv ==
    ASSUME LockInv, NEW t \in Txn, Abort(t)
    PROVE  LockInv'
<1>0. /\ UNCHANGED <<queues, held, registered, wait, asleep, victims>>
      /\ pc[t] \in {"idle", "failed"}
      /\ \/ /\ state[t] \in {"COMMITTED", "ABORTED"} /\ state' = state
            /\ pc' = [pc EXCEPT ![t] = "done"]
         \/ /\ state[t] \notin {"COMMITTED", "ABORTED"}
            /\ state' = [state EXCEPT ![t] = "ABORTING"] /\ pc' = [pc EXCEPT ![t] = "rollback"]
  BY DEF Abort, MayAbort, TryMarkAborting, StartRollback, LockInv, TypeOK
<1>. USE <1>0, DetectorIsNoTxn DEF LockInv, queues
<1>1. TypeOK'
  <2>1. state' \in [Txn -> TxnState]
    BY DEF TypeOK, TxnState
  <2>2. pc' \in [Thread -> ClientPc \cup DetectorPc]
    BY DEF TypeOK, ClientPc, DetectorPc, Thread
  <2>3. undo' \in [Thread -> SUBSET (Relation \cup Record)]
    BY DEF TypeOK, Thread, Abort, StartRollback
  <2>. QED
    BY <2>1, <2>2, <2>3 DEF TypeOK
<1>2. ThreadInv'
  <2>1. ClientInv'
    BY DEF TypeOK, ThreadInv, ClientInv, Thread
  <2>2. DetectorInv'
    BY VictimsHeadTail, SMTT(30) DEF TypeOK, ThreadInv, DetectorInv, Thread
  <2>. QED
    BY <2>1, <2>2 DEF ThreadInv
<1>3. WaitersAreAbortable'
  BY SlotType DEF TypeOK, WaitersAreAbortable, ThreadInv, ClientInv, DetectorInv, Present, Thread
<1>4. ReleasedBeforeUnregistering'
  <2>1. \A th \in Thread : /\ pc'[th] = "unregistering" => pc[th] = "unregistering"
                          /\ Target(th)' = Target(th)
    BY DEF TypeOK, Thread, Target
  <2>. QED
    BY <2>1 DEF ReleasedBeforeUnregistering, Present
<1>5. NothingLeftBehind'
  BY DEF TypeOK, NothingLeftBehind, ReleasedBeforeUnregistering, Present, Thread
<1>6. \A u \in Txn : IsAbortPendingOrDone(u) => IsAbortPendingOrDone(u)'
  BY DEF TypeOK, IsAbortPendingOrDone
<1>. QED
  BY <1>1, <1>2, <1>3, <1>4, <1>5, <1>6, QueuesUnchanged

\* The end of a Commit that had to wait preserves the inductive invariant.
LEMMA WaitUntilAbortCompletesInv ==
    ASSUME LockInv, NEW t \in Txn, WaitUntilAbortCompletes(t)
    PROVE  LockInv'
<1>. USE DetectorIsNoTxn DEF LockInv, WaitUntilAbortCompletes, queues, txns
<1>1. TypeOK'
  <2>1. pc' \in [Thread -> ClientPc \cup DetectorPc]
    BY DEF TypeOK, ClientPc, DetectorPc, Thread
  <2>. QED
    BY <2>1 DEF TypeOK
<1>2. ThreadInv'
  <2>1. ClientInv'
    BY DEF TypeOK, ThreadInv, ClientInv, Thread
  <2>2. DetectorInv'
    BY VictimsHeadTail DEF TypeOK, ThreadInv, DetectorInv, Thread
  <2>. QED
    BY <2>1, <2>2 DEF ThreadInv
<1>3. WaitersAreAbortable'
  BY SlotType DEF TypeOK, WaitersAreAbortable, ThreadInv, ClientInv, DetectorInv, Present, Thread
<1>4. ReleasedBeforeUnregistering'
  <2>1. \A th \in Thread : /\ pc'[th] = "unregistering" => pc[th] = "unregistering"
                          /\ Target(th)' = Target(th)
    BY DEF TypeOK, Thread, Target
  <2>. QED
    BY <2>1 DEF ReleasedBeforeUnregistering, Present
<1>5. NothingLeftBehind'
  BY DEF TypeOK, NothingLeftBehind, ReleasedBeforeUnregistering, Present, Thread
<1>6. \A u \in Txn : IsAbortPendingOrDone(u) => IsAbortPendingOrDone(u)'
  BY DEF TypeOK, IsAbortPendingOrDone
<1>. QED
  BY <1>1, <1>2, <1>3, <1>4, <1>5, <1>6, QueuesUnchanged

\* A rejected lock call preserves the inductive invariant.
LEMMA LockCallRejectedInv ==
    ASSUME LockInv, NEW t \in Txn, LockCallRejected(t)
    PROVE  LockInv'
<1>. USE DetectorIsNoTxn DEF LockInv, LockCallRejected, ReturnFalse, IsAbortPendingOrDone, queues, txns
<1>1. TypeOK'
  <2>1. pc' \in [Thread -> ClientPc \cup DetectorPc]
    BY DEF TypeOK, ClientPc, DetectorPc, Thread
  <2>2. wait' \in [Txn -> Call]
    BY DEF TypeOK, Call
  <2>. QED
    BY <2>1, <2>2 DEF TypeOK
<1>2. ThreadInv'
  <2>1. ClientInv'
    BY DEF TypeOK, ThreadInv, ClientInv, Thread
  <2>2. DetectorInv'
    BY VictimsHeadTail DEF TypeOK, ThreadInv, DetectorInv, Thread
  <2>. QED
    BY <2>1, <2>2 DEF ThreadInv
<1>3. WaitersAreAbortable'
  BY SlotType DEF TypeOK, WaitersAreAbortable, ThreadInv, ClientInv, DetectorInv, Present, Thread
<1>4. ReleasedBeforeUnregistering'
  <2>1. \A th \in Thread : /\ pc'[th] = "unregistering" => pc[th] = "unregistering"
                          /\ Target(th)' = Target(th)
    BY DEF TypeOK, Thread, Target
  <2>. QED
    BY <2>1 DEF ReleasedBeforeUnregistering, Present
<1>5. NothingLeftBehind'
  BY DEF TypeOK, NothingLeftBehind, ReleasedBeforeUnregistering, Present, Thread
<1>6. \A u \in Txn : IsAbortPendingOrDone(u) => IsAbortPendingOrDone(u)'
  BY DEF TypeOK, IsAbortPendingOrDone
<1>. QED
  BY <1>1, <1>2, <1>3, <1>4, <1>5, <1>6, QueuesUnchanged

\* A spurious wakeup preserves the inductive invariant.
LEMMA SpuriousWakeupInv ==
    ASSUME LockInv, NEW t \in Txn, SpuriousWakeup(t)
    PROVE  LockInv'
<1>. USE DetectorIsNoTxn DEF LockInv, SpuriousWakeup, queues, txns
<1>1. TypeOK'
  BY DEF TypeOK
<1>2. ThreadInv'
  <2>1. ClientInv'
    BY DEF TypeOK, ThreadInv, ClientInv, Thread
  <2>2. DetectorInv'
    BY VictimsHeadTail DEF TypeOK, ThreadInv, DetectorInv, Thread
  <2>. QED
    BY <2>1, <2>2 DEF ThreadInv
<1>3. WaitersAreAbortable'
  BY SlotType DEF TypeOK, WaitersAreAbortable, ThreadInv, ClientInv, DetectorInv, Present, Thread
<1>4. ReleasedBeforeUnregistering'
  <2>1. \A th \in Thread : /\ pc'[th] = "unregistering" => pc[th] = "unregistering"
                          /\ Target(th)' = Target(th)
    BY DEF TypeOK, Thread, Target
  <2>. QED
    BY <2>1 DEF ReleasedBeforeUnregistering, Present
<1>5. NothingLeftBehind'
  BY DEF TypeOK, NothingLeftBehind, ReleasedBeforeUnregistering, Present, Thread
<1>6. \A u \in Txn : IsAbortPendingOrDone(u) => IsAbortPendingOrDone(u)'
  BY DEF TypeOK, IsAbortPendingOrDone
<1>. QED
  BY <1>1, <1>2, <1>3, <1>4, <1>5, <1>6, QueuesUnchanged

\* The end of the detector's scan preserves the inductive invariant.
LEMMA ScanCompleteInv ==
    ASSUME LockInv, ScanComplete
    PROVE  LockInv'
<1>. USE DetectorIsNoTxn DEF LockInv, ScanComplete, queues, txns
<1>1. TypeOK'
  <2>1. pc' \in [Thread -> ClientPc \cup DetectorPc]
    BY DEF TypeOK, ClientPc, DetectorPc, Thread
  <2>. QED
    BY <2>1 DEF TypeOK
<1>2. ThreadInv'
  <2>1. ClientInv'
    BY DEF TypeOK, ThreadInv, ClientInv, Thread
  <2>2. DetectorInv'
    BY VictimsHeadTail DEF TypeOK, ThreadInv, DetectorInv, Thread
  <2>. QED
    BY <2>1, <2>2 DEF ThreadInv
<1>3. WaitersAreAbortable'
  BY SlotType DEF TypeOK, WaitersAreAbortable, ThreadInv, ClientInv, DetectorInv, Present, Thread
<1>4. ReleasedBeforeUnregistering'
  <2>1. \A th \in Thread : /\ pc'[th] = "unregistering" => pc[th] = "unregistering"
                          /\ Target(th)' = Target(th)
    BY DEF TypeOK, Thread, Target
  <2>. QED
    BY <2>1 DEF ReleasedBeforeUnregistering, Present
<1>5. NothingLeftBehind'
  BY DEF TypeOK, NothingLeftBehind, ReleasedBeforeUnregistering, Present, Thread
<1>6. \A u \in Txn : IsAbortPendingOrDone(u) => IsAbortPendingOrDone(u)'
  BY DEF TypeOK, IsAbortPendingOrDone
<1>. QED
  BY <1>1, <1>2, <1>3, <1>4, <1>5, <1>6, QueuesUnchanged

\* The end of a rollback preserves the inductive invariant.
LEMMA FinishRollbackInv ==
    ASSUME LockInv, NEW th \in Thread, FinishRollback(th)
    PROVE  LockInv'
<1>0. /\ Target(th) \in Txn /\ state[Target(th)] \in {"COMMITTED", "ABORTED", "ABORTING"}
      /\ th \in Txn => Target(th) = th
      /\ th = Detector => victims # <<>> /\ Target(th) = Head(victims)
  BY TargetType DEF LockInv, FinishRollback
<1>. USE <1>0, DetectorIsNoTxn DEF LockInv, FinishRollback, queues
<1>1. TypeOK'
  <2>1. state' \in [Txn -> TxnState]
    BY DEF TypeOK, TxnState
  <2>2. pc' \in [Thread -> ClientPc \cup DetectorPc]
    BY DEF TypeOK, ClientPc, DetectorPc, Thread
  <2>3. undo' \in [Thread -> SUBSET (Relation \cup Record)]
    BY DEF TypeOK, Thread
  <2>. QED
    BY <2>1, <2>2, <2>3 DEF TypeOK
<1>2. ThreadInv'
  <2>1. ClientInv'
    BY DEF TypeOK, ThreadInv, ClientInv, Thread
  <2>2. DetectorInv'
    BY VictimsHeadTail DEF TypeOK, ThreadInv, DetectorInv, Thread
  <2>. QED
    BY <2>1, <2>2 DEF ThreadInv
<1>3. WaitersAreAbortable'
  BY SlotType DEF TypeOK, WaitersAreAbortable, ThreadInv, ClientInv, DetectorInv, Present, Thread
<1>4. ReleasedBeforeUnregistering'
  <2>1. \A o \in Thread : /\ pc'[o] = "unregistering" => pc[o] = "unregistering"
                          /\ Target(o)' = Target(o)
    BY DEF TypeOK, Thread, Target
  <2>. QED
    BY <2>1 DEF ReleasedBeforeUnregistering, Present
<1>5. NothingLeftBehind'
  BY DEF TypeOK, NothingLeftBehind, ReleasedBeforeUnregistering, Present, Thread
<1>6. \A u \in Txn : IsAbortPendingOrDone(u) => IsAbortPendingOrDone(u)'
  BY DEF TypeOK, IsAbortPendingOrDone
<1>. QED
  BY <1>1, <1>2, <1>3, <1>4, <1>5, <1>6, QueuesUnchanged

\* The detector's callback preserves the inductive invariant.
LEMMA AbortCallbackInv ==
    ASSUME LockInv, AbortCallback
    PROVE  LockInv'
<1>0. /\ UNCHANGED <<queues, txns, wait, asleep>>
      /\ pc[Detector] = "callback"
      /\ \/ victims = <<>> /\ victims' = <<>> /\ pc' = [pc EXCEPT ![Detector] = "sleeping"]
         \/ victims # <<>> /\ victims' = Tail(victims) /\ pc' = pc
         \/ victims # <<>> /\ victims' = victims /\ pc' = [pc EXCEPT ![Detector] = "rollback"]
  BY DEF AbortCallback, StartRollback
<1>1. /\ victims' \in Seq(Txn)
      /\ \A i \in 1..Len(victims') : \E j \in 1..Len(victims) : victims'[i] = victims[j]
  BY <1>0, VictimsHeadTail DEF LockInv, TypeOK
<1>. USE <1>0, DetectorIsNoTxn DEF LockInv, queues, txns
<1>2. TypeOK'
  <2>1. pc' \in [Thread -> ClientPc \cup DetectorPc]
    BY DEF TypeOK, ClientPc, DetectorPc, Thread
  <2>2. undo' \in [Thread -> SUBSET (Relation \cup Record)]
    BY DEF TypeOK, Thread, AbortCallback, StartRollback
  <2>. QED
    BY <2>1, <2>2, <1>1 DEF TypeOK
<1>3. ThreadInv'
  <2>1. \A i \in 1..Len(victims') : state'[victims'[i]] \in {"ABORTING", "ABORTED"}
    BY <1>1 DEF ThreadInv, ClientInv, DetectorInv
  <2>. QED
    BY <2>1 DEF TypeOK, ThreadInv, ClientInv, DetectorInv, Thread
<1>4. WaitersAreAbortable'
  BY SlotType DEF TypeOK, WaitersAreAbortable, Present, Thread
<1>5. ReleasedBeforeUnregistering' /\ NothingLeftBehind'
  BY DEF TypeOK, ReleasedBeforeUnregistering, NothingLeftBehind, Present, Thread, Target
<1>6. \A u \in Txn : IsAbortPendingOrDone(u) => IsAbortPendingOrDone(u)'
  BY DEF IsAbortPendingOrDone
<1>. QED
  BY <1>2, <1>3, <1>4, <1>5, <1>6, QueuesUnchanged

\* UnregisterTransaction preserves the inductive invariant.
LEMMA UnregisterTransactionInv ==
    ASSUME LockInv, NEW th \in Thread, UnregisterTransaction(th)
    PROVE  LockInv'
<1>0. /\ Target(th) \in Txn
      /\ state[Target(th)] \in {"COMMITTED", "ABORTED"}
      /\ th \in Txn => Target(th) = th
      /\ th = Detector => victims # <<>> /\ Target(th) = Head(victims)
  <2>1. /\ pc[th] = "unregistering" /\ Target(th) \in Txn
        /\ th \in Txn => Target(th) = th
        /\ th = Detector => victims # <<>> /\ Target(th) = Head(victims)
    BY TargetType DEF LockInv, UnregisterTransaction
  <2>2. CASE th = Detector
    BY <2>1, <2>2 DEF LockInv, ThreadInv, DetectorInv
  <2>3. CASE th \in Txn
    BY <2>1, <2>3, DetectorIsNoTxn DEF LockInv, ThreadInv, ClientInv
  <2>. QED
    BY <2>1, <2>2, <2>3 DEF Thread
<1>1. /\ UNCHANGED <<queues, state, held, wait, asleep, undo>>
      /\ pc[th] = "unregistering" /\ registered' = registered \ {Target(th)}
      /\ \/ th = Detector /\ pc' = [pc EXCEPT ![Detector] = "callback"] /\ victims' = Tail(victims)
         \/ th \in Txn /\ pc' = [pc EXCEPT ![th] = "done"] /\ victims' = victims
  BY DEF UnregisterTransaction, Thread
<1>2. /\ victims' \in Seq(Txn)
      /\ \A i \in 1..Len(victims') : \E j \in 1..Len(victims) : victims'[i] = victims[j]
  BY <1>0, <1>1, VictimsHeadTail, ZenonT(60) DEF LockInv, TypeOK
<1>. USE <1>0, <1>1, DetectorIsNoTxn DEF LockInv, queues
<1>3. TypeOK'
  <2>1. pc' \in [Thread -> ClientPc \cup DetectorPc]
    BY DEF TypeOK, ClientPc, DetectorPc, Thread
  <2>. QED
    BY <2>1, <1>2 DEF TypeOK
<1>4. ThreadInv'
  <2>1. \A i \in 1..Len(victims') : state'[victims'[i]] \in {"ABORTING", "ABORTED"}
    BY <1>2 DEF ThreadInv, ClientInv, DetectorInv
  <2>. QED
    BY <2>1 DEF TypeOK, ThreadInv, ClientInv, DetectorInv, Thread
<1>5. WaitersAreAbortable'
  BY SlotType DEF TypeOK, WaitersAreAbortable, Present, Thread
<1>6. ReleasedBeforeUnregistering'
  BY DEF TypeOK, ReleasedBeforeUnregistering, Present, Thread, Target
<1>7. NothingLeftBehind'
  BY DEF TypeOK, NothingLeftBehind, ReleasedBeforeUnregistering, Present
<1>8. \A u \in Txn : IsAbortPendingOrDone(u) => IsAbortPendingOrDone(u)'
  BY DEF IsAbortPendingOrDone
<1>. QED
  BY <1>3, <1>4, <1>5, <1>6, <1>7, <1>8, QueuesUnchanged

-----------------------------------------------------------------------------
(* Steps that take requests of one transaction t out of the queues.        *)

\* What such a step does to the queues: the requests of other transactions
\* stay as they are, those of t that stay are granted, t's marks go.
Shrinks(t) ==
    \A r \in Resource :
        /\ \A s \in Slot :
            /\ s \in Present(r)' => /\ s \in Present(r) /\ mode'[r][s] = mode[r][s]
                                    /\ s \in granted'[r] <=> s \in granted[r]
            /\ s \in Present(r) /\ s[1] # t => s \in Present(r)'
            /\ s \in Present(r)' /\ s[1] = t => s \in granted[r]
            /\ s \in granted'[r] => s \in Present(r)'
        /\ \A a, b \in Slot : <<a, b>> \in ahead'[r] <=>
                <<a, b>> \in ahead[r] /\ a \in Present(r)' /\ b \in Present(r)'
        /\ upgrading'[r] = IF upgrading[r] = t THEN NoTxn ELSE upgrading[r]

\* The queue invariants survive.
LEMMA ShrinksInv ==
    ASSUME LockInv, TypeOK', NEW t \in Txn, Shrinks(t), registered' = registered,
           \A u \in Txn : u # t => held'[u] = held[u]
    PROVE  /\ QueueInv' /\ UpgradeMarkIsLive' /\ NothingLeftBehind'
           /\ NoOvertaking' /\ UpgradeIsInFront' /\ ProtectionCompatible'
<1>. USE DEF LockInv
<1>1. QueueInv'
  <2>. SUFFICES ASSUME NEW r \in Resource
                PROVE  QueueInv!(r)'
    BY DEF QueueInv
  <2>1. granted'[r] \subseteq Present(r)'
    BY DEF Shrinks, TypeOK
  <2>2. \A a, b \in Slot :
            /\ <<a, b>> \in ahead'[r] => a \in Present(r)' /\ b \in Present(r)' /\ <<b, a>> \notin ahead'[r]
            /\ a \in Present(r)' /\ b \in Present(r)' /\ a[1] # b[1] =>
                    <<a, b>> \in ahead'[r] \/ <<b, a>> \in ahead'[r]
    BY DEF Shrinks, QueueInv
  <2>3. \A a \in Present(r)' :
            /\ r \notin Index => a[2] = Whole
            /\ r \notin Relation => mode'[r][a] \in {"S", "X"}
    <3>1. \A a \in Present(r)' : a \in Slot
      BY DEF Present
    <3>. QED
      BY <3>1 DEF Shrinks, QueueInv
  <2>. QED
    BY <2>1, <2>2, <2>3
<1>2. UpgradeMarkIsLive'
  <2>. SUFFICES ASSUME NEW r \in Resource, upgrading'[r] # NoTxn
                PROVE  \E s \in Present(r)' \ granted'[r] : s[1] = upgrading'[r]
    BY DEF UpgradeMarkIsLive
  <2>1. upgrading'[r] = upgrading[r] /\ upgrading[r] # t /\ upgrading[r] # NoTxn
    BY DEF Shrinks
  <2>2. PICK s \in Present(r) \ granted[r] : s[1] = upgrading[r]
    BY <2>1 DEF UpgradeMarkIsLive
  <2>3. s \in Slot
    BY DEF Present
  <2>. QED
    BY <2>1, <2>2, <2>3 DEF Shrinks
<1>3. NothingLeftBehind'
  <2>. SUFFICES ASSUME NEW u \in Txn, u \notin registered, NEW r \in Resource
                PROVE  upgrading'[r] # u /\ \A s \in Present(r)' : s[1] # u
    BY DEF NothingLeftBehind
  <2>1. upgrading[r] # u /\ \A s \in Present(r) : s[1] # u
    BY DEF NothingLeftBehind
  <2>2. \A s \in Present(r)' : s \in Slot
    BY DEF Present
  <2>. QED
    BY <2>1, <2>2, DetectorIsNoTxn DEF Shrinks
<1>4. NoOvertaking'
  <2>. SUFFICES ASSUME NEW r \in Resource, NEW a \in Slot, NEW b \in Slot,
                       <<a, b>> \in ahead'[r], a[1] # b[1], RangesOverlap(a[2], b[2]),
                       a \notin granted'[r], b \in granted'[r]
                PROVE  upgrading'[r] = a[1]
    BY DEF NoOvertaking
  <2>1. <<a, b>> \in ahead[r] /\ a \notin granted[r] /\ b \in granted[r] /\ a[1] # t
    BY DEF Shrinks
  <2>. QED
    BY <2>1 DEF Shrinks, NoOvertaking
<1>5. UpgradeIsInFront'
  <2>. SUFFICES ASSUME NEW r \in Resource, NEW a \in Slot, NEW b \in Slot,
                       <<a, b>> \in ahead'[r], a[1] # b[1], RangesOverlap(a[2], b[2]),
                       b \notin granted'[r], upgrading'[r] = b[1]
                PROVE  a \in granted'[r]
    BY DEF UpgradeIsInFront
  <2>1. <<a, b>> \in ahead[r] /\ a \in Present(r)' /\ b \notin granted[r] /\ upgrading[r] = b[1]
    BY SlotType, DetectorIsNoTxn DEF Shrinks
  <2>. QED
    BY <2>1 DEF Shrinks, UpgradeIsInFront
<1>6. ProtectionCompatible'
  <2>. SUFFICES ASSUME NEW r \in Resource, NEW a \in Slot, NEW b \in Slot,
                       a[1] # b[1], RangesOverlap(a[2], b[2]),
                       ProtectingMode(r, a)' # NoLock, ProtectingMode(r, b)' # NoLock
                PROVE  Compatible(r, ProtectingMode(r, a)', ProtectingMode(r, b)')
    BY DEF ProtectionCompatible, Compatible
  <2>1. ASSUME NEW s \in Slot, ProtectingMode(r, s)' # NoLock
        PROVE  ProtectingMode(r, s)' = ProtectingMode(r, s)
    <3>1. CASE s \in granted'[r]
      BY <3>1 DEF Shrinks, ProtectingMode
    <3>2. CASE s \notin granted'[r]
      <4>1. s \in Present(r)' /\ upgrading'[r] = s[1]
        BY <2>1, <3>2 DEF ProtectingMode
      <4>2. s[1] # t /\ s[1] \in Txn /\ s \in Present(r) /\ s \notin granted[r] /\ upgrading[r] = s[1]
        BY <4>1, <3>2, SlotType, DetectorIsNoTxn DEF Shrinks
      <4>3. held'[s[1]] = held[s[1]]
        BY <4>2
      <4>. QED
        BY <3>2, <4>1, <4>2, <4>3 DEF ProtectingMode
    <3>. QED
      BY <3>1, <3>2
  <2>. QED
    BY <2>1 DEF ProtectionCompatible
<1>. QED
  BY <1>1, <1>2, <1>3, <1>4, <1>5, <1>6

\* Who waits is still not granted what it waits for.
LEMMA ShrinksWaiting ==
    ASSUME LockInv, NEW t \in Txn, Shrinks(t), NEW u \in Txn, pc[u] = "waiting"
    PROVE  <<u, wait[u].range>> \notin granted'[wait[u].resource]
<1>1. <<u, wait[u].range>> \in Slot
  BY DEF LockInv, TypeOK, Call, NoCall, Slot
<1>2. wait[u].resource \in Resource /\ <<u, wait[u].range>> \notin granted[wait[u].resource]
  BY DEF LockInv, ThreadInv, ClientInv
<1>. QED
  BY <1>1, <1>2 DEF Shrinks

\* The types of the queue variables, kept apart from the rest of TypeOK.
QueueTypes ==
    /\ mode \in [Resource -> [Slot -> Mode]]
    /\ granted \in [Resource -> SUBSET Slot]
    /\ ahead \in [Resource -> SUBSET (Slot \X Slot)]
    /\ upgrading \in [Resource -> Txn \cup {NoTxn}]

\* The sweep over all queues is such a step.
LEMMA SweepShrinks ==
    ASSUME LockInv, NEW t \in Txn, NEW onlyUngranted \in BOOLEAN, Sweep(t, onlyUngranted)
    PROVE  Shrinks(t) /\ QueueTypes' /\ asleep' = {}
<1>. DEFINE Gone(r) == {s \in Slot : s[1] = t /\ (onlyUngranted => s \notin granted[r])}
<1>1. QueueTypes' /\ asleep' = {}
  BY DEF LockInv, TypeOK, Sweep, EraseRequests, QueueTypes, Mode
<1>2. ASSUME NEW r \in Resource
      PROVE  /\ \A s \in Slot : mode'[r][s] = IF s \in Gone(r) THEN NoLock ELSE mode[r][s]
             /\ granted'[r] = granted[r] \ Gone(r)
             /\ ahead'[r] = {p \in ahead[r] : p[1] \notin Gone(r) /\ p[2] \notin Gone(r)}
             /\ upgrading'[r] = IF upgrading[r] = t THEN NoTxn ELSE upgrading[r]
  BY DEF Sweep, EraseRequests
<1>3. ASSUME NEW r \in Resource
      PROVE  Present(r)' = Present(r) \ Gone(r)
  BY <1>2 DEF Present
<1>4. ASSUME NEW r \in Resource, NEW s \in Slot, s \in Present(r)'
      PROVE  s \in Present(r) /\ s \notin Gone(r) /\ mode'[r][s] = mode[r][s]
  BY <1>2, <1>3, <1>4
<1>5. ASSUME NEW r \in Resource, NEW a \in Slot, NEW b \in Slot
      PROVE  <<a, b>> \in ahead'[r] <=>
                <<a, b>> \in ahead[r] /\ a \in Present(r)' /\ b \in Present(r)'
  <2>1. <<a, b>> \in ahead[r] => a \in Present(r) /\ b \in Present(r)
    BY DEF LockInv, QueueInv
  <2>. QED
    BY <1>2, <1>3, <2>1
<1>6. ASSUME NEW r \in Resource, NEW s \in Slot
      PROVE  s \in granted'[r] => s \in Present(r)'
  BY <1>2, <1>3 DEF LockInv, QueueInv
<1>. QED
  BY <1>1, <1>2, <1>3, <1>4, <1>5, <1>6 DEF Shrinks

\* ReleaseAll preserves the inductive invariant.
LEMMA ReleaseAllInv ==
    ASSUME LockInv, NEW th \in Thread, ReleaseAll(th)
    PROVE  LockInv'
<1>. DEFINE t == Target(th)
<1>1. /\ pc[th] = "releasing" /\ t \in Txn
      /\ th \in Txn => t = th
      /\ th = Detector => victims # <<>> /\ t = Head(victims)
  BY TargetType DEF LockInv, ReleaseAll
<1>2. /\ UNCHANGED <<state, registered, wait, victims, undo>>
      /\ pc' = [pc EXCEPT ![th] = "unregistering"]
      /\ held' = [held EXCEPT ![t] = [r \in Relation \cup Record |-> NoLock]]
  BY DEF ReleaseAll
<1>3. Sweep(t, FALSE)
  BY DEF ReleaseAll
<1>4. Shrinks(t) /\ QueueTypes' /\ asleep' = {}
  BY <1>1, <1>3, SweepShrinks
<1>5. ASSUME NEW r \in Resource, NEW s \in Slot, s[1] = t
      PROVE  s \notin Present(r)' /\ s \notin granted'[r] /\ upgrading'[r] # t
  BY <1>1, <1>3, <1>5, DetectorIsNoTxn DEF Sweep, EraseRequests, Present
<1>. HIDE DEF t
<1>. USE DetectorIsNoTxn DEF LockInv
<1>6. TypeOK'
  <2>1. pc' \in [Thread -> ClientPc \cup DetectorPc]
    BY <1>2 DEF TypeOK, ClientPc, DetectorPc, Thread
  <2>2. held' \in [Txn -> [Relation \cup Record -> Mode]]
    BY <1>1, <1>2 DEF TypeOK, Mode
  <2>. QED
    BY <1>2, <1>4, <2>1, <2>2 DEF TypeOK, QueueTypes
<1>7. ThreadInv'
  <2>1. ClientInv'
    <3>. SUFFICES ASSUME NEW u \in Txn PROVE ClientInv!(u)'
      BY DEF ClientInv
    <3>0. pc[u] = "waiting" => <<u, wait[u].range>> \notin granted'[wait[u].resource]
      BY <1>1, <1>4, ShrinksWaiting
    <3>1. ClientInv!(u)
      BY DEF ThreadInv, ClientInv
    <3>2. CASE u = th
      BY <1>1, <1>2, <3>1, <3>2 DEF TypeOK
    <3>3. CASE u # th /\ u # t
      BY <1>1, <1>2, <3>0, <3>1, <3>3 DEF TypeOK, Thread
    <3>4. CASE u # th /\ u = t
      <4>1. th = Detector /\ state[u] = "ABORTED"
        BY <1>1, <3>4 DEF Thread, ThreadInv, DetectorInv
      <4>. QED
        BY <1>1, <1>2, <3>0, <3>1, <3>4, <4>1 DEF TypeOK, Thread
    <3>. QED
      BY <3>2, <3>3, <3>4
  <2>2. DetectorInv'
    BY <1>1, <1>2 DEF TypeOK, ThreadInv, DetectorInv, Thread
  <2>. QED
    BY <2>1, <2>2 DEF ThreadInv
<1>8. \A u \in Txn : u # t => held'[u] = held[u]
  BY <1>1, <1>2 DEF TypeOK
<1>9. WaitersAreAbortable'
  <2>. SUFFICES ASSUME NEW r \in Resource, NEW s \in Present(r)' \ granted'[r]
                PROVE  WaitersAreAbortable!(r)!(s)'
    BY DEF WaitersAreAbortable
  <2>1. s \in Slot /\ s[1] # t /\ s \in Present(r) \ granted[r] /\ s[1] \in Txn
    BY <1>4, <1>5, SlotType DEF Present, Shrinks
  <2>2. WaitersAreAbortable!(r)!(s)
    BY <2>1 DEF WaitersAreAbortable
  <2>. QED
    BY <1>1, <1>2, <2>1, <2>2 DEF TypeOK, Thread
<1>10. HeldAgreesWithQueues'
  <2>. SUFFICES ASSUME NEW r \in Relation \cup Record, NEW u \in Txn
                PROVE  HeldAgreesWithQueues!(r, u)'
    BY DEF HeldAgreesWithQueues
  <2>1. r \in Resource /\ <<u, Whole>> \in Slot
    BY DEF Resource, Slot
  <2>2. CASE u = t
    BY <1>1, <1>2, <1>5, <2>1, <2>2 DEF TypeOK
  <2>3. CASE u # t
    <3>1. HeldAgreesWithQueues!(r, u)
      BY DEF HeldAgreesWithQueues
    <3>2. held'[u] = held[u] /\ (IsAbortPendingOrDone(u)' <=> IsAbortPendingOrDone(u))
      BY <1>2, <1>8, <2>3 DEF IsAbortPendingOrDone
    <3>3. <<u, Whole>> \in Present(r) => <<u, Whole>> \in Present(r)'
      BY <1>4, <2>1, <2>3 DEF Shrinks
    <3>4. upgrading[r] = u => upgrading'[r] = u
      BY <1>4, <2>1, <2>3 DEF Shrinks
    <3>5. <<u, Whole>> \in granted[r] => <<u, Whole>> \in Present(r)
      BY <2>1 DEF QueueInv
    <3>. QED
      BY <1>4, <2>1, <3>1, <3>2, <3>3, <3>4, <3>5 DEF Shrinks
  <2>. QED
    BY <2>2, <2>3
<1>11. ReleasedBeforeUnregistering'
  <2>. SUFFICES ASSUME NEW th2 \in Thread, pc'[th2] = "unregistering", NEW r \in Resource
                PROVE  upgrading'[r] # Target(th2)' /\ \A s \in Present(r)' : s[1] # Target(th2)'
    BY DEF ReleasedBeforeUnregistering
  <2>1. Target(th2)' = Target(th2)
    BY <1>2 DEF Target
  <2>2. \A s \in Present(r)' : s \in Slot
    BY DEF Present
  <2>3. CASE th2 = th
    <3>1. Target(th2) = t
      BY <2>3 DEF t
    <3>2. upgrading'[r] # t
      BY <1>1, <1>4 DEF Shrinks
    <3>. QED
      BY <1>5, <2>1, <2>2, <3>1, <3>2
  <2>4. CASE th2 # th
    <3>1. pc[th2] = "unregistering"
      BY <1>2, <2>4 DEF TypeOK
    <3>2. upgrading[r] # Target(th2) /\ \A s \in Present(r) : s[1] # Target(th2)
      BY <3>1 DEF ReleasedBeforeUnregistering
    <3>3. Target(th2) \in Txn
      BY <3>1, TargetType
    <3>. QED
      BY <1>4, <2>1, <2>2, <3>2, <3>3 DEF Shrinks
  <2>. QED
    BY <2>3, <2>4
<1>. QED
  BY <1>1, <1>2, <1>4, <1>6, <1>7, <1>8, <1>9, <1>10, <1>11, ShrinksInv

\* A transaction on a cycle of the waits-for graph has a waiting request.
LEMMA VictimWaits ==
    ASSUME LockInv, NEW v \in Txn, v \in CycleVictims
    PROVE  v \in registered /\ state[v] = "WAITING" /\ pc[v] = "waiting"
<1>. DEFINE S == {u \in Txn : u <= v}
<1>1. v \in S
  BY TxnAssumption
<1>2. OnCycleWithin(v, S)
  BY DEF CycleVictims
<1>3. PICK u : u \in WaitsFor(v)
  <2>. DEFINE succ == [u \in S |-> WaitsFor(u) \cap S]
  <2>1. \A A \in SUBSET S :
            (succ[v] \subseteq A /\ \A u \in A : succ[u] \subseteq A) => v \in A
    BY <1>2 DEF OnCycleWithin
  <2>2. ~(succ[v] \subseteq {})
    BY <2>1
  <2>3. succ[v] = WaitsFor(v) \cap S
    BY <1>1
  <2>. QED
    BY <2>2, <2>3
<1>4. PICK r \in Resource, s \in Slot : s[1] = v /\ s \in Present(r) \ granted[r]
  BY <1>3 DEF WaitsFor
<1>. QED
  BY <1>4 DEF LockInv, WaitersAreAbortable

\* Choosing a victim preserves the inductive invariant.
LEMMA DetectVictimInv ==
    ASSUME LockInv, NEW v \in Txn, DetectVictim(v)
    PROVE  LockInv'
<1>1. v \in registered /\ state[v] = "WAITING" /\ pc[v] = "waiting"
  BY VictimWaits DEF DetectVictim
<1>2. /\ UNCHANGED <<held, registered, wait, undo>>
      /\ pc' = [pc EXCEPT ![Detector] = "scanning"]
      /\ state' = [state EXCEPT ![v] = "ABORTING"]
      /\ victims' = Append(victims, v)
      /\ Sweep(v, TRUE)
  BY <1>1 DEF DetectVictim, TryMarkAborting, LockInv, TypeOK
<1>3. Shrinks(v) /\ QueueTypes' /\ asleep' = {}
  BY <1>2, SweepShrinks
<1>. USE DetectorIsNoTxn DEF LockInv
<1>4. TypeOK'
  <2>1. pc' \in [Thread -> ClientPc \cup DetectorPc]
    BY <1>2 DEF TypeOK, ClientPc, DetectorPc, Thread
  <2>2. state' \in [Txn -> TxnState]
    BY <1>2 DEF TypeOK, TxnState
  <2>3. victims' \in Seq(Txn)
    BY <1>2 DEF TypeOK
  <2>. QED
    BY <1>2, <1>3, <2>1, <2>2, <2>3 DEF TypeOK, QueueTypes
<1>5. ThreadInv'
  <2>1. ClientInv'
    <3>1. \A u \in Txn : pc[u] = "waiting" => <<u, wait[u].range>> \notin granted'[wait[u].resource]
      BY <1>3, ShrinksWaiting
    <3>. QED
      BY <1>1, <1>2, <3>1 DEF TypeOK, ThreadInv, ClientInv, Thread
  <2>2. DetectorInv'
    <3>1. \A i \in 1..Len(victims') :
             victims'[i] = v \/ (i \in 1..Len(victims) /\ victims'[i] = victims[i] /\ victims[i] \in Txn)
      BY <1>2 DEF TypeOK
    <3>2. \A i \in 1..Len(victims') : state'[victims'[i]] \in {"ABORTING", "ABORTED"}
      BY <1>2, <3>1 DEF TypeOK, ThreadInv, DetectorInv
    <3>3. pc'[Detector] = "scanning"
      BY <1>2 DEF TypeOK, Thread
    <3>. QED
      BY <3>2, <3>3 DEF DetectorInv
  <2>. QED
    BY <2>1, <2>2 DEF ThreadInv
<1>6. WaitersAreAbortable'
  <2>. SUFFICES ASSUME NEW r \in Resource, NEW s \in Present(r)' \ granted'[r]
                PROVE  WaitersAreAbortable!(r)!(s)'
    BY DEF WaitersAreAbortable
  <2>1. s \in Slot /\ s[1] # v /\ s \in Present(r) \ granted[r] /\ s[1] \in Txn
    BY <1>3, SlotType DEF Present, Shrinks
  <2>2. WaitersAreAbortable!(r)!(s)
    BY <2>1 DEF WaitersAreAbortable
  <2>. QED
    BY <1>2, <2>1, <2>2 DEF TypeOK, Thread
<1>7. HeldAgreesWithQueues'
  <2>. SUFFICES ASSUME NEW r \in Relation \cup Record, NEW u \in Txn
                PROVE  HeldAgreesWithQueues!(r, u)'
    BY DEF HeldAgreesWithQueues
  <2>1. r \in Resource /\ <<u, Whole>> \in Slot
    BY DEF Resource, Slot
  <2>2. HeldAgreesWithQueues!(r, u)
    BY DEF HeldAgreesWithQueues
  <2>3. <<u, Whole>> \in granted'[r] => <<u, Whole>> \in granted[r] /\ mode'[r][<<u, Whole>>] = mode[r][<<u, Whole>>]
    BY <1>3, <2>1 DEF Shrinks
  <2>4. CASE u = v
    BY <1>2, <2>2, <2>3, <2>4 DEF TypeOK, IsAbortPendingOrDone
  <2>5. CASE u # v
    <3>1. held'[u] = held[u] /\ (IsAbortPendingOrDone(u)' <=> IsAbortPendingOrDone(u))
      BY <1>2, <2>5 DEF TypeOK, IsAbortPendingOrDone
    <3>2. <<u, Whole>> \in Present(r) => <<u, Whole>> \in Present(r)'
      BY <1>3, <2>1, <2>5 DEF Shrinks
    <3>3. upgrading[r] = u => upgrading'[r] = u
      BY <1>3, <2>1, <2>5 DEF Shrinks
    <3>. QED
      BY <1>3, <2>1, <2>2, <2>3, <3>1, <3>2, <3>3 DEF Shrinks
  <2>. QED
    BY <2>4, <2>5
<1>8. ReleasedBeforeUnregistering'
  <2>. SUFFICES ASSUME NEW th \in Thread, pc'[th] = "unregistering", NEW r \in Resource
                PROVE  upgrading'[r] # Target(th)' /\ \A s \in Present(r)' : s[1] # Target(th)'
    BY DEF ReleasedBeforeUnregistering
  <2>1. th \in Txn /\ pc[th] = "unregistering" /\ Target(th) = th /\ Target(th)' = th
    BY <1>2 DEF TypeOK, Thread, Target
  <2>2. upgrading[r] # th /\ \A s \in Present(r) : s[1] # th
    BY <2>1 DEF ReleasedBeforeUnregistering
  <2>3. \A s \in Present(r)' : s \in Slot
    BY DEF Present
  <2>. QED
    BY <1>3, <2>1, <2>2, <2>3 DEF Shrinks
<1>. QED
  BY <1>2, <1>3, <1>4, <1>5, <1>6, <1>7, <1>8, ShrinksInv

-----------------------------------------------------------------------------
(* Steps that put a request s of transaction t into the queue of r.        *)

\* The queue of r now holds s in mode m, at its end unless it was there, and
\* nothing else has moved.
Placed(r, s, m) ==
    /\ mode' = [mode EXCEPT ![r][s] = m]
    /\ ahead' = [ahead EXCEPT ![r] =
                    IF s \in Present(r) THEN @
                    ELSE @ \cup {<<b, s>> : b \in {x \in Present(r) : x[1] # s[1]}}]

\* The same, said of the parts of the queues.
LEMMA PlacedQueues ==
    ASSUME LockInv, NEW r \in Resource, NEW s \in Slot, NEW m \in LockMode, Placed(r, s, m)
    PROVE  /\ mode' \in [Resource -> [Slot -> Mode]]
           /\ ahead' \in [Resource -> SUBSET (Slot \X Slot)]
           /\ mode'[r][s] = m
           /\ \A r2 \in Resource, c \in Slot : r2 # r \/ c # s => mode'[r2][c] = mode[r2][c]
           /\ \A r2 \in Resource : r2 # r => Present(r2)' = Present(r2) /\ ahead'[r2] = ahead[r2]
           /\ Present(r)' = Present(r) \cup {s}
           /\ \A a, b \in Slot : <<a, b>> \in ahead'[r] <=>
                \/ <<a, b>> \in ahead[r]
                \/ s \notin Present(r) /\ b = s /\ a \in Present(r) /\ a[1] # s[1]
<1>. USE DEF LockInv, TypeOK, Placed
<1>1. Present(r) \subseteq Slot
  BY DEF Present
<1>2. mode' \in [Resource -> [Slot -> Mode]] /\ mode'[r][s] = m
  BY DEF Mode
<1>3. \A r2 \in Resource, c \in Slot : r2 # r \/ c # s => mode'[r2][c] = mode[r2][c]
  OBVIOUS
<1>4. ahead'[r] = IF s \in Present(r) THEN ahead[r]
                  ELSE ahead[r] \cup {<<b, s>> : b \in {x \in Present(r) : x[1] # s[1]}}
  OBVIOUS
<1>5. \A r2 \in Resource : r2 # r => ahead'[r2] = ahead[r2]
  OBVIOUS
<1>6. ahead' \in [Resource -> SUBSET (Slot \X Slot)]
  <2>1. {<<b, s>> : b \in {x \in Present(r) : x[1] # s[1]}} \subseteq Slot \X Slot
    BY <1>1
  <2>. QED
    BY <1>4, <2>1
<1>7. m # NoLock
  BY DEF LockMode, NoLock
<1>8. Present(r)' = Present(r) \cup {s}
  BY <1>2, <1>3, <1>7 DEF Present
<1>9. \A r2 \in Resource : r2 # r => Present(r2)' = Present(r2)
  BY <1>3 DEF Present
<1>10. \A a, b \in Slot : <<a, b>> \in ahead'[r] <=>
                \/ <<a, b>> \in ahead[r]
                \/ s \notin Present(r) /\ b = s /\ a \in Present(r) /\ a[1] # s[1]
  BY <1>4
<1>. QED
  BY <1>2, <1>3, <1>5, <1>6, <1>8, <1>9, <1>10

\* A queue stays a list when a request is placed in it.
LEMMA PlacedQueueInv ==
    ASSUME LockInv, NEW r \in Resource, NEW s \in Slot, NEW m \in LockMode, Placed(r, s, m),
           r \notin Index => s[2] = Whole,
           r \notin Relation => m \in {"S", "X"},
           \A r2 \in Resource : r2 # r => granted'[r2] = granted[r2],
           granted'[r] \subseteq granted[r] \cup {s}
    PROVE  QueueInv'
<1>. SUFFICES ASSUME NEW q \in Resource
              PROVE  QueueInv!(q)'
  BY DEF QueueInv
<1>1. QueueInv!(q)
  BY DEF LockInv, QueueInv
<1>2. /\ mode'[r][s] = m
      /\ \A r2 \in Resource, c \in Slot : r2 # r \/ c # s => mode'[r2][c] = mode[r2][c]
      /\ \A r2 \in Resource : r2 # r => Present(r2)' = Present(r2) /\ ahead'[r2] = ahead[r2]
      /\ Present(r)' = Present(r) \cup {s}
      /\ \A a, b \in Slot : <<a, b>> \in ahead'[r] <=>
                \/ <<a, b>> \in ahead[r]
                \/ s \notin Present(r) /\ b = s /\ a \in Present(r) /\ a[1] # s[1]
  BY PlacedQueues
<1>3. Present(q) \subseteq Slot
  BY DEF Present
<1>4. CASE q # r
  BY <1>1, <1>2, <1>3, <1>4
<1>5. CASE q = r
  <2>1. granted'[q] \subseteq Present(q)'
    BY <1>1, <1>2, <1>5
  <2>2. \A a, b \in Slot :
            /\ <<a, b>> \in ahead'[q] => a \in Present(q)' /\ b \in Present(q)' /\ <<b, a>> \notin ahead'[q]
            /\ a \in Present(q)' /\ b \in Present(q)' /\ a[1] # b[1] =>
                    <<a, b>> \in ahead'[q] \/ <<b, a>> \in ahead'[q]
    <3>. SUFFICES ASSUME NEW a \in Slot, NEW b \in Slot
                  PROVE  /\ <<a, b>> \in ahead'[r] =>
                                a \in Present(r)' /\ b \in Present(r)' /\ <<b, a>> \notin ahead'[r]
                         /\ a \in Present(r)' /\ b \in Present(r)' /\ a[1] # b[1] =>
                                <<a, b>> \in ahead'[r] \/ <<b, a>> \in ahead'[r]
      BY <1>5
    <3>1. /\ <<a, b>> \in ahead[r] => a \in Present(r) /\ b \in Present(r) /\ <<b, a>> \notin ahead[r]
          /\ <<b, a>> \in ahead[r] => a \in Present(r) /\ b \in Present(r) /\ <<a, b>> \notin ahead[r]
          /\ a \in Present(r) /\ b \in Present(r) /\ a[1] # b[1] =>
                    <<a, b>> \in ahead[r] \/ <<b, a>> \in ahead[r]
      BY <1>1, <1>5
    <3>2. <<a, b>> \in ahead'[r] <=>
                \/ <<a, b>> \in ahead[r]
                \/ s \notin Present(r) /\ b = s /\ a \in Present(r) /\ a[1] # s[1]
      BY <1>2
    <3>3. <<b, a>> \in ahead'[r] <=>
                \/ <<b, a>> \in ahead[r]
                \/ s \notin Present(r) /\ a = s /\ b \in Present(r) /\ b[1] # s[1]
      BY <1>2
    <3>4. Present(r)' = Present(r) \cup {s}
      BY <1>2
    <3>. QED
      BY <3>1, <3>2, <3>3, <3>4
  <2>3. \A a \in Present(q)' :
            /\ q \notin Index => a[2] = Whole
            /\ q \notin Relation => mode'[q][a] \in {"S", "X"}
    BY <1>1, <1>2, <1>3, <1>5
  <2>. QED
    BY <2>1, <2>2, <2>3
<1>. QED
  BY <1>4, <1>5

\* t is in a lock call on r: it runs, and s is its only request that can be
\* waiting, in r's queue.
InLockCall(t, r, s) ==
    /\ pc[t] \in {"idle", "escalating", "waiting"} /\ ~IsAbortPendingOrDone(t)
    /\ s[1] = t
    /\ r \notin Index => s[2] = Whole
    /\ \A q \in Resource : \A c \in Present(q) \ granted[q] : c[1] = t => q = r /\ c = s

\* A transaction in a lock call is registered, is not being unregistered, and
\* its upgrade mark can only be on the queue of r.
LEMMA InLockCallFacts ==
    ASSUME LockInv, NEW t \in Txn, NEW r \in Resource, NEW s \in Slot, InLockCall(t, r, s)
    PROVE  /\ state[t] \in {"ACTIVE", "WAITING"} /\ t \in registered
           /\ \A th \in Thread : pc[th] = "unregistering" => Target(th) # t /\ Target(th) \in Txn
           /\ \A q \in Resource : upgrading[q] = t => q = r /\ s \in Present(r) \ granted[r]
<1>. USE DetectorIsNoTxn DEF LockInv, InLockCall
<1>1. state[t] \in {"ACTIVE", "WAITING"} /\ t \in registered
  BY DEF ThreadInv, ClientInv, IsAbortPendingOrDone
<1>2. ASSUME NEW th \in Thread, pc[th] = "unregistering"
      PROVE  Target(th) # t /\ Target(th) \in Txn
  <2>1. Target(th) \in Txn /\ (th \in Txn => Target(th) = th)
        /\ (th = Detector => victims # <<>> /\ Target(th) = Head(victims))
    BY <1>2, TargetType
  <2>2. CASE th \in Txn
    BY <1>2, <2>1, <2>2
  <2>3. CASE th = Detector
    BY <1>1, <1>2, <2>1, <2>3 DEF ThreadInv, DetectorInv
  <2>. QED
    BY <2>1, <2>2, <2>3 DEF Thread
<1>3. ASSUME NEW q \in Resource, upgrading[q] = t
      PROVE  q = r /\ s \in Present(r) \ granted[r]
  BY <1>3 DEF UpgradeMarkIsLive
<1>. QED
  BY <1>1, <1>2, <1>3

\* Granting a request that CanGrantRequest lets through preserves the
\* inductive invariant, at once or after a wait.
LEMMA GrantInv ==
    ASSUME LockInv, NEW t \in Txn, NEW r \in Resource, NEW s \in Slot, NEW m \in LockMode,
           InLockCall(t, r, s),
           r \notin Relation => m \in {"S", "X"},
           s \in granted[r] => upgrading[r] \in {NoTxn, t},
           Placed(r, s, m), CanGrantRequest(r, s, m), Grant(t, r, s, m)
    PROVE  LockInv'
<1>. USE DetectorIsNoTxn DEF LockInv
<1>1. /\ pc[t] \in {"idle", "escalating", "waiting"} /\ ~IsAbortPendingOrDone(t) /\ s[1] = t
      /\ r \notin Index => s[2] = Whole
      /\ \A q \in Resource : \A c \in Present(q) \ granted[q] : c[1] = t => q = r /\ c = s
  BY DEF InLockCall
<1>2. /\ state[t] \in {"ACTIVE", "WAITING"} /\ t \in registered
      /\ \A th \in Thread : pc[th] = "unregistering" => Target(th) # t /\ Target(th) \in Txn
      /\ \A q \in Resource : upgrading[q] = t => q = r /\ s \in Present(r) \ granted[r]
  BY InLockCallFacts
<1>3. /\ mode' \in [Resource -> [Slot -> Mode]]
      /\ ahead' \in [Resource -> SUBSET (Slot \X Slot)]
      /\ mode'[r][s] = m
      /\ \A r2 \in Resource, c \in Slot : r2 # r \/ c # s => mode'[r2][c] = mode[r2][c]
      /\ \A r2 \in Resource : r2 # r => Present(r2)' = Present(r2) /\ ahead'[r2] = ahead[r2]
      /\ Present(r)' = Present(r) \cup {s}
      /\ \A a, b \in Slot : <<a, b>> \in ahead'[r] <=>
                \/ <<a, b>> \in ahead[r]
                \/ s \notin Present(r) /\ b = s /\ a \in Present(r) /\ a[1] # s[1]
  BY PlacedQueues
<1>4. /\ granted' = [granted EXCEPT ![r] = granted[r] \cup {s}]
      /\ upgrading' = [upgrading EXCEPT ![r] = IF upgrading[r] = t THEN NoTxn ELSE upgrading[r]]
      /\ state' = [state EXCEPT ![t] = "ACTIVE"]
      /\ held' = IF r \in Index THEN held ELSE [held EXCEPT ![t][r] = m]
      /\ UNCHANGED <<registered, asleep, victims, undo>>
  BY <1>2 DEF Grant, SetUnlessEnded, TypeOK
<1>5. \/ /\ pc' = [pc EXCEPT ![t] = "idle"] /\ wait' = [wait EXCEPT ![t] = NoCall]
      \/ /\ r \in Record /\ pc' = [pc EXCEPT ![t] = "escalating"]
         /\ wait' = [wait EXCEPT ![t] = [resource |-> r, range |-> Whole, escalation |-> FALSE]]
  BY DEF Grant
<1>6. m # NoLock /\ m \in Mode
  BY DEF LockMode, NoLock, Mode
<1>7. \A q \in Resource, c \in Slot : c \in granted'[q] <=> c \in granted[q] \/ (q = r /\ c = s)
  BY <1>4 DEF TypeOK
<1>8. \A q \in Resource : /\ upgrading'[q] # t
                          /\ upgrading'[q] # NoTxn => upgrading'[q] = upgrading[q]
                          /\ upgrading[q] # t => upgrading'[q] = upgrading[q]
  BY <1>2, <1>4 DEF TypeOK
<1>9. \A q \in Resource, c \in Slot : c \in Present(q)' <=> c \in Present(q) \/ (q = r /\ c = s)
  BY <1>3
<1>10. \A u \in Txn : u # t => /\ state'[u] = state[u] /\ pc'[u] = pc[u] /\ wait'[u] = wait[u]
                               /\ held'[u] = held[u]
  BY <1>4, <1>5 DEF TypeOK, Thread
<1>11. TypeOK'
  <2>1. state' \in [Txn -> TxnState]
    BY <1>4 DEF TypeOK, TxnState
  <2>2. held' \in [Txn -> [Relation \cup Record -> Mode]]
    BY <1>4, <1>6 DEF TypeOK, Resource
  <2>3. pc' \in [Thread -> ClientPc \cup DetectorPc]
    BY <1>5 DEF TypeOK, Thread, ClientPc, DetectorPc
  <2>4. wait' \in [Txn -> Call]
    <3>1. [resource |-> r, range |-> Whole, escalation |-> FALSE] \in Call /\ NoCall \in Call
      BY DEF Call
    <3>. QED
      BY <1>5, <3>1 DEF TypeOK
  <2>5. granted' \in [Resource -> SUBSET Slot] /\ upgrading' \in [Resource -> Txn \cup {NoTxn}]
    BY <1>4 DEF TypeOK
  <2>. QED
    BY <1>3, <1>4, <2>1, <2>2, <2>3, <2>4, <2>5 DEF TypeOK
<1>12. ThreadInv'
  <2>1. ClientInv'
    <3>. SUFFICES ASSUME NEW u \in Txn PROVE ClientInv!(u)'
      BY DEF ClientInv
    <3>1. ClientInv!(u)
      BY DEF ThreadInv, ClientInv
    <3>2. CASE u # t
      <4>1. pc[u] = "waiting" => <<u, wait[u].range>> \in Slot /\ <<u, wait[u].range>> # s
        BY <1>1, <3>2 DEF TypeOK, Call, NoCall, Slot
      <4>. QED
        BY <1>4, <1>7, <1>10, <3>1, <3>2, <4>1
    <3>3. CASE u = t
      <4>1. pc'[t] \in {"idle", "escalating"} /\ state'[t] = "ACTIVE" /\ t \in registered'
        BY <1>2, <1>4, <1>5 DEF TypeOK, Thread
      <4>2. pc'[t] = "escalating" => r \in Record /\ wait'[t].resource = r
        BY <1>5 DEF TypeOK, Thread, NoCall
      <4>3. r \in Record => held'[t][r] = m /\ m \in {"S", "X"}
        BY <1>4, ResourceAssumption DEF TypeOK
      <4>. QED
        BY <3>3, <4>1, <4>2, <4>3
    <3>. QED
      BY <3>2, <3>3
  <2>2. DetectorInv'
    <3>1. pc'[Detector] = pc[Detector] /\ victims' = victims
      BY <1>4, <1>5 DEF TypeOK, Thread
    <3>2. \A i \in 1..Len(victims) : victims[i] \in Txn /\ victims[i] # t
      <4>1. \A i \in 1..Len(victims) : victims[i] \in Txn
        BY DEF TypeOK
      <4>2. \A i \in 1..Len(victims) : state[victims[i]] \in {"ABORTING", "ABORTED"}
        BY DEF ThreadInv, DetectorInv
      <4>. QED
        BY <1>2, <4>1, <4>2
    <3>3. victims # <<>> => Head(victims) = victims[1] /\ 1 \in 1..Len(victims)
      BY VictimsHeadTail
    <3>. QED
      BY <1>10, <3>1, <3>2, <3>3 DEF ThreadInv, DetectorInv
  <2>. QED
    BY <2>1, <2>2 DEF ThreadInv
<1>13. QueueInv'
  BY <1>1, <1>4, PlacedQueueInv DEF TypeOK
<1>14. WaitersAreAbortable'
  <2>. SUFFICES ASSUME NEW q \in Resource, NEW c \in Present(q)' \ granted'[q]
                PROVE  WaitersAreAbortable!(q)!(c)'
    BY DEF WaitersAreAbortable
  <2>1. c \in Slot /\ c[1] \in Txn /\ c \in Present(q) \ granted[q] /\ (q # r \/ c # s)
    BY <1>7, <1>9, SlotType DEF Present
  <2>2. c[1] # t
    BY <1>1, <2>1
  <2>3. WaitersAreAbortable!(q)!(c)
    BY <2>1 DEF WaitersAreAbortable
  <2>. QED
    BY <1>4, <1>10, <2>1, <2>2, <2>3
<1>15. UpgradeMarkIsLive'
  <2>. SUFFICES ASSUME NEW q \in Resource, upgrading'[q] # NoTxn
                PROVE  \E c \in Present(q)' \ granted'[q] : c[1] = upgrading'[q]
    BY DEF UpgradeMarkIsLive
  <2>1. upgrading'[q] = upgrading[q] /\ upgrading[q] # t
    BY <1>8
  <2>2. PICK c \in Present(q) \ granted[q] : c[1] = upgrading[q]
    BY <2>1 DEF UpgradeMarkIsLive
  <2>3. c \in Slot /\ c # s
    BY <1>1, <2>1, <2>2 DEF Present
  <2>. QED
    BY <1>7, <1>9, <2>1, <2>2, <2>3
<1>16. HeldAgreesWithQueues'
  <2>. SUFFICES ASSUME NEW q \in Relation \cup Record, NEW u \in Txn
                PROVE  HeldAgreesWithQueues!(q, u)'
    BY DEF HeldAgreesWithQueues
  <2>1. q \in Resource /\ <<u, Whole>> \in Slot /\ q \notin Index
    BY ResourceAssumption DEF Resource, Slot
  <2>2. HeldAgreesWithQueues!(q, u)
    BY DEF HeldAgreesWithQueues
  <2>3. IsAbortPendingOrDone(u)' <=> IsAbortPendingOrDone(u)
    BY <1>1, <1>4, <1>10 DEF TypeOK, IsAbortPendingOrDone
  <2>4. CASE u = t /\ q = r
    <3>1. s = <<u, Whole>>
      BY <1>1, <2>1, <2>4, SlotType
    <3>2. held'[u][q] = m
      BY <1>4, <2>1, <2>4 DEF TypeOK
    <3>. QED
      BY <1>3, <1>7, <1>9, <2>1, <2>4, <3>1, <3>2
  <2>5. CASE u # t \/ q # r
    <3>1. held'[u][q] = held[u][q]
      BY <1>4, <2>5 DEF TypeOK
    <3>2. q # r \/ <<u, Whole>> # s
      BY <1>1, <2>5
    <3>3. mode'[q][<<u, Whole>>] = mode[q][<<u, Whole>>]
      BY <1>3, <2>1, <3>2
    <3>4. upgrading[q] = u => upgrading'[q] = u
      BY <1>2, <1>8, <2>1, <2>5
    <3>. QED
      BY <1>7, <1>9, <2>1, <2>2, <2>3, <3>1, <3>2, <3>3, <3>4
  <2>. QED
    BY <2>4, <2>5
<1>17. ASSUME NEW a \in Slot, NEW b \in Slot, NEW q \in Resource, <<a, b>> \in ahead'[q],
              q # r \/ b # s
       PROVE  <<a, b>> \in ahead[q]
  BY <1>3, <1>17
<1>18. ASSUME NEW a \in Slot, a \in Present(r), a[1] # t, RangesOverlap(a[2], s[2])
       PROVE  /\ <<s, a>> \notin ahead[r] => a \in granted[r]
              /\ a \in granted[r] => Compatible(r, m, mode[r][a])
  BY <1>1, <1>18 DEF CanGrantRequest, Blocks
<1>19. NoOvertaking'
  <2>. SUFFICES ASSUME NEW q \in Resource, NEW a \in Slot, NEW b \in Slot,
                       <<a, b>> \in ahead'[q], a[1] # b[1], RangesOverlap(a[2], b[2]),
                       a \notin granted'[q], b \in granted'[q]
                PROVE  upgrading'[q] = a[1]
    BY DEF NoOvertaking
  <2>1. CASE q # r \/ b # s
    <3>1. <<a, b>> \in ahead[q] /\ a \notin granted[q] /\ b \in granted[q] /\ (q # r \/ a # s)
      BY <1>7, <1>17, <2>1
    <3>2. upgrading[q] = a[1]
      BY <3>1 DEF NoOvertaking
    <3>3. a \in Present(q) /\ a[1] # t
      BY <1>1, <3>1 DEF QueueInv
    <3>. QED
      BY <1>8, <3>2, <3>3
  <2>2. CASE q = r /\ b = s
    <3>1. a \in Present(r) /\ a[1] # t /\ a \notin granted[r] /\ <<s, a>> \notin ahead[r]
      BY <1>1, <1>3, <1>7, <2>2 DEF QueueInv
    <3>. QED
      BY <1>18, <2>2, <3>1
  <2>. QED
    BY <2>1, <2>2
<1>20. UpgradeIsInFront'
  <2>. SUFFICES ASSUME NEW q \in Resource, NEW a \in Slot, NEW b \in Slot,
                       <<a, b>> \in ahead'[q], a[1] # b[1], RangesOverlap(a[2], b[2]),
                       b \notin granted'[q], upgrading'[q] = b[1]
                PROVE  a \in granted'[q]
    BY DEF UpgradeIsInFront
  <2>1. b[1] \in Txn /\ b \notin granted[q] /\ (q # r \/ b # s) /\ upgrading[q] = b[1]
    BY <1>7, <1>8, SlotType
  <2>2. <<a, b>> \in ahead[q]
    BY <1>17, <2>1
  <2>3. a \in granted[q]
    BY <2>1, <2>2 DEF UpgradeIsInFront
  <2>. QED
    BY <1>7, <2>3
<1>21. ProtectionCompatible'
  <2>. SUFFICES ASSUME NEW q \in Resource, NEW a \in Slot, NEW b \in Slot,
                       a[1] # b[1], RangesOverlap(a[2], b[2]),
                       ProtectingMode(q, a)' # NoLock, ProtectingMode(q, b)' # NoLock
                PROVE  Compatible(q, ProtectingMode(q, a)', ProtectingMode(q, b)')
    BY DEF ProtectionCompatible, Compatible
  <2>1. ProtectingMode(r, s)' = m
    BY <1>3, <1>7 DEF ProtectingMode
  <2>2. ASSUME NEW c \in Slot, q # r \/ c # s, ProtectingMode(q, c)' # NoLock
        PROVE  ProtectingMode(q, c)' = ProtectingMode(q, c)
    <3>1. CASE c \in granted[q]
      BY <1>3, <1>7, <2>2, <3>1 DEF ProtectingMode
    <3>2. CASE c \notin granted[q]
      <4>1. c \notin granted'[q] /\ c \in Present(q)' /\ upgrading'[q] = c[1] /\ c[1] \in Txn
        BY <1>7, <2>2, <3>2, SlotType DEF ProtectingMode
      <4>2. c[1] # t /\ upgrading[q] = c[1] /\ c \in Present(q) /\ held'[c[1]] = held[c[1]]
        BY <1>8, <1>9, <1>10, <2>2, <4>1
      <4>. QED
        BY <3>2, <4>1, <4>2 DEF ProtectingMode
    <3>. QED
      BY <3>1, <3>2
  <2>3. ASSUME NEW c \in Slot, c[1] # t, RangesOverlap(c[2], s[2]), ProtectingMode(r, c) # NoLock
        PROVE  Compatible(r, m, ProtectingMode(r, c)) /\ ProtectingMode(r, c) \in LockMode
    <3>1. c \in Present(r)
      BY <2>3 DEF ProtectingMode, QueueInv
    <3>2. CASE c \in granted[r]
      <4>1. ProtectingMode(r, c) = mode[r][c] /\ mode[r][c] \in Mode /\ mode[r][c] # NoLock
        BY <2>3, <3>2 DEF ProtectingMode, TypeOK
      <4>2. mode[r][c] \in LockMode
        BY <4>1 DEF Mode
      <4>. QED
        BY <1>18, <2>3, <3>1, <3>2, <4>1, <4>2
    <3>3. CASE c \notin granted[r]
      <4>1. upgrading[r] = c[1] /\ c[1] \in Txn
        BY <2>3, <3>3, SlotType DEF ProtectingMode
      <4>2. <<s, c>> \in ahead[r]
        BY <1>18, <2>3, <3>1, <3>3
      <4>3. RangesOverlap(s[2], c[2])
        BY <2>3 DEF RangesOverlap
      <4>4. s \in granted[r]
        BY <1>1, <2>3, <3>3, <4>1, <4>2, <4>3 DEF UpgradeIsInFront
      <4>. QED
        BY <2>3, <4>1, <4>4
    <3>. QED
      BY <3>2, <3>3
  <2>4. CASE q = r /\ a = s
    <3>1. ProtectingMode(q, b)' = ProtectingMode(r, b) /\ b[1] # t /\ RangesOverlap(b[2], s[2])
      BY <1>1, <2>2, <2>4 DEF RangesOverlap
    <3>. QED
      BY <2>1, <2>3, <2>4, <3>1
  <2>5. CASE q = r /\ b = s
    <3>1. ProtectingMode(q, a)' = ProtectingMode(r, a) /\ a[1] # t
      BY <1>1, <2>2, <2>5
    <3>2. Compatible(r, m, ProtectingMode(r, a)) /\ ProtectingMode(r, a) \in LockMode
      BY <2>3, <2>5, <3>1
    <3>. QED
      BY <2>1, <2>5, <3>1, <3>2, CompatibleSymmetric
  <2>6. CASE (q # r \/ a # s) /\ (q # r \/ b # s)
    <3>1. ProtectingMode(q, a)' = ProtectingMode(q, a) /\ ProtectingMode(q, b)' = ProtectingMode(q, b)
      BY <2>2, <2>6
    <3>. QED
      BY <3>1 DEF ProtectionCompatible
  <2>. QED
    BY <2>4, <2>5, <2>6
<1>22. ReleasedBeforeUnregistering'
  <2>. SUFFICES ASSUME NEW th \in Thread, pc'[th] = "unregistering", NEW q \in Resource
                PROVE  upgrading'[q] # Target(th)' /\ \A c \in Present(q)' : c[1] # Target(th)'
    BY DEF ReleasedBeforeUnregistering
  <2>1. pc[th] = "unregistering" /\ Target(th)' = Target(th)
    BY <1>4, <1>5 DEF TypeOK, Thread, Target
  <2>2. upgrading[q] # Target(th) /\ \A c \in Present(q) : c[1] # Target(th)
    BY <2>1 DEF ReleasedBeforeUnregistering
  <2>3. Target(th) # t /\ Target(th) \in Txn
    BY <1>2, <2>1
  <2>4. \A c \in Present(q)' : c \in Slot
    BY DEF Present
  <2>. QED
    BY <1>1, <1>8, <1>9, <2>1, <2>2, <2>3, <2>4
<1>23. NothingLeftBehind'
  <2>. SUFFICES ASSUME NEW u \in Txn, u \notin registered', NEW q \in Resource
                PROVE  upgrading'[q] # u /\ \A c \in Present(q)' : c[1] # u
    BY DEF NothingLeftBehind
  <2>1. u # t /\ upgrading[q] # u /\ \A c \in Present(q) : c[1] # u
    BY <1>2, <1>4 DEF NothingLeftBehind
  <2>2. \A c \in Present(q)' : c \in Slot
    BY DEF Present
  <2>. QED
    BY <1>1, <1>8, <1>9, <2>1, <2>2
<1>. QED
  BY <1>11, <1>12, <1>13, <1>14, <1>15, <1>16, <1>19, <1>20, <1>21, <1>22, <1>23

\* Going to sleep in a lock call, with a new request or with a granted one
\* turned into an upgrade, preserves the inductive invariant.
LEMMA SleepInv ==
    ASSUME LockInv, NEW t \in Txn, NEW r \in Resource, NEW s \in Slot, NEW m \in LockMode,
           NEW escalation \in BOOLEAN,
           InLockCall(t, r, s), pc[t] # "waiting",
           r \notin Relation => m \in {"S", "X"},
           s \in granted[r] => upgrading[r] \in {NoTxn, t},
           s \in granted[r] /\ r \in Index => mode[r][s] = "S",
           Placed(r, s, m),
           granted' = [granted EXCEPT ![r] = granted[r] \ {s}],
           upgrading' = [upgrading EXCEPT ![r] = IF s \in granted[r] THEN t ELSE upgrading[r]],
           SetUnlessEnded(t, "WAITING"),
           pc' = [pc EXCEPT ![t] = "waiting"],
           wait' = [wait EXCEPT ![t] =
                       [resource |-> r, range |-> s[2], escalation |-> escalation]],
           asleep' = asleep \cup {t},
           UNCHANGED <<held, registered, victims, undo>>
    PROVE  LockInv'
<1>. USE DetectorIsNoTxn DEF LockInv
<1>1. /\ pc[t] \in {"idle", "escalating"} /\ ~IsAbortPendingOrDone(t) /\ s[1] = t
      /\ r \notin Index => s[2] = Whole
  BY DEF InLockCall
<1>2. /\ state[t] \in {"ACTIVE", "WAITING"} /\ t \in registered
      /\ \A th \in Thread : pc[th] = "unregistering" => Target(th) # t /\ Target(th) \in Txn
  BY InLockCallFacts
<1>3. /\ mode' \in [Resource -> [Slot -> Mode]]
      /\ ahead' \in [Resource -> SUBSET (Slot \X Slot)]
      /\ mode'[r][s] = m
      /\ \A r2 \in Resource, c \in Slot : r2 # r \/ c # s => mode'[r2][c] = mode[r2][c]
      /\ \A r2 \in Resource : r2 # r => Present(r2)' = Present(r2) /\ ahead'[r2] = ahead[r2]
      /\ Present(r)' = Present(r) \cup {s}
      /\ \A a, b \in Slot : <<a, b>> \in ahead'[r] <=>
                \/ <<a, b>> \in ahead[r]
                \/ s \notin Present(r) /\ b = s /\ a \in Present(r) /\ a[1] # s[1]
  BY PlacedQueues
<1>4. \A q \in Resource : \A c \in Present(q) \ granted[q] : c[1] # t
  BY <1>1 DEF WaitersAreAbortable
<1>5. \A q \in Resource : upgrading[q] # t
  BY <1>4 DEF UpgradeMarkIsLive
<1>6. state' = [state EXCEPT ![t] = "WAITING"]
  BY <1>2 DEF SetUnlessEnded, TypeOK
<1>7. \A q \in Resource, c \in Slot : c \in granted'[q] <=> c \in granted[q] /\ (q # r \/ c # s)
  BY DEF TypeOK
<1>8. \A q \in Resource, c \in Slot : c \in Present(q)' <=> c \in Present(q) \/ (q = r /\ c = s)
  BY <1>3
<1>9. /\ \A q \in Resource : q # r \/ s \notin granted[r] => upgrading'[q] = upgrading[q]
      /\ s \in granted[r] => upgrading[r] = NoTxn /\ upgrading'[r] = t
      /\ s \notin granted[r] => s \notin Present(r)
  BY <1>1, <1>4, <1>5 DEF TypeOK
<1>10. \A u \in Txn : u # t => state'[u] = state[u] /\ pc'[u] = pc[u] /\ wait'[u] = wait[u]
  BY <1>6 DEF TypeOK, Thread
<1>11. /\ state'[t] = "WAITING" /\ pc'[t] = "waiting"
       /\ wait'[t].resource = r /\ wait'[t].range = s[2]
  BY <1>6 DEF TypeOK, Thread
<1>12. TypeOK'
  <2>1. state' \in [Txn -> TxnState]
    BY <1>6 DEF TypeOK, TxnState
  <2>2. pc' \in [Thread -> ClientPc \cup DetectorPc]
    BY DEF TypeOK, Thread, ClientPc, DetectorPc
  <2>3. wait' \in [Txn -> Call]
    BY SlotType DEF TypeOK, Call
  <2>4. granted' \in [Resource -> SUBSET Slot] /\ upgrading' \in [Resource -> Txn \cup {NoTxn}]
    BY DEF TypeOK
  <2>. QED
    BY <1>3, <2>1, <2>2, <2>3, <2>4 DEF TypeOK
<1>13. ThreadInv'
  <2>1. ClientInv'
    <3>. SUFFICES ASSUME NEW u \in Txn PROVE ClientInv!(u)'
      BY DEF ClientInv
    <3>1. ClientInv!(u)
      BY DEF ThreadInv, ClientInv
    <3>2. CASE u # t
      <4>1. <<u, wait[u].range>> \in Slot
        BY DEF TypeOK, Call, NoCall, Slot
      <4>. QED
        BY <1>7, <1>10, <3>1, <3>2, <4>1
    <3>3. CASE u = t
      <4>1. <<t, s[2]>> = s
        BY <1>1, SlotType
      <4>. QED
        BY <1>2, <1>7, <1>11, <3>3, <4>1
    <3>. QED
      BY <3>2, <3>3
  <2>2. DetectorInv'
    <3>1. pc'[Detector] = pc[Detector]
      BY DEF TypeOK, Thread
    <3>2. \A i \in 1..Len(victims) : victims[i] \in Txn
      BY DEF TypeOK
    <3>3. \A i \in 1..Len(victims) : state[victims[i]] \in {"ABORTING", "ABORTED"}
      BY DEF ThreadInv, DetectorInv
    <3>4. \A i \in 1..Len(victims) : victims[i] \in Txn /\ victims[i] # t
      BY <1>2, <3>2, <3>3
    <3>5. victims # <<>> => Head(victims) = victims[1] /\ 1 \in 1..Len(victims)
      BY VictimsHeadTail
    <3>. QED
      BY <1>10, <3>1, <3>4, <3>5 DEF ThreadInv, DetectorInv
  <2>. QED
    BY <2>1, <2>2 DEF ThreadInv
<1>14. QueueInv'
  BY <1>1, PlacedQueueInv DEF TypeOK
<1>15. WaitersAreAbortable'
  <2>. SUFFICES ASSUME NEW q \in Resource, NEW c \in Present(q)' \ granted'[q]
                PROVE  WaitersAreAbortable!(q)!(c)'
    BY DEF WaitersAreAbortable
  <2>1. c \in Slot /\ c[1] \in Txn
    BY SlotType DEF Present
  <2>2. CASE q = r /\ c = s
    BY <1>1, <1>2, <1>11, <2>2
  <2>3. CASE q # r \/ c # s
    <3>1. c \in Present(q) \ granted[q] /\ c[1] # t
      BY <1>4, <1>7, <1>8, <2>1, <2>3
    <3>2. WaitersAreAbortable!(q)!(c)
      BY <3>1 DEF WaitersAreAbortable
    <3>. QED
      BY <1>10, <2>1, <3>1, <3>2
  <2>. QED
    BY <2>2, <2>3
<1>16. UpgradeMarkIsLive'
  <2>. SUFFICES ASSUME NEW q \in Resource, upgrading'[q] # NoTxn
                PROVE  \E c \in Present(q)' \ granted'[q] : c[1] = upgrading'[q]
    BY DEF UpgradeMarkIsLive
  <2>1. CASE q = r /\ s \in granted[r]
    BY <1>1, <1>7, <1>8, <1>9, <2>1
  <2>2. CASE q # r \/ s \notin granted[r]
    <3>1. PICK c \in Present(q) \ granted[q] : c[1] = upgrading[q]
      BY <1>9, <2>2 DEF UpgradeMarkIsLive
    <3>2. c \in Slot
      BY DEF Present
    <3>. QED
      BY <1>7, <1>8, <1>9, <2>2, <3>1, <3>2
  <2>. QED
    BY <2>1, <2>2
<1>17. HeldAgreesWithQueues'
  <2>. SUFFICES ASSUME NEW q \in Relation \cup Record, NEW u \in Txn
                PROVE  HeldAgreesWithQueues!(q, u)'
    BY DEF HeldAgreesWithQueues
  <2>1. q \in Resource /\ <<u, Whole>> \in Slot /\ q \notin Index
    BY ResourceAssumption DEF Resource, Slot
  <2>2. HeldAgreesWithQueues!(q, u)
    BY DEF HeldAgreesWithQueues
  <2>3. IsAbortPendingOrDone(u)' <=> IsAbortPendingOrDone(u)
    BY <1>1, <1>10, <1>11 DEF IsAbortPendingOrDone
  <2>4. CASE u = t /\ q = r
    <3>1. s = <<u, Whole>>
      BY <1>1, <2>1, <2>4, SlotType
    <3>. QED
      BY <1>7, <1>8, <1>9, <2>1, <2>2, <2>3, <2>4, <3>1
  <2>5. CASE u # t \/ q # r
    <3>1. q # r \/ <<u, Whole>> # s
      BY <1>1, <2>5
    <3>2. mode'[q][<<u, Whole>>] = mode[q][<<u, Whole>>]
      BY <1>3, <2>1, <3>1
    <3>3. upgrading[q] = u => upgrading'[q] = u
      BY <1>9, <2>1, <2>5
    <3>. QED
      BY <1>7, <1>8, <2>1, <2>2, <2>3, <3>1, <3>2, <3>3
  <2>. QED
    BY <2>4, <2>5
<1>18. NoOvertaking'
  <2>. SUFFICES ASSUME NEW q \in Resource, NEW a \in Slot, NEW b \in Slot,
                       <<a, b>> \in ahead'[q], a[1] # b[1], RangesOverlap(a[2], b[2]),
                       a \notin granted'[q], b \in granted'[q]
                PROVE  upgrading'[q] = a[1]
    BY DEF NoOvertaking
  <2>1. <<a, b>> \in ahead[q] /\ b \in granted[q] /\ a \in Present(q)
    <3>1. b \in granted[q] /\ (q # r \/ b # s)
      BY <1>7
    <3>2. <<a, b>> \in ahead[q]
      BY <1>3, <3>1
    <3>. QED
      BY <3>1, <3>2 DEF QueueInv
  <2>2. CASE q = r /\ a = s
    BY <1>1, <1>9, <2>1, <2>2
  <2>3. CASE q # r \/ a # s
    <3>1. a \notin granted[q] /\ a[1] \in Txn
      BY <1>7, <2>3, SlotType
    <3>2. upgrading[q] = a[1]
      BY <2>1, <3>1 DEF NoOvertaking
    <3>. QED
      BY <1>9, <3>1, <3>2
  <2>. QED
    BY <2>2, <2>3
<1>19. UpgradeIsInFront'
  <2>. SUFFICES ASSUME NEW q \in Resource, NEW a \in Slot, NEW b \in Slot,
                       <<a, b>> \in ahead'[q], a[1] # b[1], RangesOverlap(a[2], b[2]),
                       b \notin granted'[q], upgrading'[q] = b[1]
                PROVE  a \in granted'[q]
    BY DEF UpgradeIsInFront
  <2>1. CASE q = r /\ s \in granted[r]
    <3>1. b[1] = t /\ upgrading[r] = NoTxn
      BY <1>9, <2>1
    <3>2. <<a, b>> \in ahead[r] /\ b \in Present(r) /\ a[1] \in Txn
      BY <1>3, <2>1, SlotType DEF QueueInv
    <3>3. b \in granted[r]
      BY <1>4, <3>1, <3>2
    <3>4. a \in granted[r] /\ a # s
      BY <1>1, <3>1, <3>2, <3>3 DEF NoOvertaking
    <3>. QED
      BY <1>7, <2>1, <3>4
  <2>2. CASE q # r \/ s \notin granted[r]
    <3>1. upgrading[q] = b[1] /\ b[1] # t
      BY <1>5, <1>9, <2>2
    <3>2. <<a, b>> \in ahead[q] /\ b \notin granted[q]
      BY <1>1, <1>3, <1>7, <3>1
    <3>3. a \in granted[q]
      BY <3>1, <3>2 DEF UpgradeIsInFront
    <3>. QED
      BY <1>7, <2>2, <3>3
  <2>. QED
    BY <2>1, <2>2
<1>20. ProtectionCompatible'
  <2>. SUFFICES ASSUME NEW q \in Resource, NEW a \in Slot, NEW b \in Slot,
                       a[1] # b[1], RangesOverlap(a[2], b[2]),
                       ProtectingMode(q, a)' # NoLock, ProtectingMode(q, b)' # NoLock
                PROVE  Compatible(q, ProtectingMode(q, a)', ProtectingMode(q, b)')
    BY DEF ProtectionCompatible, Compatible
  <2>1. ASSUME NEW c \in Slot, ProtectingMode(q, c)' # NoLock
        PROVE  ProtectingMode(q, c)' = ProtectingMode(q, c)
    <3>1. CASE q = r /\ c = s
      <4>1. s \notin granted'[r]
        BY <1>7
      <4>2. s \in Present(r)' /\ upgrading'[r] = t
        BY <1>1, <2>1, <3>1, <4>1 DEF ProtectingMode
      <4>3. s \in granted[r]
        BY <1>5, <1>9, <4>2
      <4>4. CASE r \in Index
        BY <1>1, <3>1, <4>1, <4>2, <4>3, <4>4 DEF ProtectingMode
      <4>5. CASE r \notin Index
        <5>1. r \in Relation \cup Record /\ s = <<t, Whole>>
          BY <1>1, <4>5, SlotType DEF Resource
        <5>2. held[t][r] = mode[r][s]
          BY <4>3, <5>1 DEF HeldAgreesWithQueues
        <5>. QED
          BY <1>1, <3>1, <4>1, <4>2, <4>3, <4>5, <5>2 DEF ProtectingMode
      <4>. QED
        BY <4>4, <4>5
    <3>2. CASE (q # r \/ c # s) /\ c \in granted[q]
      BY <1>3, <1>7, <3>2 DEF ProtectingMode
    <3>3. CASE (q # r \/ c # s) /\ c \notin granted[q]
      <4>1. c \notin granted'[q] /\ c \in Present(q)' /\ upgrading'[q] = c[1]
        BY <1>7, <2>1, <3>3 DEF ProtectingMode
      <4>2. c \in Present(q) /\ c[1] # t
        BY <1>4, <1>8, <3>3, <4>1
      <4>3. upgrading[q] = c[1]
        BY <1>9, <4>1, <4>2
      <4>. QED
        BY <3>3, <4>1, <4>2, <4>3 DEF ProtectingMode
    <3>. QED
      BY <3>1, <3>2, <3>3
  <2>2. ProtectingMode(q, a)' = ProtectingMode(q, a) /\ ProtectingMode(q, b)' = ProtectingMode(q, b)
    BY <2>1
  <2>. QED
    BY <2>2 DEF ProtectionCompatible
<1>21. ReleasedBeforeUnregistering'
  <2>. SUFFICES ASSUME NEW th \in Thread, pc'[th] = "unregistering", NEW q \in Resource
                PROVE  upgrading'[q] # Target(th)' /\ \A c \in Present(q)' : c[1] # Target(th)'
    BY DEF ReleasedBeforeUnregistering
  <2>1. pc[th] = "unregistering" /\ Target(th)' = Target(th)
    BY DEF TypeOK, Thread, Target
  <2>2. upgrading[q] # Target(th) /\ \A c \in Present(q) : c[1] # Target(th)
    BY <2>1 DEF ReleasedBeforeUnregistering
  <2>3. Target(th) # t /\ Target(th) \in Txn
    BY <1>2, <2>1
  <2>4. \A c \in Present(q)' : c \in Slot
    BY DEF Present
  <2>. QED
    BY <1>1, <1>8, <1>9, <2>1, <2>2, <2>3, <2>4
<1>22. NothingLeftBehind'
  <2>. SUFFICES ASSUME NEW u \in Txn, u \notin registered', NEW q \in Resource
                PROVE  upgrading'[q] # u /\ \A c \in Present(q)' : c[1] # u
    BY DEF NothingLeftBehind
  <2>1. u # t /\ upgrading[q] # u /\ \A c \in Present(q) : c[1] # u
    BY <1>2 DEF NothingLeftBehind
  <2>2. \A c \in Present(q)' : c \in Slot
    BY DEF Present
  <2>. QED
    BY <1>1, <1>8, <1>9, <2>1, <2>2
<1>. QED
  BY <1>12, <1>13, <1>14, <1>15, <1>16, <1>17, <1>18, <1>19, <1>20, <1>21, <1>22

-----------------------------------------------------------------------------
(* Lock calls.                                                             *)

\* A lock call that fails (an upgrade refused) without touching the queues
\* preserves the inductive invariant.
LEMMA RefuseInv ==
    ASSUME LockInv, NEW t \in Txn, NEW escalation \in BOOLEAN,
           pc[t] \in {"idle", "escalating"}, ~IsAbortPendingOrDone(t),
           TryMarkAborting(t), ReturnFalse(t, escalation),
           UNCHANGED <<queues, held, registered, asleep, victims, undo>>
    PROVE  LockInv'
<1>0. /\ state[t] \in {"ACTIVE", "WAITING"}
      /\ state' = [state EXCEPT ![t] = "ABORTING"]
      /\ pc' = [pc EXCEPT ![t] = IF escalation THEN "idle" ELSE "failed"]
      /\ wait' = [wait EXCEPT ![t] = NoCall]
  BY DEF LockInv, TypeOK, ThreadInv, ClientInv, IsAbortPendingOrDone, TryMarkAborting, ReturnFalse
<1>. USE <1>0, DetectorIsNoTxn DEF LockInv, queues
<1>1. TypeOK'
  <2>1. state' \in [Txn -> TxnState]
    BY DEF TypeOK, TxnState
  <2>2. pc' \in [Thread -> ClientPc \cup DetectorPc]
    BY DEF TypeOK, ClientPc, DetectorPc, Thread
  <2>3. wait' \in [Txn -> Call]
    BY DEF TypeOK, Call
  <2>. QED
    BY <2>1, <2>2, <2>3 DEF TypeOK
<1>2. ThreadInv'
  <2>1. ClientInv'
    BY DEF TypeOK, ThreadInv, ClientInv, Thread
  <2>2. DetectorInv'
    BY VictimsHeadTail DEF TypeOK, ThreadInv, DetectorInv, Thread
  <2>. QED
    BY <2>1, <2>2 DEF ThreadInv
<1>3. WaitersAreAbortable'
  BY SlotType DEF TypeOK, WaitersAreAbortable, Present, Thread
<1>4. ReleasedBeforeUnregistering'
  <2>1. \A th \in Thread : /\ pc'[th] = "unregistering" => pc[th] = "unregistering"
                          /\ Target(th)' = Target(th)
    BY DEF TypeOK, Thread, Target
  <2>. QED
    BY <2>1 DEF ReleasedBeforeUnregistering, Present
<1>5. NothingLeftBehind'
  BY DEF TypeOK, NothingLeftBehind, Present
<1>6. \A u \in Txn : IsAbortPendingOrDone(u) => IsAbortPendingOrDone(u)'
  BY DEF TypeOK, IsAbortPendingOrDone
<1>. QED
  BY <1>1, <1>2, <1>3, <1>4, <1>5, <1>6, QueuesUnchanged

\* The first pass of any lock call preserves the inductive invariant, if the
\* mode asked for differs from the one already granted.
LEMMA RequestInv ==
    ASSUME LockInv, NEW t \in Txn, NEW r \in Resource, NEW range \in KeyRange \cup {Whole},
           NEW target \in LockMode, NEW escalation \in BOOLEAN,
           pc[t] \in {"idle", "escalating"}, ~IsAbortPendingOrDone(t),
           r \notin Index => range = Whole,
           r \notin Relation => target \in {"S", "X"},
           <<t, range>> \in granted[r] => mode[r][<<t, range>>] # target,
           <<t, range>> \in granted[r] /\ r \in Index => mode[r][<<t, range>>] = "S",
           Request(t, r, range, target, escalation)
    PROVE  LockInv'
<1>. DEFINE s == <<t, range>>
            upgrade == s \in granted[r] /\ mode[r][s] # target
<1>1. s \in Slot /\ s[1] = t /\ s[2] = range
  BY DEF Slot
<1>2. InLockCall(t, r, s)
  BY <1>1 DEF InLockCall, LockInv, WaitersAreAbortable
<1>3. CASE /\ upgrade /\ upgrading[r] \notin {NoTxn, t}
           /\ TryMarkAborting(t) /\ ReturnFalse(t, escalation)
           /\ UNCHANGED <<queues, held, registered, asleep, victims, undo>>
  BY <1>3, RefuseInv
<1>4. CASE /\ ~(upgrade /\ upgrading[r] \notin {NoTxn, t})
           /\ mode' = [mode EXCEPT ![r][s] = target]
           /\ ahead' = [ahead EXCEPT ![r] =
                          IF s \in Present(r) THEN @
                          ELSE @ \cup {<<b, s>> : b \in {x \in Present(r) : x[1] # t}}]
  <2>1. Placed(r, s, target)
    BY <1>1, <1>4 DEF Placed
  <2>2. s \in granted[r] => upgrading[r] \in {NoTxn, t}
    BY <1>4
  <2>3. CASE CanGrantRequest(r, s, target) /\ Grant(t, r, s, target)
    <3>. HIDE DEF s
    <3>. QED
      BY <1>1, <1>2, <2>1, <2>2, <2>3, GrantInv
  <2>4. CASE /\ granted' = [granted EXCEPT ![r] = IF upgrade THEN @ \ {s} ELSE @]
             /\ upgrading' = [upgrading EXCEPT ![r] = IF upgrade THEN t ELSE @]
             /\ SetUnlessEnded(t, "WAITING")
             /\ pc' = [pc EXCEPT ![t] = "waiting"]
             /\ wait' = [wait EXCEPT ![t] =
                            [resource |-> r, range |-> range, escalation |-> escalation]]
             /\ asleep' = asleep \cup {t}
             /\ UNCHANGED <<held, registered, victims, undo>>
    <3>1. upgrade <=> s \in granted[r]
      OBVIOUS
    <3>2. granted' = [granted EXCEPT ![r] = granted[r] \ {s}]
      BY <2>4, <3>1 DEF LockInv, TypeOK
    <3>3. upgrading' = [upgrading EXCEPT ![r] = IF s \in granted[r] THEN t ELSE upgrading[r]]
      BY <2>4, <3>1
    <3>4. wait' = [wait EXCEPT ![t] = [resource |-> r, range |-> s[2], escalation |-> escalation]]
      BY <1>1, <2>4
    <3>5. s \in granted[r] /\ r \in Index => mode[r][s] = "S"
      OBVIOUS
    <3>6. pc[t] # "waiting"
      OBVIOUS
    <3>. HIDE DEF s
    <3>. QED
      BY <1>1, <1>2, <2>1, <2>2, <2>4, <3>2, <3>3, <3>4, <3>5, <3>6, SleepInv
  <2>. QED
    BY <1>4, <2>3, <2>4 DEF Request
<1>. QED
  BY <1>3, <1>4 DEF Request

\* LockTable, whoever calls it, preserves the inductive invariant.
LEMMA RequestTableInv ==
    ASSUME LockInv, NEW t \in Txn, NEW rel \in Relation, NEW m \in LockMode,
           NEW escalation \in BOOLEAN,
           pc[t] \in {"idle", "escalating"}, ~IsAbortPendingOrDone(t),
           RequestTable(t, rel, m, escalation)
    PROVE  LockInv'
<1>. DEFINE target == IF held[t][rel] = NoLock THEN m ELSE CombineTableModes(held[t][rel], m)
<1>1. target # held[t][rel] /\ Request(t, rel, Whole, target, escalation)
  BY DEF RequestTable
<1>2. held[t][rel] \in Mode
  BY DEF LockInv, TypeOK
<1>3. target \in LockMode
  BY <1>2, CombineTableModesType DEF Mode
<1>4. rel \in Resource /\ rel \notin Index
  BY ResourceAssumption DEF Resource
<1>5. <<t, Whole>> \in granted[rel] => mode[rel][<<t, Whole>>] = held[t][rel]
  BY DEF LockInv, HeldAgreesWithQueues
<1>. HIDE DEF target
<1>. QED
  BY <1>1, <1>3, <1>4, <1>5, RequestInv

\* LockTable preserves the inductive invariant.
LEMMA LockTableInv ==
    ASSUME LockInv, NEW t \in Txn, NEW rel \in Relation, NEW m \in TableModes, LockTable(t, rel, m)
    PROVE  LockInv'
BY ModeAssumption, RequestTableInv DEF LockTable, LockMode

\* The escalation of record locks preserves the inductive invariant.
LEMMA MaybeEscalateRecordLocksInv ==
    ASSUME LockInv, NEW t \in Txn, MaybeEscalateRecordLocks(t)
    PROVE  LockInv'
<1>1. /\ pc[t] = "escalating" /\ state[t] = "ACTIVE" /\ wait[t].resource \in Record
      /\ held[t][wait[t].resource] \in {"S", "X"}
  BY DEF MaybeEscalateRecordLocks, LockInv, ThreadInv, ClientInv
<1>2. RelationOf[wait[t].resource] \in Relation
  BY <1>1, ResourceAssumption
<1>3. ~IsAbortPendingOrDone(t) /\ held[t][wait[t].resource] \in LockMode
  BY <1>1 DEF IsAbortPendingOrDone, LockMode
<1>. QED
  BY <1>1, <1>2, <1>3, RequestTableInv DEF MaybeEscalateRecordLocks

\* LockRecord preserves the inductive invariant.
LEMMA LockRecordInv ==
    ASSUME LockInv, NEW t \in Txn, NEW rid \in Record, NEW m \in {"S", "X"}, LockRecord(t, rid, m)
    PROVE  LockInv'
<1>. DEFINE target == IF held[t][rid] = NoLock THEN m ELSE CombineTupleOrRangeModes(held[t][rid], m)
<1>1. target # held[t][rid] /\ Request(t, rid, Whole, target, FALSE)
      /\ pc[t] = "idle" /\ ~IsAbortPendingOrDone(t)
  BY DEF LockRecord
<1>2. target \in {"S", "X"} /\ target \in LockMode
  BY DEF CombineTupleOrRangeModes, LockMode
<1>3. rid \in Resource /\ rid \notin Index
  BY ResourceAssumption DEF Resource
<1>4. <<t, Whole>> \in granted[rid] => mode[rid][<<t, Whole>>] = held[t][rid]
  BY DEF LockInv, HeldAgreesWithQueues
<1>. HIDE DEF target
<1>. QED
  BY <1>1, <1>2, <1>3, <1>4, RequestInv

\* LockKeyRange preserves the inductive invariant.
LEMMA LockKeyRangeInv ==
    ASSUME LockInv, NEW t \in Txn, NEW idx \in Index, NEW range \in KeyRange, NEW m \in {"S", "X"},
           LockKeyRange(t, idx, range, m)
    PROVE  LockInv'
<1>. DEFINE s == <<t, range>>
            current == mode[idx][s]
            target == IF current = NoLock THEN m ELSE CombineTupleOrRangeModes(current, m)
<1>1. /\ pc[t] = "idle" /\ ~IsAbortPendingOrDone(t)
      /\ ~(s \in granted[idx] /\ target = current)
      /\ Request(t, idx, range, target, FALSE)
  BY DEF LockKeyRange
<1>2. target \in {"S", "X"} /\ target \in LockMode
  BY DEF CombineTupleOrRangeModes, LockMode
<1>3. idx \in Resource /\ idx \notin Relation /\ s \in Slot
  BY ResourceAssumption DEF Resource, Slot
<1>4. s \in granted[idx] => current \in {"S", "X"}
  BY <1>3 DEF LockInv, QueueInv
<1>5. s \in granted[idx] => current # target /\ current = "S"
  BY <1>1, <1>4 DEF CombineTupleOrRangeModes, NoLock
<1>. HIDE DEF target
<1>. QED
  BY <1>1, <1>2, <1>3, <1>5, RequestInv

\* A pass through the wait loop preserves the inductive invariant.
LEMMA ResumeInv ==
    ASSUME LockInv, NEW t \in Txn, Resume(t)
    PROVE  LockInv'
<1>. DEFINE r == wait[t].resource
            s == <<t, wait[t].range>>
            lost == IsAbortPendingOrDone(t) \/ s \notin Present(r)
<1>. USE DetectorIsNoTxn
<1>1. /\ r \in Resource /\ s \in Slot /\ s[1] = t /\ pc[t] = "waiting" /\ s \notin granted[r]
      /\ state[t] \in {"ACTIVE", "WAITING", "ABORTING", "ABORTED"}
      /\ s[2] = wait[t].range
  <2>1. pc[t] = "waiting"
    BY DEF Resume
  <2>2. r \in Resource /\ s \notin granted[r]
        /\ state[t] \in {"ACTIVE", "WAITING", "ABORTING", "ABORTED"}
    BY <2>1 DEF LockInv, ThreadInv, ClientInv
  <2>3. s \in Slot
    BY DEF LockInv, TypeOK, Call, NoCall, Slot
  <2>. QED
    BY <2>1, <2>2, <2>3
<1>2. \A q \in Resource : \A c \in Present(q) \ granted[q] :
            c[1] = t => q = r /\ c = s /\ state[t] = "WAITING"
  <2>1. \A q \in Resource : \A c \in Present(q) : c \in Slot
    BY DEF Present
  <2>. QED
    BY <2>1, SlotType DEF LockInv, WaitersAreAbortable
<1>3. ASSUME lost, Erase(r, {s}),
             upgrading' = [upgrading EXCEPT ![r] = IF s \in Present(r) /\ @ = t THEN NoTxn ELSE @],
             asleep' \subseteq asleep, ReturnFalse(t, wait[t].escalation),
             UNCHANGED <<txns, victims, undo>>
      PROVE  LockInv'
  <2>1. \A q \in Resource : \A c \in Present(q) \ granted[q] : c[1] # t
    BY <1>1, <1>2, <1>3 DEF IsAbortPendingOrDone
  <2>2. \A q \in Resource : upgrading[q] # t
    BY <2>1 DEF LockInv, UpgradeMarkIsLive
  <2>3. upgrading' = upgrading
    BY <1>1, <1>3, <2>2 DEF LockInv, TypeOK
  <2>4. s \notin Present(r)
    BY <1>1, <2>1
  <2>5. mode' = mode /\ granted' = granted /\ ahead' = ahead
    <3>1. \A c \in Slot : c = s => mode[r][c] = NoLock
      BY <1>1, <2>4 DEF Present
    <3>2. mode' = mode
      BY <1>1, <1>3, <3>1 DEF Erase, LockInv, TypeOK
    <3>3. granted' = granted
      <4>1. granted[r] \ {s} = granted[r]
        BY <1>1
      <4>. QED
        BY <1>1, <1>3, <4>1 DEF Erase, LockInv, TypeOK
    <3>4. \A p \in ahead[r] : p[1] # s /\ p[2] # s
      <4>1. ahead[r] \subseteq Slot \X Slot
        BY <1>1 DEF LockInv, TypeOK
      <4>2. ASSUME NEW p \in ahead[r]
            PROVE  p[1] \in Present(r) /\ p[2] \in Present(r)
        <5>1. p[1] \in Slot /\ p[2] \in Slot /\ <<p[1], p[2]>> \in ahead[r]
          BY <4>1
        <5>. QED
          BY <1>1, <5>1 DEF LockInv, QueueInv
      <4>. QED
        BY <2>4, <4>2
    <3>5. ahead' = ahead
      <4>1. {p \in ahead[r] : p[1] \notin {s} /\ p[2] \notin {s}} = ahead[r]
        BY <3>4
      <4>. QED
        BY <1>1, <1>3, <4>1 DEF Erase, LockInv, TypeOK
    <3>. QED
      BY <3>2, <3>3, <3>5
  <2>. USE <1>1, <1>3, <2>3, <2>5 DEF LockInv, ReturnFalse, queues, txns
  <2>6. TypeOK'
    <3>1. pc' \in [Thread -> ClientPc \cup DetectorPc]
      BY DEF TypeOK, ClientPc, DetectorPc, Thread
    <3>2. wait' \in [Txn -> Call]
      BY DEF TypeOK, Call
    <3>. QED
      BY <3>1, <3>2 DEF TypeOK
  <2>7. ThreadInv'
    <3>1. ClientInv'
      BY DEF TypeOK, ThreadInv, ClientInv, Thread
    <3>2. DetectorInv'
      BY DEF TypeOK, ThreadInv, DetectorInv, Thread
    <3>. QED
      BY <3>1, <3>2 DEF ThreadInv
  <2>8. WaitersAreAbortable'
    BY <2>1, SlotType DEF TypeOK, WaitersAreAbortable, Present, Thread
  <2>9. ReleasedBeforeUnregistering'
    <3>1. \A th \in Thread : /\ pc'[th] = "unregistering" => pc[th] = "unregistering"
                            /\ Target(th)' = Target(th)
      BY DEF TypeOK, Thread, Target
    <3>. QED
      BY <3>1 DEF ReleasedBeforeUnregistering, Present
  <2>10. NothingLeftBehind'
    BY DEF NothingLeftBehind, Present
  <2>11. \A u \in Txn : IsAbortPendingOrDone(u) => IsAbortPendingOrDone(u)'
    BY DEF IsAbortPendingOrDone
  <2>. QED
    BY <2>6, <2>7, <2>8, <2>9, <2>10, <2>11, QueuesUnchanged
<1>4. ASSUME ~lost, CanGrantRequest(r, s, mode[r][s]), Grant(t, r, s, mode[r][s]),
             UNCHANGED <<mode, ahead>>
      PROVE  LockInv'
  <2>1. mode[r][s] \in LockMode
    BY <1>1, <1>4 DEF LockInv, TypeOK, Present, Mode
  <2>2. Placed(r, s, mode[r][s])
    BY <1>1, <1>4, ZenonT(60) DEF Placed, LockInv, TypeOK
  <2>3. r \notin Index => s[2] = Whole
    BY <1>1, <1>4 DEF LockInv, QueueInv
  <2>4. r \notin Relation => mode[r][s] \in {"S", "X"}
    BY <1>1, <1>4 DEF LockInv, QueueInv
  <2>5. InLockCall(t, r, s)
    BY <1>1, <1>2, <1>4, <2>3 DEF InLockCall
  <2>. HIDE DEF r, s
  <2>. QED
    BY <1>1, <1>4, <2>1, <2>2, <2>4, <2>5, GrantInv
<1>5. ASSUME ~lost, asleep' = asleep \cup {t}, SetUnlessEnded(t, "WAITING"),
             UNCHANGED <<queues, held, registered, pc, wait, victims, undo>>
      PROVE  LockInv'
  <2>1. state' = state
    BY <1>1, <1>2, <1>5 DEF SetUnlessEnded, LockInv, TypeOK
  <2>. USE <1>5, <2>1 DEF LockInv, queues
  <2>2. TypeOK' /\ ThreadInv'
    <3>1. TypeOK'
      BY DEF TypeOK
    <3>2. ClientInv' /\ DetectorInv'
      BY DEF ThreadInv, ClientInv, DetectorInv
    <3>. QED
      BY <3>1, <3>2 DEF ThreadInv
  <2>3. WaitersAreAbortable' /\ ReleasedBeforeUnregistering' /\ NothingLeftBehind'
    BY DEF WaitersAreAbortable, ReleasedBeforeUnregistering, NothingLeftBehind, Present, Target
  <2>4. \A u \in Txn : IsAbortPendingOrDone(u) => IsAbortPendingOrDone(u)'
    BY DEF IsAbortPendingOrDone
  <2>. QED
    BY <2>2, <2>3, <2>4, QueuesUnchanged
<1>. QED
  BY <1>3, <1>4, <1>5 DEF Resume

-----------------------------------------------------------------------------
(* The theorems.                                                           *)

\* Every step of the system preserves the inductive invariant.
THEOREM NextLockInv == LockInv /\ [Next]_vars => LockInv'
<1>. SUFFICES ASSUME LockInv, [Next]_vars PROVE LockInv'
  OBVIOUS
<1>1. CASE UNCHANGED vars
  <2>. USE <1>1 DEF vars, queues, txns, threads, LockInv
  <2>1. TypeOK'
    BY DEF TypeOK
  <2>2. ThreadInv' /\ WaitersAreAbortable'
    BY DEF ThreadInv, ClientInv, DetectorInv, WaitersAreAbortable, Present
  <2>3. ReleasedBeforeUnregistering' /\ NothingLeftBehind'
    BY DEF ReleasedBeforeUnregistering, NothingLeftBehind, Present, Target
  <2>4. \A u \in Txn : IsAbortPendingOrDone(u) => IsAbortPendingOrDone(u)'
    BY DEF IsAbortPendingOrDone
  <2>. QED
    BY <2>1, <2>2, <2>3, <2>4, QueuesUnchanged
<1>2. ASSUME NEW th \in Thread, ThreadStep(th) PROVE LockInv'
  BY <1>2, FinishRollbackInv, ReleaseAllInv, UnregisterTransactionInv DEF ThreadStep
<1>3. ASSUME NEW t \in Txn, ClientCall(t) PROVE LockInv'
  BY <1>3, BeginInv, LockTableInv, LockRecordInv, LockKeyRangeInv, LockCallRejectedInv,
     CommitInv, AbortInv DEF ClientCall
<1>4. ASSUME NEW t \in Txn, ClientStep(t) PROVE LockInv'
  <2>1. t \in Thread
    BY DEF Thread
  <2>. QED
    BY <1>2, <1>4, <2>1, MaybeEscalateRecordLocksInv, ResumeInv, WaitUntilAbortCompletesInv
       DEF ClientStep
<1>5. CASE DetectorStep
  <2>1. Detector \in Thread
    BY DEF Thread
  <2>. QED
    BY <1>2, <1>5, <2>1, DetectVictimInv, ScanCompleteInv, AbortCallbackInv DEF DetectorStep
<1>. QED
  BY <1>1, <1>3, <1>4, <1>5, SpuriousWakeupInv DEF Next

\* The inductive invariant holds in every reachable state.
THEOREM LockInvariant == Spec => []LockInv
<1>. QED
  BY InitLockInv, NextLockInv, PTL DEF Spec

\* Every variable of the lock manager keeps its type.
THEOREM TypeCorrect == Spec => []TypeOK
<1>1. LockInv => TypeOK
  BY DEF LockInv
<1>. QED
  BY <1>1, LockInvariant, PTL

\* The table and record locks of live transactions never conflict, upgrades in
\* place included, for any number of transactions and resources.
THEOREM LocksCompatible == Spec => []HeldLocksCompatible
<1>1. LockInv => HeldLocksCompatible
  <2>. SUFFICES ASSUME LockInv, NEW r \in Relation \cup Record, NEW t \in Txn, NEW u \in Txn,
                       t # u, held[t][r] # NoLock, held[u][r] # NoLock,
                       ~IsAbortPendingOrDone(t), ~IsAbortPendingOrDone(u)
                PROVE  Compatible(r, held[t][r], held[u][r])
    BY DEF HeldLocksCompatible
  <2>1. r \in Resource /\ r \notin Index
    BY ResourceAssumption DEF Resource
  <2>2. ASSUME NEW v \in Txn, held[v][r] # NoLock, ~IsAbortPendingOrDone(v)
        PROVE  ProtectingMode(r, <<v, Whole>>) = held[v][r] /\ <<v, Whole>> \in Slot
    <3>1. /\ <<v, Whole>> \in granted[r] => held[v][r] = mode[r][<<v, Whole>>]
          /\ <<v, Whole>> \in Present(r)
          /\ <<v, Whole>> \in granted[r] \/ upgrading[r] = v
      BY <2>2 DEF LockInv, HeldAgreesWithQueues
    <3>. QED
      BY <2>1, <3>1 DEF ProtectingMode, Slot
  <2>3. RangesOverlap(Whole, Whole)
    BY DEF RangesOverlap, RangeEndsBefore, Whole
  <2>4. /\ ProtectingMode(r, <<t, Whole>>) = held[t][r] /\ <<t, Whole>> \in Slot
        /\ ProtectingMode(r, <<u, Whole>>) = held[u][r] /\ <<u, Whole>> \in Slot
    BY <2>2
  <2>5. <<t, Whole>>[1] # <<u, Whole>>[1] /\ <<t, Whole>>[2] = Whole /\ <<u, Whole>>[2] = Whole
    OBVIOUS
  <2>. QED
    BY <2>1, <2>3, <2>4, <2>5 DEF LockInv, ProtectionCompatible
<1>. QED
  BY <1>1, LockInvariant, PTL

\* No index key is ever covered by conflicting range locks of two transactions,
\* whatever the bounds of the ranges.
THEOREM KeysProtected == Spec => []KeyLocksCompatible
<1>1. LockInv => KeyLocksCompatible
  <2>. SUFFICES ASSUME LockInv, NEW idx \in Index, NEW k \in Key, NEW a \in Slot, NEW b \in Slot,
                       a[1] # b[1], Contains(a[2], k), Contains(b[2], k),
                       ProtectingMode(idx, a) # NoLock, ProtectingMode(idx, b) # NoLock
                PROVE  ProtectingMode(idx, a) = "S" /\ ProtectingMode(idx, b) = "S"
    BY DEF KeyLocksCompatible
  <2>1. idx \in Resource /\ idx \notin Relation
    BY ResourceAssumption DEF Resource
  <2>2. Whole \in Range
    BY DEF Whole, Range, Bound
  <2>3. a[2] \in Range /\ b[2] \in Range /\ k \in Nat
    BY <2>2, SlotType, KeyRangeAssumption
  <2>4. RangesOverlap(a[2], b[2])
    BY <2>3, SharedKeyOverlap
  <2>5. Compatible(idx, ProtectingMode(idx, a), ProtectingMode(idx, b))
    BY <2>1, <2>4 DEF LockInv, ProtectionCompatible
  <2>. QED
    BY <2>1, <2>5 DEF Compatible
<1>. QED
  BY <1>1, LockInvariant, PTL

\* Requests are granted first come, first served, upgrades in place excepted.
THEOREM NeverOvertaken == Spec => []NoOvertaking
<1>1. LockInv => NoOvertaking
  BY DEF LockInv
<1>. QED
  BY <1>1, LockInvariant, PTL

\* The detector can abort whoever waits, so it never spins on a cycle.
THEOREM VictimsCanBeAborted == Spec => []WaitersAreAbortable
<1>1. LockInv => WaitersAreAbortable
  BY DEF LockInv
<1>. QED
  BY <1>1, LockInvariant, PTL

\* An upgrade mark never outlives its upgrade.
THEOREM NoStaleUpgradeMark == Spec => []UpgradeMarkIsLive
<1>1. LockInv => UpgradeMarkIsLive
  BY DEF LockInv
<1>. QED
  BY <1>1, LockInvariant, PTL

\* A transaction that has ended leaves nothing in the queues.
THEOREM QueuesAreCleaned == Spec => []NothingLeftBehind
<1>1. LockInv => NothingLeftBehind
  BY DEF LockInv
<1>. QED
  BY <1>1, LockInvariant, PTL
=============================================================================
