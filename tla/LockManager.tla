---------------------------- MODULE LockManager ----------------------------
(***************************************************************************)
(* The lock manager (src/concurrency/lock_manager*.cpp) together with the  *)
(* part of the transaction manager that drives it (Begin, Commit, Abort)   *)
(* and the background deadlock detector.                                   *)
(*                                                                         *)
(* Threads: one client thread per transaction, and the detector thread.    *)
(* Everything the code does while it holds LockManager::latch_ is one      *)
(* step; the latch is given up only in cv.wait and on return.  The         *)
(* detector may hold it over several steps ("scanning"), so every other    *)
(* latched step has the guard LatchFree.                                   *)
(*                                                                         *)
(* The three lock tables are one function of resources.  A request is      *)
(* named by its slot <<txn, range>>; table and record requests use the     *)
(* unbounded range Whole, which overlaps everything, so that a transaction *)
(* has at most one request in such a queue (FindRequest) and one per       *)
(* distinct range in a key-range queue (FindKeyRangeRequest).  The         *)
(* std::list of a queue is a set of present slots and the relation         *)
(* "ahead": push_back puts every present slot ahead of the new one, erase  *)
(* removes a slot from both.  Every loop over a queue skips the requests   *)
(* of the transaction it works for, so "ahead" keeps the order between     *)
(* requests of different transactions only.                                *)
(***************************************************************************)
EXTENDS Integers, FiniteSets, Sequences

CONSTANTS
    Txn,            \* transaction ids (positive; 0 stands for the detector)
    Relation,       \* relations that are locked as tables
    Record,         \* record ids
    Index,          \* index relations, locked by key range
    RelationOf,     \* the relation of each record
    Key,            \* index keys
    KeyRange,       \* the key ranges clients lock
    TableModes,     \* the modes clients ask for in LockTable
    EscalationThreshold,    \* record_lock_escalation_threshold_, 0 = off
    CommitsAfterFailure     \* may a client call Commit after a lock call failed?

\* An absent bound of a range (std::nullopt); keys are naturals.
Unbounded == -1

Bound == Nat \cup {Unbounded}

Range == [lower : Bound, upper : Bound, lower_inclusive : BOOLEAN, upper_inclusive : BOOLEAN]

\* The range of table and record requests: it overlaps every range.
Whole == [lower |-> Unbounded, upper |-> Unbounded,
          lower_inclusive |-> TRUE, upper_inclusive |-> TRUE]

ASSUME TxnAssumption == Txn \subseteq Nat \ {0}

ASSUME ResourceAssumption ==
    /\ Relation \cap Record = {} /\ Relation \cap Index = {} /\ Record \cap Index = {}
    /\ RelationOf \in [Record -> Relation]

ASSUME KeyRangeAssumption == Key \subseteq Nat /\ KeyRange \subseteq Range

ASSUME ModeAssumption == TableModes \subseteq {"IS", "IX", "S", "SIX", "X"}

ASSUME PolicyAssumption == EscalationThreshold \in Nat /\ CommitsAfterFailure \in BOOLEAN

\* Both the detector thread and "no transaction" (an empty optional).
NoTxn == 0
Detector == 0

Thread == Txn \cup {Detector}
Resource == Relation \cup Record \cup Index
Slot == Txn \X (KeyRange \cup {Whole})

LockMode == {"IS", "IX", "S", "SIX", "X"}
NoLock == "none"
Mode == LockMode \cup {NoLock}

VARIABLES
    state,      \* TransactionState of each transaction, "UNBORN" before Begin
    held,       \* the transaction's own table_locks_ and record_locks_
    mode,       \* mode[r][s]: mode of request s in r's queue, NoLock = not in the list
    granted,    \* the granted requests of each queue
    ahead,      \* ahead[r]: pairs <<a, b>> of two transactions, a before b in the list
    upgrading,  \* upgrading_txn of each queue
    registered, \* txn_table_ of the lock manager
    pc,         \* where each thread is
    wait,       \* the lock call a client thread is in
    asleep,     \* client threads blocked in cv.wait
    victims,    \* the detector's local list of victims
    undo        \* per thread: what the rollback it is running will restore

queues == <<mode, granted, ahead, upgrading>>
txns == <<state, held, registered>>
threads == <<pc, wait, asleep, victims, undo>>
vars == <<queues, txns, threads>>

TxnState == {"UNBORN", "ACTIVE", "WAITING", "ABORTING", "COMMITTED", "ABORTED"}

NoCall == [resource |-> NoLock, range |-> Whole, escalation |-> FALSE]

Call == [resource : Resource, range : KeyRange \cup {Whole}, escalation : BOOLEAN] \cup {NoCall}

ClientPc == {"unborn", "idle", "waiting", "escalating", "failed", "waitAbort",
             "rollback", "releasing", "unregistering", "done"}

DetectorPc == {"sleeping", "scanning", "callback", "rollback", "releasing", "unregistering"}

Init ==
    /\ state = [t \in Txn |-> "UNBORN"]
    /\ held = [t \in Txn |-> [r \in Relation \cup Record |-> NoLock]]
    /\ mode = [r \in Resource |-> [s \in Slot |-> NoLock]]
    /\ granted = [r \in Resource |-> {}]
    /\ ahead = [r \in Resource |-> {}]
    /\ upgrading = [r \in Resource |-> NoTxn]
    /\ registered = {}
    /\ pc = [th \in Thread |-> IF th = Detector THEN "sleeping" ELSE "unborn"]
    /\ wait = [t \in Txn |-> NoCall]
    /\ asleep = {}
    /\ victims = <<>>
    /\ undo = [th \in Thread |-> {}]

-----------------------------------------------------------------------------
(* Lock modes (lock_manager_helpers.cpp, lock_manager_common.cpp).         *)

CombineTableModes(current, requested) ==
    LET both == {current, requested} IN
    IF "X" \in both THEN "X"
    ELSE IF "SIX" \in both \/ both = {"S", "IX"} THEN "SIX"
    ELSE IF "S" \in both THEN "S"
    ELSE IF "IX" \in both THEN "IX"
    ELSE "IS"

CombineTupleOrRangeModes(current, requested) ==
    IF "X" \in {current, requested} THEN "X" ELSE "S"

\* The modes that one transaction may hold while another is granted "requested".
CompatibleTableModes(requested) ==
    IF requested = "IS" THEN {"IS", "IX", "S", "SIX"}
    ELSE IF requested = "IX" THEN {"IS", "IX"}
    ELSE IF requested = "S" THEN {"IS", "S"}
    ELSE IF requested = "SIX" THEN {"IS"}
    ELSE {}

Compatible(r, requested, holds) ==
    IF r \in Relation THEN holds \in CompatibleTableModes(requested)
                      ELSE requested = "S" /\ holds = "S"

\* Fault variant of RangeEndsBefore: the inclusiveness of touching bounds is ignored.
RangeEndsAtOrBefore(a, b) ==
    a.upper # Unbounded /\ b.lower # Unbounded /\ a.upper <= b.lower

RangeEndsBefore(a, b) ==
    /\ a.upper # Unbounded /\ b.lower # Unbounded
    /\ \/ a.upper < b.lower
       \/ a.upper = b.lower /\ ~(a.upper_inclusive /\ b.lower_inclusive)

RangesOverlap(a, b) == ~RangeEndsBefore(a, b) /\ ~RangeEndsBefore(b, a)

-----------------------------------------------------------------------------
(* Transactions (transaction.h).                                           *)

IsAbortPendingOrDone(t) == state[t] \in {"ABORTING", "ABORTED"}

HoldsTableS(t, r) == held[t][r] \in {"S", "SIX", "X"}

HoldsTableIX(t, r) == held[t][r] \in {"IX", "SIX", "X"}

\* Counted once the lock on rid has been entered.
CountRecordLocksOnRelation(t, rid) ==
    Cardinality({q \in Record : /\ RelationOf[q] = RelationOf[rid]
                                /\ q = rid \/ held[t][q] # NoLock})

\* SetActiveIfNotAborting and SetWaitingIfNotAborting.
SetUnlessEnded(t, s) ==
    state' = [state EXCEPT ![t] = IF @ \in {"ACTIVE", "WAITING"} THEN s ELSE @]

TryMarkAborting(t) ==
    state' = [state EXCEPT ![t] = IF @ \in {"COMMITTED", "ABORTED"} THEN @ ELSE "ABORTING"]

-----------------------------------------------------------------------------
(* Queues.                                                                 *)

LatchFree == pc[Detector] # "scanning"

Present(r) == {s \in Slot : mode[r][s] # NoLock}

\* Request b of another transaction keeps request s, wanting mode m, from
\* being granted: b overlaps and is incompatible, or is itself waiting in
\* front of s.  A request that is not in the list yet goes to its end.
Blocks(r, s, m, b) ==
    /\ b \in Present(r) /\ b[1] # s[1]
    /\ RangesOverlap(b[2], s[2])
    /\ IF <<s, b>> \in ahead[r]
       THEN b \in granted[r] /\ ~Compatible(r, m, mode[r][b])
       ELSE b \in granted[r] => ~Compatible(r, m, mode[r][b])

\* Fault variants of CanGrantRequest: the loop stops at the request itself, so
\* that an upgrade misses who stands behind it; the loop skips waiting requests.
CanGrantStopsAtSelf(r, s, m) ==
    \A b \in Slot : Blocks(r, s, m, b) => <<s, b>> \in ahead[r]

CanGrantSkipsWaiting(r, s, m) == \A b \in granted[r] : ~Blocks(r, s, m, b)

CanGrantRequest(r, s, m) == \A b \in Slot : ~Blocks(r, s, m, b)

\* std::list::erase of a set of slots from a queue.
Erase(r, gone) ==
    /\ mode' = [mode EXCEPT ![r] = [s \in Slot |-> IF s \in gone THEN NoLock ELSE @[s]]]
    /\ granted' = [granted EXCEPT ![r] = @ \ gone]
    /\ ahead' = [ahead EXCEPT ![r] = {p \in @ : p[1] \notin gone /\ p[2] \notin gone}]

\* Erase t's requests, only the waiting ones or all of them, from every queue.
EraseRequests(t, onlyUngranted) ==
    LET Gone(r) == {s \in Slot : s[1] = t /\ (onlyUngranted => s \notin granted[r])} IN
    /\ mode' = [r \in Resource |-> [s \in Slot |-> IF s \in Gone(r) THEN NoLock ELSE mode[r][s]]]
    /\ granted' = [r \in Resource |-> granted[r] \ Gone(r)]
    /\ ahead' = [r \in Resource |->
                    {p \in ahead[r] : p[1] \notin Gone(r) /\ p[2] \notin Gone(r)}]

\* The sweep over all three lock tables in RemoveUngrantedRequestsLocked and
\* ReleaseAll: erase t's requests, clear its upgrade marks and notify every
\* condition variable.
Sweep(t, onlyUngranted) ==
    /\ EraseRequests(t, onlyUngranted)
    /\ upgrading' = [r \in Resource |-> IF upgrading[r] = t THEN NoTxn ELSE upgrading[r]]
    /\ asleep' = {}

-----------------------------------------------------------------------------
(* Lock acquisition (lock_manager_acquire.cpp).                            *)

\* A lock call that fails returns false to the client, except inside
\* MaybeEscalateRecordLocks, which discards the result.
ReturnFalse(t, escalation) ==
    /\ pc' = [pc EXCEPT ![t] = IF escalation THEN "idle" ELSE "failed"]
    /\ wait' = [wait EXCEPT ![t] = NoCall]

\* MaybeEscalateRecordLocks goes on to LockTable for a record lock in mode m.
Escalates(t, rid, m) ==
    /\ EscalationThreshold # 0
    /\ CountRecordLocksOnRelation(t, rid) >= EscalationThreshold
    /\ IF m = "S" THEN ~HoldsTableS(t, RelationOf[rid]) ELSE held[t][RelationOf[rid]] # "X"

\* The grant branch of the wait loop: the upgrade mark goes, the lock is
\* entered in the transaction's own table (table and record locks only).  No
\* condition variable is notified.
Grant(t, r, s, m) ==
    /\ granted' = [granted EXCEPT ![r] = @ \cup {s}]
    /\ upgrading' = [upgrading EXCEPT ![r] = IF @ = t THEN NoTxn ELSE @]
    /\ SetUnlessEnded(t, "ACTIVE")
    /\ held' = IF r \in Index THEN held ELSE [held EXCEPT ![t][r] = m]
    /\ LET escalates == r \in Record /\ Escalates(t, r, m) IN
       /\ pc' = [pc EXCEPT ![t] = IF escalates THEN "escalating" ELSE "idle"]
       /\ wait' = [wait EXCEPT ![t] =
                      IF escalates
                      THEN [resource |-> r, range |-> Whole, escalation |-> FALSE] ELSE NoCall]
    /\ UNCHANGED <<registered, asleep, victims, undo>>

\* The first pass through a lock call, made under one hold of the latch: the
\* request is appended, or the granted one becomes an upgrade in place, and
\* is granted at once or put to sleep.
Request(t, r, range, target, escalation) ==
    LET s == <<t, range>>
        upgrade == s \in granted[r] /\ mode[r][s] # target
    IN
    /\ LatchFree
    /\ \/ \* another transaction is upgrading in this queue: give up
          /\ upgrade /\ upgrading[r] \notin {NoTxn, t}
          /\ TryMarkAborting(t)
          /\ ReturnFalse(t, escalation)
          /\ UNCHANGED <<queues, held, registered, asleep, victims, undo>>
       \/ /\ ~(upgrade /\ upgrading[r] \notin {NoTxn, t})
          /\ mode' = [mode EXCEPT ![r][s] = target]
          /\ ahead' = [ahead EXCEPT ![r] =
                          IF s \in Present(r) THEN @
                          ELSE @ \cup {<<b, s>> : b \in {x \in Present(r) : x[1] # t}}]
          /\ \/ /\ CanGrantRequest(r, s, target)
                /\ Grant(t, r, s, target)
             \/ /\ ~CanGrantRequest(r, s, target)
                /\ granted' = [granted EXCEPT ![r] = IF upgrade THEN @ \ {s} ELSE @]
                /\ upgrading' = [upgrading EXCEPT ![r] = IF upgrade THEN t ELSE @]
                /\ SetUnlessEnded(t, "WAITING")
                /\ pc' = [pc EXCEPT ![t] = "waiting"]
                /\ wait' = [wait EXCEPT ![t] =
                               [resource |-> r, range |-> range, escalation |-> escalation]]
                /\ asleep' = asleep \cup {t}
                /\ UNCHANGED <<held, registered, victims, undo>>

\* LockTable, from the held mode to the combined one; a call whose mode is
\* already covered returns true and changes nothing.
RequestTable(t, rel, m, escalation) ==
    LET target == IF held[t][rel] = NoLock THEN m ELSE CombineTableModes(held[t][rel], m) IN
    /\ target # held[t][rel]
    /\ Request(t, rel, Whole, target, escalation)

LockTable(t, rel, m) ==
    /\ pc[t] = "idle" /\ ~IsAbortPendingOrDone(t)
    /\ RequestTable(t, rel, m, FALSE)

\* LockRecord needs an intention (or stronger) lock on the table; the code
\* throws before it touches any state otherwise.
LockRecord(t, rid, m) ==
    /\ pc[t] = "idle" /\ ~IsAbortPendingOrDone(t)
    /\ IF m = "S" THEN held[t][RelationOf[rid]] # NoLock ELSE HoldsTableIX(t, RelationOf[rid])
    /\ LET target == IF held[t][rid] = NoLock
                     THEN m ELSE CombineTupleOrRangeModes(held[t][rid], m) IN
       /\ target # held[t][rid]
       /\ Request(t, rid, Whole, target, FALSE)

\* LockKeyRange (and LockKey, whose range is one key): the current mode is
\* the one of the request in the queue, nothing is kept in the transaction.
LockKeyRange(t, idx, range, m) ==
    LET current == mode[idx][<<t, range>>]
        target == IF current = NoLock THEN m ELSE CombineTupleOrRangeModes(current, m)
    IN
    /\ pc[t] = "idle" /\ ~IsAbortPendingOrDone(t)
    /\ ~(<<t, range>> \in granted[idx] /\ target = current)
    /\ Request(t, idx, range, target, FALSE)

\* Any lock call of a transaction that is aborting or aborted returns false.
LockCallRejected(t) ==
    /\ pc[t] = "idle" /\ IsAbortPendingOrDone(t)
    /\ ReturnFalse(t, FALSE)
    /\ UNCHANGED <<queues, txns, asleep, victims, undo>>

\* MaybeEscalateRecordLocks after LockRecord gave up the latch; the table
\* mode asked for is the mode of the record lock.
MaybeEscalateRecordLocks(t) ==
    /\ pc[t] = "escalating"
    /\ RequestTable(t, RelationOf[wait[t].resource], held[t][wait[t].resource], TRUE)

\* A notified thread runs the wait loop once more.
Resume(t) ==
    LET r == wait[t].resource
        s == <<t, wait[t].range>>
        lost == IsAbortPendingOrDone(t) \/ s \notin Present(r)
    IN
    /\ LatchFree
    /\ pc[t] = "waiting" /\ t \notin asleep
    /\ \/ \* aborted meanwhile: erase what is left of the request, wake the queue
          /\ lost
          /\ Erase(r, {s})
          /\ upgrading' = [upgrading EXCEPT ![r] = IF s \in Present(r) /\ @ = t THEN NoTxn ELSE @]
          /\ asleep' = IF s \in Present(r) THEN {u \in asleep : wait[u].resource # r} ELSE asleep
          /\ ReturnFalse(t, wait[t].escalation)
          /\ UNCHANGED <<txns, victims, undo>>
       \/ /\ ~lost /\ CanGrantRequest(r, s, mode[r][s])
          /\ Grant(t, r, s, mode[r][s])
          /\ UNCHANGED <<mode, ahead>>
       \/ /\ ~lost /\ ~CanGrantRequest(r, s, mode[r][s])
          /\ asleep' = asleep \cup {t}
          /\ SetUnlessEnded(t, "WAITING")
          /\ UNCHANGED <<queues, held, registered, pc, wait, victims, undo>>

\* A condition variable may wake a thread without being notified.
SpuriousWakeup(t) ==
    /\ t \in asleep
    /\ asleep' = asleep \ {t}
    /\ UNCHANGED <<queues, txns, pc, wait, victims, undo>>

-----------------------------------------------------------------------------
(* Transaction manager (transaction_manager.cpp).                          *)

\* Ids come from one counter, so they are handed out in increasing order.
Begin(t) ==
    /\ LatchFree
    /\ state[t] = "UNBORN" /\ \A u \in Txn : u < t => state[u] # "UNBORN"
    /\ state' = [state EXCEPT ![t] = "ACTIVE"]
    /\ registered' = registered \cup {t}
    /\ pc' = [pc EXCEPT ![t] = "idle"]
    /\ UNCHANGED <<queues, held, wait, asleep, victims, undo>>

\* A client that got false from a lock call ends its transaction: by Abort,
\* or (CommitsAfterFailure) by Commit, which then returns false.
MayCommit(t) == pc[t] = "idle" \/ (pc[t] = "failed" /\ CommitsAfterFailure)

MayAbort(t) == pc[t] \in {"idle", "failed"}

Commit(t) ==
    /\ MayCommit(t)
    /\ \/ /\ state[t] = "ABORTING"
          /\ pc' = [pc EXCEPT ![t] = "waitAbort"]
          /\ UNCHANGED state
       \/ /\ state[t] = "ABORTED"
          /\ pc' = [pc EXCEPT ![t] = "done"]
          /\ UNCHANGED state
       \/ /\ ~IsAbortPendingOrDone(t)
          /\ state' = [state EXCEPT ![t] = "COMMITTED"]
          /\ pc' = [pc EXCEPT ![t] = "releasing"]
    /\ UNCHANGED <<queues, held, registered, wait, asleep, victims, undo>>

\* WaitUntilAbortCompletes returns, and with it Commit (false).
WaitUntilAbortCompletes(t) ==
    /\ pc[t] = "waitAbort" /\ state[t] # "ABORTING"
    /\ pc' = [pc EXCEPT ![t] = "done"]
    /\ UNCHANGED <<queues, txns, wait, asleep, victims, undo>>

\* Thread th enters RollbackTransaction(t): from here on it will put back the
\* before images of everything t wrote, that is of what t holds in mode X.
StartRollback(th, t) ==
    /\ pc' = [pc EXCEPT ![th] = "rollback"]
    /\ undo' = [undo EXCEPT ![th] = {r \in Relation \cup Record : held[t][r] = "X"}]

\* Abort called by the client, up to RollbackTransaction.  A transaction that
\* is already ABORTING is rolled back by this thread too.
Abort(t) ==
    /\ MayAbort(t)
    /\ \/ /\ state[t] \in {"COMMITTED", "ABORTED"}
          /\ pc' = [pc EXCEPT ![t] = "done"]
          /\ UNCHANGED <<state, undo>>
       \/ /\ state[t] \notin {"COMMITTED", "ABORTED"}
          /\ TryMarkAborting(t)
          /\ StartRollback(t, t)
    /\ UNCHANGED <<queues, held, registered, wait, asleep, victims>>

\* The transaction a thread is working for in Commit or Abort.
Target(th) == IF th = Detector THEN Head(victims) ELSE th

\* The rollback is complete, the ABORT record logged and the state set.
FinishRollback(th) ==
    /\ pc[th] = "rollback"
    /\ state' = [state EXCEPT ![Target(th)] = "ABORTED"]
    /\ undo' = [undo EXCEPT ![th] = {}]
    /\ pc' = [pc EXCEPT ![th] = "releasing"]
    /\ UNCHANGED <<queues, held, registered, wait, asleep, victims>>

\* Fault variant of ReleaseAll: only waiting requests are taken out of the queues.
ReleaseUngranted(th) ==
    /\ LatchFree
    /\ pc[th] = "releasing"
    /\ Sweep(Target(th), TRUE)
    /\ held' = [held EXCEPT ![Target(th)] = [r \in Relation \cup Record |-> NoLock]]
    /\ pc' = [pc EXCEPT ![th] = "unregistering"]
    /\ UNCHANGED <<state, registered, wait, victims, undo>>

ReleaseAll(th) ==
    /\ LatchFree
    /\ pc[th] = "releasing"
    /\ Sweep(Target(th), FALSE)
    /\ held' = [held EXCEPT ![Target(th)] = [r \in Relation \cup Record |-> NoLock]]
    /\ pc' = [pc EXCEPT ![th] = "unregistering"]
    /\ UNCHANGED <<state, registered, wait, victims, undo>>

UnregisterTransaction(th) ==
    /\ LatchFree
    /\ pc[th] = "unregistering"
    /\ registered' = registered \ {Target(th)}
    /\ IF th = Detector
       THEN /\ pc' = [pc EXCEPT ![th] = "callback"]
            /\ victims' = Tail(victims)
       ELSE /\ pc' = [pc EXCEPT ![th] = "done"]
            /\ UNCHANGED victims
    /\ UNCHANGED <<queues, state, held, wait, asleep, undo>>

-----------------------------------------------------------------------------
(* Deadlock detection (lock_manager_deadlock.cpp).                         *)

\* The edges of BuildWaitsForGraphLocked out of transaction t.
WaitsFor(t) ==
    {u \in Txn : \E r \in Resource, s, b \in Slot :
        /\ s[1] = t /\ b[1] = u
        /\ s \in Present(r) \ granted[r]
        /\ Blocks(r, s, mode[r][s], b)}

\* t lies on a cycle all of whose members are in S: it belongs to every set
\* that holds its successors in S and is closed under successors in S.
OnCycleWithin(t, S) ==
    LET succ == [u \in S |-> WaitsFor(u) \cap S] IN
    \A A \in SUBSET S :
        (succ[t] \subseteq A /\ \A u \in A : succ[u] \subseteq A) => t \in A

\* Fault variant of CycleVictims: only edges from a transaction to itself count.
SelfCycleVictims == {t \in Txn : OnCycleWithin(t, {t})}

\* What DetectCycleVictimLocked may return: the depth-first search stops at
\* some cycle, which one depends on hash order, and takes its largest id.
CycleVictims == {t \in Txn : OnCycleWithin(t, {u \in Txn : u <= t})}

\* Fault variant of DetectVictim: the victim's waiting requests stay in the queues.
DetectVictimKeepsRequests(v) ==
    /\ pc[Detector] \in {"sleeping", "scanning"}
    /\ v \in CycleVictims
    /\ TryMarkAborting(v)
    /\ asleep' = {}
    /\ victims' = Append(victims, v)
    /\ pc' = [pc EXCEPT ![Detector] = "scanning"]
    /\ UNCHANGED <<queues, held, registered, wait, undo>>

\* AbortVictimLocked, one victim of the detector's loop under the latch.
DetectVictim(v) ==
    /\ pc[Detector] \in {"sleeping", "scanning"}
    /\ v \in CycleVictims
    /\ IF v \in registered /\ state[v] \notin {"COMMITTED", "ABORTED", "ABORTING"}
       THEN /\ TryMarkAborting(v)
            /\ Sweep(v, TRUE)
       ELSE UNCHANGED <<queues, state, asleep>>
    /\ victims' = IF v \in registered THEN Append(victims, v) ELSE victims
    /\ pc' = [pc EXCEPT ![Detector] = "scanning"]
    /\ UNCHANGED <<held, registered, wait, undo>>

\* No cycle is left: the detector gives up the latch.
ScanComplete ==
    /\ pc[Detector] = "scanning" /\ CycleVictims = {}
    /\ pc' = [pc EXCEPT ![Detector] = "callback"]
    /\ UNCHANGED <<queues, txns, wait, asleep, victims, undo>>

\* The abort callback for the next victim: Abort if it is still ABORTING.
AbortCallback ==
    /\ pc[Detector] = "callback"
    /\ \/ /\ victims = <<>>
          /\ pc' = [pc EXCEPT ![Detector] = "sleeping"]
          /\ UNCHANGED <<victims, undo>>
       \/ /\ victims # <<>> /\ state[Head(victims)] # "ABORTING"
          /\ victims' = Tail(victims)
          /\ UNCHANGED <<pc, undo>>
       \/ /\ victims # <<>> /\ state[Head(victims)] = "ABORTING"
          /\ StartRollback(Detector, Head(victims))
          /\ UNCHANGED victims
    /\ UNCHANGED <<queues, txns, wait, asleep>>

-----------------------------------------------------------------------------
\* What a thread does of its own accord once it is inside a call.
ThreadStep(th) ==
    \/ FinishRollback(th)
    \/ ReleaseAll(th)
    \/ UnregisterTransaction(th)

ClientStep(t) ==
    \/ ThreadStep(t)
    \/ MaybeEscalateRecordLocks(t)
    \/ Resume(t)
    \/ WaitUntilAbortCompletes(t)

DetectorStep ==
    \/ ThreadStep(Detector)
    \/ \E v \in Txn : DetectVictim(v)
    \/ ScanComplete
    \/ AbortCallback

\* What a client decides to do.
ClientCall(t) ==
    \/ Begin(t)
    \/ \E rel \in Relation, m \in TableModes : LockTable(t, rel, m)
    \/ \E rid \in Record, m \in {"S", "X"} : LockRecord(t, rid, m)
    \/ \E idx \in Index, range \in KeyRange, m \in {"S", "X"} : LockKeyRange(t, idx, range, m)
    \/ LockCallRejected(t)
    \/ Commit(t)
    \/ Abort(t)

Next ==
    \/ \E t \in Txn : ClientCall(t) \/ ClientStep(t) \/ SpuriousWakeup(t)
    \/ DetectorStep

Spec == Init /\ [][Next]_vars

\* Threads that can run do run, and a client that is between calls ends its
\* transaction in the end (an assumption about the clients).
Fairness ==
    /\ \A t \in Txn : WF_vars(ClientStep(t)) /\ WF_vars(Commit(t) \/ Abort(t))
    /\ WF_vars(DetectorStep)

FairSpec == Spec /\ Fairness

-----------------------------------------------------------------------------
(* Properties.                                                             *)

\* Type invariant of the lock manager's state.
TypeOK ==
    /\ state \in [Txn -> TxnState]
    /\ held \in [Txn -> [Relation \cup Record -> Mode]]
    /\ mode \in [Resource -> [Slot -> Mode]]
    /\ granted \in [Resource -> SUBSET Slot]
    /\ ahead \in [Resource -> SUBSET (Slot \X Slot)]
    /\ upgrading \in [Resource -> Txn \cup {NoTxn}]
    /\ registered \subseteq Txn
    /\ pc \in [Thread -> ClientPc \cup DetectorPc]
    /\ wait \in [Txn -> Call]
    /\ asleep \subseteq Txn
    /\ victims \in Seq(Txn)
    /\ undo \in [Thread -> SUBSET (Relation \cup Record)]

\* Table and record locks of live transactions never conflict.  This covers
\* the whole time of an upgrade, when the request in the queue is ungranted
\* and already carries the new mode while the old mode must go on protecting
\* what was read (LockTable and LockRecord, in-place upgrade).
HeldLocksCompatible ==
    \A r \in Relation \cup Record, t, u \in Txn :
        /\ t # u /\ held[t][r] # NoLock /\ held[u][r] # NoLock
        /\ ~IsAbortPendingOrDone(t) /\ ~IsAbortPendingOrDone(u)
        => Compatible(r, held[t][r], held[u][r])

Contains(range, k) ==
    /\ range.lower = Unbounded \/ range.lower < k \/ (range.lower = k /\ range.lower_inclusive)
    /\ range.upper = Unbounded \/ k < range.upper \/ (k = range.upper /\ range.upper_inclusive)

\* The mode with which request s protects what it locks: its mode once it is
\* granted, the mode it had before while it is being upgraded (a range lock is
\* only ever upgraded from S).
ProtectingMode(r, s) ==
    IF s \in granted[r] THEN mode[r][s]
    ELSE IF s \in Present(r) /\ upgrading[r] = s[1]
         THEN IF r \in Index THEN "S" ELSE held[s[1]][r]
         ELSE NoLock

\* No key of an index is covered by conflicting range locks of two
\* transactions (phantom protection), whatever bounds the two ranges have.
KeyLocksCompatible ==
    \A idx \in Index, k \in Key, a, b \in Slot :
        /\ a[1] # b[1] /\ Contains(a[2], k) /\ Contains(b[2], k)
        /\ ProtectingMode(idx, a) # NoLock /\ ProtectingMode(idx, b) # NoLock
        => ProtectingMode(idx, a) = "S" /\ ProtectingMode(idx, b) = "S"

\* First come, first served: a granted request never stands behind a waiting
\* one it could conflict with, unless that one is an upgrade in place.
NoOvertaking ==
    \A r \in Resource, a, b \in Slot :
        /\ <<a, b>> \in ahead[r] /\ a[1] # b[1] /\ RangesOverlap(a[2], b[2])
        /\ a \notin granted[r] /\ b \in granted[r]
        => upgrading[r] = a[1]

\* Every waiting request belongs to a registered transaction that is WAITING
\* and whose thread sits in that very call.  Were there a waiting request of
\* an ABORTING or ended transaction, AbortVictimLocked would leave it in place
\* and the detector would spin on the same cycle with the latch held.
WaitersAreAbortable ==
    \A r \in Resource : \A s \in Present(r) \ granted[r] :
        /\ s[1] \in registered /\ state[s[1]] = "WAITING"
        /\ pc[s[1]] = "waiting" /\ wait[s[1]].resource = r /\ wait[s[1]].range = s[2]

\* Once a transaction is unregistered nothing of it is left in any queue: a
\* request left behind would block its queue for ever.
NothingLeftBehind ==
    \A t \in Txn : t \notin registered =>
        \A r \in Resource : upgrading[r] # t /\ \A s \in Present(r) : s[1] # t

\* An upgrade mark always belongs to an upgrade in progress; a stale mark
\* would make every later upgrade in the queue fail.
UpgradeMarkIsLive ==
    \A r \in Resource : upgrading[r] # NoTxn =>
        \E s \in Present(r) \ granted[r] : s[1] = upgrading[r]

\* No thread rolls a transaction back while another transaction holds a lock
\* on something the rollback is going to overwrite.
RollbackIsolated ==
    \A th \in Thread : pc[th] = "rollback" =>
        \A r \in undo[th], u \in Txn \ {Target(th)} : held[u][r] = NoLock

\* An aborting transaction keeps its locks until its rollback is complete.
LocksHeldUntilRolledBack ==
    \A r \in Relation \cup Record, t, u \in Txn :
        /\ t # u /\ held[t][r] # NoLock /\ held[u][r] # NoLock
        /\ state[t] # "ABORTED" /\ state[u] # "ABORTED"
        => Compatible(r, held[t][r], held[u][r])

\* A deadlock is always broken: whoever is on a cycle gets off it.
DeadlocksAreBroken ==
    \A t \in Txn : OnCycleWithin(t, Txn) ~> ~OnCycleWithin(t, Txn)

\* If every transaction that has begun and not ended is asleep in a lock call,
\* then they are deadlocked and the detector has a victim to choose: nobody
\* is left asleep with neither a thread to wake it nor a cycle to break.
SleepersCanBeWoken ==
    LET live == {t \in Txn : pc[t] \notin {"unborn", "done"}} IN
    live # {} /\ live \subseteq asleep /\ pc[Detector] = "sleeping" => CycleVictims # {}

\* Commit of an aborting transaction always returns.
CommitReturns == \A t \in Txn : pc[t] = "waitAbort" ~> pc[t] # "waitAbort"

-----------------------------------------------------------------------------
(* The inductive invariant behind the safety properties.                   *)

\* What each point of a client's program knows about its transaction.
ClientInv ==
    \A t \in Txn :
        /\ pc[t] = "unborn" <=> state[t] = "UNBORN"
        /\ pc[t] \in {"idle", "failed", "waiting"} =>
                state[t] \in {"ACTIVE", "WAITING", "ABORTING", "ABORTED"}
        /\ pc[t] = "waiting" =>
                /\ wait[t].resource \in Resource
                /\ <<t, wait[t].range>> \notin granted[wait[t].resource]
        /\ pc[t] = "escalating" =>
                /\ state[t] = "ACTIVE" /\ wait[t].resource \in Record
                /\ held[t][wait[t].resource] \in {"S", "X"}
        /\ pc[t] \in {"rollback", "waitAbort"} => state[t] \in {"ABORTING", "ABORTED"}
        /\ pc[t] \in {"releasing", "unregistering", "done"} => state[t] \in {"COMMITTED", "ABORTED"}
        /\ state[t] \in {"ACTIVE", "WAITING"} => t \in registered

\* The detector's victims are aborting or aborted, and it works for the first.
DetectorInv ==
    /\ \A i \in 1..Len(victims) : state[victims[i]] \in {"ABORTING", "ABORTED"}
    /\ pc[Detector] \in {"rollback", "releasing", "unregistering"} => victims # <<>>
    /\ pc[Detector] \in {"releasing", "unregistering"} => state[Head(victims)] = "ABORTED"

ThreadInv == ClientInv /\ DetectorInv

\* A queue is a list: its granted requests are in it, "ahead" orders any two
\* requests of different transactions in exactly one way; requests on tables
\* and records have the range Whole, requests on records and keys mode S or X.
QueueInv ==
    \A r \in Resource :
        /\ granted[r] \subseteq Present(r)
        /\ \A a, b \in Slot :
            /\ <<a, b>> \in ahead[r] => a \in Present(r) /\ b \in Present(r) /\ <<b, a>> \notin ahead[r]
            /\ a \in Present(r) /\ b \in Present(r) /\ a[1] # b[1] =>
                    <<a, b>> \in ahead[r] \/ <<b, a>> \in ahead[r]
        /\ \A a \in Present(r) :
            /\ r \notin Index => a[2] = Whole
            /\ r \notin Relation => mode[r][a] \in {"S", "X"}

\* A transaction's own lock table and the queues agree; an upgrade is the only
\* time a held lock has an ungranted request.
HeldAgreesWithQueues ==
    \A r \in Relation \cup Record, t \in Txn :
        /\ <<t, Whole>> \in granted[r] => held[t][r] = mode[r][<<t, Whole>>]
        /\ held[t][r] # NoLock /\ ~IsAbortPendingOrDone(t) =>
                /\ <<t, Whole>> \in Present(r)
                /\ <<t, Whole>> \in granted[r] \/ upgrading[r] = t

\* Everything in front of an upgrade in progress that overlaps it is granted.
UpgradeIsInFront ==
    \A r \in Resource, a, b \in Slot :
        /\ <<a, b>> \in ahead[r] /\ a[1] # b[1] /\ RangesOverlap(a[2], b[2])
        /\ b \notin granted[r] /\ upgrading[r] = b[1]
        => a \in granted[r]

\* Two overlapping requests of different transactions protect compatibly.
ProtectionCompatible ==
    \A r \in Resource, a, b \in Slot :
        /\ a[1] # b[1] /\ RangesOverlap(a[2], b[2])
        /\ ProtectingMode(r, a) # NoLock /\ ProtectingMode(r, b) # NoLock
        => Compatible(r, ProtectingMode(r, a), ProtectingMode(r, b))

\* A transaction about to be unregistered has nothing left in the queues.
ReleasedBeforeUnregistering ==
    \A th \in Thread : pc[th] = "unregistering" =>
        \A r \in Resource : upgrading[r] # Target(th) /\ \A s \in Present(r) : s[1] # Target(th)

\* The inductive invariant.
LockInv ==
    /\ TypeOK
    /\ ThreadInv
    /\ QueueInv
    /\ WaitersAreAbortable
    /\ UpgradeMarkIsLive
    /\ HeldAgreesWithQueues
    /\ NoOvertaking
    /\ UpgradeIsInFront
    /\ ProtectionCompatible
    /\ ReleasedBeforeUnregistering
    /\ NothingLeftBehind
=============================================================================
