----------------------------- MODULE PageRetire -----------------------------
(***************************************************************************)
(* Epoch-based retirement of index pages                                   *)
(* (src/concurrency/page_retire_manager.cpp).  Every tree operation runs   *)
(* under an OperationGuard, which notes the epoch in which the operation   *)
(* started.  A merge unlinks a page and retires it; the page may be        *)
(* reclaimed when no operation is left that could have found a link to it. *)
(*                                                                         *)
(* EnterEpoch reads the epoch before it takes the latch, so entering is    *)
(* two steps; the other calls run under the latch and are one step.        *)
(* active_epochs_ counts the guards of each epoch: "active" is the set of  *)
(* the guards counted, and the count of an epoch is the number of its      *)
(* members that entered in it.                                             *)
(***************************************************************************)
EXTENDS Integers

CONSTANTS
    Op,         \* operations under a guard
    Page,       \* index pages
    MaxEpoch    \* bound: the highest epoch

ASSUME EpochAssumption == MaxEpoch \in Nat

VARIABLES
    global_epoch,
    pc,         \* where each operation is
    epoch,      \* the guard's epoch_
    active,     \* the guards counted in active_epochs_
    retired,    \* retired_pages_
    linked,     \* the pages an operation that starts now can reach
    seen,       \* the pages each operation may hold a link to
    reclaimed   \* the pages given to their callback

vars == <<global_epoch, pc, epoch, active, retired, linked, seen, reclaimed>>

Entry == [page : Page, epoch : Nat]

Init ==
    /\ global_epoch = 1
    /\ pc = [op \in Op |-> "out"] /\ epoch = [op \in Op |-> 0]
    /\ active = {} /\ retired = {}
    /\ linked = Page /\ seen = [op \in Op |-> {}]
    /\ reclaimed = {}

\* Fault variant of Reclaimable: the newest guard decides, not the oldest.
ReclaimableForNewest(entry, guards, now) ==
    IF guards = {} THEN entry.epoch <= now ELSE \E op \in guards : entry.epoch <= epoch[op] - 1

\* Fault variant of Reclaimable: with no guard left the epoch must have passed.
ReclaimableLater(entry, guards, now) ==
    IF guards = {} THEN entry.epoch < now ELSE \A op \in guards : entry.epoch <= epoch[op] - 1

\* ComputeSafeEpochLocked: the entry is not above the safe epoch, which is the
\* current epoch when nobody is active, else the one before the oldest guard.
Reclaimable(entry, guards, now) ==
    IF guards = {} THEN entry.epoch <= now ELSE \A op \in guards : entry.epoch <= epoch[op] - 1

\* The callback is KeepRetiredPageForRecovery, which always returns true.
TryReclaimLocked(entries, guards, now) ==
    LET gone == {e \in entries : Reclaimable(e, guards, now)} IN
    /\ retired' = entries \ gone
    /\ reclaimed' = reclaimed \cup {e.page : e \in gone}

\* EnterEpoch up to the latch ...
LoadEpoch(op) ==
    /\ pc[op] = "out"
    /\ epoch' = [epoch EXCEPT ![op] = global_epoch]
    /\ pc' = [pc EXCEPT ![op] = "entering"]
    /\ UNCHANGED <<global_epoch, active, retired, linked, seen, reclaimed>>

\* ... and under it.  From here on the operation follows links.
EnterEpoch(op) ==
    /\ pc[op] = "entering"
    /\ active' = active \cup {op}
    /\ pc' = [pc EXCEPT ![op] = "in"]
    /\ seen' = [seen EXCEPT ![op] = linked]
    /\ UNCHANGED <<global_epoch, epoch, retired, linked, reclaimed>>

ExitEpoch(op) ==
    /\ pc[op] = "in"
    /\ pc' = [pc EXCEPT ![op] = "out"]
    /\ active' = active \ {op}
    /\ seen' = [seen EXCEPT ![op] = {}]
    /\ TryReclaimLocked(retired, active', global_epoch)
    /\ UNCHANGED <<global_epoch, epoch, linked>>

\* A delete under its own guard has merged page p away: the parent and the left
\* neighbour, both latched by it, no longer name the page.
RetirePage(op, p) ==
    /\ pc[op] = "in" /\ p \in linked /\ global_epoch < MaxEpoch
    /\ linked' = linked \ {p}
    /\ global_epoch' = global_epoch + 1
    /\ TryReclaimLocked(retired \cup {[page |-> p, epoch |-> global_epoch + 1]},
                        active, global_epoch + 1)
    /\ UNCHANGED <<pc, epoch, active, seen>>

\* ~BufferPoolManager: the threads that used the trees have ended.
Drain ==
    /\ \A op \in Op : pc[op] = "out"
    /\ global_epoch < MaxEpoch
    /\ global_epoch' = global_epoch + 1
    /\ TryReclaimLocked(retired, active, global_epoch + 1)
    /\ UNCHANGED <<pc, epoch, active, linked, seen>>

Next ==
    \/ \E op \in Op : LoadEpoch(op) \/ EnterEpoch(op) \/ ExitEpoch(op)
    \/ \E op \in Op, p \in Page : RetirePage(op, p)
    \/ Drain

Spec == Init /\ [][Next]_vars

-----------------------------------------------------------------------------
(* Properties.                                                             *)

\* Types, and the places of the code an operation can be at.
TypeOK ==
    /\ global_epoch \in Nat
    /\ pc \in [Op -> {"out", "entering", "in"}] /\ epoch \in [Op -> Nat]
    /\ active \subseteq Op /\ retired \subseteq Entry
    /\ linked \subseteq Page /\ seen \in [Op -> SUBSET Page] /\ reclaimed \subseteq Page

\* TryReclaimLocked gives no page away that a running operation may still hold
\* a link to, although EnterEpoch registers an epoch that may be long past.
GuardedPagesKept == \A op \in Op : pc[op] = "in" => seen[op] \cap reclaimed = {}

\* No entry of retired_pages_ is left waiting when no guard is active: the last
\* ExitEpoch reclaims everything, so the list cannot grow for ever.
NothingWaitsForNobody == active = {} => retired = {}

\* The inductive strengthening: an entry an operation can see is newer than the
\* operation's guard, and only linked or retired pages can be seen.
RetireInv ==
    /\ TypeOK
    /\ active = {op \in Op : pc[op] = "in"}
    /\ \A op \in Op : pc[op] # "out" => epoch[op] <= global_epoch
    /\ \A e \in retired : e.epoch <= global_epoch
    /\ \A op \in Op, e \in retired : pc[op] = "in" /\ e.page \in seen[op] => e.epoch > epoch[op]
    /\ \A op \in Op : pc[op] = "in" =>
            \A p \in seen[op] : p \in linked \/ \E e \in retired : e.page = p
    /\ \A p \in linked : p \notin reclaimed /\ \A e \in retired : e.page # p
    /\ \A e \in retired : e.page \notin reclaimed
    /\ \A e, f \in retired : e.page = f.page => e = f
    /\ NothingWaitsForNobody
=============================================================================
