-------------------------- MODULE PageRetireProofs --------------------------
(***************************************************************************)
(* Retirement is safe for any number of operations, pages and epochs.      *)
(* RetireInv is inductive; its heart is that an entry a running operation  *)
(* can see carries an epoch above the operation's own, because RetirePage  *)
(* raises the epoch before it stamps the entry.                            *)
(***************************************************************************)
EXTENDS PageRetire, TLAPS

(* The initial state satisfies the invariant.                              *)
LEMMA InitRetireInv == Init => RetireInv
BY DEF Init, RetireInv, TypeOK, NothingWaitsForNobody, Entry

(* Reading the epoch disturbs nothing: the guard is not registered yet.    *)
LEMMA LoadEpochStep ==
    ASSUME RetireInv, NEW op \in Op, LoadEpoch(op)
    PROVE  RetireInv'
BY DEF RetireInv, TypeOK, NothingWaitsForNobody, Entry, LoadEpoch

(* A guard registers an epoch that may be past.  What it sees is linked,   *)
(* so no retired entry is about it.                                        *)
LEMMA EnterEpochStep ==
    ASSUME RetireInv, NEW op \in Op, EnterEpoch(op)
    PROVE  RetireInv'
<1>1. TypeOK'
  BY DEF RetireInv, TypeOK, Entry, EnterEpoch
<1>2. active' = {o \in Op : pc'[o] = "in"}
  BY DEF RetireInv, TypeOK, EnterEpoch
<1>3. \A o \in Op : pc'[o] # "out" => epoch'[o] <= global_epoch'
  BY DEF RetireInv, TypeOK, EnterEpoch
<1>4. \A o \in Op, e \in retired' : pc'[o] = "in" /\ e.page \in seen'[o] => e.epoch > epoch'[o]
  BY DEF RetireInv, TypeOK, Entry, EnterEpoch
<1>5. \A o \in Op : pc'[o] = "in" =>
          \A p \in seen'[o] : p \in linked' \/ \E e \in retired' : e.page = p
  BY DEF RetireInv, TypeOK, EnterEpoch
<1>6. NothingWaitsForNobody'
  BY DEF RetireInv, TypeOK, EnterEpoch, NothingWaitsForNobody
<1> QED BY <1>1, <1>2, <1>3, <1>4, <1>5, <1>6 DEF RetireInv, EnterEpoch

(* Reclaiming what is reclaimable for the guards that stay in.             *)
LEMMA ExitEpochStep ==
    ASSUME RetireInv, NEW op \in Op, ExitEpoch(op)
    PROVE  RetireInv'
<1> DEFINE gone == {x \in retired : Reclaimable(x, active', global_epoch)}
<1>1. /\ retired' = {e \in retired : ~Reclaimable(e, active', global_epoch)}
      /\ reclaimed' = reclaimed \cup {e.page : e \in gone}
  BY DEF ExitEpoch, TryReclaimLocked
<1>2. retired' \subseteq retired /\ retired \subseteq Entry
  BY <1>1 DEF RetireInv, TypeOK
<1>3. TypeOK'
  BY <1>1, <1>2 DEF RetireInv, TypeOK, Entry, ExitEpoch
<1>4. active' = {o \in Op : pc'[o] = "in"}
  BY DEF RetireInv, TypeOK, ExitEpoch
<1>5. \A o \in Op : pc'[o] = "in" => o # op /\ pc[o] = "in" /\ seen'[o] = seen[o] /\ epoch'[o] = epoch[o]
  BY DEF RetireInv, TypeOK, ExitEpoch
<1>6. \A o \in Op : pc'[o] = "in" => \A e \in gone : e.page \notin seen[o]
  <2> SUFFICES ASSUME NEW o \in Op, pc'[o] = "in", NEW e \in gone, e.page \in seen[o] PROVE FALSE
    OBVIOUS
  <2>1. o \in active' /\ e \in retired
    BY <1>4
  <2>2. e.epoch <= epoch[o] - 1
    BY <2>1 DEF Reclaimable
  <2>3. e.epoch > epoch[o] /\ epoch[o] \in Nat /\ e.epoch \in Nat
    BY <1>2, <1>5, <2>1 DEF RetireInv, TypeOK, Entry
  <2> QED BY <2>2, <2>3
<1>7. \A o \in Op : pc'[o] = "in" =>
          \A p \in seen'[o] : p \in linked' \/ \E e \in retired' : e.page = p
  BY <1>1, <1>5, <1>6 DEF RetireInv, ExitEpoch
<1>8. \A p \in linked' : p \notin reclaimed' /\ \A e \in retired' : e.page # p
  BY <1>1 DEF RetireInv, ExitEpoch
<1>9. NothingWaitsForNobody'
  BY <1>1 DEF RetireInv, ExitEpoch, NothingWaitsForNobody, Reclaimable
<1>10. /\ \A o \in Op : pc'[o] # "out" => epoch'[o] <= global_epoch'
       /\ \A e \in retired' : e.epoch <= global_epoch'
  BY <1>2 DEF RetireInv, TypeOK, ExitEpoch
<1>11. \A o \in Op, e \in retired' : pc'[o] = "in" /\ e.page \in seen'[o] => e.epoch > epoch'[o]
  BY <1>2, <1>5 DEF RetireInv
<1>12. /\ \A e \in retired' : e.page \notin reclaimed'
       /\ \A e, f \in retired' : e.page = f.page => e = f
  BY <1>1, <1>2 DEF RetireInv
<1> QED
  BY <1>3, <1>4, <1>7, <1>8, <1>9, <1>10, <1>11, <1>12 DEF RetireInv

(* The new entry is newer than every guard, and its page was linked, so it *)
(* is the only entry of that page.                                         *)
LEMMA RetirePageStep ==
    ASSUME RetireInv, NEW op \in Op, NEW p \in Page, RetirePage(op, p)
    PROVE  RetireInv'
<1> DEFINE new == [page |-> p, epoch |-> global_epoch + 1]
<1> DEFINE entries == retired \cup {new}
<1> DEFINE gone == {x \in entries : Reclaimable(x, active, global_epoch + 1)}
<1>1. /\ retired' = {e \in entries : ~Reclaimable(e, active, global_epoch + 1)}
      /\ reclaimed' = reclaimed \cup {e.page : e \in gone}
  BY DEF RetirePage, TryReclaimLocked
<1>2. /\ global_epoch \in Nat /\ p \in linked /\ linked' = linked \ {p}
      /\ global_epoch' = global_epoch + 1
      /\ pc' = pc /\ epoch' = epoch /\ active' = active /\ seen' = seen
  BY DEF RetireInv, TypeOK, RetirePage
<1>3. entries \subseteq Entry /\ retired' \subseteq entries
  BY <1>1, <1>2 DEF RetireInv, TypeOK, Entry
<1>4. TypeOK'
  BY <1>1, <1>2, <1>3 DEF RetireInv, TypeOK, Entry
<1>5. active = {o \in Op : pc[o] = "in"} /\ active' = {o \in Op : pc'[o] = "in"}
  BY <1>2 DEF RetireInv
<1>6. \A e \in entries : e.epoch <= global_epoch'
  BY <1>2, <1>3 DEF RetireInv, Entry
<1>7. \A o \in Op : pc'[o] # "out" => epoch'[o] <= global_epoch /\ epoch'[o] \in Nat
  BY <1>2 DEF RetireInv, TypeOK
<1>8. \A o \in Op, e \in entries : pc[o] = "in" /\ e.page \in seen[o] => e.epoch > epoch[o]
  <2> SUFFICES ASSUME NEW o \in Op, NEW e \in entries, pc[o] = "in", e.page \in seen[o]
               PROVE  e.epoch > epoch[o]
    OBVIOUS
  <2>1. CASE e = new
    BY <2>1, <1>2, <1>7
  <2>2. CASE e \in retired
    BY <2>2 DEF RetireInv
  <2> QED BY <2>1, <2>2
<1>9. \A o \in Op : pc[o] = "in" => \A e \in gone : e.page \notin seen[o]
  <2> SUFFICES ASSUME NEW o \in Op, pc[o] = "in", NEW e \in gone, e.page \in seen[o] PROVE FALSE
    OBVIOUS
  <2>1. e.epoch <= epoch[o] - 1
    BY <1>5 DEF Reclaimable
  <2>2. e.epoch > epoch[o] /\ epoch[o] \in Nat /\ e.epoch \in Nat
    BY <1>3, <1>8 DEF RetireInv, TypeOK, Entry
  <2> QED BY <2>1, <2>2
<1>10. \A o \in Op : pc'[o] = "in" =>
          \A q \in seen'[o] : q \in linked' \/ \E e \in retired' : e.page = q
  <2> SUFFICES ASSUME NEW o \in Op, pc[o] = "in", NEW q \in seen[o], q \notin linked'
               PROVE  \E e \in retired' : e.page = q
    BY <1>2
  <2>1. PICK e \in entries : e.page = q
    <3>1. CASE q = p
      <4>1. new \in entries /\ new.page = q
        BY <3>1
      <4> QED BY <4>1
    <3>2. CASE q # p
      BY <3>2, <1>2 DEF RetireInv
    <3> QED BY <3>1, <3>2
  <2>2. e \notin gone
    BY <2>1, <1>9
  <2> QED BY <2>1, <2>2, <1>1
<1>11. \A e, f \in entries : e.page = f.page => e = f
  BY <1>2 DEF RetireInv
<1>12. \A q \in linked' : q \notin reclaimed' /\ \A e \in retired' : e.page # q
  <2> SUFFICES ASSUME NEW q \in linked'
               PROVE  q \notin reclaimed' /\ \A e \in retired' : e.page # q
    OBVIOUS
  <2>1. q \in linked /\ q # p
    BY <1>2
  <2>2. \A e \in entries : e.page # q
    <3> SUFFICES ASSUME NEW e \in entries PROVE e.page # q
      OBVIOUS
    <3>1. CASE e = new
      BY <3>1, <2>1
    <3>2. CASE e \in retired
      BY <3>2, <2>1 DEF RetireInv
    <3> QED BY <3>1, <3>2
  <2>3. q \notin reclaimed
    BY <2>1 DEF RetireInv
  <2> HIDE DEF entries
  <2> QED BY <1>1, <2>2, <2>3
<1>13. \A e \in entries : e.page \notin reclaimed
  BY <1>2 DEF RetireInv
<1>14. /\ \A e \in retired' : e.page \notin reclaimed'
       /\ \A e, f \in retired' : e.page = f.page => e = f
  BY <1>1, <1>3, <1>11, <1>13
<1>15. NothingWaitsForNobody'
  BY <1>2, <1>5 DEF RetirePage, NothingWaitsForNobody
<1>16. \A o \in Op : pc'[o] # "out" => epoch'[o] <= global_epoch'
  BY <1>2, <1>7
<1> HIDE DEF new, entries, gone
<1> QED
  BY <1>2, <1>3, <1>4, <1>5, <1>6, <1>8, <1>10, <1>12, <1>14, <1>15, <1>16 DEF RetireInv

(* Drain runs when nobody is in: the list was empty already.               *)
LEMMA DrainStep ==
    ASSUME RetireInv, Drain
    PROVE  RetireInv'
<1>1. active = {} /\ retired = {}
  BY DEF RetireInv, Drain, NothingWaitsForNobody
<1>2. retired' = {} /\ reclaimed' = reclaimed
  BY <1>1 DEF Drain, TryReclaimLocked
<1> QED
  BY <1>1, <1>2 DEF RetireInv, TypeOK, Entry, Drain, NothingWaitsForNobody

(* RetireInv holds in every reachable state, for all constants.            *)
THEOREM RetireInvariant == Spec => []RetireInv
<1>1. RetireInv /\ [Next]_vars => RetireInv'
  <2> SUFFICES ASSUME RetireInv, [Next]_vars PROVE RetireInv'
    OBVIOUS
  <2>1. ASSUME NEW op \in Op, LoadEpoch(op) PROVE RetireInv'
    BY <2>1, LoadEpochStep
  <2>2. ASSUME NEW op \in Op, EnterEpoch(op) PROVE RetireInv'
    BY <2>2, EnterEpochStep
  <2>3. ASSUME NEW op \in Op, ExitEpoch(op) PROVE RetireInv'
    BY <2>3, ExitEpochStep
  <2>4. ASSUME NEW op \in Op, NEW p \in Page, RetirePage(op, p) PROVE RetireInv'
    BY <2>4, RetirePageStep
  <2>5. CASE Drain
    BY <2>5, DrainStep
  <2>6. CASE UNCHANGED vars
    BY <2>6 DEF vars, RetireInv, TypeOK, Entry, NothingWaitsForNobody
  <2> QED
    BY <2>1, <2>2, <2>3, <2>4, <2>5, <2>6 DEF Next
<1> QED
  BY <1>1, InitRetireInv, PTL DEF Spec

(* No page is reclaimed while a running operation may hold a link to it.   *)
THEOREM RetirementIsSafe == Spec => []GuardedPagesKept
<1>1. RetireInv => GuardedPagesKept
  BY DEF RetireInv, GuardedPagesKept
<1> QED
  BY <1>1, RetireInvariant, PTL

(* The list of retired pages is empty whenever no operation is running.    *)
THEOREM RetirementLeavesNothing == Spec => []NothingWaitsForNobody
<1>1. RetireInv => NothingWaitsForNobody
  BY DEF RetireInv
<1> QED
  BY <1>1, RetireInvariant, PTL
=============================================================================
