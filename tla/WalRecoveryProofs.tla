------------------------- MODULE WalRecoveryProofs --------------------------
(***************************************************************************)
(* Recovery restores the committed state, for every number of pages,       *)
(* transactions, writes, checkpoints and crashes, when operations run one  *)
(* at a time and what a crash loses is what was not synced (OneAtATime).   *)
(*                                                                         *)
(* The first half of the argument is about the log alone: what its records *)
(* say of the transactions and pages of the database, and when they        *)
(* justify each other.  L is a log, n the length of the prefix looked at.  *)
(* Every record is justified by the records before it (RecordSound), so    *)
(* that two running transactions never share a page (Exclusive) and what   *)
(* the log says of a page can be brought back to what was committed        *)
(* (Restorable).  All three speak of prefixes of the log, so a crash       *)
(* cannot break them.                                                      *)
(*                                                                         *)
(* In the second half RecoveryInv relates the pages, the tables of the     *)
(* program and those of recovery to the log, and one lemma per action      *)
(* shows that it is kept.                                                  *)
(***************************************************************************)
EXTENDS WalRecovery, NaturalLemmas, FiniteSetTheorems, SequenceTheorems

-----------------------------------------------------------------------------
(* What a log says.                                                        *)

SavedTxn == [txn : Txn, state : {"ACTIVE"}, last : Nat]

SavedPage == [page : Page, rec : Nat \ {0}]

LogRecord ==
    [type : {"BEGIN", "COMMIT", "ABORT"}, txn : Txn, prev : Nat]
    \cup [type : {"BEGIN_CHECKPOINT"}, txn : {NoTxn}, prev : Nat]
    \cup [type : {"UPDATE"}, txn : Txn, prev : Nat, page : Page, before : Nat, after : Nat]
    \cup [type : {"CLR"}, txn : Txn, prev : Nat, undoNext : Nat, page : Page, after : Nat]
    \cup [type : {"END_CHECKPOINT"}, txn : {NoTxn}, prev : Nat,
          txns : SUBSET SavedTxn, pages : SUBSET SavedPage]

\* Transaction t began with record b and has not ended.
Runs(L, t, b, n) ==
    /\ b \in 1..n /\ L[b].type = "BEGIN" /\ L[b].txn = t
    /\ \A i \in b + 1 .. n : L[i].txn = t => IsPageUpdateRecord(L[i])

\* Record j is the last one of t.
IsLast(L, t, n, j) ==
    /\ j \in 1..n /\ L[j].txn = t
    /\ \A i \in j + 1 .. n : L[i].txn # t

\* Where the rollback of a transaction whose last record is j begins or goes on.
Resume(L, j) == IF L[j].type = "CLR" THEN L[j].undoNext ELSE j

\* The rollback of t has not begun.
Forward(L, t, b, n) == \A i \in b + 1 .. n : L[i].txn = t => L[i].type = "UPDATE"

OnPage(L, k, p) == IsPageUpdateRecord(L[k]) /\ L[k].page = p

LastOn(L, p, n, k) ==
    /\ k \in 1..n /\ OnPage(L, k, p)
    /\ \A i \in k + 1 .. n : ~OnPage(L, i, p)

\* The log says that page p holds v.
Holds(L, p, n, v) ==
    \/ v = 0 /\ \A k \in 1..n : ~OnPage(L, k, p)
    \/ \E k \in 1..n : LastOn(L, p, n, k) /\ L[k].after = v

\* Update e of page p is one that the rollback of t has still to undo.
Pending(L, n, t, p, e) ==
    \E b, j \in 1..n :
        /\ Runs(L, t, b, n) /\ IsLast(L, t, n, j)
        /\ e \in b + 1 .. Resume(L, j) /\ e <= n
        /\ L[e].txn = t /\ L[e].type = "UPDATE" /\ L[e].page = p

CommittedAt(L, i, n) ==
    \E c \in i..n :
        /\ L[c].type = "COMMIT" /\ L[c].txn = L[i].txn
        /\ \A b \in i..c : ~(b # i /\ L[b].type = "BEGIN" /\ L[b].txn = L[i].txn)

CommittedWrite(L, p, n, w) ==
    /\ w \in 1..n /\ L[w].type = "UPDATE" /\ L[w].page = p
    /\ CommittedAt(L, w, n)

\* v is the committed value of page p.
CommittedTo(L, p, n, v) ==
    \/ v = 0 /\ \A w \in 1..n : ~CommittedWrite(L, p, n, w)
    \/ \E w \in 1..n :
            /\ CommittedWrite(L, p, n, w) /\ L[w].after = v
            /\ \A x \in w + 1 .. n : ~CommittedWrite(L, p, n, x)

\* The first record a restart with these n records writes compensates an
\* update of page p with image v.
CompensatesFirst(L, n, p, v) ==
    \E t \in Txn, b, j \in 1..n :
        LET r == Resume(L, j) IN
        /\ Runs(L, t, b, n) /\ IsLast(L, t, n, j)
        /\ r \in 1..n /\ L[r].type = "UPDATE" /\ L[r].page = p /\ L[r].before = v
        /\ \A u \in Txn, c, k \in 1..n :
                Runs(L, u, c, n) /\ IsLast(L, u, n, k) => Resume(L, k) <= r

\* The first n entries of L are log records.
IsLog(L, n) == \A i \in 1..n : L[i] \in LogRecord

-----------------------------------------------------------------------------
(* Every record is justified by those before it.                           *)

BeginSound(L, i) == \A b \in 1 .. i - 1 : ~Runs(L, L[i].txn, b, i - 1)

UpdateSound(L, i) ==
    /\ \E b \in 1 .. i - 1 :
            Runs(L, L[i].txn, b, i - 1) /\ Forward(L, L[i].txn, b, i - 1)
    /\ IsLast(L, L[i].txn, i - 1, L[i].prev)
    /\ Holds(L, L[i].page, i - 1, L[i].before)
    /\ \A u \in Txn, c, k \in 1 .. i - 1 :
            u # L[i].txn /\ Runs(L, u, c, i - 1) /\ k > c /\ L[k].txn = u => L[k].page # L[i].page

ClrSound(L, i) ==
    \E b, j \in 1 .. i - 1 :
        LET r == Resume(L, j) IN
        /\ Runs(L, L[i].txn, b, i - 1) /\ IsLast(L, L[i].txn, i - 1, j)
        /\ r \in b + 1 .. i - 1 /\ L[r].txn = L[i].txn
        /\ L[r].type = "UPDATE" /\ L[r].page = L[i].page
        /\ L[i].after = L[r].before /\ L[i].undoNext = L[r].prev

CommitSound(L, i) ==
    \E b \in 1 .. i - 1 : Runs(L, L[i].txn, b, i - 1) /\ Forward(L, L[i].txn, b, i - 1)

AbortSound(L, i) ==
    \E b, j \in 1 .. i - 1 :
        Runs(L, L[i].txn, b, i - 1) /\ IsLast(L, L[i].txn, i - 1, j) /\ Resume(L, j) = b

\* A checkpoint names the transactions that run.
TxnsSaved(L, n, txns) ==
    /\ \A e \in txns : \E b \in 1..n : Runs(L, e.txn, b, n) /\ IsLast(L, e.txn, n, e.last)
    /\ \A t \in Txn, b \in 1..n : Runs(L, t, b, n) => \E e \in txns : e.txn = t

EndCheckpointSound(L, i) ==
    i > 1 /\ L[i - 1].type = "BEGIN_CHECKPOINT" /\ TxnsSaved(L, i - 1, L[i].txns)

RecordSound(L, i) ==
    /\ L[i].type = "BEGIN" => BeginSound(L, i)
    /\ L[i].type = "UPDATE" => UpdateSound(L, i)
    /\ L[i].type = "CLR" => ClrSound(L, i)
    /\ L[i].type = "COMMIT" => CommitSound(L, i)
    /\ L[i].type = "ABORT" => AbortSound(L, i)
    /\ L[i].type = "END_CHECKPOINT" => EndCheckpointSound(L, i)

\* Running transactions have no page in common.
Exclusive(L, n) ==
    \A t, u \in Txn, b, c, k, m \in 1..n :
        /\ t # u /\ Runs(L, t, b, n) /\ Runs(L, u, c, n)
        /\ k > b /\ L[k].txn = t
        /\ m > c /\ L[m].txn = u
        => L[k].page # L[m].page

\* Rollback leads back to what is committed: the first update it has to undo
\* was made to the committed value, and a page with none to undo holds it.
Restorable(L, n) ==
    \A p \in Page, v \in Nat : CommittedTo(L, p, n, v) =>
        /\ \A t \in Txn, e \in 1..n :
                Pending(L, n, t, p, e) /\ (\A x \in 1 .. e - 1 : ~Pending(L, n, t, p, x))
                => L[e].before = v
        /\ Holds(L, p, n, v) \/ \E t \in Txn, e \in 1..n : Pending(L, n, t, p, e)

PrefixSound(L, n) ==
    /\ n > 0 => RecordSound(L, n)
    /\ Exclusive(L, n)
    /\ Restorable(L, n)

Sound(L, n) == \A m \in 0..n : PrefixSound(L, m)

-----------------------------------------------------------------------------
(* Lemmas.                                                                 *)

(* The fields of the records.                                              *)
LEMMA RecordFields ==
    ASSUME NEW r \in LogRecord
    PROVE  /\ r.type \in {"BEGIN", "COMMIT", "ABORT", "UPDATE", "CLR", "BEGIN_CHECKPOINT",
                          "END_CHECKPOINT"}
           /\ r.prev \in Nat
           /\ r.type \in {"BEGIN", "COMMIT", "ABORT", "UPDATE", "CLR"} => r.txn \in Txn
           /\ r.type \in {"BEGIN_CHECKPOINT", "END_CHECKPOINT"} => r.txn = NoTxn
           /\ IsPageUpdateRecord(r) => r.page \in Page /\ r.after \in Nat
           /\ r.type = "UPDATE" => r.before \in Nat
           /\ r.type = "CLR" => r.undoNext \in Nat
           /\ r.type = "END_CHECKPOINT" => r.txns \subseteq SavedTxn /\ r.pages \subseteq SavedPage
BY DEF LogRecord, IsPageUpdateRecord

(* A transaction began with one record.                                    *)
LEMMA RunsOnce ==
    ASSUME NEW L, NEW n \in Nat, NEW t, NEW b, NEW c, Runs(L, t, b, n), Runs(L, t, c, n)
    PROVE  b = c
BY DEF Runs, IsPageUpdateRecord

(* A transaction that runs has run since.                                  *)
LEMMA RunsSince ==
    ASSUME NEW L, NEW n \in Nat, NEW t, NEW b, Runs(L, t, b, n), NEW m \in b..n
    PROVE  Runs(L, t, b, m)
BY DEF Runs

LEMMA OneLast ==
    ASSUME NEW L, NEW n \in Nat, NEW t, NEW j, NEW k, IsLast(L, t, n, j), IsLast(L, t, n, k)
    PROVE  j = k
BY DEF IsLast

(* A transaction that has records has a last one.                          *)
LEMMA LastExists ==
    ASSUME NEW L, NEW n \in Nat, NEW t, NEW i \in 1..n, L[i].txn = t
    PROVE  \E j \in i..n : IsLast(L, t, n, j)
<1> DEFINE S == {d \in Nat : d <= n /\ L[n - d].txn = t /\ n - d >= i}
<1>1. n - i \in S
  OBVIOUS
<1>2. PICK d \in S : \A e \in S : d <= e
  BY <1>1, LeastNatural
<1>3. \A k \in (n - d) + 1 .. n : L[k].txn # t
  <2> SUFFICES ASSUME NEW k \in (n - d) + 1 .. n, L[k].txn = t PROVE FALSE
    OBVIOUS
  <2>1. n - k \in S
    <3>1. n - (n - k) = k
      OBVIOUS
    <3> QED BY <3>1
  <2> QED BY <1>2, <2>1
<1>4. IsLast(L, t, n, n - d)
  BY <1>2, <1>3 DEF IsLast
<1> QED BY <1>2, <1>4

LEMMA LastOnExists ==
    ASSUME NEW L, NEW n \in Nat, NEW p, NEW i \in 1..n, OnPage(L, i, p)
    PROVE  \E k \in i..n : LastOn(L, p, n, k)
<1> DEFINE S == {d \in Nat : d <= n /\ OnPage(L, n - d, p) /\ n - d >= i}
<1>1. n - i \in S
  <2>1. n - (n - i) = i
    OBVIOUS
  <2> QED BY <2>1
<1>2. PICK d \in S : \A e \in S : d <= e
  BY <1>1, LeastNatural
<1>3. \A k \in (n - d) + 1 .. n : ~OnPage(L, k, p)
  <2> SUFFICES ASSUME NEW k \in (n - d) + 1 .. n, OnPage(L, k, p) PROVE FALSE
    OBVIOUS
  <2>1. n - k \in S
    <3>1. n - (n - k) = k
      OBVIOUS
    <3> QED BY <3>1
  <2> QED BY <1>2, <2>1
<1>4. LastOn(L, p, n, n - d)
  BY <1>2, <1>3 DEF LastOn
<1> QED BY <1>2, <1>4

(* The rollback of a running transaction goes on at one of its updates or  *)
(* ends at its BEGIN.                                                      *)
LEMMA ResumePlace ==
    ASSUME NEW L, NEW n \in Nat, IsLog(L, n), Sound(L, n), NEW t, NEW b, NEW j,
           Runs(L, t, b, n), IsLast(L, t, n, j)
    PROVE  /\ j \in b..n /\ Resume(L, j) \in b..j /\ L[Resume(L, j)].txn = t
           /\ L[Resume(L, j)].type \in {"BEGIN", "UPDATE"}
           /\ L[Resume(L, j)].type = "BEGIN" <=> Resume(L, j) = b
           /\ L[j].type = "CLR" => Resume(L, j) < j
<1>1. j \in b..n /\ b \in 1..n /\ L[j].txn = t /\ L[b].type = "BEGIN" /\ L[b].txn = t
  BY DEF Runs, IsLast
<1>2. j = b \/ IsPageUpdateRecord(L[j])
  BY <1>1 DEF Runs
<1>3. CASE L[j].type # "CLR"
  BY <1>1, <1>2, <1>3 DEF Resume, IsPageUpdateRecord
<1>4. CASE L[j].type = "CLR"
  <2>1. ClrSound(L, j)
    BY <1>1, <1>4 DEF Sound, PrefixSound, RecordSound
  <2>2. PICK c, k \in 1 .. j - 1 :
            /\ Runs(L, t, c, j - 1) /\ IsLast(L, t, j - 1, k)
            /\ Resume(L, k) \in c + 1 .. j - 1 /\ L[Resume(L, k)].txn = t
            /\ L[Resume(L, k)].type = "UPDATE" /\ L[j].undoNext = L[Resume(L, k)].prev
    BY <1>1, <2>1 DEF ClrSound
  <2>3. b \in 1 .. j - 1
    BY <1>1, <1>4
  <2>4. c = b
    <3>1. j - 1 \in Nat /\ j - 1 \in b..n
      BY <1>1, <2>3
    <3>2. Runs(L, t, b, j - 1)
      BY <3>1, RunsSince
    <3> QED BY <2>2, <3>1, <3>2, RunsOnce
  <2>r. PICK r \in b + 1 .. j - 1 : r = Resume(L, k)
    BY <2>2, <2>4
  <2>5. UpdateSound(L, r)
    BY <1>1, <2>2, <2>r DEF Sound, PrefixSound, RecordSound
  <2>6. PICK d \in 1 .. r - 1 : Runs(L, t, d, r - 1) /\ Forward(L, t, d, r - 1)
    BY <2>2, <2>5, <2>r DEF UpdateSound
  <2>7. d = b
    <3>1. b \in 1 .. r - 1 /\ r - 1 \in Nat /\ r - 1 \in b .. n
      BY <1>1, <2>3, <2>r
    <3>2. Runs(L, t, b, r - 1)
      BY <3>1, RunsSince
    <3> QED BY <2>6, <3>1, <3>2, RunsOnce
  <2>8. IsLast(L, t, r - 1, L[r].prev)
    BY <2>2, <2>5, <2>r DEF UpdateSound
  <2>9. Resume(L, j) = L[r].prev
    BY <1>4, <2>2, <2>r DEF Resume
  <2>10. L[r].prev \in b .. r - 1 /\ L[L[r].prev].txn = t
    BY <1>1, <2>3, <2>r, <2>8 DEF IsLast
  <2>11. L[r].prev = b \/ L[L[r].prev].type = "UPDATE"
    BY <2>6, <2>7, <2>10 DEF Forward
  <2> QED BY <1>1, <1>4, <2>9, <2>10, <2>11, <2>r
<1> QED BY <1>3, <1>4

(* The effect of one more record.                                          *)

LEMMA OthersRun ==
    ASSUME NEW L, NEW n \in Nat, NEW t, L[n + 1].txn # t, NEW b
    PROVE  Runs(L, t, b, n + 1) <=> Runs(L, t, b, n)
<1>1. ASSUME Runs(L, t, b, n + 1) PROVE Runs(L, t, b, n)
  BY <1>1 DEF Runs
<1>2. ASSUME Runs(L, t, b, n) PROVE Runs(L, t, b, n + 1)
  BY <1>2 DEF Runs
<1> QED BY <1>1, <1>2

LEMMA OthersLast ==
    ASSUME NEW L, NEW n \in Nat, NEW t, L[n + 1].txn # t, NEW j
    PROVE  IsLast(L, t, n + 1, j) <=> IsLast(L, t, n, j)
BY DEF IsLast

LEMMA BegunRuns ==
    ASSUME NEW L, NEW n \in Nat, L[n + 1].type = "BEGIN", NEW b
    PROVE  Runs(L, L[n + 1].txn, b, n + 1) <=> b = n + 1
BY DEF Runs, IsPageUpdateRecord

LEMMA EndedDoesNotRun ==
    ASSUME NEW L, NEW n \in Nat, L[n + 1].type \in {"COMMIT", "ABORT"}, NEW b
    PROVE  ~Runs(L, L[n + 1].txn, b, n + 1)
BY DEF Runs, IsPageUpdateRecord

LEMMA WriterRuns ==
    ASSUME NEW L, NEW n \in Nat, IsPageUpdateRecord(L[n + 1]), NEW t, NEW b
    PROVE  Runs(L, t, b, n + 1) <=> Runs(L, t, b, n)
<1>1. ASSUME Runs(L, t, b, n + 1) PROVE Runs(L, t, b, n)
  BY <1>1 DEF Runs, IsPageUpdateRecord
<1>2. ASSUME Runs(L, t, b, n) PROVE Runs(L, t, b, n + 1)
  BY <1>2 DEF Runs
<1> QED BY <1>1, <1>2

LEMMA NewIsLast ==
    ASSUME NEW L, NEW n \in Nat, NEW j
    PROVE  IsLast(L, L[n + 1].txn, n + 1, j) <=> j = n + 1
BY DEF IsLast

LEMMA OthersOn ==
    ASSUME NEW L, NEW n \in Nat, NEW p, ~OnPage(L, n + 1, p), NEW v
    PROVE  Holds(L, p, n + 1, v) <=> Holds(L, p, n, v)
<1>1. ASSUME NEW k PROVE LastOn(L, p, n + 1, k) <=> LastOn(L, p, n, k)
  BY DEF LastOn
<1>2. ASSUME NEW k, LastOn(L, p, n, k) PROVE k \in 1..n
  BY <1>2 DEF LastOn
<1>3. (\A k \in 1 .. n + 1 : ~OnPage(L, k, p)) <=> (\A k \in 1..n : ~OnPage(L, k, p))
  OBVIOUS
<1>4. (\E k \in 1 .. n + 1 : LastOn(L, p, n + 1, k) /\ L[k].after = v)
        <=> (\E k \in 1..n : LastOn(L, p, n, k) /\ L[k].after = v)
  BY <1>1, <1>2
<1> QED BY <1>3, <1>4 DEF Holds

LEMMA NewHolds ==
    ASSUME NEW L, NEW n \in Nat, NEW p, OnPage(L, n + 1, p)
    PROVE  Holds(L, p, n + 1, L[n + 1].after)
<1>1. LastOn(L, p, n + 1, n + 1)
  BY DEF LastOn
<1> QED BY <1>1 DEF Holds

LEMMA HoldsOne ==
    ASSUME NEW L, NEW n \in Nat, NEW p, NEW v, NEW w, Holds(L, p, n, v), Holds(L, p, n, w)
    PROVE  v = w
<1>1. ASSUME NEW k, NEW i, LastOn(L, p, n, k), LastOn(L, p, n, i) PROVE k = i
  BY <1>1 DEF LastOn
<1>2. ASSUME NEW k, LastOn(L, p, n, k) PROVE k \in 1..n /\ OnPage(L, k, p)
  BY <1>2 DEF LastOn
<1> QED BY <1>1, <1>2 DEF Holds

(* A commit is one of the records since, and only COMMIT adds commits.     *)
LEMMA OthersCommitted ==
    ASSUME NEW L, NEW n \in Nat, L[n + 1].type # "COMMIT", NEW i \in 1 .. n + 1
    PROVE  CommittedAt(L, i, n + 1) <=> i \in 1..n /\ CommittedAt(L, i, n)
BY DEF CommittedAt

LEMMA OthersCommittedTo ==
    ASSUME NEW L, NEW n \in Nat, L[n + 1].type # "COMMIT", NEW p, NEW v
    PROVE  CommittedTo(L, p, n + 1, v) <=> CommittedTo(L, p, n, v)
<1>1. ASSUME NEW w PROVE CommittedWrite(L, p, n + 1, w) <=> CommittedWrite(L, p, n, w)
  BY OthersCommitted DEF CommittedWrite
<1>2. ASSUME NEW w, CommittedWrite(L, p, n, w) PROVE w \in 1..n
  BY <1>2 DEF CommittedWrite
<1>3. (\A w \in 1 .. n + 1 : ~CommittedWrite(L, p, n + 1, w))
        <=> (\A w \in 1..n : ~CommittedWrite(L, p, n, w))
  BY <1>1, <1>2
<1>4. ASSUME NEW w \in 1..n
      PROVE  (\A x \in w + 1 .. n + 1 : ~CommittedWrite(L, p, n + 1, x))
                <=> (\A x \in w + 1 .. n : ~CommittedWrite(L, p, n, x))
  BY <1>1, <1>2
<1>5. (\E w \in 1 .. n + 1 : /\ CommittedWrite(L, p, n + 1, w) /\ L[w].after = v
                             /\ \A x \in w + 1 .. n + 1 : ~CommittedWrite(L, p, n + 1, x))
        <=> (\E w \in 1..n : /\ CommittedWrite(L, p, n, w) /\ L[w].after = v
                             /\ \A x \in w + 1 .. n : ~CommittedWrite(L, p, n, x))
  BY <1>1, <1>2, <1>4
<1> QED BY <1>3, <1>5 DEF CommittedTo

LEMMA ExclusiveGrows ==
    ASSUME NEW L, NEW n \in Nat, IsLog(L, n + 1), Sound(L, n), RecordSound(L, n + 1)
    PROVE  Exclusive(L, n + 1)
<1> SUFFICES ASSUME NEW t \in Txn, NEW u \in Txn, NEW b \in 1 .. n + 1, NEW c \in 1 .. n + 1,
                    NEW k \in 1 .. n + 1, NEW m \in 1 .. n + 1,
                    t # u, Runs(L, t, b, n + 1), Runs(L, u, c, n + 1),
                    k > b, L[k].txn = t, m > c, L[m].txn = u, L[k].page = L[m].page
             PROVE  FALSE
  BY DEF Exclusive
<1>1. IsPageUpdateRecord(L[k]) /\ IsPageUpdateRecord(L[m])
  BY DEF Runs
<1>2. b \in 1..n /\ c \in 1..n
  OBVIOUS
<1>3. Runs(L, t, b, n) /\ Runs(L, u, c, n)
  BY <1>2, RunsSince
<1>4. Exclusive(L, n)
  BY DEF Sound, PrefixSound
<1>5. CASE k \in 1..n /\ m \in 1..n
  BY <1>2, <1>3, <1>4, <1>5 DEF Exclusive
<1>6. ASSUME NEW x \in Txn, NEW y \in Txn, NEW d \in 1..n, NEW e \in 1..n, NEW i \in 1..n,
             x # y, Runs(L, x, d, n), Runs(L, y, e, n), i > e, L[i].txn = y,
             L[n + 1].txn = x, IsPageUpdateRecord(L[n + 1]), L[n + 1].page = L[i].page
      PROVE  FALSE
  <2>1. CASE L[n + 1].type = "UPDATE"
    <3>1. UpdateSound(L, n + 1)
      BY <2>1 DEF RecordSound
    <3>2. (n + 1) - 1 = n
      OBVIOUS
    <3>3. \A z \in Txn, f, l \in 1..n :
            z # L[n + 1].txn /\ Runs(L, z, f, n) /\ l > f /\ L[l].txn = z => L[l].page # L[n + 1].page
      BY <3>1, <3>2 DEF UpdateSound
    <3> QED BY <1>6, <3>3
  <2>2. CASE L[n + 1].type = "CLR"
    <3>1. ClrSound(L, n + 1)
      BY <2>2 DEF RecordSound
    <3>2. (n + 1) - 1 = n
      OBVIOUS
    <3>3. PICK f, j \in 1..n :
            /\ Runs(L, x, f, n)
            /\ Resume(L, j) \in f + 1 .. n /\ L[Resume(L, j)].txn = x
            /\ L[Resume(L, j)].page = L[n + 1].page
      BY <1>6, <3>1, <3>2 DEF ClrSound
    <3>r. PICK r \in f + 1 .. n : r = Resume(L, j)
      BY <3>3
    <3> QED BY <1>4, <1>6, <3>3, <3>r DEF Exclusive
  <2> QED BY <1>6, <2>1, <2>2 DEF IsPageUpdateRecord
<1>7. CASE k = n + 1 /\ m \in 1..n
  BY <1>1, <1>2, <1>3, <1>6, <1>7
<1>8. CASE m = n + 1 /\ k \in 1..n
  BY <1>1, <1>2, <1>3, <1>6, <1>8
<1>9. ~(k = n + 1 /\ m = n + 1)
  OBVIOUS
<1> QED BY <1>5, <1>7, <1>8, <1>9

(* Which updates are left to undo, after one more record.                  *)

LEMMA OthersPending ==
    ASSUME NEW L, NEW n \in Nat, NEW t, L[n + 1].txn # t, NEW p, NEW e
    PROVE  Pending(L, n + 1, t, p, e) <=> Pending(L, n, t, p, e)
<1>1. ASSUME NEW b PROVE Runs(L, t, b, n + 1) <=> Runs(L, t, b, n)
  BY OthersRun
<1>2. ASSUME NEW j PROVE IsLast(L, t, n + 1, j) <=> IsLast(L, t, n, j)
  BY OthersLast
<1>3. ASSUME NEW b, Runs(L, t, b, n) PROVE b \in 1..n
  BY <1>3 DEF Runs
<1>4. ASSUME NEW j, IsLast(L, t, n, j) PROVE j \in 1..n
  BY <1>4 DEF IsLast
<1>5. ASSUME Pending(L, n + 1, t, p, e) PROVE Pending(L, n, t, p, e)
  <2>1. PICK b, j \in 1 .. n + 1 :
            /\ Runs(L, t, b, n + 1) /\ IsLast(L, t, n + 1, j)
            /\ e \in b + 1 .. Resume(L, j) /\ e <= n + 1
            /\ L[e].txn = t /\ L[e].type = "UPDATE" /\ L[e].page = p
    BY <1>5 DEF Pending
  <2>2. b \in 1..n /\ j \in 1..n /\ Runs(L, t, b, n) /\ IsLast(L, t, n, j)
    BY <1>1, <1>2, <1>3, <1>4, <2>1
  <2>3. e # n + 1 /\ e \in Int
    BY <2>1
  <2>4. e <= n
    BY <2>1, <2>3
  <2> QED BY <2>1, <2>2, <2>4 DEF Pending
<1>6. ASSUME Pending(L, n, t, p, e) PROVE Pending(L, n + 1, t, p, e)
  <2>1. PICK b, j \in 1..n :
            /\ Runs(L, t, b, n) /\ IsLast(L, t, n, j)
            /\ e \in b + 1 .. Resume(L, j) /\ e <= n
            /\ L[e].txn = t /\ L[e].type = "UPDATE" /\ L[e].page = p
    BY <1>6 DEF Pending
  <2>2. b \in 1 .. n + 1 /\ j \in 1 .. n + 1 /\ e <= n + 1
    BY <2>1
  <2> QED BY <1>1, <1>2, <2>1, <2>2 DEF Pending
<1> QED BY <1>5, <1>6

LEMMA PendingAfterUpdate ==
    ASSUME NEW L, NEW n \in Nat, IsLog(L, n + 1), Sound(L, n), RecordSound(L, n + 1),
           L[n + 1].type = "UPDATE", NEW p, NEW e
    PROVE  Pending(L, n + 1, L[n + 1].txn, p, e)
             <=> Pending(L, n, L[n + 1].txn, p, e) \/ (e = n + 1 /\ L[n + 1].page = p)
<1> DEFINE t == L[n + 1].txn
<1>1. (n + 1) - 1 = n /\ UpdateSound(L, n + 1)
  BY DEF RecordSound
<1>2. PICK b \in 1..n : Runs(L, t, b, n) /\ Forward(L, t, b, n)
  BY <1>1 DEF UpdateSound
<1>3. PICK j \in 1..n : IsLast(L, t, n, j)
  BY <1>1 DEF UpdateSound, IsLast
<1>4. Runs(L, t, b, n + 1) /\ IsLast(L, t, n + 1, n + 1)
  BY <1>2, WriterRuns, NewIsLast DEF IsPageUpdateRecord
<1>5. Resume(L, j) = j
  <2>1. j >= b
    BY <1>2, <1>3 DEF Runs, IsLast
  <2> QED BY <1>2, <1>3, <2>1 DEF Forward, Runs, IsLast, Resume
<1>6. Resume(L, n + 1) = n + 1
  BY DEF Resume
<1>7. Pending(L, n, t, p, e) <=>
        e \in b + 1 .. n /\ L[e].txn = t /\ L[e].type = "UPDATE" /\ L[e].page = p
  <2>1. ASSUME e \in b + 1 .. n, L[e].txn = t PROVE e <= j
    BY <1>3, <2>1 DEF IsLast
  <2>2. ASSUME NEW c \in 1..n, NEW k \in 1..n, Runs(L, t, c, n), IsLast(L, t, n, k)
        PROVE  c = b /\ k = j
    BY <1>2, <1>3, <2>2, RunsOnce, OneLast
  <2>3. ASSUME Pending(L, n, t, p, e)
        PROVE  e \in b + 1 .. n /\ L[e].txn = t /\ L[e].type = "UPDATE" /\ L[e].page = p
    BY <1>5, <2>2, <2>3 DEF Pending
  <2>4. ASSUME e \in b + 1 .. n, L[e].txn = t, L[e].type = "UPDATE", L[e].page = p
        PROVE  Pending(L, n, t, p, e)
    BY <1>2, <1>3, <1>5, <2>1, <2>4 DEF Pending
  <2> QED BY <2>3, <2>4
<1>8. Pending(L, n + 1, t, p, e) <=>
        e \in b + 1 .. n + 1 /\ L[e].txn = t /\ L[e].type = "UPDATE" /\ L[e].page = p
  <2>2. ASSUME NEW c \in 1 .. n + 1, NEW k \in 1 .. n + 1, Runs(L, t, c, n + 1),
               IsLast(L, t, n + 1, k)
        PROVE  c = b /\ k = n + 1
    BY <1>4, <2>2, RunsOnce, OneLast
  <2>3. ASSUME Pending(L, n + 1, t, p, e)
        PROVE  e \in b + 1 .. n + 1 /\ L[e].txn = t /\ L[e].type = "UPDATE" /\ L[e].page = p
    BY <1>6, <2>2, <2>3 DEF Pending
  <2>4. ASSUME e \in b + 1 .. n + 1, L[e].txn = t, L[e].type = "UPDATE", L[e].page = p
        PROVE  Pending(L, n + 1, t, p, e)
    BY <1>4, <1>6, <2>4 DEF Pending
  <2> QED BY <2>3, <2>4
<1>9. b + 1 .. n + 1 = (b + 1 .. n) \cup {n + 1}
  OBVIOUS
<1> HIDE DEF t
<1>10. L[n + 1].txn = t
  BY DEF t
<1> QED BY <1>7, <1>8, <1>9, <1>10

(* A compensation record takes away the update it compensates, the last    *)
(* one that was left to undo.                                              *)
LEMMA PendingAfterClr ==
    ASSUME NEW L, NEW n \in Nat, IsLog(L, n + 1), Sound(L, n), RecordSound(L, n + 1),
           L[n + 1].type = "CLR"
    PROVE  \E r \in 1..n :
             /\ L[r].txn = L[n + 1].txn /\ L[r].type = "UPDATE"
             /\ L[r].page = L[n + 1].page /\ L[n + 1].after = L[r].before
             /\ Pending(L, n, L[n + 1].txn, L[r].page, r)
             /\ \A p, e : Pending(L, n, L[n + 1].txn, p, e) => e <= r
             /\ \A p, e : Pending(L, n + 1, L[n + 1].txn, p, e)
                            <=> Pending(L, n, L[n + 1].txn, p, e) /\ e # r
<1> DEFINE t == L[n + 1].txn
<1>1. (n + 1) - 1 = n /\ ClrSound(L, n + 1)
  BY DEF RecordSound
<1>2. PICK b, j \in 1..n :
        /\ Runs(L, t, b, n) /\ IsLast(L, t, n, j)
        /\ Resume(L, j) \in b + 1 .. n /\ L[Resume(L, j)].txn = t
        /\ L[Resume(L, j)].type = "UPDATE" /\ L[Resume(L, j)].page = L[n + 1].page
        /\ L[n + 1].after = L[Resume(L, j)].before /\ L[n + 1].undoNext = L[Resume(L, j)].prev
  BY <1>1 DEF ClrSound
<1>r. PICK r \in b + 1 .. n : r = Resume(L, j)
  BY <1>2
<1>3. Runs(L, t, b, n + 1) /\ IsLast(L, t, n + 1, n + 1)
  BY <1>2, WriterRuns, NewIsLast DEF IsPageUpdateRecord
<1>4. UpdateSound(L, r)
  BY <1>2, <1>r DEF Sound, PrefixSound, RecordSound
<1>q. PICK q \in 1 .. r - 1 : q = L[r].prev /\ IsLast(L, t, r - 1, q)
  BY <1>2, <1>4, <1>r DEF UpdateSound, IsLast
<1>5. Resume(L, n + 1) = q
  BY <1>2, <1>r, <1>q DEF Resume
<1>6. ASSUME NEW p, NEW e
      PROVE  Pending(L, n, t, p, e) <=>
               e \in b + 1 .. r /\ L[e].txn = t /\ L[e].type = "UPDATE" /\ L[e].page = p
  <2>2. ASSUME NEW c \in 1..n, NEW k \in 1..n, Runs(L, t, c, n), IsLast(L, t, n, k)
        PROVE  c = b /\ k = j
    BY <1>2, <2>2, RunsOnce, OneLast
  <2>3. ASSUME Pending(L, n, t, p, e)
        PROVE  e \in b + 1 .. r /\ L[e].txn = t /\ L[e].type = "UPDATE" /\ L[e].page = p
    BY <1>r, <2>2, <2>3 DEF Pending
  <2>4. ASSUME e \in b + 1 .. r, L[e].txn = t, L[e].type = "UPDATE", L[e].page = p
        PROVE  Pending(L, n, t, p, e)
    BY <1>2, <1>r, <2>4 DEF Pending
  <2> QED BY <2>3, <2>4
<1>7. ASSUME NEW p, NEW e
      PROVE  Pending(L, n + 1, t, p, e) <=>
               e \in b + 1 .. q /\ L[e].txn = t /\ L[e].type = "UPDATE" /\ L[e].page = p
  <2>2. ASSUME NEW c \in 1 .. n + 1, NEW k \in 1 .. n + 1, Runs(L, t, c, n + 1),
               IsLast(L, t, n + 1, k)
        PROVE  c = b /\ k = n + 1
    BY <1>3, <2>2, RunsOnce, OneLast
  <2>3. ASSUME Pending(L, n + 1, t, p, e)
        PROVE  e \in b + 1 .. q /\ L[e].txn = t /\ L[e].type = "UPDATE" /\ L[e].page = p
    BY <1>5, <2>2, <2>3 DEF Pending
  <2>4. ASSUME e \in b + 1 .. q, L[e].txn = t, L[e].type = "UPDATE", L[e].page = p
        PROVE  Pending(L, n + 1, t, p, e)
    BY <1>3, <1>5, <2>4 DEF Pending
  <2> QED BY <2>3, <2>4
<1>8. ASSUME NEW e \in b + 1 .. r, L[e].txn = t, e # r PROVE e \in b + 1 .. q
  BY <1>8, <1>q DEF IsLast
<1>9. ASSUME NEW e \in b + 1 .. q PROVE e \in b + 1 .. r /\ e # r
  BY <1>9
<1> HIDE DEF t
<1>10. L[n + 1].txn = t
  BY DEF t
<1>11. L[r].txn = t /\ L[r].type = "UPDATE" /\ L[r].page = L[n + 1].page
       /\ L[n + 1].after = L[r].before
  BY <1>2, <1>r
<1>12. Pending(L, n, t, L[r].page, r)
  BY <1>6, <1>11
<1>13. \A p, e : Pending(L, n, t, p, e) => e <= r
  BY <1>6
<1>14. \A p, e : Pending(L, n + 1, t, p, e) <=> Pending(L, n, t, p, e) /\ e # r
  BY <1>6, <1>7, <1>8, <1>9
<1> QED BY <1>10, <1>11, <1>12, <1>13, <1>14

LEMMA PendingOfEnded ==
    ASSUME NEW L, NEW n \in Nat, L[n + 1].type \in {"BEGIN", "COMMIT", "ABORT"}, NEW p, NEW e
    PROVE  ~Pending(L, n + 1, L[n + 1].txn, p, e)
<1> SUFFICES ASSUME Pending(L, n + 1, L[n + 1].txn, p, e) PROVE FALSE
  OBVIOUS
<1>1. PICK b, j \in 1 .. n + 1 :
        /\ Runs(L, L[n + 1].txn, b, n + 1) /\ IsLast(L, L[n + 1].txn, n + 1, j)
        /\ e \in b + 1 .. Resume(L, j) /\ e <= n + 1
  BY DEF Pending
<1>2. CASE L[n + 1].type \in {"COMMIT", "ABORT"}
  BY <1>1, <1>2, EndedDoesNotRun
<1>3. CASE L[n + 1].type = "BEGIN"
  <2>1. b = n + 1
    BY <1>1, <1>3, BegunRuns
  <2> QED BY <1>1, <2>1
<1> QED BY <1>2, <1>3

LEMMA PendingBeforeEnd ==
    ASSUME NEW L, NEW n \in Nat, IsLog(L, n + 1), RecordSound(L, n + 1),
           L[n + 1].type \in {"BEGIN", "ABORT"}, NEW p, NEW e
    PROVE  ~Pending(L, n, L[n + 1].txn, p, e)
<1> SUFFICES ASSUME Pending(L, n, L[n + 1].txn, p, e) PROVE FALSE
  OBVIOUS
<1>0. (n + 1) - 1 = n
  OBVIOUS
<1>1. PICK b, j \in 1..n :
        /\ Runs(L, L[n + 1].txn, b, n) /\ IsLast(L, L[n + 1].txn, n, j)
        /\ e \in b + 1 .. Resume(L, j)
  BY DEF Pending
<1>2. CASE L[n + 1].type = "BEGIN"
  BY <1>0, <1>1, <1>2 DEF RecordSound, BeginSound
<1>3. CASE L[n + 1].type = "ABORT"
  <2>1. PICK c, k \in 1..n : /\ Runs(L, L[n + 1].txn, c, n) /\ IsLast(L, L[n + 1].txn, n, k)
                             /\ Resume(L, k) = c
    BY <1>0, <1>3 DEF RecordSound, AbortSound
  <2>2. c = b /\ k = j
    BY <1>1, <2>1, RunsOnce, OneLast
  <2> QED BY <1>1, <2>1, <2>2
<1> QED BY <1>2, <1>3

(* Records that change neither a page nor what is committed.               *)
LEMMA RestorableUnlessWritten ==
    ASSUME NEW L, NEW n \in Nat, IsLog(L, n + 1), Sound(L, n), RecordSound(L, n + 1),
           L[n + 1].type \in {"BEGIN", "ABORT", "BEGIN_CHECKPOINT", "END_CHECKPOINT"}
    PROVE  Restorable(L, n + 1)
<1>1. Restorable(L, n)
  BY DEF Sound, PrefixSound
<1>2. ASSUME NEW t \in Txn, NEW p, NEW e
      PROVE  Pending(L, n + 1, t, p, e) <=> Pending(L, n, t, p, e)
  <2>1. CASE L[n + 1].txn # t
    BY <2>1, OthersPending
  <2>2. CASE L[n + 1].txn = t
    <3>1. L[n + 1] \in LogRecord
      BY DEF IsLog
    <3>2. L[n + 1].type \in {"BEGIN", "ABORT"}
      BY <2>2, <3>1, RecordFields, WalTxnAssumption DEF NoTxn
    <3> QED BY <2>2, <3>2, PendingOfEnded, PendingBeforeEnd
  <2> QED BY <2>1, <2>2
<1>3. ASSUME NEW t, NEW p, NEW e, Pending(L, n, t, p, e) PROVE e \in 1..n
  BY <1>3 DEF Pending
<1>4. ASSUME NEW p, NEW v PROVE Holds(L, p, n + 1, v) <=> Holds(L, p, n, v)
  BY OthersOn DEF OnPage, IsPageUpdateRecord
<1>5. ASSUME NEW p, NEW v PROVE CommittedTo(L, p, n + 1, v) <=> CommittedTo(L, p, n, v)
  BY OthersCommittedTo
<1> SUFFICES ASSUME NEW p \in Page, NEW v \in Nat, CommittedTo(L, p, n, v)
             PROVE  /\ \A t \in Txn, e \in 1 .. n + 1 :
                        /\ Pending(L, n + 1, t, p, e)
                        /\ \A x \in 1 .. e - 1 : ~Pending(L, n + 1, t, p, x)
                        => L[e].before = v
                    /\ \/ Holds(L, p, n + 1, v)
                       \/ \E t \in Txn, e \in 1 .. n + 1 : Pending(L, n + 1, t, p, e)
  BY <1>5 DEF Restorable
<1>6. /\ \A t \in Txn, e \in 1..n :
            Pending(L, n, t, p, e) /\ (\A x \in 1 .. e - 1 : ~Pending(L, n, t, p, x))
            => L[e].before = v
      /\ Holds(L, p, n, v) \/ \E t \in Txn, e \in 1..n : Pending(L, n, t, p, e)
  BY <1>1 DEF Restorable
<1>7. ASSUME NEW t \in Txn, NEW e \in 1 .. n + 1, Pending(L, n + 1, t, p, e),
             \A x \in 1 .. e - 1 : ~Pending(L, n + 1, t, p, x)
      PROVE  L[e].before = v
  BY <1>2, <1>3, <1>6, <1>7
<1>8. Holds(L, p, n + 1, v) \/ \E t \in Txn, e \in 1 .. n + 1 : Pending(L, n + 1, t, p, e)
  BY <1>2, <1>3, <1>4, <1>6
<1> QED BY <1>7, <1>8

LEMMA RestorableAfterUpdate ==
    ASSUME NEW L, NEW n \in Nat, IsLog(L, n + 1), Sound(L, n), RecordSound(L, n + 1),
           L[n + 1].type = "UPDATE"
    PROVE  Restorable(L, n + 1)
<1>1. Restorable(L, n)
  BY DEF Sound, PrefixSound
<1>2. (n + 1) - 1 = n /\ UpdateSound(L, n + 1)
  BY DEF RecordSound
<1>3. ASSUME NEW t, NEW p, NEW e, Pending(L, n, t, p, e) PROVE e \in 1..n
  BY <1>3 DEF Pending
<1> SUFFICES ASSUME NEW p \in Page, NEW v \in Nat, CommittedTo(L, p, n, v)
             PROVE  /\ \A t \in Txn, e \in 1 .. n + 1 :
                        /\ Pending(L, n + 1, t, p, e)
                        /\ \A x \in 1 .. e - 1 : ~Pending(L, n + 1, t, p, x)
                        => L[e].before = v
                    /\ \/ Holds(L, p, n + 1, v)
                       \/ \E t \in Txn, e \in 1 .. n + 1 : Pending(L, n + 1, t, p, e)
  BY OthersCommittedTo DEF Restorable
<1>4. /\ \A t \in Txn, e \in 1..n :
            Pending(L, n, t, p, e) /\ (\A x \in 1 .. e - 1 : ~Pending(L, n, t, p, x))
            => L[e].before = v
      /\ Holds(L, p, n, v) \/ \E t \in Txn, e \in 1..n : Pending(L, n, t, p, e)
  BY <1>1 DEF Restorable
<1>w. PICK w \in Txn : w = L[n + 1].txn
  BY RecordFields DEF IsLog
<1>5. ASSUME NEW e
      PROVE  Pending(L, n + 1, w, p, e) <=> Pending(L, n, w, p, e) \/ (e = n + 1 /\ L[n + 1].page = p)
  BY <1>w, PendingAfterUpdate
<1>6. ASSUME NEW t \in Txn, t # w, NEW e
      PROVE  Pending(L, n + 1, t, p, e) <=> Pending(L, n, t, p, e)
  BY <1>w, <1>6, OthersPending
<1>7. CASE L[n + 1].page # p
  <2>1. ASSUME NEW t \in Txn, NEW e PROVE Pending(L, n + 1, t, p, e) <=> Pending(L, n, t, p, e)
    BY <1>5, <1>6, <1>7
  <2>2. Holds(L, p, n + 1, v) <=> Holds(L, p, n, v)
    BY <1>7, OthersOn DEF OnPage
  <2>3. ASSUME NEW t \in Txn, NEW e \in 1 .. n + 1, Pending(L, n + 1, t, p, e),
               \A x \in 1 .. e - 1 : ~Pending(L, n + 1, t, p, x)
        PROVE  L[e].before = v
    BY <1>3, <1>4, <2>1, <2>3
  <2>4. Holds(L, p, n + 1, v) \/ \E t \in Txn, e \in 1 .. n + 1 : Pending(L, n + 1, t, p, e)
    BY <1>3, <1>4, <2>1, <2>2
  <2> QED BY <2>3, <2>4
<1>8. CASE L[n + 1].page = p
  <2>1. ASSUME NEW t \in Txn, t # w, NEW e PROVE ~Pending(L, n, t, p, e)
    <3> SUFFICES ASSUME Pending(L, n, t, p, e) PROVE FALSE
      OBVIOUS
    <3>1. PICK b \in 1..n : Runs(L, t, b, n) /\ e > b /\ L[e].txn = t /\ L[e].page = p
      BY DEF Pending
    <3>2. e \in 1..n
      BY <1>3
    <3> QED BY <1>2, <1>8, <1>w, <2>1, <3>1, <3>2 DEF UpdateSound
  <2>2. ASSUME NEW t \in Txn, NEW e \in 1 .. n + 1, Pending(L, n + 1, t, p, e),
               \A x \in 1 .. e - 1 : ~Pending(L, n + 1, t, p, x)
        PROVE  L[e].before = v
    <3>1. t = w
      BY <1>6, <2>1, <2>2
    <3>2. CASE e = n + 1
      <4>1. \A x : ~Pending(L, n, w, p, x)
        BY <1>3, <1>5, <2>2, <3>1, <3>2
      <4>2. Holds(L, p, n, v)
        BY <1>4, <2>1, <4>1
      <4>3. Holds(L, p, n, L[n + 1].before)
        BY <1>2, <1>8 DEF UpdateSound
      <4> QED BY <3>2, <4>2, <4>3, HoldsOne
    <3>3. CASE e # n + 1
      BY <1>4, <1>5, <2>2, <3>1, <3>3
    <3> QED BY <3>2, <3>3
  <2>3. Pending(L, n + 1, w, p, n + 1)
    BY <1>5, <1>8
  <2>4. n + 1 \in 1 .. n + 1
    OBVIOUS
  <2> QED BY <2>2, <2>3, <2>4
<1> QED BY <1>7, <1>8

LEMMA RestorableAfterClr ==
    ASSUME NEW L, NEW n \in Nat, IsLog(L, n + 1), Sound(L, n), RecordSound(L, n + 1),
           L[n + 1].type = "CLR"
    PROVE  Restorable(L, n + 1)
<1>1. Restorable(L, n)
  BY DEF Sound, PrefixSound
<1>3. ASSUME NEW t, NEW p, NEW e, Pending(L, n, t, p, e) PROVE e \in 1..n /\ L[e].page = p
  BY <1>3 DEF Pending
<1> SUFFICES ASSUME NEW p \in Page, NEW v \in Nat, CommittedTo(L, p, n, v)
             PROVE  /\ \A t \in Txn, e \in 1 .. n + 1 :
                        /\ Pending(L, n + 1, t, p, e)
                        /\ \A x \in 1 .. e - 1 : ~Pending(L, n + 1, t, p, x)
                        => L[e].before = v
                    /\ \/ Holds(L, p, n + 1, v)
                       \/ \E t \in Txn, e \in 1 .. n + 1 : Pending(L, n + 1, t, p, e)
  BY OthersCommittedTo DEF Restorable
<1>4. /\ \A t \in Txn, e \in 1..n :
            Pending(L, n, t, p, e) /\ (\A x \in 1 .. e - 1 : ~Pending(L, n, t, p, x))
            => L[e].before = v
      /\ Holds(L, p, n, v) \/ \E t \in Txn, e \in 1..n : Pending(L, n, t, p, e)
  BY <1>1 DEF Restorable
<1>w. PICK w \in Txn : w = L[n + 1].txn
  BY RecordFields DEF IsLog
<1>r. PICK r \in 1..n :
        /\ L[r].page = L[n + 1].page /\ L[n + 1].after = L[r].before
        /\ Pending(L, n, w, L[r].page, r)
        /\ \A q, e : Pending(L, n, w, q, e) => e <= r
        /\ \A q, e : Pending(L, n + 1, w, q, e) <=> Pending(L, n, w, q, e) /\ e # r
  BY <1>w, PendingAfterClr
<1>6. ASSUME NEW t \in Txn, t # w, NEW e
      PROVE  Pending(L, n + 1, t, p, e) <=> Pending(L, n, t, p, e)
  BY <1>w, <1>6, OthersPending
<1>7. CASE L[n + 1].page # p
  <2>1. ASSUME NEW t \in Txn, NEW e PROVE Pending(L, n + 1, t, p, e) <=> Pending(L, n, t, p, e)
    BY <1>3, <1>r, <1>6, <1>7
  <2>2. Holds(L, p, n + 1, v) <=> Holds(L, p, n, v)
    BY <1>7, OthersOn DEF OnPage
  <2>3. ASSUME NEW t \in Txn, NEW e \in 1 .. n + 1, Pending(L, n + 1, t, p, e),
               \A x \in 1 .. e - 1 : ~Pending(L, n + 1, t, p, x)
        PROVE  L[e].before = v
    BY <1>3, <1>4, <2>1, <2>3
  <2>4. Holds(L, p, n + 1, v) \/ \E t \in Txn, e \in 1 .. n + 1 : Pending(L, n + 1, t, p, e)
    BY <1>3, <1>4, <2>1, <2>2
  <2> QED BY <2>3, <2>4
<1>8. CASE L[n + 1].page = p
  <2>1. ASSUME NEW t \in Txn, NEW e \in 1 .. n + 1, Pending(L, n + 1, t, p, e),
               \A x \in 1 .. e - 1 : ~Pending(L, n + 1, t, p, x)
        PROVE  L[e].before = v
    <3>1. Pending(L, n, t, p, e) /\ e \in 1..n
      BY <1>3, <1>6, <1>r, <2>1
    <3>2. \A x \in 1 .. e - 1 : ~Pending(L, n, t, p, x)
      <4>1. CASE t # w
        BY <1>6, <2>1, <4>1
      <4>2. CASE t = w
        BY <1>r, <2>1, <3>1, <4>2
      <4> QED BY <4>1, <4>2
    <3> QED BY <1>4, <3>1, <3>2
  <2>2. ASSUME \A t \in Txn, e \in 1 .. n + 1 : ~Pending(L, n + 1, t, p, e)
        PROVE  Holds(L, p, n + 1, v)
    <3>1. \A x \in 1 .. r - 1 : ~Pending(L, n, w, p, x)
      BY <1>r, <2>2
    <3>2. L[r].before = v
      BY <1>4, <1>8, <1>r, <3>1
    <3> QED BY <1>8, <1>r, <3>2, NewHolds DEF OnPage, IsPageUpdateRecord
  <2> QED BY <2>1, <2>2
<1> QED BY <1>7, <1>8

LEMMA CommittedToOne ==
    ASSUME NEW L, NEW n \in Nat, NEW p, NEW v, NEW w, CommittedTo(L, p, n, v),
           CommittedTo(L, p, n, w)
    PROVE  v = w
<1>1. ASSUME NEW x, CommittedWrite(L, p, n, x) PROVE x \in 1..n
  BY <1>1 DEF CommittedWrite
<1>2. ASSUME NEW x \in 1..n, NEW y \in 1..n, CommittedWrite(L, p, n, x), CommittedWrite(L, p, n, y),
             \A z \in x + 1 .. n : ~CommittedWrite(L, p, n, z),
             \A z \in y + 1 .. n : ~CommittedWrite(L, p, n, z)
      PROVE  x = y
  BY <1>2
<1> QED BY <1>1, <1>2 DEF CommittedTo

(* COMMIT commits the updates of its transaction and no others.            *)
LEMMA NewlyCommitted ==
    ASSUME NEW L, NEW n \in Nat, L[n + 1].type = "COMMIT", NEW b,
           Runs(L, L[n + 1].txn, b, n), NEW i \in 1..n
    PROVE  CommittedAt(L, i, n + 1)
             <=> CommittedAt(L, i, n) \/ (L[i].txn = L[n + 1].txn /\ i >= b)
<1>1. ASSUME CommittedAt(L, i, n + 1), ~CommittedAt(L, i, n)
      PROVE  L[i].txn = L[n + 1].txn /\ i >= b
  <2>1. PICK c \in i .. n + 1 :
            /\ L[c].type = "COMMIT" /\ L[c].txn = L[i].txn
            /\ \A d \in i..c : ~(d # i /\ L[d].type = "BEGIN" /\ L[d].txn = L[i].txn)
    BY <1>1 DEF CommittedAt
  <2>2. c = n + 1
    BY <1>1, <2>1 DEF CommittedAt
  <2> QED BY <2>1, <2>2 DEF Runs
<1>2. ASSUME CommittedAt(L, i, n) PROVE CommittedAt(L, i, n + 1)
  BY <1>2 DEF CommittedAt
<1>3. ASSUME L[i].txn = L[n + 1].txn, i >= b PROVE CommittedAt(L, i, n + 1)
  <2>1. \A d \in i .. n + 1 : ~(d # i /\ L[d].type = "BEGIN" /\ L[d].txn = L[i].txn)
    BY <1>3 DEF Runs, IsPageUpdateRecord
  <2>2. n + 1 \in i .. n + 1
    OBVIOUS
  <2> QED BY <1>3, <2>1, <2>2 DEF CommittedAt
<1> QED BY <1>1, <1>2, <1>3

(* The last record of a page that a running transaction wrote is its own.  *)
LEMMA LastWriteIsOwn ==
    ASSUME NEW L, NEW n \in Nat, IsLog(L, n), Sound(L, n), NEW t \in Txn, NEW b,
           Runs(L, t, b, n), NEW w \in 1..n, w > b, L[w].txn = t, NEW k, LastOn(L, L[w].page, n, k)
    PROVE  k \in w..n /\ L[k].txn = t
<1>1. IsPageUpdateRecord(L[w]) /\ b \in 1..n
  BY DEF Runs
<1>2. k \in w..n /\ OnPage(L, k, L[w].page)
  BY <1>1 DEF LastOn, OnPage
<1> SUFFICES ASSUME L[k].txn # t PROVE FALSE
  BY <1>2
<1>3. L[k] \in LogRecord /\ IsPageUpdateRecord(L[k]) /\ L[k].page = L[w].page /\ k > w
  BY <1>2 DEF IsLog, OnPage
<1>4. L[k].txn \in Txn
  BY <1>3, RecordFields DEF IsPageUpdateRecord
<1>5. PICK c \in 1 .. k - 1 : Runs(L, L[k].txn, c, k - 1)
  <2>1. RecordSound(L, k)
    BY <1>2 DEF Sound, PrefixSound
  <2>2. CASE L[k].type = "UPDATE"
    BY <2>1, <2>2 DEF RecordSound, UpdateSound
  <2>3. CASE L[k].type = "CLR"
    BY <2>1, <2>3 DEF RecordSound, ClrSound
  <2> QED BY <1>3, <2>2, <2>3 DEF IsPageUpdateRecord
<1>6. Runs(L, L[k].txn, c, k)
  <2>1. k - 1 \in Nat /\ (k - 1) + 1 = k
    BY <1>2
  <2> QED BY <1>3, <1>5, <2>1, WriterRuns
<1>7. Runs(L, t, b, k)
  BY <1>1, <1>2, RunsSince
<1>8. Exclusive(L, k)
  BY <1>2 DEF Sound, PrefixSound
<1>9. b \in 1..k /\ c \in 1..k /\ w \in 1..k /\ k \in 1..k /\ k > c
  BY <1>1, <1>2, <1>3, <1>5
<1> QED BY <1>3, <1>4, <1>6, <1>7, <1>8, <1>9 DEF Exclusive

LEMMA RestorableAfterCommit ==
    ASSUME NEW L, NEW n \in Nat, IsLog(L, n + 1), Sound(L, n), RecordSound(L, n + 1),
           L[n + 1].type = "COMMIT"
    PROVE  Restorable(L, n + 1)
<1>1. Restorable(L, n) /\ Exclusive(L, n) /\ IsLog(L, n)
  BY DEF Sound, PrefixSound, IsLog
<1>2. (n + 1) - 1 = n /\ CommitSound(L, n + 1)
  BY DEF RecordSound
<1>t. PICK t \in Txn : t = L[n + 1].txn
  BY RecordFields DEF IsLog
<1>b. PICK b \in 1..n : Runs(L, t, b, n) /\ Forward(L, t, b, n)
  BY <1>2, <1>t DEF CommitSound
<1>3. ASSUME NEW u, NEW p, NEW e, Pending(L, n, u, p, e)
      PROVE  e \in 1..n /\ \E c \in 1..n : Runs(L, u, c, n) /\ e > c /\ L[e].txn = u
                                         /\ L[e].page = p /\ L[e].type = "UPDATE"
  BY <1>3 DEF Pending
<1>4. ASSUME NEW p, NEW e PROVE ~Pending(L, n + 1, t, p, e)
  BY <1>t, PendingOfEnded
<1>5. ASSUME NEW u \in Txn, u # t, NEW p, NEW e
      PROVE  Pending(L, n + 1, u, p, e) <=> Pending(L, n, u, p, e)
  BY <1>t, <1>5, OthersPending
<1> SUFFICES ASSUME NEW p \in Page, NEW v \in Nat, CommittedTo(L, p, n + 1, v)
             PROVE  /\ \A u \in Txn, e \in 1 .. n + 1 :
                        /\ Pending(L, n + 1, u, p, e)
                        /\ \A x \in 1 .. e - 1 : ~Pending(L, n + 1, u, p, x)
                        => L[e].before = v
                    /\ \/ Holds(L, p, n + 1, v)
                       \/ \E u \in Txn, e \in 1 .. n + 1 : Pending(L, n + 1, u, p, e)
  BY DEF Restorable
<1>6. ASSUME NEW i \in 1..n
      PROVE  CommittedAt(L, i, n + 1) <=> CommittedAt(L, i, n) \/ (L[i].txn = t /\ i >= b)
  BY <1>t, <1>b, NewlyCommitted
<1>7. CASE \E w \in b + 1 .. n : L[w].txn = t /\ L[w].page = p
  <2>w. PICK w \in b + 1 .. n : L[w].txn = t /\ L[w].page = p
    BY <1>7
  <2>1. w \in 1..n /\ w > b /\ L[w].type = "UPDATE"
    BY <1>b, <2>w DEF Forward
  <2>2. PICK k \in w..n : LastOn(L, p, n, k)
    BY <2>1, <2>w, LastOnExists DEF OnPage, IsPageUpdateRecord
  <2>3. L[k].txn = t
    BY <1>1, <1>b, <2>1, <2>2, <2>w, LastWriteIsOwn
  <2>4. L[k].type = "UPDATE" /\ k \in 1..n /\ k > b /\ L[k].page = p
    BY <1>b, <2>1, <2>2, <2>3 DEF Forward, LastOn, OnPage
  <2>5. CommittedWrite(L, p, n + 1, k)
    BY <1>6, <2>3, <2>4 DEF CommittedWrite
  <2>6. ASSUME NEW x \in k + 1 .. n + 1 PROVE ~CommittedWrite(L, p, n + 1, x)
    BY <2>2 DEF CommittedWrite, LastOn, OnPage, IsPageUpdateRecord
  <2>7. CommittedTo(L, p, n + 1, L[k].after)
    <3>1. k \in 1 .. n + 1
      BY <2>4
    <3> QED BY <2>5, <2>6, <3>1 DEF CommittedTo
  <2>8. v = L[k].after
    BY <2>7, CommittedToOne
  <2>9. Holds(L, p, n + 1, v)
    <3>1. Holds(L, p, n, v)
      BY <2>2, <2>4, <2>8 DEF Holds
    <3> QED BY <3>1, OthersOn DEF OnPage, IsPageUpdateRecord
  <2>10. ASSUME NEW u \in Txn, NEW e, Pending(L, n + 1, u, p, e) PROVE FALSE
    <3>1. u # t /\ Pending(L, n, u, p, e)
      BY <1>4, <1>5, <2>10
    <3>2. PICK c \in 1..n : Runs(L, u, c, n) /\ e > c /\ L[e].txn = u /\ L[e].page = p
      BY <1>3, <3>1
    <3>3. e \in 1..n
      BY <1>3, <3>1
    <3> QED BY <1>1, <1>b, <2>1, <2>w, <3>1, <3>2, <3>3 DEF Exclusive
  <2> QED BY <2>9, <2>10
<1>8. CASE \A w \in b + 1 .. n : ~(L[w].txn = t /\ L[w].page = p)
  <2>1. ASSUME NEW w PROVE CommittedWrite(L, p, n + 1, w) <=> CommittedWrite(L, p, n, w)
    <3>1. CASE w \in 1..n
      <4>1. ASSUME L[w].txn = t, w >= b, L[w].type = "UPDATE", L[w].page = p PROVE FALSE
        <5>1. w # b
          BY <1>b, <4>1 DEF Runs
        <5> QED BY <1>8, <3>1, <4>1, <5>1
      <4> QED BY <1>6, <3>1, <4>1 DEF CommittedWrite
    <3>2. CASE w \notin 1..n
      BY <3>2 DEF CommittedWrite
    <3> QED BY <3>1, <3>2
  <2>2. CommittedTo(L, p, n, v)
    <3>1. ASSUME NEW w, CommittedWrite(L, p, n, w) PROVE w \in 1..n
      BY <3>1 DEF CommittedWrite
    <3>2. CASE v = 0 /\ \A w \in 1 .. n + 1 : ~CommittedWrite(L, p, n + 1, w)
      BY <2>1, <3>2 DEF CommittedTo
    <3>3. ASSUME NEW w \in 1 .. n + 1, CommittedWrite(L, p, n + 1, w), L[w].after = v,
                 \A x \in w + 1 .. n + 1 : ~CommittedWrite(L, p, n + 1, x)
          PROVE  CommittedTo(L, p, n, v)
      BY <2>1, <3>1, <3>3 DEF CommittedTo
    <3> QED BY <3>2, <3>3 DEF CommittedTo
  <2>3. /\ \A u \in Txn, e \in 1..n :
            Pending(L, n, u, p, e) /\ (\A x \in 1 .. e - 1 : ~Pending(L, n, u, p, x))
            => L[e].before = v
        /\ Holds(L, p, n, v) \/ \E u \in Txn, e \in 1..n : Pending(L, n, u, p, e)
    BY <1>1, <2>2 DEF Restorable
  <2>4. ASSUME NEW e PROVE ~Pending(L, n, t, p, e)
    <3> SUFFICES ASSUME Pending(L, n, t, p, e) PROVE FALSE
      OBVIOUS
    <3>1. PICK c \in 1..n : Runs(L, t, c, n) /\ e > c /\ L[e].txn = t /\ L[e].page = p
      BY <1>3
    <3>2. e \in 1..n /\ c = b
      BY <1>3, <1>b, <3>1, RunsOnce
    <3> QED BY <1>8, <3>1, <3>2
  <2>5. ASSUME NEW u \in Txn, NEW e PROVE Pending(L, n + 1, u, p, e) <=> Pending(L, n, u, p, e)
    BY <1>4, <1>5, <2>4
  <2>6. Holds(L, p, n + 1, v) <=> Holds(L, p, n, v)
    BY OthersOn DEF OnPage, IsPageUpdateRecord
  <2>7. ASSUME NEW u \in Txn, NEW e \in 1 .. n + 1, Pending(L, n + 1, u, p, e),
               \A x \in 1 .. e - 1 : ~Pending(L, n + 1, u, p, x)
        PROVE  L[e].before = v
    BY <1>3, <2>3, <2>5, <2>7
  <2>8. Holds(L, p, n + 1, v) \/ \E u \in Txn, e \in 1 .. n + 1 : Pending(L, n + 1, u, p, e)
    BY <1>3, <2>3, <2>5, <2>6
  <2> QED BY <2>7, <2>8
<1> QED BY <1>7, <1>8

(* A sound record keeps the log sound.                                     *)
LEMMA LogGrows ==
    ASSUME NEW L, NEW n \in Nat, IsLog(L, n + 1), Sound(L, n), RecordSound(L, n + 1)
    PROVE  Sound(L, n + 1)
<1>1. L[n + 1].type \in {"BEGIN", "COMMIT", "ABORT", "UPDATE", "CLR", "BEGIN_CHECKPOINT",
                         "END_CHECKPOINT"}
  BY RecordFields DEF IsLog
<1>2. Restorable(L, n + 1)
  BY <1>1, RestorableUnlessWritten, RestorableAfterUpdate, RestorableAfterClr,
     RestorableAfterCommit
<1>3. PrefixSound(L, n + 1)
  BY <1>2, ExclusiveGrows DEF PrefixSound
<1> QED BY <1>3 DEF Sound

(* What is said of a prefix depends on the prefix alone.                   *)

Agree(L, M, n) == \A i \in 1..n : M[i] = L[i]

LEMMA SameRuns ==
    ASSUME NEW L, NEW M, NEW n \in Nat, Agree(L, M, n), NEW t, NEW b
    PROVE  Runs(M, t, b, n) <=> Runs(L, t, b, n)
<1>1. \A i \in 1..n : M[i] = L[i]
  BY DEF Agree
<1>2. b \in 1..n => \A i \in b + 1 .. n : i \in 1..n
  OBVIOUS
<1> QED BY <1>1, <1>2 DEF Runs

LEMMA SameLast ==
    ASSUME NEW L, NEW M, NEW n \in Nat, Agree(L, M, n), NEW t, NEW j
    PROVE  /\ IsLast(M, t, n, j) <=> IsLast(L, t, n, j)
           /\ IsLast(L, t, n, j) => j \in 1..n /\ Resume(M, j) = Resume(L, j)
<1>1. \A i \in 1..n : M[i] = L[i]
  BY DEF Agree
<1>2. j \in 1..n => \A i \in j + 1 .. n : i \in 1..n
  OBVIOUS
<1> QED BY <1>1, <1>2 DEF IsLast, Resume

LEMMA SameHolds ==
    ASSUME NEW L, NEW M, NEW n \in Nat, Agree(L, M, n), NEW p, NEW v
    PROVE  Holds(M, p, n, v) <=> Holds(L, p, n, v)
<1>1. \A i \in 1..n : M[i] = L[i] /\ (OnPage(M, i, p) <=> OnPage(L, i, p))
  BY DEF Agree, OnPage
<1>2. ASSUME NEW k \in 1..n PROVE LastOn(M, p, n, k) <=> LastOn(L, p, n, k)
  <2>1. \A i \in k + 1 .. n : i \in 1..n
    OBVIOUS
  <2> QED BY <1>1, <2>1 DEF LastOn
<1> QED BY <1>1, <1>2 DEF Holds

LEMMA SameForward ==
    ASSUME NEW L, NEW M, NEW n \in Nat, Agree(L, M, n), NEW t, NEW b \in 1..n
    PROVE  Forward(M, t, b, n) <=> Forward(L, t, b, n)
<1>1. \A i \in 1..n : M[i] = L[i]
  BY DEF Agree
<1>2. \A i \in b + 1 .. n : i \in 1..n
  OBVIOUS
<1> QED BY <1>1, <1>2 DEF Forward

LEMMA SamePending ==
    ASSUME NEW L, NEW M, NEW n \in Nat, Agree(L, M, n), NEW t, NEW p, NEW e
    PROVE  Pending(M, n, t, p, e) <=> Pending(L, n, t, p, e)
<1>1. ASSUME NEW b, e \in b + 1 .. n PROVE b \in 1..n => M[e] = L[e]
  BY <1>1 DEF Agree
<1>2. ASSUME NEW b \in 1..n, NEW j \in 1..n, IsLast(L, t, n, j)
      PROVE  (e \in b + 1 .. Resume(M, j) /\ e <= n) <=> (e \in b + 1 .. Resume(L, j) /\ e <= n)
  BY <1>2, SameLast
<1>3. ASSUME NEW b \in 1..n, NEW j \in 1..n, e \in b + 1 .. Resume(L, j), e <= n
      PROVE  M[e] = L[e]
  BY <1>3 DEF Agree
<1>4. ASSUME Pending(M, n, t, p, e) PROVE Pending(L, n, t, p, e)
  <2>1. PICK b, j \in 1..n :
            /\ Runs(M, t, b, n) /\ IsLast(M, t, n, j)
            /\ e \in b + 1 .. Resume(M, j) /\ e <= n
            /\ M[e].txn = t /\ M[e].type = "UPDATE" /\ M[e].page = p
    BY <1>4 DEF Pending
  <2>2. Runs(L, t, b, n) /\ IsLast(L, t, n, j)
    BY <2>1, SameRuns, SameLast
  <2>3. e \in b + 1 .. Resume(L, j)
    BY <1>2, <2>1, <2>2
  <2>4. M[e] = L[e]
    BY <1>3, <2>1, <2>3
  <2> QED BY <2>1, <2>2, <2>3, <2>4 DEF Pending
<1>5. ASSUME Pending(L, n, t, p, e) PROVE Pending(M, n, t, p, e)
  <2>1. PICK b, j \in 1..n :
            /\ Runs(L, t, b, n) /\ IsLast(L, t, n, j)
            /\ e \in b + 1 .. Resume(L, j) /\ e <= n
            /\ L[e].txn = t /\ L[e].type = "UPDATE" /\ L[e].page = p
    BY <1>5 DEF Pending
  <2>2. Runs(M, t, b, n) /\ IsLast(M, t, n, j)
    BY <2>1, SameRuns, SameLast
  <2>3. e \in b + 1 .. Resume(M, j)
    BY <1>2, <2>1, <2>2
  <2>4. M[e] = L[e]
    BY <1>3, <2>1
  <2> QED BY <2>1, <2>2, <2>3, <2>4 DEF Pending
<1> QED BY <1>4, <1>5

LEMMA SameCommittedTo ==
    ASSUME NEW L, NEW M, NEW n \in Nat, Agree(L, M, n), NEW p, NEW v
    PROVE  CommittedTo(M, p, n, v) <=> CommittedTo(L, p, n, v)
<1>1. \A i \in 1..n : M[i] = L[i]
  BY DEF Agree
<1>2. ASSUME NEW i \in 1..n PROVE CommittedAt(M, i, n) <=> CommittedAt(L, i, n)
  <2>1. \A c \in i..n : M[c] = L[c] /\ \A b \in i..c : M[b] = L[b]
    BY <1>1
  <2>2. M[i] = L[i]
    BY <1>1
  <2> QED BY <2>1, <2>2 DEF CommittedAt
<1>3. ASSUME NEW w PROVE CommittedWrite(M, p, n, w) <=> CommittedWrite(L, p, n, w)
  BY <1>1, <1>2 DEF CommittedWrite
<1> QED BY <1>1, <1>3 DEF CommittedTo

LEMMA SameCompensatesFirst ==
    ASSUME NEW L, NEW M, NEW n \in Nat, Agree(L, M, n), NEW p, NEW v, CompensatesFirst(L, n, p, v)
    PROVE  CompensatesFirst(M, n, p, v)
<1>1. PICK t \in Txn, b \in 1..n, j \in 1..n :
        /\ Runs(L, t, b, n) /\ IsLast(L, t, n, j) /\ Resume(L, j) \in 1..n
        /\ L[Resume(L, j)].type = "UPDATE" /\ L[Resume(L, j)].page = p
        /\ L[Resume(L, j)].before = v
        /\ \A u \in Txn, c, k \in 1..n :
                Runs(L, u, c, n) /\ IsLast(L, u, n, k) => Resume(L, k) <= Resume(L, j)
  BY DEF CompensatesFirst
<1>2. Runs(M, t, b, n) /\ IsLast(M, t, n, j) /\ Resume(M, j) = Resume(L, j)
  BY <1>1, SameRuns, SameLast
<1>3. M[Resume(M, j)] = L[Resume(L, j)]
  BY <1>1, <1>2 DEF Agree
<1>4. ASSUME NEW u \in Txn, NEW c \in 1..n, NEW k \in 1..n, Runs(M, u, c, n), IsLast(M, u, n, k)
      PROVE  Resume(M, k) <= Resume(M, j)
  BY <1>1, <1>2, <1>4, SameRuns, SameLast
<1> QED BY <1>1, <1>2, <1>3, <1>4 DEF CompensatesFirst

LEMMA SameTxnsSaved ==
    ASSUME NEW L, NEW M, NEW n \in Nat, Agree(L, M, n), NEW txns, TxnsSaved(L, n, txns)
    PROVE  TxnsSaved(M, n, txns)
<1>1. ASSUME NEW t, NEW b PROVE Runs(M, t, b, n) <=> Runs(L, t, b, n)
  BY SameRuns
<1>2. ASSUME NEW t, NEW j PROVE IsLast(M, t, n, j) <=> IsLast(L, t, n, j)
  BY SameLast
<1> QED BY <1>1, <1>2 DEF TxnsSaved

LEMMA SameRecordSound ==
    ASSUME NEW L, NEW M, NEW n \in Nat, Agree(L, M, n + 1), RecordSound(L, n + 1)
    PROVE  RecordSound(M, n + 1)
<1>1. Agree(L, M, n) /\ M[n + 1] = L[n + 1] /\ (n + 1) - 1 = n
  BY DEF Agree
<1>2. \A i \in 1..n : M[i] = L[i]
  BY DEF Agree
<1>3. ASSUME NEW t, NEW b PROVE Runs(M, t, b, n) <=> Runs(L, t, b, n)
  BY <1>1, SameRuns
<1>4. ASSUME NEW t, NEW j
      PROVE  /\ IsLast(M, t, n, j) <=> IsLast(L, t, n, j)
             /\ IsLast(L, t, n, j) => j \in 1..n /\ Resume(M, j) = Resume(L, j)
  BY <1>1, SameLast
<1>5. ASSUME NEW t, NEW b \in 1..n PROVE Forward(M, t, b, n) <=> Forward(L, t, b, n)
  BY <1>1, SameForward
<1>6. L[n + 1].type = "BEGIN" => BeginSound(M, n + 1)
  BY <1>1, <1>3 DEF RecordSound, BeginSound
<1>7. ASSUME L[n + 1].type = "UPDATE" PROVE UpdateSound(M, n + 1)
  <2>1. UpdateSound(L, n + 1)
    BY <1>7 DEF RecordSound
  <2>2. \E b \in 1..n : Runs(M, M[n + 1].txn, b, n) /\ Forward(M, M[n + 1].txn, b, n)
    BY <1>1, <1>3, <1>5, <2>1 DEF UpdateSound
  <2>3. IsLast(M, M[n + 1].txn, n, M[n + 1].prev)
    BY <1>1, <1>4, <2>1 DEF UpdateSound
  <2>4. Holds(M, M[n + 1].page, n, M[n + 1].before)
    BY <1>1, <2>1, SameHolds DEF UpdateSound
  <2>5. \A u \in Txn, c, k \in 1..n :
            u # M[n + 1].txn /\ Runs(M, u, c, n) /\ k > c /\ M[k].txn = u => M[k].page # M[n + 1].page
    BY <1>1, <1>2, <1>3, <2>1 DEF UpdateSound
  <2> QED BY <1>1, <2>2, <2>3, <2>4, <2>5 DEF UpdateSound
<1>8. ASSUME L[n + 1].type = "CLR" PROVE ClrSound(M, n + 1)
  <2>1. PICK b, j \in 1..n :
            /\ Runs(L, L[n + 1].txn, b, n) /\ IsLast(L, L[n + 1].txn, n, j)
            /\ Resume(L, j) \in b + 1 .. n /\ L[Resume(L, j)].txn = L[n + 1].txn
            /\ L[Resume(L, j)].type = "UPDATE" /\ L[Resume(L, j)].page = L[n + 1].page
            /\ L[n + 1].after = L[Resume(L, j)].before /\ L[n + 1].undoNext = L[Resume(L, j)].prev
    BY <1>1, <1>8 DEF RecordSound, ClrSound
  <2>2. Resume(M, j) = Resume(L, j) /\ M[Resume(L, j)] = L[Resume(L, j)]
    BY <1>2, <1>4, <2>1
  <2>3. Runs(M, M[n + 1].txn, b, n) /\ IsLast(M, M[n + 1].txn, n, j)
    BY <1>1, <1>3, <1>4, <2>1
  <2> QED BY <1>1, <2>1, <2>2, <2>3 DEF ClrSound
<1>9. L[n + 1].type = "COMMIT" => CommitSound(M, n + 1)
  BY <1>1, <1>3, <1>5 DEF RecordSound, CommitSound
<1>10. L[n + 1].type = "ABORT" => AbortSound(M, n + 1)
  BY <1>1, <1>3, <1>4 DEF RecordSound, AbortSound
<1>11. ASSUME L[n + 1].type = "END_CHECKPOINT" PROVE EndCheckpointSound(M, n + 1)
  <2>1. n + 1 > 1 /\ L[n].type = "BEGIN_CHECKPOINT" /\ TxnsSaved(L, n, L[n + 1].txns)
    BY <1>1, <1>11 DEF RecordSound, EndCheckpointSound
  <2>2. M[n] = L[n]
    BY <1>2, <2>1
  <2> QED BY <1>1, <2>1, <2>2, SameTxnsSaved DEF EndCheckpointSound
<1> QED BY <1>1, <1>6, <1>7, <1>8, <1>9, <1>10, <1>11 DEF RecordSound

LEMMA SameSound ==
    ASSUME NEW L, NEW M, NEW n \in Nat, Agree(L, M, n), Sound(L, n)
    PROVE  Sound(M, n)
<1> SUFFICES ASSUME NEW m \in 0..n PROVE PrefixSound(M, m)
  BY DEF Sound
<1>1. Agree(L, M, m) /\ PrefixSound(L, m) /\ m \in Nat
  BY DEF Agree, Sound
<1>2. ASSUME m > 0 PROVE RecordSound(M, m)
  <2>1. m - 1 \in Nat /\ (m - 1) + 1 = m
    BY <1>2
  <2>2. RecordSound(L, m)
    BY <1>1, <1>2 DEF PrefixSound
  <2>m. PICK k \in Nat : k + 1 = m
    BY <2>1
  <2> QED BY <1>1, <2>2, <2>m, SameRecordSound
<1>3. Exclusive(M, m)
  <2>1. \A t, b : Runs(M, t, b, m) <=> Runs(L, t, b, m)
    BY <1>1, SameRuns
  <2>2. \A i \in 1..m : M[i] = L[i]
    BY <1>1 DEF Agree
  <2> QED BY <1>1, <2>1, <2>2 DEF PrefixSound, Exclusive
<1>4. Restorable(M, m)
  <2>1. \A t, p, e : Pending(M, m, t, p, e) <=> Pending(L, m, t, p, e)
    BY <1>1, SamePending
  <2>2. \A i \in 1..m : M[i] = L[i]
    BY <1>1 DEF Agree
  <2>3. \A p, v : CommittedTo(M, p, m, v) <=> CommittedTo(L, p, m, v)
    BY <1>1, SameCommittedTo
  <2>4. \A p, v : Holds(M, p, m, v) <=> Holds(L, p, m, v)
    BY <1>1, SameHolds
  <2> QED BY <1>1, <2>1, <2>2, <2>3, <2>4 DEF PrefixSound, Restorable
<1> QED BY <1>2, <1>3, <1>4 DEF PrefixSound

(* The log after an append and after a crash.                              *)

LEMMA Appended ==
    ASSUME NEW L \in Seq(LogRecord), NEW r \in LogRecord, NEW M, M = Append(L, r)
    PROVE  /\ M \in Seq(LogRecord) /\ Len(M) = Len(L) + 1 /\ Len(L) \in Nat
           /\ Agree(L, M, Len(L)) /\ M[Len(L) + 1] = r
           /\ IsLog(L, Len(L)) /\ IsLog(M, Len(L) + 1)
<1>1. M \in Seq(LogRecord) /\ Len(M) = Len(L) + 1 /\ Len(L) \in Nat /\ M[Len(L) + 1] = r
  OBVIOUS
<1>2. \A i \in 1 .. Len(L) : M[i] = L[i]
  OBVIOUS
<1>3. \A i \in 1 .. Len(L) : L[i] \in LogRecord
  OBVIOUS
<1>4. \A i \in 1 .. Len(L) + 1 : M[i] \in LogRecord
  BY <1>1, <1>2, <1>3
<1> QED BY <1>1, <1>2, <1>3, <1>4 DEF Agree, IsLog

LEMMA Truncated ==
    ASSUME NEW L \in Seq(LogRecord), NEW n \in 0 .. Len(L), NEW M, M = SubSeq(L, 1, n)
    PROVE  M \in Seq(LogRecord) /\ Len(M) = n /\ Agree(L, M, n) /\ Agree(M, L, n)
<1>1. M \in Seq(LogRecord) /\ Len(M) = n
  OBVIOUS
<1>2. \A i \in 1..n : M[i] = L[i]
  OBVIOUS
<1> QED BY <1>1, <1>2 DEF Agree

-----------------------------------------------------------------------------
(* The second half: the state of the program and the log.                  *)

OneAtATime == ~Concurrent /\ CrashKinds \subseteq {"power"}

LogSound == Sound(log, Len(log))

-----------------------------------------------------------------------------
(* The state and the log.                                                  *)

Quiet == {"unborn", "idle", "done"}

Running == {"beginning", "idle", "modified", "logged", "rollback", "applying", "rolledback"}

Entry == [state : {"ACTIVE", "COMMITTED", "ABORTED"}, last : Nat]

TypeOK ==
    /\ log \in Seq(LogRecord)
    /\ durable \in 0 .. Len(log) /\ persistent \in 0 .. durable + 1 /\ master \in Nat
    /\ disk \in [Page -> [val : Nat, lsn : Nat]]
    /\ buf \in [Page -> [val : Nat, lsn : Nat]]
    /\ dpt \in [Page -> Nat]
    /\ state \in [Txn -> {"UNBORN", "ACTIVE", "ABORTING", "COMMITTED", "ABORTED"}]
    /\ last \in [Txn -> Nat]
    /\ active \in SUBSET Txn
    /\ pc \in [Txn -> Quiet \cup Running \cup {"committing", "aborting", "ending"}]
    /\ at \in [Txn -> [page : Page \cup {"none"}, before : Nat, undo : Nat]]
    /\ owner \in [Page -> Txn \cup {NoTxn}]
    /\ ckpt \in [pc : {"idle", "begun", "txns", "pages", "ended"}, begin : Nat, end : Nat,
                 txns : SUBSET SavedTxn, pages : SUBSET SavedPage]
    /\ phase \in {"running", "analysis", "redo", "undo"}
    /\ rtab \in [Txn -> Entry]
    /\ rdpt \in [Page -> Nat]
    /\ cursor \in Nat
    /\ todo \in SUBSET [lsn : Nat, txn : Txn]
    /\ counts \in [begins : Nat, writes : Nat, crashes : Nat, checkpoints : Nat]

\* One operation at a time, and none during recovery.
Sequential ==
    /\ \A t, u \in Txn : pc[t] \notin Quiet /\ pc[u] \notin Quiet => t = u
    /\ ckpt.pc # "idle" => \A t \in Txn : pc[t] \in Quiet
    /\ phase # "running" =>
            /\ ckpt.pc = "idle" /\ active = {}
            /\ \A t \in Txn : pc[t] = "unborn" /\ state[t] = "UNBORN"

\* What each thread knows of the log.
ThreadSound(t) ==
    /\ pc[t] \in Running =>
            \E b \in 1 .. Len(log) :
                /\ Runs(log, t, b, Len(log)) /\ IsLast(log, t, Len(log), last[t])
                /\ pc[t] \in {"beginning", "idle", "modified", "logged"} =>
                        Forward(log, t, b, Len(log))
                /\ pc[t] = "rollback" => at[t].undo = Resume(log, last[t])
                /\ pc[t] = "rolledback" => Resume(log, last[t]) = b
    /\ pc[t] \notin Running => \A b \in 1 .. Len(log) : ~Runs(log, t, b, Len(log))
    /\ pc[t] = "modified" =>
            /\ at[t].page \in Page
            /\ owner[at[t].page] = t
    /\ pc[t] = "logged" =>
            /\ at[t].page \in Page
            /\ OnPage(log, last[t], at[t].page)
            /\ buf[at[t].page].lsn = last[t]
    /\ pc[t] = "applying" =>
            /\ at[t].undo \in 1 .. Len(log) /\ log[at[t].undo].type = "UPDATE"
            /\ last[t] = Len(log) /\ log[last[t]].type = "CLR"
            /\ log[last[t]].undoNext = log[at[t].undo].prev
            /\ log[last[t]].page = log[at[t].undo].page
            /\ log[last[t]].after = log[at[t].undo].before
    /\ t \in active <=> pc[t] \notin {"unborn", "beginning", "done"}
    /\ pc[t] \in {"beginning", "idle", "modified", "logged"} => state[t] = "ACTIVE"
    /\ pc[t] = "unborn" => state[t] = "UNBORN"
    /\ pc[t] \notin {"unborn", "ending", "done"} => state[t] \in {"ACTIVE", "ABORTING"}
    /\ pc[t] # "unborn" => Len(log) >= persistent
    /\ pc[t] = "committing" => last[t] <= durable \/ persistent < last[t]
    /\ pc[t] \in {"committing", "aborting"} => last[t] \in 1 .. Len(log)
    /\ state[t] = "COMMITTED" => last[t] <= durable

ThreadsSound == phase = "running" => \A t \in Txn : ThreadSound(t)

\* The pages a running transaction changed are locked by it.
PagesLocked ==
    phase = "running" =>
        \A t \in Txn, b, k \in 1 .. Len(log) :
            Runs(log, t, b, Len(log)) /\ k > b /\ log[k].txn = t => owner[log[k].page] = t

\* The image (v, k) of page p is that of record k, or of the record that the
\* undo pass is about to write.
Logged(p, k, v) ==
    \/ k = 0 /\ v = 0
    \/ k \in 1 .. Len(log) /\ OnPage(log, k, p) /\ log[k].after = v
    \/ /\ k = Len(log) + 1 /\ Len(log) = durable /\ persistent = durable + 1
       /\ CompensatesFirst(log, durable, p, v)

\* Write-ahead logging, as the code does it: a page on disk is not newer than
\* the synced part of the log, the first record after a restart excepted.
\* FlushUpTo takes that one for synced; it would be written again as it was.
DiskSound ==
    /\ \A p \in Page :
            /\ Logged(p, disk[p].lsn, disk[p].val)
            /\ disk[p].lsn <= durable + 1
            /\ disk[p].lsn = durable + 1 =>
                    persistent = durable + 1 /\ CompensatesFirst(log, durable, p, disk[p].val)
    /\ persistent = durable + 1 /\ Len(log) > durable /\ IsPageUpdateRecord(log[durable + 1]) =>
            CompensatesFirst(log, durable, log[durable + 1].page, log[durable + 1].after)

\* The value page p has in the pool, or had before the change under way.
Settled(p) ==
    IF \E t \in Txn : pc[t] = "modified" /\ at[t].page = p
    THEN at[CHOOSE t \in Txn : pc[t] = "modified" /\ at[t].page = p].before
    ELSE buf[p].val

PoolSound ==
    \A p \in Page :
        /\ Logged(p, buf[p].lsn, Settled(p))
        /\ disk[p].lsn <= buf[p].lsn
        /\ dpt[p] = 0 /\ ~Pinned(p) => disk[p] = buf[p]

\* The record is not yet in the page or in the dirty page table.
InFlight(k, where) == \E t \in Txn : pc[t] \in where /\ last[t] = k

\* Running and undoing, the pool has the last image of every page.
UpToDate ==
    phase \in {"running", "undo"} =>
        \A p \in Page, k \in 1 .. Len(log) :
            OnPage(log, k, p) => k <= buf[p].lsn \/ InFlight(k, {"applying"})

\* A page that is older on disk is in the dirty page table.
DirtyPagesCovered ==
    phase = "running" =>
        \A p \in Page, k \in 1 .. Len(log) :
            OnPage(log, k, p) /\ disk[p].lsn < k =>
                \/ dpt[p] # 0 /\ dpt[p] <= k
                \/ InFlight(k, {"logged", "applying"})

\* A checkpoint's dirty pages, in a log of n records before it.
PagesSaved(n, pages) ==
    /\ \A d, e \in pages : d.page = e.page => d = e
    /\ \A p \in Page, k \in 1..n :
            OnPage(log, k, p) /\ disk[p].lsn < k => \E d \in pages : d.page = p /\ d.rec <= k

CheckpointsSound ==
    /\ \A i \in 1 .. Len(log) :
            log[i].type = "END_CHECKPOINT" => PagesSaved(i, log[i].pages)
    /\ master # 0 =>
            /\ master < durable
            /\ log[master].type = "BEGIN_CHECKPOINT" /\ log[master + 1].type = "END_CHECKPOINT"
    /\ ckpt.pc \in {"begun", "txns", "pages"} =>
            ckpt.begin = Len(log) /\ Len(log) > 0 /\ log[Len(log)].type = "BEGIN_CHECKPOINT"
    /\ ckpt.pc \in {"txns", "pages"} => TxnsSaved(log, Len(log), ckpt.txns)
    /\ ckpt.pc = "pages" => PagesSaved(Len(log), ckpt.pages)
    /\ ckpt.pc = "ended" =>
            /\ ckpt.end = Len(log) /\ ckpt.begin = Len(log) - 1 /\ ckpt.begin > 0
            /\ log[ckpt.begin].type = "BEGIN_CHECKPOINT" /\ log[ckpt.end].type = "END_CHECKPOINT"

\* txn_table_ describes the first n records.
TxnTable(n) ==
    \A t \in Txn :
        /\ \A b \in 1..n : Runs(log, t, b, n) =>
                rtab[t].state = "ACTIVE" /\ IsLast(log, t, n, rtab[t].last)
        /\ (\A b \in 1..n : ~Runs(log, t, b, n)) => rtab[t].last = 0 \/ rtab[t].state # "ACTIVE"

\* dirty_page_table_ has every page that is behind the first n records on disk.
PageTable(n) ==
    \A p \in Page, k \in 1..n :
        OnPage(log, k, p) /\ disk[p].lsn < k => rdpt[p] # 0 /\ rdpt[p] <= k

AnalysisSound ==
    phase = "analysis" =>
        /\ buf = disk /\ dpt = NoLSN
        /\ cursor <= Len(log)
        /\ IF master = 0 \/ cursor > master
           THEN TxnTable(cursor) /\ PageTable(cursor)
           ELSE cursor >= master - 1 /\ rtab = ForAllTxns(NoEntry) /\ rdpt = NoLSN

RedoSound ==
    phase = "redo" =>
        /\ TxnTable(Len(log)) /\ PageTable(Len(log))
        /\ \A p \in Page, k \in 1 .. Len(log) :
                k <= cursor /\ OnPage(log, k, p) => k <= buf[p].lsn

UndoSound ==
    /\ phase = "undo" =>
        /\ \A item \in todo :
            \E b \in 1 .. Len(log) :
                /\ Runs(log, item.txn, b, Len(log))
                /\ IsLast(log, item.txn, Len(log), rtab[item.txn].last)
                /\ item.lsn \in {rtab[item.txn].last, Resume(log, rtab[item.txn].last)}
        /\ \A x, y \in todo : x.txn = y.txn => x = y
        /\ \A t \in Txn, b \in 1 .. Len(log) :
                Runs(log, t, b, Len(log)) => \E item \in todo : item.txn = t
    /\ phase # "undo" => todo = {}

RecoveryInv ==
    /\ TypeOK
    /\ Sequential
    /\ LogSound
    /\ ThreadsSound
    /\ PagesLocked
    /\ DiskSound
    /\ PoolSound
    /\ UpToDate
    /\ DirtyPagesCovered
    /\ CheckpointsSound
    /\ AnalysisSound
    /\ RedoSound
    /\ UndoSound

-----------------------------------------------------------------------------
(* The state: what every step needs.                                       *)

LEMMA TypedLog ==
    ASSUME TypeOK
    PROVE  /\ log \in Seq(LogRecord) /\ Len(log) \in Nat /\ IsLog(log, Len(log))
           /\ \A i \in 1 .. Len(log) : log[i] \in LogRecord
           /\ durable \in 0 .. Len(log) /\ durable \in Nat
           /\ persistent \in 0 .. durable + 1 /\ persistent \in Nat
<1>1. log \in Seq(LogRecord) /\ durable \in 0 .. Len(log) /\ persistent \in 0 .. durable + 1
  BY DEF TypeOK
<1>2. Len(log) \in Nat /\ \A i \in 1 .. Len(log) : log[i] \in LogRecord
  BY <1>1
<1> QED BY <1>1, <1>2 DEF IsLog

LEMMA LogSoundAppend ==
    ASSUME TypeOK, LogSound, NEW r \in LogRecord, log' = Append(log, r),
           RecordSound(log', Len(log) + 1)
    PROVE  LogSound'
<1>1. log \in Seq(LogRecord) /\ Len(log) \in Nat /\ Sound(log, Len(log))
  BY TypedLog DEF LogSound
<1>2. Len(log') = Len(log) + 1 /\ Agree(log, log', Len(log)) /\ IsLog(log', Len(log) + 1)
  BY <1>1, Appended
<1>3. Sound(log', Len(log))
  BY <1>1, <1>2, SameSound
<1>4. Sound(log', Len(log) + 1)
  BY <1>1, <1>2, <1>3, LogGrows
<1> QED BY <1>2, <1>4 DEF LogSound

LEMMA LogSoundTruncate ==
    ASSUME TypeOK, LogSound, NEW n \in 0 .. Len(log), log' = SubSeq(log, 1, n)
    PROVE  LogSound'
<1>1. log \in Seq(LogRecord) /\ Len(log) \in Nat /\ Sound(log, n)
  BY TypedLog DEF LogSound, Sound
<1>2. Len(log') = n /\ Agree(log, log', n)
  BY <1>1, Truncated
<1>3. Sound(log', n)
  BY <1>1, <1>2, SameSound
<1> QED BY <1>2, <1>3 DEF LogSound

LEMMA AppendOthers ==
    ASSUME TypeOK, NEW r \in LogRecord, log' = Append(log, r), NEW t, r.txn # t
    PROVE  /\ \A b : Runs(log', t, b, Len(log')) <=> Runs(log, t, b, Len(log))
           /\ \A j : IsLast(log', t, Len(log'), j) <=> IsLast(log, t, Len(log), j)
<1>1. log \in Seq(LogRecord)
  BY TypedLog
<1>2. /\ Len(log') = Len(log) + 1 /\ Len(log) \in Nat /\ Agree(log, log', Len(log))
      /\ log'[Len(log) + 1] = r
  BY <1>1, Appended
<1>3. \A b : Runs(log', t, b, Len(log) + 1) <=> Runs(log', t, b, Len(log))
  BY <1>2, OthersRun
<1>4. \A j : IsLast(log', t, Len(log) + 1, j) <=> IsLast(log', t, Len(log), j)
  BY <1>2, OthersLast
<1>5. \A b : Runs(log', t, b, Len(log)) <=> Runs(log, t, b, Len(log))
  BY <1>2, SameRuns
<1>6. \A j : IsLast(log', t, Len(log), j) <=> IsLast(log, t, Len(log), j)
  BY <1>2, SameLast
<1> QED BY <1>2, <1>3, <1>4, <1>5, <1>6

LEMMA AppendOwn ==
    ASSUME TypeOK, NEW r \in LogRecord, log' = Append(log, r)
    PROVE  /\ IsLast(log', r.txn, Len(log'), Len(log) + 1)
           /\ IsPageUpdateRecord(r) =>
                \A t, b : Runs(log', t, b, Len(log')) <=> Runs(log, t, b, Len(log))
           /\ r.type = "BEGIN" => \A b : Runs(log', r.txn, b, Len(log')) <=> b = Len(log) + 1
           /\ r.type \in {"COMMIT", "ABORT"} => \A b : ~Runs(log', r.txn, b, Len(log'))
<1>1. log \in Seq(LogRecord)
  BY TypedLog
<1>2. /\ Len(log') = Len(log) + 1 /\ Len(log) \in Nat /\ Agree(log, log', Len(log))
      /\ log'[Len(log) + 1] = r
  BY <1>1, Appended
<1>3. IsLast(log', r.txn, Len(log) + 1, Len(log) + 1)
  BY <1>2, NewIsLast
<1>4. ASSUME IsPageUpdateRecord(r), NEW t, NEW b
      PROVE  Runs(log', t, b, Len(log')) <=> Runs(log, t, b, Len(log))
  <2>1. Runs(log', t, b, Len(log) + 1) <=> Runs(log', t, b, Len(log))
    BY <1>2, <1>4, WriterRuns
  <2> QED BY <1>2, <2>1, SameRuns
<1>5. ASSUME r.type = "BEGIN", NEW b
      PROVE  Runs(log', r.txn, b, Len(log')) <=> b = Len(log) + 1
  BY <1>2, <1>5, BegunRuns, ZenonT(60)
<1>6. ASSUME r.type \in {"COMMIT", "ABORT"}, NEW b PROVE ~Runs(log', r.txn, b, Len(log'))
  BY <1>2, <1>6, EndedDoesNotRun
<1> QED BY <1>2, <1>3, <1>4, <1>5, <1>6

(* While the database runs, no page is ahead of the log.                   *)
LEMMA RunningIsLogged ==
    ASSUME TypeOK, ThreadsSound, phase = "running", NEW p, NEW k, NEW v, Logged(p, k, v)
    PROVE  (k = 0 /\ v = 0) \/ (k \in 1 .. Len(log) /\ OnPage(log, k, p) /\ log[k].after = v)
<1> SUFFICES ASSUME Len(log) = durable, persistent = durable + 1, CompensatesFirst(log, durable, p, v)
             PROVE  FALSE
  BY DEF Logged
<1>1. PICK t \in Txn, b \in 1 .. Len(log) : Runs(log, t, b, Len(log))
  BY DEF CompensatesFirst
<1>2. ThreadSound(t)
  BY DEF ThreadsSound
<1>3. pc[t] \in Running
  BY <1>1, <1>2 DEF ThreadSound
<1>4. pc[t] # "unborn"
  BY <1>3 DEF Running
<1>5. Len(log) >= persistent
  BY <1>2, <1>4 DEF ThreadSound
<1> QED BY <1>5, TypedLog

(* What the pool has is what the log says.                                 *)
LEMMA PoolHolds ==
    ASSUME TypeOK, ThreadsSound, PoolSound, UpToDate, phase = "running",
           NEW p \in Page, \A t \in Txn : pc[t] # "applying"
    PROVE  Holds(log, p, Len(log), Settled(p))
<1>1. Logged(p, buf[p].lsn, Settled(p))
  BY DEF PoolSound
<1>2. \A k \in 1 .. Len(log) : OnPage(log, k, p) => k <= buf[p].lsn
  BY DEF UpToDate, InFlight
<1>k. PICK k \in Nat : k = buf[p].lsn
  BY DEF TypeOK
<1>3. Len(log) \in Nat
  BY TypedLog
<1>4. CASE k = 0 /\ Settled(p) = 0
  BY <1>2, <1>3, <1>4, <1>k DEF Holds
<1>5. CASE k \in 1 .. Len(log) /\ OnPage(log, k, p) /\ log[k].after = Settled(p)
  <2>1. LastOn(log, p, Len(log), k)
    BY <1>2, <1>3, <1>5, <1>k DEF LastOn
  <2> QED BY <1>5, <2>1 DEF Holds
<1> QED BY <1>1, <1>4, <1>5, <1>k, RunningIsLogged

(* A thread between operations is not disturbed by others.                 *)
LEMMA QuietThread ==
    ASSUME TypeOK, NEW t \in Txn, ThreadSound(t), pc[t] \in Quiet,
           pc'[t] = pc[t], last'[t] = last[t], state'[t] = state[t],
           t \in active' <=> t \in active,
           durable' \in Nat, durable <= durable',
           Len(log) >= persistent => Len(log') >= persistent',
           \/ log' = log
           \/ \E r \in LogRecord : log' = Append(log, r) /\ r.txn # t
    PROVE  ThreadSound(t)'
<1>n. Len(log) \in Nat /\ durable \in Nat /\ last[t] \in Nat
  BY TypedLog DEF TypeOK
<1>1. /\ \A b : Runs(log', t, b, Len(log')) <=> Runs(log, t, b, Len(log))
      /\ \A j : IsLast(log', t, Len(log'), j) <=> IsLast(log, t, Len(log), j)
      /\ Len(log') \in Nat /\ Len(log) <= Len(log')
      /\ \A i \in 1 .. Len(log) : log'[i] = log[i]
  <2>1. CASE log' = log
    BY <2>1, <1>n
  <2>2. ASSUME NEW r \in LogRecord, log' = Append(log, r), r.txn # t
        PROVE  /\ \A b : Runs(log', t, b, Len(log')) <=> Runs(log, t, b, Len(log))
               /\ \A j : IsLast(log', t, Len(log'), j) <=> IsLast(log, t, Len(log), j)
               /\ Len(log') \in Nat /\ Len(log) <= Len(log')
               /\ \A i \in 1 .. Len(log) : log'[i] = log[i]
    <3>1. Len(log') = Len(log) + 1 /\ Agree(log, log', Len(log))
      BY <2>2, TypedLog, Appended
    <3> QED BY <1>n, <2>2, <3>1, AppendOthers DEF Agree
  <2> QED BY <2>1, <2>2
<1>2. ASSUME NEW b, Runs(log, t, b, Len(log)) PROVE b \in 1 .. Len(log)
  BY <1>2 DEF Runs
<1>3. ASSUME pc[t] \in Running
      PROVE  pc[t] = "idle" /\ \E b \in 1 .. Len(log') :
                /\ Runs(log', t, b, Len(log')) /\ IsLast(log', t, Len(log'), last[t])
                /\ Forward(log', t, b, Len(log'))
  <2>1. pc[t] = "idle"
    BY <1>3 DEF Running, Quiet
  <2>2. PICK b \in 1 .. Len(log) : /\ Runs(log, t, b, Len(log)) /\ IsLast(log, t, Len(log), last[t])
                                   /\ Forward(log, t, b, Len(log))
    BY <1>3, <2>1 DEF ThreadSound
  <2>3. Runs(log', t, b, Len(log')) /\ IsLast(log', t, Len(log'), last[t]) /\ b \in 1 .. Len(log')
    BY <1>1, <1>n, <2>2
  <2>4. Forward(log', t, b, Len(log'))
    <3> SUFFICES ASSUME NEW i \in b + 1 .. Len(log'), log'[i].txn = t PROVE log'[i].type = "UPDATE"
      BY DEF Forward
    <3>1. i \in 1 .. Len(log)
      <4>1. last[t] \in 1 .. Len(log) /\ \A k \in last[t] + 1 .. Len(log') : log'[k].txn # t
        BY <2>2, <2>3 DEF IsLast
      <4> QED BY <1>1, <1>n, <4>1
    <3>2. log'[i] = log[i]
      BY <1>1, <3>1
    <3> QED BY <1>n, <2>2, <3>1, <3>2 DEF Forward
  <2> QED BY <2>1, <2>3, <2>4
<1>4. ASSUME pc[t] \notin Running PROVE \A b \in 1 .. Len(log') : ~Runs(log', t, b, Len(log'))
  BY <1>1, <1>2, <1>4 DEF ThreadSound
<1>5. /\ t \in active <=> pc[t] \notin {"unborn", "beginning", "done"}
      /\ pc[t] \in {"beginning", "idle", "modified", "logged"} => state[t] = "ACTIVE"
      /\ pc[t] = "unborn" => state[t] = "UNBORN"
      /\ pc[t] \notin {"unborn", "ending", "done"} => state[t] \in {"ACTIVE", "ABORTING"}
      /\ pc[t] # "unborn" => Len(log) >= persistent
      /\ state[t] = "COMMITTED" => last[t] <= durable
  BY DEF ThreadSound
<1>6. state[t] = "COMMITTED" => last[t] <= durable'
  BY <1>5, <1>n
<1>7. pc[t] \notin {"modified", "logged", "rollback", "applying", "rolledback", "committing", "aborting"}
  BY DEF Quiet
<1> QED BY <1>3, <1>4, <1>5, <1>6, <1>7 DEF ThreadSound

(* The log was synced, or durable and persistent are as before.            *)
SyncStep ==
    \/ UNCHANGED <<durable, persistent>>
    \/ /\ durable' = Len(log) /\ persistent <= Len(log)
       /\ persistent' \in Nat /\ persistent' <= Len(log)

LEMMA FlushUpToSyncs ==
    ASSUME TypeOK, NEW lsn \in Nat, lsn <= Len(log) \/ lsn <= persistent, FlushUpTo(lsn)
    PROVE  SyncStep
<1>1. Len(log) \in Nat /\ persistent \in Nat
  BY TypedLog
<1> QED BY <1>1 DEF FlushUpTo, SyncStep

LEMMA SyncTyped ==
    ASSUME TypeOK, SyncStep
    PROVE  /\ durable' \in durable .. Len(log) /\ durable' \in Nat
           /\ persistent' \in 0 .. durable' + 1
           /\ persistent <= Len(log) => persistent' <= Len(log)
<1>1. Len(log) \in Nat /\ persistent \in 0 .. durable + 1 /\ durable \in 0 .. Len(log)
  BY TypedLog
<1> QED BY <1>1 DEF SyncStep

LEMMA LoggedSync ==
    ASSUME TypeOK, SyncStep, log' = log, NEW p, NEW k, NEW v, Logged(p, k, v)
    PROVE  Logged(p, k, v)'
<1>1. Len(log) \in Nat /\ persistent \in Nat /\ durable \in Nat
  BY TypedLog
<1>2. CASE k = 0 /\ v = 0
  BY <1>2 DEF Logged
<1>3. CASE k \in 1 .. Len(log) /\ OnPage(log, k, p) /\ log[k].after = v
  BY <1>3 DEF Logged
<1>4. CASE /\ k = Len(log) + 1 /\ Len(log) = durable /\ persistent = durable + 1
           /\ CompensatesFirst(log, durable, p, v)
  <2>1. UNCHANGED <<durable, persistent>>
    BY <1>1, <1>4 DEF SyncStep
  <2> QED BY <1>4, <2>1 DEF Logged
<1> QED BY <1>2, <1>3, <1>4 DEF Logged

(* A page on disk may be replaced by a logged image the log was flushed for. *)
LEMMA DiskAfterFlush ==
    ASSUME TypeOK, DiskSound, SyncStep, log' = log, disk' \in [Page -> [val : Nat, lsn : Nat]],
           \A p \in Page :
             \/ disk'[p] = disk[p]
             \/ /\ Logged(p, disk'[p].lsn, disk'[p].val)
                /\ disk'[p].lsn <= persistent'
    PROVE  DiskSound'
<1>1. Len(log) \in Nat /\ persistent \in 0 .. durable + 1 /\ durable \in 0 .. Len(log) /\ persistent \in Nat
  BY TypedLog
<1>2. durable' \in durable .. Len(log) /\ durable' \in Nat /\ persistent' \in 0 .. durable' + 1
  BY SyncTyped
<1>3. ASSUME NEW p \in Page
      PROVE  /\ Logged(p, disk'[p].lsn, disk'[p].val)
             /\ disk'[p].lsn <= durable' + 1
             /\ disk'[p].lsn = durable' + 1 =>
                    persistent' = durable' + 1 /\ CompensatesFirst(log, durable', p, disk'[p].val)
  <2>k. PICK k \in Nat, v \in Nat : disk'[p] = [val |-> v, lsn |-> k]
    OBVIOUS
  <2>1. CASE UNCHANGED <<durable, persistent>>
    <3>1. CASE disk'[p] = disk[p]
      BY <2>1, <3>1 DEF DiskSound
    <3>2. CASE Logged(p, k, v) /\ k <= persistent'
      <4>1. k <= durable + 1
        BY <1>1, <2>1, <3>2
      <4>2. ASSUME k = durable + 1
            PROVE  persistent = durable + 1 /\ CompensatesFirst(log, durable, p, v)
        <5>1. persistent = durable + 1
          BY <1>1, <2>1, <3>2, <4>2
        <5>2. CASE k \in 1 .. Len(log) /\ OnPage(log, k, p) /\ log[k].after = v
          <6>1. Len(log) > durable /\ IsPageUpdateRecord(log[durable + 1])
            BY <1>1, <4>2, <5>2 DEF OnPage
          <6>2. CompensatesFirst(log, durable, log[durable + 1].page, log[durable + 1].after)
            BY <5>1, <6>1 DEF DiskSound
          <6> QED BY <4>2, <5>1, <5>2, <6>2 DEF OnPage
        <5>3. CASE k = 0 /\ v = 0
          BY <1>1, <4>2, <5>3
        <5> QED BY <3>2, <5>1, <5>2, <5>3 DEF Logged
      <4> QED BY <2>1, <2>k, <3>2, <4>1, <4>2
    <3> QED BY <2>k, <3>1, <3>2
  <2>2. CASE /\ durable' = Len(log) /\ persistent <= Len(log)
             /\ persistent' \in Nat /\ persistent' <= Len(log)
    <3>1. k <= Len(log)
      <4>1. CASE disk'[p] = disk[p]
        <5>1. Logged(p, k, v)
          BY <2>k, <4>1 DEF DiskSound
        <5> QED BY <1>1, <2>2, <5>1 DEF Logged
      <4>2. CASE k <= persistent'
        BY <1>1, <2>2, <4>2
      <4> QED BY <2>k, <4>1, <4>2
    <3>2. Logged(p, k, v)
      <4>1. CASE disk'[p] = disk[p]
        BY <2>k, <4>1 DEF DiskSound
      <4> QED BY <2>k, <4>1
    <3> QED BY <1>1, <2>2, <2>k, <3>1, <3>2
  <2> QED BY <2>1, <2>2 DEF SyncStep
<1>4. ASSUME NEW p \in Page PROVE Logged(p, disk[p].lsn, disk[p].val)'
  <2>k. PICK k \in Nat, v \in Nat : disk'[p] = [val |-> v, lsn |-> k]
    OBVIOUS
  <2>1. Logged(p, k, v)
    BY <1>3, <2>k
  <2>2. Logged(p, k, v)'
    BY <2>1, LoggedSync
  <2> QED BY <2>2, <2>k DEF Logged
<1>5. persistent' = durable' + 1 /\ Len(log) > durable' /\ IsPageUpdateRecord(log[durable' + 1]) =>
            CompensatesFirst(log, durable', log[durable' + 1].page, log[durable' + 1].after)
  <2>1. CASE UNCHANGED <<durable, persistent>>
    BY <2>1 DEF DiskSound
  <2>2. CASE durable' = Len(log)
    BY <1>1, <2>2
  <2> QED BY <2>1, <2>2 DEF SyncStep
<1> QED BY <1>3, <1>4, <1>5 DEF DiskSound

(* If a page is ahead of the log, then by the record r that is written now. *)
Foreseen(r) ==
    Len(log) = durable /\ persistent = durable + 1 =>
        /\ \A p \in Page, v \in Nat :
                CompensatesFirst(log, durable, p, v) =>
                    IsPageUpdateRecord(r) /\ r.page = p /\ r.after = v
        /\ IsPageUpdateRecord(r) => CompensatesFirst(log, durable, r.page, r.after)

LEMMA LoggedAppend ==
    ASSUME TypeOK, NEW r \in LogRecord, log' = Append(log, r), Foreseen(r),
           NEW p \in Page, NEW k, NEW v \in Nat, Logged(p, k, v)
    PROVE  /\ Logged(p, k, v)'
           /\ k \in 0 .. Len(log) + 1
           /\ k = Len(log) + 1 => IsPageUpdateRecord(r) /\ r.page = p
<1>1. /\ Len(log') = Len(log) + 1 /\ Len(log) \in Nat /\ Agree(log, log', Len(log))
      /\ log'[Len(log) + 1] = r
  BY TypedLog, Appended
<1>2. CASE k = 0 /\ v = 0
  BY <1>1, <1>2 DEF Logged
<1>3. CASE k \in 1 .. Len(log) /\ OnPage(log, k, p) /\ log[k].after = v
  <2>1. log'[k] = log[k] /\ k \in 1 .. Len(log')
    BY <1>1, <1>3 DEF Agree
  <2>2. OnPage(log', k, p) /\ log'[k].after = v
    BY <1>3, <2>1 DEF OnPage
  <2> QED BY <1>1, <1>3, <2>1, <2>2 DEF Logged
<1>4. CASE /\ k = Len(log) + 1 /\ Len(log) = durable /\ persistent = durable + 1
           /\ CompensatesFirst(log, durable, p, v)
  <2>1. IsPageUpdateRecord(r) /\ r.page = p /\ r.after = v
    BY <1>4 DEF Foreseen
  <2>2. OnPage(log', k, p) /\ log'[k].after = v /\ k \in 1 .. Len(log')
    BY <1>1, <1>4, <2>1 DEF OnPage
  <2> QED BY <1>1, <1>4, <2>1, <2>2 DEF Logged
<1> QED BY <1>2, <1>3, <1>4 DEF Logged

LEMMA DiskAppend ==
    ASSUME TypeOK, DiskSound, NEW r \in LogRecord, log' = Append(log, r), Foreseen(r),
           disk' = disk,
           UNCHANGED <<durable, persistent>> \/ (durable' = Len(log) + 1 /\ persistent' = Len(log) + 1)
    PROVE  DiskSound'
<1>1. /\ Len(log') = Len(log) + 1 /\ Len(log) \in Nat /\ Agree(log, log', Len(log))
      /\ log'[Len(log) + 1] = r
  BY TypedLog, Appended
<1>2. durable \in 0 .. Len(log) /\ durable \in Nat /\ persistent \in Nat
  BY TypedLog
<1>3. Agree(log, log', durable)
  BY <1>1, <1>2 DEF Agree
<1>d. ASSUME NEW p \in Page PROVE disk[p].lsn \in Nat /\ disk[p].val \in Nat
  BY DEF TypeOK
<1>4. ASSUME NEW p \in Page
      PROVE  /\ Logged(p, disk[p].lsn, disk[p].val)'
             /\ disk[p].lsn <= durable' + 1
             /\ disk[p].lsn = durable' + 1 =>
                  persistent' = durable' + 1 /\ CompensatesFirst(log', durable', p, disk[p].val)
  <2>k. PICK k \in Nat, v \in Nat : k = disk[p].lsn /\ v = disk[p].val
    BY <1>d
  <2>1. Logged(p, k, v) /\ k <= durable + 1
        /\ (k = durable + 1 => persistent = durable + 1 /\ CompensatesFirst(log, durable, p, v))
    BY <2>k DEF DiskSound
  <2>2. Logged(p, k, v)' /\ k \in 0 .. Len(log) + 1
    BY <2>1, LoggedAppend
  <2>3. Logged(p, disk[p].lsn, disk[p].val)'
    BY <2>2, <2>k DEF Logged
  <2>4. CASE UNCHANGED <<durable, persistent>>
    BY <1>2, <1>3, <2>1, <2>3, <2>4, <2>k, SameCompensatesFirst
  <2>5. CASE durable' = Len(log) + 1 /\ persistent' = Len(log) + 1
    BY <1>1, <2>2, <2>3, <2>5, <2>k
  <2> QED BY <2>4, <2>5
<1>5. persistent' = durable' + 1 /\ Len(log') > durable' /\ IsPageUpdateRecord(log'[durable' + 1]) =>
            CompensatesFirst(log', durable', log'[durable' + 1].page, log'[durable' + 1].after)
  <2>1. CASE UNCHANGED <<durable, persistent>>
    <3> SUFFICES ASSUME persistent = durable + 1, IsPageUpdateRecord(log'[durable + 1])
                 PROVE  CompensatesFirst(log, durable, log'[durable + 1].page, log'[durable + 1].after)
      BY <1>2, <1>3, <2>1, SameCompensatesFirst
    <3>1. CASE durable < Len(log)
      <4>1. log'[durable + 1] = log[durable + 1]
        BY <1>1, <1>2, <3>1 DEF Agree
      <4> QED BY <3>1, <4>1 DEF DiskSound
    <3>2. CASE durable = Len(log)
      BY <1>1, <3>2 DEF Foreseen
    <3> QED BY <1>1, <1>2, <3>1, <3>2
  <2>2. CASE durable' = Len(log) + 1 /\ persistent' = Len(log) + 1
    BY <1>1, <2>2
  <2> QED BY <2>1, <2>2
<1> QED BY <1>4, <1>5 DEF DiskSound

(* No thread is between two steps of a change of a page.                   *)
NoneChanging == \A t \in Txn : pc[t] \notin {"modified", "logged", "applying"}

LEMMA NoneChangingMeans ==
    ASSUME NoneChanging
    PROVE  /\ \A p : Settled(p) = buf[p].val /\ ~Pinned(p)
           /\ \A k : ~InFlight(k, {"applying"}) /\ ~InFlight(k, {"logged", "applying"})
BY DEF NoneChanging, Settled, Pinned, InFlight

LEMMA StillPages ==
    ASSUME TypeOK, PoolSound, UpToDate, DirtyPagesCovered, NoneChanging, NoneChanging',
           UNCHANGED <<disk, buf, dpt>>,
           phase' = phase,
           \/ log' = log /\ SyncStep
           \/ \E r \in LogRecord : log' = Append(log, r) /\ ~IsPageUpdateRecord(r) /\ Foreseen(r)
    PROVE  PoolSound' /\ UpToDate' /\ DirtyPagesCovered'
<1>1. /\ \A p : Settled(p) = buf[p].val /\ ~Pinned(p)
      /\ \A k : ~InFlight(k, {"applying"}) /\ ~InFlight(k, {"logged", "applying"})
  BY NoneChangingMeans
<1>2. \A p : Settled(p)' = buf[p].val /\ ~Pinned(p)'
  BY DEF NoneChanging, Settled, Pinned
<1>d. ASSUME NEW p \in Page PROVE buf[p].lsn \in Nat /\ buf[p].val \in Nat
  BY DEF TypeOK
<1>3. ASSUME NEW p \in Page PROVE Logged(p, buf[p].lsn, Settled(p))'
  <2>k. PICK k \in Nat, v \in Nat : k = buf[p].lsn /\ v = buf[p].val
    BY <1>d
  <2>1. Logged(p, k, v)
    BY <1>1, <2>k DEF PoolSound
  <2>2. Logged(p, k, v)'
    BY <2>1, LoggedSync, LoggedAppend
  <2>3. Settled(p)' = v /\ buf'[p].lsn = k
    BY <1>2, <2>k
  <2> QED BY <2>2, <2>3 DEF Logged
<1>4. PoolSound'
  BY <1>1, <1>2, <1>3 DEF PoolSound
<1>5. ASSUME NEW p \in Page, NEW k \in 1 .. Len(log'), OnPage(log', k, p)
      PROVE  k \in 1 .. Len(log) /\ OnPage(log, k, p)
  <2>1. CASE log' = log
    BY <1>5, <2>1
  <2>2. ASSUME NEW r \in LogRecord, log' = Append(log, r), ~IsPageUpdateRecord(r)
        PROVE  k \in 1 .. Len(log) /\ OnPage(log, k, p)
    <3>1. /\ Len(log') = Len(log) + 1 /\ Len(log) \in Nat /\ Agree(log, log', Len(log))
          /\ log'[Len(log) + 1] = r
      BY <2>2, TypedLog, Appended
    <3>2. k # Len(log) + 1
      BY <1>5, <2>2, <3>1 DEF OnPage
    <3>3. k \in 1 .. Len(log) /\ log'[k] = log[k]
      BY <3>1, <3>2 DEF Agree
    <3> QED BY <1>5, <3>3 DEF OnPage
  <2> QED BY <2>1, <2>2
<1>6. UpToDate'
  BY <1>1, <1>5 DEF UpToDate
<1>7. DirtyPagesCovered'
  BY <1>1, <1>5 DEF DirtyPagesCovered
<1> QED BY <1>4, <1>6, <1>7

(* What a checkpoint saved stays true: pages on disk only get newer.       *)
LEMMA SavedStays ==
    ASSUME TypeOK, \A p \in Page : disk'[p].lsn \in Nat /\ disk[p].lsn <= disk'[p].lsn,
           Agree(log, log', Len(log)), NEW n \in 0 .. Len(log), NEW pages, PagesSaved(n, pages)
    PROVE  PagesSaved(n, pages)'
<1>1. ASSUME NEW p \in Page, NEW k \in 1..n, OnPage(log', k, p), disk'[p].lsn < k
      PROVE  \E d \in pages : d.page = p /\ d.rec <= k
  <2>1. OnPage(log, k, p)
    <3>1. k \in 1 .. Len(log)
      BY TypedLog
    <3>2. log'[k] = log[k]
      BY <3>1 DEF Agree
    <3> QED BY <1>1, <3>2 DEF OnPage
  <2>2. disk[p].lsn \in Nat
    BY DEF TypeOK
  <2>3. disk[p].lsn < k
    BY <1>1, <2>2
  <2> QED BY <2>1, <2>3 DEF PagesSaved
<1> QED BY <1>1 DEF PagesSaved

LEMMA CheckpointsStay ==
    ASSUME TypeOK, CheckpointsSound, master' = master, durable' \in Nat, durable <= durable',
           \A p \in Page : disk'[p].lsn \in Nat /\ disk[p].lsn <= disk'[p].lsn,
           Agree(log, log', Len(log))
    PROVE  /\ \A i \in 1 .. Len(log) :
                log'[i].type = "END_CHECKPOINT" => PagesSaved(i, log[i].pages)'
           /\ master # 0 =>
                /\ master < durable'
                /\ log'[master].type = "BEGIN_CHECKPOINT" /\ log'[master + 1].type = "END_CHECKPOINT"
<1>1. ASSUME NEW i \in 1 .. Len(log), log'[i].type = "END_CHECKPOINT"
      PROVE  PagesSaved(i, log[i].pages)'
  <2>1. log'[i] = log[i] /\ PagesSaved(i, log[i].pages) /\ i \in 0 .. Len(log)
    BY <1>1, TypedLog DEF CheckpointsSound, Agree
  <2>p. PICK pages : pages = log[i].pages
    OBVIOUS
  <2>2. PagesSaved(i, pages)'
    BY <2>1, <2>p, SavedStays
  <2> QED BY <2>1, <2>2, <2>p DEF PagesSaved
<1>2. ASSUME master # 0
      PROVE  /\ master < durable'
             /\ log'[master].type = "BEGIN_CHECKPOINT" /\ log'[master + 1].type = "END_CHECKPOINT"
  <2>1. /\ master < durable /\ master \in Nat
        /\ log[master].type = "BEGIN_CHECKPOINT" /\ log[master + 1].type = "END_CHECKPOINT"
    BY <1>2 DEF CheckpointsSound, TypeOK
  <2>2. master \in 1 .. Len(log) /\ master + 1 \in 1 .. Len(log) /\ master < durable'
    <3>1. durable \in 0 .. Len(log) /\ Len(log) \in Nat
      BY TypedLog
    <3> QED BY <1>2, <2>1, <3>1
  <2> QED BY <2>1, <2>2 DEF Agree
<1> QED BY <1>1, <1>2

LEMMA StillCheckpoints ==
    ASSUME TypeOK, CheckpointsSound, master' = master, ckpt' = ckpt,
           durable' \in Nat, durable <= durable',
           \A p \in Page : disk'[p].lsn \in Nat /\ disk[p].lsn <= disk'[p].lsn,
           \/ log' = log
           \/ /\ ckpt.pc = "idle"
              /\ \E r \in LogRecord : log' = Append(log, r) /\ r.type # "END_CHECKPOINT"
    PROVE  CheckpointsSound'
<1>1. /\ Len(log) \in Nat /\ Agree(log, log', Len(log))
      /\ \A i \in 1 .. Len(log') : log'[i].type = "END_CHECKPOINT" => i \in 1 .. Len(log)
  <2>1. CASE log' = log
    BY <2>1, TypedLog DEF Agree
  <2>2. ASSUME NEW r \in LogRecord, log' = Append(log, r), r.type # "END_CHECKPOINT"
        PROVE  /\ Len(log) \in Nat /\ Agree(log, log', Len(log))
               /\ \A i \in 1 .. Len(log') : log'[i].type = "END_CHECKPOINT" => i \in 1 .. Len(log)
    <3>1. /\ Len(log') = Len(log) + 1 /\ Len(log) \in Nat /\ Agree(log, log', Len(log))
          /\ log'[Len(log) + 1] = r
      BY <2>2, TypedLog, Appended
    <3> QED BY <2>2, <3>1
  <2> QED BY <2>1, <2>2
<1>2. /\ \A i \in 1 .. Len(log) : log'[i].type = "END_CHECKPOINT" => PagesSaved(i, log[i].pages)'
      /\ master # 0 =>
            /\ master < durable'
            /\ log'[master].type = "BEGIN_CHECKPOINT" /\ log'[master + 1].type = "END_CHECKPOINT"
  BY <1>1, CheckpointsStay
<1>3. \A i \in 1 .. Len(log') : log'[i].type = "END_CHECKPOINT" => PagesSaved(i, log[i].pages)'
  BY <1>1, <1>2
<1>4. CASE ckpt.pc = "idle"
  BY <1>2, <1>3, <1>4 DEF CheckpointsSound
<1>5. CASE log' = log
  <2>1. ASSUME ckpt.pc = "pages" PROVE PagesSaved(Len(log), ckpt.pages)'
    <3>1. PagesSaved(Len(log), ckpt.pages)
      BY <2>1 DEF CheckpointsSound
    <3>p. PICK n, pages : n = Len(log) /\ pages = ckpt.pages /\ n \in 0 .. Len(log)
      BY <1>1
    <3>2. PagesSaved(n, pages)'
      BY <1>1, <3>1, <3>p, SavedStays
    <3> QED BY <1>5, <3>2, <3>p DEF PagesSaved
  <2> QED BY <1>2, <1>3, <1>5, <2>1 DEF CheckpointsSound
<1> QED BY <1>4, <1>5

-----------------------------------------------------------------------------
(* What the steps keep.                                                    *)

(* While the database runs, no page is ahead of the log.                   *)
LEMMA ForeseenRunning ==
    ASSUME TypeOK, ThreadsSound, phase = "running", NEW r,
           IsPageUpdateRecord(r) => \E t \in Txn : pc[t] # "unborn"
    PROVE  Foreseen(r)
<1> SUFFICES ASSUME Len(log) = durable, persistent = durable + 1
             PROVE  /\ \A p \in Page, v \in Nat : ~CompensatesFirst(log, durable, p, v)
                    /\ ~IsPageUpdateRecord(r)
  BY DEF Foreseen
<1>1. \A t \in Txn : pc[t] = "unborn"
  <2> SUFFICES ASSUME NEW t \in Txn, pc[t] # "unborn" PROVE FALSE
    OBVIOUS
  <2>1. Len(log) >= persistent
    BY DEF ThreadsSound, ThreadSound
  <2> QED BY <2>1, TypedLog
<1>2. ASSUME NEW p \in Page, NEW v \in Nat, CompensatesFirst(log, durable, p, v) PROVE FALSE
  <2>1. PICK t \in Txn, b \in 1 .. Len(log) : Runs(log, t, b, Len(log))
    BY <1>2 DEF CompensatesFirst
  <2>2. pc[t] \notin Running
    BY <1>1 DEF Running
  <2> QED BY <2>1, <2>2 DEF ThreadsSound, ThreadSound
<1> QED BY <1>1, <1>2

(* A record keeps the pages locked if it is not of a page, or its writer   *)
(* has the lock.                                                           *)
LEMMA PagesLockedAppend ==
    ASSUME TypeOK, PagesLocked, phase' = phase, owner' = owner,
           NEW r \in LogRecord, log' = Append(log, r),
           IsPageUpdateRecord(r) => owner[r.page] = r.txn
    PROVE  PagesLocked'
<1> SUFFICES ASSUME phase = "running", NEW t \in Txn, NEW b \in 1 .. Len(log'), NEW k \in 1 .. Len(log'),
                    Runs(log', t, b, Len(log')), k > b, log'[k].txn = t
             PROVE  owner[log'[k].page] = t
  BY DEF PagesLocked
<1>1. /\ Len(log') = Len(log) + 1 /\ Len(log) \in Nat /\ Agree(log, log', Len(log))
      /\ log'[Len(log) + 1] = r
  BY TypedLog, Appended
<1>2. IsPageUpdateRecord(log'[k])
  <2>1. k \in b + 1 .. Len(log')
    BY <1>1
  <2> QED BY <2>1 DEF Runs
<1>3. CASE k = Len(log) + 1
  BY <1>1, <1>2, <1>3
<1>4. CASE k \in 1 .. Len(log)
  <2>1. b \in 1 .. Len(log) /\ log'[k] = log[k]
    BY <1>1, <1>4 DEF Agree
  <2>2. Runs(log', t, b, Len(log))
    <3>1. Len(log') \in Nat /\ Len(log) \in b .. Len(log')
      BY <1>1, <2>1
    <3> QED BY <3>1, RunsSince
  <2>3. Runs(log, t, b, Len(log))
    BY <1>1, <2>2, SameRuns
  <2> QED BY <1>4, <2>1, <2>3 DEF PagesLocked
<1> QED BY <1>1, <1>3, <1>4

LEMMA OtherThreads ==
    ASSUME TypeOK, ThreadsSound, phase = "running", NEW t \in Txn, ThreadSound(t)',
           \A u \in Txn : u # t =>
                /\ pc[u] \in Quiet /\ pc'[u] = pc[u] /\ last'[u] = last[u] /\ state'[u] = state[u]
                /\ u \in active' <=> u \in active,
           durable' \in Nat, durable <= durable',
           Len(log) >= persistent => Len(log') >= persistent',
           \/ log' = log
           \/ \E r \in LogRecord : log' = Append(log, r) /\ r.txn = t
    PROVE  ThreadsSound'
<1>1. ASSUME NEW u \in Txn, u # t PROVE ThreadSound(u)'
  <2>1. ThreadSound(u)
    BY DEF ThreadsSound
  <2>2. \/ log' = log
        \/ \E r \in LogRecord : log' = Append(log, r) /\ r.txn # u
    BY <1>1
  <2> QED BY <1>1, <2>1, <2>2, QuietThread
<1> QED BY <1>1 DEF ThreadsSound

(* Outside recovery its tables do not matter.                              *)
LEMMA NotRecovering ==
    ASSUME UndoSound, phase = "running", phase' = phase, todo' = todo
    PROVE  AnalysisSound' /\ RedoSound' /\ UndoSound'
BY DEF AnalysisSound, RedoSound, UndoSound

LEMMA StaysSequential ==
    ASSUME phase = "running", phase' = phase, NEW t \in Txn, ckpt.pc = "idle", ckpt' = ckpt,
           \A u \in Txn : u # t => pc[u] \in Quiet /\ pc'[u] = pc[u]
    PROVE  Sequential'
BY DEF Sequential

LEMMA OthersQuiet ==
    ASSUME RecoveryInv, NEW t \in Txn, pc[t] \notin Quiet
    PROVE  /\ phase = "running" /\ ckpt.pc = "idle"
           /\ \A u \in Txn : u # t => pc[u] \in Quiet
<1>1. phase = "running"
  BY DEF RecoveryInv, Sequential, Quiet
<1> QED BY <1>1 DEF RecoveryInv, Sequential

LEMMA AllQuiet ==
    ASSUME OneAtATime, MayStart
    PROVE  phase = "running" /\ ckpt.pc = "idle" /\ \A u \in Txn : pc[u] \in Quiet
BY DEF OneAtATime, MayStart, Quiet

(* Steps of a thread that leave the pages alone.                           *)
LEMMA ThreadStep ==
    ASSUME RecoveryInv, NEW t \in Txn, phase = "running", ckpt.pc = "idle",
           NoneChanging, NoneChanging',
           \A u \in Txn : u # t =>
                /\ pc[u] \in Quiet /\ pc'[u] = pc[u] /\ last'[u] = last[u] /\ state'[u] = state[u]
                /\ u \in active' <=> u \in active,
           UNCHANGED <<master, ckpt, phase, todo, disk, buf, dpt>>,
           \/ log' = log /\ SyncStep
           \/ /\ UNCHANGED <<durable, persistent>>
              /\ \E r \in LogRecord :
                    /\ log' = Append(log, r) /\ r.txn = t /\ r.type \in {"BEGIN", "COMMIT", "ABORT"}
                    /\ RecordSound(log', Len(log) + 1),
           TypeOK', ThreadSound(t)', PagesLocked'
    PROVE  RecoveryInv'
<1>0. TypeOK /\ LogSound /\ ThreadsSound /\ DiskSound /\ PoolSound /\ UpToDate /\ DirtyPagesCovered
      /\ CheckpointsSound /\ UndoSound
  BY DEF RecoveryInv
<1>d. \A p \in Page : disk[p].lsn \in Nat
  BY <1>0 DEF TypeOK
<1>n. Len(log) \in Nat /\ persistent \in Nat /\ durable \in Nat
  BY <1>0, TypedLog
<1>1. Sequential' /\ AnalysisSound' /\ RedoSound' /\ UndoSound'
  BY <1>0, NotRecovering, StaysSequential
<1>2. CASE log' = log /\ SyncStep
  <2>1. durable' \in Nat /\ durable <= durable' /\ (Len(log) >= persistent => Len(log') >= persistent')
    <3>1. /\ durable' \in durable .. Len(log) /\ durable' \in Nat
          /\ persistent' \in 0 .. durable' + 1
          /\ persistent <= Len(log) => persistent' <= Len(log)
      BY <1>0, <1>2, SyncTyped
    <3> QED BY <1>2, <1>n, <3>1
  <2>2. ThreadsSound'
    BY <1>0, <1>2, <2>1, OtherThreads
  <2>3. LogSound'
    BY <1>0, <1>2 DEF LogSound
  <2>4. DiskSound'
    <3>1. disk' \in [Page -> [val : Nat, lsn : Nat]]
      BY DEF TypeOK
    <3> QED BY <1>0, <1>2, <3>1, DiskAfterFlush
  <2>5. PoolSound' /\ UpToDate' /\ DirtyPagesCovered'
    BY <1>0, <1>2, StillPages
  <2>6. CheckpointsSound'
    BY <1>0, <1>2, <1>d, <2>1, StillCheckpoints
  <2> QED BY <1>1, <2>2, <2>3, <2>4, <2>5, <2>6 DEF RecoveryInv
<1>3. ASSUME NEW r \in LogRecord, log' = Append(log, r), r.txn = t,
             r.type \in {"BEGIN", "COMMIT", "ABORT"}, RecordSound(log', Len(log) + 1),
             UNCHANGED <<durable, persistent>>
      PROVE  RecoveryInv'
  <2>1. Len(log') = Len(log) + 1 /\ ~IsPageUpdateRecord(r) /\ r.type # "END_CHECKPOINT"
    BY <1>0, <1>3, TypedLog, Appended DEF IsPageUpdateRecord
  <2>2. Foreseen(r)
    BY <1>0, <2>1, ForeseenRunning
  <2>3. ThreadsSound'
    BY <1>0, <1>3, <1>n, <2>1, OtherThreads
  <2>4. LogSound'
    BY <1>0, <1>3, LogSoundAppend
  <2>5. DiskSound'
    BY <1>0, <1>3, <2>2, DiskAppend
  <2>6. PoolSound' /\ UpToDate' /\ DirtyPagesCovered'
    BY <1>0, <1>3, <2>1, <2>2, StillPages
  <2>7. CheckpointsSound'
    BY <1>0, <1>3, <1>d, <1>n, <2>1, StillCheckpoints
  <2> QED BY <1>1, <2>3, <2>4, <2>5, <2>6, <2>7 DEF RecoveryInv
<1> QED BY <1>2, <1>3

LEMMA TypedThread ==
    ASSUME TypeOK, NEW t \in Txn
    PROVE  /\ last[t] \in Nat /\ at[t] \in [page : Page \cup {"none"}, before : Nat, undo : Nat]
           /\ pc \in [Txn -> Quiet \cup Running \cup {"committing", "aborting", "ending"}]
           /\ last \in [Txn -> Nat]
           /\ state \in [Txn -> {"UNBORN", "ACTIVE", "ABORTING", "COMMITTED", "ABORTED"}]
           /\ active \in SUBSET Txn
           /\ at \in [Txn -> [page : Page \cup {"none"}, before : Nat, undo : Nat]]
BY DEF TypeOK

(* The type of a state after an append of a record.                        *)
LEMMA AppendTyped ==
    ASSUME TypeOK, NEW r \in LogRecord, log' = Append(log, r), UNCHANGED <<durable, persistent>>
    PROVE  /\ log' \in Seq(LogRecord)
           /\ durable' \in 0 .. Len(log') /\ persistent' \in 0 .. durable' + 1
           /\ Len(log') = Len(log) + 1 /\ Len(log) + 1 \in Nat
<1>1. log' \in Seq(LogRecord) /\ Len(log') = Len(log) + 1 /\ Len(log) \in Nat
  BY TypedLog, Appended
<1> QED BY <1>1, TypedLog

LEMMA BeginKeepsInv ==
    ASSUME OneAtATime, RecoveryInv, NEW t \in Txn, Begin(t)
    PROVE  RecoveryInv'
<1>0. TypeOK /\ ThreadsSound /\ PagesLocked
  BY DEF RecoveryInv
<1>1. phase = "running" /\ ckpt.pc = "idle" /\ \A u \in Txn : pc[u] \in Quiet
  BY AllQuiet DEF Begin
<1>2. ThreadSound(t) /\ pc[t] = "unborn"
  BY <1>0, <1>1 DEF ThreadsSound, Begin
<1>r. PICK r : r = TxnRecord("BEGIN", t, 0)
  OBVIOUS
<1>3. r \in LogRecord /\ r.txn = t /\ r.type = "BEGIN" /\ log' = Append(log, r)
  BY <1>r DEF Begin, LogForTxn, AppendRecord, TxnRecord, LogRecord
<1>4. /\ Len(log') = Len(log) + 1 /\ Len(log) \in Nat /\ Agree(log, log', Len(log))
      /\ log'[Len(log) + 1] = r
  BY <1>0, <1>3, TypedLog, Appended
<1>5. UNCHANGED <<durable, persistent, master, disk, buf, dpt, active, at, owner, ckpt, phase, todo,
                  rtab, rdpt, cursor>>
  BY DEF Begin, pageVars, recoveryVars
<1>6. /\ last' = [last EXCEPT ![t] = Len(log) + 1] /\ state' = [state EXCEPT ![t] = "ACTIVE"]
      /\ pc' = [pc EXCEPT ![t] = "beginning"]
  BY DEF Begin, LogForTxn, EndLSN, Goto
<1>7. /\ last'[t] = Len(log) + 1 /\ state'[t] = "ACTIVE" /\ pc'[t] = "beginning"
      /\ \A u \in Txn : u # t => last'[u] = last[u] /\ state'[u] = state[u] /\ pc'[u] = pc[u]
  BY <1>0, <1>6, TypedThread
<1>8. TypeOK'
  <2>1. log' \in Seq(LogRecord) /\ durable' \in 0 .. Len(log') /\ persistent' \in 0 .. durable' + 1
        /\ Len(log) + 1 \in Nat
    BY <1>0, <1>3, <1>5, AppendTyped
  <2>2. counts' \in [begins : Nat, writes : Nat, crashes : Nat, checkpoints : Nat]
    <3>1. counts \in [begins : Nat, writes : Nat, crashes : Nat, checkpoints : Nat]
      BY <1>0 DEF TypeOK
    <3>2. counts' = [counts EXCEPT !.begins = @ + 1]
      BY DEF Begin
    <3> QED BY <3>1, <3>2
  <2>3. last' \in [Txn -> Nat]
        /\ state' \in [Txn -> {"UNBORN", "ACTIVE", "ABORTING", "COMMITTED", "ABORTED"}]
        /\ pc' \in [Txn -> Quiet \cup Running \cup {"committing", "aborting", "ending"}]
    BY <1>0, <1>6, <2>1, TypedThread DEF Running
  <2> QED BY <1>0, <1>5, <2>1, <2>2, <2>3 DEF TypeOK
<1>9. RecordSound(log', Len(log) + 1)
  <2>1. ASSUME NEW b \in 1 .. Len(log) PROVE ~Runs(log', t, b, Len(log))
    <3>1. ~Runs(log, t, b, Len(log))
      BY <1>2 DEF ThreadSound, Running
    <3> QED BY <1>4, <3>1, SameRuns
  <2>2. (Len(log) + 1) - 1 = Len(log)
    BY <1>4
  <2> QED BY <1>3, <1>4, <2>1, <2>2 DEF RecordSound, BeginSound
<1>10. ThreadSound(t)'
  <2>1. Runs(log', t, Len(log) + 1, Len(log')) /\ IsLast(log', t, Len(log'), Len(log) + 1)
    BY <1>0, <1>3, AppendOwn
  <2>2. Forward(log', t, Len(log) + 1, Len(log')) /\ Len(log) + 1 \in 1 .. Len(log')
    BY <1>4 DEF Forward
  <2>3. t \notin active
    BY <1>2 DEF ThreadSound
  <2>4. Len(log') >= persistent
    BY <1>0, <1>4, TypedLog
  <2> QED BY <1>5, <1>7, <2>1, <2>2, <2>3, <2>4 DEF ThreadSound, Running
<1>11. PagesLocked'
  BY <1>0, <1>3, <1>5, PagesLockedAppend DEF IsPageUpdateRecord
<1>12. NoneChanging /\ NoneChanging'
  <2>1. \A u \in Txn : pc'[u] \in Quiet \cup {"beginning"}
    BY <1>1, <1>7
  <2> QED BY <1>1, <2>1 DEF NoneChanging, Quiet
<1> QED BY <1>1, <1>3, <1>5, <1>7, <1>8, <1>9, <1>10, <1>11, <1>12, ThreadStep

LEMMA EnterActiveTxnsKeepsInv ==
    ASSUME RecoveryInv, NEW t \in Txn, EnterActiveTxns(t)
    PROVE  RecoveryInv'
<1>0. TypeOK /\ ThreadsSound /\ PagesLocked
  BY DEF RecoveryInv
<1>1. pc[t] = "beginning" /\ pc[t] \notin Quiet
  BY DEF EnterActiveTxns, Quiet
<1>2. phase = "running" /\ ckpt.pc = "idle" /\ \A u \in Txn : u # t => pc[u] \in Quiet
  BY <1>1, OthersQuiet
<1>3. ThreadSound(t)
  BY <1>0, <1>2 DEF ThreadsSound
<1>4. UNCHANGED <<log, durable, persistent, master, disk, buf, dpt, state, last, at, owner, ckpt, phase,
                  todo, rtab, rdpt, cursor, counts>>
  BY DEF EnterActiveTxns, logVars, pageVars, recoveryVars
<1>5. active' = active \cup {t} /\ pc' = [pc EXCEPT ![t] = "idle"]
  BY DEF EnterActiveTxns, Goto
<1>6. pc'[t] = "idle" /\ \A u \in Txn : u # t => pc'[u] = pc[u]
  BY <1>0, <1>5, TypedThread
<1>7. TypeOK'
  <2>1. pc' \in [Txn -> Quiet \cup Running \cup {"committing", "aborting", "ending"}]
    BY <1>0, <1>5, TypedThread DEF Quiet
  <2> QED BY <1>0, <1>4, <1>5, <2>1 DEF TypeOK
<1>8. ThreadSound(t)'
  <2>1. PICK b \in 1 .. Len(log) : /\ Runs(log, t, b, Len(log)) /\ IsLast(log, t, Len(log), last[t])
                                   /\ Forward(log, t, b, Len(log))
    BY <1>1, <1>3 DEF ThreadSound, Running
  <2>2. state[t] = "ACTIVE" /\ Len(log) >= persistent
    BY <1>1, <1>3 DEF ThreadSound
  <2> QED BY <1>4, <1>5, <1>6, <2>1, <2>2 DEF ThreadSound, Running
<1>9. PagesLocked'
  BY <1>0, <1>4 DEF PagesLocked
<1>10. NoneChanging /\ NoneChanging' /\ SyncStep
  <2>1. \A u \in Txn : pc[u] \in Quiet \cup {"beginning"} /\ pc'[u] \in Quiet
    BY <1>1, <1>2, <1>6 DEF Quiet
  <2> QED BY <1>4, <2>1 DEF NoneChanging, Quiet, SyncStep
<1> QED BY <1>2, <1>4, <1>5, <1>6, <1>7, <1>8, <1>9, <1>10, ThreadStep

(* A call by a transaction that is active and between operations.          *)
LEMMA IdleRuns ==
    ASSUME TypeOK, ThreadsSound, phase = "running", NEW t \in Txn, pc[t] = "idle"
    PROVE  /\ \E b \in 1 .. Len(log) : /\ Runs(log, t, b, Len(log)) /\ IsLast(log, t, Len(log), last[t])
                                       /\ Forward(log, t, b, Len(log))
           /\ last[t] \in 1 .. Len(log) /\ t \in active /\ Len(log) >= persistent
<1>1. ThreadSound(t)
  BY DEF ThreadsSound
<1>2. \E b \in 1 .. Len(log) : /\ Runs(log, t, b, Len(log)) /\ IsLast(log, t, Len(log), last[t])
                               /\ Forward(log, t, b, Len(log))
  BY <1>1 DEF ThreadSound, Running
<1>3. last[t] \in 1 .. Len(log)
  BY <1>2 DEF IsLast
<1> QED BY <1>1, <1>2, <1>3 DEF ThreadSound

LEMMA CommitKeepsInv ==
    ASSUME OneAtATime, RecoveryInv, NEW t \in Txn, Commit(t)
    PROVE  RecoveryInv'
<1>0. TypeOK /\ ThreadsSound /\ PagesLocked
  BY DEF RecoveryInv
<1>1. phase = "running" /\ ckpt.pc = "idle" /\ \A u \in Txn : pc[u] \in Quiet
  BY AllQuiet DEF Commit
<1>2. pc[t] = "idle" /\ state[t] = "ACTIVE"
  BY DEF Commit
<1>b. PICK b \in 1 .. Len(log) : Runs(log, t, b, Len(log)) /\ Forward(log, t, b, Len(log))
  BY <1>0, <1>1, <1>2, IdleRuns
<1>i. t \in active /\ Len(log) >= persistent /\ last[t] \in Nat
  BY <1>0, <1>1, <1>2, IdleRuns, TypedThread
<1>r. PICK r : r = TxnRecord("COMMIT", t, last[t])
  OBVIOUS
<1>3. r \in LogRecord /\ r.txn = t /\ r.type = "COMMIT" /\ log' = Append(log, r)
  BY <1>i, <1>r DEF Commit, LogForTxn, AppendRecord, TxnRecord, LogRecord
<1>4. /\ Len(log') = Len(log) + 1 /\ Len(log) \in Nat /\ Agree(log, log', Len(log))
      /\ log'[Len(log) + 1] = r
  BY <1>0, <1>3, TypedLog, Appended
<1>5. UNCHANGED <<durable, persistent, master, disk, buf, dpt, state, active, at, owner, ckpt, phase, todo,
                  rtab, rdpt, cursor, counts>>
  BY DEF Commit, pageVars, recoveryVars
<1>6. last' = [last EXCEPT ![t] = Len(log) + 1] /\ pc' = [pc EXCEPT ![t] = "committing"]
  BY DEF Commit, LogForTxn, EndLSN, Goto
<1>7. /\ last'[t] = Len(log) + 1 /\ pc'[t] = "committing"
      /\ \A u \in Txn : u # t => last'[u] = last[u] /\ pc'[u] = pc[u]
  BY <1>0, <1>6, TypedThread
<1>8. TypeOK'
  <2>1. log' \in Seq(LogRecord) /\ durable' \in 0 .. Len(log') /\ persistent' \in 0 .. durable' + 1
        /\ Len(log) + 1 \in Nat
    BY <1>0, <1>3, <1>5, AppendTyped
  <2>2. last' \in [Txn -> Nat]
        /\ pc' \in [Txn -> Quiet \cup Running \cup {"committing", "aborting", "ending"}]
    BY <1>0, <1>6, <2>1, TypedThread
  <2> QED BY <1>0, <1>5, <2>1, <2>2 DEF TypeOK
<1>9. RecordSound(log', Len(log) + 1)
  <2>1. Runs(log', t, b, Len(log)) /\ Forward(log', t, b, Len(log))
    BY <1>4, <1>b, SameRuns, SameForward
  <2>2. (Len(log) + 1) - 1 = Len(log)
    BY <1>4
  <2> QED BY <1>3, <1>4, <2>1, <2>2 DEF RecordSound, CommitSound
<1>10. ThreadSound(t)'
  <2>1. \A c \in 1 .. Len(log') : ~Runs(log', t, c, Len(log'))
    BY <1>0, <1>3, AppendOwn
  <2>2. Len(log') >= persistent /\ persistent < last'[t] /\ last'[t] \in 1 .. Len(log')
    BY <1>0, <1>4, <1>7, <1>i, TypedLog
  <2> QED BY <1>2, <1>5, <1>7, <1>i, <2>1, <2>2 DEF ThreadSound, Running
<1>11. PagesLocked'
  BY <1>0, <1>3, <1>5, PagesLockedAppend DEF IsPageUpdateRecord
<1>12. NoneChanging /\ NoneChanging'
  <2>1. \A u \in Txn : pc'[u] \in Quiet \cup {"committing"}
    BY <1>1, <1>7
  <2> QED BY <1>1, <2>1 DEF NoneChanging, Quiet
<1> QED BY <1>1, <1>3, <1>5, <1>7, <1>8, <1>9, <1>10, <1>11, <1>12, ThreadStep

LEMMA AbortKeepsInv ==
    ASSUME OneAtATime, RecoveryInv, NEW t \in Txn, Abort(t)
    PROVE  RecoveryInv'
<1>0. TypeOK /\ ThreadsSound /\ PagesLocked /\ LogSound
  BY DEF RecoveryInv
<1>1. phase = "running" /\ ckpt.pc = "idle" /\ \A u \in Txn : pc[u] \in Quiet
  BY AllQuiet DEF Abort
<1>2. pc[t] = "idle" /\ state[t] = "ACTIVE"
  BY DEF Abort
<1>b. PICK b \in 1 .. Len(log) : /\ Runs(log, t, b, Len(log)) /\ IsLast(log, t, Len(log), last[t])
                                 /\ Forward(log, t, b, Len(log))
  BY <1>0, <1>1, <1>2, IdleRuns
<1>i. t \in active /\ Len(log) >= persistent /\ last[t] \in 1 .. Len(log) /\ last[t] \in Nat
  BY <1>0, <1>1, <1>2, IdleRuns, TypedThread
<1>5. UNCHANGED <<log, durable, persistent, master, disk, buf, dpt, last, active, owner, ckpt, phase, todo,
                  rtab, rdpt, cursor, counts>>
  BY DEF Abort, logVars, pageVars, recoveryVars
<1>6. /\ state' = [state EXCEPT ![t] = "ABORTING"] /\ at' = [at EXCEPT ![t].undo = last[t]]
      /\ pc' = [pc EXCEPT ![t] = "rollback"]
  BY DEF Abort, Goto
<1>7. /\ state'[t] = "ABORTING" /\ pc'[t] = "rollback" /\ at'[t].undo = last[t]
      /\ \A u \in Txn : u # t => state'[u] = state[u] /\ pc'[u] = pc[u]
  BY <1>0, <1>6, TypedThread
<1>8. TypeOK'
  <2>1. /\ state' \in [Txn -> {"UNBORN", "ACTIVE", "ABORTING", "COMMITTED", "ABORTED"}]
        /\ at' \in [Txn -> [page : Page \cup {"none"}, before : Nat, undo : Nat]]
        /\ pc' \in [Txn -> Quiet \cup Running \cup {"committing", "aborting", "ending"}]
    BY <1>0, <1>6, <1>i, TypedThread DEF Running
  <2> QED BY <1>0, <1>5, <2>1 DEF TypeOK
<1>10. ThreadSound(t)'
  <2>1. Resume(log, last[t]) = last[t]
    <3>1. log[last[t]].txn = t /\ last[t] \in b .. Len(log)
      <4>1. IsLog(log, Len(log)) /\ Sound(log, Len(log)) /\ Len(log) \in Nat
        BY <1>0, TypedLog DEF LogSound
      <4>2. last[t] \in b .. Len(log)
        BY <1>b, <4>1, ResumePlace
      <4> QED BY <1>b, <4>2 DEF IsLast
    <3>2. log[last[t]].type \in {"BEGIN", "UPDATE"}
      <4>1. CASE last[t] = b
        BY <1>b, <4>1 DEF Runs
      <4>2. CASE last[t] \in b + 1 .. Len(log)
        BY <1>b, <3>1, <4>2 DEF Forward
      <4> QED BY <3>1, <4>1, <4>2
    <3> QED BY <3>2 DEF Resume
  <2> QED BY <1>5, <1>7, <1>b, <1>i, <2>1 DEF ThreadSound, Running
<1>11. PagesLocked'
  BY <1>0, <1>5 DEF PagesLocked
<1>12. NoneChanging /\ NoneChanging' /\ SyncStep
  <2>1. \A u \in Txn : pc'[u] \in Quiet \cup {"rollback"}
    BY <1>1, <1>7
  <2> QED BY <1>1, <1>5, <2>1 DEF NoneChanging, Quiet, SyncStep
<1> QED BY <1>1, <1>5, <1>7, <1>8, <1>10, <1>11, <1>12, ThreadStep

LEMMA LogAbortKeepsInv ==
    ASSUME RecoveryInv, NEW t \in Txn, LogAbort(t)
    PROVE  RecoveryInv'
<1>0. TypeOK /\ ThreadsSound /\ PagesLocked
  BY DEF RecoveryInv
<1>1. pc[t] = "rolledback" /\ pc[t] \notin Quiet
  BY DEF LogAbort, Quiet
<1>2. phase = "running" /\ ckpt.pc = "idle" /\ \A u \in Txn : u # t => pc[u] \in Quiet
  BY <1>1, OthersQuiet
<1>s. ThreadSound(t)
  BY <1>0, <1>2 DEF ThreadsSound
<1>b. PICK b \in 1 .. Len(log) : /\ Runs(log, t, b, Len(log)) /\ IsLast(log, t, Len(log), last[t])
                                 /\ Resume(log, last[t]) = b
  BY <1>1, <1>s DEF ThreadSound, Running
<1>i. t \in active /\ Len(log) >= persistent /\ last[t] \in 1 .. Len(log) /\ last[t] \in Nat
  BY <1>0, <1>1, <1>b, <1>s, TypedThread DEF ThreadSound, IsLast
<1>r. PICK r : r = TxnRecord("ABORT", t, last[t])
  OBVIOUS
<1>3. r \in LogRecord /\ r.txn = t /\ r.type = "ABORT" /\ log' = Append(log, r)
  BY <1>i, <1>r DEF LogAbort, LogForTxn, AppendRecord, TxnRecord, LogRecord
<1>4. /\ Len(log') = Len(log) + 1 /\ Len(log) \in Nat /\ Agree(log, log', Len(log))
      /\ log'[Len(log) + 1] = r
  BY <1>0, <1>3, TypedLog, Appended
<1>5. UNCHANGED <<durable, persistent, master, disk, buf, dpt, state, active, at, owner, ckpt, phase, todo,
                  rtab, rdpt, cursor, counts>>
  BY DEF LogAbort, pageVars, recoveryVars
<1>6. last' = [last EXCEPT ![t] = Len(log) + 1] /\ pc' = [pc EXCEPT ![t] = "aborting"]
  BY DEF LogAbort, LogForTxn, EndLSN, Goto
<1>7. /\ last'[t] = Len(log) + 1 /\ pc'[t] = "aborting"
      /\ \A u \in Txn : u # t => last'[u] = last[u] /\ pc'[u] = pc[u]
  BY <1>0, <1>6, TypedThread
<1>8. TypeOK'
  <2>1. log' \in Seq(LogRecord) /\ durable' \in 0 .. Len(log') /\ persistent' \in 0 .. durable' + 1
        /\ Len(log) + 1 \in Nat
    BY <1>0, <1>3, <1>5, AppendTyped
  <2>2. last' \in [Txn -> Nat]
        /\ pc' \in [Txn -> Quiet \cup Running \cup {"committing", "aborting", "ending"}]
    BY <1>0, <1>6, <2>1, TypedThread
  <2> QED BY <1>0, <1>5, <2>1, <2>2 DEF TypeOK
<1>9. RecordSound(log', Len(log) + 1)
  <2>1. /\ Runs(log', t, b, Len(log)) /\ IsLast(log', t, Len(log), last[t])
        /\ Resume(log', last[t]) = b
    BY <1>4, <1>b, SameRuns, SameLast
  <2>2. (Len(log) + 1) - 1 = Len(log)
    BY <1>4
  <2> QED BY <1>3, <1>4, <1>i, <2>1, <2>2 DEF RecordSound, AbortSound
<1>10. ThreadSound(t)'
  <2>1. \A c \in 1 .. Len(log') : ~Runs(log', t, c, Len(log'))
    BY <1>0, <1>3, AppendOwn
  <2>2. Len(log') >= persistent /\ last'[t] \in 1 .. Len(log')
    BY <1>0, <1>4, <1>7, <1>i, TypedLog
  <2>3. state[t] \in {"ACTIVE", "ABORTING"}
    BY <1>1, <1>s DEF ThreadSound
  <2> QED BY <1>5, <1>7, <1>i, <2>1, <2>2, <2>3 DEF ThreadSound, Running
<1>11. PagesLocked'
  BY <1>0, <1>3, <1>5, PagesLockedAppend DEF IsPageUpdateRecord
<1>12. NoneChanging /\ NoneChanging'
  <2>1. \A u \in Txn : pc[u] \in Quiet \cup {"rolledback"} /\ pc'[u] \in Quiet \cup {"aborting"}
    BY <1>1, <1>2, <1>7
  <2> QED BY <2>1 DEF NoneChanging, Quiet
<1> QED BY <1>2, <1>3, <1>5, <1>7, <1>8, <1>9, <1>10, <1>11, <1>12, ThreadStep

LEMMA FlushEndKeepsInv ==
    ASSUME RecoveryInv, NEW t \in Txn, FlushEnd(t)
    PROVE  RecoveryInv'
<1>0. TypeOK /\ ThreadsSound /\ PagesLocked
  BY DEF RecoveryInv
<1>1. pc[t] \in {"committing", "aborting"} /\ pc[t] \notin Quiet /\ pc[t] \notin Running
  BY DEF FlushEnd, Quiet, Running
<1>2. phase = "running" /\ ckpt.pc = "idle" /\ \A u \in Txn : u # t => pc[u] \in Quiet
  BY <1>1, OthersQuiet
<1>s. ThreadSound(t)
  BY <1>0, <1>2 DEF ThreadsSound
<1>i. /\ t \in active /\ Len(log) >= persistent /\ last[t] \in 1 .. Len(log) /\ last[t] \in Nat
      /\ pc[t] = "committing" => last[t] <= durable \/ persistent < last[t]
      /\ \A b \in 1 .. Len(log) : ~Runs(log, t, b, Len(log))
  BY <1>0, <1>1, <1>s, TypedThread DEF ThreadSound
<1>n. Len(log) \in Nat /\ durable \in Nat /\ persistent \in Nat
  BY <1>0, TypedLog
<1>3. SyncStep /\ log' = log
  <2>1. FlushUpTo(last[t]) /\ log' = log
    BY DEF FlushEnd
  <2> QED BY <1>0, <1>i, <1>n, <2>1, FlushUpToSyncs
<1>4. /\ durable' \in durable .. Len(log) /\ durable' \in Nat
      /\ persistent' \in 0 .. durable' + 1 /\ persistent' <= Len(log)
  BY <1>0, <1>3, <1>i, SyncTyped
<1>5. UNCHANGED <<log, master, disk, buf, dpt, last, active, at, owner, ckpt, phase, todo,
                  rtab, rdpt, cursor, counts>>
  BY DEF FlushEnd, pageVars, recoveryVars
<1>6. /\ state' = [state EXCEPT ![t] = IF pc[t] = "committing" THEN "COMMITTED" ELSE "ABORTED"]
      /\ pc' = [pc EXCEPT ![t] = "ending"]
  BY DEF FlushEnd, Goto
<1>7. /\ state'[t] = (IF pc[t] = "committing" THEN "COMMITTED" ELSE "ABORTED") /\ pc'[t] = "ending"
      /\ \A u \in Txn : u # t => state'[u] = state[u] /\ pc'[u] = pc[u]
  BY <1>0, <1>6, TypedThread
<1>8. TypeOK'
  <2>1. /\ state' \in [Txn -> {"UNBORN", "ACTIVE", "ABORTING", "COMMITTED", "ABORTED"}]
        /\ pc' \in [Txn -> Quiet \cup Running \cup {"committing", "aborting", "ending"}]
    BY <1>0, <1>6, TypedThread
  <2>2. durable' \in 0 .. Len(log') /\ persistent' \in 0 .. durable' + 1
    <3>1. Len(log') = Len(log)
      BY <1>3
    <3>2. durable' \in 0 .. Len(log)
      BY <1>4, <1>n
    <3>3. persistent' \in 0 .. durable' + 1
      BY <1>4
    <3> QED BY <3>1, <3>2, <3>3
  <2> QED BY <1>0, <1>5, <2>1, <2>2 DEF TypeOK
<1>9. state'[t] = "COMMITTED" => last[t] <= durable'
  <2>1. FlushUpTo(last[t])
    BY DEF FlushEnd
  <2> QED BY <1>4, <1>7, <1>i, <1>n, <2>1 DEF FlushUpTo
<1>10. ThreadSound(t)'
  BY <1>4, <1>5, <1>7, <1>9, <1>i DEF ThreadSound, Running
<1>11. PagesLocked'
  BY <1>0, <1>5 DEF PagesLocked
<1>12. NoneChanging /\ NoneChanging'
  <2>1. \A u \in Txn : pc[u] \in Quiet \cup {"committing", "aborting"} /\ pc'[u] \in Quiet \cup {"ending"}
    BY <1>1, <1>2, <1>7
  <2> QED BY <2>1 DEF NoneChanging, Quiet
<1> QED BY <1>2, <1>3, <1>5, <1>7, <1>8, <1>10, <1>11, <1>12, ThreadStep

LEMMA EndTransactionKeepsInv ==
    ASSUME RecoveryInv, NEW t \in Txn, EndTransaction(t)
    PROVE  RecoveryInv'
<1>0. TypeOK /\ ThreadsSound /\ PagesLocked
  BY DEF RecoveryInv
<1>1. pc[t] = "ending" /\ pc[t] \notin Quiet /\ pc[t] \notin Running
  BY DEF EndTransaction, Quiet, Running
<1>2. phase = "running" /\ ckpt.pc = "idle" /\ \A u \in Txn : u # t => pc[u] \in Quiet
  BY <1>1, OthersQuiet
<1>s. ThreadSound(t)
  BY <1>0, <1>2 DEF ThreadsSound
<1>i. /\ Len(log) >= persistent
      /\ state[t] = "COMMITTED" => last[t] <= durable
      /\ \A b \in 1 .. Len(log) : ~Runs(log, t, b, Len(log))
  BY <1>1, <1>s DEF ThreadSound
<1>5. UNCHANGED <<log, durable, persistent, master, disk, buf, dpt, state, last, at, ckpt, phase, todo,
                  rtab, rdpt, cursor, counts>>
  BY DEF EndTransaction, logVars, pageVars, recoveryVars
<1>6. /\ owner' = [p \in Page |-> IF owner[p] = t THEN NoTxn ELSE owner[p]]
      /\ active' = active \ {t} /\ pc' = [pc EXCEPT ![t] = "done"]
  BY DEF EndTransaction, Goto
<1>7. pc'[t] = "done" /\ \A u \in Txn : u # t => pc'[u] = pc[u]
  BY <1>0, <1>6, TypedThread
<1>8. TypeOK'
  <2>1. /\ active' \in SUBSET Txn
        /\ pc' \in [Txn -> Quiet \cup Running \cup {"committing", "aborting", "ending"}]
    BY <1>0, <1>6, TypedThread DEF Quiet
  <2>2. owner' \in [Page -> Txn \cup {NoTxn}]
    <3>1. owner \in [Page -> Txn \cup {NoTxn}]
      BY <1>0 DEF TypeOK
    <3> QED BY <1>6, <3>1
  <2> QED BY <1>0, <1>5, <2>1, <2>2 DEF TypeOK
<1>10. ThreadSound(t)'
  BY <1>5, <1>6, <1>7, <1>i DEF ThreadSound, Running
<1>11. PagesLocked'
  <2> SUFFICES ASSUME NEW u \in Txn, NEW b \in 1 .. Len(log), NEW k \in 1 .. Len(log),
                      Runs(log, u, b, Len(log)), k > b, log[k].txn = u
               PROVE  owner'[log[k].page] = u
    BY <1>5 DEF PagesLocked
  <2>1. owner[log[k].page] = u /\ u # t
    BY <1>0, <1>2, <1>i DEF PagesLocked
  <2>2. log[k].page \in Page
    <3>1. k \in b + 1 .. Len(log) /\ log[k] \in LogRecord
      BY <1>0, TypedLog
    <3>2. IsPageUpdateRecord(log[k])
      BY <3>1 DEF Runs
    <3> QED BY <3>1, <3>2, RecordFields
  <2> QED BY <1>6, <2>1, <2>2
<1>12. NoneChanging /\ NoneChanging' /\ SyncStep
  <2>1. \A u \in Txn : pc[u] \in Quiet \cup {"ending"} /\ pc'[u] \in Quiet
    BY <1>1, <1>2, <1>7 DEF Quiet
  <2> QED BY <1>5, <2>1 DEF NoneChanging, Quiet, SyncStep
<1> QED BY <1>2, <1>5, <1>6, <1>7, <1>8, <1>10, <1>11, <1>12, ThreadStep

(* Pages that are logged and not pinned are written to disk.               *)
LEMMA FlushedPages ==
    ASSUME TypeOK, DiskSound, PoolSound, CheckpointsSound, NEW pages \in SUBSET Page,
           \A p \in pages : ~Pinned(p), FlushFrames(pages), ckpt' = ckpt,
           \A p \in Page : Settled(p)' = Settled(p) /\ (Pinned(p)' <=> Pinned(p))
    PROVE  /\ SyncStep /\ log' = log /\ master' = master /\ buf' = buf
           /\ disk' \in [Page -> [val : Nat, lsn : Nat]] /\ dpt' \in [Page -> Nat]
           /\ disk' = [p \in Page |-> IF p \in pages THEN buf[p] ELSE disk[p]]
           /\ dpt' = [p \in Page |-> IF p \in pages THEN 0 ELSE dpt[p]]
           /\ durable' \in durable .. Len(log) /\ durable' \in Nat /\ persistent' \in 0 .. durable' + 1
           /\ persistent <= Len(log) => persistent' <= Len(log)
           /\ DiskSound' /\ PoolSound' /\ CheckpointsSound'
<1>1. /\ FlushUpTo(Max({buf[p].lsn : p \in pages} \cup {0}))
      /\ disk' = [p \in Page |-> IF p \in pages THEN buf[p] ELSE disk[p]]
      /\ dpt' = [p \in Page |-> IF p \in pages THEN 0 ELSE dpt[p]]
      /\ log' = log /\ master' = master /\ buf' = buf
  BY DEF FlushFrames
<1>2. /\ disk \in [Page -> [val : Nat, lsn : Nat]] /\ buf \in [Page -> [val : Nat, lsn : Nat]]
      /\ dpt \in [Page -> Nat]
  BY DEF TypeOK
<1>n. Len(log) \in Nat /\ durable \in Nat /\ persistent \in Nat
  BY TypedLog
<1>3. disk' \in [Page -> [val : Nat, lsn : Nat]] /\ dpt' \in [Page -> Nat]
  BY <1>1, <1>2
<1>4. ASSUME NEW p \in pages
      PROVE  /\ Logged(p, buf[p].lsn, buf[p].val) /\ buf[p].lsn \in Nat
             /\ buf[p].lsn <= Len(log) \/ (buf[p].lsn = Len(log) + 1 /\ persistent = Len(log) + 1)
  <2>1. Settled(p) = buf[p].val
    BY DEF Settled, Pinned
  <2>2. Logged(p, buf[p].lsn, buf[p].val)
    BY <2>1 DEF PoolSound
  <2> QED BY <1>2, <1>n, <2>2 DEF Logged
<1>m. PICK m : m = Max({buf[p].lsn : p \in pages} \cup {0})
  OBVIOUS
<1>5. m \in {buf[p].lsn : p \in pages} \cup {0} /\ \A p \in pages : buf[p].lsn <= m
  <2> DEFINE S == {buf[p].lsn : p \in pages} \cup {0}
  <2>1. S \subseteq 0 .. Len(log) + 1 /\ S # {} /\ Len(log) + 1 \in Nat
    BY <1>4, <1>n
  <2>2. Max(S) \in S /\ \A k \in S : k <= Max(S)
    BY <2>1, MaxOfBounded
  <2> QED BY <1>m, <2>2
<1>6. m \in Nat /\ (m <= Len(log) \/ m <= persistent)
  BY <1>4, <1>5, <1>n
<1>7. SyncStep
  BY <1>1, <1>6, <1>m, FlushUpToSyncs
<1>8. /\ durable' \in durable .. Len(log) /\ durable' \in Nat /\ persistent' \in 0 .. durable' + 1
      /\ persistent <= Len(log) => persistent' <= Len(log)
  BY <1>7, SyncTyped
<1>9. m <= persistent'
  BY <1>1, <1>6, <1>m, <1>n DEF FlushUpTo
<1>10. DiskSound'
  <2>1. ASSUME NEW p \in Page
        PROVE  \/ disk'[p] = disk[p]
               \/ Logged(p, disk'[p].lsn, disk'[p].val) /\ disk'[p].lsn <= persistent'
    <3>1. CASE p \in pages
      <4>1. disk'[p] = buf[p] /\ persistent' \in Nat
        BY <1>1, <1>8, <3>1
      <4> QED BY <1>4, <1>5, <1>6, <1>9, <3>1, <4>1
    <3> QED BY <1>1, <3>1
  <2> QED BY <1>1, <1>3, <1>7, <2>1, DiskAfterFlush
<1>11. ASSUME NEW p \in Page
       PROVE  /\ disk'[p].lsn \in Nat /\ disk[p].lsn <= disk'[p].lsn /\ disk'[p].lsn <= buf[p].lsn
              /\ dpt'[p] = 0 /\ ~Pinned(p) => disk'[p] = buf[p]
  <2>1. disk[p].lsn <= buf[p].lsn /\ (dpt[p] = 0 /\ ~Pinned(p) => disk[p] = buf[p])
    BY DEF PoolSound
  <2> QED BY <1>1, <1>2, <2>1
<1>12. PoolSound'
  <2>1. ASSUME NEW p \in Page PROVE Logged(p, buf[p].lsn, Settled(p))'
    <3>k. PICK k, v : k = buf[p].lsn /\ v = Settled(p)
      OBVIOUS
    <3>1. Logged(p, k, v)
      BY <3>k DEF PoolSound
    <3>2. Logged(p, k, v)'
      BY <1>1, <1>7, <3>1, LoggedSync
    <3>3. Settled(p)' = v /\ buf'[p].lsn = k
      BY <1>1, <3>k
    <3> QED BY <3>2, <3>3 DEF Logged
  <2> QED BY <1>1, <1>11, <2>1 DEF PoolSound
<1>13. CheckpointsSound'
  <2>1. durable <= durable'
    BY <1>8, <1>n
  <2> QED BY <1>1, <1>8, <1>11, <2>1, StillCheckpoints
<1> QED BY <1>1, <1>3, <1>7, <1>8, <1>10, <1>12, <1>13

(* The pool is not less up to date, and no page uncovered, after a flush.  *)
LEMMA FlushCovers ==
    ASSUME TypeOK, UpToDate, DirtyPagesCovered, phase' = phase, log' = log, buf' = buf,
           NEW pages \in SUBSET Page,
           disk' = [p \in Page |-> IF p \in pages THEN buf[p] ELSE disk[p]],
           dpt' = [p \in Page |-> IF p \in pages THEN 0 ELSE dpt[p]],
           \A k : /\ InFlight(k, {"applying"})' <=> InFlight(k, {"applying"})
                  /\ InFlight(k, {"logged", "applying"})' <=> InFlight(k, {"logged", "applying"})
    PROVE  UpToDate' /\ DirtyPagesCovered'
<1>1. UpToDate'
  BY DEF UpToDate
<1>2. ASSUME phase = "running", NEW p \in Page, NEW k \in 1 .. Len(log), OnPage(log, k, p),
             disk'[p].lsn < k
      PROVE  \/ dpt'[p] # 0 /\ dpt'[p] <= k
             \/ InFlight(k, {"logged", "applying"})'
  <2>1. CASE p \in pages
    <3>1. disk'[p] = buf[p] /\ buf[p].lsn \in Nat /\ Len(log) \in Nat
      BY <2>1, TypedLog DEF TypeOK
    <3>2. k <= buf[p].lsn \/ InFlight(k, {"applying"})
      BY <1>2 DEF UpToDate
    <3>3. InFlight(k, {"applying"})
      BY <1>2, <3>1, <3>2
    <3> QED BY <3>3 DEF InFlight
  <2>2. CASE p \notin pages
    <3>1. disk'[p] = disk[p] /\ dpt'[p] = dpt[p]
      BY <2>2
    <3> QED BY <1>2, <3>1 DEF DirtyPagesCovered
  <2> QED BY <2>1, <2>2
<1>3. DirtyPagesCovered'
  BY <1>2 DEF DirtyPagesCovered
<1> QED BY <1>1, <1>3

LEMMA ThreadsSync ==
    ASSUME TypeOK, ThreadsSound, SyncStep,
           UNCHANGED <<log, pc, last, at, owner, buf, active, state, phase>>
    PROVE  ThreadsSound'
<1> SUFFICES ASSUME phase = "running", NEW t \in Txn PROVE ThreadSound(t)'
  BY DEF ThreadsSound
<1>1. ThreadSound(t)
  BY DEF ThreadsSound
<1>n. Len(log) \in Nat /\ durable \in Nat /\ persistent \in Nat /\ last[t] \in Nat
  BY TypedLog, TypedThread
<1>2. /\ durable' \in durable .. Len(log) /\ durable' \in Nat
      /\ persistent <= Len(log) => persistent' <= Len(log)
  BY SyncTyped
<1>3. pc[t] # "unborn" => Len(log) >= persistent'
  BY <1>1, <1>2 DEF ThreadSound
<1>4. ASSUME pc[t] = "committing" PROVE last[t] <= durable' \/ persistent' < last[t]
  <2>1. last[t] <= durable \/ persistent < last[t]
    BY <1>1, <1>4 DEF ThreadSound
  <2>2. last[t] \in 1 .. Len(log)
    BY <1>1, <1>4 DEF ThreadSound
  <2> QED BY <1>n, <2>1, <2>2 DEF SyncStep
<1>5. state[t] = "COMMITTED" => last[t] <= durable'
  <2>1. state[t] = "COMMITTED" => last[t] <= durable
    BY <1>1 DEF ThreadSound
  <2> QED BY <1>2, <1>n, <2>1
<1> QED BY <1>1, <1>3, <1>4, <1>5 DEF ThreadSound

LEMMA EvictKeepsInv ==
    ASSUME RecoveryInv, NEW p \in Page, Evict(p)
    PROVE  RecoveryInv'
<1>0. TypeOK /\ Sequential /\ LogSound /\ ThreadsSound /\ PagesLocked /\ DiskSound /\ PoolSound /\ UpToDate
      /\ DirtyPagesCovered /\ CheckpointsSound /\ AnalysisSound /\ RedoSound /\ UndoSound
  BY DEF RecoveryInv
<1>1. FlushFrames({p}) /\ ~Pinned(p) /\ p \in Dirty
  BY DEF Evict
<1>2. UNCHANGED <<state, last, active, pc, at, owner, ckpt, phase, rtab, rdpt, cursor, todo, counts>>
  BY DEF Evict, txnVars, recoveryVars
<1>3. buf' = buf
  BY <1>1 DEF FlushFrames
<1>4. \A q \in Page : Settled(q)' = Settled(q) /\ (Pinned(q)' <=> Pinned(q))
  BY <1>2, <1>3 DEF Settled, Pinned
<1>5. \A k : /\ InFlight(k, {"applying"})' <=> InFlight(k, {"applying"})
             /\ InFlight(k, {"logged", "applying"})' <=> InFlight(k, {"logged", "applying"})
  BY <1>2 DEF InFlight
<1>p. {p} \in SUBSET Page /\ \A q \in {p} : ~Pinned(q)
  BY <1>1
<1>6. /\ SyncStep /\ log' = log /\ master' = master /\ buf' = buf
      /\ disk' \in [Page -> [val : Nat, lsn : Nat]] /\ dpt' \in [Page -> Nat]
      /\ disk' = [q \in Page |-> IF q \in {p} THEN buf[q] ELSE disk[q]]
      /\ dpt' = [q \in Page |-> IF q \in {p} THEN 0 ELSE dpt[q]]
      /\ durable' \in durable .. Len(log) /\ durable' \in Nat /\ persistent' \in 0 .. durable' + 1
      /\ persistent <= Len(log) => persistent' <= Len(log)
      /\ DiskSound' /\ PoolSound' /\ CheckpointsSound'
  BY <1>0, <1>1, <1>2, <1>4, <1>p, FlushedPages
<1>7. TypeOK'
  <2>1. durable' \in 0 .. Len(log)
    BY <1>0, <1>6, TypedLog
  <2>2. durable' \in 0 .. Len(log')
    BY <1>6, <2>1
  <2> QED BY <1>0, <1>2, <1>6, <2>2 DEF TypeOK
<1>8. UpToDate' /\ DirtyPagesCovered'
  BY <1>0, <1>2, <1>5, <1>6, <1>p, FlushCovers
<1>9. ThreadsSound'
  BY <1>0, <1>2, <1>6, ThreadsSync
<1>10. Sequential' /\ PagesLocked' /\ LogSound'
  BY <1>0, <1>2, <1>6 DEF Sequential, PagesLocked, LogSound
<1>11. AnalysisSound'
  <2>1. phase # "analysis"
    BY <1>0, <1>1 DEF AnalysisSound, Dirty, NoLSN
  <2> QED BY <1>2, <2>1 DEF AnalysisSound
<1>12. RedoSound'
  <2> SUFFICES ASSUME phase = "redo" PROVE RedoSound'
    BY <1>2 DEF RedoSound
  <2>1. /\ TxnTable(Len(log)) /\ PageTable(Len(log))
        /\ \A q \in Page, k \in 1 .. Len(log) : k <= cursor /\ OnPage(log, k, q) => k <= buf[q].lsn
    BY <1>0 DEF RedoSound
  <2>2. TxnTable(Len(log))'
    BY <1>2, <1>6, <2>1 DEF TxnTable
  <2>3. PageTable(Len(log))'
    <3> SUFFICES ASSUME NEW q \in Page, NEW k \in 1 .. Len(log), OnPage(log, k, q), disk'[q].lsn < k
                 PROVE  rdpt[q] # 0 /\ rdpt[q] <= k
      BY <1>2, <1>6 DEF PageTable
    <3>1. disk[q].lsn < k
      <4>1. disk[q].lsn <= buf[q].lsn /\ disk[q].lsn \in Nat /\ buf[q].lsn \in Nat /\ k \in Nat
        BY <1>0, TypedLog DEF PoolSound, TypeOK
      <4>2. disk'[q] = buf[q] \/ disk'[q] = disk[q]
        BY <1>6
      <4> QED BY <4>1, <4>2
    <3> QED BY <2>1, <3>1 DEF PageTable
  <2> QED BY <1>2, <1>6, <2>1, <2>2, <2>3 DEF RedoSound
<1>13. UndoSound'
  BY <1>0, <1>2, <1>6 DEF UndoSound
<1> QED BY <1>6, <1>7, <1>8, <1>9, <1>10, <1>11, <1>12, <1>13 DEF RecoveryInv

LEMMA RollbackDoneKeepsInv ==
    ASSUME RecoveryInv, NEW t \in Txn, RollbackDone(t)
    PROVE  RecoveryInv'
<1>0. TypeOK /\ LogSound /\ ThreadsSound /\ PagesLocked /\ DiskSound /\ PoolSound /\ UpToDate
      /\ DirtyPagesCovered /\ CheckpointsSound /\ UndoSound
  BY DEF RecoveryInv
<1>1. pc[t] = "rollback" /\ pc[t] \notin Quiet /\ log[at[t].undo].type = "BEGIN" /\ FlushFrames(Dirty)
  BY DEF RollbackDone, Quiet, FlushAllPages
<1>2. phase = "running" /\ ckpt.pc = "idle" /\ \A u \in Txn : u # t => pc[u] \in Quiet
  BY <1>1, OthersQuiet
<1>s. ThreadSound(t)
  BY <1>0, <1>2 DEF ThreadsSound
<1>3. UNCHANGED <<state, last, active, owner, ckpt, phase, rtab, rdpt, cursor, todo, counts>>
  BY DEF RollbackDone, recoveryVars
<1>4. at' = [at EXCEPT ![t] = NoPlace] /\ pc' = [pc EXCEPT ![t] = "rolledback"] /\ buf' = buf
  BY DEF RollbackDone, Goto, FlushAllPages, FlushFrames
<1>5. pc'[t] = "rolledback" /\ \A u \in Txn : u # t => pc'[u] = pc[u]
  BY <1>0, <1>4, TypedThread
<1>6. NoneChanging /\ NoneChanging'
  <2>1. \A u \in Txn : pc[u] \in Quiet \cup {"rollback"} /\ pc'[u] \in Quiet \cup {"rolledback"}
    BY <1>1, <1>2, <1>5
  <2> QED BY <2>1 DEF NoneChanging, Quiet
<1>7. /\ \A p \in Page : Settled(p)' = Settled(p) /\ (Pinned(p)' <=> Pinned(p)) /\ ~Pinned(p)
      /\ \A k : /\ InFlight(k, {"applying"})' <=> InFlight(k, {"applying"})
                /\ InFlight(k, {"logged", "applying"})' <=> InFlight(k, {"logged", "applying"})
  BY <1>4, <1>6 DEF NoneChanging, Settled, Pinned, InFlight
<1>8. Dirty \in SUBSET Page
  BY DEF Dirty
<1>d. PICK D \in SUBSET Page : D = Dirty
  BY <1>8
<1>9. /\ SyncStep /\ log' = log /\ master' = master /\ buf' = buf
      /\ disk' \in [Page -> [val : Nat, lsn : Nat]] /\ dpt' \in [Page -> Nat]
      /\ disk' = [q \in Page |-> IF q \in D THEN buf[q] ELSE disk[q]]
      /\ dpt' = [q \in Page |-> IF q \in D THEN 0 ELSE dpt[q]]
      /\ durable' \in durable .. Len(log) /\ durable' \in Nat /\ persistent' \in 0 .. durable' + 1
      /\ persistent <= Len(log) => persistent' <= Len(log)
      /\ DiskSound' /\ PoolSound' /\ CheckpointsSound'
  BY <1>0, <1>1, <1>3, <1>7, <1>d, FlushedPages
<1>10. TypeOK'
  <2>1. durable' \in 0 .. Len(log)
    BY <1>0, <1>9, TypedLog
  <2>2. durable' \in 0 .. Len(log')
    BY <1>9, <2>1
  <2>3. /\ at' \in [Txn -> [page : Page \cup {"none"}, before : Nat, undo : Nat]]
        /\ pc' \in [Txn -> Quiet \cup Running \cup {"committing", "aborting", "ending"}]
    BY <1>0, <1>4, TypedThread DEF Running, NoPlace
  <2> QED BY <1>0, <1>3, <1>9, <2>2, <2>3 DEF TypeOK
<1>11. UpToDate' /\ DirtyPagesCovered'
  BY <1>0, <1>3, <1>7, <1>9, <1>d, FlushCovers
<1>12. ThreadSound(t)'
  <2>1. PICK b \in 1 .. Len(log) : /\ Runs(log, t, b, Len(log)) /\ IsLast(log, t, Len(log), last[t])
                                   /\ at[t].undo = Resume(log, last[t])
    BY <1>1, <1>s DEF ThreadSound, Running
  <2>2. Resume(log, last[t]) = b
    <3>1. IsLog(log, Len(log)) /\ Sound(log, Len(log)) /\ Len(log) \in Nat
      BY <1>0, TypedLog DEF LogSound
    <3>2. log[Resume(log, last[t])].type = "BEGIN" <=> Resume(log, last[t]) = b
      <4>n. PICK n \in Nat : n = Len(log)
        BY <3>1
      <4>j. PICK j : j = last[t]
        OBVIOUS
      <4>1. Runs(log, t, b, n) /\ IsLast(log, t, n, j) /\ IsLog(log, n) /\ Sound(log, n)
        BY <2>1, <3>1, <4>n, <4>j
      <4>2. /\ j \in b..n /\ Resume(log, j) \in b..j /\ log[Resume(log, j)].txn = t
            /\ log[Resume(log, j)].type \in {"BEGIN", "UPDATE"}
            /\ log[Resume(log, j)].type = "BEGIN" <=> Resume(log, j) = b
            /\ log[j].type = "CLR" => Resume(log, j) < j
        BY <4>1, ResumePlace, SMTT(30)
      <4> QED BY <4>2, <4>n, <4>j
    <3>3. log[Resume(log, last[t])].type = "BEGIN"
      BY <1>1, <2>1
    <3> QED BY <3>2, <3>3
  <2>3. t \in active /\ Len(log) >= persistent /\ state[t] \in {"ACTIVE", "ABORTING"}
    BY <1>1, <1>s DEF ThreadSound
  <2> QED BY <1>3, <1>5, <1>9, <2>1, <2>2, <2>3 DEF ThreadSound, Running
<1>13. ThreadsSound'
  <2>1. durable <= durable' /\ (Len(log) >= persistent => Len(log') >= persistent')
    BY <1>0, <1>9, TypedLog
  <2> QED BY <1>0, <1>2, <1>3, <1>5, <1>9, <1>12, <2>1, OtherThreads
<1>14. PagesLocked' /\ LogSound'
  BY <1>0, <1>3, <1>9 DEF PagesLocked, LogSound
<1>15. Sequential' /\ AnalysisSound' /\ RedoSound' /\ UndoSound'
  BY <1>0, <1>2, <1>3, <1>5, NotRecovering, StaysSequential
<1> QED BY <1>9, <1>10, <1>11, <1>13, <1>14, <1>15 DEF RecoveryInv

(* What is under way where one thread changes a page.                      *)
LEMMA OnlyChange ==
    ASSUME NEW t \in Txn, \A u \in Txn : u # t => pc[u] \in Quiet
    PROVE  /\ pc[t] = "modified" =>
                \A p : Settled(p) = IF at[t].page = p THEN at[t].before ELSE buf[p].val
           /\ pc[t] # "modified" => \A p : Settled(p) = buf[p].val
           /\ \A p : Pinned(p) <=> pc[t] \in {"modified", "logged"} /\ at[t].page = p
           /\ \A k, W : W \cap Quiet = {} => (InFlight(k, W) <=> pc[t] \in W /\ last[t] = k)
<1>1. \A u \in Txn : u # t => pc[u] \notin {"modified", "logged"}
  BY DEF Quiet
<1>2. ASSUME NEW p, pc[t] = "modified", at[t].page = p PROVE Settled(p) = at[t].before
  <2>1. \E u \in Txn : pc[u] = "modified" /\ at[u].page = p
    BY <1>2
  <2>2. \A u \in Txn : pc[u] = "modified" /\ at[u].page = p => u = t
    BY <1>1
  <2>3. (CHOOSE u \in Txn : pc[u] = "modified" /\ at[u].page = p) = t
    BY <2>1, <2>2
  <2> QED BY <2>1, <2>3 DEF Settled
<1>3. ASSUME NEW p, ~(pc[t] = "modified" /\ at[t].page = p) PROVE Settled(p) = buf[p].val
  BY <1>1, <1>3 DEF Settled
<1>4. \A p : Pinned(p) <=> pc[t] \in {"modified", "logged"} /\ at[t].page = p
  BY <1>1 DEF Pinned
<1>5. ASSUME NEW k, NEW W, W \cap Quiet = {} PROVE InFlight(k, W) <=> pc[t] \in W /\ last[t] = k
  BY <1>5 DEF InFlight
<1> QED BY <1>2, <1>3, <1>4, <1>5

LEMMA ModifyPageKeepsInv ==
    ASSUME OneAtATime, RecoveryInv, NEW t \in Txn, NEW p \in Page, ModifyPage(t, p)
    PROVE  RecoveryInv'
<1>0. TypeOK /\ LogSound /\ ThreadsSound /\ PagesLocked /\ DiskSound /\ PoolSound /\ UpToDate
      /\ DirtyPagesCovered /\ CheckpointsSound /\ UndoSound
  BY DEF RecoveryInv
<1>1. phase = "running" /\ ckpt.pc = "idle" /\ \A u \in Txn : pc[u] \in Quiet
  BY AllQuiet DEF ModifyPage
<1>2. pc[t] = "idle" /\ state[t] = "ACTIVE" /\ owner[p] \in {NoTxn, t}
  BY DEF ModifyPage
<1>i. PICK b \in 1 .. Len(log) : /\ Runs(log, t, b, Len(log)) /\ IsLast(log, t, Len(log), last[t])
                                 /\ Forward(log, t, b, Len(log))
  BY <1>0, <1>1, <1>2, IdleRuns
<1>j. t \in active /\ Len(log) >= persistent
  BY <1>0, <1>1, <1>2, IdleRuns
<1>3. UNCHANGED <<log, durable, persistent, master, disk, dpt, state, last, active, ckpt, phase, todo,
                  rtab, rdpt, cursor>>
  BY DEF ModifyPage, logVars, recoveryVars
<1>4. /\ owner' = [owner EXCEPT ![p] = t]
      /\ at' = [at EXCEPT ![t] = [page |-> p, before |-> buf[p].val, undo |-> 0]]
      /\ buf' = [buf EXCEPT ![p].val = counts.writes + 1]
      /\ counts' = [counts EXCEPT !.writes = @ + 1]
      /\ pc' = [pc EXCEPT ![t] = "modified"]
  BY DEF ModifyPage, Goto
<1>t. /\ buf \in [Page -> [val : Nat, lsn : Nat]] /\ owner \in [Page -> Txn \cup {NoTxn}]
      /\ counts \in [begins : Nat, writes : Nat, crashes : Nat, checkpoints : Nat]
      /\ disk \in [Page -> [val : Nat, lsn : Nat]]
  BY <1>0 DEF TypeOK
<1>w. counts.writes + 1 \in Nat
  BY <1>t
<1>5. /\ pc'[t] = "modified" /\ at'[t] = [page |-> p, before |-> buf[p].val, undo |-> 0]
      /\ \A u \in Txn : u # t => pc'[u] = pc[u]
  BY <1>0, <1>4, TypedThread
<1>6. /\ buf' \in [Page -> [val : Nat, lsn : Nat]]
      /\ \A q \in Page : buf'[q].lsn = buf[q].lsn /\ (q # p => buf'[q] = buf[q])
  BY <1>4, <1>t, <1>w
<1>7. TypeOK'
  <2>1. /\ pc' \in [Txn -> Quiet \cup Running \cup {"committing", "aborting", "ending"}]
        /\ at' \in [Txn -> [page : Page \cup {"none"}, before : Nat, undo : Nat]]
    BY <1>0, <1>4, <1>t, TypedThread DEF Running
  <2>2. owner' \in [Page -> Txn \cup {NoTxn}]
    BY <1>4, <1>t
  <2>3. counts' \in [begins : Nat, writes : Nat, crashes : Nat, checkpoints : Nat]
    <3>1. counts \in [begins : Nat, writes : Nat, crashes : Nat, checkpoints : Nat]
      BY <1>t
    <3>2. counts' = [counts EXCEPT !.writes = @ + 1]
      BY <1>4
    <3> QED BY <3>1, <3>2
  <2> QED BY <1>0, <1>3, <1>6, <2>1, <2>2, <2>3 DEF TypeOK
<1>8. ThreadSound(t)'
  <2>1. at'[t].page = p /\ owner'[p] = t
    BY <1>4, <1>5, <1>t
  <2> QED BY <1>2, <1>3, <1>5, <1>i, <1>j, <2>1 DEF ThreadSound, Running
<1>9. ThreadsSound'
  <2>1. durable' \in Nat /\ durable <= durable'
    BY <1>0, <1>3, TypedLog
  <2> QED BY <1>0, <1>1, <1>3, <1>5, <1>8, <2>1, OtherThreads
<1>10. PagesLocked'
  <2> SUFFICES ASSUME NEW u \in Txn, NEW c \in 1 .. Len(log), NEW k \in 1 .. Len(log),
                      Runs(log, u, c, Len(log)), k > c, log[k].txn = u
               PROVE  owner'[log[k].page] = u
    BY <1>3 DEF PagesLocked
  <2>1. owner[log[k].page] = u /\ u # NoTxn
    BY <1>0, <1>1, WalTxnAssumption DEF PagesLocked, NoTxn
  <2> QED BY <1>2, <1>4, <1>t, <2>1
<1>11. DiskSound' /\ LogSound'
  BY <1>0, <1>3 DEF DiskSound, Logged, LogSound
<1>12. NoneChanging
  BY <1>1 DEF NoneChanging, Quiet
<1>13. /\ \A q : Settled(q) = buf[q].val /\ ~Pinned(q)
       /\ \A k : ~InFlight(k, {"applying"}) /\ ~InFlight(k, {"logged", "applying"})
  BY <1>12, NoneChangingMeans
<1>14. \A u \in Txn : pc'[u] = "modified" /\ at'[u].page = p <=> u = t
  <2>1. \A u \in Txn : u # t => pc'[u] # "modified"
    BY <1>1, <1>5 DEF Quiet
  <2>2. at'[t].page = p
    BY <1>5
  <2> QED BY <1>5, <2>1, <2>2
<1>15. ASSUME NEW q \in Page PROVE Settled(q)' = buf[q].val
  <2>1. CASE q = p
    <3>1. (CHOOSE u \in Txn : pc'[u] = "modified" /\ at'[u].page = p) = t
      BY <1>14
    <3>2. at'[t].before = buf[p].val
      BY <1>5
    <3> QED BY <1>14, <2>1, <3>1, <3>2 DEF Settled
  <2>2. CASE q # p
    <3>1. ~\E u \in Txn : pc'[u] = "modified" /\ at'[u].page = q
      <4>1. \A u \in Txn : u # t => pc'[u] # "modified"
        BY <1>1, <1>5 DEF Quiet
      <4> QED BY <1>5, <2>2, <4>1
    <3> QED BY <1>6, <2>2, <3>1 DEF Settled
  <2> QED BY <2>1, <2>2
<1>16. Pinned(p)'
  BY <1>14 DEF Pinned
<1>17. PoolSound'
  <2> SUFFICES ASSUME NEW q \in Page
               PROVE  /\ Logged(q, buf[q].lsn, Settled(q))'
                      /\ disk'[q].lsn <= buf'[q].lsn
                      /\ dpt'[q] = 0 /\ ~Pinned(q)' => disk'[q] = buf'[q]
    BY DEF PoolSound
  <2>1. /\ Logged(q, buf[q].lsn, buf[q].val) /\ disk[q].lsn <= buf[q].lsn
        /\ dpt[q] = 0 => disk[q] = buf[q]
    BY <1>0, <1>13 DEF PoolSound
  <2>2. Logged(q, buf[q].lsn, Settled(q))'
    <3>1. Settled(q)' = buf[q].val /\ buf'[q].lsn = buf[q].lsn
      BY <1>15, <1>6
    <3> QED BY <1>3, <2>1, <3>1 DEF Logged
  <2> QED BY <1>3, <1>6, <1>16, <2>1, <2>2
<1>18. UpToDate'
  BY <1>0, <1>3, <1>6, <1>13 DEF UpToDate
<1>19. DirtyPagesCovered'
  BY <1>0, <1>3, <1>13 DEF DirtyPagesCovered
<1>20. CheckpointsSound'
  <2>1. durable' \in Nat /\ durable <= durable' /\ \A q \in Page : disk'[q].lsn \in Nat /\ disk[q].lsn <= disk'[q].lsn
    BY <1>0, <1>3, <1>t, TypedLog, SMTT(30)
  <2> QED BY <1>0, <1>3, <2>1, StillCheckpoints
<1>21. Sequential' /\ AnalysisSound' /\ RedoSound' /\ UndoSound'
  BY <1>0, <1>1, <1>3, <1>5, NotRecovering, StaysSequential
<1> QED BY <1>7, <1>9, <1>10, <1>11, <1>17, <1>18, <1>19, <1>20, <1>21 DEF RecoveryInv

LEMMA UnpinPageKeepsInv ==
    ASSUME RecoveryInv, NEW t \in Txn, UnpinPage(t)
    PROVE  RecoveryInv'
<1>0. TypeOK /\ LogSound /\ ThreadsSound /\ PagesLocked /\ DiskSound /\ PoolSound /\ UpToDate
      /\ DirtyPagesCovered /\ CheckpointsSound /\ UndoSound
  BY DEF RecoveryInv
<1>1. pc[t] = "logged" /\ pc[t] \notin Quiet
  BY DEF UnpinPage, Quiet
<1>2. phase = "running" /\ ckpt.pc = "idle" /\ \A u \in Txn : u # t => pc[u] \in Quiet
  BY <1>1, OthersQuiet
<1>s. ThreadSound(t)
  BY <1>0, <1>2 DEF ThreadsSound
<1>b. PICK b \in 1 .. Len(log) : /\ Runs(log, t, b, Len(log)) /\ IsLast(log, t, Len(log), last[t])
                                 /\ Forward(log, t, b, Len(log))
  BY <1>1, <1>s DEF ThreadSound, Running
<1>p. PICK p \in Page : /\ at[t].page = p /\ OnPage(log, last[t], p) /\ buf[p].lsn = last[t]
  BY <1>1, <1>s DEF ThreadSound
<1>i. t \in active /\ Len(log) >= persistent /\ state[t] \in {"ACTIVE", "ABORTING"}
  BY <1>1, <1>s DEF ThreadSound
<1>l. last[t] \in 1 .. Len(log) /\ Len(log) \in Nat
  BY <1>0, <1>b, TypedLog DEF IsLast
<1>3. UNCHANGED <<log, durable, persistent, master, disk, buf, state, last, active, owner, ckpt, phase, todo,
                  rtab, rdpt, cursor, counts>>
  BY DEF UnpinPage, logVars, recoveryVars
<1>4. /\ dpt' = [dpt EXCEPT ![p] = MinRecLSN(@, last[t])]
      /\ at' = [at EXCEPT ![t] = NoPlace]
      /\ pc' = [pc EXCEPT ![t] = "idle"]
  BY <1>p DEF UnpinPage, Goto
<1>t. /\ buf \in [Page -> [val : Nat, lsn : Nat]] /\ dpt \in [Page -> Nat]
      /\ disk \in [Page -> [val : Nat, lsn : Nat]]
  BY <1>0 DEF TypeOK
<1>5. pc'[t] = "idle" /\ \A u \in Txn : u # t => pc'[u] = pc[u]
  BY <1>0, <1>4, TypedThread
<1>6. /\ dpt' \in [Page -> Nat] /\ dpt'[p] # 0 /\ dpt'[p] <= last[t]
      /\ \A q \in Page : (q # p => dpt'[q] = dpt[q]) /\ (dpt[q] # 0 => dpt'[q] # 0 /\ dpt'[q] <= dpt[q])
  BY <1>4, <1>l, <1>t DEF MinRecLSN
<1>7. TypeOK'
  <2>1. /\ pc' \in [Txn -> Quiet \cup Running \cup {"committing", "aborting", "ending"}]
        /\ at' \in [Txn -> [page : Page \cup {"none"}, before : Nat, undo : Nat]]
    BY <1>0, <1>4, TypedThread DEF Running, NoPlace
  <2> QED BY <1>0, <1>3, <1>6, <2>1 DEF TypeOK
<1>a. state[t] = "ACTIVE"
  BY <1>1, <1>s DEF ThreadSound
<1>8. ThreadSound(t)'
  BY <1>3, <1>5, <1>a, <1>b, <1>i DEF ThreadSound, Running
<1>9. ThreadsSound'
  <2>1. durable' \in Nat /\ durable <= durable'
    BY <1>0, <1>3, TypedLog
  <2> QED BY <1>0, <1>2, <1>3, <1>5, <1>8, <2>1, OtherThreads
<1>10. PagesLocked' /\ DiskSound' /\ LogSound'
  BY <1>0, <1>3 DEF PagesLocked, DiskSound, Logged, LogSound
<1>11. /\ \A q : Settled(q) = buf[q].val /\ (Pinned(q) <=> q = p)
       /\ \A k : ~InFlight(k, {"applying"}) /\ (InFlight(k, {"logged", "applying"}) <=> k = last[t])
  <2>1. {"applying"} \cap Quiet = {} /\ {"logged", "applying"} \cap Quiet = {}
    BY DEF Quiet
  <2>2. /\ \A q : Settled(q) = buf[q].val
        /\ \A q : Pinned(q) <=> pc[t] \in {"modified", "logged"} /\ at[t].page = q
        /\ \A k, W : W \cap Quiet = {} => (InFlight(k, W) <=> pc[t] \in W /\ last[t] = k)
    BY <1>1, <1>2, OnlyChange
  <2> QED BY <1>1, <1>p, <2>1, <2>2
<1>12. /\ \A q : Settled(q)' = buf[q].val /\ ~Pinned(q)'
  <2>1. \A u \in Txn : pc'[u] \notin {"modified", "logged"}
    BY <1>2, <1>5 DEF Quiet
  <2> QED BY <1>3, <2>1 DEF Settled, Pinned
<1>13. PoolSound'
  <2> SUFFICES ASSUME NEW q \in Page
               PROVE  /\ Logged(q, buf[q].lsn, Settled(q))'
                      /\ disk'[q].lsn <= buf'[q].lsn
                      /\ dpt'[q] = 0 => disk'[q] = buf'[q]
    BY DEF PoolSound
  <2>1. /\ Logged(q, buf[q].lsn, buf[q].val) /\ disk[q].lsn <= buf[q].lsn
        /\ dpt[q] = 0 /\ q # p => disk[q] = buf[q]
    BY <1>0, <1>11 DEF PoolSound
  <2>2. Logged(q, buf[q].lsn, Settled(q))'
    BY <1>3, <1>12, <2>1 DEF Logged
  <2> QED BY <1>3, <1>6, <2>1, <2>2
<1>14. UpToDate'
  BY <1>0, <1>3, <1>11 DEF UpToDate
<1>15. DirtyPagesCovered'
  <2> SUFFICES ASSUME NEW q \in Page, NEW k \in 1 .. Len(log), OnPage(log, k, q), disk[q].lsn < k
               PROVE  dpt'[q] # 0 /\ dpt'[q] <= k
    BY <1>3 DEF DirtyPagesCovered
  <2>1. (dpt[q] # 0 /\ dpt[q] <= k) \/ k = last[t]
    BY <1>0, <1>2, <1>11 DEF DirtyPagesCovered
  <2>2. CASE k = last[t]
    BY <1>6, <1>p, <2>2 DEF OnPage
  <2>3. CASE dpt[q] # 0 /\ dpt[q] <= k
    BY <1>6, <1>t, <2>3
  <2> QED BY <2>1, <2>2, <2>3
<1>16. CheckpointsSound'
  <2>1. durable' \in Nat /\ durable <= durable' /\ \A q \in Page : disk'[q].lsn \in Nat /\ disk[q].lsn <= disk'[q].lsn
    BY <1>0, <1>3, <1>t, TypedLog
  <2> QED BY <1>0, <1>3, <2>1, StillCheckpoints
<1>17. Sequential' /\ AnalysisSound' /\ RedoSound' /\ UndoSound'
  BY <1>0, <1>2, <1>3, <1>5, NotRecovering, StaysSequential
<1> QED BY <1>7, <1>9, <1>10, <1>13, <1>14, <1>15, <1>16, <1>17 DEF RecoveryInv

LEMMA LogResume ==
    ASSUME TypeOK, LogSound, NEW t, NEW b, NEW j, Runs(log, t, b, Len(log)), IsLast(log, t, Len(log), j)
    PROVE  /\ j \in b .. Len(log) /\ Resume(log, j) \in b..j /\ log[Resume(log, j)].txn = t
           /\ log[Resume(log, j)].type \in {"BEGIN", "UPDATE"}
           /\ log[Resume(log, j)].type = "BEGIN" <=> Resume(log, j) = b
           /\ log[j].type = "CLR" => Resume(log, j) < j
           /\ b \in 1 .. Len(log) /\ Len(log) \in Nat /\ Resume(log, j) \in 1 .. Len(log)
<1>1. IsLog(log, Len(log)) /\ Sound(log, Len(log)) /\ Len(log) \in Nat
  BY TypedLog DEF LogSound
<1>2. b \in 1 .. Len(log)
  BY DEF Runs
<1>3. /\ j \in b .. Len(log) /\ Resume(log, j) \in b..j /\ log[Resume(log, j)].txn = t
      /\ log[Resume(log, j)].type \in {"BEGIN", "UPDATE"}
      /\ log[Resume(log, j)].type = "BEGIN" <=> Resume(log, j) = b
      /\ log[j].type = "CLR" => Resume(log, j) < j
  BY <1>1, ResumePlace, ZenonT(60)
<1>4. Resume(log, j) \in 1 .. Len(log)
  BY <1>1, <1>2, <1>3
<1> QED BY <1>1, <1>2, <1>3, <1>4

LEMMA LogUpdateKeepsInv ==
    ASSUME RecoveryInv, NEW t \in Txn, LogUpdate(t)
    PROVE  RecoveryInv'
<1>0. TypeOK /\ LogSound /\ ThreadsSound /\ PagesLocked /\ DiskSound /\ PoolSound /\ UpToDate
      /\ DirtyPagesCovered /\ CheckpointsSound /\ UndoSound
  BY DEF RecoveryInv
<1>1. pc[t] = "modified" /\ pc[t] \notin Quiet
  BY DEF LogUpdate, Quiet
<1>2. phase = "running" /\ ckpt.pc = "idle" /\ \A u \in Txn : u # t => pc[u] \in Quiet
  BY <1>1, OthersQuiet
<1>s. ThreadSound(t)
  BY <1>0, <1>2 DEF ThreadsSound
<1>b. PICK b \in 1 .. Len(log) : /\ Runs(log, t, b, Len(log)) /\ IsLast(log, t, Len(log), last[t])
                                 /\ Forward(log, t, b, Len(log))
  BY <1>1, <1>s DEF ThreadSound, Running
<1>p. PICK p \in Page : at[t].page = p /\ owner[p] = t
  BY <1>1, <1>s DEF ThreadSound
<1>i. t \in active /\ Len(log) >= persistent /\ state[t] = "ACTIVE"
  BY <1>1, <1>s DEF ThreadSound
<1>t. /\ buf \in [Page -> [val : Nat, lsn : Nat]]
      /\ disk \in [Page -> [val : Nat, lsn : Nat]]
      /\ at[t].before \in Nat /\ last[t] \in Nat
  BY <1>0, TypedThread DEF TypeOK
<1>r. PICK r : r = MakePageImageLogRecord(t, last[t], p, at[t].before, buf[p].val)
  OBVIOUS
<1>f. /\ r.txn = t /\ r.type = "UPDATE" /\ r.prev = last[t] /\ r.page = p
      /\ r.before = at[t].before /\ r.after = buf[p].val
  BY <1>r DEF MakePageImageLogRecord
<1>3. r \in LogRecord /\ IsPageUpdateRecord(r) /\ log' = Append(log, r)
  <2>1. r \in [type : {"UPDATE"}, txn : Txn, prev : Nat, page : Page, before : Nat, after : Nat]
    BY <1>r, <1>t DEF MakePageImageLogRecord
  <2> QED BY <1>f, <1>p, <1>r, <2>1 DEF LogRecord, LogUpdate, LogForTxn, AppendRecord, IsPageUpdateRecord
<1>4. /\ Len(log') = Len(log) + 1 /\ Len(log) \in Nat /\ Agree(log, log', Len(log))
      /\ log'[Len(log) + 1] = r
  BY <1>0, <1>3, TypedLog, Appended
<1>5. UNCHANGED <<durable, persistent, master, disk, dpt, state, active, at, owner, ckpt, phase, todo,
                  rtab, rdpt, cursor, counts>>
  BY DEF LogUpdate, recoveryVars
<1>6. /\ last' = [last EXCEPT ![t] = Len(log) + 1] /\ pc' = [pc EXCEPT ![t] = "logged"]
      /\ buf' = [buf EXCEPT ![p].lsn = Len(log) + 1]
  BY <1>p DEF LogUpdate, LogForTxn, EndLSN, Goto
<1>7. /\ last'[t] = Len(log) + 1 /\ pc'[t] = "logged"
      /\ \A u \in Txn : u # t => last'[u] = last[u] /\ pc'[u] = pc[u]
  BY <1>0, <1>6, TypedThread
<1>8. /\ buf' \in [Page -> [val : Nat, lsn : Nat]] /\ buf'[p].lsn = Len(log) + 1 /\ buf'[p].val = buf[p].val
      /\ \A q \in Page : q # p => buf'[q] = buf[q]
  <2>1. Len(log) + 1 \in Nat
    BY <1>4
  <2> QED BY <1>6, <1>t, <2>1
<1>9. TypeOK'
  <2>1. log' \in Seq(LogRecord) /\ durable' \in 0 .. Len(log') /\ persistent' \in 0 .. durable' + 1
        /\ Len(log) + 1 \in Nat
    BY <1>0, <1>3, <1>5, AppendTyped
  <2>2. last' \in [Txn -> Nat]
        /\ pc' \in [Txn -> Quiet \cup Running \cup {"committing", "aborting", "ending"}]
    BY <1>0, <1>6, <2>1, TypedThread DEF Running
  <2> QED BY <1>0, <1>5, <1>8, <2>1, <2>2 DEF TypeOK
<1>c. /\ \A q : Settled(q) = IF p = q THEN at[t].before ELSE buf[q].val
      /\ \A q : Pinned(q) <=> p = q
      /\ \A k : ~InFlight(k, {"applying"}) /\ ~InFlight(k, {"logged", "applying"})
  <2>1. {"applying"} \cap Quiet = {} /\ {"logged", "applying"} \cap Quiet = {}
    BY DEF Quiet
  <2>2. /\ \A q : Settled(q) = IF at[t].page = q THEN at[t].before ELSE buf[q].val
        /\ \A q : Pinned(q) <=> pc[t] \in {"modified", "logged"} /\ at[t].page = q
        /\ \A k, W : W \cap Quiet = {} => (InFlight(k, W) <=> pc[t] \in W /\ last[t] = k)
    BY <1>1, <1>2, OnlyChange
  <2>3. pc[t] \notin {"applying"} /\ pc[t] \notin {"logged", "applying"}
    BY <1>1
  <2> QED BY <1>1, <1>p, <2>1, <2>2, <2>3
<1>10. RecordSound(log', Len(log) + 1)
  <2>1. Runs(log', t, b, Len(log)) /\ Forward(log', t, b, Len(log)) /\ IsLast(log', t, Len(log), last[t])
    BY <1>4, <1>b, SameRuns, SameForward, SameLast
  <2>2. Holds(log', p, Len(log), at[t].before)
    <3>1. \A u \in Txn : pc[u] # "applying"
      BY <1>1, <1>2 DEF Quiet
    <3>2. Holds(log, p, Len(log), Settled(p))
      BY <1>0, <1>2, <3>1, PoolHolds
    <3>3. Settled(p) = at[t].before
      BY <1>c
    <3> QED BY <1>4, <3>2, <3>3, SameHolds
  <2>3. ASSUME NEW u \in Txn, NEW c \in 1 .. Len(log), NEW k \in 1 .. Len(log),
               u # t, Runs(log', u, c, Len(log)), k > c, log'[k].txn = u
        PROVE  log'[k].page # p
    <3>1. log'[k] = log[k] /\ Runs(log, u, c, Len(log))
      BY <1>4, <2>3, SameRuns DEF Agree
    <3>2. owner[log[k].page] = u
      BY <1>0, <1>2, <2>3, <3>1 DEF PagesLocked
    <3> QED BY <1>p, <2>3, <3>1, <3>2
  <2>4. (Len(log) + 1) - 1 = Len(log)
    BY <1>4
  <2>5. UpdateSound(log', Len(log) + 1)
    BY <1>4, <1>f, <2>1, <2>2, <2>3, <2>4 DEF UpdateSound
  <2> QED BY <1>4, <1>f, <2>5 DEF RecordSound
<1>11. LogSound'
  BY <1>0, <1>3, <1>10, LogSoundAppend
<1>12. Foreseen(r)
  <2>1. pc[t] # "unborn"
    BY <1>1
  <2> QED BY <1>0, <1>2, <2>1, ForeseenRunning
<1>13. DiskSound'
  BY <1>0, <1>3, <1>5, <1>12, DiskAppend
<1>14. ThreadSound(t)'
  <2>1. Runs(log', t, b, Len(log')) /\ IsLast(log', t, Len(log'), Len(log) + 1)
    BY <1>0, <1>3, <1>b, <1>f, AppendOwn
  <2>2. Forward(log', t, b, Len(log')) /\ b \in 1 .. Len(log')
    <3>1. ASSUME NEW i \in b + 1 .. Len(log'), log'[i].txn = t PROVE log'[i].type = "UPDATE"
      <4>1. CASE i = Len(log) + 1
        BY <1>4, <1>f, <4>1
      <4>2. CASE i \in b + 1 .. Len(log)
        <5>1. log'[i] = log[i]
          BY <1>4, <4>2 DEF Agree
        <5> QED BY <1>b, <3>1, <4>2, <5>1 DEF Forward
      <4> QED BY <1>4, <4>1, <4>2
    <3> QED BY <1>4, <3>1 DEF Forward
  <2>3. OnPage(log', Len(log) + 1, p)
    BY <1>3, <1>4, <1>f DEF OnPage
  <2>4. Len(log') >= persistent
    BY <1>0, <1>4, TypedLog
  <2>5. at'[t].page = p
    BY <1>5, <1>p
  <2> QED BY <1>5, <1>7, <1>8, <1>i, <2>1, <2>2, <2>3, <2>4, <2>5 DEF ThreadSound, Running
<1>15. ThreadsSound'
  <2>1. durable' \in Nat /\ durable <= durable' /\ Len(log') >= persistent'
    BY <1>0, <1>4, <1>5, <1>i, TypedLog
  <2> QED BY <1>0, <1>2, <1>3, <1>5, <1>7, <1>14, <1>f, <2>1, OtherThreads
<1>16. PagesLocked'
  BY <1>0, <1>3, <1>5, <1>f, <1>p, PagesLockedAppend
<1>17. \A q : Settled(q)' = buf'[q].val
  <2>1. \A u \in Txn : pc'[u] # "modified"
    BY <1>2, <1>7 DEF Quiet
  <2> QED BY <2>1 DEF Settled
<1>18. PoolSound'
  <2> SUFFICES ASSUME NEW q \in Page
               PROVE  /\ Logged(q, buf[q].lsn, Settled(q))'
                      /\ disk'[q].lsn <= buf'[q].lsn
                      /\ dpt'[q] = 0 /\ ~Pinned(q)' => disk'[q] = buf'[q]
    BY DEF PoolSound
  <2>k. PICK k \in Nat, v \in Nat : k = buf[q].lsn /\ v = Settled(q)
    BY <1>c, <1>t
  <2>1. Logged(q, k, v) /\ disk[q].lsn <= k /\ (dpt[q] = 0 /\ ~Pinned(q) => disk[q] = buf[q])
    BY <1>0, <2>k DEF PoolSound
  <2>2. Logged(q, k, v)' /\ k \in 0 .. Len(log) + 1
    BY <1>0, <1>3, <1>12, <2>1, LoggedAppend
  <2>3. CASE q # p
    <3>1. buf'[q].lsn = k /\ Settled(q)' = v /\ buf'[q] = buf[q] /\ ~Pinned(q)
      BY <1>8, <1>17, <1>c, <2>3, <2>k
    <3>2. Logged(q, buf[q].lsn, Settled(q))'
      BY <2>2, <3>1 DEF Logged
    <3> QED BY <1>5, <2>1, <3>1, <3>2
  <2>4. CASE q = p
    <3>1. OnPage(log', Len(log) + 1, p) /\ log'[Len(log) + 1].after = buf[p].val
      BY <1>3, <1>4, <1>f DEF OnPage
    <3>2. Settled(p)' = buf[p].val /\ buf'[p].lsn = Len(log) + 1
      BY <1>8, <1>17
    <3>3. Logged(p, buf[p].lsn, Settled(p))'
      BY <1>4, <3>1, <3>2 DEF Logged
    <3>4. Pinned(p)'
      <4>1. at'[t].page = p
        BY <1>5, <1>p
      <4> QED BY <1>7, <4>1 DEF Pinned
    <3>5. disk[p].lsn <= Len(log) + 1
      BY <1>4, <1>t, <2>1, <2>2, <2>4
    <3> QED BY <1>5, <2>4, <3>2, <3>3, <3>4, <3>5
  <2> QED BY <2>3, <2>4
<1>19. ASSUME NEW q \in Page, NEW k \in 1 .. Len(log'), OnPage(log', k, q)
       PROVE  (k = Len(log) + 1 /\ q = p) \/ (k \in 1 .. Len(log) /\ OnPage(log, k, q))
  <2>1. CASE k = Len(log) + 1
    BY <1>4, <1>19, <1>f, <2>1 DEF OnPage
  <2>2. CASE k \in 1 .. Len(log)
    <3>1. log'[k] = log[k]
      BY <1>4, <2>2 DEF Agree
    <3> QED BY <1>19, <2>2, <3>1 DEF OnPage
  <2> QED BY <1>4, <2>1, <2>2
<1>20. UpToDate'
  <2> SUFFICES ASSUME NEW q \in Page, NEW k \in 1 .. Len(log'), OnPage(log', k, q)
               PROVE  k <= buf'[q].lsn
    BY DEF UpToDate
  <2>1. CASE k = Len(log) + 1 /\ q = p
    BY <1>4, <1>8, <2>1
  <2>2. CASE k \in 1 .. Len(log) /\ OnPage(log, k, q)
    <3>1. k <= buf[q].lsn
      BY <1>0, <1>2, <1>c, <2>2 DEF UpToDate
    <3> QED BY <1>4, <1>8, <2>2, <3>1, SMTT(60)
  <2> QED BY <1>19, <2>1, <2>2
<1>21. DirtyPagesCovered'
  <2> SUFFICES ASSUME NEW q \in Page, NEW k \in 1 .. Len(log'), OnPage(log', k, q), disk[q].lsn < k
               PROVE  (dpt[q] # 0 /\ dpt[q] <= k) \/ InFlight(k, {"logged", "applying"})'
    BY <1>5 DEF DirtyPagesCovered
  <2>1. CASE k = Len(log) + 1 /\ q = p
    BY <1>7, <2>1 DEF InFlight
  <2>2. CASE k \in 1 .. Len(log) /\ OnPage(log, k, q)
    BY <1>0, <1>2, <1>c, <2>2 DEF DirtyPagesCovered
  <2> QED BY <1>19, <2>1, <2>2
<1>22. CheckpointsSound'
  <2>1. durable' \in Nat /\ durable <= durable' /\ \A q \in Page : disk'[q].lsn \in Nat /\ disk[q].lsn <= disk'[q].lsn
    BY <1>0, <1>5, <1>t, TypedLog
  <2>2. r.type # "END_CHECKPOINT"
    BY <1>f
  <2> QED BY <1>0, <1>2, <1>3, <1>5, <2>1, <2>2, StillCheckpoints
<1>23. Sequential' /\ AnalysisSound' /\ RedoSound' /\ UndoSound'
  BY <1>0, <1>2, <1>5, <1>7, NotRecovering, StaysSequential
<1> QED BY <1>9, <1>11, <1>13, <1>15, <1>16, <1>18, <1>20, <1>21, <1>22, <1>23 DEF RecoveryInv

LEMMA RollbackRecordKeepsInv ==
    ASSUME RecoveryInv, NEW t \in Txn, RollbackRecord(t)
    PROVE  RecoveryInv'
<1>0. TypeOK /\ LogSound /\ ThreadsSound /\ PagesLocked /\ DiskSound /\ PoolSound /\ UpToDate
      /\ DirtyPagesCovered /\ CheckpointsSound /\ UndoSound
  BY DEF RecoveryInv
<1>1. pc[t] = "rollback" /\ pc[t] \notin Quiet /\ log[at[t].undo].type = "UPDATE"
  BY DEF RollbackRecord, Quiet
<1>2. phase = "running" /\ ckpt.pc = "idle" /\ \A u \in Txn : u # t => pc[u] \in Quiet
  BY <1>1, OthersQuiet
<1>s. ThreadSound(t)
  BY <1>0, <1>2 DEF ThreadsSound
<1>b. PICK b \in 1 .. Len(log) : /\ Runs(log, t, b, Len(log)) /\ IsLast(log, t, Len(log), last[t])
                                 /\ at[t].undo = Resume(log, last[t])
  BY <1>1, <1>s DEF ThreadSound, Running
<1>m. PICK m : m = at[t].undo
  OBVIOUS
<1>e. /\ last[t] \in b .. Len(log) /\ m = Resume(log, last[t]) /\ m \in 1 .. Len(log)
      /\ m > b /\ log[m].txn = t /\ log[m].type = "UPDATE" /\ Len(log) \in Nat
  <2>1. /\ last[t] \in b .. Len(log) /\ Resume(log, last[t]) \in b .. last[t]
        /\ log[Resume(log, last[t])].txn = t
        /\ log[Resume(log, last[t])].type = "BEGIN" <=> Resume(log, last[t]) = b
        /\ Len(log) \in Nat /\ Resume(log, last[t]) \in 1 .. Len(log)
    BY <1>0, <1>b, LogResume, ZenonT(60)
  <2> QED BY <1>1, <1>b, <1>m, <2>1
<1>i. t \in active /\ Len(log) >= persistent /\ state[t] \in {"ACTIVE", "ABORTING"}
  BY <1>1, <1>s DEF ThreadSound
<1>x. log[m] \in LogRecord
  BY <1>0, <1>e, TypedLog
<1>p. PICK p \in Page : log[m].page = p
  BY <1>e, <1>x, RecordFields DEF IsPageUpdateRecord
<1>t. /\ buf \in [Page -> [val : Nat, lsn : Nat]] /\ disk \in [Page -> [val : Nat, lsn : Nat]]
      /\ last[t] \in Nat /\ log[m].prev \in Nat /\ log[m].before \in Nat
  BY <1>0, <1>e, <1>x, RecordFields, TypedThread DEF TypeOK
<1>r. PICK r : r = MakeClrPageUndoRecord(t, last[t], log[m].prev, p, log[m].before)
  OBVIOUS
<1>f. /\ r.txn = t /\ r.type = "CLR" /\ r.prev = last[t] /\ r.page = p
      /\ r.undoNext = log[m].prev /\ r.after = log[m].before
  BY <1>r DEF MakeClrPageUndoRecord
<1>3. r \in LogRecord /\ IsPageUpdateRecord(r) /\ log' = Append(log, r)
  <2>1. r \in [type : {"CLR"}, txn : Txn, prev : Nat, undoNext : Nat, page : Page, after : Nat]
    BY <1>r, <1>t DEF MakeClrPageUndoRecord
  <2> QED BY <1>f, <1>m, <1>p, <1>r, <2>1 DEF LogRecord, RollbackRecord, LogForTxn, AppendRecord, IsPageUpdateRecord
<1>4. /\ Len(log') = Len(log) + 1 /\ Len(log) \in Nat /\ Agree(log, log', Len(log))
      /\ log'[Len(log) + 1] = r
  BY <1>0, <1>3, TypedLog, Appended
<1>5. UNCHANGED <<durable, persistent, master, disk, buf, dpt, state, active, at, owner, ckpt, phase, todo,
                  rtab, rdpt, cursor, counts>>
  BY DEF RollbackRecord, pageVars, recoveryVars
<1>6. last' = [last EXCEPT ![t] = Len(log) + 1] /\ pc' = [pc EXCEPT ![t] = "applying"]
  BY DEF RollbackRecord, LogForTxn, EndLSN, Goto
<1>7. /\ last'[t] = Len(log) + 1 /\ pc'[t] = "applying"
      /\ \A u \in Txn : u # t => last'[u] = last[u] /\ pc'[u] = pc[u]
  BY <1>0, <1>6, TypedThread
<1>9. TypeOK'
  <2>1. log' \in Seq(LogRecord) /\ durable' \in 0 .. Len(log') /\ persistent' \in 0 .. durable' + 1
        /\ Len(log) + 1 \in Nat
    BY <1>0, <1>3, <1>5, AppendTyped
  <2>2. last' \in [Txn -> Nat]
        /\ pc' \in [Txn -> Quiet \cup Running \cup {"committing", "aborting", "ending"}]
    BY <1>0, <1>6, <2>1, TypedThread DEF Running
  <2> QED BY <1>0, <1>5, <2>1, <2>2 DEF TypeOK
<1>o. owner[p] = t
  BY <1>0, <1>2, <1>b, <1>e, <1>p DEF PagesLocked
<1>10. RecordSound(log', Len(log) + 1)
  <2>1. /\ Runs(log', t, b, Len(log)) /\ IsLast(log', t, Len(log), last[t])
        /\ Resume(log', last[t]) = m
    BY <1>4, <1>b, <1>e, SameRuns, SameLast
  <2>2. log'[m] = log[m]
    BY <1>4, <1>e DEF Agree
  <2>3. (Len(log) + 1) - 1 = Len(log) /\ last[t] \in 1 .. Len(log) /\ m \in b + 1 .. Len(log)
    BY <1>4, <1>e
  <2>4. ClrSound(log', Len(log) + 1)
    BY <1>4, <1>e, <1>f, <1>p, <2>1, <2>2, <2>3 DEF ClrSound
  <2> QED BY <1>4, <1>f, <2>4 DEF RecordSound
<1>11. LogSound'
  BY <1>0, <1>3, <1>10, LogSoundAppend
<1>12. Foreseen(r)
  <2>1. pc[t] # "unborn"
    BY <1>1
  <2> QED BY <1>0, <1>2, <2>1, ForeseenRunning
<1>13. DiskSound'
  BY <1>0, <1>3, <1>5, <1>12, DiskAppend
<1>14. ThreadSound(t)'
  <2>1. Runs(log', t, b, Len(log')) /\ IsLast(log', t, Len(log'), Len(log) + 1)
    BY <1>0, <1>3, <1>b, <1>f, AppendOwn
  <2>2. b \in 1 .. Len(log') /\ m \in 1 .. Len(log') /\ log'[m] = log[m]
    BY <1>4, <1>e DEF Agree
  <2>4. Len(log') >= persistent
    BY <1>0, <1>4, TypedLog
  <2>5. at'[t].undo = m
    BY <1>5, <1>m
  <2> QED BY <1>4, <1>5, <1>7, <1>e, <1>f, <1>i, <1>p, <2>1, <2>2, <2>4, <2>5 DEF ThreadSound, Running
<1>15. ThreadsSound'
  <2>1. durable' \in Nat /\ durable <= durable' /\ Len(log') >= persistent'
    BY <1>0, <1>4, <1>5, <1>i, TypedLog
  <2> QED BY <1>0, <1>2, <1>3, <1>5, <1>7, <1>14, <1>f, <2>1, OtherThreads
<1>16. PagesLocked'
  BY <1>0, <1>3, <1>5, <1>f, <1>o, PagesLockedAppend
<1>c. NoneChanging
  BY <1>1, <1>2 DEF NoneChanging, Quiet
<1>d. /\ \A q : Settled(q) = buf[q].val /\ ~Pinned(q)
      /\ \A k : ~InFlight(k, {"applying"}) /\ ~InFlight(k, {"logged", "applying"})
  BY <1>c, NoneChangingMeans
<1>17. \A q : Settled(q)' = buf[q].val
  <2>1. \A u \in Txn : pc'[u] # "modified"
    BY <1>2, <1>7 DEF Quiet
  <2> QED BY <1>5, <2>1 DEF Settled
<1>18. PoolSound'
  <2> SUFFICES ASSUME NEW q \in Page
               PROVE  /\ Logged(q, buf[q].lsn, Settled(q))'
                      /\ disk'[q].lsn <= buf'[q].lsn
                      /\ dpt'[q] = 0 => disk'[q] = buf'[q]
    BY DEF PoolSound
  <2>k. PICK k \in Nat, v \in Nat : k = buf[q].lsn /\ v = buf[q].val
    BY <1>t
  <2>1. Logged(q, k, v) /\ disk[q].lsn <= k /\ (dpt[q] = 0 => disk[q] = buf[q])
    BY <1>0, <1>d, <2>k DEF PoolSound
  <2>2. Logged(q, k, v)'
    BY <1>0, <1>3, <1>12, <2>1, LoggedAppend
  <2>3. buf'[q].lsn = k /\ Settled(q)' = v /\ buf'[q] = buf[q]
    BY <1>5, <1>17, <2>k
  <2>4. Logged(q, buf[q].lsn, Settled(q))'
    BY <2>2, <2>3 DEF Logged
  <2> QED BY <1>5, <2>1, <2>3, <2>4
<1>19. ASSUME NEW q \in Page, NEW k \in 1 .. Len(log'), OnPage(log', k, q)
       PROVE  \/ InFlight(k, {"applying"})' /\ InFlight(k, {"logged", "applying"})'
              \/ k \in 1 .. Len(log) /\ OnPage(log, k, q)
  <2>1. CASE k = Len(log) + 1
    BY <1>7, <2>1 DEF InFlight
  <2>2. CASE k \in 1 .. Len(log)
    <3>1. log'[k] = log[k]
      BY <1>4, <2>2 DEF Agree
    <3> QED BY <1>19, <2>2, <3>1 DEF OnPage
  <2> QED BY <1>4, <2>1, <2>2
<1>20. UpToDate'
  <2> SUFFICES ASSUME NEW q \in Page, NEW k \in 1 .. Len(log'), OnPage(log', k, q)
               PROVE  k <= buf[q].lsn \/ InFlight(k, {"applying"})'
    BY <1>5 DEF UpToDate
  <2>1. ASSUME k \in 1 .. Len(log), OnPage(log, k, q) PROVE k <= buf[q].lsn
    BY <1>0, <1>2, <1>d, <2>1 DEF UpToDate
  <2> QED BY <1>19, <2>1
<1>21. DirtyPagesCovered'
  <2> SUFFICES ASSUME NEW q \in Page, NEW k \in 1 .. Len(log'), OnPage(log', k, q), disk[q].lsn < k
               PROVE  (dpt[q] # 0 /\ dpt[q] <= k) \/ InFlight(k, {"logged", "applying"})'
    BY <1>5 DEF DirtyPagesCovered
  <2>1. ASSUME k \in 1 .. Len(log), OnPage(log, k, q) PROVE dpt[q] # 0 /\ dpt[q] <= k
    BY <1>0, <1>2, <1>d, <2>1 DEF DirtyPagesCovered
  <2> QED BY <1>19, <2>1
<1>22. CheckpointsSound'
  <2>1. durable' \in Nat /\ durable <= durable' /\ \A q \in Page : disk'[q].lsn \in Nat /\ disk[q].lsn <= disk'[q].lsn
    BY <1>0, <1>5, <1>t, TypedLog
  <2>2. r.type # "END_CHECKPOINT"
    BY <1>f
  <2> QED BY <1>0, <1>2, <1>3, <1>5, <2>1, <2>2, StillCheckpoints
<1>23. Sequential' /\ AnalysisSound' /\ RedoSound' /\ UndoSound'
  BY <1>0, <1>2, <1>5, <1>7, NotRecovering, StaysSequential
<1> QED BY <1>9, <1>11, <1>13, <1>15, <1>16, <1>18, <1>20, <1>21, <1>22, <1>23 DEF RecoveryInv

LEMMA ApplyRollbackKeepsInv ==
    ASSUME RecoveryInv, NEW t \in Txn, ApplyRollback(t)
    PROVE  RecoveryInv'
<1>0. TypeOK /\ LogSound /\ ThreadsSound /\ PagesLocked /\ DiskSound /\ PoolSound /\ UpToDate
      /\ DirtyPagesCovered /\ CheckpointsSound /\ UndoSound
  BY DEF RecoveryInv
<1>1. pc[t] = "applying" /\ pc[t] \notin Quiet
  BY DEF ApplyRollback, Quiet
<1>2. phase = "running" /\ ckpt.pc = "idle" /\ \A u \in Txn : u # t => pc[u] \in Quiet
  BY <1>1, OthersQuiet
<1>s. ThreadSound(t)
  BY <1>0, <1>2 DEF ThreadsSound
<1>b. PICK b \in 1 .. Len(log) : Runs(log, t, b, Len(log)) /\ IsLast(log, t, Len(log), last[t])
  BY <1>1, <1>s DEF ThreadSound, Running
<1>m. PICK m : m = at[t].undo
  OBVIOUS
<1>e. /\ m \in 1 .. Len(log) /\ log[m].type = "UPDATE"
      /\ last[t] = Len(log) /\ log[last[t]].type = "CLR"
      /\ log[last[t]].undoNext = log[m].prev
      /\ log[last[t]].page = log[m].page
      /\ log[last[t]].after = log[m].before
  BY <1>1, <1>m, <1>s DEF ThreadSound
<1>i. t \in active /\ Len(log) >= persistent /\ state[t] \in {"ACTIVE", "ABORTING"}
  BY <1>1, <1>s DEF ThreadSound
<1>x. log[m] \in LogRecord /\ Len(log) \in Nat /\ last[t] \in 1 .. Len(log)
  BY <1>0, <1>e, TypedLog
<1>p. PICK p \in Page : log[m].page = p
  BY <1>e, <1>x, RecordFields DEF IsPageUpdateRecord
<1>t. /\ buf \in [Page -> [val : Nat, lsn : Nat]] /\ disk \in [Page -> [val : Nat, lsn : Nat]]
      /\ dpt \in [Page -> Nat]
      /\ last[t] \in Nat /\ log[m].prev \in Nat /\ log[m].before \in Nat
  BY <1>0, <1>e, <1>x, RecordFields, TypedThread DEF TypeOK
<1>3. OnPage(log, last[t], p) /\ \A q \in Page : OnPage(log, last[t], q) => q = p
  BY <1>e, <1>p DEF OnPage, IsPageUpdateRecord
<1>5. UNCHANGED <<log, durable, persistent, master, disk, state, last, active, owner, ckpt, phase, todo,
                  rtab, rdpt, cursor, counts>>
  BY DEF ApplyRollback, logVars, recoveryVars
<1>6. /\ at' = [at EXCEPT ![t].undo = log[m].prev] /\ pc' = [pc EXCEPT ![t] = "rollback"]
      /\ buf' = [buf EXCEPT ![p] = [val |-> log[m].before, lsn |-> last[t]]]
      /\ dpt' = [dpt EXCEPT ![p] = MinRecLSN(@, last[t])]
  BY <1>m, <1>p DEF ApplyRollback, ApplyImage, Goto
<1>7. /\ pc'[t] = "rollback" /\ at'[t].undo = log[m].prev
      /\ \A u \in Txn : u # t => pc'[u] = pc[u]
  BY <1>0, <1>6, TypedThread
<1>8. /\ buf' \in [Page -> [val : Nat, lsn : Nat]]
      /\ buf'[p].lsn = Len(log) /\ buf'[p].val = log[m].before
      /\ \A q \in Page : q # p => buf'[q] = buf[q]
  BY <1>6, <1>t, <1>e
<1>9. /\ dpt' \in [Page -> Nat] /\ dpt'[p] # 0 /\ dpt'[p] <= last[t]
      /\ \A q \in Page : (q # p => dpt'[q] = dpt[q]) /\ (dpt[q] # 0 => dpt'[q] # 0 /\ dpt'[q] <= dpt[q])
  BY <1>6, <1>t, <1>x, SMTT(60) DEF MinRecLSN
<1>10. TypeOK'
  <2>1. /\ pc' \in [Txn -> Quiet \cup Running \cup {"committing", "aborting", "ending"}]
        /\ at' \in [Txn -> [page : Page \cup {"none"}, before : Nat, undo : Nat]]
    BY <1>0, <1>6, <1>t, TypedThread DEF Running
  <2> QED BY <1>0, <1>5, <1>8, <1>9, <2>1 DEF TypeOK
<1>11. ThreadSound(t)'
  <2>1. Resume(log, last[t]) = log[m].prev
    BY <1>e DEF Resume
  <2> QED BY <1>5, <1>7, <1>b, <1>i, <2>1 DEF ThreadSound, Running
<1>12. ThreadsSound'
  <2>1. durable' \in Nat /\ durable <= durable'
    BY <1>0, <1>5, TypedLog
  <2> QED BY <1>0, <1>2, <1>5, <1>7, <1>11, <2>1, OtherThreads
<1>13. PagesLocked' /\ DiskSound' /\ LogSound'
  BY <1>0, <1>5 DEF PagesLocked, DiskSound, Logged, LogSound
<1>14. /\ \A q : Settled(q) = buf[q].val /\ ~Pinned(q)
       /\ \A k : /\ InFlight(k, {"applying"}) <=> k = last[t]
                 /\ InFlight(k, {"logged", "applying"}) <=> k = last[t]
  <2>1. {"applying"} \cap Quiet = {} /\ {"logged", "applying"} \cap Quiet = {}
    BY DEF Quiet
  <2>2. /\ \A q : Settled(q) = buf[q].val
        /\ \A q : Pinned(q) <=> pc[t] \in {"modified", "logged"} /\ at[t].page = q
        /\ \A k, W : W \cap Quiet = {} => (InFlight(k, W) <=> pc[t] \in W /\ last[t] = k)
    BY <1>1, <1>2, OnlyChange
  <2> QED BY <1>1, <2>1, <2>2
<1>15. \A q : Settled(q)' = buf'[q].val
  <2>1. \A u \in Txn : pc'[u] # "modified"
    BY <1>2, <1>7 DEF Quiet
  <2> QED BY <2>1 DEF Settled
<1>16. PoolSound'
  <2> SUFFICES ASSUME NEW q \in Page
               PROVE  /\ Logged(q, buf[q].lsn, Settled(q))'
                      /\ disk'[q].lsn <= buf'[q].lsn
                      /\ dpt'[q] = 0 => disk'[q] = buf'[q]
    BY DEF PoolSound
  <2>1. /\ Logged(q, buf[q].lsn, buf[q].val) /\ disk[q].lsn <= buf[q].lsn
        /\ dpt[q] = 0 => disk[q] = buf[q]
    BY <1>0, <1>14 DEF PoolSound
  <2>2. CASE q # p
    <3>1. buf'[q] = buf[q] /\ Settled(q)' = buf[q].val /\ dpt'[q] = dpt[q]
      BY <1>8, <1>9, <1>15, <2>2
    <3>2. Logged(q, buf[q].lsn, Settled(q))'
      BY <1>5, <2>1, <3>1 DEF Logged
    <3> QED BY <1>5, <2>1, <3>1, <3>2
  <2>3. CASE q = p
    <3>1. buf[p].lsn <= Len(log)
      <4>1. buf[p].lsn = 0 \/ buf[p].lsn \in 1 .. Len(log)
        BY <1>0, <1>2, <2>1, <2>3, RunningIsLogged
      <4> QED BY <1>x, <4>1
    <3>2. buf'[p].lsn = last[t] /\ Settled(p)' = log[last[t]].after
      BY <1>8, <1>15, <1>e
    <3>3. Logged(p, buf[p].lsn, Settled(p))'
      BY <1>3, <1>5, <1>x, <3>2 DEF Logged
    <3>4. disk[p].lsn <= Len(log)
      BY <1>t, <1>x, <2>1, <2>3, <3>1
    <3> QED BY <1>5, <1>8, <1>9, <2>3, <3>3, <3>4
  <2> QED BY <2>2, <2>3
<1>17. UpToDate'
  <2> SUFFICES ASSUME NEW q \in Page, NEW k \in 1 .. Len(log), OnPage(log, k, q)
               PROVE  k <= buf'[q].lsn
    BY <1>5 DEF UpToDate
  <2>1. CASE q = p
    BY <1>8, <1>x, <2>1
  <2>2. CASE q # p
    <3>1. k # last[t]
      BY <1>3, <2>2
    <3> QED BY <1>0, <1>2, <1>8, <1>14, <2>2, <3>1 DEF UpToDate
  <2> QED BY <2>1, <2>2
<1>18. DirtyPagesCovered'
  <2> SUFFICES ASSUME NEW q \in Page, NEW k \in 1 .. Len(log), OnPage(log, k, q), disk[q].lsn < k
               PROVE  dpt'[q] # 0 /\ dpt'[q] <= k
    BY <1>5 DEF DirtyPagesCovered
  <2>1. (dpt[q] # 0 /\ dpt[q] <= k) \/ k = last[t]
    BY <1>0, <1>2, <1>14 DEF DirtyPagesCovered
  <2>2. CASE k = last[t]
    BY <1>3, <1>9, <2>2
  <2>3. CASE dpt[q] # 0 /\ dpt[q] <= k
    BY <1>9, <1>t, <1>x, <2>3, SMTT(30)
  <2> QED BY <2>1, <2>2, <2>3
<1>19. CheckpointsSound'
  <2>1. durable' \in Nat /\ durable <= durable' /\ \A q \in Page : disk'[q].lsn \in Nat /\ disk[q].lsn <= disk'[q].lsn
    BY <1>0, <1>5, <1>t, TypedLog, SMTT(30)
  <2> QED BY <1>0, <1>5, <2>1, StillCheckpoints
<1>20. Sequential' /\ AnalysisSound' /\ RedoSound' /\ UndoSound'
  BY <1>0, <1>2, <1>5, <1>7, NotRecovering, StaysSequential
<1> QED BY <1>10, <1>12, <1>13, <1>16, <1>17, <1>18, <1>19, <1>20 DEF RecoveryInv

(* Steps of a checkpoint, with every thread between operations.            *)
LEMMA CheckpointStepKeepsInv ==
    ASSUME RecoveryInv, phase = "running", \A u \in Txn : pc[u] \in Quiet,
           UNCHANGED <<disk, buf, dpt, state, last, active, pc, at, owner, phase, todo>>,
           \/ log' = log /\ SyncStep
           \/ /\ UNCHANGED <<durable, persistent>>
              /\ \E r \in LogRecord :
                    /\ log' = Append(log, r) /\ r.type \in {"BEGIN_CHECKPOINT", "END_CHECKPOINT"}
                    /\ RecordSound(log', Len(log) + 1),
           TypeOK', CheckpointsSound'
    PROVE  RecoveryInv'
<1>0. TypeOK /\ LogSound /\ ThreadsSound /\ PagesLocked /\ DiskSound /\ PoolSound /\ UpToDate
      /\ DirtyPagesCovered /\ UndoSound
  BY DEF RecoveryInv
<1>n. Len(log) \in Nat /\ persistent \in Nat /\ durable \in Nat
  BY <1>0, TypedLog
<1>1. Sequential' /\ AnalysisSound' /\ RedoSound' /\ UndoSound'
  <2>1. Sequential'
    BY DEF Sequential
  <2> QED BY <1>0, <2>1, NotRecovering
<1>c. NoneChanging /\ NoneChanging'
  BY DEF NoneChanging, Quiet
<1>2. CASE log' = log /\ SyncStep
  <2>1. ThreadsSound'
    BY <1>0, <1>2, ThreadsSync
  <2>2. LogSound' /\ PagesLocked'
    BY <1>0, <1>2 DEF LogSound, PagesLocked
  <2>3. DiskSound'
    <3>1. disk' \in [Page -> [val : Nat, lsn : Nat]]
      BY DEF TypeOK
    <3> QED BY <1>0, <1>2, <3>1, DiskAfterFlush
  <2>4. PoolSound' /\ UpToDate' /\ DirtyPagesCovered'
    BY <1>0, <1>2, <1>c, StillPages
  <2> QED BY <1>1, <2>1, <2>2, <2>3, <2>4 DEF RecoveryInv
<1>3. ASSUME NEW r \in LogRecord, log' = Append(log, r),
             r.type \in {"BEGIN_CHECKPOINT", "END_CHECKPOINT"}, RecordSound(log', Len(log) + 1),
             UNCHANGED <<durable, persistent>>
      PROVE  RecoveryInv'
  <2>1. Len(log') = Len(log) + 1 /\ ~IsPageUpdateRecord(r) /\ \A t \in Txn : r.txn # t
    <3>1. r.txn = NoTxn
      BY <1>3, RecordFields
    <3> QED BY <1>0, <1>3, <3>1, TypedLog, Appended, WalTxnAssumption DEF IsPageUpdateRecord, NoTxn
  <2>2. Foreseen(r)
    BY <1>0, <2>1, ForeseenRunning
  <2>3. ThreadsSound'
    <3>1. ASSUME NEW t \in Txn PROVE ThreadSound(t)'
      <4>1. ThreadSound(t)
        BY <1>0 DEF ThreadsSound
      <4>2. durable' \in Nat /\ durable <= durable' /\ (Len(log) >= persistent => Len(log') >= persistent')
        BY <1>3, <1>n, <2>1
      <4> QED BY <1>0, <1>3, <2>1, <4>1, <4>2, QuietThread
    <3> QED BY <3>1 DEF ThreadsSound
  <2>4. LogSound'
    BY <1>0, <1>3, LogSoundAppend
  <2>5. DiskSound'
    BY <1>0, <1>3, <2>2, DiskAppend
  <2>6. PoolSound' /\ UpToDate' /\ DirtyPagesCovered'
    BY <1>0, <1>3, <1>c, <2>1, <2>2, StillPages
  <2>7. PagesLocked'
    BY <1>0, <1>3, <2>1, PagesLockedAppend
  <2> QED BY <1>1, <2>3, <2>4, <2>5, <2>6, <2>7 DEF RecoveryInv
<1> QED BY <1>2, <1>3

LEMMA CheckpointQuiet ==
    ASSUME RecoveryInv, ckpt.pc # "idle"
    PROVE  phase = "running" /\ \A u \in Txn : pc[u] \in Quiet
BY DEF RecoveryInv, Sequential

LEMMA TypedCheckpoint ==
    ASSUME TypeOK
    PROVE  /\ ckpt \in [pc : {"idle", "begun", "txns", "pages", "ended"}, begin : Nat, end : Nat,
                        txns : SUBSET SavedTxn, pages : SUBSET SavedPage]
           /\ counts \in [begins : Nat, writes : Nat, crashes : Nat, checkpoints : Nat]
           /\ \A p \in Page : disk[p].lsn \in Nat
           /\ dpt \in [Page -> Nat] /\ master \in Nat
BY DEF TypeOK

LEMMA BeginCheckpointKeepsInv ==
    ASSUME OneAtATime, RecoveryInv, BeginCheckpoint
    PROVE  RecoveryInv'
<1>0. TypeOK /\ CheckpointsSound
  BY DEF RecoveryInv
<1>1. phase = "running" /\ ckpt.pc = "idle" /\ \A u \in Txn : pc[u] \in Quiet
  BY AllQuiet DEF BeginCheckpoint
<1>r. PICK r : r = TxnRecord("BEGIN_CHECKPOINT", NoTxn, 0)
  OBVIOUS
<1>2. r \in LogRecord /\ r.type = "BEGIN_CHECKPOINT" /\ log' = Append(log, r)
  BY <1>r DEF BeginCheckpoint, AppendRecord, TxnRecord, LogRecord
<1>3. /\ Len(log') = Len(log) + 1 /\ Len(log) \in Nat /\ Agree(log, log', Len(log))
      /\ log'[Len(log) + 1] = r
  BY <1>0, <1>2, TypedLog, Appended
<1>4. UNCHANGED <<durable, persistent, master, disk, buf, dpt, state, last, active, pc, at, owner, phase,
                  todo, rtab, rdpt, cursor>>
  BY DEF BeginCheckpoint, pageVars, txnVars, recoveryVars
<1>5. ckpt' = [pc |-> "begun", begin |-> Len(log) + 1, end |-> 0, txns |-> {}, pages |-> {}]
  BY DEF BeginCheckpoint, EndLSN
<1>6. TypeOK'
  <2>1. log' \in Seq(LogRecord) /\ durable' \in 0 .. Len(log') /\ persistent' \in 0 .. durable' + 1
        /\ Len(log) + 1 \in Nat
    BY <1>0, <1>2, <1>4, AppendTyped
  <2>2. counts' \in [begins : Nat, writes : Nat, crashes : Nat, checkpoints : Nat]
    <3>1. counts' = [counts EXCEPT !.checkpoints = @ + 1]
      BY DEF BeginCheckpoint
    <3> QED BY <1>0, <3>1, TypedCheckpoint
  <2>3. ckpt' \in [pc : {"idle", "begun", "txns", "pages", "ended"}, begin : Nat, end : Nat,
                   txns : SUBSET SavedTxn, pages : SUBSET SavedPage]
    BY <1>5, <2>1
  <2> QED BY <1>0, <1>4, <2>1, <2>2, <2>3 DEF TypeOK
<1>7. RecordSound(log', Len(log) + 1)
  BY <1>2, <1>3 DEF RecordSound
<1>8. CheckpointsSound'
  <2>1. durable' \in Nat /\ durable <= durable' /\ \A q \in Page : disk'[q].lsn \in Nat /\ disk[q].lsn <= disk'[q].lsn
    BY <1>0, <1>4, TypedCheckpoint, TypedLog
  <2>2. /\ \A i \in 1 .. Len(log) : log'[i].type = "END_CHECKPOINT" => PagesSaved(i, log[i].pages)'
        /\ master # 0 =>
            /\ master < durable'
            /\ log'[master].type = "BEGIN_CHECKPOINT" /\ log'[master + 1].type = "END_CHECKPOINT"
    BY <1>0, <1>3, <1>4, <2>1, CheckpointsStay
  <2>3. \A i \in 1 .. Len(log') : log'[i].type = "END_CHECKPOINT" => PagesSaved(i, log[i].pages)'
    BY <1>2, <1>3, <2>2
  <2>4. ckpt'.pc = "begun" /\ ckpt'.begin = Len(log')
    BY <1>3, <1>5
  <2>5. Len(log') > 0 /\ log'[Len(log')].type = "BEGIN_CHECKPOINT" /\ master' = master
    BY <1>2, <1>3, <1>4
  <2> QED BY <2>2, <2>3, <2>4, <2>5 DEF CheckpointsSound
<1> QED BY <1>1, <1>2, <1>4, <1>6, <1>7, <1>8, CheckpointStepKeepsInv

LEMMA SnapshotStep ==
    ASSUME RecoveryInv, ckpt.pc # "idle",
           UNCHANGED <<log, durable, persistent, master, disk, buf, dpt, state, last, active, pc, at, owner,
                       phase, todo, rtab, rdpt, cursor, counts>>,
           ckpt' \in [pc : {"idle", "begun", "txns", "pages", "ended"}, begin : Nat, end : Nat,
                      txns : SUBSET SavedTxn, pages : SUBSET SavedPage],
           CheckpointsSound'
    PROVE  RecoveryInv'
<1>0. TypeOK
  BY DEF RecoveryInv
<1>1. phase = "running" /\ \A u \in Txn : pc[u] \in Quiet
  BY CheckpointQuiet
<1>2. TypeOK'
  BY <1>0 DEF TypeOK
<1>3. SyncStep
  BY DEF SyncStep
<1> QED BY <1>1, <1>2, <1>3, CheckpointStepKeepsInv

LEMMA GetTransactionTableSnapshotKeepsInv ==
    ASSUME RecoveryInv, GetTransactionTableSnapshot
    PROVE  RecoveryInv'
<1>0. TypeOK /\ ThreadsSound /\ CheckpointsSound
  BY DEF RecoveryInv
<1>1. ckpt.pc = "begun"
  BY DEF GetTransactionTableSnapshot
<1>2. phase = "running" /\ \A u \in Txn : pc[u] \in Quiet
  BY <1>1, CheckpointQuiet
<1>t. PICK txns : txns = {[txn |-> t, state |-> state[t], last |-> last[t]] : t \in active}
  OBVIOUS
<1>3. ckpt' = [pc |-> "txns", begin |-> ckpt.begin, end |-> 0, txns |-> txns, pages |-> {}]
  BY <1>t DEF GetTransactionTableSnapshot
<1>4. UNCHANGED <<log, durable, persistent, master, disk, buf, dpt, state, last, active, pc, at, owner,
                  phase, todo, rtab, rdpt, cursor, counts>>
  BY DEF GetTransactionTableSnapshot, logVars, pageVars, txnVars, recoveryVars
<1>5. ASSUME NEW t \in active
      PROVE  /\ t \in Txn /\ state[t] = "ACTIVE" /\ last[t] \in Nat
             /\ \E b \in 1 .. Len(log) : Runs(log, t, b, Len(log)) /\ IsLast(log, t, Len(log), last[t])
  <2>1. t \in Txn
    BY <1>0, TypedThread DEF TypeOK
  <2>2. ThreadSound(t) /\ pc[t] \in Quiet
    BY <1>0, <1>2, <2>1 DEF ThreadsSound
  <2>3. pc[t] = "idle"
    BY <1>5, <2>2 DEF ThreadSound, Quiet
  <2>4. state[t] = "ACTIVE"
    BY <2>2, <2>3 DEF ThreadSound
  <2> QED BY <1>0, <1>2, <2>1, <2>3, <2>4, IdleRuns, TypedThread
<1>6. txns \subseteq SavedTxn
  BY <1>5, <1>t DEF SavedTxn
<1>7. TxnsSaved(log, Len(log), txns)
  <2>1. ASSUME NEW e \in txns
        PROVE  \E b \in 1 .. Len(log) : Runs(log, e.txn, b, Len(log)) /\ IsLast(log, e.txn, Len(log), e.last)
    <3>1. PICK t \in active : e = [txn |-> t, state |-> state[t], last |-> last[t]]
      BY <1>t
    <3>2. e.txn = t /\ e.last = last[t]
      BY <3>1
    <3> QED BY <1>5, <3>2
  <2>2. ASSUME NEW t \in Txn, NEW b \in 1 .. Len(log), Runs(log, t, b, Len(log))
        PROVE  \E e \in txns : e.txn = t
    <3>1. ThreadSound(t) /\ pc[t] \in Quiet
      BY <1>0, <1>2 DEF ThreadsSound
    <3>2. pc[t] \in Running
      BY <2>2, <3>1 DEF ThreadSound
    <3>3. pc[t] = "idle"
      BY <3>1, <3>2 DEF Quiet, Running
    <3>4. t \in active
      BY <3>1, <3>3 DEF ThreadSound
    <3>5. [txn |-> t, state |-> state[t], last |-> last[t]] \in txns
      BY <1>t, <3>4
    <3> QED BY <3>5
  <2> QED BY <2>1, <2>2 DEF TxnsSaved
<1>8. ckpt' \in [pc : {"idle", "begun", "txns", "pages", "ended"}, begin : Nat, end : Nat,
                 txns : SUBSET SavedTxn, pages : SUBSET SavedPage]
  BY <1>0, <1>3, <1>6, TypedCheckpoint
<1>9. ckpt'.pc = "txns" /\ ckpt'.begin = ckpt.begin /\ ckpt'.txns = txns
  BY <1>3
<1>10. CheckpointsSound'
  BY <1>0, <1>1, <1>4, <1>7, <1>9 DEF CheckpointsSound, PagesSaved
<1> QED BY <1>1, <1>4, <1>8, <1>10, SnapshotStep

LEMMA GetDirtyPageTableSnapshotKeepsInv ==
    ASSUME RecoveryInv, GetDirtyPageTableSnapshot
    PROVE  RecoveryInv'
<1>0. TypeOK /\ DirtyPagesCovered /\ CheckpointsSound
  BY DEF RecoveryInv
<1>1. ckpt.pc = "txns"
  BY DEF GetDirtyPageTableSnapshot
<1>2. phase = "running" /\ \A u \in Txn : pc[u] \in Quiet
  BY <1>1, CheckpointQuiet
<1>t. PICK pages : pages = {[page |-> p, rec |-> dpt[p]] : p \in Dirty}
  OBVIOUS
<1>3. ckpt' = [pc |-> "pages", begin |-> ckpt.begin, end |-> 0, txns |-> ckpt.txns, pages |-> pages]
  BY <1>t DEF GetDirtyPageTableSnapshot
<1>4. UNCHANGED <<log, durable, persistent, master, disk, buf, dpt, state, last, active, pc, at, owner,
                  phase, todo, rtab, rdpt, cursor, counts>>
  BY DEF GetDirtyPageTableSnapshot, logVars, pageVars, txnVars, recoveryVars
<1>5. dpt \in [Page -> Nat] /\ \A p : p \in Dirty <=> p \in Page /\ dpt[p] # 0
  BY <1>0, TypedCheckpoint DEF Dirty
<1>6. pages \subseteq SavedPage
  BY <1>5, <1>t DEF SavedPage
<1>7. PagesSaved(Len(log), pages)
  <2>1. \A d, e \in pages : d.page = e.page => d = e
    BY <1>t
  <2>2. ASSUME NEW p \in Page, NEW k \in 1 .. Len(log), OnPage(log, k, p), disk[p].lsn < k
        PROVE  \E d \in pages : d.page = p /\ d.rec <= k
    <3>1. ~InFlight(k, {"logged", "applying"})
      BY <1>2 DEF InFlight, Quiet
    <3>2. dpt[p] # 0 /\ dpt[p] <= k
      BY <1>0, <1>2, <2>2, <3>1 DEF DirtyPagesCovered
    <3>3. [page |-> p, rec |-> dpt[p]] \in pages
      BY <1>5, <1>t, <3>2
    <3> QED BY <3>2, <3>3
  <2> QED BY <2>1, <2>2 DEF PagesSaved
<1>8. ckpt' \in [pc : {"idle", "begun", "txns", "pages", "ended"}, begin : Nat, end : Nat,
                 txns : SUBSET SavedTxn, pages : SUBSET SavedPage]
  BY <1>0, <1>3, <1>6, TypedCheckpoint
<1>9. ckpt'.pc = "pages" /\ ckpt'.begin = ckpt.begin /\ ckpt'.txns = ckpt.txns /\ ckpt'.pages = pages
  BY <1>3
<1>10. CheckpointsSound'
  BY <1>0, <1>1, <1>4, <1>7, <1>9 DEF CheckpointsSound, PagesSaved
<1> QED BY <1>1, <1>4, <1>8, <1>10, SnapshotStep

LEMMA EndCheckpointKeepsInv ==
    ASSUME RecoveryInv, EndCheckpoint
    PROVE  RecoveryInv'
<1>0. TypeOK /\ CheckpointsSound
  BY DEF RecoveryInv
<1>1. ckpt.pc = "pages"
  BY DEF EndCheckpoint
<1>2. phase = "running" /\ \A u \in Txn : pc[u] \in Quiet
  BY <1>1, CheckpointQuiet
<1>c. /\ ckpt.begin = Len(log) /\ Len(log) > 0 /\ log[Len(log)].type = "BEGIN_CHECKPOINT"
      /\ TxnsSaved(log, Len(log), ckpt.txns) /\ PagesSaved(Len(log), ckpt.pages)
  BY <1>0, <1>1 DEF CheckpointsSound
<1>r. PICK r : r = [type |-> "END_CHECKPOINT", txn |-> NoTxn, prev |-> ckpt.begin,
                    txns |-> ckpt.txns, pages |-> ckpt.pages]
  OBVIOUS
<1>f. r.type = "END_CHECKPOINT" /\ r.txns = ckpt.txns /\ r.pages = ckpt.pages
  BY <1>r
<1>3. r \in LogRecord /\ log' = Append(log, r)
  <2>1. r \in [type : {"END_CHECKPOINT"}, txn : {NoTxn}, prev : Nat,
               txns : SUBSET SavedTxn, pages : SUBSET SavedPage]
    BY <1>0, <1>r, TypedCheckpoint
  <2> QED BY <1>r, <2>1 DEF EndCheckpoint, AppendRecord, LogRecord
<1>4. /\ Len(log') = Len(log) + 1 /\ Len(log) \in Nat /\ Agree(log, log', Len(log))
      /\ log'[Len(log) + 1] = r
  BY <1>0, <1>3, TypedLog, Appended
<1>5. UNCHANGED <<durable, persistent, master, disk, buf, dpt, state, last, active, pc, at, owner, phase,
                  todo, rtab, rdpt, cursor, counts>>
  BY DEF EndCheckpoint, pageVars, txnVars, recoveryVars
<1>6. ckpt' = [pc |-> "ended", begin |-> ckpt.begin, end |-> Len(log) + 1, txns |-> ckpt.txns,
               pages |-> ckpt.pages]
  BY DEF EndCheckpoint, EndLSN
<1>7. TypeOK'
  <2>1. log' \in Seq(LogRecord) /\ durable' \in 0 .. Len(log') /\ persistent' \in 0 .. durable' + 1
        /\ Len(log) + 1 \in Nat
    BY <1>0, <1>3, <1>5, AppendTyped
  <2>2. ckpt' \in [pc : {"idle", "begun", "txns", "pages", "ended"}, begin : Nat, end : Nat,
                   txns : SUBSET SavedTxn, pages : SUBSET SavedPage]
    BY <1>0, <1>6, <2>1, TypedCheckpoint
  <2> QED BY <1>0, <1>5, <2>1, <2>2 DEF TypeOK
<1>8. RecordSound(log', Len(log) + 1)
  <2>1. (Len(log) + 1) - 1 = Len(log) /\ Len(log) + 1 > 1 /\ log'[Len(log)] = log[Len(log)]
    BY <1>4, <1>c DEF Agree
  <2>2. TxnsSaved(log', Len(log), ckpt.txns)
    BY <1>4, <1>c, SameTxnsSaved
  <2>3. EndCheckpointSound(log', Len(log) + 1)
    BY <1>4, <1>c, <1>f, <2>1, <2>2 DEF EndCheckpointSound
  <2> QED BY <1>4, <1>f, <2>3 DEF RecordSound
<1>9. CheckpointsSound'
  <2>1. durable' \in Nat /\ durable <= durable' /\ \A q \in Page : disk'[q].lsn \in Nat /\ disk[q].lsn <= disk'[q].lsn
    BY <1>0, <1>5, TypedCheckpoint, TypedLog
  <2>2. /\ \A i \in 1 .. Len(log) : log'[i].type = "END_CHECKPOINT" => PagesSaved(i, log[i].pages)'
        /\ master # 0 =>
            /\ master < durable'
            /\ log'[master].type = "BEGIN_CHECKPOINT" /\ log'[master + 1].type = "END_CHECKPOINT"
    BY <1>0, <1>4, <1>5, <2>1, CheckpointsStay
  <2>n. PICK n, pages : n \in Nat /\ n = Len(log) /\ pages = ckpt.pages
    BY <1>4
  <2>3. PagesSaved(n, pages)'
    BY <1>0, <1>4, <1>c, <2>1, <2>n, SavedStays
  <2>4. PagesSaved(n + 1, pages)'
    <3>1. ASSUME NEW p \in Page, NEW k \in 1 .. n + 1, OnPage(log', k, p), disk'[p].lsn < k
          PROVE  \E d \in pages : d.page = p /\ d.rec <= k
      <4>1. k # n + 1
        BY <1>4, <1>f, <2>n, <3>1 DEF OnPage, IsPageUpdateRecord
      <4>2. k \in 1..n
        BY <2>n, <4>1
      <4> QED BY <2>3, <3>1, <4>2 DEF PagesSaved
    <3> QED BY <2>3, <3>1 DEF PagesSaved
  <2>5. log'[n + 1].pages = pages /\ Len(log') = n + 1
    BY <1>4, <1>f, <2>n
  <2>6. ASSUME NEW i \in 1 .. Len(log'), log'[i].type = "END_CHECKPOINT"
        PROVE  PagesSaved(i, log[i].pages)'
    <3>1. CASE i = n + 1
      BY <2>4, <2>5, <3>1 DEF PagesSaved
    <3>2. CASE i \in 1 .. Len(log)
      BY <2>2, <2>6, <3>2
    <3> QED BY <2>5, <2>n, <3>1, <3>2
  <2>7. /\ ckpt'.pc = "ended" /\ ckpt'.end = Len(log') /\ ckpt'.begin = Len(log') - 1 /\ ckpt'.begin > 0
        /\ log'[ckpt'.begin].type = "BEGIN_CHECKPOINT" /\ log'[ckpt'.end].type = "END_CHECKPOINT"
    <3>1. ckpt'.pc = "ended" /\ ckpt'.end = Len(log) + 1 /\ ckpt'.begin = Len(log)
      BY <1>6, <1>c
    <3>2. log'[Len(log)] = log[Len(log)]
      BY <1>4, <1>c DEF Agree
    <3> QED BY <1>4, <1>c, <1>f, <3>1, <3>2
  <2>8. master' = master
    BY <1>5
  <2> QED BY <2>2, <2>6, <2>7, <2>8 DEF CheckpointsSound
<1> QED BY <1>2, <1>3, <1>5, <1>7, <1>8, <1>9, <1>f, CheckpointStepKeepsInv

LEMMA SetMasterCheckpointLSNKeepsInv ==
    ASSUME RecoveryInv, SetMasterCheckpointLSN
    PROVE  RecoveryInv'
<1>0. TypeOK /\ CheckpointsSound
  BY DEF RecoveryInv
<1>1. ckpt.pc = "ended"
  BY DEF SetMasterCheckpointLSN
<1>2. phase = "running" /\ \A u \in Txn : pc[u] \in Quiet
  BY <1>1, CheckpointQuiet
<1>c. /\ ckpt.end = Len(log) /\ ckpt.begin = Len(log) - 1 /\ ckpt.begin > 0
      /\ log[ckpt.begin].type = "BEGIN_CHECKPOINT" /\ log[ckpt.end].type = "END_CHECKPOINT"
  BY <1>0, <1>1 DEF CheckpointsSound
<1>n. Len(log) \in Nat /\ durable \in 0 .. Len(log) /\ persistent \in 0 .. durable + 1
  BY <1>0, TypedLog
<1>3. /\ durable' = Len(log) /\ persistent' = (IF persistent < Len(log) THEN Len(log) ELSE persistent)
      /\ master' = Len(log) - 1 /\ ckpt' = NoCheckpoint /\ log' = log
  BY <1>c DEF SetMasterCheckpointLSN
<1>4. UNCHANGED <<disk, buf, dpt, state, last, active, pc, at, owner, phase,
                  todo, rtab, rdpt, cursor, counts>>
  BY DEF SetMasterCheckpointLSN, pageVars, txnVars, recoveryVars
<1>5. SyncStep
  BY <1>3, <1>n DEF SyncStep
<1>6. TypeOK'
  <2>1. durable' \in 0 .. Len(log) /\ persistent' \in 0 .. durable' + 1 /\ master' \in Nat
    BY <1>3, <1>c, <1>n
  <2>2. durable' \in 0 .. Len(log')
    BY <1>3, <2>1
  <2>3. ckpt' \in [pc : {"idle", "begun", "txns", "pages", "ended"}, begin : Nat, end : Nat,
                   txns : SUBSET SavedTxn, pages : SUBSET SavedPage]
    BY <1>3 DEF NoCheckpoint
  <2> QED BY <1>0, <1>3, <1>4, <2>1, <2>2, <2>3 DEF TypeOK
<1>7. CheckpointsSound'
  <2>1. \A i \in 1 .. Len(log) : log[i].type = "END_CHECKPOINT" => PagesSaved(i, log[i].pages)
    BY <1>0 DEF CheckpointsSound
  <2>2. \A i \in 1 .. Len(log') : log'[i].type = "END_CHECKPOINT" => PagesSaved(i, log[i].pages)'
    BY <1>3, <1>4, <2>1 DEF PagesSaved
  <2>3. /\ master' < durable'
        /\ log'[master'].type = "BEGIN_CHECKPOINT" /\ log'[master' + 1].type = "END_CHECKPOINT"
    <3>1. master' + 1 = Len(log) /\ master' < Len(log)
      BY <1>3, <1>n
    <3> QED BY <1>3, <1>c, <3>1
  <2>4. ckpt'.pc = "idle"
    BY <1>3 DEF NoCheckpoint
  <2> QED BY <2>2, <2>3, <2>4 DEF CheckpointsSound
<1> QED BY <1>2, <1>3, <1>4, <1>5, <1>6, <1>7, CheckpointStepKeepsInv

-----------------------------------------------------------------------------
(* Analysis.                                                               *)

LEMMA TypedTables ==
    ASSUME TypeOK
    PROVE  /\ rtab \in [Txn -> [state : {"ACTIVE", "COMMITTED", "ABORTED"}, last : Nat]]
           /\ rdpt \in [Page -> Nat] /\ cursor \in Nat /\ master \in Nat
           /\ todo \in SUBSET [lsn : Nat, txn : Txn]
           /\ disk \in [Page -> [val : Nat, lsn : Nat]] /\ buf \in [Page -> [val : Nat, lsn : Nat]]
           /\ dpt \in [Page -> Nat]
BY DEF TypeOK, Entry

LEMMA MergedTxn ==
    ASSUME NEW rec \in LogRecord, rec.type = "END_CHECKPOINT", NEW t \in Txn
    PROVE  \/ (\A e \in rec.txns : e.txn # t) /\ MergeTxns(rec)[t] = rtab[t]
           \/ \E e \in rec.txns :
                /\ e.txn = t /\ e.last \in Nat
                /\ MergeTxns(rec)[t] = RaiseLast(SetEntry(rtab[t], "ACTIVE"), e.last)
<1>1. rec.txns \subseteq SavedTxn
  BY RecordFields
<1>2. CASE \A e \in rec.txns : e.txn # t
  BY <1>2 DEF MergeTxns
<1>3. CASE \E e \in rec.txns : e.txn = t
  <2>1. PICK e : e = CHOOSE x \in rec.txns : x.txn = t
    OBVIOUS
  <2>2. e \in rec.txns /\ e.txn = t
    BY <1>3, <2>1
  <2>3. e.state = "ACTIVE" /\ e.last \in Nat
    BY <1>1, <2>2 DEF SavedTxn
  <2>4. MergeTxns(rec)[t] = RaiseLast(SetEntry(rtab[t], e.state), e.last)
    BY <1>3, <2>1 DEF MergeTxns
  <2> QED BY <2>2, <2>3, <2>4
<1> QED BY <1>2, <1>3

LEMMA MergedPage ==
    ASSUME NEW rec \in LogRecord, rec.type = "END_CHECKPOINT", NEW p \in Page
    PROVE  \/ (\A d \in rec.pages : d.page # p) /\ MergePages(rec)[p] = rdpt[p]
           \/ \E d \in rec.pages :
                /\ d.page = p /\ d.rec \in Nat \ {0}
                /\ MergePages(rec)[p] = MinRecLSN(rdpt[p], d.rec)
<1>1. rec.pages \subseteq SavedPage
  BY RecordFields
<1>2. CASE \A d \in rec.pages : d.page # p
  BY <1>2 DEF MergePages
<1>3. CASE \E d \in rec.pages : d.page = p
  <2>1. PICK d : d = CHOOSE x \in rec.pages : x.page = p
    OBVIOUS
  <2>2. d \in rec.pages /\ d.page = p
    BY <1>3, <2>1
  <2>3. d.rec \in Nat \ {0}
    BY <1>1, <2>2 DEF SavedPage
  <2>4. MergePages(rec)[p] = MinRecLSN(rdpt[p], d.rec)
    BY <1>3, <2>1 DEF MergePages
  <2> QED BY <2>2, <2>3, <2>4
<1> QED BY <1>2, <1>3

LEMMA AnalyzedTyped ==
    ASSUME TypeOK, NEW rec \in LogRecord, NEW lsn \in Nat
    PROVE  AnalyzedTxns(rec, lsn) \in [Txn -> Entry] /\ AnalyzedPages(rec, lsn) \in [Page -> Nat]
<1>0. /\ rtab \in [Txn -> [state : {"ACTIVE", "COMMITTED", "ABORTED"}, last : Nat]]
      /\ rdpt \in [Page -> Nat]
  BY TypedTables
<1>1. CASE rec.type \in {"BEGIN", "COMMIT", "ABORT"}
  <2>1. rec.txn \in Txn
    BY <1>1, RecordFields
  <2>2. EndpointState(rec.type) \in {"ACTIVE", "COMMITTED", "ABORTED"}
    BY <1>1 DEF EndpointState
  <2>3. AnalyzedTxns(rec, lsn) = [rtab EXCEPT ![rec.txn] = [state |-> EndpointState(rec.type), last |-> lsn]]
    BY <1>1 DEF AnalyzedTxns, EndpointEntry
  <2>4. AnalyzedPages(rec, lsn) = rdpt
    BY <1>1 DEF AnalyzedPages, IsPageUpdateRecord
  <2> QED BY <1>0, <2>1, <2>2, <2>3, <2>4 DEF Entry
<1>2. CASE IsPageUpdateRecord(rec)
  <2>1. rec.txn \in Txn /\ rec.page \in Page
    BY <1>2, RecordFields DEF IsPageUpdateRecord
  <2>2. AnalyzedTxns(rec, lsn) = [rtab EXCEPT ![rec.txn] = RaiseLast(SetEntry(@, "ACTIVE"), lsn)]
    BY <1>2 DEF AnalyzedTxns, IsPageUpdateRecord
  <2>3. AnalyzedPages(rec, lsn) = [rdpt EXCEPT ![rec.page] = MinRecLSN(@, lsn)]
    BY <1>2 DEF AnalyzedPages
  <2>4. \A e \in Entry : RaiseLast(SetEntry(e, "ACTIVE"), lsn) \in Entry
    BY DEF Entry, RaiseLast, SetEntry, IsTxnEndState
  <2>5. \A k \in Nat : MinRecLSN(k, lsn) \in Nat
    BY DEF MinRecLSN
  <2> QED BY <1>0, <2>1, <2>2, <2>3, <2>4, <2>5 DEF Entry
<1>3. CASE rec.type = "END_CHECKPOINT"
  <2>1. AnalyzedTxns(rec, lsn) = MergeTxns(rec) /\ AnalyzedPages(rec, lsn) = MergePages(rec)
    BY <1>3 DEF AnalyzedTxns, AnalyzedPages, IsPageUpdateRecord
  <2>2. ASSUME NEW t \in Txn PROVE MergeTxns(rec)[t] \in Entry
    <3>1. \A e \in Entry, k \in Nat : RaiseLast(SetEntry(e, "ACTIVE"), k) \in Entry
      BY DEF Entry, RaiseLast, SetEntry, IsTxnEndState
    <3>2. rtab[t] \in Entry
      BY <1>0 DEF Entry
    <3> QED BY <1>3, <3>1, <3>2, MergedTxn
  <2>3. ASSUME NEW p \in Page PROVE MergePages(rec)[p] \in Nat
    <3>1. \A j, k \in Nat : MinRecLSN(j, k) \in Nat
      BY DEF MinRecLSN
    <3>2. rdpt[p] \in Nat
      BY <1>0
    <3>3. CASE MergePages(rec)[p] = rdpt[p]
      BY <3>2, <3>3
    <3>4. ASSUME NEW d \in rec.pages, d.rec \in Nat \ {0},
                 MergePages(rec)[p] = MinRecLSN(rdpt[p], d.rec)
          PROVE  MergePages(rec)[p] \in Nat
      BY <3>1, <3>2, <3>4
    <3> QED BY <1>3, <3>3, <3>4, MergedPage
  <2>4. /\ MergeTxns(rec) = [t \in Txn |-> MergeTxns(rec)[t]]
        /\ MergePages(rec) = [p \in Page |-> MergePages(rec)[p]]
    BY DEF MergeTxns, MergePages
  <2> QED BY <2>1, <2>2, <2>3, <2>4
<1>4. CASE rec.type = "BEGIN_CHECKPOINT"
  BY <1>0, <1>4 DEF AnalyzedTxns, AnalyzedPages, IsPageUpdateRecord, Entry
<1> QED BY <1>1, <1>2, <1>3, <1>4, RecordFields DEF IsPageUpdateRecord

(* One record of analysis, the checkpoint behind.                          *)
LEMMA TxnTableGrows ==
    ASSUME TypeOK, LogSound, log' = log, NEW n \in Nat, n < Len(log), TxnTable(n),
           rtab' = AnalyzedTxns(log[n + 1], n + 1)
    PROVE  TxnTable(n + 1)'
<1>0. rtab \in [Txn -> [state : {"ACTIVE", "COMMITTED", "ABORTED"}, last : Nat]]
  BY TypedTables
<1>n. n + 1 \in 1 .. Len(log) /\ (n + 1) - 1 = n /\ n + 1 \in 0 .. Len(log) /\ n + 1 > 0
  BY TypedLog
<1>r. PICK rec \in LogRecord : rec = log[n + 1]
  BY <1>n, TypedLog
<1>s. RecordSound(log, n + 1)
  BY <1>n DEF LogSound, Sound, PrefixSound
<1> SUFFICES ASSUME NEW t \in Txn
             PROVE  /\ \A b \in 1 .. n + 1 : Runs(log, t, b, n + 1) =>
                            rtab'[t].state = "ACTIVE" /\ IsLast(log, t, n + 1, rtab'[t].last)
                    /\ (\A b \in 1 .. n + 1 : ~Runs(log, t, b, n + 1)) =>
                            rtab'[t].last = 0 \/ rtab'[t].state # "ACTIVE"
  BY DEF TxnTable
<1>b. \A m : \A b : Runs(log, t, b, m) => b \in 1..m
  BY DEF Runs
<1>1. /\ \A b \in 1..n : Runs(log, t, b, n) => rtab[t].state = "ACTIVE" /\ IsLast(log, t, n, rtab[t].last)
      /\ (\A b \in 1..n : ~Runs(log, t, b, n)) => rtab[t].last = 0 \/ rtab[t].state # "ACTIVE"
  BY DEF TxnTable
<1>2. CASE rec.txn # t
  <2>1. /\ \A b : Runs(log, t, b, n + 1) <=> Runs(log, t, b, n)
        /\ \A j : IsLast(log, t, n + 1, j) <=> IsLast(log, t, n, j)
    BY <1>2, <1>r, OthersRun, OthersLast
  <2>2. /\ \A b \in 1 .. n + 1 : Runs(log, t, b, n + 1) =>
                rtab[t].state = "ACTIVE" /\ IsLast(log, t, n + 1, rtab[t].last)
        /\ (\A b \in 1 .. n + 1 : ~Runs(log, t, b, n + 1)) => rtab[t].last = 0 \/ rtab[t].state # "ACTIVE"
    <3>1. \A b \in 1 .. n + 1 : Runs(log, t, b, n + 1) =>
                rtab[t].state = "ACTIVE" /\ IsLast(log, t, n + 1, rtab[t].last)
      BY <1>1, <1>b, <2>1
    <3>2. ASSUME \A b \in 1 .. n + 1 : ~Runs(log, t, b, n + 1)
          PROVE  rtab[t].last = 0 \/ rtab[t].state # "ACTIVE"
      <4>1. \A b \in 1..n : ~Runs(log, t, b, n)
        BY <2>1, <3>2
      <4> QED BY <1>1, <4>1
    <3> QED BY <3>1, <3>2
  <2>3. rtab'[t] = rtab[t]
    <3>1. CASE rec.type \in {"BEGIN", "COMMIT", "ABORT"} \/ IsPageUpdateRecord(rec)
      BY <1>0, <1>2, <1>r, <3>1 DEF AnalyzedTxns, IsPageUpdateRecord
    <3>2. CASE rec.type = "BEGIN_CHECKPOINT"
      BY <1>r, <3>2 DEF AnalyzedTxns, IsPageUpdateRecord
    <3>3. CASE rec.type = "END_CHECKPOINT"
      <4>1. rtab'[t] = MergeTxns(rec)[t]
        BY <1>r, <3>3 DEF AnalyzedTxns, IsPageUpdateRecord
      <4>2. ASSUME NEW e \in rec.txns, e.txn = t, e.last \in Nat
            PROVE  RaiseLast(SetEntry(rtab[t], "ACTIVE"), e.last) = rtab[t]
        <5>1. TxnsSaved(log, n, rec.txns)
          BY <1>n, <1>r, <1>s, <3>3 DEF RecordSound, EndCheckpointSound
        <5>2. PICK b \in 1..n : Runs(log, t, b, n) /\ IsLast(log, t, n, e.last)
          BY <4>2, <5>1 DEF TxnsSaved
        <5>3. rtab[t].state = "ACTIVE" /\ IsLast(log, t, n, rtab[t].last)
          BY <1>1, <5>2
        <5>4. e.last = rtab[t].last
          BY <5>2, <5>3, OneLast
        <5>5. rtab[t] = [state |-> rtab[t].state, last |-> rtab[t].last] /\ rtab[t].last \in Nat
          BY <1>0
        <5> QED BY <5>3, <5>4, <5>5 DEF RaiseLast, SetEntry, IsTxnEndState
      <4> QED BY <3>3, <4>1, <4>2, MergedTxn
    <3> QED BY <3>1, <3>2, <3>3, RecordFields DEF IsPageUpdateRecord
  <2> QED BY <2>2, <2>3
<1>3. CASE rec.txn = t
  <2>1. \A j : IsLast(log, t, n + 1, j) <=> j = n + 1
    BY <1>3, <1>r, NewIsLast
  <2>2. CASE rec.type \in {"BEGIN", "COMMIT", "ABORT"}
    <3>1. rtab'[t] = [state |-> EndpointState(rec.type), last |-> n + 1]
      BY <1>0, <1>3, <1>r, <2>2 DEF AnalyzedTxns, EndpointEntry
    <3>2. CASE rec.type = "BEGIN"
      <4>1. rtab'[t].state = "ACTIVE" /\ rtab'[t].last = n + 1
        BY <3>1, <3>2 DEF EndpointState
      <4>2. Runs(log, t, n + 1, n + 1) /\ n + 1 \in 1 .. n + 1
        <5>1. log[n + 1].type = "BEGIN" /\ log[n + 1].txn = t
          BY <1>3, <1>r, <3>2
        <5>2. \A c : Runs(log, log[n + 1].txn, c, n + 1) <=> c = n + 1
          BY <5>1, BegunRuns
        <5> QED BY <5>1, <5>2
      <4> QED BY <2>1, <4>1, <4>2
    <3>3. CASE rec.type \in {"COMMIT", "ABORT"}
      <4>1. rtab'[t].state # "ACTIVE"
        BY <3>1, <3>3 DEF EndpointState
      <4>2. \A b : ~Runs(log, t, b, n + 1)
        BY <1>3, <1>r, <3>3, EndedDoesNotRun
      <4> QED BY <4>1, <4>2
    <3> QED BY <2>2, <3>2, <3>3
  <2>3. CASE IsPageUpdateRecord(rec)
    <3>1. PICK b \in 1..n : Runs(log, t, b, n)
      <4>1. CASE rec.type = "UPDATE"
        <5>1. UpdateSound(log, n + 1)
          BY <1>r, <1>s, <4>1 DEF RecordSound
        <5> QED BY <1>3, <1>n, <1>r, <5>1 DEF UpdateSound
      <4>2. CASE rec.type = "CLR"
        <5>1. ClrSound(log, n + 1)
          BY <1>r, <1>s, <4>2 DEF RecordSound
        <5> QED BY <1>3, <1>n, <1>r, <5>1 DEF ClrSound
      <4> QED BY <2>3, <4>1, <4>2 DEF IsPageUpdateRecord
    <3>2. rtab[t].state = "ACTIVE" /\ rtab[t].last \in 1..n
      BY <1>1, <3>1 DEF IsLast
    <3>3. rtab'[t] = RaiseLast(SetEntry(rtab[t], "ACTIVE"), n + 1)
      BY <1>0, <1>3, <1>r, <2>3 DEF AnalyzedTxns, IsPageUpdateRecord
    <3>4. rtab'[t].state = "ACTIVE" /\ rtab'[t].last = n + 1
      BY <3>2, <3>3 DEF RaiseLast, SetEntry, IsTxnEndState
    <3>5. Runs(log, t, b, n + 1) /\ b \in 1 .. n + 1
      BY <1>r, <2>3, <3>1, WriterRuns
    <3> QED BY <2>1, <3>4, <3>5
  <2>4. rec.type \notin {"BEGIN_CHECKPOINT", "END_CHECKPOINT"}
    BY <1>3, RecordFields, WalTxnAssumption DEF NoTxn
  <2> QED BY <2>2, <2>3, <2>4, RecordFields DEF IsPageUpdateRecord
<1> QED BY <1>2, <1>3

LEMMA MinRecLSNBound ==
    ASSUME NEW a \in Nat, NEW b \in Nat \ {0}
    PROVE  /\ MinRecLSN(a, b) \in Nat \ {0} /\ MinRecLSN(a, b) <= b
           /\ a # 0 => MinRecLSN(a, b) <= a
           /\ a = 0 => MinRecLSN(a, b) = b
BY DEF MinRecLSN

LEMMA PageTableGrows ==
    ASSUME TypeOK, log' = log, disk' = disk, NEW n \in Nat, n < Len(log), PageTable(n),
           rdpt' = AnalyzedPages(log[n + 1], n + 1)
    PROVE  PageTable(n + 1)'
<1>0. rdpt \in [Page -> Nat]
  BY TypedTables
<1>n. n + 1 \in 1 .. Len(log) /\ n + 1 \in Nat \ {0}
  BY TypedLog
<1>r. PICK rec \in LogRecord : rec = log[n + 1]
  BY <1>n, TypedLog
<1> SUFFICES ASSUME NEW p \in Page, NEW k \in 1 .. n + 1, OnPage(log, k, p), disk[p].lsn < k
             PROVE  rdpt'[p] # 0 /\ rdpt'[p] <= k
  BY DEF PageTable
<1>a. rdpt[p] \in Nat
  BY <1>0
<1>1. CASE k = n + 1
  <2>1. IsPageUpdateRecord(rec) /\ rec.page = p
    BY <1>1, <1>r DEF OnPage
  <2>2. rdpt'[p] = MinRecLSN(rdpt[p], n + 1)
    BY <1>0, <1>r, <2>1 DEF AnalyzedPages
  <2>3. MinRecLSN(rdpt[p], n + 1) \in Nat \ {0} /\ MinRecLSN(rdpt[p], n + 1) <= n + 1
    BY <1>a, <1>n, MinRecLSNBound
  <2> QED BY <1>1, <2>2, <2>3
<1>2. CASE k \in 1..n
  <2>1. rdpt[p] # 0 /\ rdpt[p] <= k
    BY <1>2 DEF PageTable
  <2>2. rdpt'[p] = rdpt[p] \/ \E x \in Nat \ {0} : rdpt'[p] = MinRecLSN(rdpt[p], x)
    <3>1. CASE IsPageUpdateRecord(rec)
      <4>1. rdpt' = [rdpt EXCEPT ![rec.page] = MinRecLSN(@, n + 1)]
        BY <1>r, <3>1 DEF AnalyzedPages
      <4> QED BY <1>0, <1>n, <4>1
    <3>2. CASE rec.type = "END_CHECKPOINT"
      <4>1. rdpt' = MergePages(rec)
        BY <1>r, <3>2 DEF AnalyzedPages, IsPageUpdateRecord
      <4> QED BY <3>2, <4>1, MergedPage
    <3>3. CASE ~IsPageUpdateRecord(rec) /\ rec.type # "END_CHECKPOINT"
      BY <1>r, <3>3 DEF AnalyzedPages
    <3> QED BY <3>1, <3>2, <3>3
  <2>3. rdpt'[p] \in Nat /\ rdpt'[p] # 0 /\ rdpt'[p] <= rdpt[p]
    <3>1. CASE rdpt'[p] = rdpt[p]
      BY <1>a, <2>1, <3>1
    <3>2. ASSUME NEW x \in Nat \ {0}, rdpt'[p] = MinRecLSN(rdpt[p], x)
          PROVE  rdpt'[p] \in Nat /\ rdpt'[p] # 0 /\ rdpt'[p] <= rdpt[p]
      BY <1>a, <2>1, <3>2, MinRecLSNBound
    <3> QED BY <2>2, <3>1, <3>2
  <2> QED BY <1>a, <2>1, <2>3
<1> QED BY <1>1, <1>2

(* The tables after the END_CHECKPOINT record of the master checkpoint.    *)
LEMMA TablesFromCheckpoint ==
    ASSUME TypeOK, LogSound, CheckpointsSound, log' = log, disk' = disk, master' = master, master # 0,
           rtab = ForAllTxns(NoEntry), rdpt = NoLSN,
           rtab' = AnalyzedTxns(log[master + 1], master + 1),
           rdpt' = AnalyzedPages(log[master + 1], master + 1)
    PROVE  TxnTable(master + 1)' /\ PageTable(master + 1)'
<1>n. PICK n \in Nat : n = master
  BY TypedTables
<1>1. /\ n + 1 \in 1 .. Len(log) /\ (n + 1) - 1 = n /\ n + 1 \in 0 .. Len(log) /\ n + 1 > 0
      /\ log[n + 1].type = "END_CHECKPOINT"
  <2>1. n < durable /\ log[n + 1].type = "END_CHECKPOINT"
    BY <1>n DEF CheckpointsSound
  <2> QED BY <2>1, TypedLog
<1>r. PICK rec \in LogRecord : rec = log[n + 1]
  BY <1>1, TypedLog
<1>2. rec.type = "END_CHECKPOINT" /\ rec.txn = NoTxn
  BY <1>1, <1>r, RecordFields
<1>3. TxnsSaved(log, n, rec.txns)
  <2>1. RecordSound(log, n + 1)
    BY <1>1 DEF LogSound, Sound, PrefixSound
  <2>2. EndCheckpointSound(log, n + 1)
    BY <1>1, <2>1 DEF RecordSound
  <2> QED BY <1>1, <1>r, <2>2 DEF EndCheckpointSound
<1>4. PagesSaved(n + 1, rec.pages)
  BY <1>1, <1>r DEF CheckpointsSound
<1>5. rtab' = MergeTxns(rec) /\ rdpt' = MergePages(rec)
  BY <1>n, <1>r, <1>2 DEF AnalyzedTxns, AnalyzedPages, IsPageUpdateRecord
<1>6. ASSUME NEW t \in Txn
      PROVE  /\ \A b \in 1 .. n + 1 : Runs(log, t, b, n + 1) =>
                    rtab'[t].state = "ACTIVE" /\ IsLast(log, t, n + 1, rtab'[t].last)
             /\ (\A b \in 1 .. n + 1 : ~Runs(log, t, b, n + 1)) =>
                    rtab'[t].last = 0 \/ rtab'[t].state # "ACTIVE"
  <2>1. log[n + 1].txn # t
    BY <1>2, <1>r, WalTxnAssumption DEF NoTxn
  <2>2. /\ \A b : Runs(log, t, b, n + 1) <=> Runs(log, t, b, n)
        /\ \A j : IsLast(log, t, n + 1, j) <=> IsLast(log, t, n, j)
    BY <2>1, OthersRun, OthersLast
  <2>3. rtab[t] = [state |-> "ACTIVE", last |-> 0]
    BY DEF ForAllTxns, NoEntry
  <2>4. CASE (\A e \in rec.txns : e.txn # t) /\ MergeTxns(rec)[t] = rtab[t]
    <3>1. \A b \in 1..n : ~Runs(log, t, b, n)
      BY <1>3, <2>4 DEF TxnsSaved
    <3>2. \A b : ~Runs(log, t, b, n)
      BY <3>1 DEF Runs
    <3>3. rtab'[t].last = 0
      BY <1>5, <2>3, <2>4
    <3> QED BY <2>2, <3>2, <3>3
  <2>5. ASSUME NEW e \in rec.txns, e.txn = t, e.last \in Nat,
               MergeTxns(rec)[t] = RaiseLast(SetEntry(rtab[t], "ACTIVE"), e.last)
        PROVE  /\ rtab'[t].state = "ACTIVE" /\ IsLast(log, t, n, rtab'[t].last)
               /\ \E b : Runs(log, t, b, n)
    <3>1. PICK b \in 1..n : Runs(log, t, b, n) /\ IsLast(log, t, n, e.last)
      BY <1>3, <2>5 DEF TxnsSaved
    <3>2. e.last > 0
      BY <3>1 DEF IsLast
    <3>3. rtab'[t] = [state |-> "ACTIVE", last |-> e.last]
      BY <1>5, <2>3, <2>5, <3>2 DEF RaiseLast, SetEntry, IsTxnEndState
    <3> QED BY <3>1, <3>3
  <2>6. CASE \E e \in rec.txns :
                /\ e.txn = t /\ e.last \in Nat
                /\ MergeTxns(rec)[t] = RaiseLast(SetEntry(rtab[t], "ACTIVE"), e.last)
    <3>1. PICK b : Runs(log, t, b, n)
      BY <2>5, <2>6
    <3>2. b \in 1 .. n + 1 /\ Runs(log, t, b, n + 1)
      BY <2>2, <3>1 DEF Runs
    <3> QED BY <2>2, <2>5, <2>6, <3>2
  <2> QED BY <1>2, <2>4, <2>6, MergedTxn
<1>7. ASSUME NEW p \in Page, NEW k \in 1 .. n + 1, OnPage(log, k, p), disk[p].lsn < k
      PROVE  rdpt'[p] # 0 /\ rdpt'[p] <= k
  <2>1. PICK d \in rec.pages : d.page = p /\ d.rec <= k
    BY <1>4, <1>7 DEF PagesSaved
  <2>2. PICK e \in rec.pages :
            e.page = p /\ e.rec \in Nat \ {0} /\ MergePages(rec)[p] = MinRecLSN(rdpt[p], e.rec)
    BY <1>2, <2>1, MergedPage
  <2>3. d = e
    BY <1>4, <2>1, <2>2 DEF PagesSaved
  <2>4. rdpt[p] = 0
    BY DEF NoLSN
  <2>5. rdpt'[p] = e.rec
    BY <1>5, <2>2, <2>4, MinRecLSNBound
  <2> QED BY <2>1, <2>2, <2>3, <2>5
<1>8. TxnTable(n + 1)'
  BY <1>6 DEF TxnTable
<1>9. PageTable(n + 1)'
  BY <1>7 DEF PageTable
<1> QED BY <1>8, <1>9, <1>n

(* Steps of recovery that leave the log and the pages alone.               *)
LEMMA TablesStep ==
    ASSUME RecoveryInv, phase # "running", phase' # "running", phase' = "undo" => phase = "undo",
           UNCHANGED <<logVars, pageVars, txnVars, ckpt>>,
           TypeOK', AnalysisSound', RedoSound', UndoSound'
    PROVE  RecoveryInv'
<1>0. /\ Sequential /\ LogSound /\ DiskSound /\ PoolSound /\ UpToDate /\ CheckpointsSound
  BY DEF RecoveryInv
<1>1. Sequential' /\ LogSound'
  BY <1>0 DEF Sequential, LogSound, logVars, txnVars
<1>2. ThreadsSound' /\ PagesLocked' /\ DirtyPagesCovered'
  BY DEF ThreadsSound, PagesLocked, DirtyPagesCovered
<1>3. DiskSound'
  BY <1>0 DEF DiskSound, Logged, logVars, pageVars
<1>4. PoolSound'
  BY <1>0, ZenonT(60) DEF PoolSound, Logged, Settled, Pinned, logVars, pageVars, txnVars
<1>5. UpToDate'
  BY <1>0 DEF UpToDate, InFlight, logVars, pageVars, txnVars
<1>6. CheckpointsSound'
  BY <1>0 DEF CheckpointsSound, PagesSaved, logVars, pageVars
<1> QED BY <1>1, <1>2, <1>3, <1>4, <1>5, <1>6 DEF RecoveryInv

LEMMA TypedBefore ==
    ASSUME TypeOK, UNCHANGED <<logVars, pageVars, txnVars, ckpt, counts>>,
           phase' \in {"running", "analysis", "redo", "undo"},
           rtab' \in [Txn -> Entry], rdpt' \in [Page -> Nat], cursor' \in Nat,
           todo' \in SUBSET [lsn : Nat, txn : Txn]
    PROVE  TypeOK'
BY DEF TypeOK, logVars, pageVars, txnVars

LEMMA AnalyzeRecordKeepsInv ==
    ASSUME RecoveryInv, AnalyzeRecord
    PROVE  RecoveryInv'
<1>0. TypeOK /\ LogSound /\ CheckpointsSound /\ AnalysisSound /\ UndoSound
  BY DEF RecoveryInv
<1>1. /\ phase = "analysis" /\ phase' = phase /\ todo' = todo /\ counts' = counts
      /\ UNCHANGED <<logVars, pageVars, txnVars, ckpt>>
      /\ cursor < Len(log) /\ cursor' = cursor + 1
      /\ rtab' = AnalyzedTxns(log[cursor + 1], cursor + 1)
      /\ rdpt' = AnalyzedPages(log[cursor + 1], cursor + 1)
  BY DEF AnalyzeRecord
<1>2. log' = log /\ disk' = disk /\ buf' = buf /\ dpt' = dpt /\ master' = master
  BY <1>1 DEF logVars, pageVars
<1>n. PICK n \in Nat : n = cursor
  BY <1>0, TypedTables
<1>l. n < Len(log) /\ Len(log) \in Nat /\ n + 1 \in Nat /\ n + 1 \in 1 .. Len(log) /\ master \in Nat
  BY <1>0, <1>1, <1>n, TypedLog, TypedTables
<1>3. TypeOK'
  <2>1. log[n + 1] \in LogRecord
    BY <1>0, <1>l, TypedLog
  <2>2. rtab' \in [Txn -> Entry] /\ rdpt' \in [Page -> Nat]
    BY <1>0, <1>1, <1>l, <1>n, <2>1, AnalyzedTyped
  <2>3. todo' \in SUBSET [lsn : Nat, txn : Txn] /\ cursor' \in Nat
    BY <1>0, <1>1, <1>l, <1>n, TypedTables
  <2> QED BY <1>0, <1>1, <2>2, <2>3, TypedBefore
<1>4. RedoSound' /\ UndoSound'
  BY <1>0, <1>1 DEF RedoSound, UndoSound
<1>5. AnalysisSound'
  <2>1. buf = disk /\ dpt = NoLSN
    BY <1>0, <1>1 DEF AnalysisSound
  <2>2. CASE master = 0 \/ n > master
    <3>1. TxnTable(n) /\ PageTable(n)
      BY <1>0, <1>1, <1>n, <2>2 DEF AnalysisSound
    <3>2. TxnTable(n + 1)'
      BY <1>0, <1>1, <1>2, <1>l, <1>n, <3>1, TxnTableGrows
    <3>3. PageTable(n + 1)'
      BY <1>0, <1>1, <1>2, <1>l, <1>n, <3>1, PageTableGrows
    <3>4. TxnTable(cursor)' /\ PageTable(cursor)' /\ (master' = 0 \/ cursor' > master')
      BY <1>1, <1>2, <1>l, <1>n, <2>2, <3>2, <3>3
    <3> QED BY <1>1, <1>2, <1>l, <1>n, <2>1, <3>4 DEF AnalysisSound
  <2>3. CASE ~(master = 0 \/ n > master)
    <3>1. n >= master - 1 /\ rtab = ForAllTxns(NoEntry) /\ rdpt = NoLSN
      BY <1>0, <1>1, <1>n, <2>3 DEF AnalysisSound
    <3>2. CASE n = master
      <4>1. TxnTable(master + 1)' /\ PageTable(master + 1)'
        BY <1>0, <1>1, <1>2, <1>n, <2>3, <3>1, <3>2, TablesFromCheckpoint
      <4>2. TxnTable(cursor)' /\ PageTable(cursor)' /\ cursor' > master'
        BY <1>1, <1>2, <1>l, <1>n, <3>2, <4>1
      <4> QED BY <1>1, <1>2, <1>l, <1>n, <2>1, <4>2 DEF AnalysisSound
    <3>3. CASE n + 1 = master
      <4>1. log[n + 1].type = "BEGIN_CHECKPOINT"
        BY <1>0, <2>3, <3>3 DEF CheckpointsSound
      <4>2. rtab' = rtab /\ rdpt' = rdpt
        BY <1>1, <1>n, <4>1 DEF AnalyzedTxns, AnalyzedPages, IsPageUpdateRecord
      <4> QED BY <1>1, <1>2, <1>l, <1>n, <2>1, <2>3, <3>1, <3>3, <4>2 DEF AnalysisSound
    <3> QED BY <1>l, <2>3, <3>1, <3>2, <3>3
  <2> QED BY <2>2, <2>3
<1> QED BY <1>1, <1>3, <1>4, <1>5, TablesStep

LEMMA AnalysisDoneKeepsInv ==
    ASSUME RecoveryInv, AnalysisDone
    PROVE  RecoveryInv'
<1>0. TypeOK /\ CheckpointsSound /\ AnalysisSound /\ UndoSound
  BY DEF RecoveryInv
<1>1. /\ phase = "analysis" /\ phase' = "redo" /\ todo' = todo /\ counts' = counts
      /\ UNCHANGED <<logVars, pageVars, txnVars, ckpt, rtab, rdpt>>
      /\ cursor = Len(log) /\ cursor' = 0
  BY DEF AnalysisDone
<1>2. log' = log /\ disk' = disk /\ buf' = buf /\ rtab' = rtab /\ rdpt' = rdpt
  BY <1>1 DEF logVars, pageVars
<1>3. TypeOK'
  <2>1. rtab' \in [Txn -> Entry] /\ rdpt' \in [Page -> Nat] /\ cursor' \in Nat
        /\ todo' \in SUBSET [lsn : Nat, txn : Txn]
    BY <1>0, <1>1 DEF TypeOK
  <2> QED BY <1>0, <1>1, <2>1, TypedBefore
<1>4. AnalysisSound' /\ UndoSound'
  BY <1>0, <1>1 DEF AnalysisSound, UndoSound
<1>5. master = 0 \/ cursor > master
  <2>1. master # 0 => master < durable
    BY <1>0 DEF CheckpointsSound
  <2> QED BY <1>0, <1>1, <2>1, TypedLog, TypedTables
<1>6. TxnTable(Len(log)) /\ PageTable(Len(log))
  BY <1>0, <1>1, <1>5 DEF AnalysisSound
<1>7. TxnTable(Len(log))' /\ PageTable(Len(log))'
  BY <1>2, <1>6 DEF TxnTable, PageTable
<1>8. RedoSound'
  BY <1>1, <1>7 DEF RedoSound
<1> QED BY <1>1, <1>3, <1>4, <1>8, TablesStep

-----------------------------------------------------------------------------
(* Redo, and the end of undo.                                              *)

LEMMA RecoveryIsAlone ==
    ASSUME RecoveryInv, phase # "running"
    PROVE  /\ NoneChanging /\ ckpt.pc = "idle" /\ active = {}
           /\ \A t \in Txn : pc[t] = "unborn" /\ state[t] = "UNBORN"
BY DEF RecoveryInv, Sequential, NoneChanging

(* A record that the redo loop passes over is in its page.                 *)
LEMMA NotToRedo ==
    ASSUME TypeOK, PoolSound, PageTable(Len(log)), NEW p \in Page, NEW k \in 1 .. Len(log),
           OnPage(log, k, p), ~ShouldRedoRecord(k)
    PROVE  k <= buf[p].lsn
<1>1. disk[p].lsn <= buf[p].lsn
  BY DEF PoolSound
<1>2. disk[p].lsn \in Nat /\ buf[p].lsn \in Nat /\ k \in Nat /\ rdpt[p] \in Nat
  BY TypedTables, TypedLog
<1>3. CASE disk[p].lsn < k
  <2>1. rdpt[p] # 0 /\ rdpt[p] <= k
    BY <1>3 DEF PageTable
  <2>2. ~(buf[p].lsn < k)
    BY <1>2, <2>1 DEF ShouldRedoRecord, OnPage
  <2> QED BY <1>2, <2>2
<1> QED BY <1>1, <1>2, <1>3

LEMMA RedoRecordKeepsInv ==
    ASSUME RecoveryInv, NEW lsn \in DOMAIN log, RedoRecord(lsn)
    PROVE  RecoveryInv'
<1>0. TypeOK /\ Sequential /\ LogSound /\ DiskSound /\ PoolSound /\ CheckpointsSound /\ RedoSound /\ UndoSound
  BY DEF RecoveryInv
<1>1. /\ phase = "redo" /\ phase' = phase /\ lsn > cursor /\ ShouldRedoRecord(lsn) /\ cursor' = lsn
      /\ \A i \in cursor + 1 .. lsn - 1 : ~ShouldRedoRecord(i)
      /\ UNCHANGED <<log, durable, persistent, master, disk, ckpt, rtab, rdpt, todo, counts>>
      /\ UNCHANGED <<state, last, active, pc, at, owner>>
  BY DEF RedoRecord, logVars, txnVars
<1>l. lsn \in 1 .. Len(log) /\ Len(log) \in Nat /\ lsn \in Nat \ {0} /\ cursor \in Nat
  BY <1>0, TypedLog, TypedTables
<1>r. PICK rec \in LogRecord : rec = log[lsn]
  BY <1>0, <1>l, TypedLog
<1>p. PICK p \in Page : p = rec.page
  BY <1>1, <1>r, RecordFields DEF ShouldRedoRecord
<1>2. IsPageUpdateRecord(rec) /\ OnPage(log, lsn, p) /\ buf[p].lsn < lsn /\ rec.after \in Nat
  BY <1>1, <1>p, <1>r, RecordFields DEF ShouldRedoRecord, OnPage
<1>t. /\ disk \in [Page -> [val : Nat, lsn : Nat]] /\ buf \in [Page -> [val : Nat, lsn : Nat]]
      /\ dpt \in [Page -> Nat]
  BY <1>0, TypedTables
<1>3. /\ buf' = [buf EXCEPT ![p] = [val |-> rec.after, lsn |-> lsn]]
      /\ dpt' = [dpt EXCEPT ![p] = MinRecLSN(@, lsn)]
  BY <1>p, <1>r DEF RedoRecord, ApplyImage
<1>4. /\ buf'[p] = [val |-> rec.after, lsn |-> lsn] /\ dpt'[p] = MinRecLSN(dpt[p], lsn)
      /\ \A q \in Page : q # p => buf'[q] = buf[q] /\ dpt'[q] = dpt[q]
  BY <1>3, <1>t
<1>5. dpt'[p] \in Nat \ {0}
  BY <1>4, <1>l, <1>t, MinRecLSNBound
<1>6. TypeOK'
  <2>1. /\ buf' \in [Page -> [val : Nat, lsn : Nat]] /\ dpt' \in [Page -> Nat]
        /\ phase' \in {"running", "analysis", "redo", "undo"} /\ cursor' \in Nat
    BY <1>1, <1>2, <1>3, <1>4, <1>5, <1>l, <1>t
  <2> QED BY <1>0, <1>1, <2>1 DEF TypeOK
<1>7. NoneChanging /\ NoneChanging'
  <2>1. NoneChanging
    BY <1>1, RecoveryIsAlone
  <2> QED BY <1>1, <2>1 DEF NoneChanging
<1>8. \A q : Settled(q) = buf[q].val /\ Settled(q)' = buf'[q].val
  BY <1>7 DEF NoneChanging, Settled
<1>9. PoolSound'
  <2>1. ASSUME NEW q \in Page
        PROVE  /\ Logged(q, buf[q].lsn, Settled(q))'
               /\ disk[q].lsn <= buf'[q].lsn
               /\ dpt'[q] = 0 /\ ~Pinned(q)' => disk[q] = buf'[q]
    <3>0. Logged(q, buf[q].lsn, Settled(q)) /\ disk[q].lsn <= buf[q].lsn
          /\ (dpt[q] = 0 /\ ~Pinned(q) => disk[q] = buf[q])
      BY <1>0 DEF PoolSound
    <3>1. CASE q = p
      <4>1. Settled(q)' = rec.after /\ buf'[q].lsn = lsn /\ log'[lsn].after = rec.after
        BY <1>1, <1>4, <1>8, <1>r, <3>1
      <4>2. Logged(q, buf[q].lsn, Settled(q))'
        BY <1>1, <1>2, <1>l, <3>1, <4>1 DEF Logged
      <4> QED BY <1>2, <1>4, <1>5, <1>l, <1>t, <3>0, <3>1, <4>2
    <3>2. CASE q # p
      <4>1. Settled(q)' = Settled(q) /\ buf'[q] = buf[q] /\ dpt'[q] = dpt[q]
        BY <1>4, <1>8, <3>2
      <4>2. Logged(q, buf[q].lsn, Settled(q))'
        BY <1>1, <3>0, <4>1 DEF Logged
      <4> QED BY <1>1, <3>0, <4>1, <4>2 DEF Pinned
    <3> QED BY <3>1, <3>2
  <2> QED BY <1>1, <2>1 DEF PoolSound
<1>10. RedoSound'
  <2>1. TxnTable(Len(log)) /\ PageTable(Len(log))
        /\ \A q \in Page, k \in 1 .. Len(log) : k <= cursor /\ OnPage(log, k, q) => k <= buf[q].lsn
    BY <1>0, <1>1 DEF RedoSound
  <2>2. TxnTable(Len(log))' /\ PageTable(Len(log))'
    BY <1>1, <2>1 DEF TxnTable, PageTable
  <2>3. ASSUME NEW q \in Page, NEW k \in 1 .. Len(log), k <= lsn, OnPage(log, k, q)
        PROVE  k <= buf'[q].lsn
    <3>1. CASE k = lsn
      <4>1. q = p
        BY <1>2, <2>3, <3>1 DEF OnPage
      <4> QED BY <1>4, <3>1, <4>1
    <3>2. CASE k < lsn
      <4>1. k <= buf[q].lsn
        <5>1. CASE k <= cursor
          BY <2>1, <2>3, <5>1
        <5>2. CASE k > cursor
          <6>1. k \in cursor + 1 .. lsn - 1
            BY <1>l, <3>2, <5>2
          <6>2. ~ShouldRedoRecord(k)
            BY <1>1, <6>1
          <6> QED BY <1>0, <2>1, <2>3, <6>2, NotToRedo
        <5> QED BY <1>l, <5>1, <5>2
      <4>2. buf[q].lsn <= buf'[q].lsn /\ buf[q].lsn \in Nat /\ buf'[q].lsn \in Nat
        <5>1. buf[q].lsn \in Nat
          BY <1>t
        <5>2. CASE q = p
          <6>1. buf'[q].lsn = lsn
            BY <1>4, <5>2
          <6> QED BY <1>2, <1>l, <5>1, <5>2, <6>1
        <5>3. CASE q # p
          BY <1>4, <5>1, <5>3
        <5> QED BY <5>2, <5>3
      <4> QED BY <1>l, <4>1, <4>2
    <3> QED BY <1>l, <2>3, <3>1, <3>2
  <2> QED BY <1>1, <2>2, <2>3 DEF RedoSound
<1>11. Sequential' /\ LogSound' /\ UndoSound'
  BY <1>0, <1>1 DEF Sequential, LogSound, UndoSound
<1>12. DiskSound'
  BY <1>0, <1>1 DEF DiskSound, Logged
<1>13. CheckpointsSound'
  BY <1>0, <1>1 DEF CheckpointsSound, PagesSaved
<1>14. ThreadsSound' /\ PagesLocked' /\ DirtyPagesCovered' /\ UpToDate' /\ AnalysisSound'
  BY <1>1 DEF ThreadsSound, PagesLocked, DirtyPagesCovered, UpToDate, AnalysisSound
<1> QED BY <1>6, <1>9, <1>10, <1>11, <1>12, <1>13, <1>14 DEF RecoveryInv

(* FlushAllPages during recovery.                                          *)
LEMMA RecoveryFlush ==
    ASSUME RecoveryInv, phase # "running", FlushAllPages, UNCHANGED <<txnVars, ckpt>>
    PROVE  /\ SyncStep /\ log' = log /\ master' = master /\ buf' = buf
           /\ disk' \in [Page -> [val : Nat, lsn : Nat]] /\ dpt' \in [Page -> Nat]
           /\ durable' \in 0 .. Len(log') /\ persistent' \in 0 .. durable' + 1
           /\ DiskSound' /\ PoolSound' /\ CheckpointsSound' /\ LogSound'
           /\ \A p \in Page : disk'[p] = buf[p]
<1>0. TypeOK /\ LogSound /\ DiskSound /\ PoolSound /\ CheckpointsSound
  BY DEF RecoveryInv
<1>1. NoneChanging /\ NoneChanging'
  <2>1. NoneChanging
    BY RecoveryIsAlone
  <2> QED BY <2>1 DEF NoneChanging, txnVars
<1>2. FlushFrames(Dirty) /\ buf' = buf
  BY DEF FlushAllPages, FlushFrames
<1>3. \A p \in Page : Settled(p)' = Settled(p) /\ (Pinned(p)' <=> Pinned(p)) /\ ~Pinned(p)
  BY <1>1, <1>2 DEF NoneChanging, Settled, Pinned
<1>d. PICK D \in SUBSET Page : D = Dirty
  BY DEF Dirty
<1>4. /\ SyncStep /\ log' = log /\ master' = master /\ buf' = buf
      /\ disk' \in [Page -> [val : Nat, lsn : Nat]] /\ dpt' \in [Page -> Nat]
      /\ disk' = [q \in Page |-> IF q \in D THEN buf[q] ELSE disk[q]]
      /\ dpt' = [q \in Page |-> IF q \in D THEN 0 ELSE dpt[q]]
      /\ durable' \in durable .. Len(log) /\ durable' \in Nat /\ persistent' \in 0 .. durable' + 1
      /\ persistent <= Len(log) => persistent' <= Len(log)
      /\ DiskSound' /\ PoolSound' /\ CheckpointsSound'
  BY <1>0, <1>2, <1>3, <1>d, FlushedPages
<1>5. durable' \in 0 .. Len(log)
  BY <1>0, <1>4, TypedLog
<1>6. durable' \in 0 .. Len(log')
  BY <1>4, <1>5
<1>7. ASSUME NEW p \in Page PROVE disk'[p] = buf[p]
  <2>1. CASE p \in D
    BY <1>4, <2>1
  <2>2. CASE p \notin D
    <3>1. dpt[p] = 0
      BY <1>d, <2>2 DEF Dirty
    <3>2. disk[p] = buf[p]
      BY <1>0, <1>3, <3>1 DEF PoolSound
    <3> QED BY <1>4, <2>2, <3>2
  <2> QED BY <2>1, <2>2
<1>8. LogSound'
  BY <1>0, <1>4 DEF LogSound
<1> QED BY <1>4, <1>6, <1>7, <1>8

LEMMA RedoDoneKeepsInv ==
    ASSUME RecoveryInv, RedoDone
    PROVE  RecoveryInv'
<1>0. TypeOK /\ Sequential /\ PoolSound /\ RedoSound
  BY DEF RecoveryInv
<1>1. /\ phase = "redo" /\ phase' = "undo" /\ FlushAllPages
      /\ \A i \in cursor + 1 .. Len(log) : ~ShouldRedoRecord(i)
      /\ todo' = {[lsn |-> rtab[t].last, txn |-> t] : t \in Losers}
      /\ UNCHANGED <<txnVars, ckpt>>
      /\ UNCHANGED <<state, last, active, pc, at, owner, rtab, rdpt, cursor, counts>>
  BY DEF RedoDone, txnVars
<1>2. /\ SyncStep /\ log' = log /\ master' = master /\ buf' = buf
      /\ disk' \in [Page -> [val : Nat, lsn : Nat]] /\ dpt' \in [Page -> Nat]
      /\ durable' \in 0 .. Len(log') /\ persistent' \in 0 .. durable' + 1
      /\ DiskSound' /\ PoolSound' /\ CheckpointsSound' /\ LogSound'
  BY <1>1, RecoveryFlush
<1>l. Len(log) \in Nat /\ cursor \in Nat
      /\ rtab \in [Txn -> [state : {"ACTIVE", "COMMITTED", "ABORTED"}, last : Nat]]
  BY <1>0, TypedLog, TypedTables
<1>3. todo' \in SUBSET [lsn : Nat, txn : Txn]
  BY <1>1, <1>l DEF Losers
<1>4. TypeOK'
  BY <1>0, <1>1, <1>2, <1>3 DEF TypeOK
<1>5. /\ TxnTable(Len(log)) /\ PageTable(Len(log))
      /\ \A p \in Page, k \in 1 .. Len(log) : k <= cursor /\ OnPage(log, k, p) => k <= buf[p].lsn
  BY <1>0, <1>1 DEF RedoSound
<1>6. UpToDate'
  <2>1. ASSUME NEW p \in Page, NEW k \in 1 .. Len(log), OnPage(log, k, p) PROVE k <= buf[p].lsn
    <3>1. CASE k <= cursor
      BY <1>5, <2>1, <3>1
    <3>2. CASE k > cursor
      <4>1. ~ShouldRedoRecord(k)
        BY <1>1, <1>l, <3>2
      <4> QED BY <1>0, <1>5, <2>1, <4>1, NotToRedo
    <3> QED BY <1>l, <3>1, <3>2
  <2> QED BY <1>2, <2>1 DEF UpToDate
<1>7. UndoSound'
  <2>1. ASSUME NEW t \in Losers
        PROVE  t \in Txn /\ \E b \in 1 .. Len(log) :
                Runs(log, t, b, Len(log)) /\ IsLast(log, t, Len(log), rtab[t].last)
    <3>1. t \in Txn /\ rtab[t].state = "ACTIVE" /\ rtab[t].last # 0
      BY <1>l DEF Losers, IsLoserState
    <3> QED BY <1>5, <3>1 DEF TxnTable
  <2>2. ASSUME NEW t \in Txn, NEW b \in 1 .. Len(log), Runs(log, t, b, Len(log)) PROVE t \in Losers
    <3>1. rtab[t].state = "ACTIVE" /\ IsLast(log, t, Len(log), rtab[t].last)
      BY <1>5, <2>2 DEF TxnTable
    <3> QED BY <3>1 DEF Losers, IsLoserState, IsLast
  <2>3. ASSUME NEW item \in todo'
        PROVE  \E b \in 1 .. Len(log) :
                /\ Runs(log, item.txn, b, Len(log))
                /\ IsLast(log, item.txn, Len(log), rtab[item.txn].last)
                /\ item.lsn = rtab[item.txn].last
    BY <1>1, <2>1
  <2>4. \A x, y \in todo' : x.txn = y.txn => x = y
    BY <1>1
  <2>5. ASSUME NEW t \in Txn, NEW b \in 1 .. Len(log), Runs(log, t, b, Len(log))
        PROVE  \E item \in todo' : item.txn = t
    <3>1. [lsn |-> rtab[t].last, txn |-> t] \in todo'
      BY <1>1, <2>2, <2>5
    <3> QED BY <3>1
  <2> QED BY <1>1, <1>2, <2>3, <2>4, <2>5 DEF UndoSound
<1>8. Sequential'
  BY <1>0, <1>1 DEF Sequential
<1>9. ThreadsSound' /\ PagesLocked' /\ DirtyPagesCovered' /\ AnalysisSound' /\ RedoSound'
  BY <1>1 DEF ThreadsSound, PagesLocked, DirtyPagesCovered, AnalysisSound, RedoSound
<1> QED BY <1>2, <1>4, <1>6, <1>7, <1>8, <1>9 DEF RecoveryInv

LEMMA UndoDoneKeepsInv ==
    ASSUME RecoveryInv, UndoDone
    PROVE  RecoveryInv'
<1>0. TypeOK /\ Sequential /\ UpToDate /\ UndoSound
  BY DEF RecoveryInv
<1>1. /\ phase = "undo" /\ phase' = "running" /\ FlushAllPages /\ todo = {} /\ todo' = {}
      /\ UNCHANGED <<txnVars, ckpt>>
      /\ UNCHANGED <<state, last, active, pc, at, owner, rtab, rdpt, cursor, counts>>
  BY DEF UndoDone, txnVars, recoveryVars
<1>2. /\ SyncStep /\ log' = log /\ master' = master /\ buf' = buf
      /\ disk' \in [Page -> [val : Nat, lsn : Nat]] /\ dpt' \in [Page -> Nat]
      /\ durable' \in 0 .. Len(log') /\ persistent' \in 0 .. durable' + 1
      /\ DiskSound' /\ PoolSound' /\ CheckpointsSound' /\ LogSound'
      /\ \A p \in Page : disk'[p] = buf[p]
  BY <1>1, RecoveryFlush
<1>3. TypeOK'
  BY <1>0, <1>1, <1>2 DEF TypeOK
<1>4. NoneChanging /\ active = {} /\ \A t \in Txn : pc[t] = "unborn" /\ state[t] = "UNBORN"
  BY <1>1, RecoveryIsAlone
<1>5. \A t \in Txn, b \in 1 .. Len(log) : ~Runs(log, t, b, Len(log))
  BY <1>0, <1>1 DEF UndoSound
<1>6. ThreadsSound'
  <2>1. ASSUME NEW t \in Txn PROVE ThreadSound(t)'
    <3>1. pc'[t] = "unborn" /\ state'[t] = "UNBORN" /\ t \notin active'
      BY <1>1, <1>4
    <3> QED BY <1>2, <1>5, <3>1 DEF ThreadSound, Running
  <2> QED BY <2>1 DEF ThreadsSound
<1>7. PagesLocked'
  BY <1>2, <1>5 DEF PagesLocked
<1>8. UpToDate'
  BY <1>0, <1>1, <1>2 DEF UpToDate, InFlight
<1>9. DirtyPagesCovered'
  <2>1. ASSUME NEW p \in Page, NEW k \in 1 .. Len(log), OnPage(log, k, p) PROVE ~(disk'[p].lsn < k)
    <3>1. ~InFlight(k, {"applying"})
      BY <1>4, NoneChangingMeans
    <3>2. k <= buf[p].lsn
      BY <1>0, <1>1, <2>1, <3>1 DEF UpToDate
    <3>3. buf[p].lsn \in Nat /\ k \in Nat
      BY <1>0, TypedTables, TypedLog
    <3> QED BY <1>2, <3>2, <3>3
  <2> QED BY <1>2, <2>1 DEF DirtyPagesCovered
<1>10. Sequential' /\ AnalysisSound' /\ RedoSound' /\ UndoSound'
  BY <1>0, <1>1 DEF Sequential, AnalysisSound, RedoSound, UndoSound
<1> QED BY <1>2, <1>3, <1>6, <1>7, <1>8, <1>9, <1>10 DEF RecoveryInv

-----------------------------------------------------------------------------
(* Undo.                                                                   *)

(* The record on top of the queue, when it is not skipped, is where the    *)
(* rollback of its transaction goes on, and no other goes on after it.     *)
LEMMA TopResume ==
    ASSUME TypeOK, LogSound, UndoSound, phase = "undo", NEW item \in todo, Top(item),
           log[item.lsn].type \in {"UPDATE", "BEGIN"}
    PROVE  /\ item.txn \in Txn /\ item.lsn \in Nat
           /\ \E b \in 1 .. Len(log) :
                /\ Runs(log, item.txn, b, Len(log))
                /\ IsLast(log, item.txn, Len(log), rtab[item.txn].last)
                /\ item.lsn = Resume(log, rtab[item.txn].last)
                /\ item.lsn \in b .. Len(log) /\ log[item.lsn].txn = item.txn
                /\ log[item.lsn].type = "BEGIN" <=> item.lsn = b
           /\ \A u \in Txn, c, k \in 1 .. Len(log) :
                Runs(log, u, c, Len(log)) /\ IsLast(log, u, Len(log), k) => Resume(log, k) <= item.lsn
<1>1. item.txn \in Txn /\ item.lsn \in Nat
  BY TypedTables
<1>2. PICK b \in 1 .. Len(log) :
            /\ Runs(log, item.txn, b, Len(log))
            /\ IsLast(log, item.txn, Len(log), rtab[item.txn].last)
            /\ item.lsn \in {rtab[item.txn].last, Resume(log, rtab[item.txn].last)}
  BY DEF UndoSound
<1>j. PICK j : j = rtab[item.txn].last
  OBVIOUS
<1>3. /\ j \in b .. Len(log) /\ Resume(log, j) \in b..j /\ log[Resume(log, j)].txn = item.txn
      /\ log[Resume(log, j)].type = "BEGIN" <=> Resume(log, j) = b
      /\ Len(log) \in Nat /\ b \in Nat
  BY <1>2, <1>j, LogResume, SMTT(30)
<1>4. item.lsn = Resume(log, j)
  BY <1>2, <1>j DEF Resume
<1>5. item.lsn \in b .. Len(log)
  BY <1>3, <1>4
<1>6. ASSUME NEW u \in Txn, NEW c \in 1 .. Len(log), NEW k \in 1 .. Len(log),
             Runs(log, u, c, Len(log)), IsLast(log, u, Len(log), k)
      PROVE  Resume(log, k) <= item.lsn
  <2>1. PICK x \in todo : x.txn = u
    BY <1>6 DEF UndoSound
  <2>2. IsLast(log, u, Len(log), rtab[u].last) /\ x.lsn \in {rtab[u].last, Resume(log, rtab[u].last)}
    BY <2>1 DEF UndoSound
  <2>3. rtab[u].last = k
    BY <1>3, <1>6, <2>2, OneLast
  <2>4. Resume(log, k) \in c..k
    BY <1>6, LogResume
  <2>5. x.lsn <= item.lsn
    BY <2>1 DEF Top
  <2> QED BY <1>1, <1>3, <2>2, <2>3, <2>4, <2>5
<1> QED BY <1>1, <1>2, <1>3, <1>4, <1>5, <1>6, <1>j

(* The first record after a restart is the one a page on disk may be       *)
(* ahead of the log by.                                                    *)
LEMMA UndoForeseen ==
    ASSUME TypeOK, LogSound, UndoSound, phase = "undo", NEW item \in todo, Top(item), NEW r,
           \/ /\ log[item.lsn].type = "UPDATE" /\ IsPageUpdateRecord(r)
              /\ r.page = log[item.lsn].page /\ r.after = log[item.lsn].before
           \/ log[item.lsn].type = "BEGIN" /\ ~IsPageUpdateRecord(r)
    PROVE  Foreseen(r)
<1>1. PICK t \in Txn, m \in Nat : t = item.txn /\ m = item.lsn
  BY TopResume
<1>2. PICK b \in 1 .. Len(log) :
            /\ Runs(log, t, b, Len(log)) /\ IsLast(log, t, Len(log), rtab[t].last)
            /\ m = Resume(log, rtab[t].last) /\ m \in b .. Len(log)
  BY <1>1, TopResume
<1>3. \A u \in Txn, c, k \in 1 .. Len(log) :
            Runs(log, u, c, Len(log)) /\ IsLast(log, u, Len(log), k) => Resume(log, k) <= m
  BY <1>1, TopResume
<1>4. Len(log) \in Nat
  BY TypedLog
<1>5. ASSUME NEW p, NEW v, CompensatesFirst(log, Len(log), p, v)
      PROVE  log[m].type = "UPDATE" /\ log[m].page = p /\ log[m].before = v
  <2>1. PICK u \in Txn, c \in 1 .. Len(log), k \in 1 .. Len(log) :
            /\ Runs(log, u, c, Len(log)) /\ IsLast(log, u, Len(log), k)
            /\ Resume(log, k) \in 1 .. Len(log) /\ log[Resume(log, k)].type = "UPDATE"
            /\ log[Resume(log, k)].page = p /\ log[Resume(log, k)].before = v
            /\ \A w \in Txn, d, i \in 1 .. Len(log) :
                    Runs(log, w, d, Len(log)) /\ IsLast(log, w, Len(log), i) => Resume(log, i) <= Resume(log, k)
    BY <1>5 DEF CompensatesFirst
  <2>2. rtab[t].last \in 1 .. Len(log)
    BY <1>2 DEF IsLast
  <2>3. Resume(log, k) <= m /\ m <= Resume(log, k)
    BY <1>2, <1>3, <2>1, <2>2
  <2>4. Resume(log, k) = m
    BY <1>4, <2>1, <2>3
  <2> QED BY <2>1, <2>4
<1>6. ASSUME IsPageUpdateRecord(r) PROVE CompensatesFirst(log, Len(log), r.page, r.after)
  <2>1. log[m].type = "UPDATE" /\ log[m].page = r.page /\ log[m].before = r.after
    BY <1>1, <1>6
  <2>j. PICK j \in 1 .. Len(log) : j = rtab[t].last
    BY <1>2 DEF IsLast
  <2>2. m \in 1 .. Len(log)
    BY <1>2, <1>4
  <2> QED BY <1>2, <1>3, <2>1, <2>2, <2>j DEF CompensatesFirst
<1>7. CASE log[m].type = "UPDATE"
  BY <1>1, <1>5, <1>6, <1>7 DEF Foreseen
<1>8. CASE log[m].type = "BEGIN"
  BY <1>1, <1>5, <1>8 DEF Foreseen
<1> QED BY <1>1, <1>7, <1>8

(* The other transactions of the undo pass.                                *)
LEMMA OtherItems ==
    ASSUME TypeOK, UndoSound, phase = "undo", NEW item \in todo, NEW r \in LogRecord,
           r.txn = item.txn, log' = Append(log, r),
           \A u \in Txn : u # item.txn => rtab'[u] = rtab[u]
    PROVE  /\ \A x \in todo \ {item} : /\ x.txn # item.txn
                 /\ \E b \in 1 .. Len(log') :
                        /\ Runs(log', x.txn, b, Len(log'))
                        /\ IsLast(log', x.txn, Len(log'), rtab'[x.txn].last)
                        /\ x.lsn \in {rtab'[x.txn].last, Resume(log', rtab'[x.txn].last)}
           /\ \A t \in Txn, b \in 1 .. Len(log') :
                 t # item.txn /\ Runs(log', t, b, Len(log')) => \E x \in todo \ {item} : x.txn = t
<1>1. /\ Len(log') = Len(log) + 1 /\ Len(log) \in Nat /\ Agree(log, log', Len(log))
  BY TypedLog, Appended
<1>2. ASSUME NEW u \in Txn, u # item.txn
      PROVE  /\ \A b : Runs(log', u, b, Len(log')) <=> Runs(log, u, b, Len(log))
             /\ \A j : IsLast(log', u, Len(log'), j) <=> IsLast(log, u, Len(log), j)
  BY <1>2, AppendOthers
<1>3. ASSUME NEW x \in todo, x # item
      PROVE  /\ x.txn # item.txn
             /\ \E b \in 1 .. Len(log') :
                    /\ Runs(log', x.txn, b, Len(log'))
                    /\ IsLast(log', x.txn, Len(log'), rtab'[x.txn].last)
                    /\ x.lsn \in {rtab'[x.txn].last, Resume(log', rtab'[x.txn].last)}
  <2>1. x.txn # item.txn /\ x.txn \in Txn
    BY <1>3, TypedTables DEF UndoSound
  <2>2. PICK b \in 1 .. Len(log) :
            /\ Runs(log, x.txn, b, Len(log)) /\ IsLast(log, x.txn, Len(log), rtab[x.txn].last)
            /\ x.lsn \in {rtab[x.txn].last, Resume(log, rtab[x.txn].last)}
    BY DEF UndoSound
  <2>3. rtab'[x.txn] = rtab[x.txn] /\ b \in 1 .. Len(log')
    BY <1>1, <2>1
  <2>4. rtab[x.txn].last \in 1 .. Len(log)
    BY <2>2 DEF IsLast
  <2>5. Resume(log', rtab[x.txn].last) = Resume(log, rtab[x.txn].last)
    BY <1>1, <2>4 DEF Resume, Agree
  <2> QED BY <1>2, <2>1, <2>2, <2>3, <2>5
<1>4. ASSUME NEW t \in Txn, NEW b \in 1 .. Len(log'), t # item.txn, Runs(log', t, b, Len(log'))
      PROVE  \E x \in todo \ {item} : x.txn = t
  <2>1. Runs(log, t, b, Len(log))
    BY <1>2, <1>4
  <2>2. b \in 1 .. Len(log)
    BY <2>1 DEF Runs
  <2> QED BY <1>4, <2>1, <2>2 DEF UndoSound
<1> QED BY <1>3, <1>4

LEMMA UndoSkipKeepsInv ==
    ASSUME RecoveryInv, NEW item \in todo, UndoSkip(item)
    PROVE  RecoveryInv'
<1>0. TypeOK /\ LogSound /\ UndoSound
  BY DEF RecoveryInv
<1>1. /\ phase = "undo" /\ phase' = phase /\ log[item.lsn].type \notin {"UPDATE", "BEGIN"}
      /\ UNCHANGED <<logVars, pageVars, txnVars, ckpt>> /\ counts' = counts
      /\ rtab' = rtab /\ rdpt' = rdpt /\ cursor' = cursor /\ log' = log
  BY DEF UndoSkip, logVars
<1>2. item.txn \in Txn /\ item.lsn \in Nat
  BY <1>0, TypedTables
<1>3. PICK b \in 1 .. Len(log) :
            /\ Runs(log, item.txn, b, Len(log))
            /\ IsLast(log, item.txn, Len(log), rtab[item.txn].last)
            /\ item.lsn \in {rtab[item.txn].last, Resume(log, rtab[item.txn].last)}
  BY <1>0, <1>1 DEF UndoSound
<1>j. PICK j : j = rtab[item.txn].last
  OBVIOUS
<1>4. /\ Resume(log, j) \in b..j /\ log[Resume(log, j)].type \in {"BEGIN", "UPDATE"}
      /\ b \in Nat /\ j \in b .. Len(log)
  BY <1>0, <1>3, <1>j, LogResume
<1>5. item.lsn = j /\ log[j].type = "CLR"
  <2>1. item.lsn = j
    BY <1>1, <1>3, <1>4, <1>j
  <2> QED BY <1>1, <1>4, <2>1 DEF Resume
<1>6. todo' = (todo \ {item}) \cup {[lsn |-> Resume(log, j), txn |-> item.txn]}
  BY <1>5 DEF UndoSkip, Resume
<1>7. todo' \in SUBSET [lsn : Nat, txn : Txn]
  <2>1. Resume(log, j) \in Nat
    BY <1>0, <1>4, TypedLog
  <2>2. todo \in SUBSET [lsn : Nat, txn : Txn]
    BY <1>0, TypedTables
  <2> QED BY <1>2, <1>6, <2>1, <2>2
<1>8. TypeOK'
  <2>1. rtab' \in [Txn -> Entry] /\ rdpt' \in [Page -> Nat] /\ cursor' \in Nat
        /\ phase' \in {"running", "analysis", "redo", "undo"}
    BY <1>0, <1>1 DEF TypeOK
  <2> QED BY <1>0, <1>1, <1>7, <2>1, TypedBefore
<1>9. UndoSound'
  <2>n. PICK new : new = [lsn |-> Resume(log, j), txn |-> item.txn]
    OBVIOUS
  <2>1. new.txn = item.txn /\ new.lsn = Resume(log, j) /\ todo' = (todo \ {item}) \cup {new}
    BY <1>6, <2>n
  <2>2. ASSUME NEW x \in todo'
        PROVE  \E c \in 1 .. Len(log) :
                /\ Runs(log, x.txn, c, Len(log)) /\ IsLast(log, x.txn, Len(log), rtab[x.txn].last)
                /\ x.lsn \in {rtab[x.txn].last, Resume(log, rtab[x.txn].last)}
    <3>1. CASE x = new
      BY <1>3, <1>j, <2>1, <3>1
    <3>2. CASE x \in todo
      BY <1>0, <1>1, <3>2 DEF UndoSound
    <3> QED BY <2>1, <3>1, <3>2
  <2>3. ASSUME NEW x \in todo', NEW y \in todo', x.txn = y.txn PROVE x = y
    <3>1. \A z \in todo : z.txn = item.txn => z = item
      BY <1>0, <1>1 DEF UndoSound
    <3>2. \A z \in todo' : z.txn = item.txn => z = new
      BY <2>1, <3>1
    <3>3. CASE x.txn = item.txn
      BY <2>3, <3>2, <3>3
    <3>4. CASE x.txn # item.txn
      <4>1. x \in todo /\ y \in todo
        BY <2>1, <2>3, <3>4
      <4> QED BY <1>0, <1>1, <2>3, <4>1 DEF UndoSound
    <3> QED BY <3>3, <3>4
  <2>4. ASSUME NEW t \in Txn, NEW c \in 1 .. Len(log), Runs(log, t, c, Len(log))
        PROVE  \E x \in todo' : x.txn = t
    <3>1. PICK x \in todo : x.txn = t
      BY <1>0, <1>1, <2>4 DEF UndoSound
    <3>2. CASE x = item
      BY <2>1, <3>1, <3>2
    <3>3. CASE x # item
      BY <2>1, <3>1, <3>3
    <3> QED BY <3>2, <3>3
  <2> QED BY <1>1, <2>2, <2>3, <2>4 DEF UndoSound
<1>10. AnalysisSound' /\ RedoSound'
  BY <1>1 DEF AnalysisSound, RedoSound
<1>11. phase # "running" /\ phase' # "running" /\ (phase' = "undo" => phase = "undo")
  BY <1>1
<1> QED BY <1>1, <1>8, <1>9, <1>10, <1>11, TablesStep

LEMMA UndoRecordKeepsInv ==
    ASSUME RecoveryInv, NEW item \in todo, UndoRecord(item)
    PROVE  RecoveryInv'
<1>0. TypeOK /\ Sequential /\ LogSound /\ DiskSound /\ PoolSound /\ UpToDate /\ CheckpointsSound /\ UndoSound
  BY DEF RecoveryInv
<1>1. /\ phase = "undo" /\ phase' = phase /\ Top(item) /\ log[item.lsn].type = "UPDATE"
      /\ UNCHANGED <<durable, persistent, master, disk, ckpt, rdpt, cursor, counts>>
      /\ UNCHANGED <<state, last, active, pc, at, owner>>
  BY DEF UndoRecord, txnVars
<1>t. PICK t \in Txn, m \in Nat : t = item.txn /\ m = item.lsn
  BY <1>0, <1>1, TopResume
<1>b. PICK b \in 1 .. Len(log) :
            /\ Runs(log, t, b, Len(log)) /\ IsLast(log, t, Len(log), rtab[t].last)
            /\ m = Resume(log, rtab[t].last) /\ m \in b .. Len(log) /\ log[m].txn = t
            /\ log[m].type = "BEGIN" <=> m = b
  BY <1>0, <1>1, <1>t, TopResume
<1>j. PICK j \in 1 .. Len(log) : j = rtab[t].last
  BY <1>b DEF IsLast
<1>m. m \in 1 .. Len(log) /\ m \in b + 1 .. Len(log) /\ log[m].type = "UPDATE" /\ Len(log) \in Nat
  BY <1>0, <1>1, <1>b, <1>t, TypedLog
<1>x. log[m] \in LogRecord
  BY <1>0, <1>m, TypedLog
<1>p. PICK p \in Page : log[m].page = p
  BY <1>m, <1>x, RecordFields DEF IsPageUpdateRecord
<1>y. /\ buf \in [Page -> [val : Nat, lsn : Nat]] /\ disk \in [Page -> [val : Nat, lsn : Nat]]
      /\ dpt \in [Page -> Nat] /\ rtab \in [Txn -> [state : {"ACTIVE", "COMMITTED", "ABORTED"}, last : Nat]]
      /\ todo \in SUBSET [lsn : Nat, txn : Txn]
      /\ j \in Nat /\ log[m].prev \in Nat /\ log[m].before \in Nat
  <2>1. log[m].prev \in Nat /\ log[m].before \in Nat
    BY <1>m, <1>x, RecordFields
  <2>2. j \in Nat
    BY <1>m
  <2> QED BY <1>0, <2>1, <2>2, TypedTables
<1>r. PICK r : r = MakeClrPageUndoRecord(t, j, log[m].prev, p, log[m].before)
  OBVIOUS
<1>f. /\ r.txn = t /\ r.type = "CLR" /\ r.prev = j /\ r.page = p
      /\ r.undoNext = log[m].prev /\ r.after = log[m].before /\ IsPageUpdateRecord(r)
  BY <1>r DEF MakeClrPageUndoRecord, IsPageUpdateRecord
<1>2. r \in LogRecord
  <2>1. r \in [type : {"CLR"}, txn : Txn, prev : Nat, undoNext : Nat, page : Page, after : Nat]
    BY <1>r, <1>y DEF MakeClrPageUndoRecord
  <2> QED BY <2>1 DEF LogRecord
<1>a. log' = Append(log, r)
  BY <1>j, <1>p, <1>r, <1>t DEF UndoRecord, AppendRecord
<1>3. /\ rtab' = [rtab EXCEPT ![t].last = Len(log) + 1]
      /\ buf' = [buf EXCEPT ![p] = [val |-> log[m].before, lsn |-> Len(log) + 1]]
      /\ dpt' = [dpt EXCEPT ![p] = MinRecLSN(@, Len(log) + 1)]
      /\ todo' = (todo \ {item}) \cup {[lsn |-> log[m].prev, txn |-> t]}
  BY <1>p, <1>t DEF UndoRecord, ApplyImage, EndLSN
<1>4. /\ Len(log') = Len(log) + 1 /\ Agree(log, log', Len(log)) /\ log'[Len(log) + 1] = r
      /\ Len(log) + 1 \in Nat \ {0}
  <2>1. log \in Seq(LogRecord)
    BY <1>0, TypedLog
  <2>2. Len(log') = Len(log) + 1 /\ Agree(log, log', Len(log)) /\ log'[Len(log) + 1] = r
    BY <1>2, <1>a, <2>1, Appended
  <2> QED BY <1>m, <2>2
<1>5. /\ buf'[p] = [val |-> log[m].before, lsn |-> Len(log) + 1]
      /\ \A q \in Page : q # p => buf'[q] = buf[q] /\ dpt'[q] = dpt[q]
      /\ dpt'[p] = MinRecLSN(dpt[p], Len(log) + 1)
      /\ rtab'[t].last = Len(log) + 1 /\ \A u \in Txn : u # t => rtab'[u] = rtab[u]
  BY <1>3, <1>y
<1>6. dpt'[p] \in Nat \ {0}
  <2>1. dpt[p] \in Nat
    BY <1>y
  <2>2. MinRecLSN(dpt[p], Len(log) + 1) \in Nat \ {0}
    BY <1>4, <2>1, MinRecLSNBound
  <2> QED BY <1>5, <2>2
<1>7. TypeOK'
  <2>1. log' \in Seq(LogRecord) /\ durable' \in 0 .. Len(log') /\ persistent' \in 0 .. durable' + 1
    BY <1>0, <1>1, <1>2, <1>a, AppendTyped
  <2>2. buf' \in [Page -> [val : Nat, lsn : Nat]] /\ dpt' \in [Page -> Nat]
    BY <1>3, <1>4, <1>5, <1>6, <1>y
  <2>3. rtab' \in [Txn -> Entry]
    BY <1>3, <1>4, <1>y DEF Entry
  <2>4. todo' \in SUBSET [lsn : Nat, txn : Txn]
    BY <1>3, <1>y, SMTT(30)
  <2>5. phase' \in {"running", "analysis", "redo", "undo"}
    BY <1>1
  <2> QED BY <1>0, <1>1, <2>1, <2>2, <2>3, <2>4, <2>5 DEF TypeOK
<1>8. RecordSound(log', Len(log) + 1)
  <2>1. /\ Runs(log', t, b, Len(log)) /\ IsLast(log', t, Len(log), j) /\ Resume(log', j) = m
    BY <1>4, <1>b, <1>j, <1>m, SameRuns, SameLast
  <2>2. log'[m] = log[m]
    BY <1>4, <1>m DEF Agree
  <2>3. (Len(log) + 1) - 1 = Len(log)
    BY <1>m
  <2>4. ClrSound(log', Len(log) + 1)
    BY <1>4, <1>b, <1>f, <1>m, <1>p, <2>1, <2>2, <2>3 DEF ClrSound
  <2> QED BY <1>4, <1>f, <2>4 DEF RecordSound
<1>9. LogSound'
  BY <1>0, <1>2, <1>a, <1>8, LogSoundAppend
<1>10. Foreseen(r)
  BY <1>0, <1>1, <1>f, <1>p, <1>t, UndoForeseen
<1>11. DiskSound'
  BY <1>0, <1>1, <1>2, <1>a, <1>10, DiskAppend
<1>12. NoneChanging /\ NoneChanging' /\ ckpt.pc = "idle"
  <2>1. NoneChanging /\ ckpt.pc = "idle"
    BY <1>1, RecoveryIsAlone
  <2> QED BY <1>1, <2>1 DEF NoneChanging
<1>13. /\ \A q : Settled(q) = buf[q].val /\ ~Pinned(q) /\ Settled(q)' = buf'[q].val /\ ~Pinned(q)'
       /\ \A k : ~InFlight(k, {"applying"})
  BY <1>12 DEF NoneChanging, Settled, Pinned, InFlight
<1>14. PoolSound'
  <2> SUFFICES ASSUME NEW q \in Page
               PROVE  /\ Logged(q, buf[q].lsn, Settled(q))'
                      /\ disk'[q].lsn <= buf'[q].lsn
                      /\ dpt'[q] = 0 => disk'[q] = buf'[q]
    BY DEF PoolSound
  <2>1. CASE q = p
    <3>1. Settled(q)' = r.after /\ buf'[q].lsn = Len(log') /\ OnPage(log', Len(log'), q)
      BY <1>4, <1>5, <1>13, <1>f, <2>1 DEF OnPage
    <3>2. Logged(q, buf[q].lsn, Settled(q))'
      BY <1>4, <3>1, <1>m DEF Logged
    <3>3. disk[q].lsn <= durable + 1 /\ disk[q].lsn \in Nat /\ durable \in Nat /\ durable <= Len(log)
      BY <1>0, <1>m, <1>y, TypedLog DEF DiskSound
    <3> QED BY <1>1, <1>4, <1>6, <1>m, <2>1, <3>1, <3>2, <3>3
  <2>2. CASE q # p
    <3>k. PICK k \in Nat, v \in Nat : k = buf[q].lsn /\ v = buf[q].val
      BY <1>y
    <3>1. Logged(q, k, v) /\ disk[q].lsn <= k /\ (dpt[q] = 0 => disk[q] = buf[q])
      BY <1>0, <1>13, <3>k DEF PoolSound
    <3>2. Logged(q, k, v)'
      BY <1>0, <1>2, <1>a, <1>10, <3>1, LoggedAppend
    <3>3. buf'[q].lsn = k /\ Settled(q)' = v /\ buf'[q] = buf[q] /\ dpt'[q] = dpt[q]
      BY <1>5, <1>13, <2>2, <3>k
    <3>4. Logged(q, buf[q].lsn, Settled(q))'
      BY <3>2, <3>3 DEF Logged
    <3> QED BY <1>1, <3>1, <3>3, <3>4
  <2> QED BY <2>1, <2>2
<1>15. UpToDate'
  <2>1. ASSUME NEW q \in Page, NEW k \in 1 .. Len(log'), OnPage(log', k, q)
        PROVE  k <= buf'[q].lsn
    <3>1. CASE q = p
      <4>1. buf'[q].lsn = Len(log')
        BY <1>4, <1>5, <3>1
      <4> QED BY <1>4, <4>1
    <3>2. CASE q # p
      <4>1. k # Len(log) + 1
        BY <1>4, <1>f, <2>1, <3>2 DEF OnPage
      <4>2. k \in 1 .. Len(log) /\ log'[k] = log[k]
        BY <1>4, <1>m, <4>1 DEF Agree
      <4>3. k <= buf[q].lsn
        BY <1>0, <1>1, <1>13, <2>1, <4>2 DEF UpToDate, OnPage
      <4> QED BY <1>5, <3>2, <4>3
    <3> QED BY <3>1, <3>2
  <2> QED BY <2>1 DEF UpToDate
<1>16. CheckpointsSound'
  <2>1. durable' \in Nat /\ durable <= durable' /\ \A q \in Page : disk'[q].lsn \in Nat /\ disk[q].lsn <= disk'[q].lsn
    <3>1. durable \in Nat /\ durable' = durable /\ disk' = disk
      BY <1>0, <1>1, TypedLog
    <3>2. \A q \in Page : disk[q].lsn \in Nat
      BY <1>y
    <3> QED BY <3>1, <3>2
  <2>2. r.type # "END_CHECKPOINT"
    BY <1>f
  <2> QED BY <1>0, <1>1, <1>2, <1>a, <1>12, <2>1, <2>2, StillCheckpoints
<1>17. UndoSound'
  <2>o. /\ \A x \in todo \ {item} : /\ x.txn # t
             /\ \E c \in 1 .. Len(log') :
                    /\ Runs(log', x.txn, c, Len(log'))
                    /\ IsLast(log', x.txn, Len(log'), rtab'[x.txn].last)
                    /\ x.lsn \in {rtab'[x.txn].last, Resume(log', rtab'[x.txn].last)}
        /\ \A u \in Txn, c \in 1 .. Len(log') :
             u # t /\ Runs(log', u, c, Len(log')) => \E x \in todo \ {item} : x.txn = u
    BY <1>0, <1>1, <1>2, <1>5, <1>a, <1>f, <1>t, OtherItems
  <2>n. PICK new : new = [lsn |-> log[m].prev, txn |-> t]
    OBVIOUS
  <2>1. new.txn = t /\ new.lsn = log[m].prev /\ todo' = (todo \ {item}) \cup {new}
    BY <1>3, <2>n
  <2>2. ASSUME NEW x \in todo'
        PROVE  \E c \in 1 .. Len(log') :
                /\ Runs(log', x.txn, c, Len(log')) /\ IsLast(log', x.txn, Len(log'), rtab'[x.txn].last)
                /\ x.lsn \in {rtab'[x.txn].last, Resume(log', rtab'[x.txn].last)}
    <3>1. CASE x = new
      <4>1. Runs(log', t, b, Len(log')) /\ IsLast(log', t, Len(log'), Len(log) + 1)
        BY <1>0, <1>2, <1>a, <1>b, <1>f, AppendOwn
      <4>2. b \in 1 .. Len(log') /\ Resume(log', Len(log) + 1) = log[m].prev
        BY <1>4, <1>f, <1>m DEF Resume
      <4> QED BY <1>5, <2>1, <3>1, <4>1, <4>2
    <3>2. CASE x \in todo \ {item}
      BY <2>o, <3>2
    <3> QED BY <2>1, <3>1, <3>2
  <2>3. ASSUME NEW x \in todo', NEW y \in todo', x.txn = y.txn PROVE x = y
    <3>1. CASE x.txn = t
      BY <2>1, <2>3, <2>o, <3>1
    <3>2. CASE x.txn # t
      <4>1. x \in todo /\ y \in todo
        BY <2>1, <2>3, <3>2
      <4> QED BY <1>0, <1>1, <2>3, <4>1 DEF UndoSound
    <3> QED BY <3>1, <3>2
  <2>4. ASSUME NEW u \in Txn, NEW c \in 1 .. Len(log'), Runs(log', u, c, Len(log'))
        PROVE  \E x \in todo' : x.txn = u
    <3>1. CASE u = t
      BY <2>1, <3>1
    <3>2. CASE u # t
      BY <2>1, <2>4, <2>o, <3>2
    <3> QED BY <3>1, <3>2
  <2> QED BY <1>1, <2>2, <2>3, <2>4 DEF UndoSound
<1>18. Sequential'
  BY <1>0, <1>1 DEF Sequential
<1>19. ThreadsSound' /\ PagesLocked' /\ DirtyPagesCovered' /\ AnalysisSound' /\ RedoSound'
  BY <1>1 DEF ThreadsSound, PagesLocked, DirtyPagesCovered, AnalysisSound, RedoSound
<1> QED BY <1>7, <1>9, <1>11, <1>14, <1>15, <1>16, <1>17, <1>18, <1>19 DEF RecoveryInv

LEMMA FinishAbortingTxnKeepsInv ==
    ASSUME RecoveryInv, NEW item \in todo, FinishAbortingTxn(item)
    PROVE  RecoveryInv'
<1>0. /\ TypeOK /\ Sequential /\ LogSound /\ DiskSound /\ PoolSound /\ UpToDate /\ DirtyPagesCovered
      /\ CheckpointsSound /\ UndoSound
  BY DEF RecoveryInv
<1>1. /\ phase = "undo" /\ phase' = phase /\ Top(item) /\ log[item.lsn].type = "BEGIN"
      /\ UNCHANGED <<master, disk, buf, dpt, ckpt, rdpt, cursor, counts>>
      /\ UNCHANGED <<state, last, active, pc, at, owner>>
      /\ todo' = todo \ {item}
      /\ UNCHANGED <<durable, persistent>> \/ (durable' = Len(log) + 1 /\ persistent' = Len(log) + 1)
  BY DEF FinishAbortingTxn, txnVars, pageVars, EndLSN
<1>t. PICK t \in Txn, m \in Nat : t = item.txn /\ m = item.lsn
  BY <1>0, <1>1, TopResume
<1>b. PICK b \in 1 .. Len(log) :
            /\ Runs(log, t, b, Len(log)) /\ IsLast(log, t, Len(log), rtab[t].last)
            /\ m = Resume(log, rtab[t].last) /\ m \in b .. Len(log)
            /\ log[m].type = "BEGIN" <=> m = b
  BY <1>0, <1>1, <1>t, TopResume
<1>j. PICK j \in 1 .. Len(log) : j = rtab[t].last
  BY <1>b DEF IsLast
<1>m. m = b /\ Len(log) \in Nat
  BY <1>0, <1>1, <1>b, <1>t, TypedLog
<1>y. /\ rtab \in [Txn -> [state : {"ACTIVE", "COMMITTED", "ABORTED"}, last : Nat]]
      /\ todo \in SUBSET [lsn : Nat, txn : Txn] /\ disk \in [Page -> [val : Nat, lsn : Nat]]
  BY <1>0, TypedTables
<1>r. PICK r : r = TxnRecord("ABORT", t, m)
  OBVIOUS
<1>f. r.txn = t /\ r.type = "ABORT" /\ ~IsPageUpdateRecord(r)
  BY <1>r DEF TxnRecord, IsPageUpdateRecord
<1>2. r \in LogRecord
  BY <1>r DEF LogRecord, TxnRecord
<1>a. log' = Append(log, r)
  BY <1>r, <1>t DEF FinishAbortingTxn, AppendRecord
<1>3. rtab' = [rtab EXCEPT ![t] = [state |-> "ABORTED", last |-> Len(log) + 1]]
  BY <1>t DEF FinishAbortingTxn, EndLSN
<1>4. /\ Len(log') = Len(log) + 1 /\ Agree(log, log', Len(log)) /\ log'[Len(log) + 1] = r
      /\ log' \in Seq(LogRecord) /\ Len(log) + 1 \in Nat
  <2>1. log \in Seq(LogRecord)
    BY <1>0, TypedLog
  <2>2. /\ Len(log') = Len(log) + 1 /\ Agree(log, log', Len(log)) /\ log'[Len(log) + 1] = r
        /\ log' \in Seq(LogRecord)
    BY <1>2, <1>a, <2>1, Appended
  <2> QED BY <1>m, <2>2
<1>5. /\ durable' \in 0 .. Len(log') /\ persistent' \in 0 .. durable' + 1
      /\ durable' \in Nat /\ durable <= durable'
  BY <1>0, <1>1, <1>4, <1>m, TypedLog
<1>6. TypeOK'
  <2>1. rtab' \in [Txn -> Entry]
    BY <1>3, <1>4, <1>y DEF Entry
  <2>2. todo' \in SUBSET [lsn : Nat, txn : Txn] /\ phase' \in {"running", "analysis", "redo", "undo"}
    BY <1>1, <1>y
  <2> QED BY <1>0, <1>1, <1>4, <1>5, <2>1, <2>2 DEF TypeOK
<1>7. RecordSound(log', Len(log) + 1)
  <2>1. /\ Runs(log', t, b, Len(log)) /\ IsLast(log', t, Len(log), j) /\ Resume(log', j) = b
    <3>1. Runs(log, t, b, Len(log)) /\ IsLast(log, t, Len(log), j) /\ Resume(log, j) = b
      BY <1>b, <1>j, <1>m
    <3> QED BY <1>4, <1>m, <3>1, SameRuns, SameLast
  <2>2. (Len(log) + 1) - 1 = Len(log)
    BY <1>m
  <2>3. AbortSound(log', Len(log) + 1)
    BY <1>4, <1>b, <1>f, <2>1, <2>2 DEF AbortSound
  <2> QED BY <1>4, <1>f, <2>3 DEF RecordSound
<1>8. LogSound'
  BY <1>0, <1>2, <1>a, <1>7, LogSoundAppend
<1>9. Foreseen(r)
  BY <1>0, <1>1, <1>f, UndoForeseen
<1>10. DiskSound'
  BY <1>0, <1>1, <1>2, <1>a, <1>9, DiskAppend
<1>11. NoneChanging /\ NoneChanging' /\ ckpt.pc = "idle"
  <2>1. NoneChanging /\ ckpt.pc = "idle"
    BY <1>1, RecoveryIsAlone
  <2> QED BY <1>1, <2>1 DEF NoneChanging
<1>12. PoolSound' /\ UpToDate' /\ DirtyPagesCovered'
  BY <1>0, <1>1, <1>2, <1>a, <1>9, <1>11, <1>f, StillPages
<1>13. CheckpointsSound'
  <2>1. \A q \in Page : disk'[q].lsn \in Nat /\ disk[q].lsn <= disk'[q].lsn
    BY <1>1, <1>y
  <2>2. r.type # "END_CHECKPOINT"
    BY <1>f
  <2> QED BY <1>0, <1>1, <1>2, <1>a, <1>5, <1>11, <2>1, <2>2, StillCheckpoints
<1>14. UndoSound'
  <2>0. \A u \in Txn : u # t => rtab'[u] = rtab[u]
    BY <1>3, <1>y
  <2>o. /\ \A x \in todo \ {item} : /\ x.txn # t
             /\ \E c \in 1 .. Len(log') :
                    /\ Runs(log', x.txn, c, Len(log'))
                    /\ IsLast(log', x.txn, Len(log'), rtab'[x.txn].last)
                    /\ x.lsn \in {rtab'[x.txn].last, Resume(log', rtab'[x.txn].last)}
        /\ \A u \in Txn, c \in 1 .. Len(log') :
             u # t /\ Runs(log', u, c, Len(log')) => \E x \in todo \ {item} : x.txn = u
    BY <1>0, <1>1, <1>2, <1>a, <1>f, <1>t, <2>0, OtherItems
  <2>1. \A c : ~Runs(log', t, c, Len(log'))
    BY <1>0, <1>2, <1>a, <1>f, AppendOwn
  <2>2. \A x, y \in todo' : x.txn = y.txn => x = y
    BY <1>0, <1>1 DEF UndoSound
  <2> QED BY <1>1, <2>o, <2>1, <2>2 DEF UndoSound
<1>15. Sequential'
  BY <1>0, <1>1 DEF Sequential
<1>16. ThreadsSound' /\ PagesLocked' /\ AnalysisSound' /\ RedoSound'
  BY <1>1 DEF ThreadsSound, PagesLocked, AnalysisSound, RedoSound
<1> QED BY <1>6, <1>8, <1>10, <1>12, <1>13, <1>14, <1>15, <1>16 DEF RecoveryInv

-----------------------------------------------------------------------------
(* Crashes, and the initial state.                                         *)

LEMMA CrashKeepsInv ==
    ASSUME OneAtATime, RecoveryInv, NEW kind \in CrashKinds, NEW n \in 0 .. Len(log), Crash(kind, n)
    PROVE  RecoveryInv'
<1>0. TypeOK /\ LogSound /\ DiskSound /\ CheckpointsSound
  BY DEF RecoveryInv
<1>1. kind = "power"
  BY DEF OneAtATime
<1>2. /\ n \in durable .. Len(log) /\ log' = SubSeq(log, 1, n) /\ durable' = n /\ persistent' = n + 1
      /\ master' = CheckedMaster(n) /\ disk' = disk /\ buf' = disk /\ dpt' = NoLSN
      /\ rtab' = ForAllTxns(NoEntry) /\ rdpt' = NoLSN /\ todo' = {} /\ phase' = "analysis"
      /\ cursor' = IF CheckedMaster(n) = 0 THEN 0 ELSE CheckedMaster(n) - 1
      /\ counts' = [counts EXCEPT !.crashes = @ + 1]
  BY <1>1 DEF Crash, Survives
<1>3. /\ state' = [t \in Txn |-> "UNBORN"] /\ last' = [t \in Txn |-> 0] /\ active' = {}
      /\ pc' = [t \in Txn |-> "unborn"]
      /\ at' = [t \in Txn |-> [page |-> "none", before |-> 0, undo |-> 0]]
      /\ owner' = [p \in Page |-> NoTxn]
      /\ ckpt' = [pc |-> "idle", begin |-> 0, end |-> 0, txns |-> {}, pages |-> {}]
  BY DEF Crash, ForAllTxns, NoPlace, NoCheckpoint
<1>l. /\ log \in Seq(LogRecord) /\ Len(log) \in Nat /\ durable \in Nat /\ n \in Nat /\ durable <= n
      /\ master \in Nat /\ disk \in [Page -> [val : Nat, lsn : Nat]]
  <2>1. log \in Seq(LogRecord) /\ Len(log) \in Nat /\ durable \in Nat
    BY <1>0, TypedLog
  <2> QED BY <1>0, <1>2, <2>1, TypedTables
<1>4. log' \in Seq(LogRecord) /\ Len(log') = n /\ Agree(log, log', n)
  BY <1>2, <1>l, Truncated
<1>5. /\ master' = master
      /\ master # 0 =>
            /\ master < n /\ log[master].type = "BEGIN_CHECKPOINT"
            /\ log[master + 1].type = "END_CHECKPOINT"
  <2>1. master # 0 =>
            /\ master < durable /\ log[master].type = "BEGIN_CHECKPOINT"
            /\ log[master + 1].type = "END_CHECKPOINT"
    BY <1>0 DEF CheckpointsSound
  <2> QED BY <1>2, <1>l, <2>1 DEF CheckedMaster
<1>6. cursor' \in Nat /\ (master = 0 => cursor' = 0) /\ (master # 0 => cursor' = master - 1)
  BY <1>2, <1>5, <1>l
<1>7. TypeOK'
  <2>1. counts' \in [begins : Nat, writes : Nat, crashes : Nat, checkpoints : Nat]
    <3>1. counts \in [begins : Nat, writes : Nat, crashes : Nat, checkpoints : Nat]
      BY <1>0 DEF TypeOK
    <3> QED BY <1>2, <3>1
  <2>2. durable' \in 0 .. Len(log') /\ persistent' \in 0 .. durable' + 1 /\ master' \in Nat
    BY <1>2, <1>4, <1>5, <1>l
  <2>3. /\ state' \in [Txn -> {"UNBORN", "ACTIVE", "ABORTING", "COMMITTED", "ABORTED"}]
        /\ last' \in [Txn -> Nat] /\ active' \in SUBSET Txn
        /\ pc' \in [Txn -> Quiet \cup Running \cup {"committing", "aborting", "ending"}]
        /\ at' \in [Txn -> [page : Page \cup {"none"}, before : Nat, undo : Nat]]
        /\ owner' \in [Page -> Txn \cup {NoTxn}]
    BY <1>3 DEF Quiet
  <2>4. ckpt' \in [pc : {"idle", "begun", "txns", "pages", "ended"}, begin : Nat, end : Nat,
                   txns : SUBSET SavedTxn, pages : SUBSET SavedPage]
    BY <1>3
  <2>5. rtab' \in [Txn -> Entry] /\ rdpt' \in [Page -> Nat] /\ dpt' \in [Page -> Nat]
        /\ todo' \in SUBSET [lsn : Nat, txn : Txn] /\ phase' \in {"running", "analysis", "redo", "undo"}
    BY <1>2 DEF ForAllTxns, NoEntry, Entry, NoLSN
  <2>6. buf' \in [Page -> [val : Nat, lsn : Nat]] /\ disk' \in [Page -> [val : Nat, lsn : Nat]]
    BY <1>2, <1>l
  <2> QED BY <1>4, <1>6, <2>1, <2>2, <2>3, <2>4, <2>5, <2>6 DEF TypeOK
<1>8. LogSound'
  BY <1>0, <1>2, LogSoundTruncate
<1>9. ASSUME NEW p \in Page
      PROVE  /\ Logged(p, disk[p].lsn, disk[p].val)'
             /\ disk[p].lsn <= n + 1
             /\ disk[p].lsn = n + 1 => CompensatesFirst(log', n, p, disk[p].val)
  <2>k. PICK k \in Nat, v \in Nat : k = disk[p].lsn /\ v = disk[p].val
    BY <1>l
  <2>1. Logged(p, k, v) /\ k <= durable + 1
        /\ (k = durable + 1 => persistent = durable + 1 /\ CompensatesFirst(log, durable, p, v))
    BY <1>0, <2>k DEF DiskSound
  <2>2. k <= n + 1
    BY <1>l, <2>1
  <2>3. k = n + 1 => CompensatesFirst(log', n, p, v)
    <3> SUFFICES ASSUME k = n + 1 PROVE CompensatesFirst(log', n, p, v)
      OBVIOUS
    <3>1. n = durable
      BY <1>l, <2>1
    <3> QED BY <1>4, <1>l, <2>1, <3>1, SameCompensatesFirst
  <2>4. Logged(p, k, v)'
    <3>1. CASE k = n + 1
      BY <1>2, <1>4, <2>3, <3>1 DEF Logged
    <3>2. CASE k <= n
      <4>1. k # Len(log) + 1
        BY <1>2, <1>l, <3>2
      <4>2. CASE k = 0 /\ v = 0
        BY <4>2 DEF Logged
      <4>3. CASE k \in 1 .. Len(log) /\ OnPage(log, k, p) /\ log[k].after = v
        <5>1. k \in 1..n /\ log'[k] = log[k]
          BY <1>4, <1>l, <3>2, <4>3 DEF Agree
        <5>2. k \in 1 .. Len(log') /\ OnPage(log', k, p) /\ log'[k].after = v
          BY <1>4, <4>3, <5>1 DEF OnPage
        <5> QED BY <5>2 DEF Logged
      <4> QED BY <2>1, <4>1, <4>2, <4>3 DEF Logged
    <3> QED BY <1>l, <2>2, <3>1, <3>2
  <2>5. Logged(p, disk[p].lsn, disk[p].val)'
    BY <1>2, <2>4, <2>k DEF Logged
  <2> QED BY <2>2, <2>3, <2>5, <2>k
<1>10. DiskSound'
  <2>1. ~(Len(log') > durable')
    BY <1>2, <1>4, <1>l
  <2> QED BY <1>2, <1>9, <2>1 DEF DiskSound
<1>11. PoolSound'
  <2>1. ASSUME NEW p \in Page
        PROVE  /\ Logged(p, buf[p].lsn, Settled(p))' /\ disk'[p].lsn <= buf'[p].lsn /\ disk'[p] = buf'[p]
    <3>1. Settled(p)' = disk[p].val
      BY <1>2, <1>3 DEF Settled
    <3>2. Logged(p, buf[p].lsn, Settled(p))'
      BY <1>2, <1>9, <3>1 DEF Logged
    <3> QED BY <1>2, <1>l, <3>2
  <2> QED BY <2>1 DEF PoolSound
<1>12. CheckpointsSound'
  <2>1. ASSUME NEW i \in 1..n, log'[i].type = "END_CHECKPOINT" PROVE PagesSaved(i, log[i].pages)'
    <3>1. i \in 1 .. Len(log) /\ log'[i] = log[i] /\ \A k \in 1..i : log'[k] = log[k]
      BY <1>4, <1>l DEF Agree
    <3>2. PagesSaved(i, log[i].pages)
      BY <1>0, <2>1, <3>1 DEF CheckpointsSound
    <3> QED BY <1>2, <3>1, <3>2 DEF PagesSaved, OnPage
  <2>2. ASSUME master # 0
        PROVE  /\ master < n
               /\ log'[master].type = "BEGIN_CHECKPOINT" /\ log'[master + 1].type = "END_CHECKPOINT"
    <3>1. master \in 1..n /\ master + 1 \in 1..n
      BY <1>5, <1>l, <2>2
    <3> QED BY <1>4, <1>5, <2>2, <3>1 DEF Agree
  <2>3. ckpt'.pc = "idle"
    BY <1>3
  <2> QED BY <1>2, <1>4, <1>5, <2>1, <2>2, <2>3 DEF CheckpointsSound
<1>13. AnalysisSound'
  <2>1. cursor' <= n
    BY <1>5, <1>6, <1>l
  <2>2. CASE master = 0
    <3>1. TxnTable(0)'
      BY <1>2 DEF TxnTable, ForAllTxns, NoEntry
    <3>2. PageTable(0)'
      BY DEF PageTable
    <3> QED BY <1>2, <1>4, <1>5, <1>6, <2>1, <2>2, <3>1, <3>2 DEF AnalysisSound
  <2>3. CASE master # 0
    <3>1. ~(cursor' > master) /\ cursor' >= master - 1
      BY <1>6, <1>l, <2>3
    <3> QED BY <1>2, <1>4, <1>5, <2>1, <2>3, <3>1 DEF AnalysisSound
  <2> QED BY <2>2, <2>3
<1>14. Sequential'
  <2>1. \A t \in Txn : pc'[t] = "unborn" /\ state'[t] = "UNBORN"
    BY <1>3
  <2>2. active' = {} /\ ckpt'.pc = "idle"
    BY <1>3
  <2> QED BY <2>1, <2>2 DEF Sequential, Quiet
<1>15. ThreadsSound' /\ PagesLocked' /\ UpToDate' /\ DirtyPagesCovered' /\ RedoSound' /\ UndoSound'
  BY <1>2 DEF ThreadsSound, PagesLocked, UpToDate, DirtyPagesCovered, RedoSound, UndoSound
<1> QED BY <1>7, <1>8, <1>10, <1>11, <1>12, <1>13, <1>14, <1>15 DEF RecoveryInv

LEMMA InitInv ==
    ASSUME Init
    PROVE  RecoveryInv
<1>1. /\ log = <<>> /\ Len(log) = 0 /\ durable = 0 /\ persistent = 1 /\ master = 0
      /\ disk = [p \in Page |-> [val |-> 0, lsn |-> 0]] /\ buf = disk /\ dpt = [p \in Page |-> 0]
      /\ phase = "running" /\ todo = {} /\ cursor = 0
      /\ rtab = [t \in Txn |-> [state |-> "ACTIVE", last |-> 0]] /\ rdpt = [p \in Page |-> 0]
      /\ counts = [begins |-> 0, writes |-> 0, crashes |-> 0, checkpoints |-> 0]
  BY DEF Init, NoLSN, ForAllTxns, NoEntry
<1>2. /\ state = [t \in Txn |-> "UNBORN"] /\ last = [t \in Txn |-> 0] /\ active = {}
      /\ pc = [t \in Txn |-> "unborn"]
      /\ at = [t \in Txn |-> [page |-> "none", before |-> 0, undo |-> 0]]
      /\ owner = [p \in Page |-> NoTxn]
      /\ ckpt = [pc |-> "idle", begin |-> 0, end |-> 0, txns |-> {}, pages |-> {}]
  BY DEF Init, ForAllTxns, NoPlace, NoCheckpoint
<1>3. TypeOK
  <2>1. log \in Seq(LogRecord) /\ durable \in 0 .. Len(log) /\ persistent \in 0 .. durable + 1 /\ master \in Nat
    BY <1>1
  <2>2. /\ state \in [Txn -> {"UNBORN", "ACTIVE", "ABORTING", "COMMITTED", "ABORTED"}]
        /\ last \in [Txn -> Nat] /\ active \in SUBSET Txn
        /\ pc \in [Txn -> Quiet \cup Running \cup {"committing", "aborting", "ending"}]
        /\ at \in [Txn -> [page : Page \cup {"none"}, before : Nat, undo : Nat]]
        /\ owner \in [Page -> Txn \cup {NoTxn}]
    BY <1>2 DEF Quiet
  <2>3. ckpt \in [pc : {"idle", "begun", "txns", "pages", "ended"}, begin : Nat, end : Nat,
                  txns : SUBSET SavedTxn, pages : SUBSET SavedPage]
    BY <1>2
  <2>4. rtab \in [Txn -> Entry] /\ rdpt \in [Page -> Nat] /\ dpt \in [Page -> Nat] /\ cursor \in Nat
        /\ todo \in SUBSET [lsn : Nat, txn : Txn] /\ phase \in {"running", "analysis", "redo", "undo"}
    BY <1>1 DEF Entry
  <2>5. disk \in [Page -> [val : Nat, lsn : Nat]] /\ buf \in [Page -> [val : Nat, lsn : Nat]]
    BY <1>1
  <2>6. counts \in [begins : Nat, writes : Nat, crashes : Nat, checkpoints : Nat]
    BY <1>1
  <2> QED BY <2>1, <2>2, <2>3, <2>4, <2>5, <2>6 DEF TypeOK
<1>4. LogSound
  <2>1. \A L : Exclusive(L, 0)
    BY DEF Exclusive
  <2>2. \A L, p, v : CommittedTo(L, p, 0, v) => Holds(L, p, 0, v)
    BY DEF CommittedTo, Holds
  <2>3. \A L : Restorable(L, 0)
    BY <2>2 DEF Restorable
  <2>4. PrefixSound(log, 0)
    BY <2>1, <2>3 DEF PrefixSound
  <2> QED BY <1>1, <2>4 DEF LogSound, Sound
<1>5. \A b, t : ~Runs(log, t, b, Len(log))
  BY <1>1 DEF Runs
<1>6. ThreadsSound
  <2>1. ASSUME NEW t \in Txn PROVE ThreadSound(t)
    <3>1. pc[t] = "unborn" /\ state[t] = "UNBORN" /\ t \notin active
      BY <1>2
    <3> QED BY <1>5, <3>1 DEF ThreadSound, Running
  <2> QED BY <2>1 DEF ThreadsSound
<1>7. \A p \in Page : disk[p].lsn = 0 /\ disk[p].val = 0
  BY <1>1
<1>8. DiskSound
  BY <1>1, <1>7 DEF DiskSound, Logged
<1>9. PoolSound
  <2>1. \A p : Settled(p) = buf[p].val
    BY <1>2 DEF Settled
  <2> QED BY <1>1, <1>7, <2>1 DEF PoolSound, Logged
<1>10. UpToDate /\ DirtyPagesCovered
  BY <1>1 DEF UpToDate, DirtyPagesCovered
<1>11. CheckpointsSound
  <2>1. ckpt.pc = "idle"
    BY <1>2
  <2> QED BY <1>1, <2>1 DEF CheckpointsSound
<1>12. Sequential
  <2>1. \A t \in Txn : pc[t] = "unborn"
    BY <1>2
  <2>2. ckpt.pc = "idle"
    BY <1>2
  <2> QED BY <1>1, <2>1, <2>2 DEF Sequential, Quiet
<1>13. PagesLocked
  BY <1>5 DEF PagesLocked
<1>14. AnalysisSound /\ RedoSound /\ UndoSound
  BY <1>1 DEF AnalysisSound, RedoSound, UndoSound
<1> QED BY <1>3, <1>4, <1>6, <1>8, <1>9, <1>10, <1>11, <1>12, <1>13, <1>14 DEF RecoveryInv

-----------------------------------------------------------------------------
(* The theorems.                                                           *)

LEMMA StutterKeepsInv ==
    ASSUME RecoveryInv, UNCHANGED vars
    PROVE  RecoveryInv'
<1>1. /\ UNCHANGED <<log, durable, persistent, master, disk, buf, dpt, ckpt, phase, counts>>
      /\ UNCHANGED <<state, last, active, pc, at, owner, rtab, rdpt, cursor, todo>>
  BY DEF vars, logVars, pageVars, txnVars, recoveryVars
<1>2. TypeOK' /\ Sequential' /\ LogSound'
  BY <1>1 DEF RecoveryInv, TypeOK, Sequential, LogSound
<1>3. ThreadsSound' /\ PagesLocked'
  BY <1>1 DEF RecoveryInv, ThreadsSound, ThreadSound, PagesLocked
<1>4. DiskSound'
  BY <1>1 DEF RecoveryInv, DiskSound, Logged
<1>5. PoolSound'
  <2>1. PoolSound
    BY DEF RecoveryInv
  <2>2. \A p \in Page : Settled(p)' = Settled(p)
    BY <1>1 DEF Settled
  <2>3. \A p \in Page : Pinned(p)' <=> Pinned(p)
    BY <1>1 DEF Pinned
  <2>4. \A p \in Page : Logged(p, buf[p].lsn, Settled(p))'
    BY <1>1, <2>1, <2>2 DEF PoolSound, Logged
  <2>5. \A p \in Page : /\ disk'[p].lsn <= buf'[p].lsn
                        /\ dpt'[p] = 0 /\ ~Pinned(p)' => disk'[p] = buf'[p]
    BY <1>1, <2>1, <2>3 DEF PoolSound
  <2> QED BY <2>4, <2>5 DEF PoolSound
<1>6. UpToDate' /\ DirtyPagesCovered'
  BY <1>1 DEF RecoveryInv, UpToDate, DirtyPagesCovered, InFlight
<1>7. CheckpointsSound'
  BY <1>1 DEF RecoveryInv, CheckpointsSound, PagesSaved
<1>8. AnalysisSound' /\ RedoSound' /\ UndoSound'
  BY <1>1 DEF RecoveryInv, AnalysisSound, RedoSound, UndoSound, TxnTable, PageTable
<1> QED BY <1>2, <1>3, <1>4, <1>5, <1>6, <1>7, <1>8 DEF RecoveryInv

LEMMA NextKeepsInv ==
    ASSUME OneAtATime, RecoveryInv, Next
    PROVE  RecoveryInv'
<1>1. ASSUME NEW t \in Txn, ClientCall(t) PROVE RecoveryInv'
  <2>1. ASSUME NEW p \in Page, ModifyPage(t, p) PROVE RecoveryInv'
    BY <2>1, ModifyPageKeepsInv
  <2> QED BY <1>1, <2>1, BeginKeepsInv, CommitKeepsInv, AbortKeepsInv DEF ClientCall
<1>2. ASSUME NEW t \in Txn, OperationStep(t) PROVE RecoveryInv'
  BY <1>2, EnterActiveTxnsKeepsInv, LogUpdateKeepsInv, UnpinPageKeepsInv, RollbackRecordKeepsInv,
     ApplyRollbackKeepsInv, RollbackDoneKeepsInv, LogAbortKeepsInv, FlushEndKeepsInv,
     EndTransactionKeepsInv DEF OperationStep
<1>3. ASSUME CheckpointStep PROVE RecoveryInv'
  BY <1>3, BeginCheckpointKeepsInv, GetTransactionTableSnapshotKeepsInv,
     GetDirtyPageTableSnapshotKeepsInv, EndCheckpointKeepsInv, SetMasterCheckpointLSNKeepsInv
     DEF CheckpointStep
<1>4. ASSUME NEW p \in Page, Evict(p) PROVE RecoveryInv'
  BY <1>4, EvictKeepsInv
<1>5. ASSUME RecoveryStep PROVE RecoveryInv'
  <2>1. ASSUME NEW lsn \in DOMAIN log, RedoRecord(lsn) PROVE RecoveryInv'
    BY <2>1, RedoRecordKeepsInv
  <2>2. ASSUME NEW item \in todo, UndoRecord(item) \/ UndoSkip(item) \/ FinishAbortingTxn(item)
        PROVE  RecoveryInv'
    BY <2>2, UndoRecordKeepsInv, UndoSkipKeepsInv, FinishAbortingTxnKeepsInv
  <2> QED BY <1>5, <2>1, <2>2, AnalyzeRecordKeepsInv, AnalysisDoneKeepsInv, RedoDoneKeepsInv,
             UndoDoneKeepsInv DEF RecoveryStep
<1>6. ASSUME NEW kind \in CrashKinds, NEW n \in 0 .. Len(log), Crash(kind, n) PROVE RecoveryInv'
  BY <1>6, CrashKeepsInv
<1> QED BY <1>1, <1>2, <1>3, <1>4, <1>5, <1>6 DEF Next

(* Every reachable state satisfies RecoveryInv: the log justifies itself,  *)
(* and the pages, the tables of the program and those of recovery agree    *)
(* with it, through every crash and every interrupted recovery.            *)
THEOREM RecoveryInvariant ==
    ASSUME OneAtATime
    PROVE  Spec => []RecoveryInv
<1>1. Init => RecoveryInv
  BY InitInv
<1>2. RecoveryInv /\ [Next]_vars => RecoveryInv'
  BY NextKeepsInv, StutterKeepsInv
<1> QED BY <1>1, <1>2, PTL DEF Spec

(* A page whose lock is free has no change under way.                      *)
LEMMA UnlockedPageHolds ==
    ASSUME RecoveryInv, phase = "running", NEW p \in Page, owner[p] = NoTxn
    PROVE  Holds(log, p, Len(log), buf[p].val)
<1>0. TypeOK /\ ThreadsSound /\ PagesLocked /\ PoolSound /\ UpToDate
  BY DEF RecoveryInv
<1>n. Len(log) \in Nat /\ NoTxn \notin Txn
  BY <1>0, TypedLog, WalTxnAssumption DEF NoTxn
<1>1. Settled(p) = buf[p].val
  <2>1. ASSUME NEW t \in Txn, pc[t] = "modified", at[t].page = p PROVE FALSE
    <3>1. owner[at[t].page] = t
      BY <1>0, <2>1 DEF ThreadsSound, ThreadSound
    <3> QED BY <1>n, <2>1, <3>1
  <2> QED BY <2>1 DEF Settled
<1>2. Logged(p, buf[p].lsn, buf[p].val)
  BY <1>0, <1>1 DEF PoolSound
<1>3. ASSUME NEW k \in 1 .. Len(log), OnPage(log, k, p) PROVE k <= buf[p].lsn
  <2> SUFFICES ASSUME NEW u \in Txn, pc[u] = "applying", last[u] = k PROVE FALSE
    BY <1>0, <1>3 DEF UpToDate, InFlight
  <2>1. ThreadSound(u)
    BY <1>0 DEF ThreadsSound
  <2>2. log[k].type = "CLR"
    BY <2>1 DEF ThreadSound
  <2>3. PICK b \in 1 .. Len(log) : Runs(log, u, b, Len(log)) /\ IsLast(log, u, Len(log), k)
    BY <2>1 DEF ThreadSound, Running
  <2>4. log[k].txn = u /\ k > b
    BY <1>n, <2>2, <2>3 DEF Runs, IsLast
  <2>5. owner[log[k].page] = u
    BY <1>0, <2>3, <2>4 DEF PagesLocked
  <2> QED BY <1>3, <1>n, <2>5 DEF OnPage
<1>k. PICK k \in Nat : k = buf[p].lsn
  BY <1>0, TypedTables
<1>4. CASE k = 0 /\ buf[p].val = 0
  BY <1>3, <1>4, <1>k, <1>n DEF Holds
<1>5. CASE k \in 1 .. Len(log) /\ OnPage(log, k, p) /\ log[k].after = buf[p].val
  <2>1. LastOn(log, p, Len(log), k)
    BY <1>3, <1>5, <1>k, <1>n DEF LastOn
  <2> QED BY <1>5, <2>1 DEF Holds
<1> QED BY <1>0, <1>2, <1>4, <1>5, <1>k, RunningIsLogged

LEMMA CommittedValueIs ==
    ASSUME TypeOK, NEW p \in Page
    PROVE  CommittedValue(p) \in Nat /\ CommittedTo(log, p, Len(log), CommittedValue(p))
<1> DEFINE W == {i \in DOMAIN log : log[i].type = "UPDATE" /\ log[i].page = p /\ Committed(i)}
<1>n. Len(log) \in Nat /\ DOMAIN log = 1 .. Len(log)
  BY TypedLog
<1>1. \A i : CommittedWrite(log, p, Len(log), i) <=> i \in W
  BY <1>n DEF CommittedWrite, CommittedAt, Committed
<1>2. CASE W = {}
  <2>1. CommittedValue(p) = 0
    BY <1>2 DEF CommittedValue
  <2> QED BY <1>1, <1>2, <2>1 DEF CommittedTo
<1>3. CASE W # {}
  <2>m. PICK m : m = Max(W)
    OBVIOUS
  <2>1. m \in W /\ \A i \in W : i <= m
    <3>1. W \subseteq 0 .. Len(log)
      BY <1>n
    <3>2. Max(W) \in W /\ \A i \in W : i <= Max(W)
      BY <1>3, <1>n, <3>1, MaxOfBounded
    <3> QED BY <2>m, <3>2
  <2>2. CommittedValue(p) = log[m].after
    BY <1>3, <2>m DEF CommittedValue
  <2>3. m \in 1 .. Len(log) /\ log[m] \in LogRecord /\ log[m].type = "UPDATE"
    BY <1>n, <2>1, TypedLog
  <2>4. log[m].after \in Nat
    BY <2>3, RecordFields DEF IsPageUpdateRecord
  <2>5. CommittedWrite(log, p, Len(log), m)
    BY <1>1, <2>1
  <2>6. \A x \in m + 1 .. Len(log) : ~CommittedWrite(log, p, Len(log), x)
    <3>1. ASSUME NEW x \in m + 1 .. Len(log), x \in W PROVE FALSE
      BY <1>n, <2>1, <2>3, <3>1
    <3> QED BY <1>1, <3>1
  <2> QED BY <2>2, <2>3, <2>4, <2>5, <2>6 DEF CommittedTo
<1> QED BY <1>2, <1>3

LEMMA InvRestores ==
    ASSUME RecoveryInv
    PROVE  CommittedStateRestored
<1> SUFFICES ASSUME phase = "running", NEW p \in Page, owner[p] = NoTxn
             PROVE  buf[p].val = CommittedValue(p)
  BY DEF CommittedStateRestored
<1>0. TypeOK /\ LogSound /\ PagesLocked
  BY DEF RecoveryInv
<1>n. Len(log) \in Nat /\ NoTxn \notin Txn
  BY <1>0, TypedLog, WalTxnAssumption DEF NoTxn
<1>v. PICK v \in Nat : v = CommittedValue(p)
  BY <1>0, CommittedValueIs
<1>1. CommittedTo(log, p, Len(log), v)
  BY <1>0, <1>v, CommittedValueIs
<1>2. Restorable(log, Len(log))
  <2>1. Len(log) \in 0 .. Len(log)
    BY <1>n
  <2> QED BY <1>0, <2>1 DEF LogSound, Sound, PrefixSound
<1>3. ASSUME NEW t \in Txn, NEW e \in 1 .. Len(log), Pending(log, Len(log), t, p, e) PROVE FALSE
  <2>1. PICK b \in 1 .. Len(log) : /\ Runs(log, t, b, Len(log)) /\ e > b
                                   /\ log[e].txn = t /\ log[e].page = p
    <3>1. PICK b \in 1 .. Len(log), j \in 1 .. Len(log) :
            /\ Runs(log, t, b, Len(log)) /\ e \in b + 1 .. Resume(log, j)
            /\ log[e].txn = t /\ log[e].page = p
      BY <1>3 DEF Pending
    <3>2. e > b
      BY <1>n, <3>1
    <3> QED BY <3>1, <3>2
  <2>2. owner[p] = t
    BY <1>0, <2>1 DEF PagesLocked
  <2> QED BY <1>n, <2>2
<1>4. Holds(log, p, Len(log), v)
  BY <1>1, <1>2, <1>3 DEF Restorable
<1>5. Holds(log, p, Len(log), buf[p].val)
  BY UnlockedPageHolds
<1> QED BY <1>4, <1>5, <1>n, <1>v, HoldsOne

(* While the database runs, a page that nobody has locked holds what the   *)
(* last committed transaction wrote to it, whatever power failures,        *)
(* interrupted recoveries and checkpoints came before.                     *)
THEOREM CommittedStateIsRestored ==
    ASSUME OneAtATime
    PROVE  Spec => []CommittedStateRestored
<1>1. RecoveryInv => CommittedStateRestored
  BY InvRestores
<1>2. Spec => []RecoveryInv
  BY RecoveryInvariant
<1> QED BY <1>1, <1>2, PTL

(* The redo pass brings every page up to the last record of the log before *)
(* the first record is undone.                                             *)
THEOREM RedoRepeatsHistory ==
    ASSUME OneAtATime
    PROVE  Spec => []HistoryRepeated
<1>1. RecoveryInv => HistoryRepeated
  <2> SUFFICES ASSUME RecoveryInv, phase = "undo", NEW i \in DOMAIN log, IsPageUpdateRecord(log[i])
               PROVE  buf[log[i].page].lsn >= i
    BY DEF HistoryRepeated
  <2>1. TypeOK /\ UpToDate
    BY DEF RecoveryInv
  <2>2. i \in 1 .. Len(log) /\ log[i] \in LogRecord /\ i \in Nat
    BY <2>1, TypedLog
  <2>p. PICK p \in Page : p = log[i].page
    BY <2>2, RecordFields
  <2>3. ~InFlight(i, {"applying"})
    BY RecoveryIsAlone, NoneChangingMeans
  <2>4. i <= buf[p].lsn
    BY <2>1, <2>2, <2>3, <2>p DEF UpToDate, OnPage
  <2>5. buf[p].lsn \in Nat
    BY <2>1, TypedTables
  <2> QED BY <2>2, <2>4, <2>5, <2>p
<1>2. Spec => []RecoveryInv
  BY RecoveryInvariant
<1> QED BY <1>1, <1>2, PTL

(* Write-ahead logging: an image on disk that has the LSN of a record of   *)
(* the log is the image this record describes.                             *)
THEOREM DiskFollowsLog ==
    ASSUME OneAtATime
    PROVE  Spec => []DiskImagesAreLogged
<1>1. RecoveryInv => DiskImagesAreLogged
  <2> SUFFICES ASSUME RecoveryInv, NEW p \in Page, disk[p].lsn \in DOMAIN log
               PROVE  /\ IsPageUpdateRecord(log[disk[p].lsn])
                      /\ log[disk[p].lsn].page = p /\ log[disk[p].lsn].after = disk[p].val
    BY DEF DiskImagesAreLogged
  <2>1. Len(log) \in Nat /\ DOMAIN log = 1 .. Len(log)
    BY TypedLog DEF RecoveryInv
  <2>2. Logged(p, disk[p].lsn, disk[p].val)
    BY DEF RecoveryInv, DiskSound
  <2> QED BY <2>1, <2>2 DEF Logged, OnPage
<1>2. Spec => []RecoveryInv
  BY RecoveryInvariant
<1> QED BY <1>1, <1>2, PTL

(* Commit returns success only when the COMMIT record is synced.           *)
THEOREM CommitIsDurable ==
    ASSUME OneAtATime
    PROVE  Spec => []AcknowledgedIsDurable
<1>1. RecoveryInv => AcknowledgedIsDurable
  <2> SUFFICES ASSUME RecoveryInv, NEW t \in Txn, state[t] = "COMMITTED" PROVE last[t] <= durable
    BY DEF AcknowledgedIsDurable
  <2>1. phase = "running"
    BY RecoveryIsAlone
  <2> QED BY <2>1 DEF RecoveryInv, ThreadsSound, ThreadSound
<1>2. Spec => []RecoveryInv
  BY RecoveryInvariant
<1> QED BY <1>1, <1>2, PTL
=============================================================================
