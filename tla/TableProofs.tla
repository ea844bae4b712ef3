---------------------------- MODULE TableProofs ----------------------------
(***************************************************************************)
(* Proofs about Table: an index never refers to a tuple that is not there, *)
(* the indexes agree with the heap between statements, and a statement     *)
(* takes effect as a whole or not at all, whatever steps throw.            *)
(*                                                                         *)
(* For these the offsets and lengths in a page play no part: compaction    *)
(* keeps the slots and their tuples, and V stands for whatever values it   *)
(* computes.  The last part is about these values: the records of a page   *)
(* keep apart, and its free space is never overstated.                     *)
(***************************************************************************)
EXTENDS Table, NaturalLemmas, FiniteSetTheorems, SequenceTheorems, TLAPS

-----------------------------------------------------------------------------
(* The inductive invariant.                                                *)

Slot(V) == [state : {"OCCUPIED", "DELETED"}, offset : V, length : V, tuple : Tuple]

Page(V) ==
    {page \in [initialized : BOOLEAN, slots : Seq(Slot(V)), upper : V] :
        page.initialized \/ page.slots = <<>>}

\* The pages in use.
Ready(V) == {page \in Page(V) : page.initialized = TRUE}

HeapOK(pages) == \E V : pages \in Seq(Page(V))

RidType == (Nat \ {0}) \X (Nat \ {0})
Row == [rid : RidType, tuple : Tuple]
Key == {Null} \cup {KeyOf(i, t) : i \in Index, t \in Tuple}
Entry == [key : Key, rid : RidType]

StepType ==
    {s \in [op : {"indexInsert", "indexDelete", "heapInsert", "heapDelete"},
            index : Index \cup {0}, entry : Entry] :
        s.op \in {"heapInsert", "heapDelete"} => s.index = 0}

AllEntries == [Index -> SUBSET Entry]

Forward == {"insert", "delete", "update", "move"}

CallType ==
    [op : Forward \cup {"none", "rollback"},
     todo : Seq(StepType), done : Seq(StepType), before : SUBSET Row]

CountsType == [statements : Nat, failures : Nat, aborts : Nat]

TypeOK ==
    /\ HeapOK(heap) /\ DOMAIN fsm = DOMAIN heap
    /\ attached \in SUBSET Index /\ torn \in SUBSET Index
    /\ entries \in AllEntries
    /\ call \in CallType
    /\ saved = [heap |-> saved.heap, entries |-> saved.entries, torn |-> saved.torn]
    /\ HeapOK(saved.heap) /\ Len(saved.heap) <= Len(heap)
    /\ saved.entries \in AllEntries /\ saved.torn \in SUBSET Index
    /\ counts \in CountsType

\* The entries that the steps Q insert in index i, or delete from it.
Picked(Q, op, i) == {s.entry : s \in {s \in Q : s.op = op /\ s.index = i}}

\* The tuples that the steps Q delete.
Doomed(Q) == {s.entry.rid : s \in {s \in Q : s.op = "heapDelete"}}

\* The rows R without the one at rid, and with one more, which has a rid of its own.
Others(R, rid) == {row \in R : row.rid # rid}
WithRow(R, row) == R \cup {row}
Fresh(R, new) == \A row \in R : row.rid # new.rid

UniqueRids(R) == \A x, y \in R : x.rid = y.rid => x = y

Survivors(R, Q) == {row \in R : row.rid \notin Doomed(Q)}

\* A step of a statement that found the rows B: it adds entries of new rows and
\* drops entries of old ones.  A step that takes one back.
ForwardStep(R, B, s) ==
    /\ s.op # "heapInsert"
    /\ s.op = "indexInsert" => s.index \in Index /\ s.entry \in EntriesIn(R \ B, s.index)
    /\ s.op = "indexDelete" => s.index \in Index /\ s.entry \in EntriesIn(B, s.index)

BackwardStep(R, B, s) ==
    /\ s.op # "heapInsert"
    /\ s.op = "indexDelete" => s.index \in Index /\ s.entry \in EntriesIn(R \ B, s.index)
    /\ s.op = "indexInsert" => s.index \in Index /\ s.entry \in EntriesIn(B, s.index)

\* With rows R and index entries E, taking the steps Q of a rollback leads back
\* to the rows B, and to their entries.
Undoing(R, E, A, B, Q) ==
    /\ B = Survivors(R, Q)
    /\ \A i \in A : EntriesIn(B, i) = (E[i] \ Picked(Q, "indexDelete", i)) \cup Picked(Q, "indexInsert", i)
    /\ \A s \in Q : BackwardStep(R, B, s)

\* Taking the steps Q of a statement makes indexes and rows agree.
Doing(R, E, A, B, Q) ==
    /\ \A i \in A : EntriesIn(Survivors(R, Q), i) =
                        (E[i] \cup Picked(Q, "indexInsert", i)) \ Picked(Q, "indexDelete", i)
    /\ \A s \in Q : ForwardStep(R, B, s)

\* A tuple is deleted by the last step only.
DeletesLast(q) == \A n \in 1 .. Len(q) : q[n].op = "heapDelete" => n = Len(q)

\* No tuple is deleted.
KeepsTuples(q) == \A n \in 1 .. Len(q) : q[n].op # "heapDelete"

StepsOf(q) == {q[n] : n \in 1 .. Len(q)}

KeysUnique(R, I) ==
    \A i \in I : \A x, y \in R : KeyOf(i, x.tuple) = KeyOf(i, y.tuple) => x = y

\* The statement may turn the rows B into F, with unique indexes I.
Allowed(B, F, I) ==
    /\ \/ \E new \in F : Fresh(B, new) /\ F = WithRow(B, new)
       \/ \E row \in B : F = Others(B, row.rid)
       \/ \E row \in B, new \in F :
              (new.rid = row.rid \/ Fresh(B, new)) /\ F = WithRow(Others(B, row.rid), new)
    /\ KeysUnique(F, I)

\* The entries E are those of the rows R, in the indexes A.
Match(R, E, A) == \A i \in A : E[i] = EntriesIn(R, i)

\* The indexes that no step has put out of step.
Sound == attached \ torn

Agree(R, E, S) == Match(R, E, S) /\ KeysUnique(R, S \cap UniqueIndex)

IdleSound == call.op = "none" => call = Idle /\ Agree(Rows, entries, Sound)

\* A statement that found the rows B is under way, with rows R, entries E, indexes S.
Going(R, E, S, B, todo, done) ==
    /\ todo # <<>> /\ DeletesLast(todo)
    /\ DeletesLast(UndoSteps(done)) /\ KeepsTuples(done)
    /\ Undoing(R, E, S, B, StepsOf(UndoSteps(done)))
    /\ Doing(R, E, S, B, StepsOf(todo))
    /\ Allowed(B, Survivors(R, StepsOf(todo)), S \cap UniqueIndex)
    /\ KeysUnique(B, S \cap UniqueIndex)

ForwardSound ==
    call.op \in Forward => Going(Rows, entries, Sound, call.before, call.todo, call.done)

\* A move has one step left, and its new tuple in the heap.
Moving(R, B, todo) ==
    /\ attached = {} /\ Len(todo) = 1
    /\ \E new \in R : Fresh(B, new) /\ R = WithRow(B, new)

MoveSound == call.op = "move" => Moving(Rows, call.before, call.todo)

\* A statement that is being taken back.
RollbackSound ==
    call.op = "rollback" =>
        /\ call.todo # <<>> /\ DeletesLast(call.todo)
        /\ Undoing(Rows, entries, Sound, call.before, StepsOf(call.todo))

BeforeSound == call.op # "none" => KeysUnique(call.before, Sound \cap UniqueIndex)

SavedSound == Agree(RowsOf(saved.heap), saved.entries, attached \ saved.torn)

TableInv ==
    /\ TypeOK
    /\ IdleSound
    /\ ForwardSound
    /\ MoveSound
    /\ RollbackSound
    /\ BeforeSound
    /\ SavedSound

-----------------------------------------------------------------------------
(* Pages and rows.                                                         *)

(* The rows of typed pages: one for each rid.                              *)
LEMMA RowsTyped ==
    ASSUME NEW h, HeapOK(h)
    PROVE  /\ RowsOf(h) \subseteq Row
           /\ UniqueRids(RowsOf(h))
           /\ \A row \in RowsOf(h) : row.rid[1] \in 1 .. Len(h)
<1>1. PICK V : h \in Seq(Page(V))
  BY DEF HeapOK
<1>2. DOMAIN h = 1 .. Len(h) /\ Len(h) \in Nat
  BY <1>1
<1>3. ASSUME NEW p \in 1 .. Len(h), NEW n \in Slots(h[p], "OCCUPIED")
      PROVE  p \in Nat \ {0} /\ n \in Nat \ {0} /\ h[p].slots[n].tuple \in Tuple
  <2>1. h[p] \in Page(V)
    BY <1>1, <1>2
  <2>2. h[p].slots \in Seq(Slot(V))
    BY <2>1 DEF Page
  <2>3. n \in 1 .. Len(h[p].slots) /\ Len(h[p].slots) \in Nat
    BY <2>2 DEF Slots
  <2>4. h[p].slots[n] \in Slot(V)
    BY <2>2, <2>3
  <2> QED BY <1>2, <2>3, <2>4 DEF Slot
<1>4. ASSUME NEW row \in RowsOf(h)
      PROVE  \E p \in 1 .. Len(h) : \E n \in Slots(h[p], "OCCUPIED") :
                 row = [rid |-> <<p, n>>, tuple |-> h[p].slots[n].tuple]
  BY <1>2 DEF RowsOf, RowsIn
<1>5. RowsOf(h) \subseteq Row /\ \A row \in RowsOf(h) : row.rid[1] \in 1 .. Len(h)
  BY <1>3, <1>4 DEF Row, RidType
<1>6. ASSUME NEW x \in RowsOf(h), NEW y \in RowsOf(h), x.rid = y.rid PROVE x = y
  <2>1. PICK p, n : x = [rid |-> <<p, n>>, tuple |-> h[p].slots[n].tuple]
    BY <1>4
  <2>2. PICK q, m : y = [rid |-> <<q, m>>, tuple |-> h[q].slots[m].tuple]
    BY <1>4
  <2>3. p = q /\ n = m
    BY <1>6, <2>1, <2>2
  <2> QED BY <2>1, <2>2, <2>3
<1> QED BY <1>5, <1>6 DEF UniqueRids

\* The rows R, when page p has the rows S.
PageRows(R, p, S) == {row \in R : row.rid[1] # p} \cup S

RowAt(p, n, t) == [rid |-> <<p, n>>, tuple |-> t]

\* The pages with page number p replaced, or added at the end.
WithPage(h, p, page) == [q \in 1 .. Max({p, Len(h)}) |-> IF q = p THEN page ELSE h[q]]

(* Their rows.                                                             *)
LEMMA PageReplaced ==
    ASSUME NEW V, NEW h \in Seq(Page(V)), NEW p \in 1 .. Len(h) + 1, NEW page \in Page(V),
           NEW h2, h2 = WithPage(h, p, page)
    PROVE  /\ h2 \in Seq(Page(V)) /\ Len(h2) >= Len(h)
           /\ RowsOf(h2) = PageRows(RowsOf(h), p, RowsIn(p, page))
<1>1. PICK n \in Nat : n = Len(h)
  OBVIOUS
<1>2. PICK k : k = Max({p, n})
  OBVIOUS
<1>3. k \in Nat /\ p <= k /\ n <= k /\ (k = p \/ k = n)
  <2>1. PICK S : S = {p, n}
    OBVIOUS
  <2>2. S \subseteq 0 .. n + 1 /\ S # {} /\ n + 1 \in Nat
    BY <1>1, <2>1
  <2>3. Max(S) \in S /\ \A m \in S : m <= Max(S)
    BY <2>2, MaxOfBounded
  <2> QED BY <1>1, <1>2, <2>1, <2>3
<1>4. h2 = [q \in 1..k |-> IF q = p THEN page ELSE h[q]]
  BY <1>1, <1>2 DEF WithPage
<1>5. DOMAIN h = 1..n /\ \A q \in 1..n : h[q] \in Page(V)
  BY <1>1
<1>6. \A q \in 1..k : q # p => q \in 1..n
  BY <1>1, <1>3
<1>7. h2 \in [1..k -> Page(V)]
  BY <1>4, <1>5, <1>6
<1>8. h2 \in Seq(Page(V)) /\ Len(h2) = k
  BY <1>3, <1>7
<1>9. h2[p] = page /\ \A q \in 1..n : q # p => q \in 1..k /\ h2[q] = h[q]
  BY <1>3, <1>4, <1>1
<1>10. DOMAIN h2 = 1..k
  BY <1>4
<1>11. RowsOf(h2) = PageRows(RowsOf(h), p, RowsIn(p, page))
  <2>1. \A q, pg : \A row \in RowsIn(q, pg) : row.rid[1] = q
    BY DEF RowsIn
  <2>2. ASSUME NEW row \in RowsOf(h2)
        PROVE  row \in {x \in RowsOf(h) : x.rid[1] # p} \cup RowsIn(p, page)
    <3>1. PICK q \in 1..k : row \in RowsIn(q, h2[q])
      BY <1>10, <2>2 DEF RowsOf
    <3>2. CASE q = p
      BY <1>9, <3>1, <3>2
    <3>3. CASE q # p
      <4>1. q \in DOMAIN h /\ h2[q] = h[q]
        BY <1>5, <1>6, <1>9, <3>3
      <4>2. row \in RowsOf(h)
        BY <3>1, <4>1 DEF RowsOf
      <4> QED BY <2>1, <3>1, <3>3, <4>2
    <3> QED BY <3>2, <3>3
  <2>3. RowsIn(p, page) \subseteq RowsOf(h2)
    <3>1. p \in 1..k
      BY <1>3
    <3> QED BY <1>9, <1>10, <3>1 DEF RowsOf
  <2>4. ASSUME NEW row \in RowsOf(h), row.rid[1] # p PROVE row \in RowsOf(h2)
    <3>1. PICK q \in DOMAIN h : row \in RowsIn(q, h[q])
      BY <2>4 DEF RowsOf
    <3>2. q # p
      BY <2>1, <2>4, <3>1
    <3>3. q \in DOMAIN h2 /\ h2[q] = h[q]
      BY <1>5, <1>9, <1>10, <3>1, <3>2
    <3> QED BY <3>1, <3>3 DEF RowsOf
  <2> QED BY <2>2, <2>3, <2>4 DEF PageRows
<1> QED BY <1>1, <1>2, <1>3, <1>8, <1>10, <1>11

(* Compaction keeps the slots, their states and their tuples.              *)
LEMMA Compacted ==
    ASSUME NEW V, NEW page \in Page(V), page.initialized = TRUE
    PROVE  \E W : /\ V \subseteq W /\ CompactPage(page) \in Page(W) /\ CompactPage(page).initialized = TRUE
                  /\ Len(CompactPage(page).slots) = Len(page.slots)
                  /\ \A n \in 1 .. Len(page.slots) :
                        /\ CompactPage(page).slots[n].state = page.slots[n].state
                        /\ CompactPage(page).slots[n].tuple = page.slots[n].tuple
<1>1. page \in [initialized : BOOLEAN, slots : Seq(Slot(V)), upper : V]
  BY DEF Page
<1>2. PICK k \in Nat : k = Len(page.slots)
  BY <1>1
<1>3. DOMAIN page.slots = 1..k /\ \A n \in 1..k : page.slots[n] \in Slot(V)
  BY <1>1, <1>2
<1>4. PICK up : up = PageBytes - SumOfLengths(page, Slots(page, "OCCUPIED"))
  OBVIOUS
<1>5. PICK W : W = V \cup {0, up} \cup
          {PageBytes - SumOfLengths(page, {j \in Slots(page, "OCCUPIED") : j <= n}) : n \in 1..k}
  OBVIOUS
<1>6. ASSUME NEW n \in 1..k
      PROVE  /\ CompactedSlot(page, n) \in Slot(W)
             /\ CompactedSlot(page, n).state = page.slots[n].state
             /\ CompactedSlot(page, n).tuple = page.slots[n].tuple
  <2>1. PICK v : v = PageBytes - SumOfLengths(page, {j \in Slots(page, "OCCUPIED") : j <= n})
    OBVIOUS
  <2>2. v \in W /\ 0 \in W /\ V \subseteq W
    BY <1>5, <2>1
  <2>3. PICK s : s = page.slots[n]
    OBVIOUS
  <2>4. s \in Slot(V)
    BY <1>3, <2>3
  <2>5. CompactedSlot(page, n) = IF s.state = "OCCUPIED" THEN [s EXCEPT !.offset = v]
                                 ELSE [s EXCEPT !.offset = 0, !.length = 0]
    BY <2>1, <2>3, Zenon DEF CompactedSlot
  <2>6. [s EXCEPT !.offset = v] \in Slot(W) /\ [s EXCEPT !.offset = 0, !.length = 0] \in Slot(W)
    BY <2>2, <2>4 DEF Slot
  <2>7. /\ [s EXCEPT !.offset = v].state = s.state /\ [s EXCEPT !.offset = v].tuple = s.tuple
        /\ [s EXCEPT !.offset = 0, !.length = 0].state = s.state
        /\ [s EXCEPT !.offset = 0, !.length = 0].tuple = s.tuple
    BY <2>4 DEF Slot
  <2> QED BY <2>3, <2>5, <2>6, <2>7
<1>7. PICK sl : sl = [i \in 1..k |-> CompactedSlot(page, i)]
  OBVIOUS
<1>8. sl \in [1..k -> Slot(W)]
  BY <1>6, <1>7
<1>9. sl \in Seq(Slot(W)) /\ Len(sl) = k
  BY <1>8
<1>10. CompactPage(page) = [page EXCEPT !.slots = sl, !.upper = up]
  BY <1>3, <1>4, <1>7, Zenon DEF CompactPage
<1>11. up \in W /\ V \subseteq W
  BY <1>5
<1>12. PICK c : c = [page EXCEPT !.slots = sl, !.upper = up]
  OBVIOUS
<1>13. c.initialized = page.initialized /\ c.slots = sl
  BY <1>1, <1>12
<1>14. c \in [initialized : BOOLEAN, slots : Seq(Slot(W)), upper : W]
  BY <1>1, <1>9, <1>11, <1>12
<1>15. c \in Page(W)
  BY <1>13, <1>14 DEF Page
<1>16. \A n \in 1..k : sl[n].state = page.slots[n].state /\ sl[n].tuple = page.slots[n].tuple
  BY <1>6, <1>7
<1>17. CompactPage(page) = c
  BY <1>10, <1>12
<1> QED
  <2>1. /\ V \subseteq W /\ c \in Page(W) /\ c.initialized = TRUE /\ Len(c.slots) = Len(page.slots)
        /\ \A n \in 1 .. Len(page.slots) : /\ c.slots[n].state = page.slots[n].state
                                           /\ c.slots[n].tuple = page.slots[n].tuple
    BY <1>2, <1>9, <1>11, <1>13, <1>15, <1>16
  <2> QED BY <1>17, <2>1, Zenon

\* Page y differs from page x in slot n, which may be new; x has j slots, y has k.
SameBut(x, y, j, k, n) ==
    /\ j \in Nat /\ k \in Nat /\ j <= k /\ n \in 1..k
    /\ DOMAIN x.slots = 1..j /\ DOMAIN y.slots = 1..k
    /\ \A i \in 1..k : i # n => /\ i \in 1..j
                                /\ y.slots[i].state = x.slots[i].state
                                /\ y.slots[i].tuple = x.slots[i].tuple

(* Of such pages the rows differ in one, too.                              *)
LEMMA RowsWithSlot ==
    ASSUME NEW p, NEW x, NEW y, NEW j, NEW k, NEW n, SameBut(x, y, j, k, n)
    PROVE  /\ RowsIn(p, y) =
                 Others(RowsIn(p, x), <<p, n>>) \cup
                 IF y.slots[n].state = "OCCUPIED" THEN {[rid |-> <<p, n>>, tuple |-> y.slots[n].tuple]} ELSE {}
           /\ n \notin Slots(x, "OCCUPIED") => \A row \in RowsIn(p, x) : row.rid # <<p, n>>
<1>0. /\ j \in Nat /\ k \in Nat /\ j <= k /\ n \in 1..k
      /\ DOMAIN x.slots = 1..j /\ DOMAIN y.slots = 1..k
      /\ \A i \in 1..k : i # n => /\ i \in 1..j
                                  /\ y.slots[i].state = x.slots[i].state
                                  /\ y.slots[i].tuple = x.slots[i].tuple
  BY DEF SameBut
<1>1. \A i \in 1..j : i # n => i \in 1..k
  BY <1>0
<1>2. ASSUME NEW i, i # n
      PROVE  /\ i \in Slots(y, "OCCUPIED") <=> i \in Slots(x, "OCCUPIED")
             /\ i \in Slots(y, "OCCUPIED") => y.slots[i].tuple = x.slots[i].tuple
  BY <1>0, <1>1, <1>2 DEF Slots
<1>3. n \in Slots(y, "OCCUPIED") <=> y.slots[n].state = "OCCUPIED"
  BY <1>0 DEF Slots
<1>4. \A i : <<p, i>> = <<p, n>> => i = n
  OBVIOUS
<1>5. \A row : row \in RowsIn(p, x) <=>
          \E i \in Slots(x, "OCCUPIED") : row = [rid |-> <<p, i>>, tuple |-> x.slots[i].tuple]
  BY DEF RowsIn
<1>6. \A row : row \in RowsIn(p, y) <=>
          \E i \in Slots(y, "OCCUPIED") : row = [rid |-> <<p, i>>, tuple |-> y.slots[i].tuple]
  BY DEF RowsIn
<1>7. ASSUME NEW row \in RowsIn(p, y)
      PROVE  \/ row \in RowsIn(p, x) /\ row.rid # <<p, n>>
             \/ row = [rid |-> <<p, n>>, tuple |-> y.slots[n].tuple] /\ y.slots[n].state = "OCCUPIED"
  <2>1. PICK i \in Slots(y, "OCCUPIED") : row = [rid |-> <<p, i>>, tuple |-> y.slots[i].tuple]
    BY <1>6
  <2>2. CASE i = n
    BY <1>3, <2>1, <2>2
  <2>3. CASE i # n
    <3>1. row.rid = <<p, i>> /\ i \in Slots(x, "OCCUPIED") /\ y.slots[i].tuple = x.slots[i].tuple
      BY <1>2, <2>1, <2>3
    <3> QED BY <1>4, <1>5, <2>1, <2>3, <3>1
  <2> QED BY <2>2, <2>3
<1>8. ASSUME NEW row \in RowsIn(p, x), row.rid # <<p, n>> PROVE row \in RowsIn(p, y)
  <2>1. PICK i \in Slots(x, "OCCUPIED") : row = [rid |-> <<p, i>>, tuple |-> x.slots[i].tuple]
    BY <1>5
  <2>2. i # n
    BY <1>8, <2>1
  <2> QED BY <1>2, <1>6, <2>1, <2>2
<1>9. y.slots[n].state = "OCCUPIED" => [rid |-> <<p, n>>, tuple |-> y.slots[n].tuple] \in RowsIn(p, y)
  BY <1>3, <1>6
<1>10. ASSUME n \notin Slots(x, "OCCUPIED"), NEW row \in RowsIn(p, x) PROVE row.rid # <<p, n>>
  BY <1>4, <1>5, <1>10
<1> QED BY <1>7, <1>8, <1>9, <1>10 DEF Others

LEMMA PageGrows ==
    ASSUME NEW V, NEW W, V \subseteq W
    PROVE  Page(V) \subseteq Page(W) /\ Seq(Page(V)) \subseteq Seq(Page(W))
<1>1. Slot(V) \subseteq Slot(W)
  BY DEF Slot
<1>2. Seq(Slot(V)) \subseteq Seq(Slot(W))
  BY <1>1, SeqMonotonic
<1>3. Page(V) \subseteq Page(W)
  BY <1>2 DEF Page
<1> QED BY <1>3, SeqMonotonic

(* The slot an insert takes is not occupied.                               *)
LEMMA SlotTaken ==
    ASSUME NEW V, NEW page \in Page(V)
    PROVE  \E n \in 1 .. Len(page.slots) + 1 :
               /\ n = SlotForInsert(page)
               /\ n \notin Slots(page, "OCCUPIED")
<1>1. PICK S : S = Slots(page, "DELETED")
  OBVIOUS
<1>2. page.slots \in Seq(Slot(V))
  BY DEF Page
<1>3. PICK k \in Nat : k = Len(page.slots) /\ DOMAIN page.slots = 1..k
  BY <1>2
<1>4. SlotForInsert(page) = IF S = {} THEN k + 1 ELSE Min(S)
  BY <1>1, <1>3 DEF SlotForInsert
<1>5. S \subseteq 1..k /\ S \subseteq Nat
  BY <1>1, <1>3 DEF Slots
<1>6. CASE S = {}
  BY <1>3, <1>4, <1>6 DEF Slots
<1>7. CASE S # {}
  <2>1. PICK n : n = Min(S)
    OBVIOUS
  <2>2. n \in S
    BY <1>5, <1>7, <2>1, MinOfNaturals
  <2>3. n \notin Slots(page, "OCCUPIED")
    <3>1. "OCCUPIED" # "DELETED"
      OBVIOUS
    <3> QED BY <1>1, <2>2, <3>1, Zenon DEF Slots
  <2>4. n \in 1 .. Len(page.slots) + 1
    BY <1>3, <1>5, <2>2
  <2> QED BY <1>4, <1>7, <2>1, <2>3, <2>4
<1> QED BY <1>6, <1>7

(* The page a record goes to keeps its rows and gets one.                  *)
LEMMA RecordInserted ==
    ASSUME NEW V, NEW page \in Ready(V), NEW t \in Tuple, NEW len, NEW p,
           NEW n, n = SlotForInsert(page), NEW filled, filled = InsertRecord(page, t, len),
           NEW new, new = RowAt(p, n, t)
    PROVE  /\ n \in Nat \ {0}
           /\ \E W : V \subseteq W /\ filled \in Page(W)
           /\ RowsIn(p, filled) = WithRow(RowsIn(p, page), new)
           /\ Fresh(RowsIn(p, page), new)
<1>0. page \in Page(V) /\ page.initialized = TRUE
  BY DEF Ready
<1>1. page.slots \in Seq(Slot(V))
  BY <1>0 DEF Page
<1>2. PICK j \in Nat : j = Len(page.slots) /\ DOMAIN page.slots = 1..j
  BY <1>1
<1>3. n \in 1..j + 1 /\ n = SlotForInsert(page) /\ n \notin Slots(page, "OCCUPIED")
  BY <1>0, <1>2, SlotTaken
<1>4. PICK room : room = RoomFor(page, len)
  OBVIOUS
<1>5. room = page \/ room = CompactPage(page)
  BY <1>4 DEF RoomFor
<1>6. PICK U : /\ V \subseteq U /\ room \in Page(U) /\ room.initialized = TRUE
               /\ Len(room.slots) = j
               /\ \A i \in 1..j : /\ room.slots[i].state = page.slots[i].state
                                  /\ room.slots[i].tuple = page.slots[i].tuple
  <2>1. CASE room = page
    BY <1>0, <1>2, <2>1
  <2>2. CASE room = CompactPage(page)
    BY <1>0, <1>2, <2>2, Compacted
  <2> QED BY <1>5, <2>1, <2>2
<1>7. PICK W : W = U \cup {len, room.upper - len}
  OBVIOUS
<1>8. V \subseteq W /\ len \in W /\ room.upper - len \in W /\ room \in Page(W)
  BY <1>6, <1>7, PageGrows
<1>9. room.slots \in Seq(Slot(W)) /\ DOMAIN room.slots = 1..j
  BY <1>6, <1>8 DEF Page
<1>10. PICK slot : slot = [state |-> "OCCUPIED", offset |-> room.upper - len, length |-> len, tuple |-> t]
  OBVIOUS
<1>11. slot \in Slot(W) /\ slot.state = "OCCUPIED" /\ slot.tuple = t
  BY <1>8, <1>10 DEF Slot
<1>12. PICK k \in Nat : k = Max({n, j}) /\ j <= k /\ n \in 1..k /\ \A i \in 1..k : i # n => i \in 1..j
  <2>1. PICK S : S = {n, j}
    OBVIOUS
  <2>2. S \subseteq 0..j + 1 /\ S # {} /\ j + 1 \in Nat
    BY <1>3, <2>1
  <2>3. Max(S) \in S /\ \A m \in S : m <= Max(S)
    BY <2>2, MaxOfBounded
  <2>4. PICK k : k = Max(S)
    OBVIOUS
  <2>6. (k = n \/ k = j) /\ n <= k /\ j <= k
    BY <2>1, <2>3, <2>4
  <2>7. n \in Nat /\ 1 <= n /\ n <= j + 1
    BY <1>3
  <2>5. k \in Nat /\ j <= k /\ n \in 1..k /\ \A i \in 1..k : i # n => i \in 1..j
    BY <2>6, <2>7
  <2> QED BY <2>1, <2>4, <2>5
<1>13. PICK sl : sl = [i \in 1..k |-> IF i = n THEN slot ELSE room.slots[i]]
  OBVIOUS
<1>14. sl \in [1..k -> Slot(W)] /\ DOMAIN sl = 1..k
  <2>1. \A i \in 1..j : room.slots[i] \in Slot(W)
    BY <1>9
  <2>2. \A i \in 1..k : (IF i = n THEN slot ELSE room.slots[i]) \in Slot(W)
    BY <1>11, <1>12, <2>1, Zenon
  <2> QED BY <1>13, <2>2, Zenon
<1>15. sl \in Seq(Slot(W))
  BY <1>14, SeqDef, Zenon
<1>16. PICK made : made = [room EXCEPT !.slots = sl, !.upper = @ - len]
  OBVIOUS
<1>17. filled = made
  BY <1>3, <1>4, <1>6, <1>10, <1>12, <1>13, <1>16, Zenon DEF InsertRecord
<1>18. made.slots = sl /\ made.initialized = TRUE /\ made \in Page(W)
  <2>1. room \in [initialized : BOOLEAN, slots : Seq(Slot(W)), upper : W]
    BY <1>8 DEF Page
  <2>2. made = [room EXCEPT !.slots = sl, !.upper = room.upper - len]
    BY <1>16
  <2>3. made.slots = sl /\ made.initialized = TRUE
    BY <1>6, <2>1, <2>2
  <2>4. made \in [initialized : BOOLEAN, slots : Seq(Slot(W)), upper : W]
    BY <1>8, <1>15, <2>1, <2>2
  <2> QED BY <2>3, <2>4 DEF Page
<1>19. \A i \in 1..k : i # n => /\ i \in 1..j
                                /\ made.slots[i].state = page.slots[i].state
                                /\ made.slots[i].tuple = page.slots[i].tuple
  <2>1. ASSUME NEW i \in 1..k, i # n PROVE i \in 1..j /\ made.slots[i] = room.slots[i]
    BY <1>12, <1>13, <1>18, <2>1, Zenon
  <2> QED BY <1>6, <2>1, Zenon
<1>20. made.slots[n] = slot /\ DOMAIN made.slots = 1..k
  BY <1>12, <1>13, <1>14, <1>18
<1>21. /\ RowsIn(p, made) =
              Others(RowsIn(p, page), <<p, n>>) \cup
              IF made.slots[n].state = "OCCUPIED" THEN {[rid |-> <<p, n>>, tuple |-> made.slots[n].tuple]} ELSE {}
       /\ \A row \in RowsIn(p, page) : row.rid # <<p, n>>
  <2>1. SameBut(page, made, j, k, n)
    BY <1>2, <1>12, <1>19, <1>20, Zenon DEF SameBut
  <2> QED BY <1>3, <2>1, RowsWithSlot
<1>22. RowsIn(p, made) = WithRow(RowsIn(p, page), new)
  BY <1>11, <1>20, <1>21 DEF Others, WithRow, RowAt
<1>23. n \in Nat \ {0}
  BY <1>3
<1>24. Fresh(RowsIn(p, page), new)
  BY <1>21 DEF Fresh, RowAt
<1> QED BY <1>3, <1>8, <1>17, <1>18, <1>22, <1>23, <1>24

(* The page a record leaves, or is overwritten in.                         *)
LEMMA RecordChanged ==
    ASSUME NEW V, NEW page \in Page(V), NEW n \in Slots(page, "OCCUPIED"), NEW p, NEW t \in Tuple
    PROVE  /\ DeleteRecord(page, n) \in Page(V)
           /\ RowsIn(p, DeleteRecord(page, n)) = Others(RowsIn(p, page), <<p, n>>)
           /\ OverwriteRecord(page, n, t) \in Page(V)
           /\ RowsIn(p, OverwriteRecord(page, n, t)) =
                  WithRow(Others(RowsIn(p, page), <<p, n>>), [rid |-> <<p, n>>, tuple |-> t])
<1>1. page \in [initialized : BOOLEAN, slots : Seq(Slot(V)), upper : V]
  BY DEF Page
<1>2. PICK k \in Nat : k = Len(page.slots) /\ DOMAIN page.slots = 1..k
  BY <1>1
<1>3. n \in 1..k /\ page.slots[n].state = "OCCUPIED"
  BY <1>2 DEF Slots
<1>4. page.initialized = TRUE
  BY <1>1, <1>2, <1>3 DEF Page
<1>5. PICK s : s = page.slots[n]
  OBVIOUS
<1>6. s \in Slot(V)
  BY <1>1, <1>2, <1>3, <1>5
<1>7. ASSUME NEW r \in Slot(V), NEW new,
             new = [page EXCEPT !.slots = [page.slots EXCEPT ![n] = r]]
      PROVE  /\ new \in Page(V)
             /\ RowsIn(p, new) = Others(RowsIn(p, page), <<p, n>>) \cup
                                 IF r.state = "OCCUPIED" THEN {[rid |-> <<p, n>>, tuple |-> r.tuple]} ELSE {}
  <2>1. PICK sl : sl = [page.slots EXCEPT ![n] = r]
    OBVIOUS
  <2>2. sl \in Seq(Slot(V)) /\ DOMAIN sl = 1..k /\ sl[n] = r /\ \A i \in 1..k : i # n => sl[i] = page.slots[i]
    BY <1>1, <1>2, <1>3, <2>1
  <2>3. new.slots = sl /\ new.initialized = TRUE /\ new \in [initialized : BOOLEAN, slots : Seq(Slot(V)), upper : V]
    BY <1>1, <1>4, <1>7, <2>1, <2>2
  <2>4. new \in Page(V)
    BY <2>3 DEF Page
  <2>5. /\ DOMAIN new.slots = 1..k /\ new.slots[n] = r
        /\ \A i \in 1..k : i # n => /\ i \in 1..k
                                    /\ new.slots[i].state = page.slots[i].state
                                    /\ new.slots[i].tuple = page.slots[i].tuple
    BY <2>2, <2>3
  <2>6. RowsIn(p, new) =
            Others(RowsIn(p, page), <<p, n>>) \cup
            IF new.slots[n].state = "OCCUPIED" THEN {[rid |-> <<p, n>>, tuple |-> new.slots[n].tuple]} ELSE {}
    <3>1. k <= k
      OBVIOUS
    <3>2. SameBut(page, new, k, k, n)
      BY <1>2, <1>3, <2>5, <3>1, Zenon DEF SameBut
    <3> QED BY <3>2, RowsWithSlot
  <2> QED BY <2>4, <2>5, <2>6
<1>8. PICK d : d = [s EXCEPT !.state = "DELETED"]
  OBVIOUS
<1>9. d \in Slot(V) /\ d.state # "OCCUPIED"
  BY <1>6, <1>8 DEF Slot
<1>10. DeleteRecord(page, n) = [page EXCEPT !.slots = [page.slots EXCEPT ![n] = d]]
  BY <1>5, <1>8 DEF DeleteRecord
<1>11. PICK o : o = [s EXCEPT !.tuple = t]
  OBVIOUS
<1>12. o \in Slot(V) /\ o.state = "OCCUPIED" /\ o.tuple = t
  BY <1>3, <1>5, <1>6, <1>11 DEF Slot
<1>13. OverwriteRecord(page, n, t) = [page EXCEPT !.slots = [page.slots EXCEPT ![n] = o]]
  BY <1>5, <1>11 DEF OverwriteRecord
<1>14. /\ DeleteRecord(page, n) \in Page(V)
       /\ RowsIn(p, DeleteRecord(page, n)) = Others(RowsIn(p, page), <<p, n>>)
  BY <1>7, <1>9, <1>10
<1>15. /\ OverwriteRecord(page, n, t) \in Page(V)
       /\ RowsIn(p, OverwriteRecord(page, n, t)) =
              WithRow(Others(RowsIn(p, page), <<p, n>>), [rid |-> <<p, n>>, tuple |-> t])
  BY <1>7, <1>12, <1>13 DEF WithRow
<1> QED BY <1>14, <1>15

\* The page that a record for page p of h goes to.
PageAt(h, p) == IF p > Len(h) THEN Initialize ELSE Usable(h[p])

(* InsertTupleImpl: one more row, with a rid no other row has.             *)
LEMMA HeapInserted ==
    ASSUME NEW h, HeapOK(h), NEW p \in 1 .. Len(h) + 1, NEW t \in Tuple, NEW len,
           NEW h2, h2 = WithPage(h, p, InsertRecord(PageAt(h, p), t, len)),
           NEW new, new = RowAt(p, SlotForInsert(PageAt(h, p)), t)
    PROVE  /\ HeapOK(h2) /\ Len(h2) >= Len(h)
           /\ new \in Row /\ RowsOf(h2) = WithRow(RowsOf(h), new) /\ Fresh(RowsOf(h), new)
<1>1. PICK U : h \in Seq(Page(U))
  BY DEF HeapOK
<1>2. PICK V : V = U \cup {PageBytes}
  OBVIOUS
<1>3. h \in Seq(Page(V))
  BY <1>1, <1>2, PageGrows
<1>4. PICK k \in Nat : k = Len(h) /\ DOMAIN h = 1..k
  BY <1>3
<1>5. PICK page : page = PageAt(h, p)
  OBVIOUS
<1>6. Initialize \in Page(V) /\ Initialize.initialized = TRUE /\ \A q : RowsIn(q, Initialize) = {}
  <2>1. Initialize.initialized = TRUE /\ Initialize.slots = <<>> /\ Initialize.upper = PageBytes
    BY DEF Initialize
  <2>2. Initialize \in Page(V)
    BY <1>2, EmptySeq DEF Page, Initialize
  <2>3. Slots(Initialize, "OCCUPIED") = {}
    BY <2>1 DEF Slots
  <2> QED BY <2>1, <2>2, <2>3 DEF RowsIn
<1>7. \A q \in 1..k : h[q] \in Page(V) /\ RowsIn(q, Usable(h[q])) = RowsIn(q, h[q])
                      /\ Usable(h[q]) \in Page(V) /\ Usable(h[q]).initialized = TRUE
  <2> SUFFICES ASSUME NEW q \in 1..k
               PROVE  /\ h[q] \in Page(V) /\ RowsIn(q, Usable(h[q])) = RowsIn(q, h[q])
                      /\ Usable(h[q]) \in Page(V) /\ Usable(h[q]).initialized = TRUE
    OBVIOUS
  <2>1. h[q] \in Page(V)
    BY <1>3, <1>4
  <2>2. CASE h[q].initialized = TRUE
    BY <2>1, <2>2 DEF Usable
  <2>3. CASE h[q].initialized = FALSE
    <3>1. h[q].slots = <<>>
      BY <2>1, <2>3 DEF Page
    <3>2. Slots(h[q], "OCCUPIED") = {}
      BY <3>1 DEF Slots
    <3>3. RowsIn(q, h[q]) = {}
      BY <3>2 DEF RowsIn
    <3>4. Usable(h[q]) = Initialize
      BY <2>3 DEF Usable
    <3> QED BY <1>6, <2>1, <3>3, <3>4
  <2> QED BY <2>1, <2>2, <2>3 DEF Page
<1>8. page \in Page(V) /\ page.initialized = TRUE /\ p \in Nat \ {0}
  BY <1>4, <1>5, <1>6, <1>7 DEF PageAt
<1>r. page \in Ready(V)
  BY <1>8 DEF Ready
<1>9. /\ p > k => RowsIn(p, page) = {}
      /\ p <= k => RowsIn(p, page) = RowsIn(p, h[p])
  BY <1>4, <1>5, <1>6, <1>7 DEF PageAt
<1>10. PICK filled : filled = InsertRecord(page, t, len)
  OBVIOUS
<1>n. PICK n : n = SlotForInsert(page)
  OBVIOUS
<1>16. new = RowAt(p, n, t)
  BY <1>5, <1>n
<1>q. /\ n \in Nat \ {0} /\ \E W : V \subseteq W /\ filled \in Page(W)
      /\ RowsIn(p, filled) = WithRow(RowsIn(p, page), new) /\ Fresh(RowsIn(p, page), new)
  BY <1>r, <1>10, <1>n, <1>16, RecordInserted
<1>w. PICK W : V \subseteq W /\ filled \in Page(W)
  BY <1>q
<1>11. n \in Nat \ {0} /\ RowsIn(p, filled) = WithRow(RowsIn(p, page), new) /\ Fresh(RowsIn(p, page), new)
  BY <1>q
<1>12. h \in Seq(Page(W))
  BY <1>3, <1>w, PageGrows
<1>13. /\ h2 \in Seq(Page(W)) /\ Len(h2) >= Len(h)
       /\ RowsOf(h2) = PageRows(RowsOf(h), p, RowsIn(p, filled))
  BY <1>5, <1>10, <1>w, <1>12, PageReplaced
<1>14. \A row \in RowsOf(h) : row.rid[1] = p <=> row \in RowsIn(p, page)
  <2>1. \A q, pg : \A row \in RowsIn(q, pg) : row.rid[1] = q
    BY DEF RowsIn
  <2>2. \A row \in RowsOf(h) : \E q \in 1..k : row \in RowsIn(q, h[q])
    BY <1>4 DEF RowsOf
  <2>3. p \notin 1..k => p > k
    BY <1>8
  <2>4. p \in 1..k => p <= k
    OBVIOUS
  <2> QED BY <1>9, <2>1, <2>2, <2>3, <2>4
<1>15. RowsIn(p, page) \subseteq RowsOf(h)
  <2>1. p > k \/ p \in 1..k
    BY <1>8
  <2> QED BY <1>4, <1>9, <2>1 DEF RowsOf
<1>17. RowsOf(h2) = WithRow(RowsOf(h), new)
  BY <1>11, <1>13, <1>14, <1>15, <1>16 DEF PageRows, WithRow
<1>18. ASSUME NEW row \in RowsOf(h) PROVE row.rid # <<p, n>>
  <2>1. CASE row \in RowsIn(p, page)
    BY <1>11, <1>16, <2>1 DEF Fresh, RowAt
  <2>2. CASE row \notin RowsIn(p, page)
    <3>1. row.rid[1] # p
      BY <1>14, <2>2
    <3> QED BY <3>1
  <2> QED BY <2>1, <2>2
<1>19. new \in Row
  BY <1>8, <1>11, <1>16 DEF Row, RidType, RowAt
<1>20. HeapOK(h2)
  BY <1>13 DEF HeapOK
<1>21. Fresh(RowsOf(h), new)
  BY <1>16, <1>18 DEF Fresh, RowAt
<1> QED BY <1>13, <1>17, <1>19, <1>20, <1>21

(* DeleteTupleImpl and an overwrite: the row is gone, or has another tuple. *)
LEMMA HeapChanged ==
    ASSUME NEW h, HeapOK(h), NEW row \in RowsOf(h), NEW t \in Tuple
    PROVE  LET p == row.rid[1]
               n == row.rid[2]
               deleted == WithPage(h, p, DeleteRecord(h[p], n))
               written == [h EXCEPT ![p] = OverwriteRecord(@, n, t)]
           IN /\ HeapOK(deleted) /\ Len(deleted) >= Len(h)
              /\ RowsOf(deleted) = Others(RowsOf(h), row.rid)
              /\ HeapOK(written) /\ DOMAIN written = DOMAIN h /\ Len(written) = Len(h)
              /\ RowsOf(written) = WithRow(Others(RowsOf(h), row.rid), [rid |-> row.rid, tuple |-> t])
<1>1. PICK V : h \in Seq(Page(V))
  BY DEF HeapOK
<1>2. PICK k \in Nat : k = Len(h) /\ DOMAIN h = 1..k
  BY <1>1
<1>3. PICK p \in 1..k : row \in RowsIn(p, h[p])
  BY <1>2 DEF RowsOf
<1>4. PICK n \in Slots(h[p], "OCCUPIED") : row.rid = <<p, n>>
  BY <1>3 DEF RowsIn
<1>5. row.rid[1] = p /\ row.rid[2] = n
  BY <1>4
<1>6. h[p] \in Page(V)
  BY <1>1, <1>2
<1>7. PICK d, o : d = DeleteRecord(h[p], n) /\ o = OverwriteRecord(h[p], n, t)
  OBVIOUS
<1>8. /\ d \in Page(V) /\ RowsIn(p, d) = Others(RowsIn(p, h[p]), <<p, n>>)
      /\ o \in Page(V)
      /\ RowsIn(p, o) = WithRow(Others(RowsIn(p, h[p]), <<p, n>>), [rid |-> <<p, n>>, tuple |-> t])
  BY <1>4, <1>6, <1>7, RecordChanged
<1>9. /\ \A x \in RowsOf(h) : x.rid[1] = p <=> x \in RowsIn(p, h[p])
      /\ RowsIn(p, h[p]) \subseteq RowsOf(h)
  <2>1. \A q, pg : \A x \in RowsIn(q, pg) : x.rid[1] = q
    BY DEF RowsIn
  <2>2. \A x : x \in RowsOf(h) <=> \E q \in 1..k : x \in RowsIn(q, h[q])
    BY <1>2 DEF RowsOf
  <2> QED BY <2>1, <2>2
<1>10. \A x \in RowsOf(h) : x.rid[1] # p => x.rid # <<p, n>>
  OBVIOUS
<1>11. p \in 1 .. Len(h) + 1
  BY <1>2
<1>12. ASSUME NEW page \in Page(V), NEW extra,
              RowsIn(p, page) = Others(RowsIn(p, h[p]), <<p, n>>) \cup extra,
              NEW h2, h2 = WithPage(h, p, page)
       PROVE  /\ HeapOK(h2) /\ Len(h2) >= Len(h)
              /\ RowsOf(h2) = Others(RowsOf(h), <<p, n>>) \cup extra
  <2>1. /\ h2 \in Seq(Page(V)) /\ Len(h2) >= Len(h)
        /\ RowsOf(h2) = PageRows(RowsOf(h), p, RowsIn(p, page))
    <3>1. h2 = WithPage(h, p, page)
      BY <1>12
    <3> QED BY <1>1, <1>11, <3>1, PageReplaced
  <2>2. RowsOf(h2) = Others(RowsOf(h), <<p, n>>) \cup extra
    BY <1>9, <1>10, <1>12, <2>1 DEF PageRows, Others
  <2> QED BY <2>1, <2>2 DEF HeapOK
<1>13. k = Max({p, Len(h)})
  <2>1. PICK S : S = {p, k}
    OBVIOUS
  <2>2. Max(S) \in S /\ \A m \in S : m <= Max(S)
    BY <2>1, MaxOfBounded
  <2>3. Max(S) = k
    BY <2>1, <2>2
  <2> QED BY <1>2, <2>1, <2>3
<1>14. PICK w : w = [h EXCEPT ![p] = o]
  OBVIOUS
<1>15. w = WithPage(h, p, o)
  BY <1>2, <1>13, <1>14 DEF WithPage
<1>16. /\ HeapOK(w)
       /\ RowsOf(w) = WithRow(Others(RowsOf(h), <<p, n>>), [rid |-> <<p, n>>, tuple |-> t])
  <2>1. RowsIn(p, o) = Others(RowsIn(p, h[p]), <<p, n>>) \cup {[rid |-> <<p, n>>, tuple |-> t]}
    BY <1>8 DEF WithRow
  <2>2. HeapOK(w) /\ RowsOf(w) = Others(RowsOf(h), <<p, n>>) \cup {[rid |-> <<p, n>>, tuple |-> t]}
    BY <1>8, <1>12, <1>15, <2>1
  <2> QED BY <2>2 DEF WithRow
<1>17. DOMAIN w = DOMAIN h /\ Len(w) = Len(h)
  BY <1>1, <1>8, <1>14
<1>18. PICK g : g = WithPage(h, p, d)
  OBVIOUS
<1>19. HeapOK(g) /\ Len(g) >= Len(h) /\ RowsOf(g) = Others(RowsOf(h), <<p, n>>)
  <2>1. RowsIn(p, d) = Others(RowsIn(p, h[p]), <<p, n>>) \cup {}
    BY <1>8
  <2>2. RowsOf(g) = Others(RowsOf(h), <<p, n>>) \cup {}
    BY <1>8, <1>12, <1>18, <2>1
  <2> QED BY <1>8, <1>12, <1>18, <2>1, <2>2
<1> QED BY <1>4, <1>5, <1>7, <1>14, <1>16, <1>17, <1>18, <1>19

\* The pages h when the pages g are put back; the others are pages of zeros.
Restored(h, g) == [p \in DOMAIN h |-> IF p \in DOMAIN g THEN g[p] ELSE ZeroPage]

(* An abort: the rows are those of the pages put back.                     *)
LEMMA HeapRestored ==
    ASSUME NEW h, HeapOK(h), NEW g, HeapOK(g), Len(g) <= Len(h), NEW h2, h2 = Restored(h, g)
    PROVE  HeapOK(h2) /\ Len(h2) = Len(h) /\ DOMAIN h2 = DOMAIN h /\ RowsOf(h2) = RowsOf(g)
<1>1. PICK V : g \in Seq(Page(V))
  BY DEF HeapOK
<1>2. PICK W : W = V \cup {0}
  OBVIOUS
<1>3. PICK m \in Nat : m = Len(g) /\ DOMAIN g = 1..m
  BY <1>1
<1>4. PICK n \in Nat : n = Len(h) /\ DOMAIN h = 1..n
  BY DEF HeapOK
<1>5. ZeroPage \in Page(W) /\ \A p : RowsIn(p, ZeroPage) = {}
  <2>1. ZeroPage.slots = <<>>
    BY DEF ZeroPage
  <2>2. ZeroPage \in Page(W)
    BY <1>2, EmptySeq DEF Page, ZeroPage
  <2>3. Slots(ZeroPage, "OCCUPIED") = {}
    BY <2>1 DEF Slots
  <2> QED BY <2>2, <2>3 DEF RowsIn
<1>6. g \in Seq(Page(W))
  BY <1>1, <1>2, PageGrows
<1>7. \A p \in 1..m : g[p] \in Page(W)
  BY <1>3, <1>6
<1>8. h2 = [p \in 1..n |-> IF p \in 1..m THEN g[p] ELSE ZeroPage]
  BY <1>3, <1>4 DEF Restored
<1>9. h2 \in [1..n -> Page(W)]
  BY <1>5, <1>7, <1>8
<1>10. h2 \in Seq(Page(W)) /\ Len(h2) = n /\ DOMAIN h2 = 1..n
  BY <1>9
<1>11. \A p \in 1..m : p \in 1..n /\ h2[p] = g[p]
  BY <1>3, <1>4, <1>8
<1>12. \A p \in 1..n : p \notin 1..m => RowsIn(p, h2[p]) = {}
  BY <1>5, <1>8
<1>13. \A row : row \in RowsOf(h2) <=> \E p \in 1..n : row \in RowsIn(p, h2[p])
  BY <1>10 DEF RowsOf
<1>14. \A row : row \in RowsOf(g) <=> \E p \in 1..m : row \in RowsIn(p, g[p])
  BY <1>3 DEF RowsOf
<1>15. RowsOf(h2) = RowsOf(g)
  BY <1>11, <1>12, <1>13, <1>14
<1> QED BY <1>4, <1>10, <1>15 DEF HeapOK

-----------------------------------------------------------------------------
(* Steps.                                                                  *)

(* The maintenance order names every attached index.                       *)
LEMMA MaintenanceOrder ==
    ASSUME attached \in SUBSET Index
    PROVE  \E k \in Nat :
               /\ k = Cardinality(attached) /\ DOMAIN GetMaintenanceOrder = 1..k
               /\ \A n \in 1..k : GetMaintenanceOrder[n] \in attached
               /\ \A i \in attached : \E n \in 1..k : GetMaintenanceOrder[n] = i
               /\ k = 0 <=> attached = {}
<1>1. PICK A : A = attached
  OBVIOUS
<1>2. IsFiniteSet(A) /\ A \subseteq Nat
  BY <1>1, TableAssumption, FS_Subset
<1>3. PICK k \in Nat : k = Cardinality(A)
  BY <1>2, FS_CardinalityType
<1>4. PICK rank : rank = [i \in A |-> Cardinality({j \in A : j <= i})]
  OBVIOUS
<1>5. \A i \in A : /\ IsFiniteSet({j \in A : j <= i}) /\ rank[i] \in Nat /\ rank[i] <= k
                   /\ rank[i] = Cardinality({j \in A : j <= i})
  <2> SUFFICES ASSUME NEW i \in A
               PROVE  /\ IsFiniteSet({j \in A : j <= i}) /\ rank[i] \in Nat /\ rank[i] <= k
                      /\ rank[i] = Cardinality({j \in A : j <= i})
    OBVIOUS
  <2>1. PICK S : S = {j \in A : j <= i}
    OBVIOUS
  <2>2. S \in SUBSET A /\ rank[i] = Cardinality(S)
    BY <1>4, <2>1
  <2>3. IsFiniteSet(S) /\ Cardinality(S) <= k /\ Cardinality(S) \in Nat
    BY <1>2, <1>3, <2>2, FS_Subset, FS_CardinalityType
  <2> QED BY <2>1, <2>2, <2>3
<1>6. \A i \in A : rank[i] # 0
  <2> SUFFICES ASSUME NEW i \in A PROVE rank[i] # 0
    OBVIOUS
  <2>1. PICK S : S = {j \in A : j <= i}
    OBVIOUS
  <2>2. i \in S
    BY <1>2, <2>1
  <2>3. Cardinality(S) # 0
    BY <1>5, <2>1, <2>2, FS_EmptySet
  <2> QED BY <1>5, <2>1, <2>3
<1>7. ASSUME NEW i \in A, NEW j \in A, i < j PROVE rank[i] # rank[j]
  <2>1. PICK S, T : S = {x \in A : x <= i} /\ T = {x \in A : x <= j}
    OBVIOUS
  <2>2. S \in SUBSET T /\ j \in T /\ j \notin S
    <3>1. \A x \in A : x \in Nat /\ (x <= i => x <= j)
      BY <1>2, <1>7
    <3>2. j <= j /\ ~(j <= i)
      BY <1>2, <1>7
    <3> QED BY <2>1, <3>1, <3>2, Zenon
  <2>3. IsFiniteSet(T) /\ rank[i] = Cardinality(S) /\ rank[j] = Cardinality(T)
    BY <1>5, <2>1
  <2> QED BY <2>2, <2>3, FS_Subset
<1>8. \A i, j \in A : rank[i] = rank[j] => i = j
  BY <1>2, <1>7
<1>9. rank \in [A -> 1..k]
  BY <1>4, <1>5, <1>6
<1>10. rank \in Injection(A, 1..k)
  BY <1>8, <1>9 DEF Injection, IsInjective
<1>11. IsFiniteSet(1..k) /\ Cardinality(1..k) = k
  BY FS_Interval
<1>12. rank \in Surjection(A, 1..k)
  BY <1>3, <1>10, <1>11, FS_Injection
<1>13. \A n \in 1..k : \E i \in A : rank[i] = n
  BY <1>12 DEF Surjection
<1>14. GetMaintenanceOrder = [n \in 1..k |-> CHOOSE i \in A : Cardinality({j \in A : j <= i}) = n]
  BY <1>1, <1>3 DEF GetMaintenanceOrder
<1>15. ASSUME NEW n \in 1..k
       PROVE  GetMaintenanceOrder[n] \in A /\ rank[GetMaintenanceOrder[n]] = n
  <2>1. \E i \in A : Cardinality({j \in A : j <= i}) = n
    BY <1>5, <1>13
  <2>2. GetMaintenanceOrder[n] = CHOOSE i \in A : Cardinality({j \in A : j <= i}) = n
    BY <1>14
  <2>3. GetMaintenanceOrder[n] \in A /\ Cardinality({j \in A : j <= GetMaintenanceOrder[n]}) = n
    BY <2>1, <2>2, Zenon
  <2> QED BY <1>5, <2>3
<1>16. ASSUME NEW i \in A PROVE \E n \in 1..k : GetMaintenanceOrder[n] = i
  <2>1. rank[i] \in 1..k
    BY <1>9
  <2> QED BY <1>8, <1>15, <2>1
<1>17. k = 0 <=> A = {}
  BY <1>2, <1>3, FS_EmptySet
<1>18. DOMAIN GetMaintenanceOrder = 1..k
  BY <1>14
<1> QED BY <1>1, <1>3, <1>15, <1>16, <1>17, <1>18

IndexOps == {"indexInsert", "indexDelete"}
IndexStep == {s \in StepType : s.op \in IndexOps}

\* The index entries E after the step s.
Effect(E, s) ==
    [E EXCEPT ![s.index] = IF s.op = "indexInsert" THEN @ \cup {s.entry} ELSE @ \ {s.entry}]

EntryAt(i, t, rid) == [key |-> KeyOf(i, t), rid |-> rid]

(* What a step consists of.                                                *)
LEMMA StepIs ==
    ASSUME NEW op, NEW i \in Index, NEW t \in Tuple, NEW rid \in RidType
    PROVE  /\ Step(op, i, t, rid).op = op /\ Step(op, i, t, rid).index = i
           /\ Step(op, i, t, rid).entry = EntryAt(i, t, rid)
           /\ op \in IndexOps => Step(op, i, t, rid) \in IndexStep
<1>1. i # 0
  BY TableAssumption
<1>2. PICK e : e = EntryAt(i, t, rid)
  OBVIOUS
<1>3. e \in Entry
  BY <1>2 DEF Entry, Key, EntryAt
<1>4. Step(op, i, t, rid) = [op |-> op, index |-> i, entry |-> e]
  BY <1>1, <1>2 DEF Step, EntryAt
<1> QED BY <1>2, <1>3, <1>4 DEF StepType, IndexStep, IndexOps

LEMMA HeapStepIs ==
    ASSUME NEW op, NEW rid \in RidType
    PROVE  /\ HeapStep(op, rid).op = op /\ HeapStep(op, rid).entry.rid = rid
           /\ op \in {"heapInsert", "heapDelete"} => HeapStep(op, rid) \in StepType
<1>1. PICK e : e = [key |-> Null, rid |-> rid]
  OBVIOUS
<1>2. e \in Entry /\ e.rid = rid
  BY <1>1 DEF Entry, Key
<1>3. HeapStep(op, rid) = [op |-> op, index |-> 0, entry |-> e]
  BY <1>1 DEF HeapStep, Step
<1> QED BY <1>2, <1>3 DEF StepType

(* The steps of one kind for all indexes.                                  *)
LEMMA IndexStepsAre ==
    ASSUME attached \in SUBSET Index, NEW op \in IndexOps, NEW t \in Tuple, NEW rid \in RidType
    PROVE  /\ IndexSteps(op, t, rid) \in Seq(StepType)
           /\ StepsOf(IndexSteps(op, t, rid)) = {Step(op, i, t, rid) : i \in attached}
           /\ KeepsTuples(IndexSteps(op, t, rid))
           /\ IndexSteps(op, t, rid) = <<>> <=> attached = {}
<1>1. PICK k \in Nat : /\ DOMAIN GetMaintenanceOrder = 1..k
                       /\ \A n \in 1..k : GetMaintenanceOrder[n] \in attached
                       /\ \A i \in attached : \E n \in 1..k : GetMaintenanceOrder[n] = i
                       /\ k = 0 <=> attached = {}
  BY MaintenanceOrder
<1>2. PICK q : q = IndexSteps(op, t, rid)
  OBVIOUS
<1>3. q = [n \in 1..k |-> Step(op, GetMaintenanceOrder[n], t, rid)]
  BY <1>1, <1>2 DEF IndexSteps
<1>4. \A n \in 1..k : /\ q[n] = Step(op, GetMaintenanceOrder[n], t, rid)
                      /\ q[n] \in StepType /\ q[n].op = op
  <2> SUFFICES ASSUME NEW n \in 1..k
               PROVE  /\ q[n] = Step(op, GetMaintenanceOrder[n], t, rid)
                      /\ q[n] \in StepType /\ q[n].op = op
    OBVIOUS
  <2>1. PICK i : i = GetMaintenanceOrder[n]
    OBVIOUS
  <2>2. i \in Index
    BY <1>1, <2>1
  <2>3. q[n] = Step(op, i, t, rid)
    BY <1>3, <2>1
  <2>4. Step(op, i, t, rid) \in StepType /\ Step(op, i, t, rid).op = op
    <3>1. Step(op, i, t, rid) \in IndexStep /\ Step(op, i, t, rid).op = op
      BY <2>2, StepIs
    <3> QED BY <3>1 DEF IndexStep
  <2> QED BY <2>1, <2>3, <2>4
<1>5. q \in [1..k -> StepType]
  BY <1>3, <1>4
<1>6. q \in Seq(StepType) /\ Len(q) = k
  BY <1>5
<1>7. q = <<>> <=> attached = {}
  BY <1>1, <1>6, EmptySeq
<1>8. StepsOf(q) = {Step(op, i, t, rid) : i \in attached}
  <2>1. ASSUME NEW n \in 1..k PROVE q[n] \in {Step(op, i, t, rid) : i \in attached}
    BY <1>1, <1>4
  <2>2. ASSUME NEW i \in attached PROVE \E n \in 1..k : Step(op, i, t, rid) = q[n]
    BY <1>1, <1>4
  <2> QED BY <1>6, <2>1, <2>2 DEF StepsOf
<1>9. KeepsTuples(q)
  <2>1. op # "heapDelete"
    BY DEF IndexOps
  <2> QED BY <1>4, <1>6, <2>1, Zenon DEF KeepsTuples
<1> QED BY <1>2, <1>6, <1>7, <1>8, <1>9

(* Sequences of steps, one after the other, and without the first one.     *)
LEMMA StepsOfConcat ==
    ASSUME NEW q \in Seq(StepType), NEW r \in Seq(StepType)
    PROVE  /\ q \o r \in Seq(StepType)
           /\ StepsOf(q \o r) = StepsOf(q) \cup StepsOf(r)
           /\ KeepsTuples(q) /\ KeepsTuples(r) => KeepsTuples(q \o r)
           /\ KeepsTuples(q) /\ DeletesLast(r) => DeletesLast(q \o r)
<1>1. PICK m \in Nat, n \in Nat : m = Len(q) /\ n = Len(r)
  OBVIOUS
<1>2. PICK c : c = q \o r
  OBVIOUS
<1>3. /\ c \in Seq(StepType) /\ Len(c) = m + n
      /\ \A i \in 1 .. m + n : c[i] = IF i <= m THEN q[i] ELSE r[i - m]
  BY <1>1, <1>2, ConcatProperties
<1>4. /\ \A i \in 1..m : i \in 1 .. m + n /\ c[i] = q[i]
      /\ \A i \in 1..n : m + i \in 1 .. m + n /\ c[m + i] = r[i]
      /\ \A i \in 1 .. m + n : i \in 1..m \/ (i - m \in 1..n /\ i = m + (i - m))
  <2>1. \A i \in 1..m : i \in 1 .. m + n /\ i <= m
    OBVIOUS
  <2>2. \A i \in 1..n : m + i \in 1 .. m + n /\ ~(m + i <= m) /\ (m + i) - m = i
    OBVIOUS
  <2>3. \A i \in 1 .. m + n : i \in 1..m \/ (i - m \in 1..n /\ i = m + (i - m))
    OBVIOUS
  <2> QED BY <1>3, <2>1, <2>2, <2>3
<1>5. StepsOf(c) = StepsOf(q) \cup StepsOf(r)
  <2>1. ASSUME NEW i \in 1 .. m + n PROVE c[i] \in StepsOf(q) \cup StepsOf(r)
    <3>1. CASE i \in 1..m
      BY <1>1, <1>4, <3>1 DEF StepsOf
    <3>2. CASE i \notin 1..m
      <4>1. i - m \in 1..n /\ c[i] = r[i - m]
        BY <1>4, <3>2
      <4> QED BY <1>1, <4>1 DEF StepsOf
    <3> QED BY <3>1, <3>2
  <2>2. StepsOf(q) \subseteq StepsOf(c) /\ StepsOf(r) \subseteq StepsOf(c)
    <3>1. ASSUME NEW i \in 1..m PROVE q[i] \in StepsOf(c)
      BY <1>3, <1>4 DEF StepsOf
    <3>2. ASSUME NEW i \in 1..n PROVE r[i] \in StepsOf(c)
      BY <1>3, <1>4 DEF StepsOf
    <3> QED BY <1>1, <3>1, <3>2 DEF StepsOf
  <2> QED BY <1>3, <2>1, <2>2 DEF StepsOf
<1>6. ASSUME KeepsTuples(q), KeepsTuples(r) PROVE KeepsTuples(c)
  <2> SUFFICES ASSUME NEW i \in 1 .. m + n PROVE c[i].op # "heapDelete"
    BY <1>3 DEF KeepsTuples
  <2>1. CASE i \in 1..m
    BY <1>1, <1>4, <1>6, <2>1 DEF KeepsTuples
  <2>2. CASE i \notin 1..m
    <3>1. i - m \in 1..n /\ c[i] = r[i - m]
      BY <1>4, <2>2
    <3> QED BY <1>1, <1>6, <3>1 DEF KeepsTuples
  <2> QED BY <2>1, <2>2
<1>7. ASSUME KeepsTuples(q), DeletesLast(r) PROVE DeletesLast(c)
  <2> SUFFICES ASSUME NEW i \in 1 .. m + n, c[i].op = "heapDelete" PROVE i = m + n
    BY <1>3 DEF DeletesLast
  <2>1. i \notin 1..m
    BY <1>1, <1>4, <1>7 DEF KeepsTuples
  <2>2. i - m \in 1..n /\ c[i] = r[i - m]
    BY <1>4, <2>1
  <2>3. i - m = n
    BY <1>1, <1>7, <2>2 DEF DeletesLast
  <2> QED BY <2>3
<1> QED BY <1>2, <1>3, <1>5, <1>6, <1>7

LEMMA StepsOfTail ==
    ASSUME NEW q \in Seq(StepType), q # <<>>, DeletesLast(q)
    PROVE  /\ Head(q) \in StepType /\ Head(q) \in StepsOf(q) /\ Tail(q) \in Seq(StepType)
           /\ StepsOf(q) = StepsOf(Tail(q)) \cup {Head(q)} /\ DeletesLast(Tail(q))
           /\ Len(q) = 1 <=> Tail(q) = <<>>
           /\ Len(q) = 1 => StepsOf(Tail(q)) = {}
           /\ Head(q).op = "heapDelete" => Len(q) = 1
<1>1. PICK n \in Nat : n = Len(q) /\ n # 0
  BY EmptySeq
<1>2. PICK r : r = Tail(q)
  OBVIOUS
<1>3. /\ r \in Seq(StepType) /\ Len(r) = n - 1 /\ Head(q) = q[1] /\ q[1] \in StepType
      /\ \A i \in 1 .. n - 1 : i + 1 \in 1..n /\ r[i] = q[i + 1]
  BY <1>1, <1>2, HeadTailProperties
<1>4. \A i \in 1..n : i = 1 \/ (i - 1 \in 1 .. n - 1 /\ i = (i - 1) + 1)
  BY <1>1
<1>5. 1 \in 1..n
  BY <1>1
<1>6. StepsOf(q) = StepsOf(r) \cup {q[1]}
  <2>1. StepsOf(r) \subseteq StepsOf(q)
    BY <1>1, <1>3 DEF StepsOf
  <2>2. ASSUME NEW i \in 1..n PROVE q[i] \in StepsOf(r) \cup {q[1]}
    BY <1>3, <1>4, ZenonT(40) DEF StepsOf
  <2>3. q[1] \in StepsOf(q)
    BY <1>1, <1>5 DEF StepsOf
  <2> QED BY <1>1, <2>1, <2>2, <2>3 DEF StepsOf
<1>7. DeletesLast(r)
  <2> SUFFICES ASSUME NEW i \in 1 .. n - 1, r[i].op = "heapDelete" PROVE i = n - 1
    BY <1>3 DEF DeletesLast
  <2>1. i + 1 = n
    BY <1>1, <1>3 DEF DeletesLast
  <2> QED BY <2>1
<1>8. Head(q).op = "heapDelete" => n = 1
  BY <1>1, <1>3, <1>5 DEF DeletesLast
<1>9. n = 1 <=> r = <<>>
  BY <1>1, <1>3, EmptySeq
<1>10. n = 1 => StepsOf(r) = {}
  <2>1. n = 1 => 1 .. Len(r) = {}
    BY <1>3
  <2> QED BY <2>1 DEF StepsOf
<1> QED BY <1>1, <1>2, <1>3, <1>6, <1>7, <1>8, <1>9, <1>10

(* What takes a step back.                                                 *)
LEMMA UndoIs ==
    ASSUME NEW s \in StepType, s.op # "heapDelete"
    PROVE  /\ Undo(s) \in StepType /\ Undo(s).op # "heapInsert"
           /\ Undo(s).index = s.index /\ Undo(s).entry = s.entry
           /\ s.op = "indexInsert" => Undo(s).op = "indexDelete"
           /\ s.op = "indexDelete" => Undo(s).op = "indexInsert"
           /\ s.op = "heapInsert" => Undo(s).op = "heapDelete"
<1>1. PICK op : op = CASE s.op = "indexInsert" -> "indexDelete"
                       [] s.op = "indexDelete" -> "indexInsert"
                       [] s.op = "heapInsert" -> "heapDelete"
  OBVIOUS
<1>2. s.op \in {"indexInsert", "indexDelete", "heapInsert"}
  BY DEF StepType
<1>3. Undo(s) = [s EXCEPT !.op = op]
  BY <1>1 DEF Undo
<1>4. /\ s.op = "indexInsert" => op = "indexDelete"
      /\ s.op = "indexDelete" => op = "indexInsert"
      /\ s.op = "heapInsert" => op = "heapDelete"
  BY <1>1
<1> QED BY <1>2, <1>3, <1>4 DEF StepType

LEMMA UndoStepsTyped ==
    ASSUME NEW q \in Seq(StepType), KeepsTuples(q)
    PROVE  /\ UndoSteps(q) \in Seq(StepType) /\ Len(UndoSteps(q)) = Len(q)
           /\ \A n \in 1 .. Len(q) : UndoSteps(q)[n] = Undo(q[n])
           /\ UndoSteps(q) = <<>> <=> q = <<>>
<1>1. PICK n \in Nat : n = Len(q) /\ DOMAIN q = 1..n
  OBVIOUS
<1>2. PICK u : u = UndoSteps(q)
  OBVIOUS
<1>3. u = [i \in 1..n |-> Undo(q[i])]
  BY <1>1, <1>2 DEF UndoSteps
<1>4. \A i \in 1..n : q[i] \in StepType /\ q[i].op # "heapDelete"
  BY <1>1 DEF KeepsTuples
<1>5. \A i \in 1..n : Undo(q[i]) \in StepType
  BY <1>4, UndoIs
<1>6. u \in [1..n -> StepType]
  BY <1>3, <1>5
<1>7. u \in Seq(StepType) /\ Len(u) = n
  BY <1>6
<1>8. u = <<>> <=> q = <<>>
  BY <1>1, <1>7, EmptySeq
<1> QED BY <1>1, <1>2, <1>3, <1>7, <1>8

(* One more step done: one more to take back, the first.                   *)
LEMMA UndoStepsGrow ==
    ASSUME NEW q \in Seq(StepType), KeepsTuples(q), DeletesLast(UndoSteps(q)), NEW s \in IndexStep
    PROVE  /\ <<s>> \o q \in Seq(StepType) /\ KeepsTuples(<<s>> \o q)
           /\ DeletesLast(UndoSteps(<<s>> \o q))
           /\ StepsOf(UndoSteps(<<s>> \o q)) = StepsOf(UndoSteps(q)) \cup {Undo(s)}
<1>1. PICK n \in Nat : n = Len(q)
  OBVIOUS
<1>2. s \in StepType /\ s.op \in IndexOps
  BY DEF IndexStep
<1>3. s.op # "heapDelete" /\ Undo(s).op # "heapDelete"
  BY <1>2, UndoIs DEF IndexOps
<1>4. PICK r : r = <<s>> \o q
  OBVIOUS
<1>5. /\ r \in Seq(StepType) /\ Len(r) = n + 1 /\ r[1] = s
      /\ \A i \in 1..n : i + 1 \in 1 .. n + 1 /\ r[i + 1] = q[i]
  <2>1. <<s>> \in Seq(StepType) /\ Len(<<s>>) = 1 /\ <<s>>[1] = s
    BY <1>2
  <2>2. /\ r \in Seq(StepType) /\ Len(r) = 1 + n
        /\ \A i \in 1 .. 1 + n : r[i] = IF i <= 1 THEN <<s>>[i] ELSE q[i - 1]
    BY <1>1, <1>4, <2>1, ConcatProperties
  <2>3. 1 \in 1 .. 1 + n /\ \A i \in 1..n : i + 1 \in 1 .. 1 + n /\ ~(i + 1 <= 1) /\ (i + 1) - 1 = i
    OBVIOUS
  <2>4. r[1] = s
    BY <2>1, <2>2, <2>3
  <2>5. \A i \in 1..n : r[i + 1] = q[i]
    BY <2>2, <2>3
  <2> QED BY <2>2, <2>3, <2>4, <2>5
<1>6. \A i \in 1 .. n + 1 : i = 1 \/ (i - 1 \in 1..n /\ i = (i - 1) + 1)
  OBVIOUS
<1>7. KeepsTuples(r)
  <2> SUFFICES ASSUME NEW i \in 1 .. n + 1 PROVE r[i].op # "heapDelete"
    BY <1>5 DEF KeepsTuples
  <2>1. CASE i = 1
    BY <1>3, <1>5, <2>1
  <2>2. CASE i # 1
    <3>1. i - 1 \in 1..n /\ r[i] = q[i - 1]
      BY <1>5, <1>6, <2>2
    <3> QED BY <1>1, <3>1 DEF KeepsTuples
  <2> QED BY <2>1, <2>2
<1>8. PICK u, v : u = UndoSteps(q) /\ v = UndoSteps(r)
  OBVIOUS
<1>9. /\ u \in Seq(StepType) /\ Len(u) = n /\ \A i \in 1..n : u[i] = Undo(q[i])
      /\ v \in Seq(StepType) /\ Len(v) = n + 1 /\ \A i \in 1 .. n + 1 : v[i] = Undo(r[i])
  BY <1>1, <1>5, <1>7, <1>8, UndoStepsTyped
<1>10. 1 \in 1 .. n + 1 /\ v[1] = Undo(s) /\ \A i \in 1..n : i + 1 \in 1 .. n + 1 /\ v[i + 1] = u[i]
  BY <1>5, <1>9
<1>11. DeletesLast(v)
  <2> SUFFICES ASSUME NEW i \in 1 .. n + 1, v[i].op = "heapDelete" PROVE i = n + 1
    BY <1>9 DEF DeletesLast
  <2>1. i # 1
    BY <1>3, <1>10
  <2>2. i - 1 \in 1..n /\ v[i] = u[i - 1]
    BY <1>6, <1>10, <2>1
  <2>3. i - 1 = n
    BY <1>8, <1>9, <2>2 DEF DeletesLast
  <2> QED BY <2>3
<1>12. StepsOf(v) = StepsOf(u) \cup {Undo(s)}
  <2>1. ASSUME NEW i \in 1 .. n + 1 PROVE v[i] \in StepsOf(u) \cup {Undo(s)}
    <3>1. CASE i = 1
      BY <1>10, <3>1
    <3>2. CASE i # 1
      <4>1. i - 1 \in 1..n /\ v[i] = u[i - 1]
        BY <1>6, <1>10, <3>2
      <4> QED BY <1>9, <4>1 DEF StepsOf
    <3> QED BY <3>1, <3>2
  <2>2. Undo(s) \in StepsOf(v) /\ \A i \in 1..n : u[i] \in StepsOf(v)
    BY <1>9, <1>10 DEF StepsOf
  <2> QED BY <1>9, <2>1, <2>2 DEF StepsOf
<1> QED BY <1>4, <1>5, <1>7, <1>8, <1>11, <1>12

-----------------------------------------------------------------------------
(* What a step does to the statement's promises.                           *)

LEMMA EntriesAre ==
    ASSUME NEW R, NEW i, NEW e
    PROVE  e \in EntriesIn(R, i) <=> \E row \in R : e = EntryAt(i, row.tuple, row.rid)
  BY DEF EntriesIn, EntryAt

(* Old and new rows have no index entry in common.                         *)
LEMMA EntriesApart ==
    ASSUME NEW R, UniqueRids(R), NEW B, B \subseteq R, NEW i
    PROVE  \A e \in EntriesIn(B, i) : e \notin EntriesIn(R \ B, i)
<1> SUFFICES ASSUME NEW e \in EntriesIn(B, i), e \in EntriesIn(R \ B, i) PROVE FALSE
  OBVIOUS
<1>1. PICK x \in B : e = EntryAt(i, x.tuple, x.rid)
  BY EntriesAre
<1>2. PICK y \in R \ B : e = EntryAt(i, y.tuple, y.rid)
  BY EntriesAre
<1>3. x.rid = y.rid
  BY <1>1, <1>2 DEF EntryAt
<1> QED BY <1>3 DEF UniqueRids

LEMMA PickedWith ==
    ASSUME NEW Q, NEW s, NEW op, NEW i
    PROVE  Picked(Q \cup {s}, op, i) =
               Picked(Q, op, i) \cup IF s.op = op /\ s.index = i THEN {s.entry} ELSE {}
  BY DEF Picked

LEMMA SurvivorsWith ==
    ASSUME NEW R, NEW Q, NEW s, s.op # "heapDelete"
    PROVE  Survivors(R, Q \cup {s}) = Survivors(R, Q)
<1>1. Doomed(Q \cup {s}) = Doomed(Q)
  BY DEF Doomed
<1> QED BY <1>1 DEF Survivors

LEMMA NoneDoomed ==
    ASSUME NEW R
    PROVE  Survivors(R, {}) = R
<1>1. Doomed({}) = {}
  BY DEF Doomed
<1> QED BY <1>1 DEF Survivors

LEMMA OneDoomed ==
    ASSUME NEW R, NEW s, s.op = "heapDelete"
    PROVE  Survivors(R, {s}) = Others(R, s.entry.rid)
<1>1. Doomed({s}) = {s.entry.rid}
  BY DEF Doomed
<1> QED BY <1>1 DEF Survivors, Others

LEMMA EffectIs ==
    ASSUME NEW E \in AllEntries, NEW s \in IndexStep, s.index \in Index
    PROVE  /\ Effect(E, s) \in AllEntries
           /\ \A i \in Index : i # s.index => Effect(E, s)[i] = E[i]
           /\ s.op = "indexInsert" => Effect(E, s)[s.index] = E[s.index] \cup {s.entry}
           /\ s.op = "indexDelete" => Effect(E, s)[s.index] = E[s.index] \ {s.entry}
<1>1. s.entry \in Entry /\ (s.op = "indexInsert" \/ s.op = "indexDelete")
  BY DEF IndexStep, IndexOps, StepType
<1> QED BY <1>1 DEF Effect, AllEntries

\* The steps Q and one more.
WithStep(Q, s) == Q \cup {s}

(* A step done can be taken back.                                          *)
LEMMA UndoingGrows ==
    ASSUME NEW R, UniqueRids(R), NEW E \in AllEntries, NEW A \in SUBSET Index, NEW B, NEW Q,
           Undoing(R, E, A, B, Q), NEW s \in IndexStep, ForwardStep(R, B, s)
    PROVE  Undoing(R, Effect(E, s), A, B, Q \cup {Undo(s)})
<1>0. s \in StepType /\ (s.op = "indexInsert" \/ s.op = "indexDelete") /\ s.op # "heapDelete"
  BY DEF IndexStep, IndexOps
<1>1. s.index \in Index
  BY <1>0 DEF ForwardStep
<1>2. PICK u : u = Undo(s)
  OBVIOUS
<1>3. /\ u.index = s.index /\ u.entry = s.entry /\ u.op # "heapInsert" /\ u.op # "heapDelete"
      /\ s.op = "indexInsert" => u.op = "indexDelete"
      /\ s.op = "indexDelete" => u.op = "indexInsert"
  BY <1>0, <1>2, UndoIs
<1>4. BackwardStep(R, B, u)
  BY <1>0, <1>3 DEF ForwardStep, BackwardStep
<1>5. /\ B = Survivors(R, Q) /\ \A x \in Q : BackwardStep(R, B, x)
      /\ \A i \in A : EntriesIn(B, i) = (E[i] \ Picked(Q, "indexDelete", i)) \cup Picked(Q, "indexInsert", i)
  BY DEF Undoing
<1>6. B = Survivors(R, Q \cup {u}) /\ B \subseteq R
  <2>1. B = Survivors(R, Q \cup {u})
    BY <1>3, <1>5, SurvivorsWith
  <2> QED BY <1>5, <2>1 DEF Survivors
<1>7. \A x \in Q \cup {u} : BackwardStep(R, B, x)
  BY <1>4, <1>5
<1>8. ASSUME NEW i \in A
      PROVE  EntriesIn(B, i) = (Effect(E, s)[i] \ Picked(Q \cup {u}, "indexDelete", i))
                                   \cup Picked(Q \cup {u}, "indexInsert", i)
  <2>1. PICK N, F, D, I, D2, I2 :
            /\ N = EntriesIn(B, i) /\ F = Effect(E, s)[i]
            /\ D = Picked(Q, "indexDelete", i) /\ I = Picked(Q, "indexInsert", i)
            /\ D2 = Picked(Q \cup {u}, "indexDelete", i) /\ I2 = Picked(Q \cup {u}, "indexInsert", i)
    OBVIOUS
  <2>2. N = (E[i] \ D) \cup I
    BY <1>5, <2>1
  <2>3. /\ D2 = D \cup IF u.op = "indexDelete" /\ u.index = i THEN {u.entry} ELSE {}
        /\ I2 = I \cup IF u.op = "indexInsert" /\ u.index = i THEN {u.entry} ELSE {}
    BY <2>1, PickedWith
  <2>4. CASE i # s.index
    <3>1. F = E[i] /\ D2 = D /\ I2 = I
      BY <1>1, <1>3, <2>1, <2>3, <2>4, EffectIs
    <3> QED BY <2>1, <2>2, <3>1
  <2>5. CASE i = s.index /\ s.op = "indexInsert"
    <3>1. F = E[i] \cup {s.entry}
      BY <1>1, <2>1, <2>5, EffectIs
    <3>2. D2 = D \cup {s.entry} /\ I2 = I
      BY <1>3, <2>3, <2>5
    <3>3. s.entry \in EntriesIn(R \ B, i)
      BY <2>5 DEF ForwardStep
    <3>4. s.entry \notin N
      BY <1>6, <2>1, <3>3, EntriesApart
    <3>5. N = (F \ D2) \cup I2
      BY <2>2, <3>1, <3>2, <3>4
    <3> QED BY <2>1, <3>5
  <2>6. CASE i = s.index /\ s.op = "indexDelete"
    <3>1. F = E[i] \ {s.entry}
      BY <1>1, <2>1, <2>6, EffectIs
    <3>2. D2 = D /\ I2 = I \cup {s.entry}
      BY <1>3, <2>3, <2>6
    <3>3. s.entry \in N
      BY <2>1, <2>6 DEF ForwardStep
    <3>5. N = (F \ D2) \cup I2
      BY <2>2, <3>1, <3>2, <3>3
    <3> QED BY <2>1, <3>5
  <2> QED BY <1>0, <2>4, <2>5, <2>6
<1>9. Undoing(R, Effect(E, s), A, B, Q \cup {u})
  BY <1>6, <1>7, <1>8 DEF Undoing
<1> QED BY <1>2, <1>9

(* The steps that are left of a statement.                                 *)
LEMMA DoingShrinks ==
    ASSUME NEW R, UniqueRids(R), NEW E \in AllEntries, NEW A \in SUBSET Index, NEW B, B \subseteq R, NEW Q,
           NEW s \in IndexStep, NEW T, T = WithStep(Q, s), Doing(R, E, A, B, T)
    PROVE  /\ Doing(R, Effect(E, s), A, B, Q) /\ ForwardStep(R, B, s)
           /\ Survivors(R, Q) = Survivors(R, T)
<1> USE DEF WithStep
<1>0. s \in StepType /\ (s.op = "indexInsert" \/ s.op = "indexDelete") /\ s.op # "heapDelete"
  BY DEF IndexStep, IndexOps
<1>5. /\ \A i \in A : EntriesIn(Survivors(R, Q \cup {s}), i) =
            (E[i] \cup Picked(Q \cup {s}, "indexInsert", i)) \ Picked(Q \cup {s}, "indexDelete", i)
      /\ \A x \in Q \cup {s} : ForwardStep(R, B, x)
  BY DEF Doing
<1>1. ForwardStep(R, B, s) /\ s.index \in Index
  BY <1>0, <1>5 DEF ForwardStep
<1>2. Survivors(R, Q \cup {s}) = Survivors(R, Q)
  BY <1>0, SurvivorsWith
<1>8. ASSUME NEW i \in A
      PROVE  EntriesIn(Survivors(R, Q), i) =
                 (Effect(E, s)[i] \cup Picked(Q, "indexInsert", i)) \ Picked(Q, "indexDelete", i)
  <2>1. PICK N, F, D, I, D2, I2 :
            /\ N = EntriesIn(Survivors(R, Q), i) /\ F = Effect(E, s)[i]
            /\ D = Picked(Q, "indexDelete", i) /\ I = Picked(Q, "indexInsert", i)
            /\ D2 = Picked(Q \cup {s}, "indexDelete", i) /\ I2 = Picked(Q \cup {s}, "indexInsert", i)
    OBVIOUS
  <2>2. N = (E[i] \cup I2) \ D2
    BY <1>2, <1>5, <2>1
  <2>3. /\ D2 = D \cup IF s.op = "indexDelete" /\ s.index = i THEN {s.entry} ELSE {}
        /\ I2 = I \cup IF s.op = "indexInsert" /\ s.index = i THEN {s.entry} ELSE {}
    BY <2>1, PickedWith
  <2>4. CASE i # s.index
    <3>1. F = E[i]
      BY <1>1, <2>1, <2>4, EffectIs
    <3>2. D2 = D /\ I2 = I
      BY <2>3, <2>4
    <3> QED BY <2>1, <2>2, <3>1, <3>2
  <2>5. CASE i = s.index /\ s.op = "indexInsert"
    <3>1. F = E[i] \cup {s.entry}
      BY <1>1, <2>1, <2>5, EffectIs
    <3>2. D2 = D /\ I2 = I \cup {s.entry}
      BY <2>3, <2>5
    <3>5. N = (F \cup I) \ D
      BY <2>2, <3>1, <3>2
    <3> QED BY <2>1, <3>5
  <2>6. CASE i = s.index /\ s.op = "indexDelete"
    <3>1. F = E[i] \ {s.entry}
      BY <1>1, <2>1, <2>6, EffectIs
    <3>2. D2 = D \cup {s.entry} /\ I2 = I
      BY <2>3, <2>6
    <3>3. s.entry \in EntriesIn(B, i)
      BY <1>1, <2>6 DEF ForwardStep
    <3>4. ASSUME NEW e \in I PROVE e # s.entry
      <4>1. PICK x \in Q : x.op = "indexInsert" /\ x.index = i /\ x.entry = e
        BY <2>1, <3>4 DEF Picked
      <4>2. e \in EntriesIn(R \ B, i)
        BY <1>5, <4>1 DEF ForwardStep
      <4> QED BY <3>3, <4>2, EntriesApart
    <3>5. N = (F \cup I) \ D
      BY <2>2, <3>1, <3>2, <3>4
    <3> QED BY <2>1, <3>5
  <2> QED BY <1>0, <2>4, <2>5, <2>6
<1>9. Doing(R, Effect(E, s), A, B, Q)
  BY <1>5, <1>8 DEF Doing
<1> QED BY <1>1, <1>2, <1>9

(* The steps that are left of a rollback.                                  *)
LEMMA UndoingShrinks ==
    ASSUME NEW R, UniqueRids(R), NEW E \in AllEntries, NEW A \in SUBSET Index, NEW B, NEW Q,
           NEW s \in IndexStep, NEW T, T = WithStep(Q, s), Undoing(R, E, A, B, T)
    PROVE  Undoing(R, Effect(E, s), A, B, Q)
<1> USE DEF WithStep
<1>0. s \in StepType /\ (s.op = "indexInsert" \/ s.op = "indexDelete") /\ s.op # "heapDelete"
  BY DEF IndexStep, IndexOps
<1>5. /\ B = Survivors(R, Q \cup {s})
      /\ \A i \in A : EntriesIn(B, i) =
            (E[i] \ Picked(Q \cup {s}, "indexDelete", i)) \cup Picked(Q \cup {s}, "indexInsert", i)
      /\ \A x \in Q \cup {s} : BackwardStep(R, B, x)
  BY DEF Undoing
<1>1. BackwardStep(R, B, s) /\ s.index \in Index
  BY <1>0, <1>5 DEF BackwardStep
<1>2. B = Survivors(R, Q) /\ B \subseteq R
  <2>1. B = Survivors(R, Q)
    BY <1>0, <1>5, SurvivorsWith
  <2> QED BY <2>1 DEF Survivors
<1>8. ASSUME NEW i \in A
      PROVE  EntriesIn(B, i) =
                 (Effect(E, s)[i] \ Picked(Q, "indexDelete", i)) \cup Picked(Q, "indexInsert", i)
  <2>1. PICK N, F, D, I, D2, I2 :
            /\ N = EntriesIn(B, i) /\ F = Effect(E, s)[i]
            /\ D = Picked(Q, "indexDelete", i) /\ I = Picked(Q, "indexInsert", i)
            /\ D2 = Picked(Q \cup {s}, "indexDelete", i) /\ I2 = Picked(Q \cup {s}, "indexInsert", i)
    OBVIOUS
  <2>2. N = (E[i] \ D2) \cup I2
    BY <1>5, <2>1
  <2>3. /\ D2 = D \cup IF s.op = "indexDelete" /\ s.index = i THEN {s.entry} ELSE {}
        /\ I2 = I \cup IF s.op = "indexInsert" /\ s.index = i THEN {s.entry} ELSE {}
    BY <2>1, PickedWith
  <2>4. CASE i # s.index
    <3>1. F = E[i]
      BY <1>1, <2>1, <2>4, EffectIs
    <3>2. D2 = D /\ I2 = I
      BY <2>3, <2>4
    <3> QED BY <2>1, <2>2, <3>1, <3>2
  <2>5. CASE i = s.index /\ s.op = "indexDelete"
    <3>1. F = E[i] \ {s.entry}
      BY <1>1, <2>1, <2>5, EffectIs
    <3>2. D2 = D \cup {s.entry} /\ I2 = I
      BY <2>3, <2>5
    <3>5. N = (F \ D) \cup I
      BY <2>2, <3>1, <3>2
    <3> QED BY <2>1, <3>5
  <2>6. CASE i = s.index /\ s.op = "indexInsert"
    <3>1. F = E[i] \cup {s.entry}
      BY <1>1, <2>1, <2>6, EffectIs
    <3>2. D2 = D /\ I2 = I \cup {s.entry}
      BY <2>3, <2>6
    <3>3. s.entry \in EntriesIn(B, i)
      BY <1>1, <2>6 DEF BackwardStep
    <3>4. s.entry \notin D
      <4> SUFFICES ASSUME s.entry \in D PROVE FALSE
        OBVIOUS
      <4>1. PICK x \in Q : x.op = "indexDelete" /\ x.index = i /\ x.entry = s.entry
        BY <2>1 DEF Picked
      <4>2. s.entry \in EntriesIn(R \ B, i)
        BY <1>5, <4>1 DEF BackwardStep
      <4> QED BY <1>2, <3>3, <4>2, EntriesApart
    <3>5. N = (F \ D) \cup I
      BY <2>2, <3>1, <3>2, <3>4
    <3> QED BY <2>1, <3>5
  <2> QED BY <1>0, <2>4, <2>5, <2>6
<1> QED BY <1>2, <1>5, <1>8 DEF Undoing

(* No step is left, or only the one that deletes a tuple.                  *)
LEMMA NothingLeft ==
    ASSUME NEW R, NEW E, NEW A, NEW B
    PROVE  /\ Doing(R, E, A, B, {}) => \A i \in A : E[i] = EntriesIn(R, i)
           /\ Undoing(R, E, A, B, {}) => B = R /\ \A i \in A : E[i] = EntriesIn(R, i)
<1>1. \A op, i : Picked({}, op, i) = {}
  BY DEF Picked
<1>2. Survivors(R, {}) = R
  BY NoneDoomed
<1>3. ASSUME Doing(R, E, A, B, {}), NEW i \in A PROVE E[i] = EntriesIn(R, i)
  <2>1. EntriesIn(Survivors(R, {}), i) = (E[i] \cup Picked({}, "indexInsert", i)) \ Picked({}, "indexDelete", i)
    BY <1>3 DEF Doing
  <2> QED BY <1>1, <1>2, <2>1
<1>4. ASSUME Undoing(R, E, A, B, {}) PROVE B = R /\ \A i \in A : E[i] = EntriesIn(R, i)
  <2>1. B = R
    BY <1>2, <1>4 DEF Undoing
  <2>2. ASSUME NEW i \in A PROVE E[i] = EntriesIn(R, i)
    <3>1. EntriesIn(B, i) = (E[i] \ Picked({}, "indexDelete", i)) \cup Picked({}, "indexInsert", i)
      BY <1>4 DEF Undoing
    <3> QED BY <1>1, <2>1, <3>1
  <2> QED BY <2>1, <2>2
<1> QED BY <1>3, <1>4

LEMMA DeleteLeft ==
    ASSUME NEW R, NEW E, NEW A, NEW B, NEW s \in StepType, s.op = "heapDelete", NEW S, S = Others(R, s.entry.rid),
           NEW Q, Q = {s}
    PROVE  /\ Doing(R, E, A, B, Q) => Match(S, E, A)
           /\ Undoing(R, E, A, B, Q) => B = S /\ Match(S, E, A)
<1>1. \A i : Picked({s}, "indexInsert", i) = {} /\ Picked({s}, "indexDelete", i) = {}
  BY DEF Picked
<1>2. Survivors(R, {s}) = S
  BY OneDoomed
<1>3. ASSUME Doing(R, E, A, B, Q), NEW i \in A PROVE E[i] = EntriesIn(S, i)
  <2>1. EntriesIn(Survivors(R, {s}), i) = (E[i] \cup Picked({s}, "indexInsert", i)) \ Picked({s}, "indexDelete", i)
    BY <1>3 DEF Doing
  <2> QED BY <1>1, <1>2, <2>1
<1>4. ASSUME Undoing(R, E, A, B, Q) PROVE B = S /\ Match(S, E, A)
  <2>1. B = S
    BY <1>2, <1>4 DEF Undoing
  <2>2. ASSUME NEW i \in A PROVE E[i] = EntriesIn(S, i)
    <3>1. EntriesIn(B, i) = (E[i] \ Picked({s}, "indexDelete", i)) \cup Picked({s}, "indexInsert", i)
      BY <1>4 DEF Undoing
    <3> QED BY <1>1, <2>1, <3>1
  <2> QED BY <2>1, <2>2 DEF Match
<1> QED BY <1>3, <1>4 DEF Match

-----------------------------------------------------------------------------
(* How a statement begins.                                                 *)

StepsFor(op, A, row) == {Step(op, i, row.tuple, row.rid) : i \in A}

LEMMA PickedFor ==
    ASSUME NEW A \in SUBSET Index, NEW row \in Row, NEW op \in IndexOps, NEW i \in A
    PROVE  /\ Picked(StepsFor(op, A, row), op, i) = {EntryAt(i, row.tuple, row.rid)}
           /\ \A o : o # op => Picked(StepsFor(op, A, row), o, i) = {}
           /\ Doomed(StepsFor(op, A, row)) = {}
<1>1. row.tuple \in Tuple /\ row.rid \in RidType
  BY DEF Row
<1>2. ASSUME NEW j \in A
      PROVE  /\ Step(op, j, row.tuple, row.rid).op = op /\ Step(op, j, row.tuple, row.rid).index = j
             /\ Step(op, j, row.tuple, row.rid).entry = EntryAt(j, row.tuple, row.rid)
  BY <1>1, StepIs
<1>3. \A s \in StepsFor(op, A, row) :
          s.op = op /\ s.index \in A /\ s.entry = EntryAt(s.index, row.tuple, row.rid)
  BY <1>2 DEF StepsFor
<1>4. \E s \in StepsFor(op, A, row) : s.index = i
  BY <1>2 DEF StepsFor
<1>5. op # "heapDelete"
  BY DEF IndexOps
<1>6. Doomed(StepsFor(op, A, row)) = {}
  BY <1>3, <1>5 DEF Doomed
<1>7. Picked(StepsFor(op, A, row), op, i) = {EntryAt(i, row.tuple, row.rid)}
  BY <1>3, <1>4 DEF Picked
<1>8. ASSUME NEW o, o # op PROVE Picked(StepsFor(op, A, row), o, i) = {}
  BY <1>3, <1>8 DEF Picked
<1> QED BY <1>6, <1>7, <1>8

(* Two sets of steps.                                                      *)
LEMMA PickedTogether ==
    ASSUME NEW P, NEW Q, NEW op, NEW i
    PROVE  /\ Picked(P \cup Q, op, i) = Picked(P, op, i) \cup Picked(Q, op, i)
           /\ Doomed(P \cup Q) = Doomed(P) \cup Doomed(Q)
<1>1. Picked(P \cup Q, op, i) = Picked(P, op, i) \cup Picked(Q, op, i)
  BY DEF Picked
<1>2. Doomed(P \cup Q) = Doomed(P) \cup Doomed(Q)
  BY DEF Doomed
<1> QED BY <1>1, <1>2

(* The tuple that was inserted is what a rollback takes away.              *)
LEMMA StartUndoing ==
    ASSUME NEW R, NEW E, NEW A, NEW new, Match(R, E, A), Fresh(R, new),
           NEW u \in StepType, u.op = "heapDelete", u.entry.rid = new.rid
    PROVE  Undoing(WithRow(R, new), E, A, R, {u}) /\ Undoing(R, E, A, R, {})
<1>1. \A op, i : op # "heapDelete" => Picked({u}, op, i) = {}
  BY DEF Picked
<1>2. \A op, i : Picked({}, op, i) = {}
  BY DEF Picked
<1>3. R = Survivors(WithRow(R, new), {u})
  <2>1. Survivors(WithRow(R, new), {u}) = Others(WithRow(R, new), u.entry.rid)
    BY OneDoomed
  <2> QED BY <2>1 DEF Others, WithRow, Fresh
<1>4. R = Survivors(R, {})
  BY NoneDoomed
<1>5. Undoing(R, E, A, R, {})
  BY <1>2, <1>4 DEF Undoing, Match
<1>6. BackwardStep(WithRow(R, new), R, u)
  BY DEF BackwardStep
<1>7. Undoing(WithRow(R, new), E, A, R, {u})
  BY <1>1, <1>3, <1>6 DEF Undoing, Match
<1> QED BY <1>5, <1>7

(* The entries of the rows with one more, and with one less.               *)
LEMMA EntriesWith ==
    ASSUME NEW R, NEW new, NEW i
    PROVE  EntriesIn(WithRow(R, new), i) = EntriesIn(R, i) \cup {EntryAt(i, new.tuple, new.rid)}
  BY DEF EntriesIn, EntryAt, WithRow

LEMMA EntriesWithout ==
    ASSUME NEW R, UniqueRids(R), NEW row \in R, NEW i
    PROVE  EntriesIn(Others(R, row.rid), i) = EntriesIn(R, i) \ {EntryAt(i, row.tuple, row.rid)}
<1>1. ASSUME NEW x \in R, EntryAt(i, x.tuple, x.rid) = EntryAt(i, row.tuple, row.rid) PROVE x.rid = row.rid
  BY <1>1 DEF EntryAt
<1>2. ASSUME NEW x \in R, x.rid = row.rid PROVE x = row
  BY <1>2 DEF UniqueRids
<1>3. ASSUME NEW e \in EntriesIn(Others(R, row.rid), i)
      PROVE  e \in EntriesIn(R, i) /\ e # EntryAt(i, row.tuple, row.rid)
  <2>1. PICK x \in Others(R, row.rid) : e = EntryAt(i, x.tuple, x.rid)
    BY EntriesAre
  <2>2. x \in R /\ x.rid # row.rid
    BY DEF Others
  <2> QED BY <1>1, <2>1, <2>2, EntriesAre
<1>4. ASSUME NEW e \in EntriesIn(R, i), e # EntryAt(i, row.tuple, row.rid)
      PROVE  e \in EntriesIn(Others(R, row.rid), i)
  <2>1. PICK x \in R : e = EntryAt(i, x.tuple, x.rid)
    BY EntriesAre
  <2>2. x.rid # row.rid
    BY <1>2, <1>4, <2>1
  <2>3. x \in Others(R, row.rid)
    BY <2>2 DEF Others
  <2> QED BY <2>1, <2>3, EntriesAre
<1> QED BY <1>3, <1>4

LEMMA NoneDoomedFor ==
    ASSUME NEW A \in SUBSET Index, NEW row \in Row, NEW op \in IndexOps
    PROVE  Doomed(StepsFor(op, A, row)) = {}
<1>1. row.tuple \in Tuple /\ row.rid \in RidType /\ op # "heapDelete"
  BY DEF Row, IndexOps
<1>2. ASSUME NEW i \in A PROVE Step(op, i, row.tuple, row.rid).op # "heapDelete"
  BY <1>1, StepIs
<1>3. \A s \in StepsFor(op, A, row) : s.op # "heapDelete"
  BY <1>2 DEF StepsFor
<1> QED BY <1>3 DEF Doomed

LEMMA StepsForForward ==
    ASSUME NEW R, NEW A \in SUBSET Index, NEW B, NEW row \in Row, NEW op \in IndexOps,
           op = "indexInsert" => row \in R \ B, op = "indexDelete" => row \in B
    PROVE  \A s \in StepsFor(op, A, row) : ForwardStep(R, B, s)
<1> SUFFICES ASSUME NEW i \in A PROVE ForwardStep(R, B, Step(op, i, row.tuple, row.rid))
  BY DEF StepsFor
<1>1. row.tuple \in Tuple /\ row.rid \in RidType
  BY DEF Row
<1>2. PICK s : s = Step(op, i, row.tuple, row.rid)
  OBVIOUS
<1>3. s.op = op /\ s.index = i /\ s.entry = EntryAt(i, row.tuple, row.rid)
  BY <1>1, <1>2, StepIs
<1>4. /\ op = "indexInsert" => s.entry \in EntriesIn(R \ B, i)
      /\ op = "indexDelete" => s.entry \in EntriesIn(B, i)
  BY <1>3, EntriesAre
<1>5. ForwardStep(R, B, s)
  BY <1>3, <1>4 DEF ForwardStep, IndexOps
<1> QED BY <1>2, <1>5

LEMMA StartDelete ==
    ASSUME NEW R, UniqueRids(R), R \subseteq Row, NEW E, NEW A \in SUBSET Index, NEW S \in SUBSET A, Match(R, E, S),
           NEW row \in R, NEW d \in StepType, d.op = "heapDelete", d.entry.rid = row.rid,
           NEW Q, Q = StepsFor("indexDelete", A, row) \cup {d}
    PROVE  Doing(R, E, S, R, Q) /\ Survivors(R, Q) = Others(R, row.rid)
<1>0. row \in Row /\ "indexDelete" \in IndexOps /\ "indexDelete" # "indexInsert"
  BY DEF IndexOps
<1>1. \A i : Picked({d}, "indexInsert", i) = {} /\ Picked({d}, "indexDelete", i) = {}
  BY DEF Picked
<1>2. Doomed({d}) = {row.rid}
  BY DEF Doomed
<1>3. \A i \in A : /\ Picked(Q, "indexDelete", i) = {EntryAt(i, row.tuple, row.rid)}
                   /\ Picked(Q, "indexInsert", i) = {}
  <2> SUFFICES ASSUME NEW i \in A
               PROVE  /\ Picked(Q, "indexDelete", i) = {EntryAt(i, row.tuple, row.rid)}
                      /\ Picked(Q, "indexInsert", i) = {}
    OBVIOUS
  <2>1. PICK P : P = StepsFor("indexDelete", A, row)
    OBVIOUS
  <2>2. Picked(P, "indexDelete", i) = {EntryAt(i, row.tuple, row.rid)} /\ Picked(P, "indexInsert", i) = {}
    BY <1>0, <2>1, PickedFor
  <2>3. \A op : Picked(Q, op, i) = Picked(P, op, i) \cup Picked({d}, op, i)
    BY <2>1, PickedTogether
  <2> QED BY <1>1, <2>2, <2>3
<1>4. Survivors(R, Q) = Others(R, row.rid)
  <2>1. PICK P : P = StepsFor("indexDelete", A, row)
    OBVIOUS
  <2>2. Doomed(P) = {}
    BY <1>0, <2>1, NoneDoomedFor
  <2>3. Doomed(Q) = Doomed(P) \cup Doomed({d})
    BY <2>1, PickedTogether
  <2>4. Doomed(Q) = {row.rid}
    BY <1>2, <2>2, <2>3
  <2> QED BY <2>4 DEF Survivors, Others
<1>5. ASSUME NEW i \in S
      PROVE  EntriesIn(Survivors(R, Q), i) = (E[i] \cup Picked(Q, "indexInsert", i)) \ Picked(Q, "indexDelete", i)
  <2>1. EntriesIn(Others(R, row.rid), i) = EntriesIn(R, i) \ {EntryAt(i, row.tuple, row.rid)}
    BY EntriesWithout
  <2>2. E[i] = EntriesIn(R, i)
    BY DEF Match
  <2> QED BY <1>3, <1>4, <2>1, <2>2
<1>6. \A s \in StepsFor("indexDelete", A, row) : ForwardStep(R, R, s)
  BY <1>0, StepsForForward
<1>7. ForwardStep(R, R, d)
  BY DEF ForwardStep
<1>8. \A s \in Q : ForwardStep(R, R, s)
  BY <1>6, <1>7
<1> QED BY <1>4, <1>5, <1>8 DEF Doing

LEMMA StartInsert ==
    ASSUME NEW R, NEW E, NEW A \in SUBSET Index, NEW S \in SUBSET A, Match(R, E, S),
           NEW new \in Row, Fresh(R, new), NEW Q, Q = StepsFor("indexInsert", A, new)
    PROVE  Doing(WithRow(R, new), E, S, R, Q) /\ Survivors(WithRow(R, new), Q) = WithRow(R, new)
<1>0. "indexInsert" \in IndexOps /\ "indexDelete" # "indexInsert"
  BY DEF IndexOps
<1>1. Doomed(Q) = {}
  BY <1>0, NoneDoomedFor
<1>2. Survivors(WithRow(R, new), Q) = WithRow(R, new)
  BY <1>1 DEF Survivors
<1>3. new \in WithRow(R, new) \ R
  BY DEF WithRow, Fresh
<1>4. \A s \in Q : ForwardStep(WithRow(R, new), R, s)
  BY <1>0, <1>3, StepsForForward
<1>5. ASSUME NEW i \in S
      PROVE  EntriesIn(WithRow(R, new), i) = (E[i] \cup Picked(Q, "indexInsert", i)) \ Picked(Q, "indexDelete", i)
  <2>1. Picked(Q, "indexInsert", i) = {EntryAt(i, new.tuple, new.rid)} /\ Picked(Q, "indexDelete", i) = {}
    BY <1>0, PickedFor
  <2>2. EntriesIn(WithRow(R, new), i) = EntriesIn(R, i) \cup {EntryAt(i, new.tuple, new.rid)}
    BY EntriesWith
  <2>3. E[i] = EntriesIn(R, i)
    BY DEF Match
  <2> QED BY <2>1, <2>2, <2>3
<1> QED BY <1>2, <1>4, <1>5 DEF Doing

LEMMA StartUpdate ==
    ASSUME NEW R, UniqueRids(R), R \subseteq Row, NEW E, NEW A \in SUBSET Index, NEW S \in SUBSET A, Match(R, E, S),
           NEW new \in Row, Fresh(R, new),
           NEW row \in R, NEW d \in StepType, d.op = "heapDelete", d.entry.rid = row.rid,
           NEW Q, Q = StepsFor("indexInsert", A, new) \cup (StepsFor("indexDelete", A, row) \cup {d})
    PROVE  /\ Doing(WithRow(R, new), E, S, R, Q)
           /\ Survivors(WithRow(R, new), Q) = WithRow(Others(R, row.rid), new)
<1>0. /\ "indexInsert" \in IndexOps /\ "indexDelete" \in IndexOps /\ "indexDelete" # "indexInsert"
      /\ row \in Row /\ new.rid # row.rid
  BY DEF IndexOps, Fresh
<1>1. PICK P, D : P = StepsFor("indexInsert", A, new) /\ D = StepsFor("indexDelete", A, row) \cup {d}
  OBVIOUS
<1>2. Q = P \cup D
  BY <1>1
<1>4. Doing(WithRow(R, new), E, S, R, P)
  BY <1>1, StartInsert
<1>5. Doomed(Q) = {row.rid}
  <2>1. Doomed(P) = {} /\ Doomed(StepsFor("indexDelete", A, row)) = {}
    BY <1>0, <1>1, NoneDoomedFor
  <2>2. Doomed({d}) = {row.rid}
    BY DEF Doomed
  <2>3. Doomed(Q) = Doomed(P) \cup Doomed(D)
    BY <1>2, PickedTogether
  <2>4. Doomed(D) = Doomed(StepsFor("indexDelete", A, row)) \cup Doomed({d})
    BY <1>1, PickedTogether
  <2> QED BY <2>1, <2>2, <2>3, <2>4
<1>6. Survivors(WithRow(R, new), Q) = WithRow(Others(R, row.rid), new)
  BY <1>0, <1>5 DEF Survivors, Others, WithRow
<1>7. ASSUME NEW i \in S
      PROVE  EntriesIn(WithRow(Others(R, row.rid), new), i) =
                 (E[i] \cup Picked(Q, "indexInsert", i)) \ Picked(Q, "indexDelete", i)
  <2>1. PICK old, e : old = EntryAt(i, row.tuple, row.rid) /\ e = EntryAt(i, new.tuple, new.rid)
    OBVIOUS
  <2>2. old # e
    BY <1>0, <2>1 DEF EntryAt
  <2>3. Picked(P, "indexInsert", i) = {e} /\ Picked(P, "indexDelete", i) = {}
    BY <1>0, <1>1, <2>1, PickedFor
  <2>4. /\ Picked(StepsFor("indexDelete", A, row), "indexDelete", i) = {old}
        /\ Picked(StepsFor("indexDelete", A, row), "indexInsert", i) = {}
    BY <1>0, <2>1, PickedFor
  <2>5. Picked({d}, "indexInsert", i) = {} /\ Picked({d}, "indexDelete", i) = {}
    BY DEF Picked
  <2>6. \A op : /\ Picked(Q, op, i) = Picked(P, op, i) \cup Picked(D, op, i)
                /\ Picked(D, op, i) = Picked(StepsFor("indexDelete", A, row), op, i) \cup Picked({d}, op, i)
    BY <1>1, <1>2, PickedTogether
  <2>7. Picked(Q, "indexInsert", i) = {e} /\ Picked(Q, "indexDelete", i) = {old}
    BY <2>3, <2>4, <2>5, <2>6
  <2>8. EntriesIn(WithRow(Others(R, row.rid), new), i) = EntriesIn(Others(R, row.rid), i) \cup {e}
    BY <2>1, EntriesWith
  <2>9. EntriesIn(Others(R, row.rid), i) = EntriesIn(R, i) \ {old}
    BY <2>1, EntriesWithout
  <2>10. E[i] = EntriesIn(R, i)
    BY DEF Match
  <2> QED BY <2>2, <2>7, <2>8, <2>9, <2>10
<1>8. ForwardStep(WithRow(R, new), R, d)
  BY DEF ForwardStep
<1>9. \A s \in StepsFor("indexDelete", A, row) : ForwardStep(WithRow(R, new), R, s)
  BY <1>0, StepsForForward
<1>10. \A s \in P : ForwardStep(WithRow(R, new), R, s)
  BY <1>4 DEF Doing
<1>11. \A s \in Q : ForwardStep(WithRow(R, new), R, s)
  BY <1>1, <1>2, <1>8, <1>9, <1>10
<1> QED BY <1>6, <1>7, <1>11 DEF Doing

(* Unique keys.                                                            *)
LEMMA FewerKeys ==
    ASSUME NEW R, NEW S, S \subseteq R, NEW I, KeysUnique(R, I)
    PROVE  KeysUnique(S, I)
  BY DEF KeysUnique

LEMMA KeysWith ==
    ASSUME NEW S, NEW new, NEW I, KeysUnique(S, I),
           \A i \in I : \A x \in S : KeyOf(i, x.tuple) # KeyOf(i, new.tuple)
    PROVE  KeysUnique(WithRow(S, new), I)
  BY DEF KeysUnique, WithRow

-----------------------------------------------------------------------------
(* The heap and the statements.                                            *)

LEMMA RowsSound ==
    ASSUME TypeOK
    PROVE  /\ Rows \subseteq Row /\ UniqueRids(Rows)
           /\ entries \in AllEntries /\ attached \in SUBSET Index /\ HeapOK(heap)
           /\ Sound \in SUBSET attached /\ Sound \in SUBSET Index /\ 0 \notin torn
           /\ \A R : R = Rows => R \subseteq Row /\ UniqueRids(R)
<1>1. HeapOK(heap) /\ entries \in AllEntries /\ attached \in SUBSET Index
  BY DEF TypeOK
<1>2. Rows \subseteq Row /\ UniqueRids(Rows)
  BY <1>1, RowsTyped DEF Rows
<1>3. Sound \in SUBSET attached /\ Sound \in SUBSET Index /\ 0 \notin torn
  BY <1>1, TableAssumption DEF TypeOK, Sound
<1> QED BY <1>1, <1>2, <1>3

(* The heap part of an insert.                                             *)
LEMMA HeapGrows ==
    ASSUME TypeOK, NEW t \in Tuple, NEW p \in 1 .. MaxPages, IsPageForInsert(p, SizeOf(t)),
           SetPage(p, Inserted(p, t).page)
    PROVE  /\ HeapOK(heap') /\ DOMAIN fsm' = DOMAIN heap' /\ Len(heap') >= Len(heap)
           /\ \E new \in Row : /\ new.tuple = t /\ new.rid = Inserted(p, t).rid
                               /\ RowsOf(heap') = WithRow(Rows, new) /\ Fresh(Rows, new)
<1>1. HeapOK(heap) /\ DOMAIN fsm = DOMAIN heap
  BY DEF TypeOK
<1>2. PICK k \in Nat : k = Len(heap) /\ DOMAIN heap = 1..k
  BY <1>1 DEF HeapOK
<1>3. p \in 1 .. Len(heap) + 1
  <2>1. p = Len(heap) + 1 \/ p \in DOMAIN fsm
    BY DEF IsPageForInsert, CandidatePages
  <2> QED BY <1>1, <1>2, <2>1
<1>4. PICK h, page, n : h = heap /\ page = PageAt(h, p) /\ n = SlotForInsert(page)
  OBVIOUS
<1>5. PICK filled : filled = InsertRecord(page, t, SizeOf(t))
  OBVIOUS
<1>6. Inserted(p, t) = [page |-> filled, rid |-> <<p, n>>]
  BY <1>4, <1>5 DEF Inserted, PageAt
<1>7. PICK h2 : h2 = WithPage(h, p, filled)
  OBVIOUS
<1>8. heap' = h2 /\ DOMAIN fsm' = DOMAIN heap'
  BY <1>4, <1>6, <1>7 DEF SetPage, WithPage
<1>9. PICK new : new = RowAt(p, n, t)
  OBVIOUS
<1>10. /\ HeapOK(h2) /\ Len(h2) >= Len(h) /\ new \in Row
       /\ RowsOf(h2) = WithRow(RowsOf(h), new) /\ Fresh(RowsOf(h), new)
  <2>1. HeapOK(h) /\ p \in 1 .. Len(h) + 1
    BY <1>1, <1>3, <1>4
  <2>2. h2 = WithPage(h, p, InsertRecord(PageAt(h, p), t, SizeOf(t)))
    BY <1>4, <1>5, <1>7
  <2>3. new = RowAt(p, SlotForInsert(PageAt(h, p)), t)
    BY <1>4, <1>9
  <2> QED BY <2>1, <2>2, <2>3, HeapInserted
<1>11. new.tuple = t /\ new.rid = Inserted(p, t).rid
  BY <1>6, <1>9 DEF RowAt
<1> QED BY <1>4, <1>8, <1>10, <1>11 DEF Rows

(* The heap delete.                                                        *)
LEMMA HeapShrinks ==
    ASSUME TypeOK, NEW row \in Rows, HeapDelete(row.rid)
    PROVE  /\ HeapOK(heap') /\ DOMAIN fsm' = DOMAIN heap' /\ Len(heap') >= Len(heap)
           /\ RowsOf(heap') = Others(Rows, row.rid)
<1>1. PICK h, p, n : h = heap /\ p = row.rid[1] /\ n = row.rid[2]
  OBVIOUS
<1>2. HeapOK(h) /\ row \in RowsOf(h)
  BY <1>1 DEF TypeOK, Rows
<1>3. PICK t \in Tuple : t = row.tuple
  BY <1>2, RowsTyped DEF Row
<1>4. PICK h2 : h2 = WithPage(h, p, DeleteRecord(h[p], n))
  OBVIOUS
<1>5. HeapOK(h2) /\ Len(h2) >= Len(h) /\ RowsOf(h2) = Others(RowsOf(h), row.rid)
  BY <1>1, <1>2, <1>3, <1>4, HeapChanged
<1>6. heap' = h2 /\ DOMAIN fsm' = DOMAIN heap'
  BY <1>1, <1>4 DEF HeapDelete, SetPage, WithPage
<1> QED BY <1>1, <1>5, <1>6 DEF Rows

(* The types, after a step of a statement.                                 *)
LEMMA TypeKept ==
    ASSUME TypeOK, HeapOK(heap'), DOMAIN fsm' = DOMAIN heap', Len(heap') >= Len(heap),
           attached' = attached, torn' \in SUBSET Index, saved' = saved, entries' \in AllEntries,
           call' \in CallType, counts' \in CountsType
    PROVE  TypeOK'
<1>1. Len(saved.heap) <= Len(heap')
  <2>0. HeapOK(saved.heap) /\ HeapOK(heap) /\ HeapOK(heap')
    BY DEF TypeOK
  <2>1. PICK k \in Nat, m \in Nat, n \in Nat : k = Len(saved.heap) /\ m = Len(heap) /\ n = Len(heap')
    BY <2>0 DEF HeapOK
  <2>2. k <= m /\ n >= m
    BY <2>1 DEF TypeOK
  <2> QED BY <2>1, <2>2
<1> QED BY <1>1 DEF TypeOK

(* What is left to show, by what becomes of the statement.                 *)
LEMMA IdleIs ==
    /\ Idle \in CallType /\ Idle.op = "none"
    /\ Idle.todo = <<>> /\ Idle.done = <<>>
  BY EmptySeq DEF Idle, CallType

LEMMA BecomesIdle ==
    ASSUME TypeOK', call' = Idle, NEW R, R = RowsOf(heap'), Match(R, entries', Sound'),
           KeysUnique(R, Sound' \cap UniqueIndex), SavedSound'
    PROVE  TableInv'
<1>1. call'.op = "none" /\ call'.op \notin Forward /\ call'.op # "rollback"
  BY IdleIs DEF Forward
<1>2. Agree(Rows, entries, Sound)'
  BY DEF Agree, Rows
<1>3. call'.op # "move"
  BY <1>1 DEF Forward
<1> QED BY <1>1, <1>2, <1>3 DEF TableInv, IdleSound, ForwardSound, MoveSound, RollbackSound, BeforeSound

LEMMA BecomesForward ==
    ASSUME TypeOK', SavedSound', call'.op \in Forward, MoveSound', NEW R, R = RowsOf(heap'),
           Going(R, entries', Sound', call'.before, call'.todo, call'.done)
    PROVE  TableInv'
<1>1. call'.op # "none" /\ call'.op # "rollback"
  BY DEF Forward
<1>2. ForwardSound' /\ BeforeSound'
  BY DEF Going, ForwardSound, BeforeSound, Rows
<1> QED BY <1>1, <1>2 DEF TableInv, IdleSound, RollbackSound

LEMMA BecomesRollback ==
    ASSUME TypeOK', SavedSound', call'.op = "rollback", NEW R, R = RowsOf(heap'),
           call'.todo # <<>>, DeletesLast(call'.todo),
           Undoing(R, entries', Sound', call'.before, StepsOf(call'.todo)),
           KeysUnique(call'.before, Sound' \cap UniqueIndex)
    PROVE  TableInv'
<1>1. call'.op # "none" /\ call'.op \notin Forward
  BY DEF Forward
<1>2. RollbackSound' /\ BeforeSound'
  BY <1>1 DEF RollbackSound, BeforeSound, Rows
<1> QED BY <1>1, <1>2 DEF TableInv, IdleSound, ForwardSound, MoveSound, Forward

(* With no statement under way the indexes match the rows.                 *)
LEMMA IdleFacts ==
    ASSUME TableInv, call.op = "none"
    PROVE  /\ TypeOK /\ SavedSound /\ call = Idle
           /\ Match(Rows, entries, Sound) /\ KeysUnique(Rows, Sound \cap UniqueIndex)
  BY DEF TableInv, IdleSound, Agree

LEMMA ForwardFacts ==
    ASSUME TableInv, call.op \in Forward
    PROVE  /\ TypeOK /\ SavedSound /\ MoveSound
           /\ Going(Rows, entries, Sound, call.before, call.todo, call.done)
<1>1. call.op # "none"
  BY DEF Forward
<1>2. ForwardSound /\ MoveSound /\ BeforeSound /\ TypeOK /\ SavedSound
  BY DEF TableInv
<1> QED BY <1>1, <1>2 DEF ForwardSound, BeforeSound, Going

LEMMA RollbackFacts ==
    ASSUME TableInv, call.op = "rollback"
    PROVE  /\ TypeOK /\ SavedSound /\ KeysUnique(call.before, Sound \cap UniqueIndex)
           /\ call.todo # <<>> /\ DeletesLast(call.todo)
           /\ Undoing(Rows, entries, Sound, call.before, StepsOf(call.todo))
  BY DEF TableInv, RollbackSound, BeforeSound

(* A statement begins with no other one under way.                         *)
LEMMA Begins ==
    ASSUME TableInv, BeginStatement
    PROVE  /\ call = Idle /\ TypeOK /\ SavedSound /\ counts' \in CountsType
           /\ Match(Rows, entries, Sound) /\ KeysUnique(Rows, Sound \cap UniqueIndex)
<1>1. call = Idle /\ call.op = "none" /\ counts' = [counts EXCEPT !.statements = @ + 1]
  BY IdleIs DEF BeginStatement
<1>2. counts \in CountsType
  BY DEF TableInv, TypeOK
<1>3. counts' \in CountsType
  BY <1>1, <1>2 DEF CountsType
<1> QED BY <1>1, <1>3, IdleFacts

LEMMA SavedKept ==
    ASSUME SavedSound, attached' = attached, saved' = saved
    PROVE  SavedSound'
  BY DEF SavedSound, Agree

LEMMA SoundKept ==
    ASSUME attached' = attached, torn' = torn
    PROVE  Sound' = Sound
  BY DEF Sound

\* With the rows R and a new one for tuple t at rid, the steps Q do what they should.
Planned(R, E, A, t, rid, Q) ==
    \A new \in Row :
        new.tuple = t /\ new.rid = rid /\ Fresh(R, new) =>
            /\ Doing(WithRow(R, new), E, A, R, Q)
            /\ Allowed(R, Survivors(WithRow(R, new), Q), A \cap UniqueIndex)

(* Steps of which the first was the heap part of an insert.                *)
LEMMA StartsWithInsert ==
    ASSUME TableInv, BeginStatement, NEW op \in Forward, NEW t \in Tuple, NEW p \in 1 .. MaxPages,
           NEW q \in Seq(StepType), q # <<>>, DeletesLast(q),
           StartWithInsert(op, t, p, q), attached' = attached, torn' = torn, entries' = entries, saved' = saved,
           op = "move" => attached = {} /\ Len(q) = 1,
           NEW R, R = Rows, Planned(R, entries, Sound, t, Inserted(p, t).rid, StepsOf(q))
    PROVE  TableInv'
<1>1. call = Idle /\ TypeOK /\ SavedSound /\ counts' \in CountsType /\ Match(R, entries, Sound)
      /\ KeysUnique(R, Sound \cap UniqueIndex)
  BY Begins
<1>2. IsPageForInsert(p, SizeOf(t)) /\ SetPage(p, Inserted(p, t).page)
  BY DEF StartWithInsert
<1>3. PICK new \in Row : /\ new.tuple = t /\ new.rid = Inserted(p, t).rid
                         /\ RowsOf(heap') = WithRow(R, new) /\ Fresh(R, new)
  BY <1>1, <1>2, HeapGrows
<1>4. HeapOK(heap') /\ DOMAIN fsm' = DOMAIN heap' /\ Len(heap') >= Len(heap)
  BY <1>1, <1>2, HeapGrows
<1>5. R \subseteq Row
  BY <1>1, RowsSound
<1>6. PICK h : h = HeapStep("heapInsert", new.rid)
  OBVIOUS
<1>7. new.rid \in RidType
  BY DEF Row
<1>8. h \in StepType /\ h.op = "heapInsert" /\ h.entry.rid = new.rid
  BY <1>6, <1>7, HeapStepIs
<1>9. call' = [Idle EXCEPT !.op = op, !.todo = q, !.done = <<h>>, !.before = R]
  BY <1>3, <1>6 DEF StartWithInsert
<1>10. call'.op = op /\ call'.todo = q /\ call'.done = <<h>> /\ call'.before = R
  BY <1>9 DEF Idle
<1>11. call' \in CallType
  <2>1. <<h>> \in Seq(StepType)
    BY <1>8
  <2> QED BY <1>9, <1>5, <2>1 DEF CallType, Idle
<1>12. TypeOK' /\ SavedSound'
  <2>1. entries \in AllEntries
    BY <1>1, RowsSound
  <2>2. TypeOK'
    <3>1. torn' \in SUBSET Index
      BY <1>1 DEF TypeOK
    <3> QED BY <1>1, <1>4, <1>11, <2>1, <3>1, TypeKept
  <2> QED BY <1>1, <2>2, SavedKept
<1>13. PICK u : u = Undo(h)
  OBVIOUS
<1>14. u \in StepType /\ u.op = "heapDelete" /\ u.entry.rid = new.rid
  <2>1. h.op # "heapDelete"
    BY <1>8
  <2> QED BY <1>8, <1>13, <2>1, UndoIs
<1>15. UndoSteps(<<h>>) = <<u>>
  BY <1>13 DEF UndoSteps
<1>16. StepsOf(<<u>>) = {u} /\ DeletesLast(<<u>>) /\ KeepsTuples(<<h>>)
  BY <1>8 DEF StepsOf, DeletesLast, KeepsTuples
<1>17. Undoing(WithRow(R, new), entries, Sound, R, {u})
  BY <1>1, <1>3, <1>14, StartUndoing
<1>18. Going(WithRow(R, new), entries', Sound', call'.before, call'.todo, call'.done)
  <2>1. Sound' = Sound
    BY SoundKept
  <2>2. Going(WithRow(R, new), entries, Sound, R, q, <<h>>)
    BY <1>1, <1>3, <1>15, <1>16, <1>17 DEF Going, Planned
  <2> QED BY <1>10, <2>1, <2>2
<1>19. MoveSound'
  <2> SUFFICES ASSUME op = "move" PROVE Moving(Rows, call.before, call.todo)'
    BY <1>10 DEF MoveSound
  <2>1. new \in WithRow(R, new)
    BY DEF WithRow
  <2> QED BY <1>3, <1>10, <2>1 DEF Moving, Rows
<1> QED BY <1>3, <1>10, <1>12, <1>18, <1>19, BecomesForward

(* What the unique indexes are asked before a tuple is written.            *)
LEMMA KeyIsFree ==
    ASSUME NEW R, R = Rows, Match(R, entries, Sound), NEW t, NEW rid, ValidateUniqueIndexes(t, rid),
           NEW i \in Sound \cap UniqueIndex, NEW x \in R, x.rid # rid
    PROVE  KeyOf(i, x.tuple) # KeyOf(i, t)
<1>1. SUFFICES ASSUME KeyOf(i, x.tuple) = KeyOf(i, t) PROVE FALSE
  OBVIOUS
<1>2. PICK e : e = EntryAt(i, x.tuple, x.rid)
  OBVIOUS
<1>3. e.key = KeyOf(i, t) /\ e.rid = x.rid
  BY <1>1, <1>2 DEF EntryAt
<1>4. e \in EntriesIn(R, i)
  BY <1>2, EntriesAre
<1>5. e \in entries[i]
  BY <1>4 DEF Match
<1>6. i \in (attached \cap UniqueIndex) \ torn
  BY DEF Sound
<1> QED BY <1>3, <1>5, <1>6 DEF ValidateUniqueIndexes

LEMMA NoRidIsNone == \A rid \in RidType : rid # NoRid
  BY DEF RidType, NoRid

LEMMA InsertKeepsInv ==
    ASSUME TableInv, NEW t \in Tuple, NEW p \in 1 .. MaxPages, InsertTuple(t, p)
    PROVE  TableInv'
<1>1. /\ BeginStatement /\ ValidateUniqueIndexes(t, NoRid)
      /\ attached' = attached /\ torn' = torn /\ entries' = entries /\ saved' = saved
  BY DEF InsertTuple
<1>2. call = Idle /\ TypeOK /\ SavedSound /\ counts' \in CountsType /\ Match(Rows, entries, Sound)
      /\ KeysUnique(Rows, Sound \cap UniqueIndex)
  BY <1>1, Begins
<1>3. PICK R : R = Rows
  OBVIOUS
<1>4. /\ R \subseteq Row /\ entries \in AllEntries /\ attached \in SUBSET Index
      /\ Sound \in SUBSET attached
  BY <1>2, <1>3, RowsSound
<1>5. PICK rid : rid = Inserted(p, t).rid
  OBVIOUS
<1>6. PICK q : q = IndexSteps("indexInsert", t, rid)
  OBVIOUS
<1>7. StartWithInsert("insert", t, p, q)
  BY <1>5, <1>6 DEF InsertTuple
<1>8. IsPageForInsert(p, SizeOf(t)) /\ SetPage(p, Inserted(p, t).page)
  BY <1>7 DEF StartWithInsert
<1>9. PICK new \in Row : /\ new.tuple = t /\ new.rid = rid
                         /\ RowsOf(heap') = WithRow(R, new) /\ Fresh(R, new)
  BY <1>2, <1>3, <1>5, <1>8, HeapGrows
<1>10. rid \in RidType
  BY <1>9 DEF Row
<1>11. q \in Seq(StepType) /\ KeepsTuples(q) /\ (q = <<>> <=> attached = {})
       /\ StepsOf(q) = {Step("indexInsert", i, t, rid) : i \in attached}
  <2>1. "indexInsert" \in IndexOps
    BY DEF IndexOps
  <2> QED BY <1>4, <1>6, <1>10, <2>1, IndexStepsAre
<1>12. ASSUME NEW w \in Row, w.tuple = t, w.rid = rid, Fresh(R, w)
       PROVE  /\ StepsOf(q) = StepsFor("indexInsert", attached, w)
              /\ KeysUnique(WithRow(R, w), Sound \cap UniqueIndex)
  <2>1. StepsOf(q) = StepsFor("indexInsert", attached, w)
    BY <1>11, <1>12 DEF StepsFor
  <2>2. ASSUME NEW i \in Sound \cap UniqueIndex, NEW x \in R
        PROVE  KeyOf(i, x.tuple) # KeyOf(i, w.tuple)
    <3>1. x.rid # NoRid
      BY <1>4, NoRidIsNone DEF Row
    <3> QED BY <1>1, <1>2, <1>3, <1>12, <3>1, KeyIsFree
  <2>3. KeysUnique(R, Sound \cap UniqueIndex)
    BY <1>2, <1>3
  <2> QED BY <2>1, <2>2, <2>3, KeysWith
<1>13. CASE q = <<>>
  <2>1. call' = Idle
    BY <1>7, <1>13 DEF StartWithInsert
  <2>2. HeapOK(heap') /\ DOMAIN fsm' = DOMAIN heap' /\ Len(heap') >= Len(heap)
    BY <1>2, <1>8, HeapGrows
  <2>3. TypeOK' /\ SavedSound'
    <3>1. call' \in CallType /\ torn' \in SUBSET Index
      BY <1>1, <1>2, <2>1, IdleIs DEF TypeOK
    <3>2. TypeOK'
      BY <1>1, <1>2, <1>4, <2>2, <3>1, TypeKept
    <3> QED BY <1>1, <1>2, <3>2, SavedKept
  <2>0. Sound' = Sound
    BY <1>1, SoundKept
  <2>4. Match(WithRow(R, new), entries', Sound')
    BY <1>1, <1>4, <1>11, <1>13, <2>0 DEF Match
  <2>5. KeysUnique(WithRow(R, new), Sound' \cap UniqueIndex)
    BY <1>1, <1>9, <1>12, <2>0
  <2> QED BY <1>9, <2>1, <2>3, <2>4, <2>5, BecomesIdle
<1>14. CASE q # <<>>
  <2>1. DeletesLast(q)
    BY <1>11 DEF KeepsTuples, DeletesLast
  <2>2. ASSUME NEW w \in Row, w.tuple = t, w.rid = Inserted(p, t).rid, Fresh(R, w)
        PROVE  /\ Doing(WithRow(R, w), entries, Sound, R, StepsOf(q))
               /\ Allowed(R, Survivors(WithRow(R, w), StepsOf(q)), Sound \cap UniqueIndex)
    <3>1. StepsOf(q) = StepsFor("indexInsert", attached, w) /\ KeysUnique(WithRow(R, w), Sound \cap UniqueIndex)
      BY <1>5, <1>12, <2>2
    <3>2. Match(R, entries, Sound)
      BY <1>2, <1>3
    <3>3. Doing(WithRow(R, w), entries, Sound, R, StepsOf(q)) /\ Survivors(WithRow(R, w), StepsOf(q)) = WithRow(R, w)
      BY <1>4, <2>2, <3>1, <3>2, StartInsert
    <3>4. w \in WithRow(R, w)
      BY DEF WithRow
    <3>5. Allowed(R, WithRow(R, w), Sound \cap UniqueIndex)
      BY <2>2, <3>1, <3>4 DEF Allowed
    <3> QED BY <3>3, <3>5
  <2>3. "insert" \in Forward
    BY DEF Forward
  <2>4. Planned(R, entries, Sound, t, Inserted(p, t).rid, StepsOf(q))
    BY <2>2 DEF Planned
  <2> QED BY <1>1, <1>3, <1>7, <1>11, <1>14, <2>1, <2>3, <2>4, StartsWithInsert
<1> QED BY <1>13, <1>14

(* The steps of a delete.                                                  *)
LEMMA DeleteStepsAre ==
    ASSUME attached \in SUBSET Index, NEW row \in Row
    PROVE  \E d \in StepType :
               /\ d.op = "heapDelete" /\ d.entry.rid = row.rid
               /\ DeleteSteps(row) \in Seq(StepType) /\ DeleteSteps(row) # <<>>
               /\ DeletesLast(DeleteSteps(row))
               /\ StepsOf(DeleteSteps(row)) = StepsFor("indexDelete", attached, row) \cup {d}
               /\ HeapStep("heapDelete", row.rid) = d
<1>1. PICK d : d = HeapStep("heapDelete", row.rid)
  OBVIOUS
<1>2. row.rid \in RidType /\ row.tuple \in Tuple /\ "indexDelete" \in IndexOps
  BY DEF Row, IndexOps
<1>3. d \in StepType /\ d.op = "heapDelete" /\ d.entry.rid = row.rid
  BY <1>1, <1>2, HeapStepIs
<1>4. PICK q : q = IndexSteps("indexDelete", row.tuple, row.rid)
  OBVIOUS
<1>5. q \in Seq(StepType) /\ KeepsTuples(q) /\ StepsOf(q) = StepsFor("indexDelete", attached, row)
  BY <1>2, <1>4, IndexStepsAre DEF StepsFor
<1>6. <<d>> \in Seq(StepType) /\ StepsOf(<<d>>) = {d} /\ DeletesLast(<<d>>)
  BY <1>3 DEF StepsOf, DeletesLast
<1>7. PICK r \in Seq(StepType) : r = <<d>>
  BY <1>6
<1>8. q \o r \in Seq(StepType) /\ DeletesLast(q \o r) /\ StepsOf(q \o r) = StepsOf(q) \cup StepsOf(r)
  BY <1>5, <1>6, <1>7, StepsOfConcat
<1>9. q \o r # <<>>
  <2>1. d \in StepsOf(q \o r)
    BY <1>6, <1>7, <1>8
  <2>2. d \notin StepsOf(<<>>)
    BY DEF StepsOf
  <2> QED BY <2>1, <2>2
<1>10. DeleteSteps(row) = q \o r
  BY <1>1, <1>4, <1>7 DEF DeleteSteps
<1> QED BY <1>1, <1>3, <1>5, <1>6, <1>7, <1>8, <1>9, <1>10

LEMMA DeleteKeepsInv ==
    ASSUME TableInv, NEW row \in Rows, DeleteTuple(row)
    PROVE  TableInv'
<1>1. /\ BeginStatement /\ heap' = heap /\ fsm' = fsm
      /\ attached' = attached /\ torn' = torn /\ entries' = entries /\ saved' = saved
  BY DEF DeleteTuple
<1>2. call = Idle /\ TypeOK /\ SavedSound /\ counts' \in CountsType /\ Match(Rows, entries, Sound)
      /\ KeysUnique(Rows, Sound \cap UniqueIndex) /\ torn \in SUBSET Index /\ Sound' = Sound
  BY <1>1, Begins, SoundKept DEF TypeOK
<1>3. PICK R : R = Rows
  OBVIOUS
<1>4. /\ R \subseteq Row /\ UniqueRids(R) /\ entries \in AllEntries /\ attached \in SUBSET Index
      /\ HeapOK(heap) /\ Sound \in SUBSET attached
  BY <1>2, <1>3, RowsSound
<1>5. row \in R /\ row \in Row
  BY <1>3, <1>4
<1>6. PICK q : q = DeleteSteps(row)
  OBVIOUS
<1>7. PICK d \in StepType :
          /\ d.op = "heapDelete" /\ d.entry.rid = row.rid
          /\ q \in Seq(StepType) /\ q # <<>> /\ DeletesLast(q)
          /\ StepsOf(q) = StepsFor("indexDelete", attached, row) \cup {d}
  BY <1>4, <1>5, <1>6, DeleteStepsAre
<1>8. call' = [Idle EXCEPT !.op = "delete", !.todo = q, !.before = R]
  BY <1>3, <1>6 DEF DeleteTuple
<1>9. call'.op = "delete" /\ call'.todo = q /\ call'.done = <<>> /\ call'.before = R
  BY <1>8 DEF Idle
<1>10. call' \in CallType
  <2>1. Idle \in CallType
    BY IdleIs
  <2> QED BY <1>4, <1>7, <1>8, <2>1 DEF CallType, Forward
<1>11. TypeOK' /\ SavedSound'
  <2>1. HeapOK(heap') /\ DOMAIN fsm' = DOMAIN heap'
    BY <1>1, <1>2, <1>4 DEF TypeOK
  <2>2. Len(heap') >= Len(heap)
    <3>1. PICK k \in Nat : k = Len(heap)
      BY <1>4 DEF HeapOK
    <3> QED BY <1>1, <3>1
  <2>3. TypeOK'
    BY <1>1, <1>2, <1>4, <1>10, <2>1, <2>2, TypeKept
  <2> QED BY <1>1, <1>2, <2>3, SavedKept
<1>12. Match(R, entries, Sound) /\ KeysUnique(R, Sound \cap UniqueIndex)
  BY <1>2, <1>3
<1>13. Doing(R, entries, Sound, R, StepsOf(q)) /\ Survivors(R, StepsOf(q)) = Others(R, row.rid)
  <2>1. PICK E, Q : E = entries /\ Q = StepsOf(q)
    OBVIOUS
  <2>2. PICK A \in SUBSET Index : A = attached
    BY <1>4
  <2>3. PICK S \in SUBSET A : S = Sound
    BY <1>4, <2>2
  <2>4. UniqueRids(R) /\ R \subseteq Row /\ Match(R, E, S) /\ row \in R
    BY <1>4, <1>5, <1>12, <2>1, <2>3
  <2>5. d.op = "heapDelete" /\ d.entry.rid = row.rid /\ Q = StepsFor("indexDelete", A, row) \cup {d}
    BY <1>7, <2>1, <2>2
  <2>6. Doing(R, E, S, R, Q) /\ Survivors(R, Q) = Others(R, row.rid)
    BY <2>4, <2>5, StartDelete
  <2> QED BY <2>1, <2>3, <2>6
<1>14. Allowed(R, Others(R, row.rid), Sound \cap UniqueIndex)
  <2>1. Others(R, row.rid) \subseteq R
    BY DEF Others
  <2>2. KeysUnique(Others(R, row.rid), Sound \cap UniqueIndex)
    BY <1>12, <2>1, FewerKeys
  <2> QED BY <1>5, <2>2 DEF Allowed
<1>15. UndoSteps(<<>>) = <<>> /\ StepsOf(<<>>) = {} /\ DeletesLast(<<>>) /\ KeepsTuples(<<>>)
  BY DEF UndoSteps, StepsOf, DeletesLast, KeepsTuples
<1>16. Undoing(R, entries, Sound, R, {})
  <2>1. Survivors(R, {}) = R
    BY NoneDoomed
  <2> QED BY <1>12, <2>1 DEF Undoing, Match, Picked
<1>17. Going(R, entries', Sound', call'.before, call'.todo, call'.done)
  BY <1>1, <1>2, <1>7, <1>9, <1>12, <1>13, <1>14, <1>15, <1>16 DEF Going
<1>18. R = RowsOf(heap') /\ call'.op \in Forward /\ MoveSound'
  BY <1>1, <1>3, <1>9 DEF Rows, Forward, MoveSound
<1> QED BY <1>11, <1>17, <1>18, BecomesForward

(* A tuple with the same keys takes the place of another one.              *)
LEMMA SameKeys ==
    ASSUME NEW R, UniqueRids(R), NEW row \in R, NEW new, new.rid = row.rid, NEW E, NEW A, NEW I, I \subseteq A,
           \A i \in A : KeyOf(i, row.tuple) = KeyOf(i, new.tuple),
           Match(R, E, A), KeysUnique(R, I), NEW S, S = WithRow(Others(R, row.rid), new)
    PROVE  Match(S, E, A) /\ KeysUnique(S, I)
<1>1. Match(S, E, A)
  <2>1. SUFFICES ASSUME NEW i \in A PROVE E[i] = EntriesIn(S, i)
    BY DEF Match
  <2>2. EntriesIn(S, i) = EntriesIn(Others(R, row.rid), i) \cup {EntryAt(i, new.tuple, new.rid)}
    BY EntriesWith
  <2>3. EntryAt(i, new.tuple, new.rid) = EntryAt(i, row.tuple, row.rid)
    BY DEF EntryAt
  <2>4. EntryAt(i, row.tuple, row.rid) \in EntriesIn(R, i)
    BY EntriesAre
  <2>5. EntriesIn(S, i) = EntriesIn(R, i)
    BY <2>2, <2>3, <2>4, EntriesWithout
  <2> QED BY <2>5 DEF Match
<1>2. KeysUnique(S, I)
  <2>1. Others(R, row.rid) \subseteq R
    BY DEF Others
  <2>2. KeysUnique(Others(R, row.rid), I)
    BY <2>1, FewerKeys
  <2>3. ASSUME NEW i \in I, NEW x \in Others(R, row.rid)
        PROVE  KeyOf(i, x.tuple) # KeyOf(i, new.tuple)
    <3>1. x \in R /\ x # row
      BY DEF Others
    <3>2. KeyOf(i, x.tuple) # KeyOf(i, row.tuple)
      BY <3>1 DEF KeysUnique
    <3>3. KeyOf(i, row.tuple) = KeyOf(i, new.tuple)
      OBVIOUS
    <3> QED BY <3>2, <3>3
  <2> QED BY <2>2, <2>3, KeysWith
<1> QED BY <1>1, <1>2

LEMMA InPlaceKeepsInv ==
    ASSUME TableInv, NEW row \in Rows, NEW t \in Tuple, UpdateInPlace(row, t)
    PROVE  TableInv'
<1>1. /\ BeginStatement /\ fsm' = fsm /\ call' = call
      /\ attached' = attached /\ torn' = torn /\ entries' = entries /\ saved' = saved
      /\ heap' = [heap EXCEPT ![row.rid[1]] = OverwriteRecord(@, row.rid[2], t)]
      /\ InPlace(row, t)
  BY DEF UpdateInPlace
<1>2. call = Idle /\ TypeOK /\ SavedSound /\ counts' \in CountsType /\ Match(Rows, entries, Sound)
      /\ KeysUnique(Rows, Sound \cap UniqueIndex) /\ torn \in SUBSET Index /\ Sound' = Sound
  BY <1>1, Begins, SoundKept DEF TypeOK
<1>3. PICK R : R = Rows
  OBVIOUS
<1>4. UniqueRids(R) /\ entries \in AllEntries /\ HeapOK(heap) /\ Sound \in SUBSET attached
  BY <1>2, <1>3, RowsSound
<1>5. PICK new : new = [rid |-> row.rid, tuple |-> t]
  OBVIOUS
<1>6. row \in RowsOf(heap)
  BY DEF Rows
<1>7. HeapOK(heap') /\ DOMAIN heap' = DOMAIN heap /\ Len(heap') = Len(heap)
      /\ RowsOf(heap') = WithRow(Others(R, row.rid), new)
  BY <1>1, <1>3, <1>4, <1>5, <1>6, HeapChanged DEF Rows
<1>8. TypeOK' /\ SavedSound'
  <2>1. DOMAIN fsm' = DOMAIN heap'
    BY <1>1, <1>2, <1>7 DEF TypeOK
  <2>2. Len(heap') >= Len(heap)
    <3>1. PICK k \in Nat : k = Len(heap)
      BY <1>4 DEF HeapOK
    <3> QED BY <1>7, <3>1
  <2>3. call' \in CallType
    BY <1>1, <1>2, IdleIs
  <2>4. entries' \in AllEntries
    BY <1>1, <1>4
  <2>5. TypeOK'
    BY <1>1, <1>2, <1>7, <2>1, <2>2, <2>3, <2>4, TypeKept
  <2> QED BY <1>1, <1>2, <2>5, SavedKept
<1>9. \A i \in Sound : KeyOf(i, row.tuple) = KeyOf(i, new.tuple)
  BY <1>1, <1>4, <1>5 DEF InPlace, AnyIndexedKeyChanged
<1>10. PICK S : S = WithRow(Others(R, row.rid), new)
  OBVIOUS
<1>11. Match(R, entries, Sound) /\ KeysUnique(R, Sound \cap UniqueIndex) /\ row \in R /\ new.rid = row.rid
       /\ Sound \cap UniqueIndex \subseteq Sound
  BY <1>2, <1>3, <1>5
<1>12. Match(S, entries, Sound) /\ KeysUnique(S, Sound \cap UniqueIndex)
  BY <1>4, <1>9, <1>10, <1>11, SameKeys
<1>13. Match(S, entries', Sound') /\ KeysUnique(S, Sound' \cap UniqueIndex) /\ call' = Idle /\ S = RowsOf(heap')
  BY <1>1, <1>2, <1>7, <1>10, <1>12
<1> QED BY <1>8, <1>13, BecomesIdle

(* The plan of an update that moves the row.                               *)
LEMMA UpdatePlanned ==
    ASSUME TypeOK, NEW R, R = Rows, Match(R, entries, Sound), KeysUnique(R, Sound \cap UniqueIndex),
           NEW row \in R, NEW t \in Tuple, ValidateUniqueIndexes(t, row.rid), NEW rid,
           NEW d \in StepType, d.op = "heapDelete", d.entry.rid = row.rid,
           NEW Q, Q = {Step("indexInsert", i, t, rid) : i \in attached} \cup
                          (StepsFor("indexDelete", attached, row) \cup {d})
    PROVE  Planned(R, entries, Sound, t, rid, Q)
<1>1. /\ R \subseteq Row /\ UniqueRids(R) /\ entries \in AllEntries /\ attached \in SUBSET Index
      /\ Sound \in SUBSET attached
  BY RowsSound
<1>2. SUFFICES ASSUME NEW w \in Row, w.tuple = t, w.rid = rid, Fresh(R, w)
               PROVE  /\ Doing(WithRow(R, w), entries, Sound, R, Q)
                      /\ Allowed(R, Survivors(WithRow(R, w), Q), Sound \cap UniqueIndex)
  BY DEF Planned
<1>3. Q = StepsFor("indexInsert", attached, w) \cup (StepsFor("indexDelete", attached, row) \cup {d})
  BY <1>2 DEF StepsFor
<1>4. /\ Doing(WithRow(R, w), entries, Sound, R, Q)
      /\ Survivors(WithRow(R, w), Q) = WithRow(Others(R, row.rid), w)
  BY <1>1, <1>2, <1>3, StartUpdate
<1>5. KeysUnique(WithRow(Others(R, row.rid), w), Sound \cap UniqueIndex)
  <2>1. Others(R, row.rid) \subseteq R
    BY DEF Others
  <2>2. KeysUnique(Others(R, row.rid), Sound \cap UniqueIndex)
    BY <2>1, FewerKeys
  <2>3. ASSUME NEW i \in Sound \cap UniqueIndex, NEW x \in Others(R, row.rid)
        PROVE  KeyOf(i, x.tuple) # KeyOf(i, w.tuple)
    <3>1. x \in R /\ x.rid # row.rid
      BY DEF Others
    <3>2. KeyOf(i, x.tuple) # KeyOf(i, t)
      BY <3>1, KeyIsFree
    <3> QED BY <1>2, <3>2
  <2> QED BY <2>2, <2>3, KeysWith
<1>6. w \in WithRow(Others(R, row.rid), w)
  BY DEF WithRow
<1>7. Allowed(R, WithRow(Others(R, row.rid), w), Sound \cap UniqueIndex)
  BY <1>2, <1>5, <1>6 DEF Allowed
<1> QED BY <1>4, <1>7

LEMMA MoveKeepsInv ==
    ASSUME TableInv, NEW row \in Rows, NEW t \in Tuple, NEW p \in 1 .. MaxPages, MoveTuple(row, t, p)
    PROVE  TableInv'
<1>1. /\ BeginStatement /\ attached = {}
      /\ attached' = attached /\ torn' = torn /\ entries' = entries /\ saved' = saved
      /\ StartWithInsert("move", t, p, <<HeapStep("heapDelete", row.rid)>>)
  BY DEF MoveTuple
<1>2. TypeOK /\ Match(Rows, entries, Sound) /\ KeysUnique(Rows, Sound \cap UniqueIndex)
  BY <1>1, Begins
<1>3. PICK R : R = Rows
  OBVIOUS
<1>4. R \subseteq Row /\ row \in R
  BY <1>2, <1>3, RowsSound
<1>5. PICK d : d = HeapStep("heapDelete", row.rid)
  OBVIOUS
<1>6. row.rid \in RidType
  BY <1>4 DEF Row
<1>7. d \in StepType /\ d.op = "heapDelete" /\ d.entry.rid = row.rid
  BY <1>5, <1>6, HeapStepIs
<1>8. PICK q \in Seq(StepType) : q = <<d>>
  <2>1. <<d>> \in Seq(StepType)
    BY <1>7
  <2> QED BY <2>1
<1>9. q # <<>> /\ StepsOf(q) = {d} /\ DeletesLast(q)
  BY <1>8 DEF StepsOf, DeletesLast
<1>10. PICK rid : rid = Inserted(p, t).rid
  OBVIOUS
<1>11. StepsOf(q) = {Step("indexInsert", i, t, rid) : i \in attached} \cup
                        (StepsFor("indexDelete", attached, row) \cup {d})
  BY <1>1, <1>9 DEF StepsFor
<1>12. ValidateUniqueIndexes(t, row.rid)
  BY <1>1 DEF ValidateUniqueIndexes
<1>13. Planned(R, entries, Sound, t, rid, StepsOf(q))
  BY <1>2, <1>3, <1>4, <1>7, <1>11, <1>12, UpdatePlanned
<1>14. "move" \in Forward /\ StartWithInsert("move", t, p, q) /\ Len(q) = 1
  BY <1>1, <1>5, <1>8 DEF Forward
<1> QED BY <1>1, <1>3, <1>9, <1>10, <1>13, <1>14, StartsWithInsert

LEMMA UpdateKeepsInv ==
    ASSUME TableInv, NEW row \in Rows, NEW t \in Tuple, NEW p \in 1 .. MaxPages, UpdateTuple(row, t, p)
    PROVE  TableInv'
<1>1. /\ BeginStatement /\ ValidateUniqueIndexes(t, row.rid)
      /\ attached' = attached /\ torn' = torn /\ entries' = entries /\ saved' = saved
  BY DEF UpdateTuple
<1>2. TypeOK /\ Match(Rows, entries, Sound) /\ KeysUnique(Rows, Sound \cap UniqueIndex)
  BY <1>1, Begins
<1>3. PICK R : R = Rows
  OBVIOUS
<1>4. R \subseteq Row /\ row \in R /\ row \in Row /\ attached \in SUBSET Index
  BY <1>2, <1>3, RowsSound
<1>5. PICK rid : rid = Inserted(p, t).rid
  OBVIOUS
<1>6. PICK a, b : a = IndexSteps("indexInsert", t, rid) /\ b = DeleteSteps(row)
  OBVIOUS
<1>7. StartWithInsert("update", t, p, a \o b)
  BY <1>5, <1>6 DEF UpdateTuple
<1>8. rid \in RidType
  <2>1. IsPageForInsert(p, SizeOf(t)) /\ SetPage(p, Inserted(p, t).page)
    BY <1>7 DEF StartWithInsert
  <2>2. PICK new \in Row : new.rid = rid
    BY <1>2, <1>5, <2>1, HeapGrows
  <2> QED BY <2>2 DEF Row
<1>9. a \in Seq(StepType) /\ KeepsTuples(a)
      /\ StepsOf(a) = {Step("indexInsert", i, t, rid) : i \in attached}
  <2>1. "indexInsert" \in IndexOps
    BY DEF IndexOps
  <2> QED BY <1>4, <1>6, <1>8, <2>1, IndexStepsAre
<1>10. PICK d \in StepType :
           /\ d.op = "heapDelete" /\ d.entry.rid = row.rid
           /\ b \in Seq(StepType) /\ b # <<>> /\ DeletesLast(b)
           /\ StepsOf(b) = StepsFor("indexDelete", attached, row) \cup {d}
  BY <1>4, <1>6, DeleteStepsAre
<1>11. PICK q : q = a \o b
  OBVIOUS
<1>12. q \in Seq(StepType) /\ DeletesLast(q) /\ StepsOf(q) = StepsOf(a) \cup StepsOf(b)
  BY <1>9, <1>10, <1>11, StepsOfConcat
<1>13. q # <<>>
  <2>1. d \in StepsOf(q)
    BY <1>10, <1>12
  <2>2. d \notin StepsOf(<<>>)
    BY DEF StepsOf
  <2> QED BY <2>1, <2>2
<1>14. Planned(R, entries, Sound, t, rid, StepsOf(q))
  BY <1>1, <1>2, <1>3, <1>4, <1>9, <1>10, <1>12, UpdatePlanned
<1>15. "update" \in Forward /\ "update" # "move" /\ StartWithInsert("update", t, p, q)
  BY <1>7, <1>11 DEF Forward
<1> QED BY <1>1, <1>3, <1>5, <1>12, <1>13, <1>14, <1>15, StartsWithInsert

-----------------------------------------------------------------------------
(* The steps of statements and of rollbacks.                               *)

LEMMA DoIs ==
    ASSUME 0 \notin torn, NEW s \in StepType, Do(s), MaySucceed(s)
    PROVE  \/ s \in IndexStep /\ entries' = Effect(entries, s) /\ heap' = heap /\ fsm' = fsm
           \/ /\ s.op = "heapDelete" /\ HeapDelete(s.entry.rid) /\ entries' = entries
              /\ \E row \in Rows : row.rid = s.entry.rid
<1>1. CASE s.op = "indexInsert"
  <2>1. entries' = [entries EXCEPT ![s.index] = @ \cup {s.entry}] /\ heap' = heap /\ fsm' = fsm
    BY <1>1 DEF Do
  <2>2. entries' = Effect(entries, s)
    BY <1>1, <2>1 DEF Effect
  <2> QED BY <1>1, <2>1, <2>2 DEF IndexStep, IndexOps
<1>2. CASE s.op = "indexDelete"
  <2>1. entries' = [entries EXCEPT ![s.index] = @ \ {s.entry}] /\ heap' = heap /\ fsm' = fsm
    BY <1>2 DEF Do
  <2>2. entries' = Effect(entries, s)
    BY <1>2, <2>1 DEF Effect
  <2> QED BY <1>2, <2>1, <2>2 DEF IndexStep, IndexOps
<1>3. CASE s.op = "heapDelete"
  <2>1. HeapDelete(s.entry.rid) /\ entries' = entries
    BY <1>3 DEF Do
  <2>2. s.index = 0
    BY <1>3 DEF StepType
  <2>3. \E row \in Rows : row.rid = s.entry.rid
    BY <1>3, <2>2 DEF CanDo, MaySucceed
  <2> QED BY <1>3, <2>1, <2>3
<1>4. s.op \in {"indexInsert", "indexDelete", "heapDelete"}
  BY DEF Do
<1> QED BY <1>1, <1>2, <1>3, <1>4

LEMMA EffectTyped ==
    ASSUME NEW E \in AllEntries, NEW s \in IndexStep
    PROVE  Effect(E, s) \in AllEntries
<1>1. CASE s.index \in Index
  BY <1>1, EffectIs
<1>2. CASE s.index \notin Index
  BY <1>2 DEF Effect, AllEntries
<1> QED BY <1>1, <1>2

(* The types after a step that takes effect.                               *)
LEMMA DoTyped ==
    ASSUME TypeOK, NEW s \in StepType, Do(s), MaySucceed(s), attached' = attached,
           torn' \in SUBSET Index, saved' = saved, counts' \in CountsType, call' \in CallType
    PROVE  TypeOK'
<1>0. /\ entries \in AllEntries /\ HeapOK(heap) /\ DOMAIN fsm = DOMAIN heap
      /\ 0 \notin torn
  BY RowsSound DEF TypeOK
<1>1. CASE s \in IndexStep /\ entries' = Effect(entries, s) /\ heap' = heap /\ fsm' = fsm
  <2>1. entries' \in AllEntries
    BY <1>0, <1>1, EffectTyped
  <2>2. Len(heap') >= Len(heap)
    <3>1. PICK k \in Nat : k = Len(heap)
      BY <1>0 DEF HeapOK
    <3> QED BY <1>1, <3>1
  <2>3. HeapOK(heap') /\ DOMAIN fsm' = DOMAIN heap'
    BY <1>0, <1>1
  <2> QED BY <2>1, <2>2, <2>3, TypeKept
<1>2. CASE /\ s.op = "heapDelete" /\ HeapDelete(s.entry.rid) /\ entries' = entries
           /\ \E row \in Rows : row.rid = s.entry.rid
  <2>1. PICK row \in Rows : row.rid = s.entry.rid
    BY <1>2
  <2>2. HeapDelete(row.rid)
    BY <1>2, <2>1
  <2>3. HeapOK(heap') /\ DOMAIN fsm' = DOMAIN heap' /\ Len(heap') >= Len(heap)
    BY <2>2, HeapShrinks
  <2>4. entries' \in AllEntries
    BY <1>0, <1>2
  <2> QED BY <2>3, <2>4, TypeKept
<1> QED BY <1>0, <1>1, <1>2, DoIs

LEMMA DoOnRows ==
    ASSUME TypeOK, NEW s \in StepType, Do(s), MaySucceed(s), NEW R, R = Rows
    PROVE  \/ s \in IndexStep /\ entries' = Effect(entries, s) /\ RowsOf(heap') = R
           \/ s.op = "heapDelete" /\ entries' = entries /\ RowsOf(heap') = Others(R, s.entry.rid)
<1>0. 0 \notin torn
  BY RowsSound
<1>1. CASE s \in IndexStep /\ entries' = Effect(entries, s) /\ heap' = heap /\ fsm' = fsm
  BY <1>1 DEF Rows
<1>2. CASE /\ s.op = "heapDelete" /\ HeapDelete(s.entry.rid) /\ entries' = entries
           /\ \E row \in Rows : row.rid = s.entry.rid
  <2>1. PICK row \in Rows : row.rid = s.entry.rid
    BY <1>2
  <2>2. HeapDelete(row.rid)
    BY <1>2, <2>1
  <2>3. RowsOf(heap') = Others(Rows, row.rid)
    BY <2>2, HeapShrinks
  <2> QED BY <1>2, <2>1, <2>3
<1> QED BY <1>0, <1>1, <1>2, DoIs

LEMMA ForwardIndex ==
    ASSUME NEW R, NEW B, NEW s \in IndexStep, ForwardStep(R, B, s) \/ BackwardStep(R, B, s)
    PROVE  s.index \in Index
<1>1. s.op = "indexInsert" \/ s.op = "indexDelete"
  BY DEF IndexStep, IndexOps
<1> QED BY <1>1 DEF ForwardStep, BackwardStep

(* A statement goes on after an index step, or ends with it.               *)
LEMMA GoesOn ==
    ASSUME NEW R, UniqueRids(R), NEW E \in AllEntries, NEW A \in SUBSET Index, NEW B,
           NEW q \in Seq(StepType), NEW done \in Seq(StepType), Going(R, E, A, B, q, done),
           NEW s \in IndexStep, s = Head(q), NEW F, F = Effect(E, s)
    PROVE  /\ s.index \in Index /\ <<s>> \o done \in Seq(StepType) /\ Tail(q) \in Seq(StepType)
           /\ Len(q) = 1 => Match(R, F, A) /\ Allowed(B, R, A \cap UniqueIndex)
           /\ Len(q) # 1 => Going(R, F, A, B, Tail(q), <<s>> \o done)
<1>1. q # <<>> /\ DeletesLast(q) /\ DeletesLast(UndoSteps(done)) /\ KeepsTuples(done)
      /\ Undoing(R, E, A, B, StepsOf(UndoSteps(done)))
      /\ Doing(R, E, A, B, StepsOf(q))
      /\ Allowed(B, Survivors(R, StepsOf(q)), A \cap UniqueIndex)
      /\ KeysUnique(B, A \cap UniqueIndex)
  BY DEF Going
<1>2. PICK r : r = Tail(q)
  OBVIOUS
<1>3. /\ r \in Seq(StepType) /\ StepsOf(q) = StepsOf(r) \cup {s} /\ DeletesLast(r)
      /\ Len(q) = 1 <=> r = <<>>
      /\ Len(q) = 1 => StepsOf(r) = {}
  BY <1>1, <1>2, StepsOfTail
<1>4. B \subseteq R
  BY <1>1 DEF Undoing, Survivors
<1>5. PICK Q, T : Q = StepsOf(r) /\ T = StepsOf(q)
  OBVIOUS
<1>6. Doing(R, F, A, B, StepsOf(r)) /\ ForwardStep(R, B, s)
      /\ Survivors(R, StepsOf(r)) = Survivors(R, StepsOf(q))
  <2>1. Doing(R, E, A, B, T) /\ T = WithStep(Q, s)
    BY <1>1, <1>3, <1>5 DEF WithStep
  <2>2. Doing(R, F, A, B, Q) /\ ForwardStep(R, B, s) /\ Survivors(R, Q) = Survivors(R, T)
    BY <1>4, <2>1, DoingShrinks
  <2> QED BY <1>5, <2>2
<1>7. Allowed(B, Survivors(R, StepsOf(r)), A \cap UniqueIndex)
  BY <1>1, <1>3, <1>6
<1>8. s.index \in Index
  BY <1>6, ForwardIndex
<1>9. <<s>> \o done \in Seq(StepType) /\ KeepsTuples(<<s>> \o done)
      /\ DeletesLast(UndoSteps(<<s>> \o done))
      /\ StepsOf(UndoSteps(<<s>> \o done)) = StepsOf(UndoSteps(done)) \cup {Undo(s)}
  BY <1>1, UndoStepsGrow
<1>10. Undoing(R, F, A, B, StepsOf(UndoSteps(done)) \cup {Undo(s)})
  BY <1>1, <1>6, UndoingGrows
<1>11. ASSUME Len(q) = 1
       PROVE  Match(R, F, A) /\ Allowed(B, R, A \cap UniqueIndex)
  <2>1. StepsOf(r) = {}
    BY <1>3, <1>11
  <2>2. Doing(R, F, A, B, {})
    BY <1>6, <2>1
  <2>3. \A i \in A : F[i] = EntriesIn(R, i)
    BY <2>2, NothingLeft
  <2>4. Survivors(R, {}) = R
    BY NoneDoomed
  <2>5. Allowed(B, R, A \cap UniqueIndex)
    BY <1>7, <2>1, <2>4
  <2> QED BY <2>3, <2>5 DEF Match
<1>12. ASSUME Len(q) # 1
       PROVE  Going(R, F, A, B, r, <<s>> \o done)
  BY <1>1, <1>3, <1>6, <1>7, <1>9, <1>10, <1>12 DEF Going
<1> QED BY <1>2, <1>3, <1>8, <1>9, <1>11, <1>12

(* A statement ends with the delete of a tuple.                            *)
LEMMA EndsWithDelete ==
    ASSUME NEW R, NEW E \in AllEntries, NEW A \in SUBSET Index, NEW B,
           NEW q \in Seq(StepType), NEW done, Going(R, E, A, B, q, done),
           NEW s \in StepType, s = Head(q), s.op = "heapDelete", NEW S, S = Others(R, s.entry.rid)
    PROVE  Len(q) = 1 /\ Match(S, E, A) /\ Allowed(B, S, A \cap UniqueIndex)
<1>1. q # <<>> /\ DeletesLast(q) /\ Doing(R, E, A, B, StepsOf(q))
      /\ Allowed(B, Survivors(R, StepsOf(q)), A \cap UniqueIndex)
  BY DEF Going
<1>2. Len(q) = 1 /\ StepsOf(q) = {s}
  BY <1>1, StepsOfTail
<1>3. Allowed(B, Survivors(R, {s}), A \cap UniqueIndex)
  BY <1>1, <1>2
<1>4. Match(S, E, A)
  BY <1>1, <1>2, DeleteLeft
<1>5. Survivors(R, {s}) = S
  BY OneDoomed
<1> QED BY <1>2, <1>3, <1>4, <1>5

LEMMA NextStepKeepsInv ==
    ASSUME TableInv, NextStep
    PROVE  /\ TableInv'
           /\ call' = Idle => Allowed(call.before, RowsOf(heap'), Sound \cap UniqueIndex)
           /\ call' # Idle => call'.before = call.before
<1>1. PICK s : s = Head(call.todo)
  OBVIOUS
<1>2. /\ call.op \in Forward /\ MaySucceed(s) /\ Do(s)
      /\ call' = IF Len(call.todo) = 1 THEN Idle ELSE [call EXCEPT !.todo = Tail(@), !.done = <<s>> \o @]
      /\ attached' = attached /\ torn' = torn /\ saved' = saved /\ counts' = counts
  BY <1>1 DEF NextStep, Forward
<1>3. TypeOK /\ SavedSound /\ MoveSound /\ Going(Rows, entries, Sound, call.before, call.todo, call.done)
  BY <1>2, ForwardFacts
<1>4. PICK R, q, done, B, E : R = Rows /\ q = call.todo /\ done = call.done /\ B = call.before /\ E = entries
  OBVIOUS
<1>5. R \subseteq Row /\ UniqueRids(R) /\ E \in AllEntries /\ Sound \in SUBSET Index /\ Sound' = Sound
      /\ torn' \in SUBSET Index /\ counts' \in CountsType
  BY <1>2, <1>3, <1>4, RowsSound, SoundKept DEF TypeOK
<1>6. q \in Seq(StepType) /\ done \in Seq(StepType) /\ call \in CallType
  BY <1>3, <1>4 DEF TypeOK, CallType
<1>7. Going(R, E, Sound, B, q, done) /\ s = Head(q)
  BY <1>1, <1>3, <1>4
<1>8. s \in StepType
  <2>1. q # <<>> /\ DeletesLast(q)
    BY <1>7 DEF Going
  <2> QED BY <1>6, <1>7, <2>1, StepsOfTail
<1>9. SavedSound'
  BY <1>2, <1>3, SavedKept
<1>10. CASE s \in IndexStep /\ entries' = Effect(entries, s) /\ RowsOf(heap') = R
  <2>1. PICK F : F = Effect(E, s)
    OBVIOUS
  <2>2. /\ s.index \in Index /\ <<s>> \o done \in Seq(StepType) /\ Tail(q) \in Seq(StepType)
        /\ Len(q) = 1 => Match(R, F, Sound) /\ Allowed(B, R, Sound \cap UniqueIndex)
        /\ Len(q) # 1 => Going(R, F, Sound, B, Tail(q), <<s>> \o done)
    BY <1>5, <1>6, <1>7, <1>10, <2>1, GoesOn
  <2>3. entries' = F
    BY <1>4, <1>10, <2>1
  <2>4. CASE Len(q) = 1
    <3>1. call' = Idle
      BY <1>2, <1>4, <2>4
    <3>2. call' \in CallType
      BY <3>1, IdleIs
    <3>3. TypeOK'
      BY <1>2, <1>3, <1>5, <1>8, <3>2, DoTyped
    <3>4. Match(R, entries', Sound') /\ KeysUnique(R, Sound' \cap UniqueIndex)
      BY <1>2, <1>5, <2>2, <2>3, <2>4 DEF Allowed
    <3>5. Allowed(call.before, RowsOf(heap'), Sound \cap UniqueIndex)
      BY <1>4, <1>10, <2>2, <2>4
    <3>6. TableInv'
      BY <1>9, <1>10, <3>1, <3>3, <3>4, BecomesIdle
    <3> QED BY <3>1, <3>5, <3>6
  <2>5. CASE Len(q) # 1
    <3>1. call' = [call EXCEPT !.todo = Tail(q), !.done = <<s>> \o done]
      BY <1>2, <1>4, <1>6, <2>5 DEF CallType
    <3>2. call' \in CallType /\ call'.op = call.op /\ call'.before = call.before
          /\ call'.todo = Tail(q) /\ call'.done = <<s>> \o done
      BY <1>6, <2>2, <3>1 DEF CallType
    <3>3. TypeOK'
      BY <1>2, <1>3, <1>5, <1>8, <3>2, DoTyped
    <3>4. Going(R, entries', Sound', call'.before, call'.todo, call'.done)
      BY <1>2, <1>5, <1>4, <2>2, <2>3, <2>5, <3>2
    <3>5. call'.op \in Forward /\ MoveSound'
      BY <1>2, <1>3, <1>4, <2>5, <3>2 DEF MoveSound, Moving
    <3>6. TableInv'
      BY <1>9, <1>10, <3>3, <3>4, <3>5, BecomesForward
    <3>7. call'.op # "none"
      BY <3>5 DEF Forward
    <3>8. call' # Idle
      BY <3>7, IdleIs
    <3> QED BY <3>2, <3>6, <3>8
  <2> QED BY <2>4, <2>5
<1>11. CASE s.op = "heapDelete" /\ entries' = entries /\ RowsOf(heap') = Others(R, s.entry.rid)
  <2>1. PICK S : S = Others(R, s.entry.rid)
    OBVIOUS
  <2>2. Len(q) = 1 /\ Match(S, E, Sound) /\ Allowed(B, S, Sound \cap UniqueIndex)
    BY <1>5, <1>6, <1>7, <1>8, <1>11, <2>1, EndsWithDelete
  <2>3. call' = Idle
    BY <1>2, <1>4, <2>2
  <2>4. call' \in CallType /\ s \notin IndexStep
    BY <1>11, <2>3, IdleIs DEF IndexStep, IndexOps
  <2>5. TypeOK'
    BY <1>2, <1>3, <1>5, <1>8, <2>4, DoTyped
  <2>6. Match(S, entries', Sound') /\ KeysUnique(S, Sound' \cap UniqueIndex) /\ S = RowsOf(heap')
    BY <1>2, <1>5, <1>4, <1>11, <2>1, <2>2 DEF Allowed
  <2>7. Allowed(call.before, RowsOf(heap'), Sound \cap UniqueIndex)
    BY <1>4, <2>2, <2>6
  <2>8. TableInv'
    BY <1>9, <2>3, <2>5, <2>6, BecomesIdle
  <2> QED BY <2>3, <2>7, <2>8
<1> QED BY <1>2, <1>3, <1>4, <1>8, <1>10, <1>11, DoOnRows

LEMMA ThrowsCounted ==
    ASSUME TypeOK, NEW s, CountFailure(s)
    PROVE  counts' \in CountsType
<1>1. PICK k \in Nat : k = IF Regular(s) THEN 1 ELSE 0
  OBVIOUS
<1>2. counts' = [counts EXCEPT !.failures = @ + k]
  BY <1>1 DEF CountFailure
<1> QED BY <1>2 DEF TypeOK, CountsType

(* The types when only the call, the counts and torn change.               *)
LEMMA OnlyCall ==
    ASSUME TypeOK, heap' = heap, fsm' = fsm, attached' = attached, torn' \in SUBSET Index,
           entries' = entries, saved' = saved, counts' \in CountsType, call' \in CallType
    PROVE  TypeOK'
<1>1. entries' \in AllEntries /\ HeapOK(heap') /\ DOMAIN fsm' = DOMAIN heap'
  BY DEF TypeOK
<1>2. Len(heap') >= Len(heap)
  <2>1. PICK k \in Nat : k = Len(heap)
    BY DEF TypeOK, HeapOK
  <2> QED BY <2>1
<1> QED BY <1>1, <1>2, TypeKept

(* What holds with the indexes S holds with fewer of them.                 *)
LEMMA Narrow ==
    ASSUME NEW R, NEW E, NEW S, NEW B, NEW Q, NEW F, NEW T \in SUBSET S, \A i \in T : F[i] = E[i]
    PROVE  /\ Undoing(R, E, S, B, Q) => Undoing(R, F, T, B, Q)
           /\ Match(R, E, S) => Match(R, F, T)
           /\ KeysUnique(B, S \cap UniqueIndex) => KeysUnique(B, T \cap UniqueIndex)
<1>1. ASSUME Undoing(R, E, S, B, Q) PROVE Undoing(R, F, T, B, Q)
  <2>1. /\ B = Survivors(R, Q) /\ \A s \in Q : BackwardStep(R, B, s)
        /\ \A i \in S : EntriesIn(B, i) =
               (E[i] \ Picked(Q, "indexDelete", i)) \cup Picked(Q, "indexInsert", i)
    BY <1>1 DEF Undoing
  <2>2. \A i \in T : EntriesIn(B, i) =
            (F[i] \ Picked(Q, "indexDelete", i)) \cup Picked(Q, "indexInsert", i)
    BY <2>1
  <2> QED BY <2>1, <2>2 DEF Undoing
<1>2. Match(R, E, S) => Match(R, F, T)
  BY DEF Match
<1>3. KeysUnique(B, S \cap UniqueIndex) => KeysUnique(B, T \cap UniqueIndex)
  BY DEF KeysUnique
<1> QED BY <1>1, <1>2, <1>3

(* An index step changes one index.                                        *)
LEMMA EffectElsewhere ==
    ASSUME NEW E \in AllEntries, NEW s \in IndexStep, s.index \in Index, NEW F, F = Effect(E, s),
           NEW S \in SUBSET Index, NEW T, T = S \ {s.index}
    PROVE  T \in SUBSET S /\ \A i \in T : F[i] = E[i] /\ E[i] = F[i]
  BY EffectIs

(* A step that throws leaves the indexes that stay sound as they were.     *)
LEMMA ThrowIs ==
    ASSUME TypeOK, NEW s \in StepType, attached' = attached, saved' = saved,
           counts' \in CountsType, call' \in CallType,
           \/ UNCHANGED <<heap, fsm, entries, torn>>
           \/ s.index # 0 /\ CanDo(s) /\ Do(s) /\ torn' = torn \cup {s.index}
    PROVE  /\ TypeOK' /\ RowsOf(heap') = Rows /\ Sound' \in SUBSET Sound
           /\ \A i \in Sound' : entries'[i] = entries[i]
<1>1. torn \in SUBSET Index /\ attached \in SUBSET Index /\ entries \in AllEntries
  BY DEF TypeOK
<1>2. CASE UNCHANGED <<heap, fsm, entries, torn>>
  <2>1. TypeOK'
    BY <1>1, <1>2, OnlyCall
  <2>2. Sound' = Sound
    BY <1>2, SoundKept
  <2> QED BY <1>2, <2>1, <2>2 DEF Rows
<1>3. CASE s.index # 0 /\ CanDo(s) /\ Do(s) /\ torn' = torn \cup {s.index}
  <2>1. s.index \in Index /\ s.op # "heapDelete"
    BY <1>3 DEF StepType
  <2>2. torn' \in SUBSET Index /\ MaySucceed(s)
    BY <1>1, <1>3, <2>1 DEF MaySucceed
  <2>3. TypeOK'
    BY <1>3, <2>2, DoTyped
  <2>4. s \in IndexStep /\ entries' = Effect(entries, s) /\ RowsOf(heap') = Rows
    BY <1>3, <2>1, <2>2, DoOnRows
  <2>5. Sound' = Sound \ {s.index} /\ Sound \in SUBSET Index
    BY <1>1, <1>3 DEF Sound
  <2>6. Sound' \in SUBSET Sound /\ \A i \in Sound' : entries'[i] = entries[i]
    BY <1>1, <2>1, <2>4, <2>5, EffectElsewhere
  <2> QED BY <2>3, <2>4, <2>6
<1> QED BY <1>2, <1>3

LEMMA ThrowKeepsInv ==
    ASSUME TableInv, StepThrows
    PROVE  /\ TableInv' /\ Sound' \in SUBSET Sound
           /\ call' = Idle => call.before = RowsOf(heap')
           /\ call' # Idle => call'.before = call.before
<1>0. PICK s : s = Head(call.todo)
  OBVIOUS
<1>1. /\ call.op \in Forward
      /\ call' = IF UndoSteps(call.done) = <<>> THEN Idle
                 ELSE [call EXCEPT !.op = "rollback", !.todo = UndoSteps(call.done), !.done = <<>>]
      /\ attached' = attached /\ saved' = saved /\ CountFailure(s)
      /\ \/ UNCHANGED <<heap, fsm, entries, torn>>
         \/ s.index # 0 /\ CanDo(s) /\ Do(s) /\ torn' = torn \cup {s.index}
  BY <1>0 DEF StepThrows, Forward
<1>2. TypeOK /\ SavedSound /\ Going(Rows, entries, Sound, call.before, call.todo, call.done)
  BY <1>1, ForwardFacts
<1>3. PICK R, B, q, E, S : /\ R = Rows /\ B = call.before /\ q = UndoSteps(call.done)
                           /\ E = entries /\ S = Sound
  OBVIOUS
<1>4. /\ DeletesLast(q) /\ KeepsTuples(call.done) /\ Undoing(R, E, S, B, StepsOf(q))
      /\ KeysUnique(B, S \cap UniqueIndex) /\ call.todo # <<>> /\ DeletesLast(call.todo)
  BY <1>2, <1>3 DEF Going
<1>5. call \in CallType /\ call.done \in Seq(StepType) /\ call.todo \in Seq(StepType)
  BY <1>2 DEF TypeOK, CallType
<1>6. q \in Seq(StepType) /\ s \in StepType
  BY <1>0, <1>3, <1>4, <1>5, UndoStepsTyped, StepsOfTail
<1>7. SavedSound' /\ counts' \in CountsType
  BY <1>1, <1>2, SavedKept, ThrowsCounted
<1>8. call' \in CallType
  <2>1. CASE q = <<>>
    BY <1>1, <1>3, <2>1, IdleIs
  <2>2. CASE q # <<>>
    <3>1. <<>> \in Seq(StepType)
      BY EmptySeq
    <3>2. call' = [call EXCEPT !.op = "rollback", !.todo = q, !.done = <<>>]
      BY <1>1, <1>3, <2>2
    <3> QED BY <1>5, <1>6, <3>1, <3>2 DEF CallType
  <2> QED BY <2>1, <2>2
<1>9. PICK F, T : F = entries' /\ T = Sound'
  OBVIOUS
<1>10. TypeOK' /\ R = RowsOf(heap') /\ T \in SUBSET S /\ \A i \in T : F[i] = E[i]
  BY <1>1, <1>2, <1>3, <1>6, <1>7, <1>8, <1>9, ThrowIs
<1>11. Undoing(R, F, T, B, StepsOf(q)) /\ KeysUnique(B, T \cap UniqueIndex)
  BY <1>4, <1>10, Narrow
<1>12. CASE q = <<>>
  <2>1. call' = Idle
    BY <1>1, <1>3, <1>12
  <2>2. StepsOf(q) = {}
    BY <1>12 DEF StepsOf
  <2>3. Undoing(R, F, T, B, {})
    BY <1>11, <2>2
  <2>4. B = R /\ \A i \in T : F[i] = EntriesIn(R, i)
    BY <2>3, NothingLeft
  <2>5. Match(R, entries', Sound') /\ KeysUnique(R, Sound' \cap UniqueIndex)
    BY <1>9, <1>11, <2>4 DEF Match
  <2>6. TableInv'
    BY <1>7, <1>10, <2>1, <2>5, BecomesIdle
  <2> QED BY <1>3, <1>9, <1>10, <2>1, <2>4, <2>6
<1>13. CASE q # <<>>
  <2>1. call' = [call EXCEPT !.op = "rollback", !.todo = q, !.done = <<>>]
    BY <1>1, <1>3, <1>13
  <2>2. call'.op = "rollback" /\ call'.todo = q /\ call'.before = B
    BY <1>3, <1>5, <2>1 DEF CallType
  <2>4. Undoing(R, entries', Sound', call'.before, StepsOf(call'.todo))
    BY <1>9, <1>11, <2>2
  <2>5. call'.todo # <<>> /\ DeletesLast(call'.todo) /\ KeysUnique(call'.before, Sound' \cap UniqueIndex)
    BY <1>4, <1>9, <1>11, <1>13, <2>2
  <2>6. TableInv'
    BY <1>7, <1>10, <2>2, <2>4, <2>5, BecomesRollback
  <2>7. call' # Idle
    BY <2>2, IdleIs
  <2> QED BY <1>3, <1>9, <1>10, <2>2, <2>6, <2>7
<1> QED BY <1>12, <1>13

(* A move that fails has no index to disturb.                              *)
LEMMA MoveFailsKeepsInv ==
    ASSUME TableInv, MoveFails
    PROVE  /\ TableInv' /\ Sound' = Sound /\ attached = {} /\ call' = Idle
           /\ \E new \in Rows : Fresh(call.before, new) /\ RowsOf(heap') = WithRow(call.before, new)
<1>1. /\ call.op = "move" /\ call' = Idle /\ counts' = [counts EXCEPT !.failures = @ + 1]
      /\ heap' = heap /\ fsm' = fsm /\ attached' = attached /\ torn' = torn /\ entries' = entries
      /\ saved' = saved
  BY DEF MoveFails
<1>2. TypeOK /\ SavedSound /\ MoveSound
  BY DEF TableInv
<1>3. Moving(Rows, call.before, call.todo)
  BY <1>1, <1>2 DEF MoveSound
<1>4. counts' \in CountsType /\ call' \in CallType /\ torn' \in SUBSET Index
  <2>1. counts' \in CountsType
    BY <1>1, <1>2 DEF TypeOK, CountsType
  <2> QED BY <1>1, <1>2, <2>1, IdleIs DEF TypeOK
<1>5. TypeOK' /\ SavedSound'
  BY <1>1, <1>2, <1>4, OnlyCall, SavedKept
<1>6. Sound' = {} /\ Sound' = Sound /\ attached = {}
  BY <1>1, <1>3 DEF Moving, Sound
<1>7. PICK R : R = RowsOf(heap')
  OBVIOUS
<1>8. Match(R, entries', Sound') /\ KeysUnique(R, Sound' \cap UniqueIndex)
  BY <1>6 DEF Match, KeysUnique
<1>9. TableInv'
  BY <1>1, <1>5, <1>7, <1>8, BecomesIdle
<1> QED BY <1>1, <1>3, <1>6, <1>9 DEF Moving, Rows

LEMMA AfterUndoIs ==
    ASSUME call \in CallType, NEW q \in Seq(StepType), q = call.todo, q # <<>>, DeletesLast(q),
           NEW c, c = AfterUndo
    PROVE  /\ c \in CallType
           /\ Len(q) # 1 => /\ c.op = call.op /\ c.todo = Tail(q) /\ c.before = call.before
                            /\ Tail(q) # <<>> /\ DeletesLast(Tail(q)) /\ Head(q).op # "heapDelete"
           /\ Len(q) = 1 => c = Idle
<1>1. /\ Tail(q) \in Seq(StepType) /\ DeletesLast(Tail(q)) /\ (Len(q) = 1 <=> Tail(q) = <<>>)
      /\ Head(q).op = "heapDelete" => Len(q) = 1
  BY StepsOfTail
<1>2. Len(q) \in Nat /\ Len(q) # 0
  BY EmptySeq
<1>3. CASE Len(q) # 1
  <2>1. Len(q) > 1
    <3>1. PICK k \in Nat : k = Len(q)
      BY <1>2
    <3>2. k # 0 /\ k # 1
      BY <1>2, <1>3, <3>1
    <3>3. k > 1
      BY <3>2
    <3> QED BY <3>1, <3>3
  <2>2. c = [call EXCEPT !.todo = Tail(q)]
    <3>1. Len(call.todo) > 1
      BY <2>1
    <3>2. c = [call EXCEPT !.todo = Tail(@)]
      BY <3>1 DEF AfterUndo
    <3> QED BY <3>2
  <2>3. c \in CallType /\ c.op = call.op /\ c.todo = Tail(q) /\ c.before = call.before
    BY <1>1, <2>2 DEF CallType
  <2> QED BY <1>1, <1>3, <2>3
<1>4. CASE Len(q) = 1
  <2>1. c = Idle
    BY <1>4 DEF AfterUndo
  <2> QED BY <1>4, <2>1, IdleIs
<1> QED BY <1>3, <1>4

(* A rollback goes on after an index step, or ends with it.                *)
LEMMA GoesBack ==
    ASSUME NEW R, UniqueRids(R), NEW E \in AllEntries, NEW A \in SUBSET Index, NEW B,
           NEW q \in Seq(StepType), q # <<>>, DeletesLast(q), Undoing(R, E, A, B, StepsOf(q)),
           NEW s \in IndexStep, s = Head(q), NEW F, F = Effect(E, s)
    PROVE  /\ Undoing(R, F, A, B, StepsOf(Tail(q)))
           /\ Len(q) = 1 => B = R /\ Match(R, F, A)
<1>1. PICK Q, T : Q = StepsOf(Tail(q)) /\ T = StepsOf(q)
  OBVIOUS
<1>2. T = WithStep(Q, s) /\ (Len(q) = 1 => Q = {})
  BY <1>1, StepsOfTail DEF WithStep
<1>3. Undoing(R, E, A, B, T)
  BY <1>1
<1>4. Undoing(R, F, A, B, Q)
  BY <1>2, <1>3, UndoingShrinks
<1>5. ASSUME Len(q) = 1
      PROVE  B = R /\ Match(R, F, A)
  <2>1. Undoing(R, F, A, B, {})
    BY <1>2, <1>4, <1>5
  <2>2. B = R /\ \A i \in A : F[i] = EntriesIn(R, i)
    BY <2>1, NothingLeft
  <2> QED BY <2>2 DEF Match
<1> QED BY <1>1, <1>4, <1>5

LEMMA EndsBackWithDelete ==
    ASSUME NEW R, NEW E \in AllEntries, NEW A \in SUBSET Index, NEW B,
           NEW q \in Seq(StepType), q # <<>>, DeletesLast(q), Undoing(R, E, A, B, StepsOf(q)),
           NEW s \in StepType, s = Head(q), s.op = "heapDelete", NEW S, S = Others(R, s.entry.rid)
    PROVE  B = S /\ Match(S, E, A)
<1>1. StepsOf(q) = {s}
  BY StepsOfTail
<1>2. PICK Q : Q = StepsOf(q)
  OBVIOUS
<1>3. Undoing(R, E, A, B, Q) /\ Q = {s}
  BY <1>1, <1>2
<1>4. Undoing(R, E, A, B, Q) => B = S /\ Match(S, E, A)
  BY <1>3, DeleteLeft
<1> QED BY <1>3, <1>4

(* A step of a rollback takes effect.                                      *)
LEMMA UndoneKeepsInv ==
    ASSUME TableInv, call.op = "rollback", NEW s, s = Head(call.todo), MaySucceed(s), Do(s),
           call' = AfterUndo, attached' = attached, torn' = torn, saved' = saved,
           counts' \in CountsType
    PROVE  /\ TableInv'
           /\ call' = Idle => call.before = RowsOf(heap')
           /\ call' # Idle => call'.before = call.before
<1>1. PICK q : q = call.todo /\ s = Head(q)
  OBVIOUS
<1>3. /\ TypeOK /\ SavedSound /\ KeysUnique(call.before, Sound \cap UniqueIndex)
      /\ q # <<>> /\ DeletesLast(q)
      /\ Undoing(Rows, entries, Sound, call.before, StepsOf(q))
  BY <1>1, RollbackFacts
<1>4. PICK R, B, E : R = Rows /\ B = call.before /\ E = entries
  OBVIOUS
<1>5. UniqueRids(R) /\ E \in AllEntries /\ Sound \in SUBSET Index /\ Sound' = Sound /\ torn' \in SUBSET Index
  BY <1>3, <1>4, RowsSound, SoundKept DEF TypeOK
<1>6. call \in CallType /\ q \in Seq(StepType)
  BY <1>1, <1>3 DEF TypeOK, CallType
<1>7. s \in StepType
  BY <1>1, <1>3, <1>6, StepsOfTail
<1>8. PICK c : c = AfterUndo
  OBVIOUS
<1>9. /\ c \in CallType
      /\ Len(q) # 1 => /\ c.op = call.op /\ c.todo = Tail(q) /\ c.before = call.before
                       /\ Tail(q) # <<>> /\ DeletesLast(Tail(q)) /\ Head(q).op # "heapDelete"
      /\ Len(q) = 1 => c = Idle
  BY <1>1, <1>3, <1>6, <1>8, AfterUndoIs, ZenonT(40)
<1>10. TypeOK' /\ SavedSound' /\ call' = c
  <2>1. call' = c /\ call' \in CallType
    BY <1>8, <1>9
  <2>2. TypeOK'
    BY <1>3, <1>5, <1>7, <2>1, DoTyped
  <2> QED BY <1>3, <2>1, <2>2, SavedKept
<1>11. Undoing(R, E, Sound, B, StepsOf(q)) /\ KeysUnique(B, Sound \cap UniqueIndex)
  BY <1>3, <1>4
<1>12. CASE Len(q) = 1
  <2>1. call' = Idle
    BY <1>9, <1>10, <1>12
  <2>3. CASE s \in IndexStep /\ entries' = Effect(entries, s) /\ RowsOf(heap') = R
    <3>1. PICK F : F = Effect(E, s)
      OBVIOUS
    <3>2. B = R /\ Match(R, F, Sound)
      BY <1>1, <1>3, <1>5, <1>6, <1>11, <1>12, <2>3, <3>1, GoesBack
    <3>3. Match(R, entries', Sound') /\ KeysUnique(R, Sound' \cap UniqueIndex)
      BY <1>4, <1>5, <1>11, <2>3, <3>1, <3>2
    <3>4. TableInv'
      BY <1>10, <2>1, <2>3, <3>3, BecomesIdle
    <3> QED BY <1>4, <2>1, <2>3, <3>2, <3>4
  <2>4. CASE s.op = "heapDelete" /\ entries' = entries /\ RowsOf(heap') = Others(R, s.entry.rid)
    <3>1. PICK S : S = Others(R, s.entry.rid)
      OBVIOUS
    <3>4. B = S /\ Match(S, E, Sound)
      BY <1>1, <1>3, <1>5, <1>6, <1>7, <1>11, <2>4, <3>1, EndsBackWithDelete
    <3>5. Match(S, entries', Sound') /\ KeysUnique(S, Sound' \cap UniqueIndex) /\ S = RowsOf(heap')
      BY <1>4, <1>5, <1>11, <2>4, <3>1, <3>4
    <3>6. TableInv'
      BY <1>10, <2>1, <3>5, BecomesIdle
    <3> QED BY <1>4, <2>1, <3>4, <3>5, <3>6
  <2> QED BY <1>3, <1>4, <1>7, <2>3, <2>4, DoOnRows
<1>13. CASE Len(q) # 1
  <2>1. /\ call'.op = "rollback" /\ call'.todo = Tail(q) /\ call'.before = B
        /\ call'.todo # <<>> /\ DeletesLast(call'.todo) /\ s.op # "heapDelete"
    BY <1>1, <1>4, <1>9, <1>10, <1>13
  <2>2. s \in IndexStep /\ entries' = Effect(entries, s) /\ RowsOf(heap') = R
    BY <1>3, <1>4, <1>7, <2>1, DoOnRows
  <2>3. KeysUnique(call'.before, Sound' \cap UniqueIndex)
    BY <1>5, <1>11, <2>1
  <2>4. Undoing(R, entries', Sound', call'.before, StepsOf(call'.todo))
    <3>2. PICK F : F = Effect(E, s)
      OBVIOUS
    <3>3. Undoing(R, F, Sound, B, StepsOf(Tail(q)))
      BY <1>1, <1>3, <1>5, <1>6, <1>11, <2>2, <3>2, GoesBack
    <3> QED BY <1>4, <1>5, <2>1, <2>2, <3>2, <3>3
  <2>5. TableInv'
    BY <1>10, <2>1, <2>2, <2>3, <2>4, BecomesRollback
  <2>7. call' # Idle
    BY <2>1, IdleIs
  <2> QED BY <1>4, <2>1, <2>5, <2>7
<1> QED BY <1>12, <1>13

LEMMA UndoStepKeepsInv ==
    ASSUME TableInv, UndoStep
    PROVE  /\ TableInv' /\ Sound' = Sound
           /\ call' = Idle => call.before = RowsOf(heap')
           /\ call' # Idle => call'.before = call.before
<1>1. PICK s : s = Head(call.todo)
  OBVIOUS
<1>2. /\ call.op = "rollback" /\ MaySucceed(s) /\ Do(s) /\ call' = AfterUndo
      /\ attached' = attached /\ torn' = torn /\ saved' = saved /\ counts' = counts
  BY <1>1 DEF UndoStep
<1>3. counts' \in CountsType
  BY <1>2 DEF TableInv, TypeOK
<1>4. Sound' = Sound
  BY <1>2, SoundKept
<1> QED BY <1>1, <1>2, <1>3, <1>4, UndoneKeepsInv

(* A step of a rollback has no effect: its index is lost, or all of them   *)
(* with the tuple that stays.                                              *)
LEMMA NotUndoneKeepsInv ==
    ASSUME TableInv, call.op = "rollback", NEW s, s = Head(call.todo), call' = AfterUndo,
           torn' = torn \cup (IF s.index = 0 THEN attached ELSE {s.index}),
           heap' = heap, fsm' = fsm, entries' = entries,
           attached' = attached, saved' = saved, counts' \in CountsType
    PROVE  /\ TableInv' /\ Sound' \in SUBSET Sound
           /\ call' = Idle =>
                  \/ call.before = RowsOf(heap')
                  \/ Sound' = {} /\ \E rid : call.before = Others(RowsOf(heap'), rid)
           /\ call' # Idle => call'.before = call.before
<1>1. PICK q : q = call.todo /\ s = Head(q)
  OBVIOUS
<1>3. /\ TypeOK /\ SavedSound /\ KeysUnique(call.before, Sound \cap UniqueIndex)
      /\ q # <<>> /\ DeletesLast(q)
      /\ Undoing(Rows, entries, Sound, call.before, StepsOf(q))
  BY <1>1, RollbackFacts
<1>4. PICK R, B, E, S : R = Rows /\ B = call.before /\ E = entries /\ S = Sound
  OBVIOUS
<1>5. /\ UniqueRids(R) /\ E \in AllEntries /\ S \in SUBSET Index /\ R = RowsOf(heap')
      /\ torn \in SUBSET Index /\ attached \in SUBSET Index
  BY <1>3, <1>4, RowsSound DEF TypeOK, Rows
<1>6. call \in CallType /\ q \in Seq(StepType)
  BY <1>1, <1>3 DEF TypeOK, CallType
<1>7. s \in StepType /\ s \in StepsOf(q)
  BY <1>1, <1>3, <1>6, StepsOfTail
<1>8. PICK c : c = AfterUndo
  OBVIOUS
<1>9. /\ c \in CallType
      /\ Len(q) # 1 => /\ c.op = call.op /\ c.todo = Tail(q) /\ c.before = call.before
                       /\ Tail(q) # <<>> /\ DeletesLast(Tail(q)) /\ Head(q).op # "heapDelete"
      /\ Len(q) = 1 => c = Idle
  BY <1>1, <1>3, <1>6, <1>8, AfterUndoIs, ZenonT(40)
<1>10. TypeOK' /\ SavedSound' /\ call' = c
  <2>1. call' = c /\ call' \in CallType
    BY <1>8, <1>9
  <2>2. torn' \in SUBSET Index
    BY <1>5, <1>7 DEF StepType
  <2>3. TypeOK'
    BY <1>3, <2>1, <2>2, OnlyCall
  <2> QED BY <1>3, <2>1, <2>3, SavedKept
<1>11. Undoing(R, E, S, B, StepsOf(q)) /\ KeysUnique(B, S \cap UniqueIndex)
  BY <1>3, <1>4
<1>12. BackwardStep(R, B, s)
  BY <1>7, <1>11 DEF Undoing
<1>13. CASE s \in IndexStep
  <2>1. s.index \in Index /\ s.index # 0
    BY <1>12, <1>13, ForwardIndex, TableAssumption
  <2>2. PICK F, T : F = Effect(E, s) /\ T = S \ {s.index}
    OBVIOUS
  <2>3. Sound' = T
    BY <1>4, <2>1, <2>2 DEF Sound
  <2>4. T \in SUBSET S /\ \A i \in T : F[i] = E[i] /\ E[i] = F[i]
    BY <1>5, <1>13, <2>1, <2>2, EffectElsewhere
  <2>5. Undoing(R, F, S, B, StepsOf(Tail(q))) /\ (Len(q) = 1 => B = R /\ Match(R, F, S))
    BY <1>1, <1>3, <1>5, <1>6, <1>11, <1>13, <2>2, GoesBack
  <2>6. PICK Q : Q = StepsOf(Tail(q))
    OBVIOUS
  <2>7. Undoing(R, E, T, B, Q) /\ (Match(R, F, S) => Match(R, E, T)) /\ KeysUnique(B, T \cap UniqueIndex)
    BY <1>11, <2>4, <2>5, <2>6, Narrow
  <2>8. CASE Len(q) = 1
    <3>1. call' = Idle /\ B = R
      BY <1>9, <1>10, <2>5, <2>8
    <3>2. Match(R, entries', Sound') /\ KeysUnique(R, Sound' \cap UniqueIndex)
      BY <1>4, <2>3, <2>5, <2>7, <2>8
    <3>3. TableInv'
      BY <1>5, <1>10, <3>1, <3>2, BecomesIdle
    <3> QED BY <1>4, <1>5, <2>3, <2>4, <3>1, <3>3
  <2>9. CASE Len(q) # 1
    <3>1. /\ call'.op = "rollback" /\ call'.todo = Tail(q) /\ call'.before = B
          /\ call'.todo # <<>> /\ DeletesLast(call'.todo)
      BY <1>4, <1>9, <1>10, <2>9
    <3>2. Undoing(R, entries', Sound', call'.before, StepsOf(call'.todo))
      BY <1>4, <2>3, <2>6, <2>7, <3>1
    <3>3. KeysUnique(call'.before, Sound' \cap UniqueIndex)
      BY <2>3, <2>7, <3>1
    <3>4. TableInv'
      BY <1>5, <1>10, <3>1, <3>2, <3>3, BecomesRollback
    <3>5. call' # Idle
      BY <3>1, IdleIs
    <3> QED BY <1>4, <2>3, <2>4, <3>1, <3>4, <3>5
  <2> QED BY <2>8, <2>9
<1>14. CASE s \notin IndexStep
  <2>1. s.op = "heapDelete" /\ s.index = 0
    BY <1>7, <1>12, <1>14 DEF BackwardStep, StepType, IndexStep, IndexOps
  <2>2. Len(q) = 1 /\ call' = Idle
    BY <1>1, <1>9, <1>10, <2>1
  <2>3. Sound' = {}
    BY <2>1 DEF Sound
  <2>4. PICK N : N = Others(R, s.entry.rid)
    OBVIOUS
  <2>5. B = N
    BY <1>1, <1>3, <1>5, <1>6, <1>7, <1>11, <2>1, <2>4, EndsBackWithDelete
  <2>6. Match(R, entries', Sound') /\ KeysUnique(R, Sound' \cap UniqueIndex)
    BY <2>3 DEF Match, KeysUnique
  <2>7. TableInv'
    BY <1>5, <1>10, <2>2, <2>6, BecomesIdle
  <2>8. \E rid : call.before = Others(RowsOf(heap'), rid)
    BY <1>4, <1>5, <2>4, <2>5
  <2> QED BY <2>2, <2>3, <2>7, <2>8
<1> QED BY <1>13, <1>14

LEMMA UndoThrowKeepsInv ==
    ASSUME TableInv, UndoThrows
    PROVE  /\ TableInv' /\ Sound' \in SUBSET Sound
           /\ call' = Idle =>
                  \/ call.before = RowsOf(heap')
                  \/ Sound' = {} /\ \E rid : call.before = Others(RowsOf(heap'), rid)
           /\ call' # Idle => call'.before = call.before
<1>1. PICK s : s = Head(call.todo)
  OBVIOUS
<1>2. /\ call.op = "rollback" /\ call' = AfterUndo /\ attached' = attached /\ saved' = saved
      /\ CountFailure(s)
  BY <1>1 DEF UndoThrows
<1>3. counts' \in CountsType
  BY <1>2, ThrowsCounted DEF TableInv
<1>4. CASE /\ torn' = torn \cup (IF s.index = 0 THEN attached ELSE {s.index})
           /\ heap' = heap /\ fsm' = fsm /\ entries' = entries
  BY <1>1, <1>2, <1>3, <1>4, NotUndoneKeepsInv
<1>5. CASE CanDo(s) /\ Do(s) /\ torn' = torn
  <2>1. MaySucceed(s) /\ Sound' = Sound
    BY <1>2, <1>5, SoundKept DEF MaySucceed
  <2> QED BY <1>1, <1>2, <1>3, <1>5, <2>1, UndoneKeepsInv
<1>6. \/ /\ torn' = torn \cup (IF s.index = 0 THEN attached ELSE {s.index})
         /\ heap' = heap /\ fsm' = fsm /\ entries' = entries
      \/ CanDo(s) /\ Do(s) /\ torn' = torn
  BY <1>1 DEF UndoThrows
<1> QED BY <1>4, <1>5, <1>6

LEMMA CommitKeepsInv ==
    ASSUME TableInv, Commit
    PROVE  TableInv'
<1>1. /\ call = Idle /\ call.op = "none" /\ saved' = [heap |-> heap, entries |-> entries, torn |-> torn]
      /\ heap' = heap /\ fsm' = fsm /\ attached' = attached /\ torn' = torn /\ entries' = entries
      /\ call' = call /\ counts' = counts
  BY IdleIs DEF Commit, Committed
<1>2. /\ TypeOK /\ Match(Rows, entries, Sound) /\ KeysUnique(Rows, Sound \cap UniqueIndex)
  BY <1>1, IdleFacts
<1>3. saved'.heap = heap /\ saved'.entries = entries /\ saved'.torn = torn
  BY <1>1
<1>4. TypeOK'
  <2>1. Len(saved'.heap) <= Len(heap')
    <3>1. PICK k \in Nat : k = Len(heap)
      BY <1>2 DEF TypeOK, HeapOK
    <3> QED BY <1>1, <1>3, <3>1
  <2> QED BY <1>1, <1>2, <1>3, <2>1 DEF TypeOK
<1>5. PICK R : R = Rows
  OBVIOUS
<1>6. Match(R, entries', Sound') /\ KeysUnique(R, Sound' \cap UniqueIndex) /\ R = RowsOf(heap')
  BY <1>1, <1>2, <1>5, SoundKept DEF Rows
<1>7. SavedSound'
  BY <1>1, <1>3, <1>6 DEF SavedSound, Agree, Sound
<1> QED BY <1>1, <1>4, <1>6, <1>7, BecomesIdle

LEMMA AbortKeepsInv ==
    ASSUME TableInv, Abort
    PROVE  TableInv'
<1>1. /\ heap' = Restored(heap, saved.heap) /\ entries' = saved.entries /\ torn' = saved.torn
      /\ call' = Idle /\ counts' = [counts EXCEPT !.aborts = @ + 1]
      /\ saved' = [saved EXCEPT !.heap = heap']
      /\ fsm' = fsm /\ attached' = attached
  BY DEF Abort, Restored
<1>2. /\ TypeOK /\ SavedSound
      /\ saved = [heap |-> saved.heap, entries |-> saved.entries, torn |-> saved.torn]
  BY DEF TableInv, TypeOK
<1>3. /\ HeapOK(heap) /\ HeapOK(saved.heap) /\ Len(saved.heap) <= Len(heap) /\ saved.entries \in AllEntries
      /\ counts \in CountsType /\ DOMAIN fsm = DOMAIN heap /\ attached \in SUBSET Index
      /\ saved.torn \in SUBSET Index
  BY <1>2 DEF TypeOK
<1>4. PICK h, g, h2 : h = heap /\ g = saved.heap /\ h2 = heap'
  OBVIOUS
<1>5. HeapOK(h) /\ HeapOK(g) /\ Len(g) <= Len(h) /\ h2 = Restored(h, g)
  BY <1>1, <1>3, <1>4
<1>6. HeapOK(h2) /\ Len(h2) = Len(h) /\ DOMAIN h2 = DOMAIN h /\ RowsOf(h2) = RowsOf(g)
  BY <1>5, HeapRestored
<1>7. /\ saved'.heap = h2 /\ saved'.entries = saved.entries /\ saved'.torn = saved.torn
      /\ saved' = [heap |-> h2, entries |-> saved.entries, torn |-> saved.torn]
  <2>1. PICK E, T : E = saved.entries /\ T = saved.torn
    OBVIOUS
  <2>2. saved = [heap |-> g, entries |-> E, torn |-> T] /\ saved' = [saved EXCEPT !.heap = h2]
    BY <1>1, <1>2, <1>4, <2>1
  <2>3. saved' = [heap |-> h2, entries |-> E, torn |-> T]
    BY <2>2
  <2> QED BY <2>1, <2>3
<1>8. TypeOK'
  <2>1. Len(saved'.heap) <= Len(heap')
    <3>0. PICK V : h2 \in Seq(Page(V))
      BY <1>6 DEF HeapOK
    <3>1. PICK k \in Nat : k = Len(h2)
      BY <3>0
    <3>2. saved'.heap = heap'
      BY <1>4, <1>7
    <3>3. Len(saved'.heap) = k /\ Len(heap') = k
      BY <1>4, <3>1, <3>2
    <3> QED BY <3>3
  <2>2. counts' \in CountsType
    BY <1>1, <1>3 DEF CountsType
  <2>3. call' \in CallType
    BY <1>1, IdleIs
  <2>4. HeapOK(heap') /\ DOMAIN fsm' = DOMAIN heap' /\ HeapOK(saved'.heap)
    BY <1>1, <1>3, <1>4, <1>6, <1>7
  <2>5. saved' = [heap |-> saved'.heap, entries |-> saved'.entries, torn |-> saved'.torn]
    BY <1>7
  <2>6. /\ entries' \in AllEntries /\ saved'.entries \in AllEntries /\ attached' \in SUBSET Index
        /\ torn' \in SUBSET Index /\ saved'.torn \in SUBSET Index
    BY <1>1, <1>3, <1>7
  <2> QED BY <2>1, <2>2, <2>3, <2>4, <2>5, <2>6 DEF TypeOK
<1>9. PICK R : R = RowsOf(g)
  OBVIOUS
<1>10. /\ Match(R, saved.entries, attached \ saved.torn)
       /\ KeysUnique(R, (attached \ saved.torn) \cap UniqueIndex)
       /\ Sound' = attached \ saved.torn
  BY <1>1, <1>2, <1>4, <1>9 DEF SavedSound, Agree, Sound
<1>11. Match(R, entries', Sound') /\ KeysUnique(R, Sound' \cap UniqueIndex) /\ R = RowsOf(heap')
  BY <1>1, <1>4, <1>6, <1>9, <1>10
<1>12. SavedSound'
  BY <1>1, <1>4, <1>6, <1>7, <1>9, <1>10 DEF SavedSound, Agree
<1> QED BY <1>1, <1>8, <1>11, <1>12, BecomesIdle

LEMMA EntriesTyped ==
    ASSUME NEW R, R \subseteq Row, NEW i \in Index
    PROVE  EntriesIn(R, i) \subseteq Entry
<1>1. SUFFICES ASSUME NEW row \in R PROVE [key |-> KeyOf(i, row.tuple), rid |-> row.rid] \in Entry
  BY DEF EntriesIn
<1>2. row.tuple \in Tuple /\ row.rid \in RidType
  BY DEF Row
<1>3. KeyOf(i, row.tuple) \in Key
  BY <1>2 DEF Key
<1> QED BY <1>2, <1>3 DEF Entry

(* The keys of an index are unique if no two of its entries share one.     *)
LEMMA EntriesTellKeys ==
    ASSUME NEW R, UniqueRids(R), NEW i,
           \A e, f \in EntriesIn(R, i) : e.key = f.key => e = f
    PROVE  KeysUnique(R, {i})
<1>1. SUFFICES ASSUME NEW x \in R, NEW y \in R, KeyOf(i, x.tuple) = KeyOf(i, y.tuple) PROVE x = y
  BY DEF KeysUnique
<1>2. PICK e, f : e = EntryAt(i, x.tuple, x.rid) /\ f = EntryAt(i, y.tuple, y.rid)
  OBVIOUS
<1>3. e \in EntriesIn(R, i) /\ f \in EntriesIn(R, i)
  BY <1>2, EntriesAre
<1>4. e.key = f.key /\ e.rid = x.rid /\ f.rid = y.rid
  BY <1>1, <1>2 DEF EntryAt
<1>5. x.rid = y.rid
  BY <1>3, <1>4
<1> QED BY <1>5 DEF UniqueRids

LEMMA CreateIndexKeepsInv ==
    ASSUME TableInv, NEW i \in Index, CreateIndex(i)
    PROVE  TableInv'
<1>1. /\ call = Idle /\ call.op = "none" /\ i \notin attached /\ saved = [heap |-> heap, entries |-> entries, torn |-> torn]
      /\ i \in UniqueIndex => \A e, f \in EntriesOf(i) : e.key = f.key => e = f
      /\ attached' = attached \cup {i}
      /\ entries' = [entries EXCEPT ![i] = EntriesOf(i)]
      /\ saved' = [saved EXCEPT !.entries = entries']
      /\ heap' = heap /\ fsm' = fsm /\ torn' = torn /\ call' = call /\ counts' = counts
  BY IdleIs DEF CreateIndex, Committed
<1>2. TypeOK /\ Match(Rows, entries, Sound) /\ KeysUnique(Rows, Sound \cap UniqueIndex)
  BY <1>1, IdleFacts
<1>3. PICK R, N : R = Rows /\ N = EntriesIn(R, i)
  OBVIOUS
<1>4. R \subseteq Row /\ UniqueRids(R) /\ entries \in AllEntries /\ attached \in SUBSET Index /\ HeapOK(heap)
  BY <1>2, <1>3, RowsSound
<1>5. EntriesOf(i) = N /\ entries' = [entries EXCEPT ![i] = N]
  BY <1>1, <1>3 DEF EntriesOf
<1>6. N \subseteq Entry
  BY <1>3, <1>4, EntriesTyped
<1>7. entries' \in AllEntries /\ entries'[i] = N /\ \A j \in Index : j # i => entries'[j] = entries[j]
  BY <1>4, <1>5, <1>6 DEF AllEntries
<1>8. saved' = [heap |-> heap, entries |-> entries', torn |-> torn]
  <2>1. PICK E : E = entries'
    OBVIOUS
  <2>2. saved' = [saved EXCEPT !.entries = E]
    BY <1>1, <2>1
  <2>3. saved' = [heap |-> heap, entries |-> E, torn |-> torn]
    BY <1>1, <2>2
  <2> QED BY <2>1, <2>3
<1>9. saved'.heap = heap' /\ saved'.entries = entries' /\ saved'.torn = torn
  BY <1>1, <1>8
<1>10. TypeOK'
  <2>1. Len(saved'.heap) <= Len(heap')
    <3>0. PICK V : heap \in Seq(Page(V))
      BY <1>4 DEF HeapOK
    <3>1. PICK k \in Nat : k = Len(heap)
      BY <3>0
    <3>2. Len(saved'.heap) = k /\ Len(heap') = k
      BY <1>1, <1>9, <3>1
    <3> QED BY <3>2
  <2>2. attached' \in SUBSET Index /\ torn' \in SUBSET Index /\ saved'.torn \in SUBSET Index
    BY <1>1, <1>2, <1>4, <1>9 DEF TypeOK
  <2>3. saved' = [heap |-> saved'.heap, entries |-> saved'.entries, torn |-> saved'.torn]
    BY <1>8, <1>9
  <2>4. HeapOK(heap') /\ DOMAIN fsm' = DOMAIN heap' /\ call' \in CallType /\ counts' \in CountsType
    BY <1>1, <1>2 DEF TypeOK
  <2>5. HeapOK(saved'.heap) /\ saved'.entries \in AllEntries
    BY <1>7, <1>9, <2>4
  <2> QED BY <1>7, <2>1, <2>2, <2>3, <2>4, <2>5 DEF TypeOK
<1>0. Sound' \subseteq Sound \cup {i} /\ Sound \in SUBSET Index
  BY <1>1, <1>2, RowsSound DEF Sound
<1>11. Match(R, entries', Sound')
  <2>1. SUFFICES ASSUME NEW j \in Sound' PROVE entries'[j] = EntriesIn(R, j)
    BY DEF Match
  <2>2. CASE j = i
    BY <1>3, <1>7, <2>2
  <2>3. CASE j # i
    <3>1. j \in Sound /\ j \in Index
      BY <1>0, <2>3
    <3>2. entries[j] = EntriesIn(R, j)
      BY <1>2, <1>3, <3>1 DEF Match
    <3> QED BY <1>7, <2>3, <3>1, <3>2
  <2> QED BY <2>2, <2>3
<1>12. KeysUnique(R, Sound' \cap UniqueIndex)
  <2>1. KeysUnique(R, Sound \cap UniqueIndex)
    BY <1>2, <1>3
  <2>2. ASSUME i \in UniqueIndex PROVE KeysUnique(R, {i})
    <3>1. \A e, f \in EntriesIn(R, i) : e.key = f.key => e = f
      BY <1>1, <1>3, <1>5, <2>2
    <3> QED BY <1>4, <3>1, EntriesTellKeys
  <2> QED BY <1>0, <2>1, <2>2 DEF KeysUnique
<1>13. R = RowsOf(heap') /\ call' = Idle
  BY <1>1, <1>3 DEF Rows
<1>14. SavedSound'
  BY <1>1, <1>9, <1>11, <1>12, <1>13 DEF SavedSound, Agree, Sound
<1> QED BY <1>10, <1>11, <1>12, <1>13, <1>14, BecomesIdle

LEMMA RestartKeepsInv ==
    ASSUME TableInv, Restart
    PROVE  TableInv'
<1>1. /\ call = Idle /\ call.op = "none" /\ DOMAIN fsm' = DOMAIN heap
      /\ heap' = heap /\ attached' = attached /\ torn' = torn /\ entries' = entries
      /\ call' = call /\ saved' = saved /\ counts' = counts
  BY IdleIs DEF Restart
<1>2. TypeOK /\ SavedSound /\ Match(Rows, entries, Sound) /\ KeysUnique(Rows, Sound \cap UniqueIndex)
  BY <1>1, IdleFacts
<1>3. TypeOK'
  BY <1>1, <1>2 DEF TypeOK
<1>4. PICK R : R = Rows
  OBVIOUS
<1>5. Match(R, entries', Sound') /\ KeysUnique(R, Sound' \cap UniqueIndex) /\ R = RowsOf(heap') /\ call' = Idle
  BY <1>1, <1>2, <1>4, SoundKept DEF Rows
<1>6. SavedSound'
  BY <1>1, <1>2, SavedKept
<1> QED BY <1>3, <1>5, <1>6, BecomesIdle

LEMMA InitSound ==
    ASSUME Init
    PROVE  TableInv
<1>1. /\ heap = <<>> /\ fsm = <<>> /\ attached \in SUBSET Index /\ entries = [i \in Index |-> {}] /\ call = Idle
      /\ torn = {} /\ saved = [heap |-> <<>>, entries |-> entries, torn |-> {}]
      /\ counts = [statements |-> 0, failures |-> 0, aborts |-> 0]
  BY DEF Init
<1>2. HeapOK(<<>>)
  <2>1. <<>> \in Seq(Page({}))
    BY EmptySeq
  <2> QED BY <2>1 DEF HeapOK
<1>3. saved.heap = <<>> /\ saved.entries = entries /\ saved.torn = {}
  BY <1>1
<1>4. TypeOK
  <2>1. entries \in AllEntries
    BY <1>1 DEF AllEntries
  <2>2. counts \in CountsType
    BY <1>1 DEF CountsType
  <2>3. call \in CallType
    BY <1>1, IdleIs
  <2>4. Len(saved.heap) <= Len(heap)
    BY <1>1, <1>3
  <2>5. HeapOK(heap) /\ HeapOK(saved.heap) /\ DOMAIN fsm = DOMAIN heap
    BY <1>1, <1>2, <1>3
  <2>6. saved = [heap |-> saved.heap, entries |-> saved.entries, torn |-> saved.torn]
    BY <1>1, <1>3
  <2> QED BY <1>1, <1>3, <2>1, <2>2, <2>3, <2>4, <2>5, <2>6 DEF TypeOK
<1>5. RowsOf(<<>>) = {}
  BY DEF RowsOf
<1>6. Agree({}, entries, attached)
  <2>1. \A i \in attached : entries[i] = EntriesIn({}, i)
    BY <1>1 DEF EntriesIn
  <2> QED BY <2>1 DEF Agree, Match, KeysUnique
<1>7. call.op = "none" /\ call.op \notin Forward /\ call.op # "rollback" /\ call.op # "move"
  BY <1>1, IdleIs DEF Forward
<1>8. Agree(Rows, entries, Sound) /\ SavedSound
  <2>1. Sound = attached /\ attached \ saved.torn = attached
    BY <1>1, <1>3 DEF Sound
  <2> QED BY <1>1, <1>3, <1>5, <1>6, <2>1 DEF Rows, SavedSound
<1> QED BY <1>1, <1>4, <1>7, <1>8 DEF TableInv, IdleSound, ForwardSound, MoveSound, RollbackSound, BeforeSound

-----------------------------------------------------------------------------
(* The theorems.                                                           *)

LEMMA NextKeepsInv ==
    ASSUME TableInv, Next
    PROVE  TableInv'
<1>1. CASE \E t \in Tuple, p \in 1 .. MaxPages : InsertTuple(t, p)
  BY <1>1, InsertKeepsInv
<1>2. CASE \E row \in Rows : DeleteTuple(row)
  BY <1>2, DeleteKeepsInv
<1>3. CASE \E row \in Rows, t \in Tuple : UpdateInPlace(row, t)
  BY <1>3, InPlaceKeepsInv
<1>4. CASE \E row \in Rows, t \in Tuple, p \in 1 .. MaxPages : MoveTuple(row, t, p) \/ UpdateTuple(row, t, p)
  BY <1>4, MoveKeepsInv, UpdateKeepsInv
<1>5. CASE NextStep
  BY <1>5, NextStepKeepsInv
<1>6. CASE StepThrows
  BY <1>6, ThrowKeepsInv
<1>7. CASE UndoStep
  BY <1>7, UndoStepKeepsInv
<1>8. CASE UndoThrows
  BY <1>8, UndoThrowKeepsInv
<1>9. CASE Commit
  BY <1>9, CommitKeepsInv
<1>10. CASE Abort
  BY <1>10, AbortKeepsInv
<1>11. CASE Restart
  BY <1>11, RestartKeepsInv
<1>12. CASE \E i \in Index : CreateIndex(i)
  BY <1>12, CreateIndexKeepsInv
<1>13. CASE MoveFails
  BY <1>13, MoveFailsKeepsInv
<1> QED
  BY <1>1, <1>2, <1>3, <1>4, <1>5, <1>6, <1>7, <1>8, <1>9, <1>10, <1>11, <1>12, <1>13 DEF Next

LEMMA StutterKeepsInv ==
    ASSUME TableInv, UNCHANGED vars
    PROVE  TableInv'
<1>1. /\ heap' = heap /\ fsm' = fsm /\ attached' = attached /\ torn' = torn /\ entries' = entries
      /\ call' = call /\ saved' = saved /\ counts' = counts
  BY DEF vars
<1>2. TypeOK' /\ SavedSound'
  BY <1>1 DEF TableInv, TypeOK, SavedSound, Agree
<1>0. Sound' = Sound /\ Rows' = Rows
  BY <1>1, SoundKept DEF Rows
<1>3. IdleSound' /\ BeforeSound'
  BY <1>0, <1>1 DEF TableInv, IdleSound, BeforeSound, Agree
<1>4. ForwardSound' /\ RollbackSound'
  BY <1>0, <1>1 DEF TableInv, ForwardSound, RollbackSound
<1>5. MoveSound'
  BY <1>0, <1>1 DEF TableInv, MoveSound, Moving
<1> QED BY <1>2, <1>3, <1>4, <1>5 DEF TableInv

(* At every step of a statement, and of its rollback, what the statement   *)
(* still has to do makes the indexes that no step has torn agree with the  *)
(* heap, and taking back what it did leads to the rows and the entries     *)
(* from before; steps that throw before or after their effect included.    *)
THEOREM TableInvariant == Spec => []TableInv
<1>1. Init => TableInv
  BY InitSound
<1>2. TableInv /\ [Next]_vars => TableInv'
  BY NextKeepsInv, StutterKeepsInv
<1> QED BY <1>1, <1>2, PTL DEF Spec

(* While a statement can be taken back, an entry that no longer should be  *)
(* there belongs to a row that it inserted.                                *)
LEMMA UndoingRefersToRows ==
    ASSUME NEW R, NEW E, NEW A, NEW B, NEW Q, Undoing(R, E, A, B, Q), NEW i \in A
    PROVE  E[i] \subseteq EntriesIn(R, i)
<1>1. SUFFICES ASSUME NEW e \in E[i] PROVE e \in EntriesIn(R, i)
  OBVIOUS
<1>2. B \subseteq R
  BY DEF Undoing, Survivors
<1>3. EntriesIn(B, i) = (E[i] \ Picked(Q, "indexDelete", i)) \cup Picked(Q, "indexInsert", i)
  BY DEF Undoing
<1>4. CASE e \notin Picked(Q, "indexDelete", i)
  <2>1. e \in EntriesIn(B, i)
    BY <1>1, <1>3, <1>4
  <2> QED BY <1>2, <2>1, EntriesAre
<1>5. CASE e \in Picked(Q, "indexDelete", i)
  <2>1. PICK s \in Q : s.op = "indexDelete" /\ s.index = i /\ s.entry = e
    BY <1>5 DEF Picked
  <2>2. e \in EntriesIn(R \ B, i)
    BY <2>1 DEF Undoing, BackwardStep
  <2> QED BY <2>2, EntriesAre
<1> QED BY <1>4, <1>5

(* An entry of an index that no failing step has torn refers to a live     *)
(* tuple with its key, at every step.                                      *)
THEOREM EntriesReferToTuples == Spec => []NoDanglingEntries
<1>1. TableInv => NoDanglingEntries
  <2>1. SUFFICES ASSUME TableInv, NEW i \in Sound PROVE entries[i] \subseteq EntriesIn(Rows, i)
    BY DEF NoDanglingEntries, EntriesOf, Sound
  <2>2. call.op \in Forward \cup {"none", "rollback"}
    BY <2>1 DEF TableInv, TypeOK, CallType
  <2>3. CASE call.op = "none"
    <3>1. entries[i] = EntriesIn(Rows, i)
      BY <2>1, <2>3, IdleFacts DEF Match
    <3> QED BY <3>1
  <2>4. CASE call.op \in Forward
    <3>1. Undoing(Rows, entries, Sound, call.before, StepsOf(UndoSteps(call.done)))
      BY <2>1, <2>4, ForwardFacts DEF Going
    <3> QED BY <3>1, UndoingRefersToRows
  <2>5. CASE call.op = "rollback"
    <3>1. Undoing(Rows, entries, Sound, call.before, StepsOf(call.todo))
      BY <2>1, <2>5, RollbackFacts
    <3> QED BY <3>1, UndoingRefersToRows
  <2> QED BY <2>2, <2>3, <2>4, <2>5
<1> QED BY <1>1, TableInvariant, PTL

(* Between statements the indexes that no failing step has torn have the   *)
(* entries of the live tuples.                                             *)
THEOREM IndexesFollowTheHeap == Spec => []IndexesAgree
<1>1. TableInv => IndexesAgree
  <2>1. SUFFICES ASSUME TableInv, call = Idle, NEW i \in Sound PROVE entries[i] = EntriesIn(Rows, i)
    BY DEF IndexesAgree, EntriesOf, Sound
  <2>2. call.op = "none"
    BY <2>1, IdleIs
  <2> QED BY <2>1, <2>2, IdleFacts DEF Match
<1> QED BY <1>1, TableInvariant, PTL

-----------------------------------------------------------------------------
(* A statement takes effect as a whole or not at all.                      *)

\* The rows that TableSpec has.
Seen == IF call = Idle THEN Rows ELSE call.before

\* The constraints that it has, and the state of the last commit.
Enforced == (attached \cap UniqueIndex) \ torn

SeenSaved ==
    [rows |-> RowsOf(saved.heap), enforced |-> (attached \cap UniqueIndex) \ saved.torn]

LEMMA EnforcedIs ==
    /\ Enforced = Sound \cap UniqueIndex
    /\ Enforced' = Sound' \cap UniqueIndex
    /\ attached' = attached /\ torn' = torn => Enforced' = Enforced
    /\ attached' = attached /\ saved' = saved => SeenSaved' = SeenSaved
  BY DEF Enforced, Sound, SeenSaved

LEMMA StatementSeen ==
    ASSUME NEW B, B = Seen, NEW F, F = Seen', Allowed(B, F, Sound \cap UniqueIndex),
           UniqueRids(B), F \subseteq Row, attached' = attached, torn' = torn, saved' = saved
    PROVE  TableSpec!Next
<1>1. TableSpec!Respects(F, Enforced)
  BY EnforcedIs DEF Allowed, KeysUnique, TableSpec!Respects
<1>2. \A row \in B : Others(B, row.rid) = B \ {row}
  BY DEF Others, UniqueRids
<1>3. \A new \in F : new.tuple \in Tuple
  BY DEF Row
<1>4. (\E new \in F : Fresh(B, new) /\ F = WithRow(B, new))
      \/ (\E row \in B : F = Others(B, row.rid))
      \/ (\E row \in B, new \in F :
              (new.rid = row.rid \/ Fresh(B, new)) /\ F = WithRow(Others(B, row.rid), new))
  BY DEF Allowed
<1>5. (\E new \in F : new.tuple \in Tuple /\ TableSpec!Insert(new))
      \/ (\E row \in B : TableSpec!Delete(row))
      \/ (\E row \in B, new \in F : new.tuple \in Tuple /\ TableSpec!Update(row, new))
  <2>1. CASE \E new \in F : Fresh(B, new) /\ F = WithRow(B, new)
    <3>1. PICK new \in F : Fresh(B, new) /\ F = WithRow(B, new)
      BY <2>1
    <3>2. TableSpec!Insert(new)
      BY <3>1 DEF TableSpec!Insert, TableSpec!Free, Fresh, WithRow, Seen
    <3> QED BY <1>3, <3>2
  <2>2. CASE \E row \in B : F = Others(B, row.rid)
    <3>1. PICK row \in B : F = Others(B, row.rid)
      BY <2>2
    <3>2. F = B \ {row}
      BY <1>2, <3>1
    <3>3. TableSpec!Delete(row)
      BY <3>2 DEF TableSpec!Delete, Seen
    <3> QED BY <3>3
  <2>3. CASE \E row \in B, new \in F :
                 (new.rid = row.rid \/ Fresh(B, new)) /\ F = WithRow(Others(B, row.rid), new)
    <3>1. PICK row \in B, new \in F :
              (new.rid = row.rid \/ Fresh(B, new)) /\ F = WithRow(Others(B, row.rid), new)
      BY <2>3
    <3>2. F = (B \ {row}) \cup {new}
      BY <1>2, <3>1 DEF WithRow
    <3>3. TableSpec!Update(row, new)
      BY <3>1, <3>2 DEF TableSpec!Update, TableSpec!Free, Fresh, Seen
    <3> QED BY <1>3, <3>3
  <2> QED BY <1>4, <2>1, <2>2, <2>3
<1>6. TableSpec!Statement
  BY <1>1, <1>5 DEF TableSpec!Statement, Seen, Enforced
<1> QED BY <1>6 DEF TableSpec!Next

LEMMA NothingSeen ==
    ASSUME Seen' = Seen, SeenSaved' = SeenSaved, Enforced' = Enforced
    PROVE  UNCHANGED TableSpec!tableVars
  BY DEF TableSpec!tableVars, Seen, SeenSaved, Enforced

TableStep == TableSpec!Next \/ UNCHANGED TableSpec!tableVars

(* A statement that begins is not seen.                                    *)
LEMMA BeginsUnseen ==
    ASSUME call = Idle, call'.op \in Forward, call'.before = Rows,
           attached' = attached, torn' = torn, saved' = saved
    PROVE  TableStep
<1>1. call'.op # "none"
  BY DEF Forward
<1>2. call' # Idle
  BY <1>1, IdleIs
<1>3. Seen' = Seen
  BY <1>2 DEF Seen
<1> QED BY <1>3, EnforcedIs, NothingSeen DEF TableStep

(* A statement goes on or is taken back: at most constraints are lost.     *)
LEMMA ConstraintsLost ==
    ASSUME Seen' = Seen, attached' = attached, saved' = saved, Sound' \in SUBSET Sound
    PROVE  TableStep
<1>1. Enforced' \subseteq Enforced /\ SeenSaved' = SeenSaved
  BY EnforcedIs
<1>2. TableSpec!LoseConstraints
  BY <1>1 DEF TableSpec!LoseConstraints, Seen, SeenSaved, Enforced
<1> QED BY <1>2 DEF TableStep, TableSpec!Next

LEMMA GoesOnUnseen ==
    ASSUME call # Idle, call' # Idle, call'.before = call.before, attached' = attached, saved' = saved,
           Sound' \in SUBSET Sound
    PROVE  TableStep
<1>1. Seen' = Seen
  BY DEF Seen
<1> QED BY <1>1, ConstraintsLost

LEMMA TakenBackUnseen ==
    ASSUME call # Idle, call' = Idle, call.before = RowsOf(heap'), attached' = attached, saved' = saved,
           Sound' \in SUBSET Sound
    PROVE  TableStep
<1>1. Seen' = Seen
  BY DEF Seen, Rows
<1> QED BY <1>1, ConstraintsLost

(* The new tuple of a statement that failed stays in the heap.             *)
LEMMA RowLeftBehind ==
    ASSUME call # Idle, call' = Idle, attached' = attached, saved' = saved, Sound' = {},
           NEW F, F = RowsOf(heap'), F \subseteq Row, NEW new \in F,
           NEW B, B = call.before, Fresh(B, new), F = WithRow(B, new)
    PROVE  TableStep
<1>1. B = Seen /\ F = Seen'
  BY DEF Seen, Rows
<1>2. Enforced' = {} /\ SeenSaved' = SeenSaved
  BY EnforcedIs
<1>3. TableSpec!Insert(new) /\ new.tuple \in Tuple
  BY <1>1 DEF TableSpec!Insert, TableSpec!Free, Fresh, WithRow, Seen, Row
<1>4. TableSpec!LeaveBehind
  BY <1>1, <1>2, <1>3 DEF TableSpec!LeaveBehind, Seen, SeenSaved, Enforced
<1> QED BY <1>4 DEF TableStep, TableSpec!Next

LEMMA NotTakenBack ==
    ASSUME call # Idle, call' = Idle, attached' = attached, saved' = saved, Sound' = {},
           NEW F, F = RowsOf(heap'), F \subseteq Row, UniqueRids(F), NEW rid, call.before = Others(F, rid)
    PROVE  TableStep
<1>1. CASE \E row \in F : row.rid = rid
  <2>1. PICK row \in F : row.rid = rid
    BY <1>1
  <2>2. PICK B : B = call.before
    OBVIOUS
  <2>3. Fresh(B, row) /\ F = WithRow(B, row)
    BY <2>1, <2>2 DEF Fresh, WithRow, Others, UniqueRids
  <2>4. call # Idle /\ call' = Idle /\ attached' = attached /\ saved' = saved /\ Sound' = {}
    OBVIOUS
  <2>5. F = RowsOf(heap') /\ F \subseteq Row /\ row \in F
    BY <2>1
  <2> QED BY <2>2, <2>3, <2>4, <2>5, RowLeftBehind, ZenonT(60)
<1>2. CASE \A row \in F : row.rid # rid
  <2>1. call.before = RowsOf(heap')
    BY <1>2 DEF Others
  <2> QED BY <2>1, TakenBackUnseen
<1> QED BY <1>1, <1>2

LEMMA EndSeen ==
    ASSUME NEW B, B = Seen, UniqueRids(B), TypeOK', call' = Idle, NEW F, F = RowsOf(heap'),
           Allowed(B, F, Sound \cap UniqueIndex), attached' = attached, torn' = torn, saved' = saved
    PROVE  TableStep
<1>1. F \subseteq Row
  BY RowsTyped DEF TypeOK
<1>2. F = Seen'
  BY DEF Seen, Rows
<1>3. TableSpec!Next
  BY <1>1, <1>2, StatementSeen
<1> QED BY <1>3 DEF TableStep

LEMMA StartSimulates ==
    ASSUME TableInv, BeginStatement, NEW op \in Forward, NEW t, NEW p, NEW q, q # <<>>,
           StartWithInsert(op, t, p, q), attached' = attached, torn' = torn, saved' = saved
    PROVE  TableStep
<1>1. call = Idle
  BY DEF BeginStatement
<1>2. PICK d : d = <<HeapStep("heapInsert", Inserted(p, t).rid)>>
  OBVIOUS
<1>3. call' = [Idle EXCEPT !.op = op, !.todo = q, !.done = d, !.before = Rows]
  BY <1>2 DEF StartWithInsert
<1>4. call'.op = op /\ call'.before = Rows
  BY <1>3 DEF Idle
<1> QED BY <1>1, <1>4, BeginsUnseen

LEMMA InsertSimulates ==
    ASSUME TableInv, TableInv', NEW t \in Tuple, NEW p \in 1 .. MaxPages, InsertTuple(t, p)
    PROVE  TableStep
<1>1. /\ BeginStatement /\ attached' = attached /\ torn' = torn /\ entries' = entries /\ saved' = saved
  BY DEF InsertTuple
<1>2. call = Idle /\ TypeOK
  BY <1>1, Begins
<1>3. PICK R : R = Rows
  OBVIOUS
<1>4. UniqueRids(R)
  BY <1>2, <1>3, RowsSound
<1>5. PICK q : q = IndexSteps("indexInsert", t, Inserted(p, t).rid)
  OBVIOUS
<1>6. StartWithInsert("insert", t, p, q)
  BY <1>5 DEF InsertTuple
<1>7. CASE q = <<>>
  <2>1. IsPageForInsert(p, SizeOf(t)) /\ SetPage(p, Inserted(p, t).page) /\ call' = Idle
    BY <1>6, <1>7 DEF StartWithInsert
  <2>2. PICK new \in Row : RowsOf(heap') = WithRow(R, new) /\ Fresh(R, new)
    BY <1>2, <1>3, <2>1, HeapGrows
  <2>3. PICK F : F = RowsOf(heap')
    OBVIOUS
  <2>4. KeysUnique(F, Sound \cap UniqueIndex) /\ TypeOK'
    <3>1. call'.op = "none"
      BY <2>1, IdleIs
    <3>2. Agree(Rows, entries, Sound)' /\ TypeOK'
      BY <3>1 DEF TableInv, IdleSound
    <3> QED BY <1>1, <2>3, <3>2, SoundKept DEF Agree, Rows
  <2>5. new \in F /\ F = WithRow(R, new)
    BY <2>2, <2>3 DEF WithRow
  <2>6. Allowed(R, F, Sound \cap UniqueIndex)
    BY <2>2, <2>4, <2>5 DEF Allowed
  <2>7. R = Seen
    BY <1>2, <1>3 DEF Seen
  <2> QED BY <1>1, <1>4, <2>1, <2>3, <2>4, <2>6, <2>7, EndSeen
<1>8. CASE q # <<>>
  <2>1. "insert" \in Forward
    BY DEF Forward
  <2> QED BY <1>1, <1>6, <1>8, <2>1, StartSimulates
<1> QED BY <1>7, <1>8

LEMMA DeleteSimulates ==
    ASSUME TableInv, NEW row \in Rows, DeleteTuple(row)
    PROVE  TableStep
<1>1. call = Idle /\ attached' = attached /\ torn' = torn /\ saved' = saved
  BY DEF DeleteTuple, BeginStatement
<1>2. call'.op = "delete" /\ call'.before = Rows
  BY DEF DeleteTuple, Idle
<1> QED BY <1>1, <1>2, BeginsUnseen DEF Forward

LEMMA InPlaceSimulates ==
    ASSUME TableInv, TableInv', NEW row \in Rows, NEW t \in Tuple, UpdateInPlace(row, t)
    PROVE  TableStep
<1>1. /\ BeginStatement /\ call' = call /\ attached' = attached /\ torn' = torn /\ saved' = saved
      /\ heap' = [heap EXCEPT ![row.rid[1]] = OverwriteRecord(@, row.rid[2], t)]
  BY DEF UpdateInPlace
<1>2. call = Idle /\ TypeOK /\ call' = Idle
  BY <1>1, Begins
<1>3. PICK R, F : R = Rows /\ F = RowsOf(heap')
  OBVIOUS
<1>4. UniqueRids(R) /\ HeapOK(heap)
  BY <1>2, <1>3, RowsSound
<1>5. PICK new : new = [rid |-> row.rid, tuple |-> t]
  OBVIOUS
<1>6. row \in RowsOf(heap)
  BY DEF Rows
<1>7. F = WithRow(Others(R, row.rid), new)
  BY <1>1, <1>3, <1>4, <1>5, <1>6, HeapChanged DEF Rows
<1>8. KeysUnique(F, Sound \cap UniqueIndex) /\ TypeOK'
  <2>1. call'.op = "none"
    BY <1>2, IdleIs
  <2>2. Agree(Rows, entries, Sound)' /\ TypeOK'
    BY <2>1 DEF TableInv, IdleSound
  <2> QED BY <1>1, <1>3, <2>2, SoundKept DEF Agree, Rows
<1>9. new \in F /\ new.rid = row.rid /\ row \in R
  BY <1>3, <1>5, <1>7 DEF WithRow
<1>10. Allowed(R, F, Sound \cap UniqueIndex)
  BY <1>7, <1>8, <1>9 DEF Allowed
<1>11. R = Seen
  BY <1>2, <1>3 DEF Seen
<1> QED BY <1>1, <1>2, <1>3, <1>4, <1>8, <1>10, <1>11, EndSeen

LEMMA MoveSimulates ==
    ASSUME TableInv, NEW row, NEW t, NEW p, MoveTuple(row, t, p)
    PROVE  TableStep
<1>1. PICK q : q = <<HeapStep("heapDelete", row.rid)>>
  OBVIOUS
<1>2. BeginStatement /\ attached' = attached /\ torn' = torn /\ saved' = saved /\ StartWithInsert("move", t, p, q)
  BY <1>1 DEF MoveTuple
<1>3. q # <<>> /\ "move" \in Forward
  BY <1>1 DEF Forward
<1> QED BY <1>2, <1>3, StartSimulates

LEMMA UpdateSimulates ==
    ASSUME TableInv, NEW row \in Rows, NEW t \in Tuple, NEW p \in 1 .. MaxPages, UpdateTuple(row, t, p)
    PROVE  TableStep
<1>1. PICK a, b, q : a = IndexSteps("indexInsert", t, Inserted(p, t).rid) /\ b = DeleteSteps(row) /\ q = a \o b
  OBVIOUS
<1>2. BeginStatement /\ attached' = attached /\ torn' = torn /\ saved' = saved /\ StartWithInsert("update", t, p, q)
  BY <1>1 DEF UpdateTuple
<1>3. TypeOK
  BY DEF TableInv
<1>4. row \in Row /\ attached \in SUBSET Index
  BY <1>3, RowsSound
<1>5. Inserted(p, t).rid \in RidType
  <2>1. IsPageForInsert(p, SizeOf(t)) /\ SetPage(p, Inserted(p, t).page)
    BY <1>2 DEF StartWithInsert
  <2>2. PICK new \in Row : new.rid = Inserted(p, t).rid
    BY <1>3, <2>1, HeapGrows
  <2> QED BY <2>2 DEF Row
<1>6. a \in Seq(StepType)
  <2>1. "indexInsert" \in IndexOps
    BY DEF IndexOps
  <2> QED BY <1>1, <1>4, <1>5, <2>1, IndexStepsAre
<1>7. PICK d \in StepType : b \in Seq(StepType) /\ d \in StepsOf(b)
  BY <1>1, <1>4, DeleteStepsAre
<1>8. q # <<>>
  <2>1. d \in StepsOf(q)
    BY <1>1, <1>6, <1>7, StepsOfConcat
  <2>2. d \notin StepsOf(<<>>)
    BY DEF StepsOf
  <2> QED BY <2>1, <2>2
<1>9. "update" \in Forward
  BY DEF Forward
<1> QED BY <1>2, <1>8, <1>9, StartSimulates

LEMMA NextStepSimulates ==
    ASSUME TableInv, NextStep
    PROVE  TableStep
<1>1. /\ call.op \in Forward /\ call.op # "none" /\ attached' = attached /\ torn' = torn
      /\ saved' = saved /\ Sound' \in SUBSET Sound
  BY SoundKept DEF NextStep, Forward
<1>2. call # Idle
  BY <1>1, IdleIs
<1>3. /\ TableInv'
      /\ call' = Idle => Allowed(call.before, RowsOf(heap'), Sound \cap UniqueIndex)
      /\ call' # Idle => call'.before = call.before
  BY NextStepKeepsInv
<1>4. CASE call' = Idle
  <2>1. PICK B, F : B = call.before /\ F = RowsOf(heap')
    OBVIOUS
  <2>2. Allowed(B, F, Sound \cap UniqueIndex) /\ B = Seen /\ TypeOK'
    BY <1>2, <1>3, <1>4, <2>1 DEF Seen, TableInv
  <2>3. UniqueRids(B)
    <3>1. TypeOK /\ Undoing(Rows, entries, Sound, B, StepsOf(UndoSteps(call.done)))
      BY <1>1, <2>1, ForwardFacts DEF Going
    <3>2. B \subseteq Rows /\ UniqueRids(Rows)
      BY <3>1, RowsSound DEF Undoing, Survivors
    <3> QED BY <3>2 DEF UniqueRids
  <2> QED BY <1>1, <1>4, <2>1, <2>2, <2>3, EndSeen
<1>5. CASE call' # Idle
  BY <1>1, <1>2, <1>3, <1>5, GoesOnUnseen
<1> QED BY <1>4, <1>5

LEMMA ThrowSimulates ==
    ASSUME TableInv, StepThrows \/ UndoStep
    PROVE  TableStep
<1>1. call.op # "none" /\ attached' = attached /\ saved' = saved
  BY DEF StepThrows, UndoStep
<1>2. call # Idle
  BY <1>1, IdleIs
<1>3. /\ call' = Idle => call.before = RowsOf(heap')
      /\ call' # Idle => call'.before = call.before
      /\ Sound' \in SUBSET Sound
  BY ThrowKeepsInv, UndoStepKeepsInv
<1> QED BY <1>1, <1>2, <1>3, GoesOnUnseen, TakenBackUnseen

LEMMA UndoThrowSimulates ==
    ASSUME TableInv, UndoThrows
    PROVE  TableStep
<1>1. call.op # "none" /\ attached' = attached /\ saved' = saved
  BY DEF UndoThrows
<1>2. call # Idle
  BY <1>1, IdleIs
<1>3. /\ TableInv' /\ Sound' \in SUBSET Sound
      /\ call' = Idle =>
             \/ call.before = RowsOf(heap')
             \/ Sound' = {} /\ \E rid : call.before = Others(RowsOf(heap'), rid)
      /\ call' # Idle => call'.before = call.before
  BY UndoThrowKeepsInv
<1>4. CASE call' # Idle
  BY <1>1, <1>2, <1>3, <1>4, GoesOnUnseen
<1>5. CASE call' = Idle /\ call.before = RowsOf(heap')
  BY <1>1, <1>2, <1>3, <1>5, TakenBackUnseen
<1>6. CASE call' = Idle /\ Sound' = {} /\ \E rid : call.before = Others(RowsOf(heap'), rid)
  <2>1. PICK F : F = RowsOf(heap')
    OBVIOUS
  <2>2. F \subseteq Row /\ UniqueRids(F)
    BY <1>3, <2>1, RowsTyped DEF TableInv, TypeOK
  <2>3. PICK rid : call.before = Others(F, rid)
    BY <1>6, <2>1
  <2> QED BY <1>1, <1>2, <1>6, <2>1, <2>2, <2>3, NotTakenBack
<1> QED BY <1>3, <1>4, <1>5, <1>6

LEMMA MoveFailsSimulates ==
    ASSUME TableInv, MoveFails
    PROVE  TableStep
<1>1. call.op # "none" /\ attached' = attached /\ saved' = saved
  BY DEF MoveFails
<1>2. call # Idle
  BY <1>1, IdleIs
<1>3. PICK B, F : B = call.before /\ F = RowsOf(heap')
  OBVIOUS
<1>4. TableInv' /\ Sound' = Sound /\ attached = {} /\ call' = Idle
  BY MoveFailsKeepsInv
<1>5. PICK new \in Rows : Fresh(B, new) /\ F = WithRow(B, new)
  BY <1>3, MoveFailsKeepsInv
<1>6. F \subseteq Row /\ new \in F /\ Sound' = {}
  <2>1. F \subseteq Row
    BY <1>3, <1>4, RowsTyped DEF TableInv, TypeOK
  <2>2. new \in F
    BY <1>5 DEF WithRow
  <2> QED BY <1>4, <2>1, <2>2 DEF Sound
<1> QED BY <1>1, <1>2, <1>3, <1>4, <1>5, <1>6, RowLeftBehind

LEMMA CommitSimulates ==
    ASSUME TableInv, Commit
    PROVE  TableStep
<1>1. /\ call = Idle /\ call' = Idle /\ saved' = [heap |-> heap, entries |-> entries, torn |-> torn]
      /\ heap' = heap /\ attached' = attached /\ torn' = torn
  BY DEF Commit, Committed
<1>2. saved'.heap = heap /\ saved'.torn = torn
  BY <1>1
<1>3. Seen = Rows /\ Seen' = Rows /\ Enforced' = Enforced
  BY <1>1, EnforcedIs DEF Seen, Rows
<1>4. SeenSaved' = [rows |-> Seen, enforced |-> Enforced]
  BY <1>1, <1>2, <1>3 DEF SeenSaved, Enforced, Rows
<1>5. TableSpec!Commit
  BY <1>3, <1>4 DEF TableSpec!Commit, TableSpec!Current, Seen, SeenSaved, Enforced
<1> QED BY <1>5 DEF TableStep, TableSpec!Next

LEMMA AbortSimulates ==
    ASSUME TableInv, Abort
    PROVE  TableStep
<1>1. /\ heap' = Restored(heap, saved.heap) /\ call' = Idle /\ torn' = saved.torn
      /\ saved' = [saved EXCEPT !.heap = heap'] /\ attached' = attached
  BY DEF Abort, Restored
<1>2. /\ HeapOK(heap) /\ HeapOK(saved.heap) /\ Len(saved.heap) <= Len(heap)
      /\ saved = [heap |-> saved.heap, entries |-> saved.entries, torn |-> saved.torn]
  BY DEF TableInv, TypeOK
<1>3. PICK h, g, h2 : h = heap /\ g = saved.heap /\ h2 = heap'
  OBVIOUS
<1>4. HeapOK(h) /\ HeapOK(g) /\ Len(g) <= Len(h) /\ h2 = Restored(h, g)
  BY <1>1, <1>2, <1>3
<1>5. RowsOf(h2) = RowsOf(g)
  BY <1>4, HeapRestored
<1>6. saved'.heap = h2 /\ saved'.torn = saved.torn
  <2>1. PICK E, T : E = saved.entries /\ T = saved.torn
    OBVIOUS
  <2>2. saved = [heap |-> g, entries |-> E, torn |-> T] /\ saved' = [saved EXCEPT !.heap = h2]
    BY <1>1, <1>2, <1>3, <2>1
  <2>3. saved' = [heap |-> h2, entries |-> E, torn |-> T]
    BY <2>2
  <2> QED BY <2>1, <2>3
<1>7. Seen' = RowsOf(saved.heap) /\ RowsOf(saved'.heap) = RowsOf(saved.heap)
  BY <1>1, <1>3, <1>5, <1>6 DEF Rows, Seen
<1>8. SeenSaved' = SeenSaved /\ SeenSaved.rows = Seen' /\ SeenSaved.enforced = Enforced'
  BY <1>1, <1>6, <1>7 DEF SeenSaved, Enforced
<1>9. TableSpec!Abort
  BY <1>8 DEF TableSpec!Abort, Seen, SeenSaved, Enforced
<1> QED BY <1>9 DEF TableStep, TableSpec!Next

LEMMA CreateIndexSimulates ==
    ASSUME TableInv, TableInv', NEW i \in Index, CreateIndex(i)
    PROVE  TableStep
<1>1. /\ call = Idle /\ call' = Idle /\ attached' = attached \cup {i} /\ torn' = torn
      /\ saved = [heap |-> heap, entries |-> entries, torn |-> torn]
      /\ saved' = [saved EXCEPT !.entries = entries'] /\ heap' = heap
  BY DEF CreateIndex, Committed
<1>2. saved'.heap = heap /\ saved.heap = heap /\ saved'.torn = torn /\ saved.torn = torn
  <2>1. PICK E : E = entries'
    OBVIOUS
  <2>2. saved' = [saved EXCEPT !.entries = E]
    BY <1>1, <2>1
  <2> QED BY <1>1, <2>2
<1>3. Seen = Rows /\ Seen' = Rows
  BY <1>1 DEF Seen, Rows
<1>4. /\ SeenSaved = [rows |-> Rows, enforced |-> Enforced]
      /\ SeenSaved' = [rows |-> Rows, enforced |-> Enforced']
  BY <1>1, <1>2 DEF SeenSaved, Enforced, Rows
<1>5. CASE i \notin UniqueIndex \/ i \in torn
  <2>1. Enforced' = Enforced
    BY <1>1, <1>5 DEF Enforced
  <2> QED BY <1>3, <1>4, <2>1, NothingSeen DEF TableStep
<1>6. CASE i \in UniqueIndex /\ i \notin torn
  <2>1. Enforced' = Enforced \cup {i} /\ i \in Sound' \cap UniqueIndex
    BY <1>1, <1>6 DEF Enforced, Sound
  <2>2. KeysUnique(Rows, {i})
    <3>1. call'.op = "none"
      BY <1>1, IdleIs
    <3>2. Agree(Rows, entries, Sound)'
      BY <3>1 DEF TableInv, IdleSound
    <3>3. KeysUnique(Rows, Sound' \cap UniqueIndex)
      BY <1>1, <3>2 DEF Agree, Rows
    <3> QED BY <2>1, <3>3 DEF KeysUnique
  <2>3. TableSpec!Respects(Seen, {i})
    BY <1>3, <2>2 DEF TableSpec!Respects, KeysUnique
  <2>4. SeenSaved' = [SeenSaved EXCEPT !.enforced = Enforced']
    <3>1. PICK r, e, f : r = Rows /\ e = Enforced /\ f = Enforced'
      OBVIOUS
    <3>2. SeenSaved = [rows |-> r, enforced |-> e] /\ SeenSaved' = [rows |-> r, enforced |-> f]
      BY <1>4, <3>1
    <3>3. SeenSaved' = [SeenSaved EXCEPT !.enforced = f]
      BY <3>2
    <3> QED BY <3>1, <3>3
  <2>5. SeenSaved = [rows |-> Seen, enforced |-> Enforced]
    BY <1>3, <1>4
  <2>6. TableSpec!AddUniqueIndex(i)
    BY <1>3, <2>1, <2>3, <2>4, <2>5
       DEF TableSpec!AddUniqueIndex, TableSpec!Current, Seen, SeenSaved, Enforced
  <2> QED BY <1>6, <2>6 DEF TableStep, TableSpec!Next
<1> QED BY <1>5, <1>6

LEMMA RestartSimulates ==
    ASSUME Restart
    PROVE  TableStep
<1>1. call' = call /\ heap' = heap /\ attached' = attached /\ torn' = torn /\ saved' = saved
  BY DEF Restart
<1>2. Seen' = Seen
  BY <1>1 DEF Seen, Rows
<1> QED BY <1>1, <1>2, EnforcedIs, NothingSeen DEF TableStep

(* Every step of the table is a step of the set of rows, or is not seen.   *)
LEMMA StepSimulates ==
    ASSUME TableInv, TableInv', [Next]_vars
    PROVE  TableStep
<1>1. CASE \E t \in Tuple, p \in 1 .. MaxPages : InsertTuple(t, p)
  BY <1>1, InsertSimulates
<1>2. CASE \E row \in Rows : DeleteTuple(row)
  BY <1>2, DeleteSimulates
<1>3. CASE \E row \in Rows, t \in Tuple : UpdateInPlace(row, t)
  BY <1>3, InPlaceSimulates
<1>4. CASE \E row \in Rows, t \in Tuple, p \in 1 .. MaxPages : MoveTuple(row, t, p) \/ UpdateTuple(row, t, p)
  BY <1>4, MoveSimulates, UpdateSimulates
<1>5. CASE NextStep
  BY <1>5, NextStepSimulates
<1>6. CASE StepThrows \/ UndoStep \/ UndoThrows
  BY <1>6, ThrowSimulates, UndoThrowSimulates
<1>7. CASE Commit
  BY <1>7, CommitSimulates
<1>8. CASE Abort
  BY <1>8, AbortSimulates
<1>9. CASE Restart
  BY <1>9, RestartSimulates
<1>10. CASE \E i \in Index : CreateIndex(i)
  BY <1>10, CreateIndexSimulates
<1>11. CASE UNCHANGED vars
  <2>1. Seen' = Seen /\ attached' = attached /\ torn' = torn /\ saved' = saved
    BY <1>11 DEF vars, Seen, Rows
  <2> QED BY <2>1, EnforcedIs, NothingSeen DEF TableStep
<1>12. CASE MoveFails
  BY <1>12, MoveFailsSimulates
<1> QED
  BY <1>1, <1>2, <1>3, <1>4, <1>5, <1>6, <1>7, <1>8, <1>9, <1>10, <1>11, <1>12 DEF Next

(* Whatever steps throw, before or after their effect, a statement changes *)
(* the table as one step or not at all, unless its new tuple could not be  *)
(* deleted again.  It keeps the unique constraints, except those of the    *)
(* indexes that its failing steps tear; an abort restores the rows and the *)
(* constraints of the last commit.                                         *)
THEOREM StatementsAreAtomic == Spec => ImplementsTable
<1>1. Init => TableSpec!Init
  <2>1. SUFFICES ASSUME Init PROVE TableSpec!Init
    OBVIOUS
  <2>2. call = Idle /\ Rows = {} /\ RowsOf(saved.heap) = {}
    <3>1. heap = <<>> /\ saved.heap = <<>> /\ call = Idle
      BY <2>1 DEF Init
    <3>2. RowsOf(<<>>) = {}
      BY DEF RowsOf
    <3> QED BY <3>1, <3>2 DEF Rows
  <2>3. attached \subseteq Index /\ torn = {} /\ saved.torn = {}
    BY <2>1 DEF Init
  <2> QED BY <2>2, <2>3 DEF TableSpec!Init, TableSpec!Current
<1>2. TableInv /\ TableInv' /\ [Next]_vars => [TableSpec!Next]_(TableSpec!tableVars)
  BY StepSimulates DEF TableStep
<1> QED BY <1>1, <1>2, TableInvariant, PTL DEF Spec, ImplementsTable, TableSpec!Spec

-----------------------------------------------------------------------------
(* Bytes of a page: the sum of the lengths of some of its slots.           *)

\* What slot n adds to the sum.
Share(page, slots, n) == IF n \in slots THEN page.slots[n].length ELSE 0

\* The slots 1..k of a page have lengths.
Measured(page, k) ==
    /\ k \in Nat /\ k = Len(page.slots)
    /\ \A n \in 1..k : page.slots[n].length \in Nat

\* f[n] is the sum over the slots up to n.
RunningSum(f, page, slots, k) ==
    /\ f \in [0..k -> Nat] /\ f[0] = 0
    /\ \A n \in 1..k : f[n] = f[n - 1] + Share(page, slots, n)

LEMMA ShareIsNatural ==
    ASSUME NEW page, NEW slots, NEW k, Measured(page, k), NEW n \in 1..k
    PROVE  Share(page, slots, n) \in Nat
BY DEF Measured, Share

(* There is such a function, as far as any slot.                           *)
LEMMA RunningSumExists ==
    ASSUME NEW page, NEW slots, NEW k, Measured(page, k)
    PROVE  \E f : RunningSum(f, page, slots, k)
<1>1. k \in Nat
  BY DEF Measured
<1>2. \A n \in 1..k : Share(page, slots, n) \in Nat
  BY ShareIsNatural
<1> DEFINE Without == {m \in 0..k : ~ \E f : RunningSum(f, page, slots, m)}
<1>3. ASSUME NEW m \in Without, \A j \in Without : m <= j PROVE FALSE
  <2>1. m \in Nat /\ m <= k /\ ~ \E f : RunningSum(f, page, slots, m)
    BY <1>1, <1>3
  <2>2. CASE m = 0
    <3>1. RunningSum([n \in 0..0 |-> 0], page, slots, 0)
      BY DEF RunningSum
    <3> QED BY <2>1, <2>2, <3>1
  <2>3. CASE m # 0
    <3>1. m - 1 \in 0..k /\ m - 1 \notin Without /\ m - 1 \in Nat /\ m \in 1..k
      BY <1>3, <2>1, <2>3, <1>1
    <3>2. PICK f : RunningSum(f, page, slots, m - 1)
      BY <3>1
    <3>3. PICK g : g = [n \in 0..m |-> IF n = m THEN f[m - 1] + Share(page, slots, m) ELSE f[n]]
      OBVIOUS
    <3>4. /\ f \in [0..(m - 1) -> Nat] /\ f[0] = 0
          /\ \A n \in 1..(m - 1) : f[n] = f[n - 1] + Share(page, slots, n)
      BY <3>2 DEF RunningSum
    <3>5. f[m - 1] + Share(page, slots, m) \in Nat
      BY <1>2, <3>1, <3>4
    <3>6. g \in [0..m -> Nat] /\ g[0] = 0
      BY <2>1, <2>3, <3>3, <3>4, <3>5
    <3>7. ASSUME NEW n \in 1..m PROVE g[n] = g[n - 1] + Share(page, slots, n)
      <4>1. n \in 0..m /\ n - 1 \in 0..m /\ n - 1 # m
        BY <2>1
      <4>2. g[n - 1] = f[n - 1]
        BY <3>3, <4>1
      <4>3. CASE n = m
        BY <3>3, <4>1, <4>2, <4>3
      <4>4. CASE n # m
        <5>1. n \in 1..(m - 1)
          BY <2>1, <4>4
        <5> QED BY <3>3, <3>4, <4>1, <4>2, <4>4, <5>1
      <4> QED BY <4>3, <4>4
    <3>8. RunningSum(g, page, slots, m)
      BY <3>6, <3>7 DEF RunningSum
    <3> QED BY <2>1, <3>8
  <2> QED BY <2>2, <2>3
<1>4. Without \subseteq Nat
  BY <1>1
<1>5. Without = {}
  <2>1. SUFFICES ASSUME Without # {} PROVE FALSE
    OBVIOUS
  <2>2. PICK m \in Without : \A j \in Without : m <= j
    BY <1>4, <2>1, LeastNatural
  <2> QED BY <1>3, <2>2
<1>6. k \in 0..k
  BY <1>1
<1> QED BY <1>5, <1>6

(* SumOfLengths is its last value.                                         *)
LEMMA SumIsRunningSum ==
    ASSUME NEW page, NEW slots, NEW k, Measured(page, k)
    PROVE  \E f : RunningSum(f, page, slots, k) /\ SumOfLengths(page, slots) = f[k]
<1> DEFINE G(f) == [n \in 0..k |->
        IF n = 0 THEN 0 ELSE f[n - 1] + (IF n \in slots THEN page.slots[n].length ELSE 0)]
<1>1. k \in Nat /\ k = Len(page.slots)
  BY DEF Measured
<1>2. PICK g : RunningSum(g, page, slots, k)
  BY RunningSumExists
<1>3. g = G(g)
  <2>1. g \in [0..k -> Nat] /\ g[0] = 0
    BY <1>2 DEF RunningSum
  <2>2. ASSUME NEW n \in 0..k PROVE g[n] = G(g)[n]
    <3>1. CASE n = 0
      BY <2>1, <3>1
    <3>2. CASE n # 0
      <4>1. n \in 1..k
        BY <1>1, <3>2
      <4> QED BY <1>2, <3>2, <4>1 DEF RunningSum, Share
    <3> QED BY <3>1, <3>2
  <2> QED BY <2>1, <2>2
<1>4. PICK h : h = CHOOSE f : f = G(f)
  OBVIOUS
<1>5. h = G(h)
  BY <1>3, <1>4
<1>6. SumOfLengths(page, slots) = h[k]
  BY <1>1, <1>4 DEF SumOfLengths
<1> QED
  <2>1. \A n \in 1..k : n \in 0..k /\ n # 0 /\ n - 1 \in 0..k
    BY <1>1
  <2>2. DOMAIN h = 0..k /\ h[0] = 0 /\ \A n \in 1..k : h[n] = h[n - 1] + Share(page, slots, n)
    BY <1>1, <1>5, <2>1, SMTT(40) DEF Share
  <2>3. g \in [0..k -> Nat] /\ g[0] = 0 /\ \A n \in 1..k : g[n] = g[n - 1] + Share(page, slots, n)
    BY <1>2 DEF RunningSum
  <2> DEFINE Apart == {n \in 0..k : h[n] # g[n]}
  <2>4. ASSUME NEW m \in Apart, \A j \in Apart : m <= j PROVE FALSE
    <3>1. m # 0 /\ m \in 0..k
      BY <2>2, <2>3, <2>4
    <3>2. m \in 1..k /\ m - 1 \in 0..k
      BY <1>1, <3>1
    <3>3. m - 1 \notin Apart
      BY <1>1, <2>4, <3>2
    <3>4. h[m] = g[m]
      BY <2>2, <2>3, <3>2, <3>3
    <3> QED BY <2>4, <3>4
  <2>5. Apart \subseteq Nat
    BY <1>1
  <2>6. Apart = {}
    <3>1. SUFFICES ASSUME Apart # {} PROVE FALSE
      OBVIOUS
    <3>2. PICK m \in Apart : \A j \in Apart : m <= j
      BY <2>5, <3>1, LeastNatural
    <3> QED BY <2>4, <3>2
  <2>7. h[k] = g[k]
    BY <1>1, <2>6
  <2> QED BY <1>2, <1>6, <2>7

(* Sums compare as their parts do: page y has more slots than x at most,   *)
(* and these add nothing.                                                  *)
LEMMA SumsCompare ==
    ASSUME NEW x, NEW s, NEW j, Measured(x, j), NEW y, NEW t, NEW k, Measured(y, k), j <= k,
           \A n \in 1..k : Share(y, t, n) <= IF n <= j THEN Share(x, s, n) ELSE 0
    PROVE  SumOfLengths(y, t) <= SumOfLengths(x, s)
<1>1. PICK f : RunningSum(f, x, s, j) /\ SumOfLengths(x, s) = f[j]
  BY SumIsRunningSum
<1>2. PICK g : RunningSum(g, y, t, k) /\ SumOfLengths(y, t) = g[k]
  BY SumIsRunningSum
<1>3. f \in [0..j -> Nat] /\ f[0] = 0 /\ \A n \in 1..j : f[n] = f[n - 1] + Share(x, s, n)
  BY <1>1 DEF RunningSum
<1>4. g \in [0..k -> Nat] /\ g[0] = 0 /\ \A n \in 1..k : g[n] = g[n - 1] + Share(y, t, n)
  BY <1>2 DEF RunningSum
<1>5. j \in Nat /\ k \in Nat
  BY DEF Measured
<1>6. /\ \A n \in 1..j : Share(x, s, n) \in Nat
      /\ \A n \in 1..k : Share(y, t, n) \in Nat
  BY ShareIsNatural
<1> DEFINE Bad == {n \in 0..k : ~(g[n] <= IF n <= j THEN f[n] ELSE f[j])}
<1>7. ASSUME NEW m \in Bad, \A i \in Bad : m <= i PROVE FALSE
  <2>1. m \in 0..k /\ m # 0
    BY <1>3, <1>4, <1>5, <1>7
  <2>2. m \in 1..k /\ m - 1 \in 0..k
    BY <1>5, <2>1
  <2>3. m - 1 \notin Bad
    BY <1>5, <1>7, <2>2
  <2>4. g[m - 1] <= IF m - 1 <= j THEN f[m - 1] ELSE f[j]
    BY <2>2, <2>3
  <2>5. g[m] = g[m - 1] + Share(y, t, m) /\ Share(y, t, m) \in Nat /\ g[m - 1] \in Nat
    BY <1>4, <1>6, <2>2
  <2>6. CASE m <= j
    <3>1. m \in 1..j /\ m - 1 \in 0..j /\ m - 1 <= j
      BY <1>5, <2>2, <2>6
    <3>2. f[m] = f[m - 1] + Share(x, s, m) /\ Share(x, s, m) \in Nat /\ f[m - 1] \in Nat
      BY <1>3, <1>6, <3>1
    <3>3. Share(y, t, m) <= Share(x, s, m)
      BY <2>2, <2>6
    <3>4. g[m] <= f[m]
      BY <2>4, <2>5, <3>1, <3>2, <3>3
    <3> QED BY <1>7, <2>6, <3>4
  <2>7. CASE ~(m <= j)
    <3>1. Share(y, t, m) <= 0
      BY <2>2, <2>7
    <3>2. j \in 0..j /\ f[j] \in Nat
      BY <1>3, <1>5
    <3>3. (m - 1 <= j) => m - 1 = j
      BY <1>5, <2>2, <2>7
    <3>4. g[m - 1] <= f[j]
      BY <2>4, <3>3
    <3>5. g[m] <= f[j]
      BY <2>5, <3>1, <3>2, <3>4
    <3> QED BY <1>7, <2>7, <3>5
  <2> QED BY <2>6, <2>7
<1>8. Bad \subseteq Nat
  BY <1>5
<1>9. Bad = {}
  <2>1. SUFFICES ASSUME Bad # {} PROVE FALSE
    OBVIOUS
  <2>2. PICK m \in Bad : \A i \in Bad : m <= i
    BY <1>8, <2>1, LeastNatural
  <2> QED BY <1>7, <2>2
<1>10. k \notin Bad /\ k \in 0..k
  BY <1>5, <1>9
<1>11. g[k] <= IF k <= j THEN f[k] ELSE f[j]
  BY <1>10
<1>12. k <= j => k = j
  BY <1>5
<1> QED BY <1>1, <1>2, <1>11, <1>12

(* The slots of two disjoint sets.                                         *)
LEMMA SumsAdd ==
    ASSUME NEW page, NEW k, Measured(page, k), NEW s, NEW t, s \cap t = {}, NEW u, u = s \cup t
    PROVE  SumOfLengths(page, u) = SumOfLengths(page, s) + SumOfLengths(page, t)
<1>1. PICK f : RunningSum(f, page, s, k) /\ SumOfLengths(page, s) = f[k]
  BY SumIsRunningSum
<1>2. PICK g : RunningSum(g, page, t, k) /\ SumOfLengths(page, t) = g[k]
  BY SumIsRunningSum
<1>3. PICK h : RunningSum(h, page, u, k) /\ SumOfLengths(page, u) = h[k]
  BY SumIsRunningSum
<1>4. /\ f \in [0..k -> Nat] /\ f[0] = 0 /\ \A n \in 1..k : f[n] = f[n - 1] + Share(page, s, n)
      /\ g \in [0..k -> Nat] /\ g[0] = 0 /\ \A n \in 1..k : g[n] = g[n - 1] + Share(page, t, n)
      /\ h \in [0..k -> Nat] /\ h[0] = 0 /\ \A n \in 1..k : h[n] = h[n - 1] + Share(page, u, n)
  BY <1>1, <1>2, <1>3 DEF RunningSum
<1>5. k \in Nat /\ \A n \in 1..k : page.slots[n].length \in Nat
  BY DEF Measured
<1>6. \A n \in 1..k : /\ Share(page, u, n) = Share(page, s, n) + Share(page, t, n)
                      /\ Share(page, s, n) \in Nat /\ Share(page, t, n) \in Nat
  BY <1>5 DEF Share
<1> DEFINE Bad == {n \in 0..k : h[n] # f[n] + g[n]}
<1>7. ASSUME NEW m \in Bad, \A i \in Bad : m <= i PROVE FALSE
  <2>1. m \in 0..k /\ m # 0
    BY <1>4, <1>5, <1>7
  <2>2. m \in 1..k /\ m - 1 \in 0..k
    BY <1>5, <2>1
  <2>3. m - 1 \notin Bad
    BY <1>5, <1>7, <2>2
  <2>4. h[m - 1] = f[m - 1] + g[m - 1] /\ f[m - 1] \in Nat /\ g[m - 1] \in Nat
    BY <1>4, <2>2, <2>3
  <2>5. h[m] = f[m] + g[m]
    <3>1. /\ f[m] = f[m - 1] + Share(page, s, m) /\ g[m] = g[m - 1] + Share(page, t, m)
          /\ h[m] = h[m - 1] + Share(page, u, m)
      BY <1>4, <2>2
    <3>2. /\ Share(page, u, m) = Share(page, s, m) + Share(page, t, m)
          /\ Share(page, s, m) \in Nat /\ Share(page, t, m) \in Nat
      BY <1>6, <2>2
    <3> QED BY <2>4, <3>1, <3>2
  <2> QED BY <1>7, <2>5
<1>8. Bad \subseteq Nat
  BY <1>5
<1>9. Bad = {}
  <2>1. SUFFICES ASSUME Bad # {} PROVE FALSE
    OBVIOUS
  <2>2. PICK m \in Bad : \A i \in Bad : m <= i
    BY <1>8, <2>1, LeastNatural
  <2> QED BY <1>7, <2>2
<1> QED BY <1>1, <1>2, <1>3, <1>5, <1>9

LEMMA SumIsNatural ==
    ASSUME NEW page, NEW k, Measured(page, k), NEW s
    PROVE  SumOfLengths(page, s) \in Nat
<1>1. PICK f : RunningSum(f, page, s, k) /\ SumOfLengths(page, s) = f[k]
  BY SumIsRunningSum
<1>2. f \in [0..k -> Nat] /\ k \in Nat
  BY <1>1 DEF RunningSum, Measured
<1> QED BY <1>1, <1>2

LEMMA SumsGrow ==
    ASSUME NEW page, NEW k, Measured(page, k), NEW s, NEW t, s \subseteq t
    PROVE  SumOfLengths(page, s) <= SumOfLengths(page, t)
<1>1. k \in Nat /\ \A n \in 1..k : page.slots[n].length \in Nat
  BY DEF Measured
<1>2. \A n \in 1..k : Share(page, s, n) <= IF n <= k THEN Share(page, t, n) ELSE 0
  BY <1>1 DEF Share
<1>3. k <= k
  BY <1>1
<1> QED BY <1>2, <1>3, SumsCompare

(* The sum has each of its parts.                                          *)
LEMMA SumHasPart ==
    ASSUME NEW page, NEW k, Measured(page, k), NEW s, NEW n \in 1..k, n \in s
    PROVE  page.slots[n].length <= SumOfLengths(page, s)
<1>1. PICK f : RunningSum(f, page, s, k) /\ SumOfLengths(page, s) = f[k]
  BY SumIsRunningSum
<1>2. f \in [0..k -> Nat] /\ f[0] = 0 /\ \A i \in 1..k : f[i] = f[i - 1] + Share(page, s, i)
  BY <1>1 DEF RunningSum
<1>3. k \in Nat /\ \A i \in 1..k : page.slots[i].length \in Nat
  BY DEF Measured
<1>4. \A i \in 1..k : Share(page, s, i) \in Nat
  BY <1>3 DEF Share
<1>5. f[n] = f[n - 1] + page.slots[n].length /\ n - 1 \in 0..k /\ n \in 0..k
  BY <1>2, <1>3 DEF Share
<1>6. page.slots[n].length <= f[n]
  BY <1>2, <1>3, <1>5
<1> DEFINE Bad == {i \in 0..k : n <= i /\ f[i] < f[n]}
<1>7. ASSUME NEW m \in Bad, \A i \in Bad : m <= i PROVE FALSE
  <2>1. m \in 0..k /\ m # n /\ n <= m
    BY <1>2, <1>5, <1>7
  <2>2. m \in 1..k /\ m - 1 \in 0..k /\ n <= m - 1
    BY <1>3, <2>1
  <2>3. m - 1 \notin Bad
    BY <1>3, <1>7, <2>2
  <2>4. f[m - 1] \in Nat /\ f[n] \in Nat /\ Share(page, s, m) \in Nat
    BY <1>2, <1>4, <1>5, <2>2
  <2>5. f[n] <= f[m - 1]
    BY <2>2, <2>3, <2>4
  <2>6. f[m] = f[m - 1] + Share(page, s, m)
    BY <1>2, <2>2
  <2> QED BY <1>7, <2>4, <2>5, <2>6
<1>8. Bad \subseteq Nat
  BY <1>3
<1>9. Bad = {}
  <2>1. SUFFICES ASSUME Bad # {} PROVE FALSE
    OBVIOUS
  <2>2. PICK m \in Bad : \A i \in Bad : m <= i
    BY <1>8, <2>1, LeastNatural
  <2> QED BY <1>7, <2>2
<1>10. k \in 0..k /\ n <= k
  BY <1>3
<1>11. f[k] \in Nat /\ f[n] \in Nat
  BY <1>2, <1>5, <1>10
<1> QED BY <1>1, <1>3, <1>6, <1>9, <1>10, <1>11

-----------------------------------------------------------------------------
(* Sound pages.                                                            *)

\* Slots and pages whose offsets and lengths are numbers.
SizedSlot == [state : {"OCCUPIED", "DELETED"}, offset : Int, length : Nat, tuple : Tuple]

SizedPage == [initialized : BOOLEAN, slots : Seq(SizedSlot), upper : Int]

\* A record of a page in its place, and two that share no byte.
InPlaceAt(page, n) ==
    /\ page.slots[n].offset >= page.upper
    /\ page.slots[n].offset + page.slots[n].length <= PageBytes
    /\ SizeOf(page.slots[n].tuple) <= page.slots[n].length

Disjoint(page, m, n) ==
    \/ page.slots[m].offset + page.slots[m].length <= page.slots[n].offset
    \/ page.slots[n].offset + page.slots[n].length <= page.slots[m].offset

RecordsSound(page) ==
    /\ \A n \in Slots(page, "OCCUPIED") : InPlaceAt(page, n)
    /\ \A m, n \in Slots(page, "OCCUPIED") : m # n => Disjoint(page, m, n)

\* The bytes below upper are free: what all slots have together is above it.
BytesSound(page) ==
    /\ Lower(page) <= page.upper
    /\ page.upper + SumOfLengths(page, DOMAIN page.slots) <= PageBytes

PageSound(page) == page \in SizedPage /\ BytesSound(page) /\ RecordsSound(page)

LEMMA PageFacts ==
    ASSUME NEW page \in SizedPage
    PROVE  \E k \in Nat :
               /\ Measured(page, k) /\ DOMAIN page.slots = 1..k
               /\ \A n \in 1..k : page.slots[n] \in SizedSlot
               /\ Lower(page) = SlotBytes * k /\ Lower(page) \in Nat /\ page.upper \in Int
               /\ \A st : Slots(page, st) \subseteq 1..k
<1>1. page.slots \in Seq(SizedSlot) /\ page.upper \in Int
  BY DEF SizedPage
<1>2. PICK k \in Nat : k = Len(page.slots) /\ DOMAIN page.slots = 1..k
  BY <1>1
<1>3. \A n \in 1..k : page.slots[n] \in SizedSlot
  BY <1>1, <1>2
<1>4. \A n \in 1..k : page.slots[n].length \in Nat
  BY <1>3 DEF SizedSlot
<1>5. Measured(page, k)
  BY <1>2, <1>4 DEF Measured
<1>6. Lower(page) = SlotBytes * k /\ SlotBytes * k \in Nat
  BY <1>2, SizeAssumption DEF Lower
<1>7. \A st : Slots(page, st) \subseteq 1..k
  BY <1>2 DEF Slots
<1> QED BY <1>1, <1>2, <1>3, <1>5, <1>6, <1>7

(* Every slot is occupied or deleted, and so are the bytes.                *)
LEMMA BytesSplit ==
    ASSUME NEW page \in SizedPage
    PROVE  /\ SumOfLengths(page, DOMAIN page.slots) =
                  SumOfLengths(page, Slots(page, "OCCUPIED")) + SumOfLengths(page, Slots(page, "DELETED"))
           /\ SumOfLengths(page, Slots(page, "OCCUPIED")) \in Nat
           /\ SumOfLengths(page, Slots(page, "DELETED")) \in Nat
<1>1. PICK k \in Nat : /\ Measured(page, k) /\ DOMAIN page.slots = 1..k
                       /\ \A n \in 1..k : page.slots[n] \in SizedSlot
  BY PageFacts
<1>2. PICK s, t, u : s = Slots(page, "OCCUPIED") /\ t = Slots(page, "DELETED") /\ u = DOMAIN page.slots
  OBVIOUS
<1>3. \A n \in 1..k : page.slots[n].state = "OCCUPIED" \/ page.slots[n].state = "DELETED"
  BY <1>1 DEF SizedSlot
<1>4. s \cap t = {} /\ u = s \cup t
  BY <1>1, <1>2, <1>3 DEF Slots
<1>5. SumOfLengths(page, u) = SumOfLengths(page, s) + SumOfLengths(page, t)
  BY <1>1, <1>4, SumsAdd
<1> QED BY <1>1, <1>2, <1>5, SumIsNatural

\* The live slots up to n.
LiveUpTo(page, n) == {j \in Slots(page, "OCCUPIED") : j <= n}

(* CompactPage, slot by slot.                                              *)
LEMMA CompactedIs ==
    ASSUME NEW page \in SizedPage, NEW k, k = Len(page.slots), NEW c, c = CompactPage(page)
    PROVE  /\ c \in SizedPage /\ c.initialized = page.initialized /\ Len(c.slots) = k
           /\ c.upper = PageBytes - SumOfLengths(page, Slots(page, "OCCUPIED"))
           /\ \A n \in 1..k :
                  /\ c.slots[n].state = page.slots[n].state /\ c.slots[n].tuple = page.slots[n].tuple
                  /\ page.slots[n].state = "OCCUPIED" =>
                         /\ c.slots[n].offset = PageBytes - SumOfLengths(page, LiveUpTo(page, n))
                         /\ c.slots[n].length = page.slots[n].length
                  /\ page.slots[n].state # "OCCUPIED" => c.slots[n].length = 0
<1>1. k \in Nat /\ Measured(page, k) /\ DOMAIN page.slots = 1..k /\ \A n \in 1..k : page.slots[n] \in SizedSlot
  BY PageFacts DEF Measured
<1>2. PICK up : up = PageBytes - SumOfLengths(page, Slots(page, "OCCUPIED"))
  OBVIOUS
<1>3. up \in Int /\ \A n : PageBytes - SumOfLengths(page, LiveUpTo(page, n)) \in Int
  BY <1>1, <1>2, SumIsNatural, SizeAssumption
<1>4. ASSUME NEW n \in 1..k
      PROVE  /\ CompactedSlot(page, n) \in SizedSlot
             /\ CompactedSlot(page, n).state = page.slots[n].state
             /\ CompactedSlot(page, n).tuple = page.slots[n].tuple
             /\ page.slots[n].state = "OCCUPIED" =>
                    /\ CompactedSlot(page, n).offset = PageBytes - SumOfLengths(page, LiveUpTo(page, n))
                    /\ CompactedSlot(page, n).length = page.slots[n].length
             /\ page.slots[n].state # "OCCUPIED" => CompactedSlot(page, n).length = 0
  <2>1. PICK v : v = PageBytes - SumOfLengths(page, LiveUpTo(page, n))
    OBVIOUS
  <2>2. PICK s : s = page.slots[n]
    OBVIOUS
  <2>3. s \in SizedSlot /\ v \in Int
    BY <1>1, <1>3, <2>1, <2>2
  <2>4. CompactedSlot(page, n) = IF s.state = "OCCUPIED" THEN [s EXCEPT !.offset = v]
                                 ELSE [s EXCEPT !.offset = 0, !.length = 0]
    BY <2>1, <2>2, Zenon DEF CompactedSlot, LiveUpTo
  <2>5. CASE s.state = "OCCUPIED"
    <3>1. PICK d : d = [s EXCEPT !.offset = v]
      OBVIOUS
    <3>2. d \in SizedSlot /\ d.state = s.state /\ d.tuple = s.tuple /\ d.offset = v /\ d.length = s.length
      BY <2>3, <3>1 DEF SizedSlot
    <3>3. CompactedSlot(page, n) = d
      BY <2>4, <2>5, <3>1
    <3> QED BY <2>1, <2>2, <2>5, <3>2, <3>3
  <2>6. CASE s.state # "OCCUPIED"
    <3>1. PICK d : d = [s EXCEPT !.offset = 0, !.length = 0]
      OBVIOUS
    <3>2. d \in SizedSlot /\ d.state = s.state /\ d.tuple = s.tuple /\ d.length = 0
      <4>1. d.state = s.state /\ d.tuple = s.tuple /\ d.length = 0
        BY <2>3, <3>1 DEF SizedSlot
      <4>2. d = [state |-> s.state, offset |-> 0, length |-> 0, tuple |-> s.tuple]
        BY <2>3, <3>1 DEF SizedSlot
      <4>3. s.state \in {"OCCUPIED", "DELETED"} /\ s.tuple \in Tuple
        BY <2>3 DEF SizedSlot
      <4> QED BY <4>1, <4>2, <4>3 DEF SizedSlot
    <3>3. CompactedSlot(page, n) = d
      BY <2>4, <2>6, <3>1
    <3> QED BY <2>2, <2>6, <3>2, <3>3
  <2> QED BY <2>5, <2>6
<1>5. PICK sl : sl = [i \in 1..k |-> CompactedSlot(page, i)]
  OBVIOUS
<1>6. sl \in [1..k -> SizedSlot]
  BY <1>4, <1>5
<1>7. sl \in Seq(SizedSlot) /\ Len(sl) = k
  BY <1>1, <1>6
<1>8. c = [page EXCEPT !.slots = sl, !.upper = up]
  BY <1>1, <1>2, <1>5, Zenon DEF CompactPage
<1>9. c.slots = sl /\ c.upper = up /\ c.initialized = page.initialized /\ c \in SizedPage
  BY <1>3, <1>7, <1>8 DEF SizedPage
<1>10. \A n \in 1..k : c.slots[n] = CompactedSlot(page, n)
  BY <1>5, <1>9
<1> QED BY <1>2, <1>4, <1>7, <1>9, <1>10

(* Compaction keeps a page sound and makes its free bytes contiguous.      *)
LEMMA CompactedSound ==
    ASSUME NEW page, PageSound(page), NEW c, c = CompactPage(page)
    PROVE  /\ PageSound(c) /\ c.initialized = page.initialized /\ Len(c.slots) = Len(page.slots)
           /\ Slots(c, "OCCUPIED") = Slots(page, "OCCUPIED") /\ Slots(c, "DELETED") = Slots(page, "DELETED")
           /\ GetContiguousFreeSpace(c) >= GetTotalFreeSpaceAfterCompaction(page)
<1>1. page \in SizedPage /\ BytesSound(page) /\ RecordsSound(page)
  BY DEF PageSound
<1>2. PICK k \in Nat : /\ k = Len(page.slots) /\ Measured(page, k) /\ DOMAIN page.slots = 1..k
                       /\ Lower(page) = SlotBytes * k /\ Lower(page) \in Nat /\ page.upper \in Int
                       /\ \A n \in 1..k : page.slots[n] \in SizedSlot
  BY <1>1, PageFacts DEF Measured
<1>3. /\ c \in SizedPage /\ c.initialized = page.initialized /\ Len(c.slots) = k
      /\ c.upper = PageBytes - SumOfLengths(page, Slots(page, "OCCUPIED"))
      /\ \A n \in 1..k :
             /\ c.slots[n].state = page.slots[n].state /\ c.slots[n].tuple = page.slots[n].tuple
             /\ page.slots[n].state = "OCCUPIED" =>
                    /\ c.slots[n].offset = PageBytes - SumOfLengths(page, LiveUpTo(page, n))
                    /\ c.slots[n].length = page.slots[n].length
             /\ page.slots[n].state # "OCCUPIED" => c.slots[n].length = 0
  BY <1>1, <1>2, CompactedIs
<1>4. /\ Measured(c, k) /\ DOMAIN c.slots = 1..k /\ Lower(c) = SlotBytes * k
  <2>1. PICK i \in Nat : Measured(c, i) /\ DOMAIN c.slots = 1..i /\ Lower(c) = SlotBytes * i
    BY <1>3, PageFacts
  <2>2. i = k
    BY <1>3, <2>1 DEF Measured
  <2> QED BY <2>1, <2>2
<1>5. /\ Slots(c, "OCCUPIED") = Slots(page, "OCCUPIED") /\ Slots(c, "DELETED") = Slots(page, "DELETED")
  BY <1>2, <1>3, <1>4 DEF Slots
<1>6. PICK live : live = Slots(page, "OCCUPIED")
  OBVIOUS
<1>7. \A n \in live : n \in 1..k /\ page.slots[n].state = "OCCUPIED" /\ page.slots[n].length \in Nat
  BY <1>2, <1>6 DEF Slots, Measured
<1>8. PICK total, dead : total = SumOfLengths(page, live) /\ dead = SumOfLengths(page, Slots(page, "DELETED"))
  OBVIOUS
<1>9. /\ total \in Nat /\ dead \in Nat /\ page.upper + total + dead <= PageBytes
  BY <1>1, <1>2, <1>6, <1>8, BytesSplit DEF BytesSound
<1>10. c.upper = PageBytes - total /\ PageBytes \in Nat
  BY <1>3, <1>6, <1>8, SizeAssumption
<1>11. SumOfLengths(c, DOMAIN c.slots) <= total
  <2>1. \A n \in 1..k : Share(c, DOMAIN c.slots, n) <= IF n <= k THEN Share(page, live, n) ELSE 0
    <3> SUFFICES ASSUME NEW n \in 1..k PROVE Share(c, DOMAIN c.slots, n) <= Share(page, live, n)
      OBVIOUS
    <3>1. Share(c, DOMAIN c.slots, n) = c.slots[n].length
      BY <1>4 DEF Share
    <3>2. CASE n \in live
      <4>1. c.slots[n].length = page.slots[n].length /\ Share(page, live, n) = page.slots[n].length
        BY <1>3, <1>7, <3>2 DEF Share
      <4> QED BY <1>7, <3>1, <3>2, <4>1
    <3>3. CASE n \notin live
      <4>1. page.slots[n].state # "OCCUPIED"
        BY <1>2, <1>6, <3>3 DEF Slots
      <4>2. c.slots[n].length = 0 /\ Share(page, live, n) = 0
        BY <1>3, <3>3, <4>1 DEF Share
      <4> QED BY <3>1, <4>2
    <3> QED BY <3>2, <3>3
  <2>2. k <= k
    OBVIOUS
  <2> QED BY <1>2, <1>4, <1>8, <2>1, <2>2, SumsCompare
<1>12. BytesSound(c)
  <2>1. Lower(c) <= c.upper
    BY <1>1, <1>2, <1>4, <1>9, <1>10 DEF BytesSound
  <2>2. SumOfLengths(c, DOMAIN c.slots) \in Nat
    BY <1>4, SumIsNatural
  <2> QED BY <1>9, <1>10, <1>11, <2>1, <2>2 DEF BytesSound
<1>13. ASSUME NEW n \in live
       PROVE  /\ LiveUpTo(page, n) \subseteq live /\ n \in LiveUpTo(page, n)
              /\ SumOfLengths(page, LiveUpTo(page, n)) \in Nat
              /\ page.slots[n].length <= SumOfLengths(page, LiveUpTo(page, n))
              /\ SumOfLengths(page, LiveUpTo(page, n)) <= total
  <2>1. LiveUpTo(page, n) \subseteq live /\ n \in LiveUpTo(page, n)
    BY <1>6, <1>7 DEF LiveUpTo
  <2>2. SumOfLengths(page, LiveUpTo(page, n)) \in Nat
    BY <1>2, SumIsNatural
  <2>3. page.slots[n].length <= SumOfLengths(page, LiveUpTo(page, n))
    BY <1>2, <1>7, <2>1, SumHasPart
  <2>4. SumOfLengths(page, LiveUpTo(page, n)) <= SumOfLengths(page, live)
    BY <1>2, <2>1, SumsGrow
  <2> QED BY <1>8, <2>1, <2>2, <2>3, <2>4
<1>14. ASSUME NEW n \in live
       PROVE  /\ c.slots[n].offset = PageBytes - SumOfLengths(page, LiveUpTo(page, n))
              /\ c.slots[n].length = page.slots[n].length /\ c.slots[n].tuple = page.slots[n].tuple
  BY <1>3, <1>7
<1>15. ASSUME NEW n \in live PROVE InPlaceAt(c, n)
  <2>1. SizeOf(page.slots[n].tuple) <= page.slots[n].length
    BY <1>1, <1>6 DEF RecordsSound, InPlaceAt
  <2>2. c.slots[n].offset >= c.upper
    BY <1>9, <1>10, <1>13, <1>14
  <2>3. c.slots[n].offset + c.slots[n].length <= PageBytes
    BY <1>7, <1>10, <1>13, <1>14
  <2> QED BY <1>14, <2>1, <2>2, <2>3 DEF InPlaceAt
<1>16. ASSUME NEW m \in live, NEW n \in live, m < n PROVE Disjoint(c, m, n)
  <2>1. PICK a, b, d : a = LiveUpTo(page, m) /\ b = {n} /\ d = a \cup b
    OBVIOUS
  <2>2. a \cap b = {} /\ d \subseteq LiveUpTo(page, n) /\ n \in b
    BY <1>6, <1>7, <1>16, <2>1 DEF LiveUpTo
  <2>3. SumOfLengths(page, d) = SumOfLengths(page, a) + SumOfLengths(page, b)
    BY <1>2, <2>1, <2>2, SumsAdd
  <2>4. page.slots[n].length <= SumOfLengths(page, b)
    BY <1>2, <1>7, <2>2, SumHasPart
  <2>5. SumOfLengths(page, d) <= SumOfLengths(page, LiveUpTo(page, n))
    BY <1>2, <2>2, SumsGrow
  <2>6. /\ SumOfLengths(page, a) \in Nat /\ SumOfLengths(page, b) \in Nat /\ SumOfLengths(page, d) \in Nat
        /\ SumOfLengths(page, LiveUpTo(page, n)) \in Nat /\ page.slots[n].length \in Nat
    BY <1>2, <1>7, SumIsNatural
  <2>7. SumOfLengths(page, a) + page.slots[n].length <= SumOfLengths(page, LiveUpTo(page, n))
    BY <2>3, <2>4, <2>5, <2>6
  <2>8. c.slots[n].offset + c.slots[n].length <= c.slots[m].offset
    BY <1>10, <1>14, <2>1, <2>6, <2>7
  <2> QED BY <2>8 DEF Disjoint
<1>17. ASSUME NEW m \in live, NEW n \in live, m # n PROVE Disjoint(c, m, n)
  <2>1. CASE m < n
    BY <1>16, <2>1
  <2>2. CASE n < m
    <3>1. Disjoint(c, n, m)
      BY <1>16, <2>2
    <3> QED BY <3>1 DEF Disjoint
  <2>3. m < n \/ n < m
    BY <1>7, <1>17
  <2> QED BY <2>1, <2>2, <2>3
<1>18. RecordsSound(c)
  BY <1>5, <1>6, <1>15, <1>17 DEF RecordsSound
<1>19. GetContiguousFreeSpace(c) >= GetTotalFreeSpaceAfterCompaction(page)
  BY <1>2, <1>4, <1>8, <1>9, <1>10
     DEF GetContiguousFreeSpace, GetTotalFreeSpaceAfterCompaction, GetReclaimableSpace
<1> QED BY <1>2, <1>3, <1>5, <1>12, <1>18, <1>19 DEF PageSound

(* A page without slots.                                                   *)
LEMMA EmptyPageSound ==
    /\ PageSound(Initialize) /\ Initialize.initialized = TRUE
    /\ \A t \in Tuple : CanInsert(Initialize, SizeOf(t))
<1>1. Initialize.initialized = TRUE /\ Initialize.slots = <<>> /\ Initialize.upper = PageBytes
  BY DEF Initialize
<1>2. Initialize \in SizedPage
  BY EmptySeq, SizeAssumption DEF SizedPage, Initialize
<1>3. \A st : Slots(Initialize, st) = {}
  BY <1>1 DEF Slots
<1>4. Measured(Initialize, 0)
  BY <1>1 DEF Measured
<1>5. PICK f : RunningSum(f, Initialize, DOMAIN Initialize.slots, 0)
               /\ SumOfLengths(Initialize, DOMAIN Initialize.slots) = f[0]
  BY <1>4, SumIsRunningSum
<1>6. SumOfLengths(Initialize, DOMAIN Initialize.slots) = 0
  BY <1>5 DEF RunningSum
<1>7. Lower(Initialize) = 0
  BY <1>1, SizeAssumption DEF Lower
<1>8. PageSound(Initialize)
  BY <1>1, <1>2, <1>3, <1>6, <1>7, SizeAssumption DEF PageSound, BytesSound, RecordsSound
<1>9. ASSUME NEW t \in Tuple PROVE CanInsert(Initialize, SizeOf(t))
  <2>1. HasSpaceFor(Initialize, SizeOf(t))
    BY <1>1, <1>3, <1>7, SizeAssumption DEF HasSpaceFor, SlotOverhead, GetContiguousFreeSpace
  <2> QED BY <2>1 DEF CanInsert, RoomFor
<1> QED BY <1>1, <1>8, <1>9

\* Page y is page x with s in slot n, which may be new; x has j slots, y has k.
Filled(x, y, j, k, n, s) ==
    /\ Measured(x, j) /\ Measured(y, k) /\ j <= k /\ n \in 1..k /\ y.slots[n] = s
    /\ \A i \in 1..k : i # n => i \in 1..j /\ y.slots[i] = x.slots[i]

(* What the slots have together, when one of them changes.                 *)
LEMMA SumWithSlot ==
    ASSUME NEW x, NEW y, NEW j, NEW k, NEW n, NEW s, Filled(x, y, j, k, n, s)
    PROVE  SumOfLengths(y, 1..k) <= SumOfLengths(x, 1..j) + s.length
<1>1. /\ Measured(x, j) /\ Measured(y, k) /\ j <= k /\ n \in 1..k /\ y.slots[n] = s
      /\ \A i \in 1..k : i # n => i \in 1..j /\ y.slots[i] = x.slots[i]
  BY DEF Filled
<1>2. /\ j \in Nat /\ k \in Nat /\ \A i \in 1..j : x.slots[i].length \in Nat
      /\ \A i \in 1..k : y.slots[i].length \in Nat
  BY <1>1 DEF Measured
<1>3. PICK a, b, u : a = (1..k) \ {n} /\ b = {n} /\ u = 1..k
  OBVIOUS
<1>4. a \cap b = {} /\ u = a \cup b
  BY <1>1, <1>3
<1>5. SumOfLengths(y, u) = SumOfLengths(y, a) + SumOfLengths(y, b)
  BY <1>1, <1>4, SumsAdd
<1>6. SumOfLengths(y, a) <= SumOfLengths(x, 1..j)
  <2>1. ASSUME NEW i \in 1..k PROVE Share(y, a, i) <= IF i <= j THEN Share(x, 1..j, i) ELSE 0
    <3>1. CASE i = n
      <4>1. Share(y, a, i) = 0
        BY <1>3, <3>1 DEF Share
      <4>2. i <= j => i \in 1..j
        BY <1>2
      <4>3. i <= j => Share(x, 1..j, i) \in Nat
        BY <1>2, <4>2 DEF Share
      <4> QED BY <4>1, <4>3
    <3>2. CASE i # n
      <4>1. i \in 1..j /\ y.slots[i] = x.slots[i] /\ i \in a
        BY <1>1, <1>3, <3>2
      <4>2. Share(y, a, i) = x.slots[i].length /\ Share(x, 1..j, i) = x.slots[i].length
        BY <4>1 DEF Share
      <4> QED BY <1>2, <4>1, <4>2
    <3> QED BY <3>1, <3>2
  <2> QED BY <1>1, <2>1, SumsCompare
<1>7. SumOfLengths(y, b) <= s.length
  <2>1. PICK f : RunningSum(f, y, b, k) /\ SumOfLengths(y, b) = f[k]
    BY <1>1, SumIsRunningSum
  <2>2. f \in [0..k -> Nat] /\ f[0] = 0 /\ \A i \in 1..k : f[i] = f[i - 1] + Share(y, b, i)
    BY <2>1 DEF RunningSum
  <2>3. \A i \in 1..k : Share(y, b, i) = IF i = n THEN s.length ELSE 0
    BY <1>1, <1>3 DEF Share
  <2>4. s.length \in Nat
    BY <1>1, <1>2
  <2> DEFINE Bad == {i \in 0..k : f[i] # IF i < n THEN 0 ELSE s.length}
  <2>5. ASSUME NEW m \in Bad, \A i \in Bad : m <= i PROVE FALSE
    <3>1. m \in 0..k /\ m # 0
      BY <1>1, <1>2, <2>2, <2>5
    <3>2. m \in 1..k /\ m - 1 \in 0..k
      BY <1>2, <3>1
    <3>3. m - 1 \notin Bad
      BY <1>2, <2>5, <3>2
    <3>4. f[m - 1] = IF m - 1 < n THEN 0 ELSE s.length
      BY <3>2, <3>3
    <3>5. f[m] = f[m - 1] + IF m = n THEN s.length ELSE 0
      BY <2>2, <2>3, <3>2
    <3>6. f[m] = IF m < n THEN 0 ELSE s.length
      BY <1>1, <1>2, <2>4, <3>2, <3>4, <3>5
    <3> QED BY <2>5, <3>6
  <2>6. Bad \subseteq Nat
    BY <1>2
  <2>7. Bad = {}
    <3>1. SUFFICES ASSUME Bad # {} PROVE FALSE
      OBVIOUS
    <3>2. PICK m \in Bad : \A i \in Bad : m <= i
      BY <2>6, <3>1, LeastNatural
    <3> QED BY <2>5, <3>2
  <2>8. k \in 0..k /\ ~(k < n)
    BY <1>1, <1>2
  <2> QED BY <2>1, <2>4, <2>7, <2>8
<1>8. /\ SumOfLengths(y, u) \in Nat /\ SumOfLengths(y, a) \in Nat /\ SumOfLengths(y, b) \in Nat
      /\ SumOfLengths(x, 1..j) \in Nat /\ s.length \in Nat
  BY <1>1, <1>2, SumIsNatural
<1> QED BY <1>3, <1>5, <1>6, <1>7, <1>8

(* A slot changes in a page whose other records stay where they are.       *)
LEMMA SlotChanged ==
    ASSUME NEW x, PageSound(x), NEW y \in SizedPage, NEW j, NEW k, NEW n, NEW s, Filled(x, y, j, k, n, s),
           y.upper <= x.upper, Lower(y) <= y.upper,
           y.upper + SumOfLengths(y, 1..k) <= PageBytes,
           s.state = "OCCUPIED" =>
               /\ InPlaceAt(y, n)
               /\ \A m \in Slots(x, "OCCUPIED") : m # n => Disjoint(y, m, n)
    PROVE  PageSound(y)
<1>1. x \in SizedPage /\ RecordsSound(x)
  BY DEF PageSound
<1>2. /\ j \in Nat /\ k \in Nat /\ j <= k /\ n \in 1..k /\ y.slots[n] = s
      /\ j = Len(x.slots) /\ k = Len(y.slots)
      /\ \A i \in 1..k : i # n => i \in 1..j /\ y.slots[i] = x.slots[i]
  BY DEF Filled, Measured
<1>3. DOMAIN x.slots = 1..j /\ x.upper \in Int /\ \A i \in 1..j : x.slots[i] \in SizedSlot
  <2>1. PICK i \in Nat : /\ Measured(x, i) /\ DOMAIN x.slots = 1..i /\ x.upper \in Int
                         /\ \A l \in 1..i : x.slots[l] \in SizedSlot
    BY <1>1, PageFacts
  <2>2. i = j
    BY <1>2, <2>1 DEF Measured
  <2> QED BY <2>1, <2>2
<1>4. DOMAIN y.slots = 1..k /\ y.upper \in Int
  <2>1. PICK i \in Nat : Measured(y, i) /\ DOMAIN y.slots = 1..i /\ y.upper \in Int
    BY PageFacts
  <2>2. i = k
    BY <1>2, <2>1 DEF Measured
  <2> QED BY <2>1, <2>2
<1>5. BytesSound(y)
  BY <1>4 DEF BytesSound
<1>6. ASSUME NEW i \in Slots(y, "OCCUPIED"), i # n
      PROVE  i \in Slots(x, "OCCUPIED") /\ y.slots[i] = x.slots[i] /\ i \in 1..j
  BY <1>2, <1>3, <1>4, <1>6 DEF Slots
<1>7. n \in Slots(y, "OCCUPIED") => s.state = "OCCUPIED"
  BY <1>2 DEF Slots
<1>8. ASSUME NEW i \in Slots(y, "OCCUPIED") PROVE InPlaceAt(y, i)
  <2>1. CASE i = n
    BY <1>7, <1>8, <2>1
  <2>2. CASE i # n
    <3>1. i \in Slots(x, "OCCUPIED") /\ y.slots[i] = x.slots[i] /\ x.slots[i].offset \in Int
      BY <1>3, <1>6, <1>8, <2>2 DEF SizedSlot
    <3>2. InPlaceAt(x, i)
      BY <1>1, <3>1 DEF RecordsSound
    <3> QED BY <1>3, <1>4, <3>1, <3>2 DEF InPlaceAt
  <2> QED BY <2>1, <2>2
<1>9. ASSUME NEW m \in Slots(y, "OCCUPIED"), m # n, n \in Slots(y, "OCCUPIED")
      PROVE  Disjoint(y, m, n) /\ Disjoint(y, n, m)
  <2>1. Disjoint(y, m, n)
    BY <1>6, <1>7, <1>9
  <2> QED BY <2>1 DEF Disjoint
<1>10. ASSUME NEW l \in Slots(y, "OCCUPIED"), NEW m \in Slots(y, "OCCUPIED"), l # m PROVE Disjoint(y, l, m)
  <2>1. CASE l = n \/ m = n
    BY <1>9, <1>10, <2>1
  <2>2. CASE l # n /\ m # n
    <3>1. /\ l \in Slots(x, "OCCUPIED") /\ y.slots[l] = x.slots[l]
          /\ m \in Slots(x, "OCCUPIED") /\ y.slots[m] = x.slots[m]
      BY <1>6, <1>10, <2>2
    <3>2. Disjoint(x, l, m)
      BY <1>1, <1>10, <3>1 DEF RecordsSound
    <3> QED BY <3>1, <3>2 DEF Disjoint
  <2> QED BY <2>1, <2>2
<1> QED BY <1>5, <1>8, <1>10 DEF PageSound, RecordsSound

(* InsertRecord, where it succeeds, keeps the page sound.                  *)
LEMMA InsertedSound ==
    ASSUME NEW page, PageSound(page), NEW t \in Tuple, NEW len, len = SizeOf(t), CanInsert(page, len),
           NEW y, y = InsertRecord(page, t, len)
    PROVE  PageSound(y) /\ y.initialized = page.initialized
<1>0. len \in Nat /\ SlotBytes \in Nat /\ PageBytes \in Nat
  BY SizeAssumption
<1>1. PICK room : room = RoomFor(page, len)
  OBVIOUS
<1>2. /\ PageSound(room) /\ room.initialized = page.initialized /\ Len(room.slots) = Len(page.slots)
      /\ Slots(room, "OCCUPIED") = Slots(page, "OCCUPIED") /\ Slots(room, "DELETED") = Slots(page, "DELETED")
  <2>1. CASE room = page
    BY <2>1
  <2>2. CASE room = CompactPage(page)
    BY <2>2, CompactedSound
  <2> QED BY <1>1, <2>1, <2>2 DEF RoomFor
<1>3. room \in SizedPage
  BY <1>2 DEF PageSound
<1>4. PICK j \in Nat : /\ Measured(room, j) /\ DOMAIN room.slots = 1..j
                       /\ \A i \in 1..j : room.slots[i] \in SizedSlot
                       /\ Lower(room) = SlotBytes * j /\ Lower(room) \in Nat /\ room.upper \in Int
                       /\ \A st : Slots(room, st) \subseteq 1..j
  BY <1>3, PageFacts
<1>5. j = Len(room.slots) /\ j = Len(page.slots)
  BY <1>2, <1>4 DEF Measured
<1>6. room.upper - Lower(room) >= len + SlotOverhead(room)
  BY <1>1 DEF CanInsert, HasSpaceFor, GetContiguousFreeSpace
<1>7. PICK n : n = SlotForInsert(page)
  OBVIOUS
<1>8. PICK k : k = Max({n, j})
  OBVIOUS
<1>9. PICK D : D = Slots(room, "DELETED")
  OBVIOUS
<1>10. /\ n \in 1..k /\ k \in Nat /\ j <= k /\ (\A i \in 1..k : i # n => i \in 1..j)
       /\ n \notin Slots(room, "OCCUPIED") /\ SlotBytes * k + len <= room.upper
  <2>1. PICK S : S = {n, j}
    OBVIOUS
  <2>2. D \subseteq 1..j /\ D \subseteq Nat
    BY <1>4, <1>9
  <2>3. ASSUME n \in 1..(j + 1) PROVE k \in S /\ n <= k /\ j <= k
    <3>1. S \subseteq 0..(j + 1) /\ S # {} /\ j + 1 \in Nat
      BY <2>1, <2>3
    <3>2. Max(S) \in S /\ \A m \in S : m <= Max(S)
      BY <3>1, MaxOfBounded
    <3> QED BY <1>8, <2>1, <3>2
  <2>4. CASE D = {}
    <3>1. n = j + 1
      BY <1>2, <1>5, <1>7, <1>9, <2>4 DEF SlotForInsert
    <3>2. k = j + 1
      BY <2>1, <2>3, <3>1
    <3>3. SlotOverhead(room) = SlotBytes
      BY <1>9, <2>4 DEF SlotOverhead
    <3>4. SlotBytes * k = SlotBytes * j + SlotBytes
      BY <1>0, <3>2
    <3>5. SlotBytes * k + len <= room.upper
      BY <1>0, <1>4, <1>6, <3>3, <3>4
    <3>6. n \notin Slots(room, "OCCUPIED")
      BY <1>4, <3>1
    <3> QED BY <3>1, <3>2, <3>5, <3>6
  <2>5. CASE D # {}
    <3>1. n = Min(D)
      BY <1>2, <1>7, <1>9, <2>5 DEF SlotForInsert
    <3>2. n \in D
      BY <2>2, <2>5, <3>1, MinOfNaturals
    <3>3. n \in 1..j
      BY <2>2, <3>2
    <3>4. k = j
      BY <2>1, <2>3, <3>3
    <3>5. SlotOverhead(room) = 0
      BY <1>9, <2>5 DEF SlotOverhead
    <3>6. SlotBytes * k + len <= room.upper
      BY <1>0, <1>4, <1>6, <3>4, <3>5
    <3>7. n \notin Slots(room, "OCCUPIED")
      <4>1. "OCCUPIED" # "DELETED"
        OBVIOUS
      <4> QED BY <1>9, <3>2, <4>1, Zenon DEF Slots
    <3> QED BY <3>3, <3>4, <3>6, <3>7
  <2> QED BY <2>4, <2>5
<1>11. PICK s : s = [state |-> "OCCUPIED", offset |-> room.upper - len, length |-> len, tuple |-> t]
  OBVIOUS
<1>12. /\ s \in SizedSlot /\ s.offset = room.upper - len /\ s.length = len /\ s.tuple = t
  BY <1>0, <1>4, <1>11 DEF SizedSlot
<1>13. PICK sl : sl = [i \in 1..k |-> IF i = n THEN s ELSE room.slots[i]]
  OBVIOUS
<1>14. sl \in [1..k -> SizedSlot] /\ sl[n] = s /\ \A i \in 1..k : i # n => i \in 1..j /\ sl[i] = room.slots[i]
  BY <1>4, <1>10, <1>12, <1>13
<1>15. sl \in Seq(SizedSlot) /\ Len(sl) = k
  BY <1>10, <1>14
<1>16. y = [room EXCEPT !.slots = sl, !.upper = @ - len]
  BY <1>1, <1>5, <1>7, <1>8, <1>11, <1>13, Zenon DEF InsertRecord
<1>17. y.slots = sl /\ y.upper = room.upper - len /\ y.initialized = room.initialized /\ y \in SizedPage
  <2>1. y = [room EXCEPT !.slots = sl, !.upper = room.upper - len]
    BY <1>16
  <2>2. room.upper - len \in Int
    BY <1>0, <1>4
  <2> QED BY <1>3, <1>15, <2>1, <2>2 DEF SizedPage
<1>18. Measured(y, k) /\ Lower(y) = SlotBytes * k
  <2>1. PICK i \in Nat : Measured(y, i) /\ Lower(y) = SlotBytes * i
    BY <1>17, PageFacts
  <2>2. i = k
    BY <1>15, <1>17, <2>1 DEF Measured
  <2> QED BY <2>1, <2>2
<1>19. Filled(room, y, j, k, n, s)
  BY <1>4, <1>10, <1>14, <1>17, <1>18 DEF Filled
<1>20. y.upper <= room.upper /\ Lower(y) <= y.upper
  <2>1. PICK w : w = SlotBytes * k
    OBVIOUS
  <2>2. w \in Nat
    BY <1>0, <1>10, <2>1
  <2>3. w + len <= room.upper /\ Lower(y) = w
    BY <1>10, <1>18, <2>1
  <2> QED BY <1>0, <1>4, <1>17, <2>2, <2>3
<1>21. y.upper + SumOfLengths(y, 1..k) <= PageBytes
  <2>1. SumOfLengths(y, 1..k) <= SumOfLengths(room, 1..j) + s.length
    BY <1>19, SumWithSlot
  <2>2. SumOfLengths(y, 1..k) \in Nat /\ SumOfLengths(room, 1..j) \in Nat
    BY <1>4, <1>18, SumIsNatural
  <2>3. room.upper + SumOfLengths(room, 1..j) <= PageBytes
    BY <1>2, <1>4 DEF PageSound, BytesSound
  <2> QED BY <1>0, <1>4, <1>12, <1>17, <2>1, <2>2, <2>3
<1>22. y.slots[n] = s /\ \A m \in Slots(room, "OCCUPIED") : m # n => y.slots[m] = room.slots[m]
  BY <1>4, <1>10, <1>14, <1>17
<1>23. InPlaceAt(y, n)
  <2>1. SumOfLengths(room, 1..j) \in Nat
    BY <1>4, SumIsNatural
  <2>2. room.upper + SumOfLengths(room, 1..j) <= PageBytes
    BY <1>2, <1>4 DEF PageSound, BytesSound
  <2> QED BY <1>0, <1>4, <1>12, <1>17, <1>22, <2>1, <2>2 DEF InPlaceAt
<1>24. ASSUME NEW m \in Slots(room, "OCCUPIED"), m # n PROVE Disjoint(y, m, n)
  <2>1. InPlaceAt(room, m)
    BY <1>2 DEF PageSound, RecordsSound
  <2>2. room.slots[m].offset >= room.upper /\ y.slots[m] = room.slots[m]
    BY <1>22, <1>24, <2>1 DEF InPlaceAt
  <2>3. room.slots[m].offset \in Int
    BY <1>4 DEF SizedSlot
  <2>4. y.slots[n].offset + y.slots[n].length <= y.slots[m].offset
    BY <1>0, <1>4, <1>12, <1>22, <2>2, <2>3
  <2> QED BY <2>4 DEF Disjoint
<1>25. PageSound(y)
  BY <1>2, <1>17, <1>19, <1>20, <1>21, <1>23, <1>24, SlotChanged
<1> QED BY <1>2, <1>17, <1>25

(* DeleteRecord and OverwriteRecord leave the record's bytes where they are. *)
LEMMA ChangedSound ==
    ASSUME NEW page, PageSound(page), NEW n \in Slots(page, "OCCUPIED"), NEW t \in Tuple
    PROVE  /\ PageSound(DeleteRecord(page, n))
           /\ SizeOf(t) <= page.slots[n].length => PageSound(OverwriteRecord(page, n, t))
<1>1. page \in SizedPage /\ RecordsSound(page) /\ BytesSound(page)
  BY DEF PageSound
<1>2. PICK k \in Nat : /\ Measured(page, k) /\ DOMAIN page.slots = 1..k
                       /\ \A i \in 1..k : page.slots[i] \in SizedSlot
                       /\ Lower(page) = SlotBytes * k /\ page.upper \in Int
  BY <1>1, PageFacts
<1>3. n \in 1..k /\ k = Len(page.slots)
  BY <1>2 DEF Slots, Measured
<1>4. PICK r : r = page.slots[n]
  OBVIOUS
<1>5. r \in SizedSlot
  BY <1>2, <1>3, <1>4
<1>6. ASSUME NEW s \in SizedSlot, s.offset = r.offset, s.length = r.length,
             SizeOf(s.tuple) <= s.length \/ s.state = "DELETED",
             NEW y, y = [page EXCEPT !.slots = [page.slots EXCEPT ![n] = s]]
      PROVE  PageSound(y)
  <2>1. PICK sl : sl = [page.slots EXCEPT ![n] = s]
    OBVIOUS
  <2>2. sl \in [1..k -> SizedSlot] /\ sl[n] = s /\ \A i \in 1..k : i # n => sl[i] = page.slots[i]
    BY <1>2, <1>3, <2>1
  <2>3. sl \in Seq(SizedSlot) /\ Len(sl) = k
    BY <2>2
  <2>4. y = [page EXCEPT !.slots = sl]
    BY <1>6, <2>1
  <2>5. y.slots = sl /\ y.upper = page.upper /\ y \in SizedPage
    BY <1>1, <2>3, <2>4 DEF SizedPage
  <2>6. Measured(y, k) /\ Lower(y) = SlotBytes * k
    <3>1. PICK i \in Nat : Measured(y, i) /\ Lower(y) = SlotBytes * i
      BY <2>5, PageFacts
    <3>2. i = k
      BY <2>3, <2>5, <3>1 DEF Measured
    <3> QED BY <3>1, <3>2
  <2>7. Filled(page, y, k, k, n, s)
    BY <1>2, <1>3, <2>2, <2>5, <2>6 DEF Filled
  <2>8. y.upper <= page.upper /\ Lower(y) <= y.upper
    BY <1>1, <1>2, <2>5, <2>6 DEF BytesSound
  <2>9. y.upper + SumOfLengths(y, 1..k) <= PageBytes
    <3>1. SumOfLengths(y, 1..k) <= SumOfLengths(page, 1..k)
      <4>1. ASSUME NEW i \in 1..k PROVE Share(y, 1..k, i) <= IF i <= k THEN Share(page, 1..k, i) ELSE 0
        <5>1. y.slots[i].length = page.slots[i].length
          BY <1>4, <1>6, <2>2, <2>5
        <5>2. page.slots[i].length \in Nat
          BY <1>2 DEF Measured
        <5> QED BY <5>1, <5>2 DEF Share
      <4>2. k <= k
        OBVIOUS
      <4> QED BY <1>2, <2>6, <4>1, <4>2, SumsCompare
    <3>2. SumOfLengths(y, 1..k) \in Nat /\ SumOfLengths(page, 1..k) \in Nat
      BY <1>2, <2>6, SumIsNatural
    <3>3. page.upper + SumOfLengths(page, 1..k) <= PageBytes /\ PageBytes \in Nat
      BY <1>1, <1>2, SizeAssumption DEF BytesSound
    <3> QED BY <1>2, <2>5, <3>1, <3>2, <3>3
  <2>10. ASSUME s.state = "OCCUPIED"
         PROVE  /\ InPlaceAt(y, n)
                /\ \A m \in Slots(page, "OCCUPIED") : m # n => Disjoint(y, m, n)
    <3>1. y.slots[n] = s /\ \A m \in Slots(page, "OCCUPIED") : m # n => y.slots[m] = page.slots[m]
      BY <1>2, <2>2, <2>5 DEF Slots
    <3>2. SizeOf(s.tuple) <= s.length
      BY <1>6, <2>10
    <3>3. InPlaceAt(page, n)
      BY <1>1 DEF RecordsSound
    <3>4. InPlaceAt(y, n)
      BY <1>4, <1>6, <2>5, <3>1, <3>2, <3>3 DEF InPlaceAt
    <3>5. ASSUME NEW m \in Slots(page, "OCCUPIED"), m # n PROVE Disjoint(y, m, n)
      <4>1. Disjoint(page, m, n)
        BY <1>1, <3>5 DEF RecordsSound
      <4> QED BY <1>4, <1>6, <3>1, <3>5, <4>1 DEF Disjoint
    <3> QED BY <3>4, <3>5
  <2> QED BY <2>5, <2>7, <2>8, <2>9, <2>10, SlotChanged
<1>7. PICK d, o : d = [r EXCEPT !.state = "DELETED"] /\ o = [r EXCEPT !.tuple = t]
  OBVIOUS
<1>8. /\ d \in SizedSlot /\ d.offset = r.offset /\ d.length = r.length /\ d.state = "DELETED"
      /\ o \in SizedSlot /\ o.offset = r.offset /\ o.length = r.length /\ o.tuple = t
  BY <1>5, <1>7 DEF SizedSlot
<1>9. DeleteRecord(page, n) = [page EXCEPT !.slots = [page.slots EXCEPT ![n] = d]]
  BY <1>1, <1>2, <1>3, <1>4, <1>7 DEF DeleteRecord, SizedPage
<1>10. OverwriteRecord(page, n, t) = [page EXCEPT !.slots = [page.slots EXCEPT ![n] = o]]
  BY <1>1, <1>2, <1>3, <1>4, <1>7 DEF OverwriteRecord, SizedPage
<1>11. PageSound(DeleteRecord(page, n))
  BY <1>6, <1>8, <1>9
<1>12. ASSUME SizeOf(t) <= page.slots[n].length PROVE PageSound(OverwriteRecord(page, n, t))
  BY <1>4, <1>6, <1>8, <1>10, <1>12
<1> QED BY <1>11, <1>12

-----------------------------------------------------------------------------
(* The pages of the heap, and those that an abort puts back.               *)

PagesOK(h) == \A p \in DOMAIN h : h[p].initialized => PageSound(h[p])

PagesInv == PagesOK(heap) /\ PagesOK(saved.heap)

LEMMA PagesWithPage ==
    ASSUME NEW h, HeapOK(h), PagesOK(h), NEW p \in 1 .. Len(h) + 1, NEW page, PageSound(page),
           NEW h2, h2 = WithPage(h, p, page)
    PROVE  PagesOK(h2)
<1>1. PICK n \in Nat : n = Len(h) /\ DOMAIN h = 1..n
  BY DEF HeapOK
<1>2. PICK k : k = Max({p, n})
  OBVIOUS
<1>3. k \in Nat /\ (k = p \/ k = n)
  <2>1. PICK S : S = {p, n}
    OBVIOUS
  <2>2. S \subseteq 0 .. n + 1 /\ S # {} /\ n + 1 \in Nat
    BY <1>1, <2>1
  <2>3. Max(S) \in S
    BY <2>2, MaxOfBounded
  <2> QED BY <1>1, <1>2, <2>1, <2>3
<1>4. h2 = [q \in 1..k |-> IF q = p THEN page ELSE h[q]]
  BY <1>1, <1>2 DEF WithPage
<1>5. \A q \in 1..k : q # p => q \in 1..n
  BY <1>1, <1>3
<1>6. ASSUME NEW q \in DOMAIN h2, h2[q].initialized PROVE PageSound(h2[q])
  <2>1. q \in 1..k /\ h2[q] = IF q = p THEN page ELSE h[q]
    BY <1>4
  <2>2. CASE q = p
    BY <2>1, <2>2
  <2>3. CASE q # p
    BY <1>1, <1>5, <1>6, <2>1, <2>3 DEF PagesOK
  <2> QED BY <2>2, <2>3
<1> QED BY <1>6 DEF PagesOK

(* InsertTupleImpl: the page has room, or is new.                          *)
LEMMA InsertKeepsPages ==
    ASSUME TypeOK, PagesOK(heap), NEW t \in Tuple, NEW p \in 1 .. MaxPages, IsPageForInsert(p, SizeOf(t)),
           SetPage(p, Inserted(p, t).page)
    PROVE  PagesOK(heap')
<1>1. HeapOK(heap) /\ DOMAIN fsm = DOMAIN heap
  BY DEF TypeOK
<1>2. PICK k \in Nat : k = Len(heap) /\ DOMAIN heap = 1..k
  BY <1>1 DEF HeapOK
<1>3. PICK len : len = SizeOf(t)
  OBVIOUS
<1>4. \/ p = k + 1
      \/ p \in 1..k /\ CanInsert(Usable(heap[p]), len)
  <2>1. IsPageForInsert(p, len)
    BY <1>3
  <2>2. PICK F : F = {q \in CandidatePages(len) : CanInsert(Usable(heap[q]), len)}
    OBVIOUS
  <2>3. IF F = {} THEN p = Len(heap) + 1 ELSE p \in F
    BY <2>1, <2>2 DEF IsPageForInsert
  <2> QED BY <1>1, <1>2, <2>2, <2>3 DEF CandidatePages
<1>5. PICK h, page : h = heap /\ page = PageAt(h, p)
  OBVIOUS
<1>6. PageSound(page) /\ CanInsert(page, len)
  <2>1. CASE p = k + 1
    <3>1. page = Initialize
      BY <1>2, <1>5, <2>1 DEF PageAt
    <3> QED BY <1>3, <3>1, EmptyPageSound
  <2>2. CASE p \in 1..k /\ CanInsert(Usable(heap[p]), len)
    <3>1. page = Usable(heap[p])
      BY <1>2, <1>5, <2>2 DEF PageAt
    <3>2. CASE heap[p].initialized
      <4>1. PageSound(heap[p])
        BY <1>2, <2>2, <3>2 DEF PagesOK
      <4> QED BY <2>2, <3>1, <3>2, <4>1 DEF Usable
    <3>3. CASE ~heap[p].initialized
      <4>1. page = Initialize
        BY <3>1, <3>3 DEF Usable
      <4> QED BY <1>3, <4>1, EmptyPageSound
    <3> QED BY <3>2, <3>3
  <2> QED BY <1>4, <2>1, <2>2
<1>7. PICK filled : filled = InsertRecord(page, t, len)
  OBVIOUS
<1>8. PageSound(filled)
  BY <1>3, <1>6, <1>7, InsertedSound
<1>9. PICK h2 : h2 = WithPage(h, p, filled)
  OBVIOUS
<1>10. heap' = h2
  BY <1>3, <1>5, <1>7, <1>9 DEF SetPage, WithPage, Inserted, PageAt
<1>11. HeapOK(h) /\ PagesOK(h) /\ p \in 1 .. Len(h) + 1
  BY <1>1, <1>2, <1>4, <1>5
<1> QED BY <1>8, <1>9, <1>10, <1>11, PagesWithPage

(* A row is in a sound page.                                               *)
LEMMA RowPlace ==
    ASSUME NEW h, HeapOK(h), PagesOK(h), NEW row \in RowsOf(h)
    PROVE  \E p, n : /\ row.rid[1] = p /\ row.rid[2] = n /\ p \in 1 .. Len(h) /\ p \in DOMAIN h
                     /\ PageSound(h[p]) /\ n \in Slots(h[p], "OCCUPIED")
<1>1. PICK V : h \in Seq(Page(V))
  BY DEF HeapOK
<1>2. PICK k \in Nat : k = Len(h) /\ DOMAIN h = 1..k
  BY <1>1
<1>3. PICK p \in 1..k : row \in RowsIn(p, h[p])
  BY <1>2 DEF RowsOf
<1>4. PICK n \in Slots(h[p], "OCCUPIED") : row.rid = <<p, n>>
  BY <1>3 DEF RowsIn
<1>5. h[p] \in Page(V)
  BY <1>1, <1>2
<1>6. h[p].initialized
  <2>1. SUFFICES ASSUME ~h[p].initialized PROVE FALSE
    OBVIOUS
  <2>2. h[p].slots = <<>>
    BY <1>5, <2>1 DEF Page
  <2>3. Slots(h[p], "OCCUPIED") = {}
    BY <2>2 DEF Slots
  <2> QED BY <1>4, <2>3
<1>7. PageSound(h[p])
  BY <1>2, <1>6 DEF PagesOK
<1>8. row.rid[1] = p /\ row.rid[2] = n
  BY <1>4
<1> QED BY <1>2, <1>4, <1>7, <1>8

LEMMA DeleteKeepsPages ==
    ASSUME TypeOK, PagesOK(heap), NEW row \in Rows, HeapDelete(row.rid)
    PROVE  PagesOK(heap')
<1>1. PICK h : h = heap
  OBVIOUS
<1>2. HeapOK(h) /\ PagesOK(h) /\ row \in RowsOf(h)
  BY <1>1 DEF TypeOK, Rows
<1>3. PICK p, n : /\ row.rid[1] = p /\ row.rid[2] = n /\ p \in 1 .. Len(h)
                  /\ PageSound(h[p]) /\ n \in Slots(h[p], "OCCUPIED")
  BY <1>2, RowPlace
<1>4. PICK t \in Tuple : t = row.tuple
  BY <1>2, RowsTyped DEF Row
<1>5. PageSound(DeleteRecord(h[p], n))
  BY <1>3, <1>4, ChangedSound
<1>6. PICK h2 : h2 = WithPage(h, p, DeleteRecord(h[p], n))
  OBVIOUS
<1>7. heap' = h2
  BY <1>1, <1>3, <1>6 DEF HeapDelete, SetPage, WithPage
<1>8. p \in 1 .. Len(h) + 1
  <2>1. PICK k \in Nat : k = Len(h)
    BY <1>2 DEF HeapOK
  <2> QED BY <1>3, <2>1
<1> QED BY <1>2, <1>5, <1>6, <1>7, <1>8, PagesWithPage

LEMMA OverwriteKeepsPages ==
    ASSUME TypeOK, PagesOK(heap), NEW row \in Rows, NEW t \in Tuple, UpdateInPlace(row, t)
    PROVE  PagesOK(heap')
<1>1. PICK h : h = heap
  OBVIOUS
<1>2. HeapOK(h) /\ PagesOK(h) /\ row \in RowsOf(h)
  BY <1>1 DEF TypeOK, Rows
<1>3. PICK p, n : /\ row.rid[1] = p /\ row.rid[2] = n /\ p \in 1 .. Len(h) /\ p \in DOMAIN h
                  /\ PageSound(h[p]) /\ n \in Slots(h[p], "OCCUPIED")
  BY <1>2, RowPlace
<1>4. SizeOf(t) <= h[p].slots[n].length
  BY <1>1, <1>3 DEF UpdateInPlace, InPlace, CanUpdateTupleInPlace
<1>5. PICK o : o = OverwriteRecord(h[p], n, t)
  OBVIOUS
<1>6. PageSound(o)
  BY <1>3, <1>4, <1>5, ChangedSound
<1>7. heap' = [h EXCEPT ![p] = o]
  BY <1>1, <1>3, <1>5 DEF UpdateInPlace
<1>8. DOMAIN heap' = DOMAIN h /\ \A q \in DOMAIN h : heap'[q] = IF q = p THEN o ELSE h[q]
  BY <1>3, <1>7
<1> QED BY <1>2, <1>6, <1>8 DEF PagesOK

LEMMA DoKeepsPages ==
    ASSUME TypeOK, PagesOK(heap), NEW s \in StepType, Do(s), MaySucceed(s)
    PROVE  PagesOK(heap')
<1>1. CASE s \in IndexStep /\ entries' = Effect(entries, s) /\ heap' = heap /\ fsm' = fsm
  BY <1>1
<1>2. CASE /\ s.op = "heapDelete" /\ HeapDelete(s.entry.rid) /\ entries' = entries
           /\ \E row \in Rows : row.rid = s.entry.rid
  <2>1. PICK row \in Rows : row.rid = s.entry.rid
    BY <1>2
  <2>2. HeapDelete(row.rid)
    BY <1>2, <2>1
  <2> QED BY <2>2, DeleteKeepsPages
<1>3. 0 \notin torn
  BY RowsSound
<1> QED BY <1>1, <1>2, <1>3, DoIs

(* The next step to take is one.                                           *)
LEMMA HeadIsStep ==
    ASSUME TableInv, call.op \in Forward \/ call.op = "rollback"
    PROVE  Head(call.todo) \in StepType
<1>1. call.todo \in Seq(StepType)
  BY DEF TableInv, TypeOK, CallType
<1>2. call.todo # <<>>
  BY DEF TableInv, ForwardSound, RollbackSound, Going
<1> QED BY <1>1, <1>2

LEMMA NextKeepsPages ==
    ASSUME TableInv, PagesInv, Next
    PROVE  PagesInv'
<1>0. TypeOK /\ PagesOK(heap) /\ PagesOK(saved.heap)
  BY DEF TableInv, PagesInv
<1>1. ASSUME NEW t \in Tuple, NEW p \in 1 .. MaxPages, NEW op, NEW steps,
             StartWithInsert(op, t, p, steps), saved' = saved
      PROVE  PagesInv'
  <2>1. IsPageForInsert(p, SizeOf(t)) /\ SetPage(p, Inserted(p, t).page)
    BY <1>1 DEF StartWithInsert
  <2>2. PagesOK(heap')
    BY <1>0, <2>1, InsertKeepsPages
  <2> QED BY <1>0, <1>1, <2>2 DEF PagesInv
<1>2. ASSUME NEW t \in Tuple, NEW p \in 1 .. MaxPages, InsertTuple(t, p) PROVE PagesInv'
  BY <1>1, <1>2 DEF InsertTuple
<1>3. ASSUME NEW row \in Rows, NEW t \in Tuple, NEW p \in 1 .. MaxPages,
             MoveTuple(row, t, p) \/ UpdateTuple(row, t, p)
      PROVE  PagesInv'
  <2>1. CASE MoveTuple(row, t, p)
    BY <1>1, <2>1 DEF MoveTuple
  <2>2. CASE UpdateTuple(row, t, p)
    BY <1>1, <2>2 DEF UpdateTuple
  <2> QED BY <1>3, <2>1, <2>2
<1>4. ASSUME heap' = heap, saved' = saved PROVE PagesInv'
  BY <1>0, <1>4 DEF PagesInv
<1>5. ASSUME NEW row \in Rows, DeleteTuple(row) PROVE PagesInv'
  BY <1>4, <1>5 DEF DeleteTuple
<1>6. ASSUME NEW row \in Rows, NEW t \in Tuple, UpdateInPlace(row, t) PROVE PagesInv'
  <2>1. PagesOK(heap')
    BY <1>0, <1>6, OverwriteKeepsPages
  <2>2. saved' = saved
    BY <1>6 DEF UpdateInPlace
  <2> QED BY <1>0, <2>1, <2>2 DEF PagesInv
<1>7. CASE NextStep \/ UndoStep
  <2>1. Do(Head(call.todo)) /\ MaySucceed(Head(call.todo)) /\ saved' = saved
    BY <1>7 DEF NextStep, UndoStep
  <2>2. call.op \in Forward \/ call.op = "rollback"
    BY <1>7 DEF NextStep, UndoStep, Forward
  <2>3. Head(call.todo) \in StepType
    BY <2>2, HeadIsStep
  <2>4. PagesOK(heap')
    BY <1>0, <2>1, <2>3, DoKeepsPages
  <2> QED BY <1>0, <2>1, <2>4 DEF PagesInv
<1>8. CASE StepThrows \/ UndoThrows \/ MoveFails \/ Restart
  <2>1. CASE MoveFails \/ Restart
    BY <1>4, <2>1 DEF MoveFails, Restart
  <2>2. CASE StepThrows \/ UndoThrows
    <3>1. saved' = saved /\ (call.op \in Forward \/ call.op = "rollback")
      BY <2>2 DEF StepThrows, UndoThrows, Forward
    <3>2. heap' = heap \/ (CanDo(Head(call.todo)) /\ Do(Head(call.todo)))
      BY <2>2 DEF StepThrows, UndoThrows
    <3>3. CASE heap' = heap
      BY <1>4, <3>1, <3>3
    <3>4. CASE CanDo(Head(call.todo)) /\ Do(Head(call.todo))
      <4>1. MaySucceed(Head(call.todo))
        BY <3>4 DEF MaySucceed
      <4>2. Head(call.todo) \in StepType
        BY <3>1, HeadIsStep
      <4>3. PagesOK(heap')
        BY <1>0, <3>4, <4>1, <4>2, DoKeepsPages
      <4> QED BY <1>0, <3>1, <4>3 DEF PagesInv
    <3> QED BY <3>2, <3>3, <3>4
  <2> QED BY <1>8, <2>1, <2>2
<1>9. CASE Commit
  <2>1. heap' = heap /\ saved'.heap = heap
    BY <1>9 DEF Commit, Committed
  <2> QED BY <1>0, <2>1 DEF PagesInv
<1>10. CASE Abort
  <2>1. heap' = [p \in DOMAIN heap |-> IF p \in DOMAIN saved.heap THEN saved.heap[p] ELSE ZeroPage]
    BY <1>10 DEF Abort
  <2>2. ~ZeroPage.initialized
    BY DEF ZeroPage
  <2>3. PagesOK(heap')
    BY <1>0, <2>1, <2>2 DEF PagesOK
  <2>4. saved' = [saved EXCEPT !.heap = heap']
    BY <1>10 DEF Abort
  <2>5. saved = [heap |-> saved.heap, entries |-> saved.entries, torn |-> saved.torn]
    BY <1>0 DEF TypeOK
  <2>6. saved'.heap = heap'
    BY <2>4, <2>5
  <2> QED BY <2>3, <2>6 DEF PagesInv
<1>11. ASSUME NEW i \in Index, CreateIndex(i) PROVE PagesInv'
  <2>1. heap' = heap /\ saved' = [saved EXCEPT !.entries = entries']
    BY <1>11 DEF CreateIndex
  <2>2. saved = [heap |-> saved.heap, entries |-> saved.entries, torn |-> saved.torn]
    BY <1>0 DEF TypeOK
  <2>3. saved'.heap = saved.heap
    BY <2>1, <2>2
  <2> QED BY <1>0, <2>1, <2>3 DEF PagesInv
<1> QED BY <1>2, <1>3, <1>5, <1>6, <1>7, <1>8, <1>9, <1>10, <1>11 DEF Next

(* Every page in use is sound, and so is every page that an abort puts     *)
(* back.                                                                   *)
THEOREM PagesInvariant == Spec => []PagesInv
<1>1. Init => PagesInv
  BY DEF Init, PagesInv, PagesOK
<1>2. TableInv /\ PagesInv /\ [Next]_vars => PagesInv'
  <2>1. ASSUME PagesInv, UNCHANGED vars PROVE PagesInv'
    BY <2>1 DEF PagesInv, vars
  <2> QED BY <2>1, NextKeepsPages
<1> QED BY <1>1, <1>2, TableInvariant, PTL DEF Spec

(* No record reaches the slot array or another record, and each has room   *)
(* for its tuple, whatever InsertRecord, CompactPage, DeleteRecord,        *)
(* OverwriteRecord and an abort have done to a page.                       *)
THEOREM RecordsKeepApart == Spec => []PagesSound
<1>1. PagesInv => PagesSound
  <2>1. SUFFICES ASSUME PagesInv, NEW p \in DOMAIN heap, NEW page, page = heap[p], page.initialized
                 PROVE  /\ Lower(page) <= page.upper /\ page.upper <= PageBytes
                        /\ \A n \in Slots(page, "OCCUPIED") : InPlaceAt(page, n)
                        /\ \A m, n \in Slots(page, "OCCUPIED") : m # n => Disjoint(page, m, n)
    BY Zenon DEF PagesSound, InPlaceAt, Disjoint
  <2>2. PageSound(page)
    BY <2>1 DEF PagesInv, PagesOK
  <2>3. page \in SizedPage /\ BytesSound(page) /\ RecordsSound(page)
    BY <2>2 DEF PageSound
  <2>4. PICK k \in Nat : Measured(page, k) /\ page.upper \in Int
    BY <2>3, PageFacts
  <2>5. SumOfLengths(page, DOMAIN page.slots) \in Nat
    BY <2>4, SumIsNatural
  <2>6. Lower(page) <= page.upper /\ page.upper <= PageBytes
    BY <2>3, <2>4, <2>5, SizeAssumption DEF BytesSound
  <2> QED BY <2>3, <2>6 DEF RecordsSound
<1> QED BY <1>1, PagesInvariant, PTL

LEMMA MaxWithZero ==
    ASSUME NEW a \in Int
    PROVE  Max({0, a}) = IF a >= 0 THEN a ELSE 0
<1>1. \E x \in {0, a} : \A y \in {0, a} : x >= y
  OBVIOUS
<1>2. PICK x : x = Max({0, a})
  OBVIOUS
<1>3. x \in {0, a} /\ \A y \in {0, a} : x >= y
  BY <1>1, <1>2 DEF Max
<1> QED BY <1>2, <1>3

(* What the free space map is told of a page is never more than compaction *)
(* can make room for.                                                      *)
THEOREM FreeSpaceIsReal == Spec => []FreeSpaceNotOverstated
<1>1. PagesInv => FreeSpaceNotOverstated
  <2>1. SUFFICES ASSUME PagesInv, NEW p \in DOMAIN heap, NEW page, page = heap[p], page.initialized
                 PROVE  GetMaxInsertableBytesAfterCompaction(page) <=
                            Max({0, PageBytes - Lower(page) - SlotOverhead(page)
                                    - SumOfLengths(page, Slots(page, "OCCUPIED"))})
    BY Zenon DEF FreeSpaceNotOverstated
  <2>2. PageSound(page)
    BY <2>1 DEF PagesInv, PagesOK
  <2>3. page \in SizedPage /\ BytesSound(page)
    BY <2>2 DEF PageSound
  <2>4. page.upper \in Int /\ Lower(page) \in Nat
    BY <2>3, PageFacts
  <2>5. PICK live, dead, o, l : /\ live = SumOfLengths(page, Slots(page, "OCCUPIED"))
                                /\ dead = SumOfLengths(page, Slots(page, "DELETED"))
                                /\ o = SlotOverhead(page) /\ l = Lower(page)
    OBVIOUS
  <2>6. live \in Nat /\ dead \in Nat /\ page.upper + (live + dead) <= PageBytes
    BY <2>3, <2>5, BytesSplit DEF BytesSound
  <2>7. o \in Nat /\ PageBytes \in Nat
    BY <2>5, SizeAssumption DEF SlotOverhead
  <2>8. PICK a, b : a = ((page.upper - l) + dead) - o /\ b = PageBytes - l - o - live
    OBVIOUS
  <2>9. a \in Int /\ b \in Int /\ a <= b
    BY <2>4, <2>5, <2>6, <2>7, <2>8
  <2>10. GetMaxInsertableBytesAfterCompaction(page) = Max({0, a})
    <3>1. GetTotalFreeSpaceAfterCompaction(page) - SlotOverhead(page) = a
      <4>1. GetContiguousFreeSpace(page) = page.upper - l /\ GetReclaimableSpace(page) = dead
        BY <2>5, Zenon DEF GetContiguousFreeSpace, GetReclaimableSpace
      <4>2. GetTotalFreeSpaceAfterCompaction(page) = (page.upper - l) + dead
        BY <4>1, Zenon DEF GetTotalFreeSpaceAfterCompaction
      <4> QED BY <2>5, <2>8, <4>2
    <3> QED BY <3>1, Zenon DEF GetMaxInsertableBytesAfterCompaction
  <2>11. Max({0, a}) <= Max({0, b})
    BY <2>9, MaxWithZero
  <2> QED BY <2>5, <2>8, <2>10, <2>11
<1> QED BY <1>1, PagesInvariant, PTL
=============================================================================
