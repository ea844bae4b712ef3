------------------------------ MODULE Executors ------------------------------
(***************************************************************************)
(* The operators of src/execution that keep state from one Next to the     *)
(* following one: the joins, the external sort, top-N, duplicate           *)
(* elimination, the set operations and the two aggregations.  An initial   *)
(* state gives one operator its inputs, the rows its children produce; a   *)
(* step is an iteration of the loop in its Init or Next.  A row has an     *)
(* integer key and a value; NULL is 0, which sorts before every key.       *)
(***************************************************************************)
EXTENDS Integers, FiniteSets, FiniteSetsExt, SequencesExt

CONSTANTS
    Key,            \* non-NULL keys and values
    MaxRows,        \* bound: rows of an input
    MaxSortRows,    \* bound: rows to sort
    RunCapacity,    \* run_capacity_ of a sort
    MergeFanIn,     \* merge_fan_in_
    Budget,         \* memory_budget_bytes_, in rows
    MaxBatches,     \* the limit on nbatches_
    LimitCount,     \* limit_count_ of a top-N
    HashKey(_),     \* std::hash of a serialized key
    Serialize(_)    \* SerializeValueForHash

Null == 0

ASSUME BoundsAssumption ==
    /\ Key \subseteq Nat \ {Null} /\ {MaxRows, MaxSortRows, LimitCount} \subseteq Nat
    /\ {RunCapacity, Budget} \subseteq Nat \ {0} /\ MergeFanIn \in Nat \ {0, 1}

\* INT32, INT64 and BOOLEAN keys; a DOUBLE is printed with six digits, and the
\* VARCHAR 'NULL' is printed as NULL is.
ASSUME SerializeAssumption ==
    /\ \A a, b \in Key \cup {Null} : Serialize(a) = Serialize(b) => a = b
    /\ \A a \in Key \cup {Null} : HashKey(Serialize(a)) \in Nat

VARIABLES
    op,     \* the operator
    left,   \* rows of the left, or only, child
    right,  \* rows of the right child
    st,     \* the operator's own state
    out     \* the rows returned so far

vars == <<op, left, right, st, out>>

Keys(rows) == [i \in DOMAIN rows |-> rows[i].key]
InOrder(rows) == \A i, j \in DOMAIN rows : i < j => rows[i].key <= rows[j].key

\* Rows that all differ: the value is the position.
Numbered(keys) == [i \in DOMAIN keys |-> [key |-> keys[i], val |-> i]]
KeyedRows == {Numbered(s) : s \in SeqOf(Key, MaxRows)}
SortedRows == {s \in {Numbered(t) : t \in SeqOf(Key \cup {Null}, MaxRows)} : InOrder(s)}
ValuedRows == SeqOf([key : Key \cup {Null}, val : Key \cup {Null}], MaxRows)

Done == st.phase = "done"
Finish == st' = [st EXCEPT !.phase = "done"] /\ UNCHANGED out
Emit(row) == out' = Append(out, row)
Inputs == <<op, left, right>>

-----------------------------------------------------------------------------
(* Joins on left.key = right.key.  Their children have no NULL keys: a hash *)
(* join takes two NULLs for equal, a nested loop join does not, and the     *)
(* others throw.                                                            *)

NestedLoop == {"nestedLoop"}
IndexLoop == {"indexLoop", "memoLoop"}
Hash == {"hashBuildLeft", "hashBuildRight"}
JoinOps == NestedLoop \cup IndexLoop \cup Hash \cup {"merge"}

InitJoin ==
    /\ op \in JoinOps /\ out = <<>>
    /\ left \in KeyedRows /\ right \in KeyedRows
    /\ op = "merge" => InOrder(left) /\ InOrder(right)
    /\ st = CASE op \in NestedLoop -> [phase |-> "next", l |-> 1, r |-> 1]
              [] op \in IndexLoop -> [phase |-> "next", l |-> 0, matches |-> <<>>, pos |-> 1, cache |-> <<>>]
              [] op \in Hash -> [phase |-> "partition", batches |-> 1]
              [] OTHER -> [phase |-> "init"]

\* The right child is closed and initialised again for every left row.
NestedLoopNext ==
    /\ op \in NestedLoop /\ ~Done
    /\ \/ /\ st.l <= Len(left) /\ st.r <= Len(right)
          /\ st' = [st EXCEPT !.r = @ + 1]
          /\ IF left[st.l].key = right[st.r].key THEN Emit(<<left[st.l], right[st.r]>>) ELSE UNCHANGED out
       \/ /\ st.l <= Len(left) /\ st.r > Len(right)
          /\ st' = [st EXCEPT !.l = @ + 1, !.r = 1] /\ UNCHANGED out
       \/ st.l > Len(left) /\ Finish
    /\ UNCHANGED Inputs

\* The rows at some places, in their order.
RowsAt(rows, places) ==
    [n \in 1 .. Cardinality(places) |->
        rows[CHOOSE i \in places : Cardinality({j \in places : j <= i}) = n]]

Matching(rows, key) == RowsAt(rows, {i \in DOMAIN rows : rows[i].key = key})

\* Search in the inner index and GetTuple, or what an earlier left row with the
\* same key left in memo_cache_.
Lookup(key) ==
    IF op = "memoLoop" /\ Serialize(key) \in DOMAIN st.cache THEN st.cache[Serialize(key)]
    ELSE Matching(right, key)

Remember(key, matches) ==
    [k \in DOMAIN st.cache \cup {Serialize(key)} |-> IF k = Serialize(key) THEN matches ELSE st.cache[k]]

IndexLoopNext ==
    /\ op \in IndexLoop /\ ~Done
    /\ \/ /\ st.pos <= Len(st.matches)
          /\ st' = [st EXCEPT !.pos = @ + 1] /\ Emit(<<left[st.l], st.matches[st.pos]>>)
       \/ /\ st.pos > Len(st.matches) /\ st.l < Len(left)
          /\ LET key == left[st.l + 1].key IN
             st' = [st EXCEPT !.l = @ + 1, !.pos = 1, !.matches = Lookup(key),
                              !.cache = IF op = "memoLoop" THEN Remember(key, Lookup(key)) ELSE @]
          /\ UNCHANGED out
       \/ st.pos > Len(st.matches) /\ st.l = Len(left) /\ Finish
    /\ UNCHANGED Inputs

BuildRows == IF op = "hashBuildLeft" THEN left ELSE right
ProbeRows == IF op = "hashBuildLeft" THEN right ELSE left
InBatch(rows, n, b) == RowsAt(rows, {i \in DOMAIN rows : HashKey(Serialize(rows[i].key)) % n = b})

\* The inputs are written to batch files, twice as many each time a build batch
\* does not fit in memory.
PartitionInputsIntoBatches ==
    /\ op \in Hash /\ st.phase = "partition"
    /\ IF \/ \A b \in 0 .. st.batches - 1 : Len(InBatch(BuildRows, st.batches, b)) <= Budget
          \/ st.batches >= MaxBatches
       THEN st' = [phase |-> "next", batches |-> st.batches, batch |-> 0, probe |-> 0,
                   matches |-> <<>>, pos |-> 1]
       ELSE st' = [st EXCEPT !.batches = 2 * @]
    /\ UNCHANGED <<op, left, right, out>>

Joined(build, probe) == IF op = "hashBuildLeft" THEN <<build, probe>> ELSE <<probe, build>>

HashNext ==
    LET build == InBatch(BuildRows, st.batches, st.batch)
        probe == InBatch(ProbeRows, st.batches, st.batch)
    IN
    /\ op \in Hash /\ st.phase = "next"
    /\ \/ /\ st.pos <= Len(st.matches)
          /\ st' = [st EXCEPT !.pos = @ + 1] /\ Emit(Joined(st.matches[st.pos], probe[st.probe]))
       \/ /\ st.pos > Len(st.matches) /\ st.probe < Len(probe)
          /\ st' = [st EXCEPT !.probe = @ + 1, !.pos = 1, !.matches = Matching(build, probe[st.probe + 1].key)]
          /\ UNCHANGED out
       \/ /\ st.pos > Len(st.matches) /\ st.probe = Len(probe) /\ st.batch + 1 < st.batches
          /\ st' = [st EXCEPT !.batch = @ + 1, !.probe = 0, !.matches = <<>>, !.pos = 1]
          /\ UNCHANGED out
       \/ st.pos > Len(st.matches) /\ st.probe = Len(probe) /\ st.batch + 1 = st.batches /\ Finish
    /\ UNCHANGED Inputs

\* A stream of rows: how many were read, whether the last Next found one and the
\* row it found.
Opened(rows) == [pos |-> 0, has |-> TRUE, row |-> [key |-> Null, val |-> 0]]
ReadFrom(s, rows) ==
    IF s.pos < Len(rows) THEN [pos |-> s.pos + 1, has |-> TRUE, row |-> rows[s.pos + 1]]
    ELSE [s EXCEPT !.has = FALSE]

InitMergeJoin ==
    /\ op = "merge" /\ st.phase = "init"
    /\ st' = [phase |-> "compare", l |-> ReadFrom(Opened(left), left), r |-> ReadFrom(Opened(right), right),
              mark |-> Opened(right), key |-> Null]
    /\ UNCHANGED <<op, left, right, out>>

Compare ==
    /\ op = "merge" /\ st.phase = "compare"
    /\ \/ ~(st.l.has /\ st.r.has) /\ st' = [st EXCEPT !.phase = "done"]
       \/ /\ st.l.has /\ st.r.has /\ st.l.row.key < st.r.row.key
          /\ st' = [st EXCEPT !.l = ReadFrom(@, left)]
       \/ /\ st.l.has /\ st.r.has /\ st.l.row.key > st.r.row.key
          /\ st' = [st EXCEPT !.r = ReadFrom(@, right)]
       \/ /\ st.l.has /\ st.r.has /\ st.l.row.key = st.r.row.key
          /\ st' = [st EXCEPT !.phase = "emit", !.mark = st.r, !.key = st.l.row.key]
    /\ UNCHANGED <<op, left, right, out>>

EmitMatches ==
    LET r == ReadFrom(st.r, right) IN
    /\ op = "merge" /\ st.phase = "emit"
    /\ Emit(<<st.l.row, st.r.row>>)
    /\ st' = [st EXCEPT !.r = r, !.phase = IF r.has /\ r.row.key = st.key THEN "emit" ELSE "outer"]
    /\ UNCHANGED Inputs

\* Fault variant of Restored: the marked row comes back, the position does not.
RestoredRow(marked, now) == [now EXCEPT !.row = marked.row, !.has = TRUE]

\* The marked row is the current one again, and the child continues after it.
Restored(marked, now) == marked

AdvanceOuterDuplicates ==
    LET l == ReadFrom(st.l, left) IN
    /\ op = "merge" /\ st.phase = "outer"
    /\ st' = IF l.has /\ l.row.key = st.key
             THEN [st EXCEPT !.l = l, !.r = Restored(st.mark, @), !.phase = "emit"]
             ELSE [st EXCEPT !.l = l, !.phase = "compare"]
    /\ UNCHANGED <<op, left, right, out>>

-----------------------------------------------------------------------------
(* Sort and top-N, by key.  std::sort and std::priority_queue leave rows    *)
(* with equal keys in any order.                                            *)

InitOrder ==
    /\ op \in {"sort", "topN"} /\ out = <<>> /\ right = <<>>
    /\ left \in {Numbered(s) : s \in SeqOf(Key, MaxSortRows)}
    /\ st = IF op = "sort" THEN [phase |-> "read", pos |-> 0, run |-> {}, runs |-> <<>>]
            ELSE [phase |-> "read", pos |-> 0, heap |-> {}]

SortedSeqs(rows) == {s \in SetToSeqs(rows) : InOrder(s)}

\* A run of RunCapacity rows is sorted and written to a file.
SortRead ==
    /\ op = "sort" /\ st.phase = "read" /\ st.pos < Len(left)
    /\ LET run == st.run \cup {left[st.pos + 1]} IN
       IF Cardinality(run) < RunCapacity THEN st' = [st EXCEPT !.pos = @ + 1, !.run = run]
       ELSE \E s \in SortedSeqs(run) :
                st' = [st EXCEPT !.pos = @ + 1, !.run = {}, !.runs = Append(@, s)]
    /\ UNCHANGED <<op, left, right, out>>

Merging(runs) == [phase |-> "merge", todo |-> runs, group |-> <<>>, merged |-> <<>>, files |-> <<>>]
Emitting(rows) == [phase |-> "next", rows |-> rows]

\* Fault variant of AllRuns: the rows of the last, shorter run are forgotten.
FullRuns(runs, last) == runs

AllRuns(runs, last) == IF last = <<>> THEN runs ELSE Append(runs, last)

SortEndOfInput ==
    /\ op = "sort" /\ st.phase = "read" /\ st.pos = Len(left)
    /\ \E s \in SortedSeqs(st.run) :
        st' = IF st.runs = <<>> THEN Emitting(s)
              ELSE IF Len(AllRuns(st.runs, s)) = 1 THEN Emitting(AllRuns(st.runs, s)[1])
              ELSE Merging(AllRuns(st.runs, s))
    /\ UNCHANGED <<op, left, right, out>>

\* The next merge_fan_in_ files; one alone goes to the next pass as it is.
StartGroup ==
    LET n == Min({MergeFanIn, Len(st.todo)}) IN
    /\ op = "sort" /\ st.phase = "merge" /\ st.group = <<>> /\ st.todo # <<>>
    /\ st' = IF n = 1 THEN [st EXCEPT !.todo = <<>>, !.files = Append(@, st.todo[1])]
             ELSE [st EXCEPT !.todo = SubSeq(@, n + 1, Len(@)), !.group = SubSeq(st.todo, 1, n)]
    /\ UNCHANGED <<op, left, right, out>>

MergeRunGroup ==
    /\ op = "sort" /\ st.phase = "merge" /\ st.group # <<>>
    /\ LET open == {i \in DOMAIN st.group : st.group[i] # <<>>} IN
       \/ \E i \in open :
            /\ \A j \in open : Head(st.group[i]).key <= Head(st.group[j]).key
            /\ st' = [st EXCEPT !.merged = Append(@, Head(st.group[i])), !.group[i] = Tail(@)]
       \/ /\ open = {}
          /\ st' = [st EXCEPT !.files = Append(@, st.merged), !.merged = <<>>, !.group = <<>>]
    /\ UNCHANGED <<op, left, right, out>>

EndPass ==
    /\ op = "sort" /\ st.phase = "merge" /\ st.group = <<>> /\ st.todo = <<>>
    /\ st' = IF Len(st.files) = 1 THEN Emitting(st.files[1]) ELSE Merging(st.files)
    /\ UNCHANGED <<op, left, right, out>>

\* The heap keeps the best rows; its front is one of the worst of them.
TopNRead ==
    /\ op = "topN" /\ st.phase = "read" /\ st.pos < Len(left)
    /\ LET row == left[st.pos + 1] IN
       \/ /\ Cardinality(st.heap) < LimitCount
          /\ st' = [st EXCEPT !.pos = @ + 1, !.heap = @ \cup {row}]
       \/ /\ Cardinality(st.heap) = LimitCount
          /\ \E front \in st.heap :
                /\ \A other \in st.heap : other.key <= front.key
                /\ st' = [st EXCEPT !.pos = @ + 1,
                                    !.heap = IF row.key < front.key THEN (@ \ {front}) \cup {row} ELSE @]
    /\ UNCHANGED <<op, left, right, out>>

\* With no row to keep the input is not read.
TopNEndOfInput ==
    /\ op = "topN" /\ st.phase = "read" /\ (st.pos = Len(left) \/ LimitCount = 0)
    /\ \E s \in SortedSeqs(st.heap) : st' = Emitting(s)
    /\ UNCHANGED <<op, left, right, out>>

\* Next of the sort and of top-N.
OrderedNext ==
    /\ op \in {"sort", "topN"} /\ st.phase = "next"
    /\ \/ Len(out) < Len(st.rows) /\ Emit(st.rows[Len(out) + 1]) /\ UNCHANGED st
       \/ Len(out) = Len(st.rows) /\ Finish
    /\ UNCHANGED Inputs

-----------------------------------------------------------------------------
(* Unique, INTERSECT and EXCEPT over sorted children.  A row is its key.    *)

SetOps == {"intersect", "intersectAll", "except", "exceptAll"}

InitSetOp ==
    /\ op \in SetOps \cup {"unique"} /\ out = <<>>
    /\ left \in SortedRows /\ right \in SortedRows /\ (op = "unique" => right = <<>>)
    /\ st = [phase |-> "next", l |-> 1, r |-> 1, remaining |-> 0, row |-> Null]

\* ReadNextGroup: how many rows from p on are equal to row p.
GroupCount(rows, p) == Cardinality({i \in p .. Len(rows) : rows[i].key = rows[p].key})

UniqueNext ==
    /\ op = "unique" /\ ~Done
    /\ \/ /\ st.l <= Len(left)
          /\ st' = [st EXCEPT !.l = @ + 1, !.row = left[st.l].key]
          /\ IF st.l = 1 \/ st.row # left[st.l].key THEN Emit(left[st.l].key) ELSE UNCHANGED out
       \/ st.l > Len(left) /\ Finish
    /\ UNCHANGED Inputs

\* Fault variant of EmitCount: EXCEPT ALL removes every copy of a row of the right child.
EmitCountAny(lcount, rcount) ==
    CASE op = "intersect" -> 1
      [] op = "intersectAll" -> Min({lcount, rcount})
      [] OTHER -> 0

\* What a row of both children is worth.
EmitCount(lcount, rcount) ==
    CASE op = "intersect" -> 1
      [] op = "intersectAll" -> Min({lcount, rcount})
      [] op = "except" -> 0
      [] op = "exceptAll" -> Max({lcount - rcount, 0})

\* What a row of the left child alone is worth.
EmitLeftCount(lcount) ==
    CASE op = "except" -> 1 [] op = "exceptAll" -> lcount [] OTHER -> 0

SetOpNext ==
    LET lrow == left[st.l].key
        rrow == right[st.r].key
        lcount == GroupCount(left, st.l)
        rcount == GroupCount(right, st.r)
        AdvanceLeft(n) == [st EXCEPT !.l = @ + lcount, !.row = lrow, !.remaining = n]
    IN
    /\ op \in SetOps /\ ~Done
    /\ \/ /\ st.remaining > 0
          /\ Emit(st.row) /\ st' = [st EXCEPT !.remaining = @ - 1]
       \/ /\ st.remaining = 0 /\ st.l <= Len(left)
          /\ \/ /\ st.r > Len(right) /\ op \in {"except", "exceptAll"}
                /\ st' = AdvanceLeft(EmitLeftCount(lcount))
             \/ /\ st.r > Len(right) /\ op \in {"intersect", "intersectAll"}
                /\ st' = [st EXCEPT !.phase = "done"]
             \/ st.r <= Len(right) /\ lrow < rrow /\ st' = AdvanceLeft(EmitLeftCount(lcount))
             \/ st.r <= Len(right) /\ lrow > rrow /\ st' = [st EXCEPT !.r = @ + rcount]
             \/ /\ st.r <= Len(right) /\ lrow = rrow
                /\ st' = [AdvanceLeft(EmitCount(lcount, rcount)) EXCEPT !.r = @ + rcount]
          /\ UNCHANGED out
       \/ st.remaining = 0 /\ st.l > Len(left) /\ Finish
    /\ UNCHANGED Inputs

-----------------------------------------------------------------------------
(* COUNT, SUM, MIN and MAX of the value, by hashing and by streaming.       *)

\* AggTransition: SUM, MIN and MAX are NULL until a value that is not NULL comes.
NoRows == [rows |-> 0, count |-> 0, sum |-> Null, min |-> Null, max |-> Null]

\* Fault variant of ApplyAggregateRow: NULL takes part in MIN.
ApplyNullToo(agg, v) ==
    [rows |-> agg.rows + 1, count |-> agg.count + (IF v = Null THEN 0 ELSE 1), sum |-> agg.sum + v,
     min |-> IF agg.rows = 0 \/ v < agg.min THEN v ELSE agg.min,
     max |-> IF agg.rows = 0 \/ v > agg.max THEN v ELSE agg.max]

\* COUNT(*) counts every row, the others pass over NULL.
ApplyAggregateRow(agg, v) ==
    IF v = Null THEN [agg EXCEPT !.rows = @ + 1]
    ELSE [rows |-> agg.rows + 1, count |-> agg.count + 1, sum |-> agg.sum + v,
          min |-> IF agg.min = Null \/ v < agg.min THEN v ELSE agg.min,
          max |-> IF agg.max = Null \/ v > agg.max THEN v ELSE agg.max]

\* The rows of a group, one after the other.
Aggregated(rows) ==
    LET agg[n \in 0 .. Len(rows)] == IF n = 0 THEN NoRows ELSE ApplyAggregateRow(agg[n - 1], rows[n].val)
    IN  agg[Len(rows)]

\* The scalar ones have no GROUP BY: their rows are one group, here that of NULL.
HashAggregates == {"hashAggregate", "scalarAggregate"}
StreamAggregates == {"streamAggregate", "scalarStream"}

InitAggregate ==
    /\ op \in HashAggregates \cup StreamAggregates /\ out = <<>> /\ right = <<>>
    /\ left \in ValuedRows
    /\ op \in {"scalarAggregate", "scalarStream"} => \A i \in DOMAIN left : left[i].key = Null
    /\ op \in StreamAggregates => InOrder(left)
    /\ st = IF op \in StreamAggregates THEN [phase |-> "read", pos |-> 0, key |-> Null, agg |-> NoRows]
            ELSE [phase |-> "init"]

\* Doubled from 1 on until it is no less than n.
NextPowerOfTwo(n) ==
    LET power[k \in 0 .. n] == IF k = 0 THEN 1 ELSE 2 * power[k - 1]
    IN  Min({p \in {power[k] : k \in 0 .. n} : p >= n})

\* The input goes to one file, or is divided by the hash of the group key.
HashAggregateInit ==
    LET ceiling == (Len(left) + Budget - 1) \div Budget IN
    /\ op \in HashAggregates /\ st.phase = "init"
    /\ st' = [phase |-> IF left = <<>> THEN "empty" ELSE "load", batch |-> 0, groups |-> <<>>,
              batches |-> IF Len(left) <= Budget THEN 1 ELSE NextPowerOfTwo(Max({2, ceiling}))]
    /\ UNCHANGED <<op, left, right, out>>

\* Without GROUP BY an empty input gives one row.
EmitEmpty ==
    /\ st.phase = "empty"
    /\ IF op = "scalarAggregate" THEN Emit([key |-> Null, agg |-> NoRows]) ELSE UNCHANGED out
    /\ st' = [st EXCEPT !.phase = "done"]
    /\ UNCHANGED Inputs

\* The rows of one batch, group by group; unordered_map has no order of its own.
LoadNextBatch ==
    /\ st.phase = "load"
    /\ IF st.batch = st.batches THEN st' = [st EXCEPT !.phase = "done"]
       ELSE LET rows == InBatch(left, st.batches, st.batch) IN
            st' = [st EXCEPT !.phase = "groups", !.batch = @ + 1,
                             !.groups = [k \in {row.key : row \in ToSet(rows)} |-> Aggregated(Matching(rows, k))]]
    /\ UNCHANGED <<op, left, right, out>>

HashAggregateNext ==
    /\ st.phase = "groups"
    /\ \/ \E k \in DOMAIN st.groups :
            /\ Emit([key |-> k, agg |-> st.groups[k]])
            /\ st' = [st EXCEPT !.groups = [g \in DOMAIN @ \ {k} |-> @[g]]]
       \/ DOMAIN st.groups = {} /\ st' = [st EXCEPT !.phase = "load"] /\ UNCHANGED out
    /\ UNCHANGED Inputs

\* An output tuple without columns.
EmptyTuple == <<>>

\* SameGroup compares group keys with CompareValues, which throws on NULL; without GROUP BY
\* it has nothing to compare.  emit_empty_: without GROUP BY an empty input gives a tuple,
\* built from no group values and no aggregate values.
StreamAggregateNext ==
    LET row == left[st.pos + 1]
        result == [key |-> st.key, agg |-> st.agg]
        more == st.pos > 0 /\ st.pos < Len(left)
        throws == op = "streamAggregate" /\ Null \in {st.key, row.key}
        NewGroup(r) == [st EXCEPT !.pos = @ + 1, !.key = r.key, !.agg = ApplyAggregateRow(NoRows, r.val)]
    IN
    /\ op \in StreamAggregates /\ st.phase = "read"
    /\ \/ st.pos = 0 /\ left = <<>> /\ op = "streamAggregate" /\ Finish
       \/ /\ st.pos = 0 /\ left = <<>> /\ op = "scalarStream"
          /\ Emit(EmptyTuple) /\ st' = [st EXCEPT !.phase = "done"]
       \/ st.pos = 0 /\ left # <<>> /\ st' = NewGroup(row) /\ UNCHANGED out
       \/ st.pos > 0 /\ st.pos = Len(left) /\ Emit(result) /\ st' = [st EXCEPT !.phase = "done"]
       \/ more /\ throws /\ st' = [st EXCEPT !.phase = "thrown"] /\ UNCHANGED out
       \/ /\ more /\ ~throws /\ row.key = st.key
          /\ st' = [st EXCEPT !.pos = @ + 1, !.agg = ApplyAggregateRow(@, row.val)] /\ UNCHANGED out
       \/ more /\ ~throws /\ row.key # st.key /\ Emit(result) /\ st' = NewGroup(row)
    /\ UNCHANGED Inputs

-----------------------------------------------------------------------------
\* At the end every later Next returns false; after an exception the query is over.
Ended == st.phase \in {"done", "thrown"} /\ UNCHANGED vars

Init == InitJoin \/ InitOrder \/ InitSetOp \/ InitAggregate

JoinStep ==
    \/ NestedLoopNext \/ IndexLoopNext \/ PartitionInputsIntoBatches \/ HashNext
    \/ InitMergeJoin \/ Compare \/ EmitMatches \/ AdvanceOuterDuplicates
OrderStep ==
    \/ SortRead \/ SortEndOfInput \/ StartGroup \/ MergeRunGroup \/ EndPass
    \/ TopNRead \/ TopNEndOfInput \/ OrderedNext
AggregateStep ==
    \/ HashAggregateInit \/ EmitEmpty \/ LoadNextBatch \/ HashAggregateNext \/ StreamAggregateNext

Next == JoinStep \/ OrderStep \/ UniqueNext \/ SetOpNext \/ AggregateStep \/ Ended

Spec == Init /\ [][Next]_vars

-----------------------------------------------------------------------------
(* Properties.                                                             *)

\* How often a row occurs.
Copies(rows, row) == Cardinality({i \in DOMAIN rows : rows[i] = row})
CopiesOfKey(rows, key) == Cardinality({i \in DOMAIN rows : rows[i].key = key})

\* Whichever algorithm the optimizer picks, and however the batches, the cache and
\* the marked position fall, a join returns every matching pair once and no other.
JoinsAgree ==
    op \in JoinOps =>
        /\ IsInjective(out)
        /\ ToSet(out) \subseteq {p \in ToSet(left) \X ToSet(right) : p[1].key = p[2].key}
        /\ Done => \A p \in ToSet(left) \X ToSet(right) : p[1].key = p[2].key => p \in ToSet(out)

\* A sort returns its input in order through any number of runs and passes; a
\* top-N returns what a sort followed by a limit may return.
OrderingCorrect ==
    op \in {"sort", "topN"} /\ Done =>
        /\ InOrder(out) /\ IsInjective(out) /\ ToSet(out) \subseteq ToSet(left)
        /\ Len(out) = IF op = "sort" THEN Len(left) ELSE Min({LimitCount, Len(left)})
        /\ \A row \in ToSet(left) \ ToSet(out), kept \in ToSet(out) : kept.key <= row.key

\* INTERSECT, EXCEPT, their ALL forms and Unique return each row as often as SQL says.
SetOperationsCorrect ==
    op \in SetOps \cup {"unique"} /\ Done =>
        \A k \in Key \cup {Null} :
            LET l == CopiesOfKey(left, k)
                r == CopiesOfKey(right, k)
            IN Copies(out, k) =
                CASE op = "unique" -> Min({l, 1})
                  [] op = "intersect" -> Min({l, r, 1})
                  [] op = "intersectAll" -> Min({l, r})
                  [] op = "except" -> IF r = 0 THEN Min({l, 1}) ELSE 0
                  [] op = "exceptAll" -> Max({l - r, 0})

Values(k) == {i \in DOMAIN left : left[i].key = k /\ left[i].val # Null}

SumAt(rows, places) ==
    LET sum[n \in 0 .. Len(rows)] ==
            IF n = 0 THEN 0 ELSE sum[n - 1] + (IF n \in places THEN rows[n].val ELSE 0)
    IN  sum[Len(rows)]

\* What a group must amount to.
GroupResult(k) ==
    LET vals == Values(k) IN
    [rows |-> CopiesOfKey(left, k), count |-> Cardinality(vals),
     sum |-> SumAt(left, vals),
     min |-> IF vals = {} THEN Null ELSE Min({left[i].val : i \in vals}),
     max |-> IF vals = {} THEN Null ELSE Max({left[i].val : i \in vals})]

NullGroup(rows) == \E i \in DOMAIN rows : rows[i].key = Null

\* Hashing, in any number of batches, gives each group once with what its rows amount to, that
\* of NULL too.  Streaming gives the same, except that with two rows or more, one of them with
\* a NULL group key, it throws before it has returned anything (operators_aggregate.cpp:216),
\* and then only, and that without GROUP BY an empty input gives it a tuple without columns.
AggregatesAgree ==
    op \in HashAggregates \cup StreamAggregates =>
        LET unstreamable == op = "streamAggregate" /\ Len(left) > 1 /\ NullGroup(left)
            groups == {row.key : row \in ToSet(left)} \cup (IF op = "scalarAggregate" THEN {Null} ELSE {})
        IN /\ st.phase = "thrown" => unstreamable /\ out = <<>>
           /\ Done => ~unstreamable
           /\ Done => IF op = "scalarStream" /\ left = <<>> THEN out = <<EmptyTuple>>
                      ELSE /\ Len(out) = Cardinality(groups)
                           /\ ToSet(out) = {[key |-> k, agg |-> GroupResult(k)] : k \in groups}
=============================================================================
