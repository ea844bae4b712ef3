-------------------------- MODULE ExecutorsProofs --------------------------
(***************************************************************************)
(* Proofs about the operators of src/execution, for inputs of any length   *)
(* and any keys, run capacity, merge fan-in, memory budget and limit.      *)
(*                                                                         *)
(* Joins.  Yields says that what a join has returned lists, once each, the *)
(* pairs of an outer row i and the inner rows P[i].  Every join has its    *)
(* own account P of its progress: the pairs before the two positions of    *)
(* the nested loop, the rows probed and the matches taken of the current   *)
(* one for the index and the hash join, the groups passed and the part of  *)
(* the current one for the merge join.                                     *)
(*                                                                         *)
(* Sort and top-N.  Files says that sorted files share no row and hold a   *)
(* given set; a pass moves rows from the files that wait to the group, to  *)
(* what is merged and to the files of the next pass.                       *)
(*                                                                         *)
(* Set operations.  Boundary says that a child stands at the beginning of  *)
(* a group; Counted compares what was returned with what the groups left   *)
(* behind are worth.                                                       *)
(*                                                                         *)
(* Aggregations.  AggOf says what the rows at some places amount to;       *)
(* Listed, that the rows returned are those of the groups of some keys.    *)
(***************************************************************************)
EXTENDS Executors, NaturalLemmas, FiniteSetTheorems, SequenceTheorems, TLAPS

(* The places RowsAt takes rows from, in their order.                      *)
PlaceOf(places) ==
    [n \in 1 .. Cardinality(places) |-> CHOOSE i \in places : Cardinality({j \in places : j <= i}) = n]

(* An input of numbered rows: they all differ.                             *)
LEMMA NumberedRowsAre ==
    ASSUME NEW K, NEW bound \in Nat, NEW rows, rows \in {Numbered(s) : s \in SeqOf(K, bound)}
    PROVE  \E m \in Nat : /\ m = Len(rows) /\ DOMAIN rows = 1..m
                          /\ \A i \in 1..m : rows[i].key \in K /\ rows[i].val = i
<1>1. PICK t \in SeqOf(K, bound) : rows = Numbered(t)
  OBVIOUS
<1>2. PICK m \in 0..bound : t \in [1..m -> K]
  BY <1>1 DEF SeqOf
<1>3. m \in Nat
  BY <1>2
<1>4. rows = [i \in 1..m |-> [key |-> t[i], val |-> i]]
  BY <1>1, <1>2 DEF Numbered
<1>5. rows \in Seq([key : K, val : Nat])
  BY <1>2, <1>3, <1>4
<1>6. Len(rows) = m /\ DOMAIN rows = 1..m
  BY <1>3, <1>4, <1>5
<1> QED BY <1>2, <1>3, <1>4, <1>6

LEMMA KeyedRowsAre ==
    ASSUME NEW rows, rows \in KeyedRows
    PROVE  \E m \in Nat : /\ m = Len(rows) /\ DOMAIN rows = 1..m
                          /\ \A i \in 1..m : rows[i].key \in Key /\ rows[i].val = i
<1>1. MaxRows \in Nat
  BY BoundsAssumption
<1>2. rows \in {Numbered(s) : s \in SeqOf(Key, MaxRows)}
  BY DEF KeyedRows
<1> QED BY <1>1, <1>2, NumberedRowsAre, Zenon

(* The first places of RowsAt, and what they are.                          *)
LEMMA PlacesInOrder ==
    ASSUME NEW m \in Nat, NEW A, A \subseteq 1..m
    PROVE  \E k \in Nat :
               /\ k = Cardinality(A) /\ DOMAIN PlaceOf(A) = 1..k
               /\ \A n \in 1..k : PlaceOf(A)[n] \in A
               /\ \A i \in A : \E n \in 1..k : PlaceOf(A)[n] = i
               /\ \A n, p \in 1..k : PlaceOf(A)[n] = PlaceOf(A)[p] => n = p
<1>1. IsFiniteSet(1..m) /\ A \in SUBSET (1..m)
  BY FS_Interval
<1>2. IsFiniteSet(A) /\ A \subseteq Nat
  <2>1. IsFiniteSet(A)
    BY <1>1, FS_Subset, Zenon
  <2>2. A \subseteq Nat
    OBVIOUS
  <2> QED BY <2>1, <2>2
<1>3. PICK k \in Nat : k = Cardinality(A)
  BY <1>2, FS_CardinalityType
<1>4. PICK rank : rank = [i \in A |-> Cardinality({j \in A : j <= i})]
  OBVIOUS
<1>5. \A i \in A : /\ IsFiniteSet({j \in A : j <= i}) /\ rank[i] \in Nat /\ rank[i] <= k
                   /\ rank[i] = Cardinality({j \in A : j <= i})
  <2> SUFFICES ASSUME NEW i \in A
               PROVE  /\ IsFiniteSet({j \in A : j <= i}) /\ rank[i] \in Nat /\ rank[i] <= k
                      /\ rank[i] = Cardinality({j \in A : j <= i})
    OBVIOUS
  <2>1. PICK S : S = {j \in A : j <= i}
    OBVIOUS
  <2>2. S \in SUBSET A /\ rank[i] = Cardinality(S)
    BY <1>4, <2>1
  <2>3. IsFiniteSet(S) /\ Cardinality(S) <= k /\ Cardinality(S) \in Nat
    BY <1>2, <1>3, <2>2, FS_Subset, FS_CardinalityType
  <2> QED BY <2>1, <2>2, <2>3
<1>6. \A i \in A : rank[i] # 0
  <2> SUFFICES ASSUME NEW i \in A PROVE rank[i] # 0
    OBVIOUS
  <2>1. PICK S : S = {j \in A : j <= i}
    OBVIOUS
  <2>2. i \in S
    BY <1>2, <2>1
  <2>3. Cardinality(S) # 0
    BY <1>5, <2>1, <2>2, FS_EmptySet
  <2> QED BY <1>5, <2>1, <2>3
<1>7. ASSUME NEW i \in A, NEW j \in A, i < j PROVE rank[i] # rank[j]
  <2>1. PICK S, T : S = {x \in A : x <= i} /\ T = {x \in A : x <= j}
    OBVIOUS
  <2>2. S \in SUBSET T /\ j \in T /\ j \notin S
    <3>1. \A x \in A : x \in Nat /\ (x <= i => x <= j)
      BY <1>2, <1>7
    <3>2. j <= j /\ ~(j <= i)
      BY <1>2, <1>7
    <3> QED BY <2>1, <3>1, <3>2, Zenon
  <2>3. IsFiniteSet(T) /\ rank[i] = Cardinality(S) /\ rank[j] = Cardinality(T)
    BY <1>5, <2>1
  <2> QED BY <2>2, <2>3, FS_Subset
<1>8. \A i, j \in A : rank[i] = rank[j] => i = j
  BY <1>2, <1>7
<1>9. rank \in [A -> 1..k]
  BY <1>4, <1>5, <1>6
<1>10. rank \in Injection(A, 1..k)
  BY <1>8, <1>9 DEF Injection, IsInjective
<1>11. IsFiniteSet(1..k) /\ Cardinality(1..k) = k
  BY FS_Interval
<1>12. rank \in Surjection(A, 1..k)
  BY <1>3, <1>10, <1>11, FS_Injection
<1>13. \A n \in 1..k : \E i \in A : rank[i] = n
  BY <1>12 DEF Surjection
<1>14. PICK at : at = PlaceOf(A)
  OBVIOUS
<1>15. at = [n \in 1..k |-> CHOOSE i \in A : Cardinality({j \in A : j <= i}) = n]
  BY <1>3, <1>14 DEF PlaceOf
<1>16. ASSUME NEW n \in 1..k
       PROVE  at[n] \in A /\ rank[at[n]] = n
  <2>1. \E i \in A : Cardinality({j \in A : j <= i}) = n
    BY <1>5, <1>13
  <2>2. at[n] = CHOOSE i \in A : Cardinality({j \in A : j <= i}) = n
    BY <1>15
  <2>3. at[n] \in A /\ Cardinality({j \in A : j <= at[n]}) = n
    BY <2>1, <2>2, Zenon
  <2> QED BY <1>5, <2>3
<1>17. ASSUME NEW i \in A PROVE \E n \in 1..k : at[n] = i
  <2>1. rank[i] \in 1..k
    BY <1>9
  <2> QED BY <1>8, <1>16, <2>1
<1>18. \A n, p \in 1..k : at[n] = at[p] => n = p
  BY <1>16
<1>19. DOMAIN at = 1..k
  BY <1>15
<1> QED BY <1>3, <1>14, <1>16, <1>17, <1>18, <1>19

LEMMA RowsAtPlaces ==
    ASSUME NEW rows, NEW A
    PROVE  RowsAt(rows, A) = [n \in 1 .. Cardinality(A) |-> rows[PlaceOf(A)[n]]]
BY DEF RowsAt, PlaceOf

-----------------------------------------------------------------------------
(* What a join has returned.                                               *)

(* A returned pair, of a row of the outer and one of the inner input; the  *)
(* hash join that builds on the left has its outer input on the right.     *)
Pair(swap, o, i) == IF swap THEN <<i, o>> ELSE <<o, i>>

(* The inner places whose rows match the outer row at i.                   *)
Matches(O, I, i) == {j \in DOMAIN I : O[i].key = I[j].key}

(* The rows of rs are, each once, the pairs of the outer row i and the     *)
(* inner rows P[i], for every i.                                           *)
Yields(rs, swap, O, I, P) ==
    /\ \E S : rs \in Seq(S)
    /\ P \in [DOMAIN O -> SUBSET DOMAIN I]
    /\ \A m, n \in DOMAIN rs : rs[m] = rs[n] => m = n
    /\ \A n \in DOMAIN rs : \E i \in DOMAIN O : \E j \in P[i] : rs[n] = Pair(swap, O[i], I[j])
    /\ \A i \in DOMAIN O : \A j \in P[i] : \E n \in DOMAIN rs : rs[n] = Pair(swap, O[i], I[j])

(* Pairs from different places differ.                                     *)
LEMMA PairsDiffer ==
    ASSUME NEW O \in KeyedRows, NEW I \in KeyedRows, NEW swap \in BOOLEAN,
           NEW i \in DOMAIN O, NEW j \in DOMAIN I, NEW h \in DOMAIN O, NEW k \in DOMAIN I,
           Pair(swap, O[i], I[j]) = Pair(swap, O[h], I[k])
    PROVE  i = h /\ j = k
<1>1. O[i].val = i /\ O[h].val = h /\ I[j].val = j /\ I[k].val = k
  BY KeyedRowsAre
<1>2. O[i] = O[h] /\ I[j] = I[k]
  BY DEF Pair
<1> QED BY <1>1, <1>2

(* A pair that was not returned yet is returned.                           *)
LEMMA EmitPair ==
    ASSUME NEW O \in KeyedRows, NEW I \in KeyedRows, NEW swap \in BOOLEAN, NEW rs, NEW P,
           Yields(rs, swap, O, I, P),
           NEW i \in DOMAIN O, NEW j \in DOMAIN I, j \notin P[i],
           NEW Q, Q \in [DOMAIN O -> SUBSET DOMAIN I],
           \A h \in DOMAIN O : Q[h] = IF h = i THEN P[i] \cup {j} ELSE P[h]
    PROVE  Yields(Append(rs, Pair(swap, O[i], I[j])), swap, O, I, Q)
<1>1. PICK S : rs \in Seq(S)
  BY DEF Yields
<1>2. PICK x : x = Pair(swap, O[i], I[j])
  OBVIOUS
<1>3. PICK k \in Nat : k = Len(rs) /\ DOMAIN rs = 1..k
  BY <1>1
<1>4. PICK ns : ns = Append(rs, x)
  OBVIOUS
<1>5. ns \in Seq(S \cup {x}) /\ DOMAIN ns = 1..(k + 1) /\ ns[k + 1] = x /\ \A n \in 1..k : ns[n] = rs[n]
  BY <1>1, <1>3, <1>4
<1>6. ASSUME NEW n \in 1..k PROVE rs[n] # x
  <2>1. PICK h \in DOMAIN O : \E g \in P[h] : rs[n] = Pair(swap, O[h], I[g])
    BY <1>3, <1>6 DEF Yields
  <2>2. PICK g \in P[h] : rs[n] = Pair(swap, O[h], I[g])
    BY <2>1
  <2>3. g \in DOMAIN I
    BY <2>1, <2>2 DEF Yields
  <2> QED BY <1>2, <2>1, <2>2, <2>3, PairsDiffer
<1>7. \A m, n \in DOMAIN ns : ns[m] = ns[n] => m = n
  <2>1. \A m, n \in 1..k : rs[m] = rs[n] => m = n
    BY <1>3 DEF Yields
  <2> QED BY <1>5, <1>6, <2>1
<1>8. ASSUME NEW n \in DOMAIN ns
      PROVE  \E h \in DOMAIN O : \E g \in Q[h] : ns[n] = Pair(swap, O[h], I[g])
  <2>1. CASE n = k + 1
    BY <1>2, <1>5, <2>1
  <2>2. CASE n \in 1..k
    <3>1. PICK h \in DOMAIN O : \E g \in P[h] : rs[n] = Pair(swap, O[h], I[g])
      BY <1>3, <2>2 DEF Yields
    <3>2. P[h] \subseteq Q[h]
      BY <3>1
    <3> QED BY <1>5, <2>2, <3>1, <3>2
  <2> QED BY <1>5, <1>8, <2>1, <2>2
<1>9. ASSUME NEW h \in DOMAIN O, NEW g \in Q[h]
      PROVE  \E n \in DOMAIN ns : ns[n] = Pair(swap, O[h], I[g])
  <2>1. CASE h = i /\ g = j
    BY <1>2, <1>5, <2>1
  <2>2. CASE g \in P[h]
    <3>1. PICK n \in 1..k : rs[n] = Pair(swap, O[h], I[g])
      BY <1>3, <1>9, <2>2 DEF Yields
    <3>2. n \in DOMAIN ns /\ ns[n] = rs[n]
      BY <1>5, <3>1
    <3> QED BY <3>1, <3>2
  <2>3. (h = i /\ g = j) \/ g \in P[h]
    BY <1>9
  <2> QED BY <2>1, <2>2, <2>3
<1>10. \E U : ns \in Seq(U)
  BY <1>5
<1>11. Yields(ns, swap, O, I, Q)
  BY <1>7, <1>8, <1>9, <1>10, Zenon DEF Yields
<1> QED BY <1>2, <1>4, <1>11

(* No row was returned yet.                                                *)
LEMMA YieldsNothing ==
    ASSUME NEW O, NEW I, NEW swap, NEW P, P \in [DOMAIN O -> SUBSET DOMAIN I],
           \A i \in DOMAIN O : P[i] = {}
    PROVE  Yields(<<>>, swap, O, I, P)
<1>1. <<>> \in Seq({}) /\ DOMAIN <<>> = {}
  OBVIOUS
<1>2. \E S : <<>> \in Seq(S)
  BY <1>1
<1> QED BY <1>1, <1>2 DEF Yields

(* The same progress.                                                      *)
LEMMA YieldsSame ==
    ASSUME NEW O, NEW I, NEW swap, NEW rs, NEW P, NEW Q, Yields(rs, swap, O, I, P),
           Q \in [DOMAIN O -> SUBSET DOMAIN I], \A i \in DOMAIN O : Q[i] = P[i]
    PROVE  Yields(rs, swap, O, I, Q)
<1>1. P \in [DOMAIN O -> SUBSET DOMAIN I]
  BY DEF Yields
<1>2. P = Q
  BY <1>1
<1> QED BY <1>2

(* What the pairs of matching rows say of JoinsAgree.                      *)
JoinResult(rs, l, r, over) ==
    /\ IsInjective(rs)
    /\ ToSet(rs) \subseteq {p \in ToSet(l) \X ToSet(r) : p[1].key = p[2].key}
    /\ over => \A p \in ToSet(l) \X ToSet(r) : p[1].key = p[2].key => p \in ToSet(rs)

LEMMA YieldsResult ==
    ASSUME NEW O \in KeyedRows, NEW I \in KeyedRows, NEW swap \in BOOLEAN, NEW rs, NEW P,
           Yields(rs, swap, O, I, P), NEW over \in BOOLEAN,
           \A i \in DOMAIN O : P[i] \subseteq Matches(O, I, i),
           over => \A i \in DOMAIN O : P[i] = Matches(O, I, i),
           NEW l, NEW r, l = IF swap THEN I ELSE O, r = IF swap THEN O ELSE I
    PROVE  JoinResult(rs, l, r, over)
<1>1. IsInjective(rs)
  BY DEF Yields, IsInjective
<1>2. ASSUME NEW x \in ToSet(rs)
      PROVE  x \in {p \in ToSet(l) \X ToSet(r) : p[1].key = p[2].key}
  <2>1. PICK n \in DOMAIN rs : x = rs[n]
    BY <1>2 DEF ToSet
  <2>2. PICK i \in DOMAIN O : \E j \in P[i] : rs[n] = Pair(swap, O[i], I[j])
    BY <2>1 DEF Yields
  <2>3. PICK j \in P[i] : rs[n] = Pair(swap, O[i], I[j])
    BY <2>2
  <2>4. j \in DOMAIN I /\ O[i].key = I[j].key
    BY <2>2, <2>3 DEF Matches
  <2>5. CASE swap
    <3>1. x = <<I[j], O[i]>> /\ I[j] \in ToSet(l) /\ O[i] \in ToSet(r)
      BY <2>1, <2>2, <2>3, <2>4, <2>5 DEF Pair, ToSet
    <3> QED BY <2>4, <3>1
  <2>6. CASE ~swap
    <3>1. x = <<O[i], I[j]>> /\ O[i] \in ToSet(l) /\ I[j] \in ToSet(r)
      BY <2>1, <2>2, <2>3, <2>4, <2>6 DEF Pair, ToSet
    <3> QED BY <2>4, <3>1
  <2> QED BY <2>5, <2>6
<1>3. ASSUME over, NEW p \in ToSet(l) \X ToSet(r), p[1].key = p[2].key
      PROVE  p \in ToSet(rs)
  <2>1. PICK i \in DOMAIN O, j \in DOMAIN I : p = Pair(swap, O[i], I[j])
    <3>1. PICK a \in DOMAIN l, b \in DOMAIN r : p = <<l[a], r[b]>>
      BY <1>3 DEF ToSet
    <3>2. CASE swap
      BY <3>1, <3>2 DEF Pair
    <3>3. CASE ~swap
      BY <3>1, <3>3 DEF Pair
    <3> QED BY <3>2, <3>3
  <2>2. O[i].key = I[j].key
    BY <1>3, <2>1 DEF Pair
  <2>3. j \in P[i]
    BY <1>3, <2>1, <2>2 DEF Matches
  <2>4. PICK n \in DOMAIN rs : rs[n] = p
    BY <2>1, <2>3 DEF Yields
  <2> QED BY <2>4 DEF ToSet
<1>4. ToSet(rs) \subseteq {p \in ToSet(l) \X ToSet(r) : p[1].key = p[2].key}
  BY <1>2
<1>5. over => \A p \in ToSet(l) \X ToSet(r) : p[1].key = p[2].key => p \in ToSet(rs)
  BY <1>3
<1> QED BY <1>1, <1>4, <1>5 DEF JoinResult

(* The rows of rs are those of rows at the places A, in the order of at.   *)
Lists(rs, at, rows, A, k) ==
    /\ k = Cardinality(A) /\ Len(rs) = k /\ DOMAIN rs = 1..k
    /\ \A n \in 1..k : at[n] \in A /\ rs[n] = rows[at[n]]
    /\ \A i \in A : \E n \in 1..k : at[n] = i
    /\ \A n, p \in 1..k : at[n] = at[p] => n = p

(* The rows at some places are as many as the places.                      *)
LEMMA RowsAtAre ==
    ASSUME NEW m \in Nat, NEW rows, DOMAIN rows = 1..m, NEW A, A \subseteq 1..m
    PROVE  \E k \in Nat : Lists(RowsAt(rows, A), PlaceOf(A), rows, A, k)
<1>1. PICK at, rs : at = PlaceOf(A) /\ rs = RowsAt(rows, A)
  OBVIOUS
<1>2. PICK k \in Nat :
          /\ k = Cardinality(A) /\ DOMAIN at = 1..k /\ \A n \in 1..k : at[n] \in A
          /\ \A i \in A : \E n \in 1..k : at[n] = i
          /\ \A n, p \in 1..k : at[n] = at[p] => n = p
  <2>1. PICK k \in Nat :
            /\ k = Cardinality(A) /\ DOMAIN PlaceOf(A) = 1..k
            /\ \A n \in 1..k : PlaceOf(A)[n] \in A
            /\ \A i \in A : \E n \in 1..k : PlaceOf(A)[n] = i
            /\ \A n, p \in 1..k : PlaceOf(A)[n] = PlaceOf(A)[p] => n = p
    BY PlacesInOrder
  <2> QED BY <1>1, <2>1, ZenonT(60)
<1>3. rs = [n \in 1..k |-> rows[at[n]]]
  BY <1>1, <1>2, RowsAtPlaces
<1>4. PICK S : rs \in Seq(S)
  <2>1. PICK S : S = {rows[i] : i \in 1..m}
    OBVIOUS
  <2>2. \A n \in 1..k : rows[at[n]] \in S
    BY <1>2, <2>1
  <2>3. rs \in [1..k -> S]
    BY <1>3, <2>2
  <2> QED BY <2>3
<1>5. Len(rs) = k /\ DOMAIN rs = 1..k /\ \A n \in 1..k : rs[n] = rows[at[n]]
  BY <1>2, <1>3, <1>4
<1>6. Lists(rs, at, rows, A, k)
  BY <1>2, <1>5, Zenon DEF Lists
<1> QED BY <1>1, <1>6

-----------------------------------------------------------------------------
(* The nested loop join.                                                   *)

NestedProgress(L, R, l, r) ==
    [i \in DOMAIN L |-> {j \in Matches(L, R, i) : i < l \/ (i = l /\ j < r)}]

NestedLoopOK(L, R, s, rs) ==
    /\ s.phase \in {"next", "done"}
    /\ \E l \in 1 .. Len(L) + 1, r \in 1 .. Len(R) + 1 :
        /\ s = [phase |-> s.phase, l |-> l, r |-> r]
        /\ s.phase = "done" => l = Len(L) + 1
        /\ Yields(rs, FALSE, L, R, NestedProgress(L, R, l, r))

LEMMA NestedLoopStep ==
    ASSUME left \in KeyedRows, right \in KeyedRows, NestedLoopOK(left, right, st, out), NestedLoopNext
    PROVE  NestedLoopOK(left, right, st', out')
<1>1. PICK L, R, s, rs, s2, rs2 :
          /\ L = left /\ R = right /\ s = st /\ rs = out /\ s2 = st' /\ rs2 = out'
  OBVIOUS
<1>2. PICK n \in Nat : n = Len(L) /\ DOMAIN L = 1..n
  BY <1>1, KeyedRowsAre
<1>3. PICK m \in Nat : m = Len(R) /\ DOMAIN R = 1..m
  BY <1>1, KeyedRowsAre
<1>4. PICK l \in 1..(n + 1), r \in 1..(m + 1) :
          /\ s = [phase |-> s.phase, l |-> l, r |-> r]
          /\ Yields(rs, FALSE, L, R, NestedProgress(L, R, l, r))
  BY <1>1, <1>2, <1>3 DEF NestedLoopOK
<1>5. s.phase = "next"
  BY <1>1 DEF NestedLoopOK, NestedLoopNext, Done
<1> DEFINE P == NestedProgress(L, R, l, r)
<1>6. \A a, b \in Nat : /\ NestedProgress(L, R, a, b) \in [DOMAIN L -> SUBSET DOMAIN R]
                        /\ \A i \in DOMAIN L : NestedProgress(L, R, a, b)[i] =
                               {j \in Matches(L, R, i) : i < a \/ (i = a /\ j < b)}
  BY DEF NestedProgress, Matches
<1>7. ASSUME NEW s3, NEW rs3, NEW a \in 1..(n + 1), NEW b \in 1..(m + 1), NEW p \in {"next", "done"},
             s3 = [phase |-> p, l |-> a, r |-> b], p = "done" => a = n + 1,
             Yields(rs3, FALSE, L, R, NestedProgress(L, R, a, b))
      PROVE  NestedLoopOK(L, R, s3, rs3)
  BY <1>2, <1>3, <1>7 DEF NestedLoopOK
<1>8. CASE st.l <= Len(left) /\ st.r <= Len(right) /\ st' = [st EXCEPT !.r = @ + 1]
           /\ IF left[st.l].key = right[st.r].key THEN Emit(<<left[st.l], right[st.r]>>) ELSE UNCHANGED out
  <2>1. l \in 1..n /\ r \in 1..m /\ l \in Nat /\ r + 1 \in Nat /\ r + 1 \in 1..(m + 1)
    BY <1>1, <1>2, <1>3, <1>4, <1>8
  <2>2. s2 = [phase |-> "next", l |-> l, r |-> r + 1]
    BY <1>1, <1>4, <1>5, <1>8
  <2>3. PICK Q : Q = NestedProgress(L, R, l, r + 1)
    OBVIOUS
  <2>4. Q \in [DOMAIN L -> SUBSET DOMAIN R] /\ \A i \in DOMAIN L :
            Q[i] = {j \in Matches(L, R, i) : i < l \/ (i = l /\ j < r + 1)}
    BY <1>6, <2>1, <2>3
  <2>5. \A i \in DOMAIN L : P[i] = {j \in Matches(L, R, i) : i < l \/ (i = l /\ j < r)}
    BY <1>6, <2>1
  <2>6. \A i \in DOMAIN L : \A j \in Matches(L, R, i) : i \in Nat /\ j \in Nat /\ (j < r + 1 <=> j < r \/ j = r)
    BY <1>2, <1>3, <2>1 DEF Matches
  <2>7. CASE L[l].key = R[r].key
    <3>1. rs2 = Append(rs, Pair(FALSE, L[l], R[r]))
      BY <1>1, <1>4, <1>8, <2>7 DEF Emit, Pair
    <3>2. r \in Matches(L, R, l) /\ l \in DOMAIN L /\ r \in DOMAIN R
      BY <1>2, <1>3, <2>1, <2>7 DEF Matches
    <3>3. r \notin P[l]
      BY <2>1, <2>5, <3>2
    <3>4. \A h \in DOMAIN L : Q[h] = IF h = l THEN P[l] \cup {r} ELSE P[h]
      <4> SUFFICES ASSUME NEW h \in DOMAIN L PROVE Q[h] = IF h = l THEN P[l] \cup {r} ELSE P[h]
        OBVIOUS
      <4> HIDE DEF P
      <4>1. CASE h = l
        BY <2>1, <2>4, <2>5, <2>6, <3>2, <4>1, ZenonT(60)
      <4>2. CASE h # l
        BY <2>1, <2>4, <2>5, <2>6, <4>2
      <4> QED BY <4>1, <4>2
    <3>5. Yields(rs2, FALSE, L, R, Q)
      <4>1. L \in KeyedRows /\ R \in KeyedRows /\ FALSE \in BOOLEAN
        BY <1>1
      <4>2. Yields(Append(rs, Pair(FALSE, L[l], R[r])), FALSE, L, R, Q)
        BY <1>4, <2>4, <3>2, <3>3, <3>4, <4>1, EmitPair, Zenon
      <4> QED BY <3>1, <4>2
    <3> QED BY <1>1, <1>7, <2>1, <2>2, <2>3, <3>5
  <2>8. CASE L[l].key # R[r].key
    <3>1. rs2 = rs
      BY <1>1, <1>4, <1>8, <2>8
    <3>2. \A i \in DOMAIN L : i = l => r \notin Matches(L, R, i)
      BY <2>8 DEF Matches
    <3>3. \A i \in DOMAIN L : Q[i] = P[i]
      <4> HIDE DEF P
      <4> QED BY <2>4, <2>5, <2>6, <3>2
    <3>4. Yields(rs2, FALSE, L, R, Q)
      BY <1>4, <2>4, <3>1, <3>3, YieldsSame
    <3> QED BY <1>1, <1>7, <2>1, <2>2, <2>3, <3>4
  <2> QED BY <2>7, <2>8
<1>9. CASE st.l <= Len(left) /\ st.r > Len(right) /\ st' = [st EXCEPT !.l = @ + 1, !.r = 1] /\ UNCHANGED out
  <2>1. l \in 1..n /\ r = m + 1 /\ l + 1 \in Nat /\ r \in Nat /\ l + 1 \in 1..(n + 1) /\ 1 \in 1..(m + 1)
    BY <1>1, <1>2, <1>3, <1>4, <1>9
  <2>2. s2 = [phase |-> "next", l |-> l + 1, r |-> 1] /\ rs2 = rs
    <3>1. s2 = [phase |-> s.phase, l |-> s.l + 1, r |-> 1]
      BY <1>1, <1>4, <1>9
    <3>2. s.l = l /\ s.phase = "next"
      BY <1>4, <1>5
    <3>3. rs2 = rs
      BY <1>1, <1>9
    <3> QED BY <3>1, <3>2, <3>3
  <2>3. PICK Q : Q = NestedProgress(L, R, l + 1, 1)
    OBVIOUS
  <2>4. Q \in [DOMAIN L -> SUBSET DOMAIN R] /\ \A i \in DOMAIN L :
            Q[i] = {j \in Matches(L, R, i) : i < l + 1 \/ (i = l + 1 /\ j < 1)}
    BY <1>6, <2>1, <2>3
  <2>5. \A i \in DOMAIN L : P[i] = {j \in Matches(L, R, i) : i < l \/ (i = l /\ j < r)}
    BY <1>6, <2>1
  <2>6. \A i \in DOMAIN L : \A j \in Matches(L, R, i) :
            (i < l + 1 \/ (i = l + 1 /\ j < 1)) <=> (i < l \/ (i = l /\ j < r))
    BY <1>2, <1>3, <2>1 DEF Matches
  <2>7. \A i \in DOMAIN L : Q[i] = P[i]
    <3> HIDE DEF P
    <3> QED BY <2>4, <2>5, <2>6
  <2>8. Yields(rs2, FALSE, L, R, Q)
    BY <1>4, <2>2, <2>4, <2>7, YieldsSame
  <2> QED BY <1>1, <1>7, <2>1, <2>2, <2>3, <2>8
<1>10. CASE st.l > Len(left) /\ Finish
  <2>1. l = n + 1
    BY <1>1, <1>2, <1>4, <1>10
  <2>2. s2 = [phase |-> "done", l |-> l, r |-> r] /\ rs2 = rs
    BY <1>1, <1>4, <1>10 DEF Finish
  <2> QED BY <1>1, <1>4, <1>7, <2>1, <2>2
<1> QED BY <1>8, <1>9, <1>10 DEF NestedLoopNext

LEMMA NestedLoopResult ==
    ASSUME NEW L \in KeyedRows, NEW R \in KeyedRows, NEW s, NEW rs, NestedLoopOK(L, R, s, rs)
    PROVE  JoinResult(rs, L, R, s.phase = "done")
<1>1. PICK n \in Nat : n = Len(L) /\ DOMAIN L = 1..n
  BY KeyedRowsAre
<1>2. PICK m \in Nat : m = Len(R) /\ DOMAIN R = 1..m
  BY KeyedRowsAre
<1>3. PICK l \in 1..(n + 1), r \in 1..(m + 1) :
          /\ s.phase = "done" => l = n + 1
          /\ Yields(rs, FALSE, L, R, NestedProgress(L, R, l, r))
  BY <1>1, <1>2 DEF NestedLoopOK
<1>4. PICK P : P = NestedProgress(L, R, l, r)
  OBVIOUS
<1>5. \A i \in DOMAIN L : P[i] = {j \in Matches(L, R, i) : i < l \/ (i = l /\ j < r)}
  BY <1>4 DEF NestedProgress
<1>6. \A i \in DOMAIN L : P[i] \subseteq Matches(L, R, i)
  BY <1>5
<1>7. s.phase = "done" => \A i \in DOMAIN L : P[i] = Matches(L, R, i)
  <2> SUFFICES ASSUME s.phase = "done", NEW i \in DOMAIN L PROVE P[i] = Matches(L, R, i)
    OBVIOUS
  <2>1. i < l
    BY <1>1, <1>3
  <2> QED BY <1>5, <2>1
<1>8. PICK over \in BOOLEAN : over <=> s.phase = "done"
  OBVIOUS
<1>9. JoinResult(rs, L, R, over)
  BY <1>3, <1>4, <1>6, <1>7, <1>8, YieldsResult, ZenonT(60)
<1> QED BY <1>8, <1>9, Zenon DEF JoinResult

-----------------------------------------------------------------------------
(* Joins that look up the matches of one outer row after the other.        *)

(* The outer rows before are done; of the row at cur the inner rows in     *)
(* taken have been returned.                                               *)
Probed(O, I, before, cur, taken) ==
    [i \in DOMAIN O |-> IF i \in before THEN Matches(O, I, i) ELSE IF i = cur THEN taken ELSE {}]

(* The first places of an enumeration.                                     *)
Taken(at, pos) == {at[q] : q \in 1 .. pos - 1}

LEMMA TakenSteps ==
    ASSUME NEW k \in Nat, NEW at, NEW A, \A q \in 1..k : at[q] \in A,
           \A i \in A : \E q \in 1..k : at[q] = i,
           \A n, p \in 1..k : at[n] = at[p] => n = p
    PROVE  /\ Taken(at, 1) = {} /\ Taken(at, k + 1) = A
           /\ \A pos \in 1..k : /\ at[pos] \in A /\ at[pos] \notin Taken(at, pos)
                                /\ Taken(at, pos + 1) = Taken(at, pos) \cup {at[pos]}
           /\ \A pos \in 1..(k + 1) : Taken(at, pos) \subseteq A
<1>1. Taken(at, 1) = {}
  BY DEF Taken
<1>2. Taken(at, k + 1) = A
  BY DEF Taken
<1>3. ASSUME NEW pos \in 1..k
      PROVE  /\ at[pos] \in A /\ at[pos] \notin Taken(at, pos)
             /\ Taken(at, pos + 1) = Taken(at, pos) \cup {at[pos]}
  <2>1. at[pos] \in A
    BY <1>3
  <2>2. at[pos] \notin Taken(at, pos)
    BY <1>3 DEF Taken
  <2>3. 1..((pos + 1) - 1) = (1..(pos - 1)) \cup {pos}
    BY <1>3
  <2>4. Taken(at, pos + 1) = Taken(at, pos) \cup {at[pos]}
    BY <2>3 DEF Taken
  <2> QED BY <2>1, <2>2, <2>4
<1>4. \A pos \in 1..(k + 1) : Taken(at, pos) \subseteq A
  BY DEF Taken
<1> QED BY <1>1, <1>2, <1>3, <1>4

LEMMA ProbedType ==
    ASSUME NEW O, NEW I, NEW before, NEW cur, NEW taken, taken \subseteq DOMAIN I
    PROVE  /\ Probed(O, I, before, cur, taken) \in [DOMAIN O -> SUBSET DOMAIN I]
           /\ \A i \in DOMAIN O : Probed(O, I, before, cur, taken)[i] =
                  IF i \in before THEN Matches(O, I, i) ELSE IF i = cur THEN taken ELSE {}
BY DEF Probed, Matches

(* One more pair of the current outer row.                                 *)
LEMMA ProbeEmit ==
    ASSUME NEW O \in KeyedRows, NEW I \in KeyedRows, NEW swap \in BOOLEAN, NEW rs,
           NEW before, NEW cur \in DOMAIN O, cur \notin before,
           NEW taken, taken \subseteq DOMAIN I, NEW j \in DOMAIN I, j \notin taken,
           Yields(rs, swap, O, I, Probed(O, I, before, cur, taken))
    PROVE  Yields(Append(rs, Pair(swap, O[cur], I[j])), swap, O, I, Probed(O, I, before, cur, taken \cup {j}))
<1>1. PICK P, Q : P = Probed(O, I, before, cur, taken) /\ Q = Probed(O, I, before, cur, taken \cup {j})
  OBVIOUS
<1>2. taken \cup {j} \subseteq DOMAIN I
  OBVIOUS
<1>3. Q \in [DOMAIN O -> SUBSET DOMAIN I] /\ \A i \in DOMAIN O :
          Q[i] = IF i \in before THEN Matches(O, I, i) ELSE IF i = cur THEN taken \cup {j} ELSE {}
  BY <1>1, <1>2, ProbedType, ZenonT(60)
<1>4. \A i \in DOMAIN O : P[i] = IF i \in before THEN Matches(O, I, i) ELSE IF i = cur THEN taken ELSE {}
  BY <1>1, ProbedType, ZenonT(60)
<1>5. \A h \in DOMAIN O : Q[h] = IF h = cur THEN P[cur] \cup {j} ELSE P[h]
  BY <1>3, <1>4
<1>6. j \notin P[cur]
  BY <1>4
<1>7. Yields(rs, swap, O, I, P)
  BY <1>1
<1>8. Q \in [DOMAIN O -> SUBSET DOMAIN I]
  BY <1>3
<1>9. Yields(Append(rs, Pair(swap, O[cur], I[j])), swap, O, I, Q)
  BY <1>5, <1>6, <1>7, <1>8, EmitPair
<1> QED BY <1>1, <1>9

(* The current outer row is done, and another one is current.              *)
LEMMA ProbeAdvance ==
    ASSUME NEW O \in KeyedRows, NEW I \in KeyedRows, NEW swap, NEW rs,
           NEW before, NEW cur, NEW taken, taken \subseteq DOMAIN I,
           cur \in DOMAIN O => taken = Matches(O, I, cur),
           NEW after, NEW next, next \notin after,
           \A i \in DOMAIN O : i \in after <=> (i \in before \/ i = cur),
           Yields(rs, swap, O, I, Probed(O, I, before, cur, taken))
    PROVE  Yields(rs, swap, O, I, Probed(O, I, after, next, {}))
<1>1. PICK P, Q : P = Probed(O, I, before, cur, taken) /\ Q = Probed(O, I, after, next, {})
  OBVIOUS
<1>2. {} \subseteq DOMAIN I
  OBVIOUS
<1>3. Q \in [DOMAIN O -> SUBSET DOMAIN I] /\ \A i \in DOMAIN O :
          Q[i] = IF i \in after THEN Matches(O, I, i) ELSE IF i = next THEN {} ELSE {}
  BY <1>1, <1>2, ProbedType, ZenonT(60)
<1>4. \A i \in DOMAIN O : P[i] = IF i \in before THEN Matches(O, I, i) ELSE IF i = cur THEN taken ELSE {}
  BY <1>1, ProbedType, ZenonT(60)
<1>5. \A i \in DOMAIN O : Q[i] = P[i]
  BY <1>3, <1>4
<1>6. Yields(rs, swap, O, I, P)
  BY <1>1
<1>7. Yields(rs, swap, O, I, Q)
  BY <1>3, <1>5, <1>6, YieldsSame, Zenon
<1> QED BY <1>1, <1>7

LEMMA ProbeResult ==
    ASSUME NEW O \in KeyedRows, NEW I \in KeyedRows, NEW swap \in BOOLEAN, NEW rs,
           NEW before, NEW cur, NEW taken, taken \subseteq DOMAIN I,
           cur \in DOMAIN O => taken \subseteq Matches(O, I, cur),
           Yields(rs, swap, O, I, Probed(O, I, before, cur, taken)),
           NEW over \in BOOLEAN,
           over => /\ \A i \in DOMAIN O : i \in before \/ i = cur
                   /\ cur \in DOMAIN O => taken = Matches(O, I, cur),
           NEW l, NEW r, l = IF swap THEN I ELSE O, r = IF swap THEN O ELSE I
    PROVE  JoinResult(rs, l, r, over)
<1>1. PICK P : P = Probed(O, I, before, cur, taken)
  OBVIOUS
<1>2. \A i \in DOMAIN O : P[i] = IF i \in before THEN Matches(O, I, i) ELSE IF i = cur THEN taken ELSE {}
  BY <1>1, ProbedType, ZenonT(60)
<1>3. \A i \in DOMAIN O : P[i] \subseteq Matches(O, I, i)
  BY <1>2
<1>4. over => \A i \in DOMAIN O : P[i] = Matches(O, I, i)
  BY <1>2
<1>5. Yields(rs, swap, O, I, P)
  BY <1>1
<1> QED BY <1>3, <1>4, <1>5, YieldsResult, Zenon

-----------------------------------------------------------------------------
(* The index nested loop join, with and without its cache.                 *)

(* What the cache holds under a key is what the index holds.               *)
CacheOK(R, c) == \A key \in Key : Serialize(key) \in DOMAIN c => c[Serialize(key)] = Matching(R, key)

FoundFor(L, R, l) == IF l = 0 THEN <<>> ELSE Matching(R, L[l].key)

IndexLoopOK(L, R, s, rs) ==
    /\ s.phase \in {"next", "done"}
    /\ \E l \in 0 .. Len(L), pos \in Nat \ {0} :
        /\ s = [phase |-> s.phase, l |-> l, matches |-> FoundFor(L, R, l), pos |-> pos, cache |-> s.cache]
        /\ pos <= Len(FoundFor(L, R, l)) + 1
        /\ s.phase = "done" => l = Len(L) /\ pos = Len(FoundFor(L, R, l)) + 1
        /\ CacheOK(R, s.cache)
        /\ Yields(rs, FALSE, L, R, Probed(L, R, 1 .. l - 1, l, Taken(PlaceOf(Matches(L, R, l)), pos)))

(* The rows found are the inner rows at the places A, in the order of at.  *)
Enumerates(found, at, I, A, k) ==
    /\ k = Len(found) /\ DOMAIN found = 1..k
    /\ \A q \in 1..k : at[q] \in A /\ found[q] = I[at[q]]
    /\ Taken(at, 1) = {} /\ Taken(at, k + 1) = A
    /\ \A q \in 1..k : at[q] \notin Taken(at, q) /\ Taken(at, q + 1) = Taken(at, q) \cup {at[q]}
    /\ \A q \in 1..(k + 1) : Taken(at, q) \subseteq A

(* The rows of the inner input with the key of the outer row at l.         *)
LEMMA MatchingIs ==
    ASSUME NEW O, NEW I \in KeyedRows, NEW i \in DOMAIN O
    PROVE  \E k \in Nat : Enumerates(Matching(I, O[i].key), PlaceOf(Matches(O, I, i)), I, Matches(O, I, i), k)
<1>1. PICK m \in Nat : DOMAIN I = 1..m
  BY KeyedRowsAre
<1>2. PICK A : A = Matches(O, I, i)
  OBVIOUS
<1>3. A \subseteq 1..m /\ A = {j \in DOMAIN I : I[j].key = O[i].key}
  BY <1>1, <1>2 DEF Matches
<1>4. PICK found, at : found = Matching(I, O[i].key) /\ at = PlaceOf(A)
  OBVIOUS
<1>5. found = RowsAt(I, A)
  BY <1>3, <1>4 DEF Matching
<1>6. PICK k \in Nat : Lists(found, at, I, A, k)
  BY <1>1, <1>3, <1>4, <1>5, RowsAtAre
<1>7. /\ k = Len(found) /\ DOMAIN found = 1..k
      /\ \A n \in 1..k : at[n] \in A /\ found[n] = I[at[n]]
      /\ \A j \in A : \E n \in 1..k : at[n] = j
      /\ \A n, p \in 1..k : at[n] = at[p] => n = p
  BY <1>6, Zenon DEF Lists
<1>8. /\ Taken(at, 1) = {} /\ Taken(at, k + 1) = A
      /\ \A pos \in 1..k : /\ at[pos] \in A /\ at[pos] \notin Taken(at, pos)
                           /\ Taken(at, pos + 1) = Taken(at, pos) \cup {at[pos]}
      /\ \A pos \in 1..(k + 1) : Taken(at, pos) \subseteq A
  BY <1>7, TakenSteps
<1>9. Enumerates(found, at, I, A, k)
  BY <1>7, <1>8, Zenon DEF Enumerates
<1> QED BY <1>2, <1>4, <1>9

LEMMA IndexLoopStep ==
    ASSUME left \in KeyedRows, right \in KeyedRows, IndexLoopOK(left, right, st, out), IndexLoopNext
    PROVE  IndexLoopOK(left, right, st', out')
<1>1. PICK L, R, s, rs, s2, rs2 :
          /\ L = left /\ R = right /\ s = st /\ rs = out /\ s2 = st' /\ rs2 = out'
  OBVIOUS
<1>2. PICK n \in Nat : n = Len(L) /\ DOMAIN L = 1..n /\ \A i \in 1..n : L[i].key \in Key
  BY <1>1, KeyedRowsAre
<1>3. L \in KeyedRows /\ R \in KeyedRows /\ FALSE \in BOOLEAN
  BY <1>1
<1>c. PICK c : c = s.cache
  OBVIOUS
<1>4. PICK l \in 0..n, pos \in Nat \ {0} :
        /\ s = [phase |-> s.phase, l |-> l, matches |-> FoundFor(L, R, l), pos |-> pos, cache |-> c]
        /\ pos <= Len(FoundFor(L, R, l)) + 1
        /\ CacheOK(R, c)
        /\ Yields(rs, FALSE, L, R, Probed(L, R, 1 .. l - 1, l, Taken(PlaceOf(Matches(L, R, l)), pos)))
  BY <1>1, <1>2, <1>c DEF IndexLoopOK
<1>5. s.phase = "next"
  BY <1>1 DEF IndexLoopOK, IndexLoopNext, Done
<1>6. PICK found, at : found = FoundFor(L, R, l) /\ at = PlaceOf(Matches(L, R, l))
  OBVIOUS
<1>7. PICK k \in Nat :
          /\ k = Len(found) /\ (l = 0 => k = 0) /\ Taken(at, 1) = {}
          /\ l # 0 => Enumerates(found, at, R, Matches(L, R, l), k)
  <2>1. CASE l = 0
    <3>1. Len(found) = 0
      BY <1>6, <2>1 DEF FoundFor
    <3>2. Taken(at, 1) = {}
      BY DEF Taken
    <3> QED BY <2>1, <3>1, <3>2
  <2>2. CASE l # 0
    <3>1. l \in DOMAIN L
      BY <1>2, <2>2
    <3>2. found = Matching(R, L[l].key)
      BY <1>6, <2>2 DEF FoundFor
    <3>3. PICK k \in Nat : Enumerates(found, at, R, Matches(L, R, l), k)
      BY <1>3, <1>6, <3>1, <3>2, MatchingIs
    <3>4. k = Len(found) /\ Taken(at, 1) = {}
      BY <3>3 DEF Enumerates
    <3> QED BY <2>2, <3>3, <3>4
  <2> QED BY <2>1, <2>2
<1>8. pos \in 1..(k + 1)
  BY <1>4, <1>6, <1>7
<1>9. \A i : Matches(L, R, i) \subseteq DOMAIN R
  BY DEF Matches
<1>10. Yields(rs, FALSE, L, R, Probed(L, R, 1 .. l - 1, l, Taken(at, pos)))
  BY <1>4, <1>6
<1>11. s.l = l /\ s.matches = found /\ s.pos = pos /\ s.cache = c
  BY <1>4, <1>6
<1>12. ASSUME NEW s3, NEW rs3, NEW a \in 0..n, NEW b \in Nat \ {0}, NEW c3, NEW p \in {"next", "done"},
             s3 = [phase |-> p, l |-> a, matches |-> FoundFor(L, R, a), pos |-> b, cache |-> c3],
             b <= Len(FoundFor(L, R, a)) + 1,
             p = "done" => a = n /\ b = Len(FoundFor(L, R, a)) + 1, CacheOK(R, c3),
             Yields(rs3, FALSE, L, R, Probed(L, R, 1 .. a - 1, a, Taken(PlaceOf(Matches(L, R, a)), b)))
      PROVE  IndexLoopOK(L, R, s3, rs3)
  <2>1. s3.phase = p /\ a \in 0..Len(L)
    BY <1>2, <1>12
  <2> QED BY <1>2, <1>12, <2>1 DEF IndexLoopOK
<1>13. CASE st.pos <= Len(st.matches) /\ st' = [st EXCEPT !.pos = @ + 1] /\ Emit(<<left[st.l], st.matches[st.pos]>>)
  <2>1. pos \in 1..k /\ l # 0
    BY <1>1, <1>7, <1>8, <1>11, <1>13
  <2>2. l \in DOMAIN L /\ l \notin 1..(l - 1)
    BY <1>2, <2>1
  <2>3. s2 = [phase |-> "next", l |-> l, matches |-> found, pos |-> pos + 1, cache |-> c]
    BY <1>1, <1>4, <1>5, <1>6, <1>13
  <2>4. rs2 = Append(rs, Pair(FALSE, L[l], R[at[pos]]))
    <3>1. rs2 = Append(rs, <<L[l], found[pos]>>)
      BY <1>1, <1>11, <1>13 DEF Emit
    <3>2. found[pos] = R[at[pos]]
      BY <1>7, <2>1 DEF Enumerates
    <3> QED BY <3>1, <3>2 DEF Pair
  <2>5. /\ Taken(at, pos) \subseteq DOMAIN R /\ at[pos] \in DOMAIN R /\ at[pos] \notin Taken(at, pos)
        /\ Taken(at, pos + 1) = Taken(at, pos) \cup {at[pos]}
    BY <1>7, <1>8, <1>9, <2>1 DEF Enumerates
  <2>6. Yields(rs2, FALSE, L, R, Probed(L, R, 1..(l - 1), l, Taken(at, pos) \cup {at[pos]}))
    BY <1>3, <1>10, <2>2, <2>4, <2>5, ProbeEmit, Zenon
  <2>7. Yields(rs2, FALSE, L, R, Probed(L, R, 1..(l - 1), l, Taken(PlaceOf(Matches(L, R, l)), pos + 1)))
    BY <1>6, <2>5, <2>6, Zenon
  <2>8. pos + 1 \in Nat \ {0} /\ pos + 1 <= Len(FoundFor(L, R, l)) + 1
    BY <1>6, <1>7, <2>1
  <2>9. IndexLoopOK(L, R, s2, rs2)
    BY <1>4, <1>6, <1>12, <2>3, <2>7, <2>8
  <2> QED BY <1>1, <2>9
<1>14. CASE st.pos > Len(st.matches) /\ st.l < Len(left) /\ UNCHANGED out
           /\ LET key == left[st.l + 1].key IN
             st' = [st EXCEPT !.l = @ + 1, !.pos = 1, !.matches = Lookup(key),
                              !.cache = IF op = "memoLoop" THEN Remember(key, Lookup(key)) ELSE @]
  <2>1. pos = k + 1 /\ l + 1 \in 1..n /\ l + 1 \in 0..n
    BY <1>1, <1>2, <1>7, <1>8, <1>11, <1>14
  <2>2. PICK key \in Key : key = L[l + 1].key
    BY <1>2, <2>1
  <2>3. Lookup(key) = Matching(R, key)
    BY <1>1, <1>4, <1>11 DEF Lookup, CacheOK
  <2>4. PICK c3 : c3 = IF op = "memoLoop" THEN Remember(key, Lookup(key)) ELSE c
    OBVIOUS
  <2>5. s2 = [phase |-> "next", l |-> l + 1, matches |-> FoundFor(L, R, l + 1), pos |-> 1, cache |-> c3]
    <3>1. key = left[st.l + 1].key
      BY <1>1, <1>11, <2>2
    <3>2. s2 = [s EXCEPT !.l = l + 1, !.pos = 1, !.matches = Lookup(key), !.cache = c3]
      BY <1>1, <1>11, <1>14, <2>4, <3>1
    <3>3. s2 = [phase |-> s.phase, l |-> l + 1, matches |-> Lookup(key), pos |-> 1, cache |-> c3]
      BY <1>4, <3>2
    <3>4. Lookup(key) = FoundFor(L, R, l + 1)
      BY <1>4, <2>1, <2>2, <2>3 DEF FoundFor
    <3> QED BY <1>5, <3>3, <3>4
  <2>6. CacheOK(R, c3)
    <3>1. CASE op = "memoLoop"
      <4>1. c3 = [x \in DOMAIN c \cup {Serialize(key)} |-> IF x = Serialize(key) THEN Matching(R, key) ELSE c[x]]
        BY <1>1, <1>11, <2>3, <2>4, <3>1 DEF Remember
      <4>2. \A x \in Key : Serialize(x) = Serialize(key) => x = key
        BY SerializeAssumption
      <4> QED BY <1>4, <4>1, <4>2 DEF CacheOK
    <3>2. CASE op # "memoLoop"
      BY <1>4, <2>4, <3>2
    <3> QED BY <3>1, <3>2
  <2>7. Taken(PlaceOf(Matches(L, R, l + 1)), 1) = {}
    BY DEF Taken
  <2>8. Taken(at, pos) \subseteq DOMAIN R
    <3>1. CASE l = 0
      BY <1>7, <2>1, <3>1
    <3>2. CASE l # 0
      BY <1>7, <1>8, <1>9, <3>2 DEF Enumerates
    <3> QED BY <3>1, <3>2
  <2>9. l \in DOMAIN L => Taken(at, pos) = Matches(L, R, l)
    BY <1>2, <1>7, <2>1 DEF Enumerates
  <2>10. \A i \in DOMAIN L : i \in 1..((l + 1) - 1) <=> (i \in 1..(l - 1) \/ i = l)
    BY <1>2, <1>4
  <2>11. (l + 1) \notin 1..((l + 1) - 1)
    BY <1>4
  <2>12. Yields(rs, FALSE, L, R, Probed(L, R, 1..((l + 1) - 1), l + 1, {}))
    BY <1>3, <1>10, <2>8, <2>9, <2>10, <2>11, ProbeAdvance, Zenon
  <2>13. rs2 = rs
    BY <1>1, <1>14
  <2>14. Yields(rs2, FALSE, L, R, Probed(L, R, 1..((l + 1) - 1), l + 1, Taken(PlaceOf(Matches(L, R, l + 1)), 1)))
    BY <2>7, <2>12, <2>13, Zenon
  <2>15. 1 \in Nat \ {0} /\ 1 <= Len(FoundFor(L, R, l + 1)) + 1
    <3>1. l + 1 \in DOMAIN L /\ FoundFor(L, R, l + 1) = Matching(R, L[l + 1].key)
      BY <1>2, <1>4, <2>1 DEF FoundFor
    <3>2. PICK g \in Nat : Enumerates(Matching(R, L[l + 1].key), PlaceOf(Matches(L, R, l + 1)), R,
                                      Matches(L, R, l + 1), g)
      BY <1>3, <3>1, MatchingIs, Zenon
    <3>3. g = Len(Matching(R, L[l + 1].key))
      BY <3>2 DEF Enumerates
    <3> QED BY <3>1, <3>3
  <2>16. IndexLoopOK(L, R, s2, rs2)
    BY <1>12, <2>1, <2>5, <2>6, <2>14, <2>15
  <2> QED BY <1>1, <2>16
<1>15. CASE st.pos > Len(st.matches) /\ st.l = Len(left) /\ Finish
  <2>1. pos = k + 1 /\ l = n
    BY <1>1, <1>2, <1>7, <1>8, <1>11, <1>15
  <2>2. s2 = [phase |-> "done", l |-> l, matches |-> FoundFor(L, R, l), pos |-> pos, cache |-> c] /\ rs2 = rs
    BY <1>1, <1>4, <1>15 DEF Finish
  <2>3. pos = Len(FoundFor(L, R, l)) + 1
    BY <1>6, <1>7, <2>1
  <2>4. IndexLoopOK(L, R, s2, rs2)
    BY <1>4, <1>12, <2>1, <2>2, <2>3
  <2> QED BY <1>1, <2>4
<1> QED BY <1>13, <1>14, <1>15 DEF IndexLoopNext

LEMMA IndexLoopResult ==
    ASSUME NEW L \in KeyedRows, NEW R \in KeyedRows, NEW s, NEW rs, IndexLoopOK(L, R, s, rs)
    PROVE  JoinResult(rs, L, R, s.phase = "done")
<1>1. PICK n \in Nat : n = Len(L) /\ DOMAIN L = 1..n
  BY KeyedRowsAre
<1>2. PICK l \in 0..n, pos \in Nat \ {0} :
        /\ pos <= Len(FoundFor(L, R, l)) + 1
        /\ s.phase = "done" => l = n /\ pos = Len(FoundFor(L, R, l)) + 1
        /\ Yields(rs, FALSE, L, R, Probed(L, R, 1 .. l - 1, l, Taken(PlaceOf(Matches(L, R, l)), pos)))
  BY <1>1 DEF IndexLoopOK
<1>3. PICK taken : taken = Taken(PlaceOf(Matches(L, R, l)), pos)
  OBVIOUS
<1>4. /\ taken \subseteq DOMAIN R
      /\ l \in DOMAIN L => /\ taken \subseteq Matches(L, R, l)
                           /\ s.phase = "done" => taken = Matches(L, R, l)
  <2>1. CASE l = 0
    <3>1. Len(FoundFor(L, R, l)) = 0
      BY <2>1 DEF FoundFor
    <3>2. taken = {}
      BY <1>2, <1>3, <3>1 DEF Taken
    <3> QED BY <1>1, <2>1, <3>2
  <2>2. CASE l # 0
    <3>1. l \in DOMAIN L /\ FoundFor(L, R, l) = Matching(R, L[l].key)
      BY <1>1, <2>2 DEF FoundFor
    <3>2. PICK k \in Nat :
              /\ k = Len(Matching(R, L[l].key))
              /\ Taken(PlaceOf(Matches(L, R, l)), k + 1) = Matches(L, R, l)
              /\ \A q \in 1..(k + 1) : Taken(PlaceOf(Matches(L, R, l)), q) \subseteq Matches(L, R, l)
      <4>1. PICK k \in Nat : Enumerates(Matching(R, L[l].key), PlaceOf(Matches(L, R, l)), R, Matches(L, R, l), k)
        BY <3>1, MatchingIs, Zenon
      <4> QED BY <4>1, Zenon DEF Enumerates
    <3>3. pos \in 1..(k + 1) /\ (s.phase = "done" => pos = k + 1)
      BY <1>2, <3>1, <3>2
    <3>4. Matches(L, R, l) \subseteq DOMAIN R
      BY DEF Matches
    <3>5. taken \subseteq Matches(L, R, l)
      BY <1>3, <3>2, <3>3
    <3>6. s.phase = "done" => taken = Matches(L, R, l)
      BY <1>3, <3>2, <3>3
    <3> QED BY <3>4, <3>5, <3>6
  <2> QED BY <2>1, <2>2
<1>5. s.phase = "done" => \A i \in DOMAIN L : i \in 1..(l - 1) \/ i = l
  BY <1>1, <1>2
<1>6. PICK over \in BOOLEAN : over <=> s.phase = "done"
  OBVIOUS
<1>7. Yields(rs, FALSE, L, R, Probed(L, R, 1 .. l - 1, l, taken)) /\ FALSE \in BOOLEAN
  BY <1>2, <1>3
<1>8. over => /\ \A i \in DOMAIN L : i \in 1..(l - 1) \/ i = l
              /\ l \in DOMAIN L => taken = Matches(L, R, l)
  BY <1>4, <1>5, <1>6, Zenon
<1>9. L = (IF FALSE THEN R ELSE L) /\ R = (IF FALSE THEN L ELSE R)
  OBVIOUS
<1>10. JoinResult(rs, L, R, over)
  BY <1>4, <1>7, <1>8, <1>9, ProbeResult, Zenon
<1> QED BY <1>6, <1>10, Zenon DEF JoinResult

-----------------------------------------------------------------------------
(* The hash join.                                                          *)

(* The lookups of an outer row after the other: none is current when cur   *)
(* is 0, and otherwise m holds the matches of the current one.             *)
ProbingOK(O, I, swap, rs, before, cur, m, pos) ==
    \E k \in Nat :
        /\ k = Len(m) /\ pos \in 1..(k + 1)
        /\ \/ /\ cur = 0 /\ k = 0
              /\ Yields(rs, swap, O, I, Probed(O, I, before, 0, {}))
           \/ /\ cur \in DOMAIN O /\ cur \notin before
              /\ \E at : /\ Enumerates(m, at, I, Matches(O, I, cur), k)
                         /\ Yields(rs, swap, O, I, Probed(O, I, before, cur, Taken(at, pos)))

LEMMA ProbingEmit ==
    ASSUME NEW O \in KeyedRows, NEW I \in KeyedRows, NEW swap \in BOOLEAN, NEW rs,
           NEW before, NEW cur, NEW m, NEW pos, pos <= Len(m),
           ProbingOK(O, I, swap, rs, before, cur, m, pos)
    PROVE  ProbingOK(O, I, swap, Append(rs, Pair(swap, O[cur], m[pos])), before, cur, m, pos + 1)
<1>1. PICK k \in Nat :
        /\ k = Len(m) /\ pos \in 1..(k + 1)
        /\ \/ k = 0
           \/ /\ cur \in DOMAIN O /\ cur \notin before
              /\ \E at : /\ Enumerates(m, at, I, Matches(O, I, cur), k)
                         /\ Yields(rs, swap, O, I, Probed(O, I, before, cur, Taken(at, pos)))
  BY DEF ProbingOK
<1>2. pos \in 1..k /\ pos + 1 \in 1..(k + 1) /\ k # 0
  BY <1>1
<1>3. cur \in DOMAIN O /\ cur \notin before
  BY <1>1, <1>2
<1>4. PICK at : /\ Enumerates(m, at, I, Matches(O, I, cur), k)
                /\ Yields(rs, swap, O, I, Probed(O, I, before, cur, Taken(at, pos)))
  BY <1>1, <1>2
<1>5. /\ at[pos] \in DOMAIN I /\ m[pos] = I[at[pos]] /\ at[pos] \notin Taken(at, pos)
      /\ Taken(at, pos) \subseteq DOMAIN I /\ Taken(at, pos + 1) = Taken(at, pos) \cup {at[pos]}
  BY <1>1, <1>2, <1>4 DEF Enumerates, Matches
<1>6. Yields(Append(rs, Pair(swap, O[cur], I[at[pos]])), swap, O, I,
             Probed(O, I, before, cur, Taken(at, pos) \cup {at[pos]}))
  BY <1>3, <1>4, <1>5, ProbeEmit
<1>7. Yields(Append(rs, Pair(swap, O[cur], m[pos])), swap, O, I, Probed(O, I, before, cur, Taken(at, pos + 1)))
  BY <1>5, <1>6
<1> QED BY <1>1, <1>2, <1>3, <1>4, <1>7 DEF ProbingOK

(* The current row is done, and the progress with none current.            *)
LEMMA ProbingDone ==
    ASSUME NEW O \in KeyedRows, NEW I \in KeyedRows, NEW swap \in BOOLEAN, NEW rs,
           NEW before, NEW cur, NEW m, NEW pos, pos > Len(m),
           ProbingOK(O, I, swap, rs, before, cur, m, pos),
           NEW after, \A i \in DOMAIN O : i \in after <=> (i \in before \/ i = cur),
           NEW next, next \notin after
    PROVE  Yields(rs, swap, O, I, Probed(O, I, after, next, {}))
<1>1. PICK k \in Nat :
        /\ k = Len(m) /\ pos \in 1..(k + 1)
        /\ \/ cur = 0 /\ Yields(rs, swap, O, I, Probed(O, I, before, 0, {}))
           \/ /\ cur \in DOMAIN O /\ cur \notin before
              /\ \E at : /\ Enumerates(m, at, I, Matches(O, I, cur), k)
                         /\ Yields(rs, swap, O, I, Probed(O, I, before, cur, Taken(at, pos)))
  BY DEF ProbingOK
<1>2. pos = k + 1
  BY <1>1
<1>3. 0 \notin DOMAIN O
  BY KeyedRowsAre
<1>4. CASE cur = 0 /\ Yields(rs, swap, O, I, Probed(O, I, before, 0, {}))
  <2>1. {} \subseteq DOMAIN I
    OBVIOUS
  <2> QED BY <1>3, <1>4, <2>1, ProbeAdvance, Zenon
<1>5. CASE cur \in DOMAIN O
  <2>1. PICK at : /\ Enumerates(m, at, I, Matches(O, I, cur), k)
                  /\ Yields(rs, swap, O, I, Probed(O, I, before, cur, Taken(at, pos)))
    BY <1>1, <1>3, <1>5
  <2>2. Taken(at, pos) = Matches(O, I, cur) /\ Taken(at, pos) \subseteq DOMAIN I
    BY <1>2, <2>1 DEF Enumerates, Matches
  <2> QED BY <2>1, <2>2, ProbeAdvance, Zenon
<1> QED BY <1>1, <1>4, <1>5

(* Another row is current, with its matches found.                         *)
LEMMA ProbingNext ==
    ASSUME NEW O \in KeyedRows, NEW I, NEW swap, NEW rs, NEW after, NEW next \in DOMAIN O, next \notin after,
           Yields(rs, swap, O, I, Probed(O, I, after, next, {})),
           NEW m, NEW at, NEW k \in Nat, Enumerates(m, at, I, Matches(O, I, next), k)
    PROVE  ProbingOK(O, I, swap, rs, after, next, m, 1)
<1>1. Taken(at, 1) = {} /\ k = Len(m) /\ 1 \in 1..(k + 1)
  BY DEF Enumerates
<1>2. Yields(rs, swap, O, I, Probed(O, I, after, next, Taken(at, 1)))
  BY <1>1
<1> QED BY <1>1, <1>2 DEF ProbingOK

LEMMA ProbingResult ==
    ASSUME NEW O \in KeyedRows, NEW I \in KeyedRows, NEW swap \in BOOLEAN, NEW rs,
           NEW before, NEW cur, NEW m, NEW pos,
           ProbingOK(O, I, swap, rs, before, cur, m, pos), NEW over \in BOOLEAN,
           over => pos > Len(m) /\ \A i \in DOMAIN O : i \in before \/ i = cur,
           NEW l, NEW r, l = IF swap THEN I ELSE O, r = IF swap THEN O ELSE I
    PROVE  JoinResult(rs, l, r, over)
<1>1. PICK k \in Nat :
        /\ k = Len(m) /\ pos \in 1..(k + 1)
        /\ \/ cur = 0 /\ Yields(rs, swap, O, I, Probed(O, I, before, 0, {}))
           \/ /\ cur \in DOMAIN O /\ cur \notin before
              /\ \E at : /\ Enumerates(m, at, I, Matches(O, I, cur), k)
                         /\ Yields(rs, swap, O, I, Probed(O, I, before, cur, Taken(at, pos)))
  BY DEF ProbingOK
<1>2. 0 \notin DOMAIN O
  BY KeyedRowsAre
<1>3. CASE cur = 0 /\ Yields(rs, swap, O, I, Probed(O, I, before, 0, {}))
  <2>1. {} \subseteq DOMAIN I
    OBVIOUS
  <2>2. over => /\ \A i \in DOMAIN O : i \in before \/ i = 0
                /\ 0 \in DOMAIN O => {} = Matches(O, I, 0)
    BY <1>2, <1>3
  <2>3. 0 \in DOMAIN O => {} \subseteq Matches(O, I, 0)
    BY <1>2
  <2>4. PICK none : none = {}
    OBVIOUS
  <2>5. /\ none \subseteq DOMAIN I /\ (cur \in DOMAIN O => none \subseteq Matches(O, I, cur))
        /\ over => /\ \A i \in DOMAIN O : i \in before \/ i = cur
                   /\ cur \in DOMAIN O => none = Matches(O, I, cur)
    BY <1>3, <2>1, <2>2, <2>3, <2>4
  <2>6. Yields(rs, swap, O, I, Probed(O, I, before, cur, none))
    BY <1>3, <2>4
  <2> QED BY <2>5, <2>6, ProbeResult
<1>4. CASE cur \in DOMAIN O
  <2>1. PICK at : /\ Enumerates(m, at, I, Matches(O, I, cur), k)
                  /\ Yields(rs, swap, O, I, Probed(O, I, before, cur, Taken(at, pos)))
    BY <1>1, <1>2, <1>4
  <2>2. Taken(at, pos) \subseteq Matches(O, I, cur) /\ Taken(at, pos) \subseteq DOMAIN I
    BY <1>1, <2>1 DEF Enumerates, Matches
  <2>3. over => Taken(at, pos) = Matches(O, I, cur)
    <3>1. over => pos = k + 1
      BY <1>1
    <3> QED BY <2>1, <3>1 DEF Enumerates
  <2>4. over => /\ \A i \in DOMAIN O : i \in before \/ i = cur
                /\ cur \in DOMAIN O => Taken(at, pos) = Matches(O, I, cur)
    BY <2>3
  <2> QED BY <2>1, <2>2, <2>4, ProbeResult
<1> QED BY <1>1, <1>3, <1>4

(* The batch of a row, and the places of the rows of a batch.              *)
BatchOf(rows, n, i) == HashKey(Serialize(rows[i].key)) % n
BatchPlaces(rows, n, b) == {i \in DOMAIN rows : BatchOf(rows, n, i) = b}

LEMMA BatchOfType ==
    ASSUME NEW rows \in KeyedRows, NEW n \in Nat \ {0}, NEW i \in DOMAIN rows
    PROVE  BatchOf(rows, n, i) \in 0..(n - 1)
<1>1. rows[i].key \in Key
  BY KeyedRowsAre
<1>2. PICK h \in Nat : h = HashKey(Serialize(rows[i].key))
  BY <1>1, SerializeAssumption
<1>3. h % n \in 0..(n - 1)
  OBVIOUS
<1> QED BY <1>2, <1>3 DEF BatchOf

(* The rows of a batch.                                                    *)
LEMMA InBatchAre ==
    ASSUME NEW rows, NEW m \in Nat, DOMAIN rows = 1..m, NEW n, NEW b
    PROVE  \E k \in Nat : Lists(InBatch(rows, n, b), PlaceOf(BatchPlaces(rows, n, b)), rows, BatchPlaces(rows, n, b), k)
<1>1. PICK A : A = BatchPlaces(rows, n, b)
  OBVIOUS
<1>2. A \subseteq 1..m
  BY <1>1 DEF BatchPlaces
<1>3. InBatch(rows, n, b) = RowsAt(rows, A)
  BY <1>1 DEF InBatch, BatchPlaces, BatchOf
<1> QED BY <1>1, <1>2, <1>3, RowsAtAre

(* All the matches of a row are in its own batch.                          *)
LEMMA BatchMatchingIs ==
    ASSUME NEW O, NEW I, NEW m \in Nat, DOMAIN I = 1..m, NEW n, NEW b, NEW i \in DOMAIN O, BatchOf(O, n, i) = b
    PROVE  \E k \in Nat : \E at :
               Enumerates(Matching(InBatch(I, n, b), O[i].key), at, I, Matches(O, I, i), k)
<1>1. PICK A, a1, build : A = BatchPlaces(I, n, b) /\ a1 = PlaceOf(A) /\ build = InBatch(I, n, b)
  OBVIOUS
<1>2. PICK k1 \in Nat : Lists(build, a1, I, A, k1)
  BY <1>1, InBatchAre
<1>3. PICK B, a2, found :
          /\ B = {x \in DOMAIN build : build[x].key = O[i].key}
          /\ a2 = PlaceOf(B) /\ found = Matching(build, O[i].key)
  OBVIOUS
<1>4. DOMAIN build = 1..k1 /\ B \subseteq 1..k1
  BY <1>2, <1>3 DEF Lists
<1>5. found = RowsAt(build, B)
  BY <1>3 DEF Matching
<1>6. PICK k2 \in Nat : Lists(found, a2, build, B, k2)
  BY <1>3, <1>4, <1>5, RowsAtAre, ZenonT(60)
<1>7. PICK at : at = [q \in 1..k2 |-> a1[a2[q]]]
  OBVIOUS
<1>8. /\ \A x \in 1..k1 : a1[x] \in A /\ build[x] = I[a1[x]]
      /\ \A j \in A : \E x \in 1..k1 : a1[x] = j
      /\ \A x, y \in 1..k1 : a1[x] = a1[y] => x = y
  BY <1>2, Zenon DEF Lists
<1>9. /\ k2 = Len(found) /\ DOMAIN found = 1..k2
      /\ \A q \in 1..k2 : a2[q] \in B /\ found[q] = build[a2[q]]
      /\ \A x \in B : \E q \in 1..k2 : a2[q] = x
      /\ \A q, p \in 1..k2 : a2[q] = a2[p] => q = p
  BY <1>6, Zenon DEF Lists
<1>10. PICK M : M = Matches(O, I, i)
  OBVIOUS
<1>11. ASSUME NEW q \in 1..k2 PROVE at[q] \in M /\ found[q] = I[at[q]]
  <2>1. a2[q] \in 1..k1 /\ build[a2[q]].key = O[i].key
    BY <1>3, <1>4, <1>9
  <2>2. at[q] = a1[a2[q]] /\ at[q] \in DOMAIN I /\ build[a2[q]] = I[at[q]]
    BY <1>1, <1>7, <1>8, <2>1 DEF BatchPlaces
  <2> QED BY <1>9, <1>10, <2>1, <2>2 DEF Matches
<1>12. ASSUME NEW j \in M PROVE \E q \in 1..k2 : at[q] = j
  <2>1. j \in DOMAIN I /\ I[j].key = O[i].key
    BY <1>10, <1>12 DEF Matches
  <2>2. j \in A
    BY <1>1, <2>1 DEF BatchPlaces, BatchOf
  <2>3. PICK x \in 1..k1 : a1[x] = j
    BY <1>8, <2>2
  <2>4. x \in B
    BY <1>3, <1>4, <1>8, <2>1, <2>3
  <2>5. PICK q \in 1..k2 : a2[q] = x
    BY <1>9, <2>4
  <2> QED BY <1>7, <2>3, <2>5
<1>13. \A q, p \in 1..k2 : at[q] = at[p] => q = p
  <2>1. \A q \in 1..k2 : a2[q] \in 1..k1 /\ at[q] = a1[a2[q]]
    BY <1>4, <1>7, <1>9
  <2>2. ASSUME NEW q \in 1..k2, NEW p \in 1..k2, at[q] = at[p] PROVE q = p
    <3>1. a2[q] = a2[p]
      BY <1>8, <2>1, <2>2
    <3> QED BY <1>9, <3>1
  <2> QED BY <2>2
<1>14. /\ Taken(at, 1) = {} /\ Taken(at, k2 + 1) = M
       /\ \A pos \in 1..k2 : /\ at[pos] \in M /\ at[pos] \notin Taken(at, pos)
                             /\ Taken(at, pos + 1) = Taken(at, pos) \cup {at[pos]}
       /\ \A pos \in 1..(k2 + 1) : Taken(at, pos) \subseteq M
  BY <1>11, <1>12, <1>13, TakenSteps
<1>15. Enumerates(found, at, I, M, k2)
  BY <1>9, <1>11, <1>14, Zenon DEF Enumerates
<1> QED BY <1>1, <1>3, <1>10, <1>15

(* The probe rows of earlier batches, and of this one before row p, are    *)
(* done; row p of this batch is the current one.                           *)
HashBefore(O, n, b, p) ==
    {i \in DOMAIN O : BatchOf(O, n, i) < b} \cup Taken(PlaceOf(BatchPlaces(O, n, b)), p)
HashCurrent(O, n, b, p) == IF p = 0 THEN 0 ELSE PlaceOf(BatchPlaces(O, n, b))[p]

HashingOK(O, I, swap, s, rs) ==
    /\ s.phase \in {"next", "done"}
    /\ \E n \in Nat \ {0}, b \in Nat, p \in Nat :
        /\ s = [phase |-> s.phase, batches |-> n, batch |-> b, probe |-> p, matches |-> s.matches, pos |-> s.pos]
        /\ b < n /\ p <= Len(InBatch(O, n, b))
        /\ ProbingOK(O, I, swap, rs, HashBefore(O, n, b, p), HashCurrent(O, n, b, p), s.matches, s.pos)
        /\ s.phase = "done" => b + 1 = n /\ p = Len(InBatch(O, n, b)) /\ s.pos > Len(s.matches)

HashOK(O, I, swap, s, rs) ==
    \/ rs = <<>> /\ \E n \in Nat \ {0} : s = [phase |-> "partition", batches |-> n]
    \/ HashingOK(O, I, swap, s, rs)

(* The progress through the rows of a batch, which are k.                  *)
BatchRun(O, n, b, rows, at, k) ==
    /\ k = Len(rows)
    /\ \A p \in 1..k : at[p] \in DOMAIN O /\ BatchOf(O, n, at[p]) = b /\ rows[p] = O[at[p]]
    /\ \A p \in 0..k : \A i \in DOMAIN O :
           i \in HashBefore(O, n, b, p + 1) <=> (i \in HashBefore(O, n, b, p) \/ i = HashCurrent(O, n, b, p))
    /\ \A p \in 1..k : at[p] \notin HashBefore(O, n, b, p)
    /\ \A i \in DOMAIN O : i \in HashBefore(O, n, b, k + 1) <=> BatchOf(O, n, i) < b + 1
    /\ \A i \in DOMAIN O : i \in HashBefore(O, n, b, 0) <=> BatchOf(O, n, i) < b

LEMMA BatchRows ==
    ASSUME NEW O \in KeyedRows, NEW n \in Nat \ {0}, NEW b \in Nat
    PROVE  \E k \in Nat : BatchRun(O, n, b, InBatch(O, n, b), PlaceOf(BatchPlaces(O, n, b)), k)
<1>1. PICK A, at, rows : A = BatchPlaces(O, n, b) /\ at = PlaceOf(A) /\ rows = InBatch(O, n, b)
  OBVIOUS
<1>2. PICK k \in Nat : Lists(rows, at, O, A, k)
  <2>1. PICK m \in Nat : DOMAIN O = 1..m
    BY KeyedRowsAre
  <2> QED BY <1>1, <2>1, InBatchAre
<1>3. /\ k = Len(rows) /\ \A p \in 1..k : at[p] \in A /\ rows[p] = O[at[p]]
      /\ \A i \in A : \E p \in 1..k : at[p] = i
      /\ \A p, q \in 1..k : at[p] = at[q] => p = q
  BY <1>2, Zenon DEF Lists
<1>4. /\ Taken(at, 1) = {} /\ Taken(at, k + 1) = A
      /\ \A pos \in 1..k : /\ at[pos] \in A /\ at[pos] \notin Taken(at, pos)
                           /\ Taken(at, pos + 1) = Taken(at, pos) \cup {at[pos]}
      /\ \A pos \in 1..(k + 1) : Taken(at, pos) \subseteq A
  BY <1>3, TakenSteps
<1>5. \A i \in A : i \in DOMAIN O /\ BatchOf(O, n, i) = b
  BY <1>1 DEF BatchPlaces
<1>6. \A i \in DOMAIN O : BatchOf(O, n, i) \in Nat /\ (i \in A <=> BatchOf(O, n, i) = b)
  BY <1>1, BatchOfType DEF BatchPlaces
<1>7. \A p : HashBefore(O, n, b, p) = {i \in DOMAIN O : BatchOf(O, n, i) < b} \cup Taken(at, p)
  BY <1>1 DEF HashBefore
<1>8. \A p : HashCurrent(O, n, b, p) = IF p = 0 THEN 0 ELSE at[p]
  BY <1>1 DEF HashCurrent
<1>9. Taken(at, 0) = {}
  BY DEF Taken
<1>10. 0 \notin DOMAIN O
  BY KeyedRowsAre
<1>11. ASSUME NEW p \in 0..k, NEW i \in DOMAIN O
       PROVE  i \in HashBefore(O, n, b, p + 1) <=> (i \in HashBefore(O, n, b, p) \/ i = HashCurrent(O, n, b, p))
  <2>1. Taken(at, p + 1) = IF p = 0 THEN {} ELSE Taken(at, p) \cup {at[p]}
    BY <1>4, <1>11
  <2> QED BY <1>7, <1>8, <1>9, <1>10, <2>1
<1>12. ASSUME NEW p \in 1..k PROVE at[p] \notin HashBefore(O, n, b, p)
  <2>1. at[p] \in A /\ at[p] \notin Taken(at, p) /\ ~(b < b)
    BY <1>4
  <2> QED BY <1>5, <1>7, <2>1
<1>13. ASSUME NEW i \in DOMAIN O PROVE i \in HashBefore(O, n, b, k + 1) <=> BatchOf(O, n, i) < b + 1
  <2>1. BatchOf(O, n, i) < b + 1 <=> (BatchOf(O, n, i) < b \/ BatchOf(O, n, i) = b)
    BY <1>6
  <2> QED BY <1>4, <1>6, <1>7, <2>1
<1>14. ASSUME NEW i \in DOMAIN O PROVE i \in HashBefore(O, n, b, 0) <=> BatchOf(O, n, i) < b
  BY <1>7, <1>9
<1>15. \A p \in 1..k : at[p] \in DOMAIN O /\ BatchOf(O, n, at[p]) = b /\ rows[p] = O[at[p]]
  BY <1>3, <1>5
<1>16. BatchRun(O, n, b, rows, at, k)
  BY <1>3, <1>11, <1>12, <1>13, <1>14, <1>15, Zenon DEF BatchRun
<1> QED BY <1>1, <1>16

(* The join begins with the first batch.                                   *)
LEMMA HashBegins ==
    ASSUME NEW O \in KeyedRows, NEW I \in KeyedRows, NEW swap \in BOOLEAN, NEW n \in Nat \ {0}, NEW s,
           s = [phase |-> "next", batches |-> n, batch |-> 0, probe |-> 0, matches |-> <<>>, pos |-> 1]
    PROVE  HashOK(O, I, swap, s, <<>>)
<1>1. PICK k \in Nat : /\ k = Len(InBatch(O, n, 0))
                       /\ \A i \in DOMAIN O : i \in HashBefore(O, n, 0, 0) <=> BatchOf(O, n, i) < 0
  <2>1. PICK k \in Nat : BatchRun(O, n, 0, InBatch(O, n, 0), PlaceOf(BatchPlaces(O, n, 0)), k)
    BY BatchRows
  <2> QED BY <2>1, Zenon DEF BatchRun
<1>2. \A i \in DOMAIN O : i \notin HashBefore(O, n, 0, 0)
  BY <1>1, BatchOfType
<1>3. PICK P : P = Probed(O, I, HashBefore(O, n, 0, 0), 0, {})
  OBVIOUS
<1>4. P \in [DOMAIN O -> SUBSET DOMAIN I] /\ \A i \in DOMAIN O : P[i] = {}
  BY <1>2, <1>3 DEF Probed, Matches
<1>5. Yields(<<>>, swap, O, I, P)
  BY <1>4, YieldsNothing
<1>6. HashCurrent(O, n, 0, 0) = 0
  BY DEF HashCurrent
<1>7. Len(<<>>) = 0 /\ 1 \in 1..(0 + 1)
  OBVIOUS
<1>8. ProbingOK(O, I, swap, <<>>, HashBefore(O, n, 0, 0), HashCurrent(O, n, 0, 0), <<>>, 1)
  BY <1>3, <1>5, <1>6, <1>7 DEF ProbingOK
<1>9. s.phase = "next" /\ s.matches = <<>> /\ s.pos = 1 /\ 0 \in Nat /\ 0 < n /\ 0 <= k
  OBVIOUS
<1>10. s = [phase |-> s.phase, batches |-> n, batch |-> 0, probe |-> 0, matches |-> s.matches, pos |-> s.pos]
  BY <1>9
<1>11. HashingOK(O, I, swap, s, <<>>)
  BY <1>1, <1>8, <1>9, <1>10 DEF HashingOK
<1> QED BY <1>11 DEF HashOK

LEMMA HashStep ==
    ASSUME left \in KeyedRows, right \in KeyedRows, HashNext,
           HashOK(ProbeRows, BuildRows, op = "hashBuildLeft", st, out)
    PROVE  HashOK(ProbeRows, BuildRows, op = "hashBuildLeft", st', out')
<1>1. PICK O, I, s, rs, s2, rs2 :
          /\ O = ProbeRows /\ I = BuildRows /\ s = st /\ rs = out /\ s2 = st' /\ rs2 = out'
  OBVIOUS
<1>2. PICK swap \in BOOLEAN : swap = (op = "hashBuildLeft")
  OBVIOUS
<1>3. O \in KeyedRows /\ I \in KeyedRows
  BY <1>1 DEF ProbeRows, BuildRows
<1>4. HashOK(O, I, swap, s, rs)
  BY <1>1, <1>2
<1>5. s.phase = "next"
  BY <1>1 DEF HashNext
<1>6. HashingOK(O, I, swap, s, rs)
  <2>1. s.phase # "partition"
    BY <1>5
  <2> QED BY <1>4, <2>1 DEF HashOK
<1>7. PICK n \in Nat \ {0}, b \in Nat, p \in Nat :
        /\ s = [phase |-> s.phase, batches |-> n, batch |-> b, probe |-> p, matches |-> s.matches, pos |-> s.pos]
        /\ b < n /\ p <= Len(InBatch(O, n, b))
        /\ ProbingOK(O, I, swap, rs, HashBefore(O, n, b, p), HashCurrent(O, n, b, p), s.matches, s.pos)
  BY <1>6 DEF HashingOK
<1>8. PICK m, pos : m = s.matches /\ pos = s.pos
  OBVIOUS
<1>9. PICK at, probe, build : at = PlaceOf(BatchPlaces(O, n, b)) /\ probe = InBatch(O, n, b) /\ build = InBatch(I, n, b)
  OBVIOUS
<1>10. PICK k \in Nat :
         /\ k = Len(probe)
         /\ \A q \in 1..k : at[q] \in DOMAIN O /\ BatchOf(O, n, at[q]) = b /\ probe[q] = O[at[q]]
         /\ \A q \in 0..k : \A i \in DOMAIN O :
                i \in HashBefore(O, n, b, q + 1) <=> (i \in HashBefore(O, n, b, q) \/ i = HashCurrent(O, n, b, q))
         /\ \A q \in 1..k : at[q] \notin HashBefore(O, n, b, q)
         /\ \A i \in DOMAIN O : i \in HashBefore(O, n, b, k + 1) <=> BatchOf(O, n, i) < b + 1
  <2>1. PICK k \in Nat : BatchRun(O, n, b, probe, at, k)
    BY <1>3, <1>9, BatchRows
  <2> QED BY <2>1, Zenon DEF BatchRun
<1>11. s.batches = n /\ s.batch = b /\ s.probe = p
  BY <1>7
<1>r. s = [phase |-> "next", batches |-> n, batch |-> b, probe |-> p, matches |-> m, pos |-> pos]
  BY <1>5, <1>7, <1>8
<1>12. p \in 0..k
  BY <1>7, <1>9, <1>10
<1>13. ProbingOK(O, I, swap, rs, HashBefore(O, n, b, p), HashCurrent(O, n, b, p), m, pos)
  BY <1>7, <1>8
<1>14. ASSUME NEW s3, NEW rs3, NEW n3 \in Nat \ {0}, NEW b3 \in Nat, NEW p3 \in Nat, NEW ph \in {"next", "done"},
              NEW m3, NEW pos3,
              s3 = [phase |-> ph, batches |-> n3, batch |-> b3, probe |-> p3, matches |-> m3, pos |-> pos3],
              b3 < n3, p3 <= Len(InBatch(O, n3, b3)),
              ProbingOK(O, I, swap, rs3, HashBefore(O, n3, b3, p3), HashCurrent(O, n3, b3, p3), m3, pos3),
              ph = "done" => b3 + 1 = n3 /\ p3 = Len(InBatch(O, n3, b3)) /\ pos3 > Len(m3)
       PROVE  HashOK(O, I, swap, s3, rs3)
  <2>1. s3.phase = ph /\ s3.matches = m3 /\ s3.pos = pos3
    BY <1>14
  <2>2. s3 = [phase |-> s3.phase, batches |-> n3, batch |-> b3, probe |-> p3, matches |-> s3.matches, pos |-> s3.pos]
    BY <1>14, <2>1
  <2>3. HashingOK(O, I, swap, s3, rs3)
    BY <1>14, <2>1, <2>2 DEF HashingOK
  <2> QED BY <2>3 DEF HashOK
<1>15. probe = InBatch(ProbeRows, st.batches, st.batch) /\ build = InBatch(BuildRows, st.batches, st.batch)
  BY <1>1, <1>9, <1>11
<1>16. CASE st.pos <= Len(st.matches) /\ st' = [st EXCEPT !.pos = @ + 1] /\ Emit(Joined(st.matches[st.pos], probe[st.probe]))
  <2>1. pos <= Len(m)
    BY <1>1, <1>8, <1>16
  <2>2. PICK cur : cur = HashCurrent(O, n, b, p)
    OBVIOUS
  <2>3. p # 0
    <3>1. ASSUME p = 0 PROVE FALSE
      <4>1. HashCurrent(O, n, b, p) = 0
        BY <3>1 DEF HashCurrent
      <4>2. 0 \notin DOMAIN O
        BY <1>3, KeyedRowsAre
      <4> QED BY <1>13, <2>1, <4>1, <4>2 DEF ProbingOK
    <3> QED BY <3>1
  <2>4. probe[p] = O[cur]
    BY <1>9, <1>10, <1>12, <2>2, <2>3 DEF HashCurrent
  <2>5. rs2 = Append(rs, Pair(swap, O[cur], m[pos]))
    <3>1. rs2 = Append(rs, Joined(m[pos], probe[p]))
      BY <1>1, <1>8, <1>11, <1>16 DEF Emit
    <3>2. Joined(m[pos], probe[p]) = Pair(swap, O[cur], m[pos])
      BY <1>2, <2>4 DEF Joined, Pair
    <3> QED BY <3>1, <3>2
  <2>6. ProbingOK(O, I, swap, rs2, HashBefore(O, n, b, p), HashCurrent(O, n, b, p), m, pos + 1)
    BY <1>3, <1>13, <2>1, <2>2, <2>5, ProbingEmit
  <2>7. s2 = [phase |-> "next", batches |-> n, batch |-> b, probe |-> p, matches |-> m, pos |-> pos + 1]
    BY <1>1, <1>5, <1>7, <1>8, <1>16
  <2>8. HashOK(O, I, swap, s2, rs2)
    BY <1>7, <1>14, <2>6, <2>7
  <2> QED BY <1>1, <1>2, <2>8
<1>17. CASE /\ st.pos > Len(st.matches) /\ st.probe < Len(probe) /\ UNCHANGED out
            /\ st' = [st EXCEPT !.probe = @ + 1, !.pos = 1, !.matches = Matching(build, probe[st.probe + 1].key)]
  <2>1. pos > Len(m) /\ p + 1 \in 1..k /\ rs2 = rs
    BY <1>1, <1>8, <1>10, <1>11, <1>17
  <2>2. PICK next : next = at[p + 1]
    OBVIOUS
  <2>3. next \in DOMAIN O /\ BatchOf(O, n, next) = b /\ probe[p + 1] = O[next] /\ next \notin HashBefore(O, n, b, p + 1)
    BY <1>10, <2>1, <2>2
  <2>4. \A i \in DOMAIN O :
            i \in HashBefore(O, n, b, p + 1) <=> (i \in HashBefore(O, n, b, p) \/ i = HashCurrent(O, n, b, p))
    BY <1>10, <1>12
  <2>5. Yields(rs, swap, O, I, Probed(O, I, HashBefore(O, n, b, p + 1), next, {}))
    BY <1>3, <1>13, <2>1, <2>3, <2>4, ProbingDone
  <2>6. PICK m2 : m2 = Matching(build, O[next].key)
    OBVIOUS
  <2>7. PICK g \in Nat : \E a2 : Enumerates(m2, a2, I, Matches(O, I, next), g)
    <3>1. PICK len \in Nat : DOMAIN I = 1..len
      BY <1>3, KeyedRowsAre
    <3> QED BY <1>9, <2>3, <2>6, <3>1, BatchMatchingIs
  <2>8. ProbingOK(O, I, swap, rs, HashBefore(O, n, b, p + 1), next, m2, 1)
    BY <1>3, <2>3, <2>5, <2>7, ProbingNext
  <2>9. HashCurrent(O, n, b, p + 1) = next
    BY <1>9, <2>2 DEF HashCurrent
  <2>10. s2 = [phase |-> "next", batches |-> n, batch |-> b, probe |-> p + 1, matches |-> m2, pos |-> 1]
    <3>1. Matching(build, probe[st.probe + 1].key) = m2
      BY <1>1, <1>11, <2>3, <2>6
    <3>2. s2 = [s EXCEPT !.probe = p + 1, !.pos = 1, !.matches = m2]
      BY <1>1, <1>11, <1>17, <3>1
    <3>3. PICK p2, one : p2 = p + 1 /\ one = 1
      OBVIOUS
    <3>4. s2 = [s EXCEPT !.probe = p2, !.pos = one, !.matches = m2]
      BY <3>2, <3>3
    <3>5. s2 = [phase |-> "next", batches |-> n, batch |-> b, probe |-> p2, matches |-> m2, pos |-> one]
      BY <1>r, <3>4
    <3> QED BY <3>3, <3>5
  <2>11. p + 1 \in Nat /\ p + 1 <= Len(InBatch(O, n, b))
    BY <1>9, <1>10, <2>1
  <2>12. HashOK(O, I, swap, s2, rs)
    BY <1>7, <1>14, <2>8, <2>9, <2>10, <2>11
  <2> QED BY <1>1, <1>2, <2>1, <2>12
<1>18. CASE /\ st.pos > Len(st.matches) /\ st.probe = Len(probe) /\ st.batch + 1 < st.batches /\ UNCHANGED out
            /\ st' = [st EXCEPT !.batch = @ + 1, !.probe = 0, !.matches = <<>>, !.pos = 1]
  <2>1. pos > Len(m) /\ p = k /\ b + 1 < n /\ rs2 = rs /\ b + 1 \in Nat
    BY <1>1, <1>7, <1>8, <1>10, <1>11, <1>18
  <2>2. PICK after : after = HashBefore(O, n, b + 1, 0)
    OBVIOUS
  <2>3. PICK k2 \in Nat : /\ k2 = Len(InBatch(O, n, b + 1))
                          /\ \A i \in DOMAIN O : i \in HashBefore(O, n, b + 1, 0) <=> BatchOf(O, n, i) < b + 1
    <3>1. PICK k2 \in Nat : BatchRun(O, n, b + 1, InBatch(O, n, b + 1), PlaceOf(BatchPlaces(O, n, b + 1)), k2)
      BY <1>3, <2>1, BatchRows
    <3> QED BY <3>1, Zenon DEF BatchRun
  <2>4. \A i \in DOMAIN O : i \in after <=> (i \in HashBefore(O, n, b, p) \/ i = HashCurrent(O, n, b, p))
    BY <1>10, <1>12, <2>1, <2>2, <2>3
  <2>5. 0 \notin after
    <3>1. 0 \notin DOMAIN O
      BY <1>3, KeyedRowsAre
    <3>2. Taken(PlaceOf(BatchPlaces(O, n, b + 1)), 0) = {}
      BY DEF Taken
    <3> QED BY <2>2, <3>1, <3>2 DEF HashBefore
  <2>6. Yields(rs, swap, O, I, Probed(O, I, after, 0, {}))
    BY <1>3, <1>13, <2>1, <2>4, <2>5, ProbingDone
  <2>7. HashCurrent(O, n, b + 1, 0) = 0 /\ Len(<<>>) = 0 /\ 1 \in 1..(0 + 1)
    BY DEF HashCurrent
  <2>8. ProbingOK(O, I, swap, rs, HashBefore(O, n, b + 1, 0), HashCurrent(O, n, b + 1, 0), <<>>, 1)
    BY <2>2, <2>6, <2>7 DEF ProbingOK
  <2>9. s2 = [phase |-> "next", batches |-> n, batch |-> b + 1, probe |-> 0, matches |-> <<>>, pos |-> 1]
    <3>1. s2 = [s EXCEPT !.batch = b + 1, !.probe = 0, !.matches = <<>>, !.pos = 1]
      BY <1>1, <1>11, <1>18
    <3>2. PICK b2, zero, none, one : b2 = b + 1 /\ zero = 0 /\ none = <<>> /\ one = 1
      OBVIOUS
    <3>3. s2 = [s EXCEPT !.batch = b2, !.probe = zero, !.matches = none, !.pos = one]
      BY <3>1, <3>2
    <3>4. s2 = [phase |-> "next", batches |-> n, batch |-> b2, probe |-> zero, matches |-> none, pos |-> one]
      BY <1>r, <3>3
    <3> QED BY <3>2, <3>4
  <2>10. 0 \in Nat /\ 0 <= Len(InBatch(O, n, b + 1))
    BY <2>3
  <2>11. HashOK(O, I, swap, s2, rs)
    BY <1>7, <1>14, <2>1, <2>8, <2>9, <2>10
  <2> QED BY <1>1, <1>2, <2>1, <2>11
<1>19. CASE st.pos > Len(st.matches) /\ st.probe = Len(probe) /\ st.batch + 1 = st.batches /\ Finish
  <2>1. pos > Len(m) /\ p = Len(InBatch(O, n, b)) /\ b + 1 = n /\ rs2 = rs
    BY <1>1, <1>8, <1>9, <1>11, <1>19 DEF Finish
  <2>2. s2 = [phase |-> "done", batches |-> n, batch |-> b, probe |-> p, matches |-> m, pos |-> pos]
    BY <1>1, <1>7, <1>8, <1>19 DEF Finish
  <2>3. HashOK(O, I, swap, s2, rs)
    BY <1>7, <1>13, <1>14, <2>1, <2>2
  <2> QED BY <1>1, <1>2, <2>1, <2>3
<1> QED BY <1>15, <1>16, <1>17, <1>18, <1>19 DEF HashNext

LEMMA PartitionStep ==
    ASSUME left \in KeyedRows, right \in KeyedRows, PartitionInputsIntoBatches,
           HashOK(ProbeRows, BuildRows, op = "hashBuildLeft", st, out)
    PROVE  HashOK(ProbeRows, BuildRows, op = "hashBuildLeft", st', out')
<1>1. PICK O, I, s, rs, s2, rs2 :
          /\ O = ProbeRows /\ I = BuildRows /\ s = st /\ rs = out /\ s2 = st' /\ rs2 = out'
  OBVIOUS
<1>2. PICK swap \in BOOLEAN : swap = (op = "hashBuildLeft")
  OBVIOUS
<1>3. O \in KeyedRows /\ I \in KeyedRows
  BY <1>1 DEF ProbeRows, BuildRows
<1>4. HashOK(O, I, swap, s, rs)
  BY <1>1, <1>2
<1>5. s.phase = "partition" /\ rs2 = rs
  BY <1>1 DEF PartitionInputsIntoBatches
<1>6. rs = <<>> /\ \E n \in Nat \ {0} : s = [phase |-> "partition", batches |-> n]
  BY <1>4, <1>5 DEF HashOK, HashingOK
<1>7. PICK n \in Nat \ {0} : s = [phase |-> "partition", batches |-> n]
  BY <1>6
<1>8. \/ s2 = [phase |-> "next", batches |-> n, batch |-> 0, probe |-> 0, matches |-> <<>>, pos |-> 1]
      \/ s2 = [phase |-> "partition", batches |-> 2 * n]
  <2>1. \/ st' = [phase |-> "next", batches |-> st.batches, batch |-> 0, probe |-> 0, matches |-> <<>>, pos |-> 1]
        \/ st' = [st EXCEPT !.batches = 2 * @]
    BY DEF PartitionInputsIntoBatches
  <2>2. s.batches = n
    BY <1>7
  <2>3. \/ s2 = [phase |-> "next", batches |-> n, batch |-> 0, probe |-> 0, matches |-> <<>>, pos |-> 1]
        \/ s2 = [s EXCEPT !.batches = 2 * n]
    BY <1>1, <2>1, <2>2
  <2> QED BY <1>7, <2>3
<1>9. HashOK(O, I, swap, s2, rs2)
  <2>1. CASE s2 = [phase |-> "next", batches |-> n, batch |-> 0, probe |-> 0, matches |-> <<>>, pos |-> 1]
    BY <1>3, <1>5, <1>6, <2>1, HashBegins
  <2>2. CASE s2 = [phase |-> "partition", batches |-> 2 * n]
    <3>1. 2 * n \in Nat \ {0}
      OBVIOUS
    <3> QED BY <1>5, <1>6, <2>2, <3>1 DEF HashOK
  <2> QED BY <1>8, <2>1, <2>2
<1> QED BY <1>1, <1>2, <1>9

LEMMA HashResult ==
    ASSUME NEW O \in KeyedRows, NEW I \in KeyedRows, NEW swap \in BOOLEAN, NEW s, NEW rs,
           HashOK(O, I, swap, s, rs),
           NEW l, NEW r, l = IF swap THEN I ELSE O, r = IF swap THEN O ELSE I
    PROVE  JoinResult(rs, l, r, s.phase = "done")
<1>1. CASE rs = <<>> /\ \E n \in Nat \ {0} : s = [phase |-> "partition", batches |-> n]
  <2>1. s.phase # "done"
    BY <1>1
  <2>2. IsInjective(rs) /\ ToSet(rs) = {}
    BY <1>1 DEF IsInjective, ToSet
  <2> QED BY <2>1, <2>2 DEF JoinResult
<1>2. CASE HashingOK(O, I, swap, s, rs)
  <2>1. PICK n \in Nat \ {0}, b \in Nat, p \in Nat :
        /\ b < n /\ p <= Len(InBatch(O, n, b))
        /\ ProbingOK(O, I, swap, rs, HashBefore(O, n, b, p), HashCurrent(O, n, b, p), s.matches, s.pos)
        /\ s.phase = "done" => b + 1 = n /\ p = Len(InBatch(O, n, b)) /\ s.pos > Len(s.matches)
    BY <1>2 DEF HashingOK
  <2>2. PICK k \in Nat : BatchRun(O, n, b, InBatch(O, n, b), PlaceOf(BatchPlaces(O, n, b)), k)
    BY BatchRows
  <2>3. PICK over \in BOOLEAN : over <=> s.phase = "done"
    OBVIOUS
  <2>4. over => s.pos > Len(s.matches)
    BY <2>1, <2>3
  <2>5. ASSUME over, NEW i \in DOMAIN O PROVE i \in HashBefore(O, n, b, p) \/ i = HashCurrent(O, n, b, p)
    <3>1. p = k /\ b + 1 = n
      BY <2>1, <2>2, <2>3, <2>5 DEF BatchRun
    <3>2. BatchOf(O, n, i) < b + 1
      BY <2>5, <3>1, BatchOfType
    <3>3. i \in HashBefore(O, n, b, k + 1)
      BY <2>2, <2>5, <3>2, Zenon DEF BatchRun
    <3>4. k \in 0..k
      OBVIOUS
    <3> QED BY <2>2, <2>5, <3>1, <3>3, <3>4, Zenon DEF BatchRun
  <2>6. over => s.pos > Len(s.matches) /\ \A i \in DOMAIN O : i \in HashBefore(O, n, b, p) \/ i = HashCurrent(O, n, b, p)
    BY <2>4, <2>5
  <2>7. JoinResult(rs, l, r, over)
    BY <2>1, <2>6, ProbingResult
  <2> QED BY <2>3, <2>7, Zenon DEF JoinResult
<1> QED BY <1>1, <1>2 DEF HashOK

-----------------------------------------------------------------------------
(* The merge join.                                                         *)

(* Two inputs in the order of their keys, of n and of m rows.              *)
MergeInputs(L, R, n, m) ==
    /\ L \in KeyedRows /\ R \in KeyedRows /\ n = Len(L) /\ m = Len(R)
    /\ DOMAIN L = 1..n /\ DOMAIN R = 1..m
    /\ \A i \in 1..n : L[i].key \in Nat
    /\ \A j \in 1..m : R[j].key \in Nat
    /\ \A i, h \in 1..n : i <= h => L[i].key <= L[h].key
    /\ \A j, h \in 1..m : j <= h => R[j].key <= R[h].key

LEMMA MergeInputsAre ==
    ASSUME NEW L \in KeyedRows, NEW R \in KeyedRows, InOrder(L), InOrder(R)
    PROVE  \E n, m \in Nat : MergeInputs(L, R, n, m)
<1>1. ASSUME NEW rows \in KeyedRows, InOrder(rows)
      PROVE  \E k \in Nat : /\ k = Len(rows) /\ DOMAIN rows = 1..k
                            /\ \A i \in 1..k : rows[i].key \in Nat
                            /\ \A i, h \in 1..k : i <= h => rows[i].key <= rows[h].key
  <2>1. PICK k \in Nat : k = Len(rows) /\ DOMAIN rows = 1..k /\ \A i \in 1..k : rows[i].key \in Key
    BY KeyedRowsAre
  <2>2. \A i \in 1..k : rows[i].key \in Nat
    BY <2>1, BoundsAssumption
  <2>3. \A i, h \in 1..k : i < h => rows[i].key <= rows[h].key
    BY <1>1, <2>1 DEF InOrder
  <2>4. \A i, h \in 1..k : i <= h => rows[i].key <= rows[h].key
    BY <2>2, <2>3
  <2> QED BY <2>1, <2>2, <2>4
<1>2. PICK n \in Nat : /\ n = Len(L) /\ DOMAIN L = 1..n
                       /\ \A i \in 1..n : L[i].key \in Nat
                       /\ \A i, h \in 1..n : i <= h => L[i].key <= L[h].key
  BY <1>1
<1>3. PICK m \in Nat : /\ m = Len(R) /\ DOMAIN R = 1..m
                       /\ \A i \in 1..m : R[i].key \in Nat
                       /\ \A i, h \in 1..m : i <= h => R[i].key <= R[h].key
  BY <1>1
<1> QED BY <1>2, <1>3 DEF MergeInputs

(* The left rows before a are done, and the right rows before b match none *)
(* of the others.                                                          *)
MergeCompare(L, R, n, m, rs, a, b) ==
    /\ a \in 1..(n + 1) /\ b \in 1..(m + 1)
    /\ \A i \in a..n, j \in 1..(b - 1) : L[i].key > R[j].key
    /\ Yields(rs, FALSE, L, R, Probed(L, R, 1 .. a - 1, 0, {}))

(* The left row a is joined with the right rows from c on; b is next.      *)
MergeEmit(L, R, n, m, rs, a, b, c) ==
    /\ a \in 1..n /\ c \in 1..m /\ b \in c..m
    /\ \A i \in a..n, j \in 1..(c - 1) : L[i].key > R[j].key
    /\ \A j \in c..b : R[j].key = L[a].key
    /\ Yields(rs, FALSE, L, R, Probed(L, R, 1 .. a - 1, a, c .. b - 1))

(* The left row a has all its pairs: they are from c up to b.              *)
MergeOuter(L, R, n, m, rs, a, b, c) ==
    /\ a \in 1..n /\ c \in 1..m /\ b \in (c + 1)..(m + 1)
    /\ \A i \in a..n, j \in 1..(c - 1) : L[i].key > R[j].key
    /\ \A j \in c..(b - 1) : R[j].key = L[a].key
    /\ \A j \in b..m : R[j].key > L[a].key
    /\ Yields(rs, FALSE, L, R, Probed(L, R, 1 .. a - 1, a, c .. b - 1))

(* Which row is current does not matter while it has no pair.              *)
LEMMA ProbedIdle ==
    ASSUME NEW O, NEW I, NEW swap, NEW rs, NEW before, NEW cur, NEW next,
           Yields(rs, swap, O, I, Probed(O, I, before, cur, {}))
    PROVE  Yields(rs, swap, O, I, Probed(O, I, before, next, {}))
<1>1. PICK P, Q : P = Probed(O, I, before, cur, {}) /\ Q = Probed(O, I, before, next, {})
  OBVIOUS
<1>2. P = [i \in DOMAIN O |-> IF i \in before THEN Matches(O, I, i) ELSE {}]
  BY <1>1 DEF Probed
<1>3. Q = [i \in DOMAIN O |-> IF i \in before THEN Matches(O, I, i) ELSE {}]
  BY <1>1 DEF Probed
<1> QED BY <1>1, <1>2, <1>3

LEMMA MergeLess ==
    ASSUME NEW L, NEW R, NEW n \in Nat, NEW m \in Nat, NEW rs, NEW a \in 1..n, NEW b \in 1..m,
           MergeInputs(L, R, n, m), MergeCompare(L, R, n, m, rs, a, b), L[a].key < R[b].key
    PROVE  MergeCompare(L, R, n, m, rs, a + 1, b)
<1>1. Matches(L, R, a) = {}
  <2>1. \A j \in 1..m : L[a].key # R[j].key
    BY SMTT(40) DEF MergeInputs, MergeCompare
  <2> QED BY <2>1 DEF Matches, MergeInputs
<1>n. PICK none : none = {}
  OBVIOUS
<1>2. Yields(rs, FALSE, L, R, Probed(L, R, 1 .. a - 1, a, none))
  BY <1>n, ProbedIdle DEF MergeCompare
<1>3. /\ L \in KeyedRows /\ R \in KeyedRows /\ none \subseteq DOMAIN R
      /\ a \in DOMAIN L => none = Matches(L, R, a)
      /\ 0 \notin 1..((a + 1) - 1)
      /\ \A i \in DOMAIN L : i \in 1..((a + 1) - 1) <=> (i \in 1..(a - 1) \/ i = a)
  BY <1>1, <1>n DEF MergeInputs
<1>4. Yields(rs, FALSE, L, R, Probed(L, R, 1 .. (a + 1) - 1, 0, {}))
  BY <1>2, <1>3, ProbeAdvance, Zenon
<1>5. a + 1 \in 1..(n + 1) /\ b \in 1..(m + 1) /\ \A i \in (a + 1)..n, j \in 1..(b - 1) : L[i].key > R[j].key
  BY DEF MergeCompare
<1> QED BY <1>4, <1>5 DEF MergeCompare

LEMMA MergeGreater ==
    ASSUME NEW L, NEW R, NEW n \in Nat, NEW m \in Nat, NEW rs, NEW a \in 1..n, NEW b \in 1..m,
           MergeInputs(L, R, n, m), MergeCompare(L, R, n, m, rs, a, b), L[a].key > R[b].key
    PROVE  MergeCompare(L, R, n, m, rs, a, b + 1)
<1>1. \A i \in a..n : L[i].key > R[b].key
  BY DEF MergeInputs
<1>2. \A i \in a..n, j \in 1..((b + 1) - 1) : L[i].key > R[j].key
  BY <1>1 DEF MergeCompare
<1>3. b + 1 \in 1..(m + 1)
  OBVIOUS
<1> QED BY <1>2, <1>3 DEF MergeCompare

LEMMA MergeEqual ==
    ASSUME NEW L, NEW R, NEW n \in Nat, NEW m \in Nat, NEW rs, NEW a \in 1..n, NEW b \in 1..m,
           MergeInputs(L, R, n, m), MergeCompare(L, R, n, m, rs, a, b), L[a].key = R[b].key
    PROVE  MergeEmit(L, R, n, m, rs, a, b, b)
<1>1. Yields(rs, FALSE, L, R, Probed(L, R, 1 .. a - 1, a, {}))
  BY ProbedIdle DEF MergeCompare
<1>2. b .. b - 1 = {} /\ b \in b..m /\ \A j \in b..b : j = b
  OBVIOUS
<1>3. Yields(rs, FALSE, L, R, Probed(L, R, 1 .. a - 1, a, b .. b - 1))
  BY <1>1, <1>2
<1>4. \A i \in a..n, j \in 1..(b - 1) : L[i].key > R[j].key
  BY DEF MergeCompare
<1>5. \A j \in b..b : R[j].key = L[a].key
  BY <1>2
<1> QED BY <1>2, <1>3, <1>4, <1>5 DEF MergeEmit

(* The next pair.                                                          *)
LEMMA MergePair ==
    ASSUME NEW L, NEW R, NEW n \in Nat, NEW m \in Nat, NEW rs, NEW a, NEW b, NEW c,
           MergeInputs(L, R, n, m), MergeEmit(L, R, n, m, rs, a, b, c)
    PROVE  Yields(Append(rs, <<L[a], R[b]>>), FALSE, L, R, Probed(L, R, 1 .. a - 1, a, c .. (b + 1) - 1))
<1>1. /\ L \in KeyedRows /\ R \in KeyedRows /\ FALSE \in BOOLEAN /\ a \in DOMAIN L /\ b \in DOMAIN R
      /\ a \notin 1..(a - 1) /\ c..(b - 1) \subseteq DOMAIN R /\ b \notin c..(b - 1)
  BY DEF MergeInputs, MergeEmit
<1>2. Yields(rs, FALSE, L, R, Probed(L, R, 1 .. a - 1, a, c .. b - 1))
  BY DEF MergeEmit
<1>3. Yields(Append(rs, Pair(FALSE, L[a], R[b])), FALSE, L, R, Probed(L, R, 1..(a - 1), a, (c..(b - 1)) \cup {b}))
  BY <1>1, <1>2, ProbeEmit, Zenon
<1>4. (c..(b - 1)) \cup {b} = c..((b + 1) - 1) /\ Pair(FALSE, L[a], R[b]) = <<L[a], R[b]>>
  BY DEF MergeEmit, Pair
<1> QED BY <1>3, <1>4

LEMMA MergeMore ==
    ASSUME NEW L, NEW R, NEW n \in Nat, NEW m \in Nat, NEW rs, NEW a, NEW b, NEW c,
           MergeInputs(L, R, n, m), MergeEmit(L, R, n, m, rs, a, b, c),
           b + 1 <= m, R[b + 1].key = L[a].key
    PROVE  MergeEmit(L, R, n, m, Append(rs, <<L[a], R[b]>>), a, b + 1, c)
<1>1. b + 1 \in c..m /\ \A j \in c..(b + 1) : R[j].key = L[a].key
  BY DEF MergeEmit
<1> QED BY <1>1, MergePair DEF MergeEmit

LEMMA MergeNoMore ==
    ASSUME NEW L, NEW R, NEW n \in Nat, NEW m \in Nat, NEW rs, NEW a, NEW b, NEW c,
           MergeInputs(L, R, n, m), MergeEmit(L, R, n, m, rs, a, b, c),
           ~(b + 1 <= m /\ R[b + 1].key = L[a].key)
    PROVE  MergeOuter(L, R, n, m, Append(rs, <<L[a], R[b]>>), a, b + 1, c)
<1>1. b + 1 \in (c + 1)..(m + 1) /\ \A j \in c..((b + 1) - 1) : R[j].key = L[a].key
  BY DEF MergeEmit
<1>2. ASSUME NEW j \in (b + 1)..m PROVE R[j].key > L[a].key
  <2>1. b \in 1..m /\ b + 1 \in 1..m /\ j \in 1..m /\ R[b].key = L[a].key
    BY <1>2 DEF MergeEmit
  <2>2. R[b + 1].key # L[a].key
    BY <2>1
  <2>3. R[b].key <= R[b + 1].key /\ R[b + 1].key <= R[j].key
    BY <1>2, <2>1 DEF MergeInputs
  <2>4. R[b].key \in Nat /\ R[b + 1].key \in Nat /\ R[j].key \in Nat
    BY <2>1 DEF MergeInputs
  <2> QED BY <2>1, <2>2, <2>3, <2>4
<1> QED BY <1>1, <1>2, MergePair DEF MergeEmit, MergeOuter

(* The left row a has all its pairs.                                       *)
LEMMA MergeRowDone ==
    ASSUME NEW L, NEW R, NEW n \in Nat, NEW m \in Nat, NEW rs, NEW a, NEW b, NEW c,
           MergeInputs(L, R, n, m), MergeOuter(L, R, n, m, rs, a, b, c),
           NEW next, next \notin 1..((a + 1) - 1)
    PROVE  Yields(rs, FALSE, L, R, Probed(L, R, 1 .. (a + 1) - 1, next, {}))
<1>1. c..(b - 1) = Matches(L, R, a)
  <2>1. \A j \in 1..m : L[a].key = R[j].key <=> j \in c..(b - 1)
    BY DEF MergeInputs, MergeOuter
  <2>2. c..(b - 1) \subseteq 1..m
    BY DEF MergeOuter
  <2> QED BY <2>1, <2>2 DEF Matches, MergeInputs
<1>2. /\ L \in KeyedRows /\ R \in KeyedRows /\ c..(b - 1) \subseteq DOMAIN R
      /\ \A i \in DOMAIN L : i \in 1..((a + 1) - 1) <=> (i \in 1..(a - 1) \/ i = a)
  BY DEF MergeInputs, MergeOuter
<1>3. Yields(rs, FALSE, L, R, Probed(L, R, 1 .. a - 1, a, c .. b - 1))
  BY DEF MergeOuter
<1> QED BY <1>1, <1>2, <1>3, ProbeAdvance, ZenonT(60)

LEMMA MergeSameKey ==
    ASSUME NEW L, NEW R, NEW n \in Nat, NEW m \in Nat, NEW rs, NEW a, NEW b, NEW c,
           MergeInputs(L, R, n, m), MergeOuter(L, R, n, m, rs, a, b, c),
           a + 1 <= n, L[a + 1].key = L[a].key
    PROVE  MergeEmit(L, R, n, m, rs, a + 1, c, c)
<1>1. a + 1 \in 1..n /\ c \in 1..m /\ c \in c..m /\ (a + 1) \notin 1..((a + 1) - 1)
  BY DEF MergeOuter
<1>2. Yields(rs, FALSE, L, R, Probed(L, R, 1 .. (a + 1) - 1, a + 1, {}))
  BY <1>1, MergeRowDone
<1>3. c..(c - 1) = {} /\ \A j \in c..c : j = c
  BY <1>1
<1>4. \A i \in (a + 1)..n, j \in 1..(c - 1) : L[i].key > R[j].key
  BY DEF MergeOuter
<1>5. R[c].key = L[a].key
  BY DEF MergeOuter
<1>6. \A j \in c..c : R[j].key = L[a + 1].key
  BY <1>3, <1>5
<1>7. Yields(rs, FALSE, L, R, Probed(L, R, 1 .. (a + 1) - 1, a + 1, c..(c - 1)))
  BY <1>2, <1>3
<1> QED BY <1>1, <1>4, <1>6, <1>7 DEF MergeEmit

LEMMA MergeNewKey ==
    ASSUME NEW L, NEW R, NEW n \in Nat, NEW m \in Nat, NEW rs, NEW a, NEW b, NEW c,
           MergeInputs(L, R, n, m), MergeOuter(L, R, n, m, rs, a, b, c),
           ~(a + 1 <= n /\ L[a + 1].key = L[a].key)
    PROVE  MergeCompare(L, R, n, m, rs, a + 1, b)
<1>1. a \in 1..n /\ a + 1 \in 1..(n + 1) /\ b \in 1..(m + 1) /\ 0 \notin 1..((a + 1) - 1)
  BY DEF MergeOuter
<1>2. Yields(rs, FALSE, L, R, Probed(L, R, 1 .. (a + 1) - 1, 0, {}))
  BY <1>1, MergeRowDone
<1>3. ASSUME NEW i \in (a + 1)..n, NEW j \in 1..(b - 1) PROVE L[i].key > R[j].key
  <2>1. CASE j < c
    BY <1>1, <1>3, <2>1 DEF MergeOuter
  <2>2. CASE j >= c
    <3>1. R[j].key = L[a].key
      BY <1>3, <2>2 DEF MergeOuter
    <3>2. a + 1 \in 1..n /\ i \in 1..n /\ a + 1 <= i
      BY <1>1, <1>3
    <3>3. L[a].key <= L[a + 1].key /\ L[a + 1].key <= L[i].key
      BY <1>1, <3>2 DEF MergeInputs
    <3>4. L[a].key \in Nat /\ L[a + 1].key \in Nat /\ L[i].key \in Nat
      BY <1>1, <3>2 DEF MergeInputs
    <3>5. L[a].key # L[a + 1].key
      BY <3>2
    <3> QED BY <3>1, <3>3, <3>4, <3>5
  <2>3. c \in Nat /\ j \in Nat
    BY <1>3 DEF MergeOuter
  <2> QED BY <2>1, <2>2, <2>3
<1> QED BY <1>1, <1>2, <1>3 DEF MergeCompare

(* A stream that stands before row c: c is past the end when Next found    *)
(* no row.                                                                 *)
Cursor(s, rows, n, c) ==
    \/ c \in 1..n /\ s = [pos |-> c, has |-> TRUE, row |-> rows[c]]
    \/ c = n + 1 /\ s.has = FALSE /\ s.pos = n

LEMMA CursorRead ==
    ASSUME NEW rows, NEW n \in Nat, n = Len(rows), NEW c \in 1..n, NEW s, Cursor(s, rows, n, c)
    PROVE  Cursor(ReadFrom(s, rows), rows, n, c + 1)
<1>1. s = [pos |-> c, has |-> TRUE, row |-> rows[c]]
  BY DEF Cursor
<1>2. CASE c < n
  BY <1>1, <1>2 DEF Cursor, ReadFrom
<1>3. CASE c = n
  <2>1. ReadFrom(s, rows) = [s EXCEPT !.has = FALSE]
    BY <1>1, <1>3 DEF ReadFrom
  <2> QED BY <1>1, <1>3, <2>1 DEF Cursor
<1> QED BY <1>2, <1>3

LEMMA CursorOpen ==
    ASSUME NEW rows, NEW n \in Nat, n = Len(rows)
    PROVE  Cursor(ReadFrom(Opened(rows), rows), rows, n, 1)
BY DEF Cursor, ReadFrom, Opened

LEMMA CursorHas ==
    ASSUME NEW rows, NEW n \in Nat, NEW c \in Nat, NEW s, Cursor(s, rows, n, c)
    PROVE  /\ c \in 1..(n + 1) /\ s.has \in BOOLEAN /\ (s.has <=> c \in 1..n)
           /\ s.has => s.row = rows[c]
<1>1. CASE c \in 1..n /\ s = [pos |-> c, has |-> TRUE, row |-> rows[c]]
  <2>1. s.has = TRUE /\ s.row = rows[c]
    BY <1>1
  <2> QED BY <1>1, <2>1
<1>2. CASE c = n + 1 /\ s.has = FALSE
  <2>1. c \in 1..(n + 1) /\ c \notin 1..n
    BY <1>2
  <2>2. s.has = FALSE
    BY <1>2
  <2> QED BY <2>1, <2>2, Zenon
<1> QED BY <1>1, <1>2 DEF Cursor

MergeStateOK(L, R, n, m, s, rs, ph, sl, sr, mark, key) ==
    /\ s = [phase |-> ph, l |-> sl, r |-> sr, mark |-> mark, key |-> key]
    /\ \E a, b \in Nat :
        /\ Cursor(sl, L, n, a) /\ Cursor(sr, R, m, b)
        /\ \/ ph = "compare" /\ MergeCompare(L, R, n, m, rs, a, b)
           \/ ph = "done" /\ MergeCompare(L, R, n, m, rs, a, b) /\ (a = n + 1 \/ b = m + 1)
           \/ ph = "emit" /\ key = L[a].key /\ \E c \in 1..m : Cursor(mark, R, m, c) /\ MergeEmit(L, R, n, m, rs, a, b, c)
           \/ ph = "outer" /\ key = L[a].key /\ \E c \in 1..m : Cursor(mark, R, m, c) /\ MergeOuter(L, R, n, m, rs, a, b, c)

MergeOK(L, R, s, rs) ==
    \/ s = [phase |-> "init"] /\ rs = <<>>
    \/ \E n, m \in Nat : /\ MergeInputs(L, R, n, m)
                         /\ \E ph, sl, sr, mark, key : MergeStateOK(L, R, n, m, s, rs, ph, sl, sr, mark, key)

MergePhases == {"compare", "emit", "outer", "done"}

LEMMA MergePhase ==
    ASSUME NEW L, NEW R, NEW s, NEW rs, MergeOK(L, R, s, rs)
    PROVE  s.phase \in MergePhases \cup {"init"}
<1>1. CASE s = [phase |-> "init"]
  BY <1>1
<1>2. ASSUME NEW n, NEW m, NEW ph, NEW sl, NEW sr, NEW mark, NEW key,
             MergeStateOK(L, R, n, m, s, rs, ph, sl, sr, mark, key)
      PROVE  s.phase \in MergePhases
  BY <1>2 DEF MergeStateOK, MergePhases
<1> QED BY <1>1, <1>2 DEF MergeOK

LEMMA MergeStep ==
    ASSUME left \in KeyedRows, right \in KeyedRows, InOrder(left), InOrder(right),
           MergeOK(left, right, st, out),
           InitMergeJoin \/ Compare \/ EmitMatches \/ AdvanceOuterDuplicates
    PROVE  MergeOK(left, right, st', out')
<1>1. PICK L, R, s, rs, s2, rs2 :
          /\ L = left /\ R = right /\ s = st /\ rs = out /\ s2 = st' /\ rs2 = out'
  OBVIOUS
<1>2. PICK n, m \in Nat : MergeInputs(L, R, n, m)
  BY <1>1, MergeInputsAre
<1>3. n = Len(L) /\ m = Len(R)
  BY <1>2 DEF MergeInputs
<1>4. ASSUME NEW s3, NEW rs3, NEW ph, NEW sl, NEW sr, NEW mark, NEW key,
             MergeStateOK(L, R, n, m, s3, rs3, ph, sl, sr, mark, key)
      PROVE  MergeOK(L, R, s3, rs3)
  BY <1>2, <1>4 DEF MergeOK
<1>5. CASE InitMergeJoin
  <2>1. s.phase = "init" /\ rs2 = rs
    BY <1>1, <1>5 DEF InitMergeJoin
  <2>2. rs = <<>>
    <3>1. ASSUME NEW n1, NEW m1, NEW ph, NEW sl, NEW sr, NEW mark, NEW key,
                 MergeStateOK(L, R, n1, m1, s, rs, ph, sl, sr, mark, key)
          PROVE  s.phase # "init"
      BY <3>1 DEF MergeStateOK
    <3> QED BY <1>1, <2>1, <3>1 DEF MergeOK
  <2>3. PICK sl, sr, mark, key :
            /\ sl = ReadFrom(Opened(L), L) /\ sr = ReadFrom(Opened(R), R)
            /\ s2 = [phase |-> "compare", l |-> sl, r |-> sr, mark |-> mark, key |-> key]
    BY <1>1, <1>5 DEF InitMergeJoin
  <2>4. Cursor(sl, L, n, 1) /\ Cursor(sr, R, m, 1)
    BY <1>3, <2>3, CursorOpen
  <2>5. MergeCompare(L, R, n, m, <<>>, 1, 1)
    <3>1. PICK P : P = Probed(L, R, 1..(1 - 1), 0, {})
      OBVIOUS
    <3>2. 1..(1 - 1) = {}
      OBVIOUS
    <3>3. P \in [DOMAIN L -> SUBSET DOMAIN R] /\ \A i \in DOMAIN L : P[i] = {}
      BY <3>1, <3>2 DEF Probed
    <3>4. Yields(<<>>, FALSE, L, R, P)
      BY <3>3, YieldsNothing
    <3>5. Yields(<<>>, FALSE, L, R, Probed(L, R, 1..(1 - 1), 0, {}))
      BY <3>1, <3>4
    <3>6. 1 \in 1..(n + 1) /\ 1 \in 1..(m + 1)
      OBVIOUS
    <3>7. \A i \in 1..n, j \in 1..(1 - 1) : L[i].key > R[j].key
      BY <3>2
    <3> QED BY <3>5, <3>6, <3>7, Zenon DEF MergeCompare
  <2>6. MergeStateOK(L, R, n, m, s2, <<>>, "compare", sl, sr, mark, key)
    BY <2>3, <2>4, <2>5 DEF MergeStateOK
  <2> QED BY <1>1, <1>4, <2>1, <2>2, <2>6
<1>6. CASE Compare \/ EmitMatches \/ AdvanceOuterDuplicates
  <2>1. s.phase # "init"
    BY <1>1, <1>6 DEF Compare, EmitMatches, AdvanceOuterDuplicates
  <2>2. PICK ph, sl, sr, mark, key : MergeStateOK(L, R, n, m, s, rs, ph, sl, sr, mark, key)
    <3>1. s # [phase |-> "init"]
      BY <2>1
    <3>2. PICK n1, m1 \in Nat : /\ MergeInputs(L, R, n1, m1)
                                /\ \E ph, sl, sr, mark, key : MergeStateOK(L, R, n1, m1, s, rs, ph, sl, sr, mark, key)
      BY <1>1, <3>1 DEF MergeOK
    <3>3. n1 = n /\ m1 = m
      BY <1>3, <3>2 DEF MergeInputs
    <3> QED BY <3>2, <3>3
  <2>3. s = [phase |-> ph, l |-> sl, r |-> sr, mark |-> mark, key |-> key]
    BY <2>2 DEF MergeStateOK
  <2>4. PICK a, b \in Nat :
        /\ Cursor(sl, L, n, a) /\ Cursor(sr, R, m, b)
        /\ \/ ph = "compare" /\ MergeCompare(L, R, n, m, rs, a, b)
           \/ ph = "done" /\ MergeCompare(L, R, n, m, rs, a, b) /\ (a = n + 1 \/ b = m + 1)
           \/ ph = "emit" /\ key = L[a].key /\ \E c \in 1..m : Cursor(mark, R, m, c) /\ MergeEmit(L, R, n, m, rs, a, b, c)
           \/ ph = "outer" /\ key = L[a].key /\ \E c \in 1..m : Cursor(mark, R, m, c) /\ MergeOuter(L, R, n, m, rs, a, b, c)
    BY <2>2 DEF MergeStateOK
  <2>5. /\ a \in 1..(n + 1) /\ sl.has \in BOOLEAN /\ (sl.has <=> a \in 1..n) /\ (sl.has => sl.row = L[a])
        /\ b \in 1..(m + 1) /\ sr.has \in BOOLEAN /\ (sr.has <=> b \in 1..m) /\ (sr.has => sr.row = R[b])
    BY <2>4, CursorHas
  <2>6. s.phase = ph /\ s.l = sl /\ s.r = sr /\ s.mark = mark /\ s.key = key
    BY <2>3
  <2>7. CASE Compare
    <3>1. ph = "compare" /\ rs2 = rs
      BY <1>1, <2>6, <2>7 DEF Compare
    <3>2. MergeCompare(L, R, n, m, rs, a, b)
      BY <2>4, <3>1
    <3>3. CASE ~(sl.has /\ sr.has) /\ s2 = [s EXCEPT !.phase = "done"]
      <4>1. s2 = [phase |-> "done", l |-> sl, r |-> sr, mark |-> mark, key |-> key]
        BY <2>3, <3>3
      <4>2. a = n + 1 \/ b = m + 1
        BY <2>5, <3>3
      <4>3. MergeStateOK(L, R, n, m, s2, rs, "done", sl, sr, mark, key)
        BY <2>4, <3>2, <4>1, <4>2 DEF MergeStateOK
      <4> QED BY <1>1, <1>4, <3>1, <4>3
    <3>4. CASE sl.has /\ sr.has /\ sl.row.key < sr.row.key /\ s2 = [s EXCEPT !.l = ReadFrom(sl, L)]
      <4>1. PICK sl2 : sl2 = ReadFrom(sl, L)
        OBVIOUS
      <4>2. s2 = [phase |-> "compare", l |-> sl2, r |-> sr, mark |-> mark, key |-> key]
        BY <2>3, <3>1, <3>4, <4>1
      <4>3. a \in 1..n /\ b \in 1..m /\ L[a].key < R[b].key /\ a + 1 \in Nat
        BY <2>5, <3>4
      <4>4. Cursor(sl2, L, n, a + 1)
        BY <1>3, <2>4, <4>1, <4>3, CursorRead
      <4>5. MergeCompare(L, R, n, m, rs, a + 1, b)
        BY <1>2, <3>2, <4>3, MergeLess
      <4>6. MergeStateOK(L, R, n, m, s2, rs, "compare", sl2, sr, mark, key)
        BY <2>4, <4>2, <4>3, <4>4, <4>5 DEF MergeStateOK
      <4> QED BY <1>1, <1>4, <3>1, <4>6
    <3>5. CASE sl.has /\ sr.has /\ sl.row.key > sr.row.key /\ s2 = [s EXCEPT !.r = ReadFrom(sr, R)]
      <4>1. PICK sr2 : sr2 = ReadFrom(sr, R)
        OBVIOUS
      <4>2. s2 = [phase |-> "compare", l |-> sl, r |-> sr2, mark |-> mark, key |-> key]
        BY <2>3, <3>1, <3>5, <4>1
      <4>3. a \in 1..n /\ b \in 1..m /\ L[a].key > R[b].key /\ b + 1 \in Nat
        BY <2>5, <3>5
      <4>4. Cursor(sr2, R, m, b + 1)
        BY <1>3, <2>4, <4>1, <4>3, CursorRead
      <4>5. MergeCompare(L, R, n, m, rs, a, b + 1)
        BY <1>2, <3>2, <4>3, MergeGreater
      <4>6. MergeStateOK(L, R, n, m, s2, rs, "compare", sl, sr2, mark, key)
        BY <2>4, <4>2, <4>3, <4>4, <4>5 DEF MergeStateOK
      <4> QED BY <1>1, <1>4, <3>1, <4>6
    <3>6. CASE sl.has /\ sr.has /\ sl.row.key = sr.row.key /\ s2 = [s EXCEPT !.phase = "emit", !.mark = sr, !.key = sl.row.key]
      <4>1. a \in 1..n /\ b \in 1..m /\ L[a].key = R[b].key /\ sl.row.key = L[a].key
        BY <2>5, <3>6
      <4>2. PICK key2, emit : key2 = L[a].key /\ emit = "emit"
        OBVIOUS
      <4>3. s2 = [s EXCEPT !.phase = emit, !.mark = sr, !.key = key2]
        BY <3>6, <4>1, <4>2
      <4>4. s2 = [phase |-> emit, l |-> sl, r |-> sr, mark |-> sr, key |-> key2]
        BY <2>3, <4>3
      <4>5. MergeEmit(L, R, n, m, rs, a, b, b)
        BY <1>2, <3>2, <4>1, MergeEqual
      <4>6. MergeStateOK(L, R, n, m, s2, rs, emit, sl, sr, sr, key2)
        BY <2>4, <4>1, <4>2, <4>4, <4>5 DEF MergeStateOK
      <4> QED BY <1>1, <1>4, <3>1, <4>6
    <3>7. \/ ~(sl.has /\ sr.has) /\ s2 = [s EXCEPT !.phase = "done"]
          \/ sl.has /\ sr.has /\ sl.row.key < sr.row.key /\ s2 = [s EXCEPT !.l = ReadFrom(sl, L)]
          \/ sl.has /\ sr.has /\ sl.row.key > sr.row.key /\ s2 = [s EXCEPT !.r = ReadFrom(sr, R)]
          \/ sl.has /\ sr.has /\ sl.row.key = sr.row.key /\ s2 = [s EXCEPT !.phase = "emit", !.mark = sr, !.key = sl.row.key]
      BY <1>1, <2>6, <2>7 DEF Compare
    <3> QED BY <3>3, <3>4, <3>5, <3>6, <3>7
  <2>8. CASE EmitMatches
    <3>1. ph = "emit"
      BY <1>1, <2>6, <2>8 DEF EmitMatches
    <3>2. PICK c \in 1..m : Cursor(mark, R, m, c) /\ MergeEmit(L, R, n, m, rs, a, b, c) /\ key = L[a].key
      BY <2>4, <3>1
    <3>3. a \in 1..n /\ b \in 1..m /\ sl.row = L[a] /\ sr.row = R[b] /\ b + 1 \in Nat
      BY <2>5, <3>2 DEF MergeEmit
    <3>4. rs2 = Append(rs, <<L[a], R[b]>>)
      BY <1>1, <2>6, <2>8, <3>3 DEF EmitMatches, Emit
    <3>5. PICK sr2 : sr2 = ReadFrom(sr, R)
      OBVIOUS
    <3>6. Cursor(sr2, R, m, b + 1)
      BY <1>3, <2>4, <3>3, <3>5, CursorRead
    <3>7. (sr2.has <=> b + 1 <= m) /\ (sr2.has => sr2.row = R[b + 1])
      BY <3>3, <3>6, CursorHas
    <3>8. PICK ph2 : ph2 = IF sr2.has /\ sr2.row.key = key THEN "emit" ELSE "outer"
      OBVIOUS
    <3>9. s2 = [s EXCEPT !.r = sr2, !.phase = ph2]
      BY <1>1, <2>6, <2>8, <3>5, <3>8 DEF EmitMatches
    <3>10. s2 = [phase |-> ph2, l |-> sl, r |-> sr2, mark |-> mark, key |-> key]
      BY <2>3, <3>9
    <3>11. CASE sr2.has /\ sr2.row.key = key
      <4>1. b + 1 <= m /\ R[b + 1].key = L[a].key /\ ph2 = "emit"
        BY <3>2, <3>7, <3>8, <3>11
      <4>2. MergeEmit(L, R, n, m, rs2, a, b + 1, c)
        BY <1>2, <3>2, <3>4, <4>1, MergeMore
      <4>3. MergeStateOK(L, R, n, m, s2, rs2, ph2, sl, sr2, mark, key)
        BY <2>4, <3>2, <3>3, <3>6, <3>10, <4>1, <4>2 DEF MergeStateOK
      <4> QED BY <1>1, <1>4, <4>3
    <3>12. CASE ~(sr2.has /\ sr2.row.key = key)
      <4>1. ~(b + 1 <= m /\ R[b + 1].key = L[a].key) /\ ph2 = "outer"
        BY <3>2, <3>7, <3>8, <3>12
      <4>2. MergeOuter(L, R, n, m, rs2, a, b + 1, c)
        BY <1>2, <3>2, <3>4, <4>1, MergeNoMore
      <4>3. MergeStateOK(L, R, n, m, s2, rs2, ph2, sl, sr2, mark, key)
        BY <2>4, <3>2, <3>3, <3>6, <3>10, <4>1, <4>2 DEF MergeStateOK
      <4> QED BY <1>1, <1>4, <4>3
    <3> QED BY <3>11, <3>12
  <2>9. CASE AdvanceOuterDuplicates
    <3>1. ph = "outer" /\ rs2 = rs
      BY <1>1, <2>6, <2>9 DEF AdvanceOuterDuplicates
    <3>2. PICK c \in 1..m : Cursor(mark, R, m, c) /\ MergeOuter(L, R, n, m, rs, a, b, c) /\ key = L[a].key
      BY <2>4, <3>1
    <3>3. a \in 1..n /\ a + 1 \in Nat
      BY <3>2 DEF MergeOuter
    <3>4. PICK sl2 : sl2 = ReadFrom(sl, L)
      OBVIOUS
    <3>5. Cursor(sl2, L, n, a + 1)
      BY <1>3, <2>4, <3>3, <3>4, CursorRead
    <3>6. (sl2.has <=> a + 1 <= n) /\ (sl2.has => sl2.row = L[a + 1])
      BY <3>3, <3>5, CursorHas
    <3>7. s2 = IF sl2.has /\ sl2.row.key = key
               THEN [s EXCEPT !.l = sl2, !.r = mark, !.phase = "emit"]
               ELSE [s EXCEPT !.l = sl2, !.phase = "compare"]
      BY <1>1, <2>6, <2>9, <3>4 DEF AdvanceOuterDuplicates, Restored
    <3>8. CASE sl2.has /\ sl2.row.key = key
      <4>1. a + 1 <= n /\ L[a + 1].key = L[a].key
        BY <3>2, <3>6, <3>8
      <4>2. PICK emit : emit = "emit"
        OBVIOUS
      <4>3. s2 = [s EXCEPT !.l = sl2, !.r = mark, !.phase = emit]
        BY <3>7, <3>8, <4>2
      <4>4. s2 = [phase |-> emit, l |-> sl2, r |-> mark, mark |-> mark, key |-> key]
        BY <2>3, <4>3
      <4>5. MergeEmit(L, R, n, m, rs, a + 1, c, c)
        BY <1>2, <3>2, <4>1, MergeSameKey
      <4>6. MergeStateOK(L, R, n, m, s2, rs, emit, sl2, mark, mark, key)
        BY <3>2, <3>3, <3>5, <4>1, <4>2, <4>4, <4>5 DEF MergeStateOK
      <4> QED BY <1>1, <1>4, <3>1, <4>6
    <3>9. CASE ~(sl2.has /\ sl2.row.key = key)
      <4>1. ~(a + 1 <= n /\ L[a + 1].key = L[a].key)
        BY <3>2, <3>6, <3>9
      <4>2. PICK cmp : cmp = "compare"
        OBVIOUS
      <4>3. s2 = [s EXCEPT !.l = sl2, !.phase = cmp]
        BY <3>7, <3>9, <4>2
      <4>4. s2 = [phase |-> cmp, l |-> sl2, r |-> sr, mark |-> mark, key |-> key]
        BY <2>3, <4>3
      <4>5. MergeCompare(L, R, n, m, rs, a + 1, b)
        BY <1>2, <3>2, <4>1, MergeNewKey
      <4>6. MergeStateOK(L, R, n, m, s2, rs, cmp, sl2, sr, mark, key)
        BY <2>4, <3>3, <3>5, <4>2, <4>4, <4>5 DEF MergeStateOK
      <4> QED BY <1>1, <1>4, <3>1, <4>6
    <3> QED BY <3>8, <3>9
  <2> QED BY <1>6, <2>7, <2>8, <2>9
<1> QED BY <1>5, <1>6

LEMMA MergeResult ==
    ASSUME NEW L \in KeyedRows, NEW R \in KeyedRows, NEW s, NEW rs, MergeOK(L, R, s, rs)
    PROVE  JoinResult(rs, L, R, s.phase = "done")
<1>1. CASE s = [phase |-> "init"] /\ rs = <<>>
  <2>1. s.phase # "done"
    BY <1>1
  <2>2. IsInjective(rs) /\ ToSet(rs) = {}
    BY <1>1 DEF IsInjective, ToSet
  <2> QED BY <2>1, <2>2 DEF JoinResult
<1>2. ASSUME NEW n \in Nat, NEW m \in Nat, NEW ph, NEW sl, NEW sr, NEW mark, NEW key,
             MergeInputs(L, R, n, m), MergeStateOK(L, R, n, m, s, rs, ph, sl, sr, mark, key)
      PROVE  JoinResult(rs, L, R, s.phase = "done")
  <2>1. s.phase = ph
    BY <1>2 DEF MergeStateOK
  <2>2. PICK over \in BOOLEAN : over <=> s.phase = "done"
    OBVIOUS
  <2>3. PICK a, b \in Nat :
        \/ ph = "compare" /\ MergeCompare(L, R, n, m, rs, a, b)
        \/ ph = "done" /\ MergeCompare(L, R, n, m, rs, a, b) /\ (a = n + 1 \/ b = m + 1)
        \/ ph = "emit" /\ \E c \in 1..m : MergeEmit(L, R, n, m, rs, a, b, c)
        \/ ph = "outer" /\ \E c \in 1..m : MergeOuter(L, R, n, m, rs, a, b, c)
    BY <1>2 DEF MergeStateOK
  <2>4. DOMAIN L = 1..n /\ DOMAIN R = 1..m
    BY <1>2 DEF MergeInputs
  <2>5. PICK P : /\ Yields(rs, FALSE, L, R, P)
                 /\ \A i \in DOMAIN L : P[i] \subseteq Matches(L, R, i)
                 /\ ph = "done" => \A i \in DOMAIN L : P[i] = Matches(L, R, i)
    <3>1. CASE MergeCompare(L, R, n, m, rs, a, b) /\ (ph = "done" => (a = n + 1 \/ b = m + 1))
      <4>1. PICK P : P = Probed(L, R, 1 .. a - 1, 0, {})
        OBVIOUS
      <4>2. \A i \in DOMAIN L : P[i] = IF i \in 1..(a - 1) THEN Matches(L, R, i) ELSE {}
        BY <4>1 DEF Probed
      <4>3. \A i \in DOMAIN L : P[i] \subseteq Matches(L, R, i)
        BY <4>2
      <4>4. ASSUME ph = "done", NEW i \in DOMAIN L PROVE P[i] = Matches(L, R, i)
        <5>1. CASE i \in 1..(a - 1)
          BY <4>2, <5>1
        <5>2. CASE i \notin 1..(a - 1)
          <6>1. b = m + 1 /\ i \in a..n
            BY <2>4, <3>1, <4>4, <5>2 DEF MergeCompare
          <6>2. \A j \in 1..m : L[i].key > R[j].key /\ R[j].key \in Nat /\ L[i].key \in Nat
            BY <1>2, <2>4, <3>1, <4>4, <6>1 DEF MergeCompare, MergeInputs
          <6>3. Matches(L, R, i) = {}
            <7>1. \A j \in 1..m : L[i].key # R[j].key
              BY <6>2
            <7> QED BY <2>4, <7>1 DEF Matches
          <6> QED BY <4>2, <5>2, <6>3
        <5> QED BY <5>1, <5>2
      <4>5. Yields(rs, FALSE, L, R, P)
        BY <3>1, <4>1 DEF MergeCompare
      <4> QED BY <4>3, <4>4, <4>5
    <3>2. ASSUME NEW c \in 1..m, ph # "done",
                 MergeEmit(L, R, n, m, rs, a, b, c) \/ MergeOuter(L, R, n, m, rs, a, b, c)
          PROVE  \E P : /\ Yields(rs, FALSE, L, R, P)
                        /\ \A i \in DOMAIN L : P[i] \subseteq Matches(L, R, i)
                        /\ ph = "done" => \A i \in DOMAIN L : P[i] = Matches(L, R, i)
      <4>1. PICK P : P = Probed(L, R, 1 .. a - 1, a, c .. b - 1)
        OBVIOUS
      <4>2. \A i \in DOMAIN L : P[i] = IF i \in 1..(a - 1) THEN Matches(L, R, i) ELSE IF i = a THEN c..(b - 1) ELSE {}
        BY <4>1 DEF Probed
      <4>3. c..(b - 1) \subseteq Matches(L, R, a)
        <5>1. CASE MergeEmit(L, R, n, m, rs, a, b, c)
          <6>1. \A j \in c..(b - 1) : j \in 1..m /\ R[j].key = L[a].key
            BY <5>1 DEF MergeEmit
          <6> QED BY <2>4, <6>1 DEF Matches
        <5>2. CASE MergeOuter(L, R, n, m, rs, a, b, c)
          <6>1. \A j \in c..(b - 1) : j \in 1..m /\ R[j].key = L[a].key
            BY <5>2 DEF MergeOuter
          <6> QED BY <2>4, <6>1 DEF Matches
        <5> QED BY <3>2, <5>1, <5>2
      <4>4. \A i \in DOMAIN L : P[i] \subseteq Matches(L, R, i)
        BY <4>2, <4>3
      <4>5. Yields(rs, FALSE, L, R, P)
        BY <3>2, <4>1 DEF MergeEmit, MergeOuter
      <4> QED BY <3>2, <4>4, <4>5
    <3> QED BY <2>3, <3>1, <3>2
  <2>6. L = (IF FALSE THEN R ELSE L) /\ R = (IF FALSE THEN L ELSE R) /\ FALSE \in BOOLEAN
    OBVIOUS
  <2>7. over => \A i \in DOMAIN L : P[i] = Matches(L, R, i)
    BY <2>1, <2>2, <2>5
  <2>8. JoinResult(rs, L, R, over)
    BY <2>5, <2>6, <2>7, YieldsResult, Zenon
  <2> QED BY <2>2, <2>8, Zenon DEF JoinResult
<1> QED BY <1>1, <1>2 DEF MergeOK

-----------------------------------------------------------------------------
(* All the joins.                                                          *)

JoinInv ==
    op \in JoinOps =>
        /\ left \in KeyedRows /\ right \in KeyedRows
        /\ op \in NestedLoop => NestedLoopOK(left, right, st, out)
        /\ op \in IndexLoop => IndexLoopOK(left, right, st, out)
        /\ op \in Hash => HashOK(ProbeRows, BuildRows, op = "hashBuildLeft", st, out)
        /\ op = "merge" => InOrder(left) /\ InOrder(right) /\ MergeOK(left, right, st, out)

LEMMA JoinKinds ==
    /\ NestedLoop \cap IndexLoop = {} /\ NestedLoop \cap Hash = {} /\ IndexLoop \cap Hash = {}
    /\ "merge" \notin NestedLoop /\ "merge" \notin IndexLoop /\ "merge" \notin Hash
    /\ JoinOps = NestedLoop \cup IndexLoop \cup Hash \cup {"merge"}
    /\ {"sort", "topN", "unique", "streamAggregate", "scalarStream", "hashAggregate", "scalarAggregate"} \cap JoinOps = {}
    /\ SetOps \cap JoinOps = {}
BY DEF NestedLoop, IndexLoop, Hash, JoinOps, SetOps

(* A join never is in a phase of an aggregation.                           *)
LEMMA JoinPhase ==
    ASSUME JoinInv, op \in JoinOps
    PROVE  st.phase \in {"next", "done", "partition", "init", "compare", "emit", "outer"}
<1>1. CASE op \in NestedLoop
  BY <1>1 DEF JoinInv, NestedLoopOK
<1>2. CASE op \in IndexLoop
  BY <1>2 DEF JoinInv, IndexLoopOK
<1>3. CASE op \in Hash
  BY <1>3 DEF JoinInv, HashOK, HashingOK
<1>4. CASE op = "merge"
  BY <1>4, MergePhase DEF JoinInv, MergePhases
<1> QED BY <1>1, <1>2, <1>3, <1>4, JoinKinds

LEMMA JoinInit == Init => JoinInv
<1> SUFFICES ASSUME Init, op \in JoinOps PROVE JoinInv
  BY DEF JoinInv
<1>1. InitJoin
  BY JoinKinds DEF Init, InitOrder, InitSetOp, InitAggregate, HashAggregates, StreamAggregates
<1>2. PICK L, R, s, rs : L = left /\ R = right /\ s = st /\ rs = out
  OBVIOUS
<1>3. L \in KeyedRows /\ R \in KeyedRows /\ rs = <<>>
  BY <1>1, <1>2 DEF InitJoin
<1>4. PICK n \in Nat : n = Len(L) /\ DOMAIN L = 1..n
  BY <1>3, KeyedRowsAre
<1>5. PICK m \in Nat : m = Len(R) /\ DOMAIN R = 1..m
  BY <1>3, KeyedRowsAre
<1>6. ASSUME op \in NestedLoop PROVE NestedLoopOK(L, R, s, rs)
  <2>1. s = [phase |-> "next", l |-> 1, r |-> 1]
    BY <1>1, <1>2, <1>6, JoinKinds DEF InitJoin
  <2>2. PICK P : P = NestedProgress(L, R, 1, 1)
    OBVIOUS
  <2>3. P = [i \in DOMAIN L |-> {j \in Matches(L, R, i) : i < 1 \/ (i = 1 /\ j < 1)}]
    BY <2>2 DEF NestedProgress
  <2>4. \A i \in DOMAIN L : \A j \in Matches(L, R, i) : ~(i < 1 \/ (i = 1 /\ j < 1))
    BY <1>4, <1>5 DEF Matches
  <2>5. \A i \in DOMAIN L : P[i] = {}
    BY <2>3, <2>4
  <2>6. P \in [DOMAIN L -> SUBSET DOMAIN R]
    BY <2>3 DEF Matches
  <2>7. Yields(rs, FALSE, L, R, P)
    BY <1>3, <2>5, <2>6, YieldsNothing
  <2>8. s.phase = "next" /\ 1 \in 1..(n + 1) /\ 1 \in 1..(m + 1)
    BY <2>1
  <2>9. s = [phase |-> s.phase, l |-> 1, r |-> 1]
    BY <2>1, <2>8
  <2> QED BY <1>4, <1>5, <2>2, <2>7, <2>8, <2>9 DEF NestedLoopOK
<1>7. ASSUME op \in IndexLoop PROVE IndexLoopOK(L, R, s, rs)
  <2>1. s = [phase |-> "next", l |-> 0, matches |-> <<>>, pos |-> 1, cache |-> <<>>]
    BY <1>1, <1>2, <1>7, JoinKinds DEF InitJoin
  <2>2. s.phase = "next" /\ s.cache = <<>> /\ 0 \in 0..n /\ 1 \in Nat \ {0}
    BY <2>1
  <2>3. FoundFor(L, R, 0) = <<>> /\ Len(<<>>) = 0
    BY DEF FoundFor
  <2>4. s = [phase |-> s.phase, l |-> 0, matches |-> FoundFor(L, R, 0), pos |-> 1, cache |-> s.cache]
    BY <2>1, <2>2, <2>3
  <2>5. CacheOK(R, s.cache)
    BY <2>2 DEF CacheOK
  <2>6. PICK P : P = Probed(L, R, 1..(0 - 1), 0, Taken(PlaceOf(Matches(L, R, 0)), 1))
    OBVIOUS
  <2>7. Taken(PlaceOf(Matches(L, R, 0)), 1) = {} /\ 1..(0 - 1) = {}
    BY DEF Taken
  <2>8. P = [i \in DOMAIN L |-> {}]
    BY <2>6, <2>7 DEF Probed
  <2>9. Yields(rs, FALSE, L, R, P)
    BY <1>3, <2>8, YieldsNothing
  <2>10. 1 <= Len(FoundFor(L, R, 0)) + 1 /\ s.phase # "done" /\ 0 \in 0..Len(L)
    BY <1>4, <2>2, <2>3
  <2>11. Yields(rs, FALSE, L, R, Probed(L, R, 1..(0 - 1), 0, Taken(PlaceOf(Matches(L, R, 0)), 1)))
    BY <2>6, <2>9
  <2> QED BY <2>2, <2>4, <2>5, <2>10, <2>11, Zenon DEF IndexLoopOK
<1>8. ASSUME op \in Hash PROVE HashOK(ProbeRows, BuildRows, op = "hashBuildLeft", s, rs)
  <2>1. s = [phase |-> "partition", batches |-> 1]
    BY <1>1, <1>2, <1>8, JoinKinds DEF InitJoin
  <2> QED BY <1>3, <2>1 DEF HashOK
<1>9. ASSUME op = "merge" PROVE InOrder(L) /\ InOrder(R) /\ MergeOK(L, R, s, rs)
  <2>1. s = [phase |-> "init"]
    BY <1>1, <1>2, <1>9, JoinKinds DEF InitJoin
  <2>2. InOrder(L) /\ InOrder(R)
    BY <1>1, <1>2, <1>9 DEF InitJoin
  <2> QED BY <1>3, <2>1, <2>2 DEF MergeOK
<1> QED BY <1>2, <1>3, <1>6, <1>7, <1>8, <1>9 DEF JoinInv

(* A step changes neither the operator nor its inputs.                     *)
LEMMA InputsStay == [Next]_vars => UNCHANGED Inputs
BY DEF Next, JoinStep, OrderStep, AggregateStep, NestedLoopNext, IndexLoopNext, PartitionInputsIntoBatches,
       HashNext, InitMergeJoin, Compare, EmitMatches, AdvanceOuterDuplicates, SortRead, SortEndOfInput,
       StartGroup, MergeRunGroup, EndPass, TopNRead, TopNEndOfInput, OrderedNext, UniqueNext, SetOpNext,
       HashAggregateInit, EmitEmpty, LoadNextBatch, HashAggregateNext, StreamAggregateNext, Ended, Inputs, vars

(* The steps a join can take.                                              *)
LEMMA JoinSteps ==
    ASSUME JoinInv, op \in JoinOps, [Next]_vars
    PROVE  \/ JoinStep
           \/ UNCHANGED <<st, out>>
<1>1. CASE OrderStep
  BY <1>1, JoinKinds DEF OrderStep, SortRead, SortEndOfInput, StartGroup, MergeRunGroup, EndPass, TopNRead,
                         TopNEndOfInput, OrderedNext
<1>2. CASE UniqueNext \/ SetOpNext
  BY <1>2, JoinKinds DEF UniqueNext, SetOpNext
<1>3. CASE AggregateStep
  <2>1. st.phase \notin {"empty", "load", "groups"}
    BY JoinPhase
  <2> QED BY <1>3, <2>1, JoinKinds DEF AggregateStep, HashAggregateInit, EmitEmpty, LoadNextBatch,
                                       HashAggregateNext, StreamAggregateNext, HashAggregates, StreamAggregates
<1>4. CASE Ended \/ UNCHANGED vars
  BY <1>4 DEF Ended, vars
<1> QED BY <1>1, <1>2, <1>3, <1>4 DEF Next

LEMMA JoinKept == JoinInv /\ [Next]_vars => JoinInv'
<1> SUFFICES ASSUME JoinInv, [Next]_vars, op \in JoinOps PROVE JoinInv'
  BY InputsStay DEF JoinInv, Inputs
<1>1. op' = op /\ left' = left /\ right' = right
  BY InputsStay DEF Inputs
<1>2. left \in KeyedRows /\ right \in KeyedRows
  BY DEF JoinInv
<1>3. ProbeRows' = ProbeRows /\ BuildRows' = BuildRows
  BY <1>1 DEF ProbeRows, BuildRows
<1>4. CASE UNCHANGED <<st, out>>
  <2>1. st' = st /\ out' = out
    BY <1>4
  <2> QED BY <1>1, <1>3, <2>1 DEF JoinInv
<1>5. CASE JoinStep
  <2>1. CASE op \in NestedLoop
    <3>1. NestedLoopNext
      BY <1>5, <2>1, JoinKinds DEF JoinStep, IndexLoopNext, PartitionInputsIntoBatches, HashNext, InitMergeJoin,
                                   Compare, EmitMatches, AdvanceOuterDuplicates
    <3>2. NestedLoopOK(left, right, st', out')
      BY <1>2, <2>1, <3>1, NestedLoopStep DEF JoinInv
    <3> QED BY <1>1, <1>2, <2>1, <3>2, JoinKinds DEF JoinInv
  <2>2. CASE op \in IndexLoop
    <3>1. IndexLoopNext
      BY <1>5, <2>2, JoinKinds DEF JoinStep, NestedLoopNext, PartitionInputsIntoBatches, HashNext, InitMergeJoin,
                                   Compare, EmitMatches, AdvanceOuterDuplicates
    <3>2. IndexLoopOK(left, right, st', out')
      BY <1>2, <2>2, <3>1, IndexLoopStep DEF JoinInv
    <3> QED BY <1>1, <1>2, <2>2, <3>2, JoinKinds DEF JoinInv
  <2>3. CASE op \in Hash
    <3>1. PartitionInputsIntoBatches \/ HashNext
      BY <1>5, <2>3, JoinKinds DEF JoinStep, NestedLoopNext, IndexLoopNext, InitMergeJoin,
                                   Compare, EmitMatches, AdvanceOuterDuplicates
    <3>2. HashOK(ProbeRows, BuildRows, op = "hashBuildLeft", st', out')
      BY <1>2, <2>3, <3>1, PartitionStep, HashStep DEF JoinInv
    <3> QED BY <1>1, <1>2, <1>3, <2>3, <3>2, JoinKinds DEF JoinInv
  <2>4. CASE op = "merge"
    <3>1. InitMergeJoin \/ Compare \/ EmitMatches \/ AdvanceOuterDuplicates
      BY <1>5, <2>4, JoinKinds DEF JoinStep, NestedLoopNext, IndexLoopNext, PartitionInputsIntoBatches, HashNext
    <3>2. MergeOK(left, right, st', out') /\ InOrder(left) /\ InOrder(right)
      BY <1>2, <2>4, <3>1, MergeStep DEF JoinInv
    <3> QED BY <1>1, <1>2, <2>4, <3>2, JoinKinds DEF JoinInv
  <2> QED BY <2>1, <2>2, <2>3, <2>4, JoinKinds
<1> QED BY <1>4, <1>5, JoinSteps

LEMMA JoinInvResult == JoinInv => JoinsAgree
<1> SUFFICES ASSUME JoinInv, op \in JoinOps PROVE JoinResult(out, left, right, st.phase = "done")
  BY DEF JoinsAgree, JoinResult, Done
<1>1. left \in KeyedRows /\ right \in KeyedRows
  BY DEF JoinInv
<1>2. CASE op \in NestedLoop
  BY <1>1, <1>2, NestedLoopResult DEF JoinInv
<1>3. CASE op \in IndexLoop
  BY <1>1, <1>3, IndexLoopResult DEF JoinInv
<1>4. CASE op \in Hash
  <2>1. PICK swap \in BOOLEAN : swap = (op = "hashBuildLeft")
    OBVIOUS
  <2>2. PICK O, I : O = ProbeRows /\ I = BuildRows
    OBVIOUS
  <2>3. O \in KeyedRows /\ I \in KeyedRows /\ HashOK(O, I, swap, st, out)
    BY <1>1, <1>4, <2>1, <2>2 DEF JoinInv, ProbeRows, BuildRows
  <2>4. left = (IF swap THEN I ELSE O) /\ right = (IF swap THEN O ELSE I)
    BY <2>1, <2>2 DEF ProbeRows, BuildRows
  <2> QED BY <2>3, <2>4, HashResult
<1>5. CASE op = "merge"
  BY <1>1, <1>5, MergeResult DEF JoinInv
<1> QED BY <1>2, <1>3, <1>4, <1>5, JoinKinds

(* JoinInv is inductive: between any two calls of Next of a join, its place *)
(* in the inputs, its batch, its cache and its marked row say exactly       *)
(* which matching pairs were returned.                                      *)
THEOREM JoinsInvariant == Spec => []JoinInv
<1>1. JoinInv /\ UNCHANGED vars => JoinInv'
  BY JoinKept
<1> QED BY JoinInit, JoinKept, PTL DEF Spec

(* Whichever algorithm runs, a join returns every matching pair once.      *)
THEOREM JoinsReturnEveryMatchOnce == Spec => []JoinsAgree
BY JoinsInvariant, JoinInvResult, PTL

-----------------------------------------------------------------------------
(* Files of sorted rows.                                                   *)

(* Different rows in the order of their keys.                              *)
Sorted(f) ==
    /\ \E T : f \in Seq(T)
    /\ \A i, j \in DOMAIN f : f[i] = f[j] => i = j
    /\ InOrder(f)

(* Sorted files that share no row and hold the rows S.                     *)
Files(fs, S) ==
    /\ \E T : fs \in Seq(T)
    /\ \A i \in DOMAIN fs : Sorted(fs[i])
    /\ \A i, j \in DOMAIN fs : \A x : x \in ToSet(fs[i]) /\ x \in ToSet(fs[j]) => i = j
    /\ \A x : x \in S <=> \E i \in DOMAIN fs : x \in ToSet(fs[i])

LEMMA SortedAre ==
    ASSUME NEW f, Sorted(f)
    PROVE  \E T : \E k \in Nat : f \in Seq(T) /\ k = Len(f) /\ DOMAIN f = 1..k
<1>1. PICK T : f \in Seq(T)
  BY DEF Sorted
<1>2. Len(f) \in Nat /\ DOMAIN f = 1..Len(f)
  BY <1>1
<1> QED BY <1>1, <1>2

LEMMA InToSet ==
    ASSUME NEW f, NEW x
    PROVE  x \in ToSet(f) <=> \E i \in DOMAIN f : f[i] = x
BY DEF ToSet

LEMMA SortedEmpty == Sorted(<<>>) /\ ToSet(<<>>) = {}
<1>1. <<>> \in Seq({}) /\ DOMAIN <<>> = {}
  OBVIOUS
<1> QED BY <1>1 DEF Sorted, InOrder, ToSet

(* The first row of a file is its least.                                   *)
LEMMA SortedHead ==
    ASSUME NEW f, Sorted(f), f # <<>>, \A x \in ToSet(f) : x.key \in Nat
    PROVE  /\ Head(f) \in ToSet(f) /\ \A x \in ToSet(f) : Head(f).key <= x.key
           /\ Sorted(Tail(f)) /\ \A x : x \in ToSet(Tail(f)) <=> x \in ToSet(f) /\ x # Head(f)
<1>1. PICK T : \E k \in Nat : f \in Seq(T) /\ k = Len(f) /\ DOMAIN f = 1..k
  BY SortedAre
<1>2. PICK k \in Nat : f \in Seq(T) /\ k = Len(f) /\ DOMAIN f = 1..k
  BY <1>1
<1>3. k >= 1 /\ Head(f) = f[1] /\ 1 \in DOMAIN f
  BY <1>2
<1>4. PICK g : g = Tail(f)
  OBVIOUS
<1>5. g \in Seq(T) /\ DOMAIN g = 1..(k - 1) /\ \A i \in 1..(k - 1) : g[i] = f[i + 1]
  BY <1>2, <1>3, <1>4
<1>6. \A i, j \in 1..k : f[i] = f[j] => i = j
  BY <1>2 DEF Sorted
<1>7. \A i, j \in 1..k : i < j => f[i].key <= f[j].key
  BY <1>2 DEF Sorted, InOrder
<1>8. Head(f) \in ToSet(f)
  BY <1>3, InToSet
<1>9. ASSUME NEW x \in ToSet(f) PROVE Head(f).key <= x.key
  <2>1. PICK i \in 1..k : f[i] = x
    BY <1>2, <1>9, InToSet
  <2>2. CASE i = 1
    BY <1>3, <1>9, <2>1, <2>2
  <2>3. CASE i # 1
    BY <1>3, <1>7, <2>1, <2>3
  <2> QED BY <2>2, <2>3
<1>10. Sorted(g)
  <2>1. \A i, j \in DOMAIN g : g[i] = g[j] => i = j
    BY <1>5, <1>6, SMTT(40)
  <2>2. InOrder(g)
    BY <1>5, <1>7, SMTT(40) DEF InOrder
  <2>3. \E U : g \in Seq(U)
    BY <1>5
  <2> QED BY <2>1, <2>2, <2>3 DEF Sorted
<1>11. ASSUME NEW x PROVE x \in ToSet(g) <=> x \in ToSet(f) /\ x # Head(f)
  <2>1. ASSUME x \in ToSet(g) PROVE x \in ToSet(f) /\ x # Head(f)
    <3>1. PICK i \in 1..(k - 1) : g[i] = x
      BY <1>5, <2>1, InToSet
    <3>2. i + 1 \in 1..k /\ f[i + 1] = x /\ i + 1 # 1
      BY <1>5, <3>1
    <3> QED BY <1>2, <1>3, <1>6, <3>2, InToSet
  <2>2. ASSUME x \in ToSet(f), x # Head(f) PROVE x \in ToSet(g)
    <3>1. PICK i \in 1..k : f[i] = x
      BY <1>2, <2>2, InToSet
    <3>2. i # 1
      BY <1>3, <2>2, <3>1
    <3>3. i - 1 \in 1..(k - 1) /\ g[i - 1] = x
      BY <1>5, <3>1, <3>2
    <3> QED BY <1>5, <3>3, InToSet
  <2> QED BY <2>1, <2>2
<1> QED BY <1>4, <1>8, <1>9, <1>10, <1>11

(* A row no less than the others goes to the end.                          *)
LEMMA SortedAppend ==
    ASSUME NEW f, Sorted(f), NEW x, x \notin ToSet(f), \A y \in ToSet(f) : y.key <= x.key
    PROVE  Sorted(Append(f, x)) /\ \A y : y \in ToSet(Append(f, x)) <=> y \in ToSet(f) \/ y = x
<1>1. PICK T : \E k \in Nat : f \in Seq(T) /\ k = Len(f) /\ DOMAIN f = 1..k
  BY SortedAre
<1>2. PICK k \in Nat : f \in Seq(T) /\ k = Len(f) /\ DOMAIN f = 1..k
  BY <1>1
<1>3. PICK g : g = Append(f, x)
  OBVIOUS
<1>4. g \in Seq(T \cup {x}) /\ DOMAIN g = 1..(k + 1) /\ g[k + 1] = x /\ \A i \in 1..k : g[i] = f[i]
  BY <1>2, <1>3
<1>5. \A i \in 1..k : f[i] \in ToSet(f) /\ f[i] # x
  BY <1>2, InToSet
<1>6. \A i, j \in DOMAIN g : g[i] = g[j] => i = j
  <2>1. \A i, j \in 1..k : f[i] = f[j] => i = j
    BY <1>2 DEF Sorted
  <2> QED BY <1>4, <1>5, <2>1
<1>7. InOrder(g)
  <2>1. \A i, j \in 1..k : i < j => f[i].key <= f[j].key
    BY <1>2 DEF Sorted, InOrder
  <2>2. \A i \in 1..k : f[i].key <= x.key
    BY <1>5
  <2>3. ASSUME NEW i \in 1..(k + 1), NEW j \in 1..(k + 1), i < j PROVE g[i].key <= g[j].key
    <3>1. i \in 1..k
      BY <2>3
    <3>2. CASE j = k + 1
      BY <1>4, <2>2, <3>1, <3>2
    <3>3. CASE j \in 1..k
      BY <1>4, <2>1, <2>3, <3>1, <3>3
    <3> QED BY <2>3, <3>2, <3>3
  <2> QED BY <1>4, <2>3 DEF InOrder
<1>8. Sorted(g)
  BY <1>4, <1>6, <1>7 DEF Sorted
<1>9. ASSUME NEW y PROVE y \in ToSet(g) <=> y \in ToSet(f) \/ y = x
  <2>1. y \in ToSet(g) <=> \E i \in 1..(k + 1) : g[i] = y
    BY <1>4, InToSet
  <2>2. y \in ToSet(f) <=> \E i \in 1..k : f[i] = y
    BY <1>2, InToSet
  <2> QED BY <1>4, <2>1, <2>2
<1> QED BY <1>3, <1>8, <1>9

LEMMA FilesAre ==
    ASSUME NEW fs, NEW S, Files(fs, S)
    PROVE  \E T : \E k \in Nat : fs \in Seq(T) /\ k = Len(fs) /\ DOMAIN fs = 1..k
<1>1. PICK T : fs \in Seq(T)
  BY DEF Files
<1>2. Len(fs) \in Nat /\ DOMAIN fs = 1..Len(fs)
  BY <1>1
<1> QED BY <1>1, <1>2

LEMMA FilesEmpty == Files(<<>>, {})
<1>1. <<>> \in Seq({}) /\ DOMAIN <<>> = {}
  OBVIOUS
<1> QED BY <1>1 DEF Files

(* One more file.                                                          *)
LEMMA FilesAppend ==
    ASSUME NEW fs, NEW S, Files(fs, S), NEW f, Sorted(f), \A x \in ToSet(f) : x \notin S,
           NEW S2, \A x : x \in S2 <=> x \in S \/ x \in ToSet(f)
    PROVE  Files(Append(fs, f), S2)
<1>1. PICK T : \E k \in Nat : fs \in Seq(T) /\ k = Len(fs) /\ DOMAIN fs = 1..k
  BY FilesAre
<1>2. PICK k \in Nat : fs \in Seq(T) /\ k = Len(fs) /\ DOMAIN fs = 1..k
  BY <1>1
<1>3. PICK gs : gs = Append(fs, f)
  OBVIOUS
<1>4. gs \in Seq(T \cup {f}) /\ DOMAIN gs = 1..(k + 1) /\ gs[k + 1] = f /\ \A i \in 1..k : gs[i] = fs[i]
  BY <1>2, <1>3
<1>5. \A i \in 1..k : \A x \in ToSet(fs[i]) : x \in S /\ x \notin ToSet(f)
  BY <1>2 DEF Files
<1>6. \A i \in DOMAIN gs : Sorted(gs[i])
  BY <1>2, <1>4 DEF Files
<1>7. \A i, j \in DOMAIN gs : \A x : x \in ToSet(gs[i]) /\ x \in ToSet(gs[j]) => i = j
  <2> SUFFICES ASSUME NEW i \in 1..(k + 1), NEW j \in 1..(k + 1), NEW x, x \in ToSet(gs[i]), x \in ToSet(gs[j])
               PROVE  i = j
    BY <1>4
  <2>1. CASE i \in 1..k /\ j \in 1..k
    BY <1>2, <1>4, <2>1 DEF Files
  <2>2. CASE i = k + 1 /\ j = k + 1
    BY <2>2
  <2>3. CASE i = k + 1 /\ j \in 1..k
    BY <1>4, <1>5, <2>3
  <2>4. CASE i \in 1..k /\ j = k + 1
    BY <1>4, <1>5, <2>4
  <2> QED BY <2>1, <2>2, <2>3, <2>4
<1>8. ASSUME NEW x PROVE x \in S2 <=> \E i \in DOMAIN gs : x \in ToSet(gs[i])
  <2>1. x \in S <=> \E i \in 1..k : x \in ToSet(fs[i])
    BY <1>2 DEF Files
  <2>2. (\E i \in 1..(k + 1) : x \in ToSet(gs[i])) <=> (\E i \in 1..k : x \in ToSet(fs[i])) \/ x \in ToSet(f)
    BY <1>4
  <2> QED BY <1>4, <2>1, <2>2
<1> QED BY <1>3, <1>4, <1>6, <1>7, <1>8 DEF Files

(* A single file holds all the rows.                                       *)
LEMMA FilesOne ==
    ASSUME NEW fs, NEW S, Files(fs, S), Len(fs) = 1
    PROVE  Sorted(fs[1]) /\ ToSet(fs[1]) = S
<1>1. PICK T : \E k \in Nat : fs \in Seq(T) /\ k = Len(fs) /\ DOMAIN fs = 1..k
  BY FilesAre
<1>2. DOMAIN fs = 1..1
  BY <1>1
<1>3. \A i \in DOMAIN fs : i = 1
  BY <1>2
<1>4. \A x : x \in S <=> x \in ToSet(fs[1])
  BY <1>2, <1>3 DEF Files
<1> QED BY <1>2, <1>4 DEF Files

(* Some files and the others.                                              *)
LEMMA FilesSplit ==
    ASSUME NEW fs, NEW S, Files(fs, S), NEW n \in 1..Len(fs)
    PROVE  \E A, B : /\ \A x : (x \in S <=> x \in A \/ x \in B) /\ ~(x \in A /\ x \in B)
                     /\ Files(SubSeq(fs, 1, n), A) /\ Files(SubSeq(fs, n + 1, Len(fs)), B)
<1>1. PICK T : \E k \in Nat : fs \in Seq(T) /\ k = Len(fs) /\ DOMAIN fs = 1..k
  BY FilesAre
<1>2. PICK k \in Nat : fs \in Seq(T) /\ k = Len(fs) /\ DOMAIN fs = 1..k
  BY <1>1
<1>3. PICK gs, hs : gs = SubSeq(fs, 1, n) /\ hs = SubSeq(fs, n + 1, k)
  OBVIOUS
<1>4. gs \in Seq(T) /\ DOMAIN gs = 1..n /\ \A i \in 1..n : gs[i] = fs[i]
  BY <1>2, <1>3
<1>5. hs \in Seq(T) /\ DOMAIN hs = 1..(k - n) /\ \A i \in 1..(k - n) : hs[i] = fs[n + i]
  BY <1>2, <1>3
<1>6. PICK A, B : /\ A = {x \in S : \E i \in 1..n : x \in ToSet(fs[i])}
                  /\ B = {x \in S : \E i \in (n + 1)..k : x \in ToSet(fs[i])}
  OBVIOUS
<1>7. \A i \in 1..k : \A x \in ToSet(fs[i]) : x \in S
  BY <1>2 DEF Files
<1>8. \A x \in S : \E i \in 1..k : x \in ToSet(fs[i])
  BY <1>2 DEF Files
<1>9. \A i, j \in 1..k : \A x : x \in ToSet(fs[i]) /\ x \in ToSet(fs[j]) => i = j
  BY <1>2 DEF Files
<1>10. \A i \in 1..k : Sorted(fs[i])
  BY <1>2 DEF Files
<1>11. \A i : i \in 1..k <=> i \in 1..n \/ i \in (n + 1)..k
  BY <1>2
<1>12. \A i \in 1..n, j \in (n + 1)..k : i # j
  OBVIOUS
<1>13. ASSUME NEW x PROVE (x \in S <=> x \in A \/ x \in B) /\ ~(x \in A /\ x \in B)
  <2>1. x \in S <=> x \in A \/ x \in B
    BY <1>6, <1>8, <1>11
  <2>2. ASSUME x \in A, x \in B PROVE FALSE
    BY <1>6, <1>9, <1>11, <1>12, <2>2
  <2> QED BY <2>1, <2>2
<1>14. Files(gs, A)
  <2>1. \A i \in DOMAIN gs : i \in 1..k /\ gs[i] = fs[i]
    BY <1>2, <1>4
  <2>2. \A x : x \in A <=> \E i \in DOMAIN gs : x \in ToSet(gs[i])
    BY <1>4, <1>6, <1>7, <2>1
  <2> QED BY <1>4, <1>9, <1>10, <2>1, <2>2 DEF Files
<1>15. Files(hs, B)
  <2>1. \A i \in DOMAIN hs : n + i \in 1..k /\ n + i \in (n + 1)..k /\ hs[i] = fs[n + i]
    BY <1>2, <1>5
  <2>2. \A i \in (n + 1)..k : i - n \in DOMAIN hs /\ hs[i - n] = fs[i]
    BY <1>2, <1>5
  <2>3. \A x : x \in B <=> \E i \in DOMAIN hs : x \in ToSet(hs[i])
    BY <1>6, <1>7, <2>1, <2>2
  <2>4. \A i, j \in DOMAIN hs : \A x : x \in ToSet(hs[i]) /\ x \in ToSet(hs[j]) => i = j
    <3>1. \A i, j \in DOMAIN hs : n + i = n + j => i = j
      BY <1>5
    <3> QED BY <1>9, <2>1, <3>1
  <2> QED BY <1>5, <1>10, <2>1, <2>3, <2>4 DEF Files
<1> QED BY <1>2, <1>3, <1>13, <1>14, <1>15

(* The first row of one file is taken.                                     *)
LEMMA FilesTake ==
    ASSUME NEW fs, NEW S, Files(fs, S), NEW i \in DOMAIN fs, fs[i] # <<>>, \A x \in S : x.key \in Nat,
           NEW S2, \A x : x \in S2 <=> x \in S /\ x # Head(fs[i])
    PROVE  Head(fs[i]) \in S /\ Files([fs EXCEPT ![i] = Tail(fs[i])], S2)
<1>1. PICK T : \E k \in Nat : fs \in Seq(T) /\ k = Len(fs) /\ DOMAIN fs = 1..k
  BY FilesAre
<1>2. PICK k \in Nat : fs \in Seq(T) /\ k = Len(fs) /\ DOMAIN fs = 1..k
  BY <1>1
<1>3. Sorted(fs[i]) /\ \A x \in ToSet(fs[i]) : x \in S /\ x.key \in Nat
  BY DEF Files
<1>4. PICK f, h, g : f = fs[i] /\ h = Head(f) /\ g = Tail(f)
  OBVIOUS
<1>5. h \in ToSet(f) /\ Sorted(g) /\ \A x : x \in ToSet(g) <=> x \in ToSet(f) /\ x # h
  BY <1>3, <1>4, SortedHead
<1>6. PICK gs : gs = [fs EXCEPT ![i] = g]
  OBVIOUS
<1>7. gs \in Seq(T \cup {g}) /\ DOMAIN gs = 1..k /\ gs[i] = g /\ \A j \in 1..k : j # i => gs[j] = fs[j]
  BY <1>2, <1>6
<1>8. \A j \in 1..k : Sorted(gs[j])
  BY <1>2, <1>5, <1>7 DEF Files
<1>9. \A j \in 1..k : \A x : x \in ToSet(gs[j]) => x \in ToSet(fs[j])
  BY <1>4, <1>5, <1>7
<1>10. \A j, l \in 1..k : \A x : x \in ToSet(fs[j]) /\ x \in ToSet(fs[l]) => j = l
  BY <1>2 DEF Files
<1>11. \A j, l \in 1..k : \A x : x \in ToSet(gs[j]) /\ x \in ToSet(gs[l]) => j = l
  BY <1>9, <1>10
<1>12. ASSUME NEW x PROVE x \in S2 <=> \E j \in 1..k : x \in ToSet(gs[j])
  <2>1. x \in S <=> \E j \in 1..k : x \in ToSet(fs[j])
    BY <1>2 DEF Files
  <2>2. ASSUME x \in S2 PROVE \E j \in 1..k : x \in ToSet(gs[j])
    BY <1>4, <1>5, <1>7, <2>1, <2>2
  <2>3. ASSUME NEW j \in 1..k, x \in ToSet(gs[j]) PROVE x \in S2
    <3>1. x \in ToSet(fs[j]) /\ x \in S
      BY <1>9, <2>1, <2>3
    <3>2. x # h
      <4>1. CASE j = i
        BY <1>5, <1>7, <2>3, <4>1
      <4>2. CASE j # i
        BY <1>2, <1>4, <1>5, <1>10, <2>3, <3>1, <4>2
      <4> QED BY <4>1, <4>2
    <3> QED BY <1>4, <3>1, <3>2
  <2> QED BY <2>2, <2>3
<1>13. Files(gs, S2)
  BY <1>7, <1>8, <1>11, <1>12 DEF Files
<1>14. h \in S
  BY <1>3, <1>4, <1>5
<1> QED BY <1>4, <1>6, <1>13, <1>14

(* All the rows of a set, in order.                                        *)
LEMMA SortedSeqsAre ==
    ASSUME NEW S, IsFiniteSet(S), NEW f \in SortedSeqs(S)
    PROVE  Sorted(f) /\ ToSet(f) = S /\ (f = <<>> <=> S = {})
<1>1. PICK k \in Nat : k = Cardinality(S)
  BY FS_CardinalityType
<1>2. f \in [1..k -> S] /\ (\A i, j \in 1..k : i # j => f[i] # f[j]) /\ InOrder(f)
  BY <1>1 DEF SortedSeqs, SetToSeqs
<1>3. f \in Injection(1..k, S)
  BY <1>2 DEF Injection, IsInjective
<1>4. IsFiniteSet(1..k) /\ Cardinality(1..k) = k
  BY FS_Interval
<1>5. f \in Surjection(1..k, S)
  BY <1>1, <1>3, <1>4, FS_Injection
<1>6. \A x \in S : \E i \in 1..k : f[i] = x
  BY <1>5 DEF Surjection
<1>7. ToSet(f) = S
  BY <1>2, <1>6 DEF ToSet
<1>8. f \in Seq(S) /\ Len(f) = k
  BY <1>2
<1>9. Sorted(f)
  BY <1>2, <1>8 DEF Sorted
<1>10. f = <<>> <=> k = 0
  BY <1>8
<1>11. k = 0 <=> S = {}
  BY <1>1, FS_EmptySet
<1> QED BY <1>7, <1>9, <1>10, <1>11

-----------------------------------------------------------------------------
(* The sort and top-N.                                                     *)

OrderRows == {Numbered(s) : s \in SeqOf(Key, MaxSortRows)}

(* The first p rows.                                                       *)
FirstRows(L, p) == {L[i] : i \in 1..p}

LEMMA OrderRowsAre ==
    ASSUME NEW L \in OrderRows
    PROVE  \E n \in Nat : /\ n = Len(L) /\ DOMAIN L = 1..n /\ ToSet(L) = FirstRows(L, n)
                          /\ \A x \in ToSet(L) : x.key \in Nat
                          /\ FirstRows(L, 0) = {}
                          /\ \A p \in 0..n : \A x \in FirstRows(L, p) : x \in ToSet(L)
                          /\ \A p \in 0..(n - 1) : /\ L[p + 1] \in ToSet(L) /\ L[p + 1] \notin FirstRows(L, p)
                                                   /\ FirstRows(L, p + 1) = FirstRows(L, p) \cup {L[p + 1]}
                          /\ \A i, j \in 1..n : L[i] = L[j] => i = j
<1>1. MaxSortRows \in Nat
  BY BoundsAssumption
<1>2. PICK n \in Nat : n = Len(L) /\ DOMAIN L = 1..n /\ \A i \in 1..n : L[i].key \in Key /\ L[i].val = i
  BY <1>1, NumberedRowsAre DEF OrderRows
<1>3. ToSet(L) = FirstRows(L, n)
  BY <1>2 DEF ToSet, FirstRows
<1>4. \A x \in ToSet(L) : x.key \in Nat
  BY <1>2, BoundsAssumption DEF ToSet
<1>5. FirstRows(L, 0) = {}
  BY DEF FirstRows
<1>6. \A p \in 0..n : \A x \in FirstRows(L, p) : x \in ToSet(L)
  BY <1>2 DEF FirstRows, ToSet
<1>7. ASSUME NEW p \in 0..(n - 1)
      PROVE  /\ L[p + 1] \in ToSet(L) /\ L[p + 1] \notin FirstRows(L, p)
             /\ FirstRows(L, p + 1) = FirstRows(L, p) \cup {L[p + 1]}
  <2>1. p + 1 \in 1..n /\ 1..(p + 1) = (1..p) \cup {p + 1} /\ p + 1 \notin 1..p
    BY <1>7
  <2>2. L[p + 1] \in ToSet(L)
    BY <1>2, <2>1, InToSet
  <2>3. \A i \in 1..p : i \in 1..n /\ L[i].val # L[p + 1].val
    BY <1>2, <1>7, <2>1
  <2>4. L[p + 1] \notin FirstRows(L, p)
    BY <2>3 DEF FirstRows
  <2>5. FirstRows(L, p + 1) = FirstRows(L, p) \cup {L[p + 1]}
    BY <2>1 DEF FirstRows
  <2> QED BY <2>2, <2>4, <2>5
<1>8. \A i, j \in 1..n : L[i] = L[j] => i = j
  BY <1>2
<1> QED BY <1>2, <1>3, <1>4, <1>5, <1>6, <1>7, <1>8

(* The rows S, sorted in f, are being returned.                            *)
EmittingOK(s, rs, f, S) ==
    /\ s.phase \in {"next", "done"} /\ s = [phase |-> s.phase, rows |-> f]
    /\ Sorted(f) /\ ToSet(f) = S
    /\ \E T : rs \in Seq(T)
    /\ Len(rs) <= Len(f) /\ \A i \in 1..Len(rs) : rs[i] = f[i]
    /\ s.phase = "done" => Len(rs) = Len(f)

LEMMA EmittingBegins ==
    ASSUME NEW s, NEW f, NEW S, s = Emitting(f), Sorted(f), ToSet(f) = S
    PROVE  EmittingOK(s, <<>>, f, S)
<1>1. s = [phase |-> "next", rows |-> f]
  BY DEF Emitting
<1>2. s.phase = "next"
  BY <1>1
<1>3. <<>> \in Seq({}) /\ Len(<<>>) = 0 /\ 1..0 = {}
  OBVIOUS
<1>4. PICK k \in Nat : k = Len(f)
  BY SortedAre
<1>5. Len(<<>>) <= Len(f) /\ \A i \in 1..Len(<<>>) : <<>>[i] = f[i]
  BY <1>3, <1>4
<1>6. \E T : <<>> \in Seq(T)
  BY <1>3
<1> QED BY <1>1, <1>2, <1>5, <1>6 DEF EmittingOK

LEMMA EmittingStep ==
    ASSUME OrderedNext, NEW f, NEW S, EmittingOK(st, out, f, S)
    PROVE  EmittingOK(st', out', f, S)
<1>1. PICK s, rs, s2, rs2 : s = st /\ rs = out /\ s2 = st' /\ rs2 = out'
  OBVIOUS
<1>2. EmittingOK(s, rs, f, S)
  BY <1>1
<1>3. s.phase = "next" /\ s.rows = f
  BY <1>1, <1>2 DEF OrderedNext, EmittingOK
<1>4. PICK T : rs \in Seq(T)
  BY <1>2 DEF EmittingOK
<1>5. PICK k \in Nat : k = Len(rs) /\ DOMAIN rs = 1..k
  BY <1>4
<1>6. PICK m \in Nat : m = Len(f)
  BY <1>2, SortedAre DEF EmittingOK
<1>7. k <= m /\ \A i \in 1..k : rs[i] = f[i]
  BY <1>2, <1>5, <1>6 DEF EmittingOK
<1>8. CASE Len(out) < Len(st.rows) /\ Emit(st.rows[Len(out) + 1]) /\ UNCHANGED st
  <2>1. k < m /\ rs2 = Append(rs, f[k + 1]) /\ s2 = s
    BY <1>1, <1>3, <1>5, <1>6, <1>8 DEF Emit
  <2>2. rs2 \in Seq(T \cup {f[k + 1]}) /\ Len(rs2) = k + 1 /\ rs2[k + 1] = f[k + 1] /\ \A i \in 1..k : rs2[i] = rs[i]
    BY <1>4, <1>5, <2>1
  <2>3. Len(rs2) <= Len(f) /\ \A i \in 1..Len(rs2) : rs2[i] = f[i]
    BY <1>6, <1>7, <2>1, <2>2
  <2>4. \E U : rs2 \in Seq(U)
    BY <2>2
  <2>5. EmittingOK(s2, rs2, f, S)
    BY <1>2, <1>3, <2>1, <2>3, <2>4 DEF EmittingOK
  <2> QED BY <1>1, <2>5
<1>9. CASE Len(out) = Len(st.rows) /\ Finish
  <2>1. Len(rs) = Len(f) /\ rs2 = rs /\ s2 = [s EXCEPT !.phase = "done"]
    BY <1>1, <1>3, <1>9 DEF Finish
  <2>2. s2 = [phase |-> "done", rows |-> f]
    BY <1>2, <2>1 DEF EmittingOK
  <2>3. s2.phase = "done"
    BY <2>2
  <2>4. EmittingOK(s2, rs2, f, S)
    BY <1>2, <2>1, <2>2, <2>3 DEF EmittingOK
  <2> QED BY <1>1, <2>4
<1> QED BY <1>8, <1>9 DEF OrderedNext

(* As many rows as places.                                                 *)
LEMMA CountDistinct ==
    ASSUME NEW k \in Nat, NEW f, f \in [1..k -> ToSet(f)], \A i, j \in 1..k : f[i] = f[j] => i = j
    PROVE  IsFiniteSet(ToSet(f)) /\ Cardinality(ToSet(f)) = k
<1>1. PICK S : S = ToSet(f)
  OBVIOUS
<1>2. f \in [1..k -> S] /\ DOMAIN f = 1..k
  BY <1>1
<1>3. \A x \in S : \E i \in 1..k : f[i] = x
  BY <1>1, <1>2, InToSet
<1>4. f \in Bijection(1..k, S)
  BY <1>2, <1>3 DEF Bijection, Injection, Surjection, IsInjective
<1>5. ExistsBijection(1..k, S)
  BY <1>4 DEF ExistsBijection
<1>6. IsFiniteSet(1..k) /\ Cardinality(1..k) = k
  BY FS_Interval
<1>7. IsFiniteSet(S) /\ Cardinality(S) = k
  BY <1>5, <1>6, FS_Bijection
<1> QED BY <1>1, <1>7

(* When all is returned.                                                   *)
LEMMA EmittingResult ==
    ASSUME NEW s, NEW rs, NEW f, NEW S, EmittingOK(s, rs, f, S), s.phase = "done"
    PROVE  /\ InOrder(rs) /\ IsInjective(rs) /\ ToSet(rs) = S
           /\ IsFiniteSet(S) /\ Len(rs) = Cardinality(S)
<1>1. PICK T : rs \in Seq(T)
  BY DEF EmittingOK
<1>2. PICK k \in Nat : k = Len(rs) /\ DOMAIN rs = 1..k
  BY <1>1
<1>3. k = Len(f) /\ \A i \in 1..k : rs[i] = f[i]
  BY <1>2 DEF EmittingOK
<1>4. Sorted(f) /\ ToSet(f) = S
  BY DEF EmittingOK
<1>5. DOMAIN f = 1..k
  BY <1>3, <1>4, SortedAre
<1>6. InOrder(rs)
  BY <1>2, <1>3, <1>4, <1>5 DEF Sorted, InOrder
<1>7. \A i, j \in 1..k : rs[i] = rs[j] => i = j
  BY <1>3, <1>4, <1>5 DEF Sorted
<1>8. ToSet(rs) = S
  BY <1>2, <1>3, <1>4, <1>5 DEF ToSet
<1>9. rs \in [1..k -> ToSet(rs)]
  BY <1>1, <1>2 DEF ToSet
<1>10. IsFiniteSet(ToSet(rs)) /\ Cardinality(ToSet(rs)) = k
  BY <1>7, <1>9, CountDistinct
<1>11. IsInjective(rs)
  BY <1>2, <1>7 DEF IsInjective
<1> QED BY <1>2, <1>6, <1>8, <1>10, <1>11

(* The heap holds the best of the first p rows.                            *)
HeapOK(L, p, H) ==
    /\ IsFiniteSet(H) /\ Cardinality(H) <= LimitCount
    /\ \A x \in H : x \in FirstRows(L, p)
    /\ Cardinality(H) < LimitCount => \A x \in FirstRows(L, p) : x \in H
    /\ \A x \in FirstRows(L, p), y \in H : x \notin H => y.key <= x.key

TopNOK(L, s, rs) ==
    \/ rs = <<>> /\ \E p \in 0..Len(L) : /\ s = [phase |-> "read", pos |-> p, heap |-> s.heap]
                                         /\ HeapOK(L, p, s.heap)
    \/ \E f, H : HeapOK(L, Len(L), H) /\ EmittingOK(s, rs, f, H)

LEMMA HeapPush ==
    ASSUME NEW L \in OrderRows, NEW p \in Nat, p < Len(L), NEW H, HeapOK(L, p, H), Cardinality(H) < LimitCount
    PROVE  HeapOK(L, p + 1, H \cup {L[p + 1]})
<1>1. PICK n \in Nat : n = Len(L) /\ \A q \in 0..(n - 1) :
          L[q + 1] \notin FirstRows(L, q) /\ FirstRows(L, q + 1) = FirstRows(L, q) \cup {L[q + 1]}
  BY OrderRowsAre
<1>2. PICK x, F, G : x = L[p + 1] /\ F = FirstRows(L, p) /\ G = FirstRows(L, p + 1)
  OBVIOUS
<1>3. x \notin F /\ G = F \cup {x}
  BY <1>1, <1>2
<1>4. H = F
  BY <1>2 DEF HeapOK
<1>5. PICK c \in Nat : c = Cardinality(H) /\ c < LimitCount
  BY FS_CardinalityType DEF HeapOK
<1>6. IsFiniteSet(H \cup {x}) /\ Cardinality(H \cup {x}) = c + 1
  BY <1>3, <1>4, <1>5, FS_AddElement DEF HeapOK
<1>7. H \cup {x} = G
  BY <1>3, <1>4
<1>8. c + 1 <= LimitCount
  BY <1>5, BoundsAssumption
<1> QED BY <1>2, <1>6, <1>7, <1>8 DEF HeapOK

LEMMA HeapReplace ==
    ASSUME NEW L \in OrderRows, NEW p \in Nat, p < Len(L), NEW H, HeapOK(L, p, H), Cardinality(H) = LimitCount,
           NEW front \in H, \A other \in H : other.key <= front.key
    PROVE  HeapOK(L, p + 1, IF L[p + 1].key < front.key THEN (H \ {front}) \cup {L[p + 1]} ELSE H)
<1>1. PICK n \in Nat : /\ n = Len(L)
                       /\ \A q \in 0..(n - 1) :
                             /\ L[q + 1] \in ToSet(L) /\ L[q + 1] \notin FirstRows(L, q)
                             /\ FirstRows(L, q + 1) = FirstRows(L, q) \cup {L[q + 1]}
                       /\ \A y \in ToSet(L) : y.key \in Nat
                       /\ \A q \in 0..n : \A y \in FirstRows(L, q) : y \in ToSet(L)
  BY OrderRowsAre
<1>2. PICK x, F, G : x = L[p + 1] /\ F = FirstRows(L, p) /\ G = FirstRows(L, p + 1)
  OBVIOUS
<1>3. x \notin F /\ G = F \cup {x} /\ x.key \in Nat /\ \A y \in F : y.key \in Nat
  BY <1>1, <1>2
<1>4. /\ IsFiniteSet(H) /\ \A y \in H : y \in F
      /\ \A y \in F, z \in H : y \notin H => z.key <= y.key
  BY <1>2 DEF HeapOK
<1>5. x \notin H /\ front \in F /\ x # front
  BY <1>3, <1>4
<1>6. LimitCount \in Nat
  BY BoundsAssumption
<1>7. CASE x.key < front.key
  <2>1. PICK K : K = (H \ {front}) \cup {x}
    OBVIOUS
  <2>2. IsFiniteSet(H \ {front}) /\ Cardinality(H \ {front}) = LimitCount - 1
    BY <1>4, FS_RemoveElement
  <2>3. IsFiniteSet(K) /\ Cardinality(K) = (LimitCount - 1) + 1
    <3>1. x \notin H \ {front}
      BY <1>5
    <3> QED BY <2>1, <2>2, <3>1, FS_AddElement
  <2>4. Cardinality(K) = LimitCount
    BY <1>6, <2>3
  <2>5. \A y \in K : y \in G
    BY <1>3, <1>4, <2>1
  <2>6. ASSUME NEW y \in G, NEW z \in K, y \notin K PROVE z.key <= y.key
    <3>1. y \in F /\ (y \notin H \/ y = front)
      BY <1>3, <2>1, <2>6
    <3>2. z = x \/ z \in H
      BY <2>1
    <3>3. front.key <= y.key
      <4>1. CASE y = front
        BY <1>3, <1>5, <4>1
      <4>2. CASE y \notin H
        BY <1>4, <3>1, <4>2
      <4> QED BY <3>1, <4>1, <4>2
    <3>4. z.key <= front.key
      BY <1>3, <1>5, <1>7, <3>2
    <3>5. z.key \in Nat /\ y.key \in Nat /\ front.key \in Nat
      BY <1>3, <1>4, <1>5, <3>1, <3>2
    <3> QED BY <3>3, <3>4, <3>5
  <2>7. HeapOK(L, p + 1, K)
    BY <1>2, <1>6, <2>3, <2>4, <2>5, <2>6 DEF HeapOK
  <2> QED BY <1>2, <1>7, <2>1, <2>7
<1>8. CASE ~(x.key < front.key)
  <2>1. \A y \in H : y \in G
    BY <1>3, <1>4
  <2>2. ASSUME NEW y \in G, NEW z \in H, y \notin H PROVE z.key <= y.key
    <3>1. CASE y \in F
      BY <1>4, <2>2, <3>1
    <3>2. CASE y = x
      <4>1. z.key <= front.key /\ z.key \in Nat /\ front.key \in Nat
        BY <1>3, <1>4, <1>5, <2>2
      <4> QED BY <1>3, <1>8, <3>2, <4>1
    <3> QED BY <1>3, <2>2, <3>1, <3>2
  <2>3. HeapOK(L, p + 1, H)
    BY <1>2, <1>4, <1>6, <2>1, <2>2 DEF HeapOK
  <2> QED BY <1>2, <1>8, <2>3
<1> QED BY <1>7, <1>8

LEMMA MinOfTwo ==
    ASSUME NEW a \in Nat, NEW b \in Nat
    PROVE  Min({a, b}) = IF a <= b THEN a ELSE b
<1>1. {a, b} \subseteq Nat /\ {a, b} # {}
  OBVIOUS
<1>2. Min({a, b}) \in {a, b} /\ \A m \in {a, b} : Min({a, b}) <= m
  BY <1>1, MinOfNaturals
<1> QED BY <1>2

LEMMA OrderRowsCount ==
    ASSUME NEW L \in OrderRows
    PROVE  IsFiniteSet(ToSet(L)) /\ Cardinality(ToSet(L)) = Len(L)
<1>1. PICK n \in Nat : n = Len(L) /\ DOMAIN L = 1..n /\ \A i, j \in 1..n : L[i] = L[j] => i = j
  BY OrderRowsAre
<1>2. PICK t \in SeqOf(Key, MaxSortRows) : L = Numbered(t)
  BY DEF OrderRows
<1>3. L = [i \in 1..n |-> L[i]]
  BY <1>1, <1>2 DEF Numbered
<1>4. \A i \in 1..n : L[i] \in ToSet(L)
  BY <1>1, InToSet
<1>5. L \in [1..n -> ToSet(L)]
  BY <1>3, <1>4
<1> QED BY <1>1, <1>5, CountDistinct

LEMMA TopNReads ==
    ASSUME TopNRead, left \in OrderRows, TopNOK(left, st, out)
    PROVE  TopNOK(left, st', out')
<1>1. PICK L, s, rs, s2 : L = left /\ s = st /\ rs = out /\ s2 = st'
  OBVIOUS
<1>2. s.phase = "read" /\ s.pos < Len(L) /\ out' = rs
  BY <1>1 DEF TopNRead
<1>3. L \in OrderRows /\ TopNOK(L, s, rs)
  BY <1>1
<1>4. ~\E f, H : EmittingOK(s, rs, f, H)
  BY <1>2 DEF EmittingOK
<1>5. rs = <<>> /\ \E p \in 0..Len(L) : s = [phase |-> "read", pos |-> p, heap |-> s.heap] /\ HeapOK(L, p, s.heap)
  BY <1>3, <1>4 DEF TopNOK
<1>6. PICK p \in 0..Len(L) : s = [phase |-> "read", pos |-> p, heap |-> s.heap] /\ HeapOK(L, p, s.heap)
  BY <1>5
<1>7. PICK n \in Nat : n = Len(L)
  BY <1>3, OrderRowsAre
<1>8. PICK H, read : H = s.heap /\ read = "read"
  OBVIOUS
<1>9. s = [phase |-> read, pos |-> p, heap |-> H] /\ HeapOK(L, p, H) /\ p \in Nat /\ p < n /\ s.pos = p
  BY <1>2, <1>6, <1>7, <1>8
<1>10. PICK p2, row : p2 = p + 1 /\ row = L[p + 1]
  OBVIOUS
<1>11. \E K : HeapOK(L, p2, K) /\ s2 = [phase |-> read, pos |-> p2, heap |-> K]
  <2>1. CASE Cardinality(H) < LimitCount /\ s2 = [s EXCEPT !.pos = @ + 1, !.heap = @ \cup {row}]
    <3>1. HeapOK(L, p2, H \cup {row})
      BY <1>3, <1>7, <1>9, <1>10, <2>1, HeapPush
    <3>2. PICK K : K = H \cup {row}
      OBVIOUS
    <3>3. s2 = [s EXCEPT !.pos = p2, !.heap = K]
      BY <1>8, <1>9, <1>10, <2>1, <3>2
    <3>4. s2 = [phase |-> read, pos |-> p2, heap |-> K]
      BY <1>9, <3>3
    <3> QED BY <3>1, <3>2, <3>4
  <2>2. ASSUME Cardinality(H) = LimitCount, NEW front \in H, \A other \in H : other.key <= front.key,
               s2 = [s EXCEPT !.pos = @ + 1, !.heap = IF row.key < front.key THEN (@ \ {front}) \cup {row} ELSE @]
        PROVE  \E K : HeapOK(L, p2, K) /\ s2 = [phase |-> read, pos |-> p2, heap |-> K]
    <3>1. HeapOK(L, p + 1, IF L[p + 1].key < front.key THEN (H \ {front}) \cup {L[p + 1]} ELSE H)
      BY <1>3, <1>7, <1>9, <2>2, HeapReplace
    <3>2. PICK K : K = IF row.key < front.key THEN (H \ {front}) \cup {row} ELSE H
      OBVIOUS
    <3>3. HeapOK(L, p2, K)
      BY <1>10, <3>1, <3>2
    <3>4. s2 = [s EXCEPT !.pos = p2, !.heap = K]
      BY <1>8, <1>9, <1>10, <2>2, <3>2
    <3>5. s2 = [phase |-> read, pos |-> p2, heap |-> K]
      BY <1>9, <3>4
    <3> QED BY <3>3, <3>5
  <2>3. row = left[st.pos + 1] /\ H = st.heap
    BY <1>1, <1>8, <1>9, <1>10
  <2>4. \/ Cardinality(H) < LimitCount /\ s2 = [s EXCEPT !.pos = @ + 1, !.heap = @ \cup {row}]
        \/ /\ Cardinality(H) = LimitCount
           /\ \E front \in H :
                 /\ \A other \in H : other.key <= front.key
                 /\ s2 = [s EXCEPT !.pos = @ + 1, !.heap = IF row.key < front.key THEN (@ \ {front}) \cup {row} ELSE @]
    BY <1>1, <2>3 DEF TopNRead
  <2> QED BY <2>1, <2>2, <2>4
<1>12. PICK K : HeapOK(L, p2, K) /\ s2 = [phase |-> read, pos |-> p2, heap |-> K]
  BY <1>11
<1>13. p2 \in 0..Len(L)
  BY <1>7, <1>9, <1>10
<1>14. s2.heap = K
  BY <1>12
<1>15. TopNOK(L, s2, rs)
  BY <1>5, <1>8, <1>12, <1>13, <1>14 DEF TopNOK
<1> QED BY <1>1, <1>2, <1>15

LEMMA TopNEnds ==
    ASSUME TopNEndOfInput, left \in OrderRows, TopNOK(left, st, out)
    PROVE  TopNOK(left, st', out')
<1>1. PICK L, s, rs, s2 : L = left /\ s = st /\ rs = out /\ s2 = st'
  OBVIOUS
<1>2. s.phase = "read" /\ (s.pos = Len(L) \/ LimitCount = 0) /\ out' = rs
  BY <1>1 DEF TopNEndOfInput
<1>3. L \in OrderRows /\ TopNOK(L, s, rs)
  BY <1>1
<1>4. ~\E f, H : EmittingOK(s, rs, f, H)
  BY <1>2 DEF EmittingOK
<1>5. rs = <<>> /\ \E p \in 0..Len(L) : s = [phase |-> "read", pos |-> p, heap |-> s.heap] /\ HeapOK(L, p, s.heap)
  BY <1>3, <1>4 DEF TopNOK
<1>6. PICK p \in 0..Len(L) : s = [phase |-> "read", pos |-> p, heap |-> s.heap] /\ HeapOK(L, p, s.heap)
  BY <1>5
<1>7. PICK H : H = s.heap
  OBVIOUS
<1>8. s.pos = p /\ HeapOK(L, p, H)
  BY <1>6, <1>7
<1>9. HeapOK(L, Len(L), H)
  <2>1. CASE s.pos = Len(L)
    BY <1>8, <2>1
  <2>2. CASE LimitCount = 0
    <3>1. IsFiniteSet(H) /\ Cardinality(H) <= 0
      BY <1>8, <2>2 DEF HeapOK
    <3>2. Cardinality(H) = 0
      BY <3>1, FS_CardinalityType
    <3>3. H = {}
      BY <3>1, <3>2, FS_EmptySet
    <3> QED BY <2>2, <3>1, <3>2, <3>3 DEF HeapOK
  <2> QED BY <1>2, <2>1, <2>2
<1>10. PICK f \in SortedSeqs(H) : s2 = Emitting(f)
  BY <1>1, <1>7 DEF TopNEndOfInput
<1>11. Sorted(f) /\ ToSet(f) = H
  BY <1>9, <1>10, SortedSeqsAre DEF HeapOK
<1>12. EmittingOK(s2, <<>>, f, H)
  BY <1>10, <1>11, EmittingBegins
<1>13. TopNOK(L, s2, rs)
  BY <1>5, <1>9, <1>12 DEF TopNOK
<1> QED BY <1>1, <1>2, <1>13

(* What is being returned stays what it is.                                *)
LEMMA TopNReturns ==
    ASSUME OrderedNext, left \in OrderRows, TopNOK(left, st, out)
    PROVE  TopNOK(left, st', out')
<1>1. PICK L, s : L = left /\ s = st
  OBVIOUS
<1>2. s.phase = "next"
  BY <1>1 DEF OrderedNext
<1>3. TopNOK(L, s, out)
  BY <1>1
<1>4. PICK f, H : HeapOK(L, Len(L), H) /\ EmittingOK(s, out, f, H)
  BY <1>2, <1>3 DEF TopNOK
<1>5. EmittingOK(st, out, f, H)
  BY <1>1, <1>4
<1>6. EmittingOK(st', out', f, H)
  BY <1>5, EmittingStep
<1> QED BY <1>1, <1>4, <1>6 DEF TopNOK

LEMMA TopNResult ==
    ASSUME NEW L \in OrderRows, NEW s, NEW rs, TopNOK(L, s, rs), s.phase = "done"
    PROVE  /\ InOrder(rs) /\ IsInjective(rs) /\ ToSet(rs) \subseteq ToSet(L)
           /\ Len(rs) = Min({LimitCount, Len(L)})
           /\ \A row \in ToSet(L) \ ToSet(rs), kept \in ToSet(rs) : kept.key <= row.key
<1>1. PICK n \in Nat : /\ n = Len(L) /\ DOMAIN L = 1..n /\ ToSet(L) = FirstRows(L, n)
                       /\ \A i, j \in 1..n : L[i] = L[j] => i = j
  BY OrderRowsAre
<1>2. PICK f, H : HeapOK(L, Len(L), H) /\ EmittingOK(s, rs, f, H)
  BY DEF TopNOK
<1>3. InOrder(rs) /\ IsInjective(rs) /\ ToSet(rs) = H /\ IsFiniteSet(H) /\ Len(rs) = Cardinality(H)
  BY <1>2, EmittingResult
<1>4. ToSet(rs) \subseteq ToSet(L)
  BY <1>1, <1>2, <1>3 DEF HeapOK
<1>5. \A row \in ToSet(L) \ ToSet(rs), kept \in ToSet(rs) : kept.key <= row.key
  BY <1>1, <1>2, <1>3 DEF HeapOK
<1>7. IsFiniteSet(ToSet(L)) /\ Cardinality(ToSet(L)) = n
  BY <1>1, OrderRowsCount
<1>8. PICK c \in Nat : c = Cardinality(H) /\ c <= LimitCount /\ LimitCount \in Nat
  BY <1>2, <1>3, FS_CardinalityType, BoundsAssumption DEF HeapOK
<1>9. H \subseteq ToSet(L) /\ c <= n
  BY <1>3, <1>4, <1>7, <1>8, FS_Subset
<1>10. c < LimitCount => c = n
  <2> HAVE c < LimitCount
  <2>1. \A x \in ToSet(L) : x \in H
    BY <1>1, <1>2, <1>8 DEF HeapOK
  <2>2. H = ToSet(L)
    BY <1>9, <2>1
  <2> QED BY <1>7, <1>8, <2>2
<1>11. c = Min({LimitCount, n})
  BY <1>8, <1>9, <1>10, MinOfTwo
<1> QED BY <1>1, <1>3, <1>4, <1>5, <1>8, <1>11

(* Rows still to be read are in neither the run being filled nor a file.   *)
ReadingOK(L, s) ==
    \E p \in 0..Len(L) : \E run, runs, S :
        /\ s = [phase |-> "read", pos |-> p, run |-> run, runs |-> runs]
        /\ IsFiniteSet(run) /\ Files(runs, S)
        /\ \A x : (x \in FirstRows(L, p) <=> x \in run \/ x \in S) /\ ~(x \in run /\ x \in S)

(* The rows are in the files that wait, in the group being merged, in what *)
(* was merged of it and in the files of the next pass; the group holds     *)
(* nothing less than what was merged.                                      *)
Split(R, T, G, M, F) ==
    \A x : /\ x \in R <=> x \in T \/ x \in G \/ x \in M \/ x \in F
           /\ x \in T => x \notin G /\ x \notin M /\ x \notin F
           /\ x \in G => x \notin M /\ x \notin F
           /\ x \in M => x \notin F

MergeState(R, s, todo, group, merged, files, T, G, F) ==
    /\ s = [phase |-> "merge", todo |-> todo, group |-> group, merged |-> merged, files |-> files]
    /\ Files(todo, T) /\ Files(group, G) /\ Files(files, F) /\ Sorted(merged)
    /\ Split(R, T, G, ToSet(merged), F)
    /\ \A x \in ToSet(merged), y \in G : x.key <= y.key
    /\ group = <<>> => merged = <<>>

MergingOK(R, s) ==
    \E todo, group, merged, files, T, G, F : MergeState(R, s, todo, group, merged, files, T, G, F)

SortOK(L, s, rs) ==
    \/ rs = <<>> /\ ReadingOK(L, s)
    \/ rs = <<>> /\ MergingOK(ToSet(L), s)
    \/ \E f : EmittingOK(s, rs, f, ToSet(L))

LEMMA SortReads ==
    ASSUME SortRead, left \in OrderRows, SortOK(left, st, out)
    PROVE  SortOK(left, st', out')
<1>1. PICK L, s, rs, s2 : L = left /\ s = st /\ rs = out /\ s2 = st'
  OBVIOUS
<1>2. s.phase = "read" /\ s.pos < Len(L) /\ out' = rs
  BY <1>1 DEF SortRead
<1>3. L \in OrderRows /\ SortOK(L, s, rs)
  BY <1>1
<1>4. rs = <<>> /\ ReadingOK(L, s)
  BY <1>2, <1>3 DEF SortOK, EmittingOK, MergingOK, MergeState
<1>5. PICK p, run, runs, S :
          /\ p \in 0..Len(L) /\ s = [phase |-> "read", pos |-> p, run |-> run, runs |-> runs]
          /\ IsFiniteSet(run) /\ Files(runs, S)
          /\ \A x : (x \in FirstRows(L, p) <=> x \in run \/ x \in S) /\ ~(x \in run /\ x \in S)
  BY <1>4 DEF ReadingOK
<1>6. PICK n \in Nat : /\ n = Len(L)
                       /\ \A q \in 0..(n - 1) : /\ L[q + 1] \notin FirstRows(L, q)
                                                /\ FirstRows(L, q + 1) = FirstRows(L, q) \cup {L[q + 1]}
  BY <1>3, OrderRowsAre
<1>7. s.pos = p /\ p < n /\ s.run = run
  BY <1>2, <1>5, <1>6
<1>8. PICK p2, row, run2, read, none :
          p2 = p + 1 /\ row = L[p + 1] /\ run2 = run \cup {row} /\ read = "read" /\ none = {}
  OBVIOUS
<1>9. p \in 0..(n - 1) /\ p2 \in 0..Len(L)
  BY <1>5, <1>6, <1>7, <1>8
<1>10. \A x : /\ x \in FirstRows(L, p2) <=> x \in run2 \/ x \in S
              /\ ~(x \in run2 /\ x \in S)
  <2>1. row \notin FirstRows(L, p) /\ FirstRows(L, p2) = FirstRows(L, p) \cup {row}
    BY <1>6, <1>8, <1>9
  <2> QED BY <1>5, <1>8, <2>1
<1>11. IsFiniteSet(run2)
  BY <1>5, <1>8, FS_AddElement
<1>12. \/ s2 = [s EXCEPT !.pos = p2, !.run = run2]
       \/ \E f \in SortedSeqs(run2) : s2 = [s EXCEPT !.pos = p2, !.run = none, !.runs = Append(runs, f)]
  <2>1. st.run \cup {left[st.pos + 1]} = run2 /\ st.pos + 1 = p2 /\ st.runs = runs
    BY <1>1, <1>5, <1>7, <1>8
  <2>2. CASE Cardinality(run2) < RunCapacity
    <3>1. s2 = [s EXCEPT !.pos = @ + 1, !.run = run2]
      BY <1>1, <2>1, <2>2 DEF SortRead
    <3> QED BY <1>7, <1>8, <3>1
  <2>3. CASE ~(Cardinality(run2) < RunCapacity)
    <3>1. PICK f \in SortedSeqs(run2) : s2 = [s EXCEPT !.pos = @ + 1, !.run = {}, !.runs = Append(@, f)]
      BY <1>1, <2>1, <2>3 DEF SortRead
    <3>2. s2 = [s EXCEPT !.pos = p2, !.run = none, !.runs = Append(runs, f)]
      BY <1>5, <1>7, <1>8, <3>1
    <3> QED BY <3>2
  <2> QED BY <2>2, <2>3
<1>13. s = [phase |-> read, pos |-> p, run |-> run, runs |-> runs]
  BY <1>5, <1>8
<1>14. ReadingOK(L, s2)
  <2>1. CASE s2 = [s EXCEPT !.pos = p2, !.run = run2]
    <3>1. s2 = [phase |-> read, pos |-> p2, run |-> run2, runs |-> runs]
      BY <1>13, <2>1
    <3> QED BY <1>5, <1>8, <1>9, <1>10, <1>11, <3>1 DEF ReadingOK
  <2>2. ASSUME NEW f \in SortedSeqs(run2), s2 = [s EXCEPT !.pos = p2, !.run = none, !.runs = Append(runs, f)]
        PROVE  ReadingOK(L, s2)
    <3>1. Sorted(f) /\ ToSet(f) = run2
      BY <1>11, <2>2, SortedSeqsAre
    <3>2. PICK S2 : S2 = FirstRows(L, p2)
      OBVIOUS
    <3>3. (\A x \in ToSet(f) : x \notin S) /\ \A x : x \in S2 <=> x \in S \/ x \in ToSet(f)
      BY <1>10, <3>1, <3>2
    <3>4. PICK runs2 : runs2 = Append(runs, f)
      OBVIOUS
    <3>5. Files(runs2, S2)
      BY <1>5, <3>1, <3>3, <3>4, FilesAppend
    <3>6. s2 = [phase |-> read, pos |-> p2, run |-> none, runs |-> runs2]
      BY <1>13, <2>2, <3>4
    <3>7. IsFiniteSet(none)
      BY <1>8, FS_EmptySet
    <3>8. \A x : (x \in FirstRows(L, p2) <=> x \in none \/ x \in S2) /\ ~(x \in none /\ x \in S2)
      BY <1>8, <3>2
    <3> QED BY <1>8, <1>9, <3>5, <3>6, <3>7, <3>8 DEF ReadingOK
  <2> QED BY <1>12, <2>1, <2>2
<1> QED BY <1>1, <1>2, <1>4, <1>14 DEF SortOK

(* Files to merge: all of them wait.                                       *)
LEMMA MergingBegins ==
    ASSUME NEW s, NEW runs, NEW R, s = Merging(runs), Files(runs, R)
    PROVE  MergingOK(R, s)
<1>1. PICK e, none : e = <<>> /\ none = {}
  OBVIOUS
<1>2. s = [phase |-> "merge", todo |-> runs, group |-> e, merged |-> e, files |-> e]
  BY <1>1 DEF Merging
<1>3. Files(e, none) /\ Sorted(e) /\ ToSet(e) = none
  BY <1>1, FilesEmpty, SortedEmpty
<1>4. \A x : x \notin none
  BY <1>1
<1>5. Split(R, R, none, ToSet(e), none)
  BY <1>3, <1>4 DEF Split
<1>6. \A x \in ToSet(e), y \in none : x.key <= y.key
  BY <1>4
<1>7. e = <<>> => e = <<>>
  OBVIOUS
<1> QED BY <1>1, <1>2, <1>3, <1>5, <1>6 DEF MergingOK, MergeState

LEMMA SortEnds ==
    ASSUME SortEndOfInput, left \in OrderRows, SortOK(left, st, out)
    PROVE  SortOK(left, st', out')
<1>1. PICK L, s, rs, s2 : L = left /\ s = st /\ rs = out /\ s2 = st'
  OBVIOUS
<1>2. s.phase = "read" /\ s.pos = Len(L) /\ out' = rs
  BY <1>1 DEF SortEndOfInput
<1>3. L \in OrderRows /\ SortOK(L, s, rs)
  BY <1>1
<1>4. rs = <<>> /\ ReadingOK(L, s)
  BY <1>2, <1>3 DEF SortOK, EmittingOK, MergingOK, MergeState
<1>5. PICK p, run, runs, S :
          /\ p \in 0..Len(L) /\ s = [phase |-> "read", pos |-> p, run |-> run, runs |-> runs]
          /\ IsFiniteSet(run) /\ Files(runs, S)
          /\ \A x : (x \in FirstRows(L, p) <=> x \in run \/ x \in S) /\ ~(x \in run /\ x \in S)
  BY <1>4 DEF ReadingOK
<1>6. s.pos = p /\ s.run = run /\ s.runs = runs
  BY <1>5
<1>7. PICK R : R = ToSet(L)
  OBVIOUS
<1>8. \A x : (x \in R <=> x \in run \/ x \in S) /\ ~(x \in run /\ x \in S)
  BY <1>2, <1>3, <1>5, <1>6, <1>7, OrderRowsAre
<1>9. PICK f, all :
          /\ f \in SortedSeqs(run) /\ all = AllRuns(runs, f)
          /\ s2 = IF runs = <<>> THEN Emitting(f) ELSE IF Len(all) = 1 THEN Emitting(all[1]) ELSE Merging(all)
  <2>1. PICK f \in SortedSeqs(st.run) :
           st' = IF st.runs = <<>> THEN Emitting(f)
                 ELSE IF Len(AllRuns(st.runs, f)) = 1 THEN Emitting(AllRuns(st.runs, f)[1])
                 ELSE Merging(AllRuns(st.runs, f))
    BY DEF SortEndOfInput
  <2>2. st.run = run /\ st.runs = runs
    BY <1>1, <1>6
  <2> QED BY <1>1, <2>1, <2>2
<1>10. Sorted(f) /\ ToSet(f) = run /\ (f = <<>> <=> run = {})
  BY <1>5, <1>9, SortedSeqsAre
<1>11. Files(all, R)
  <2>1. CASE f = <<>>
    <3>1. all = runs /\ \A x : x \in R <=> x \in S
      BY <1>8, <1>9, <1>10, <2>1 DEF AllRuns
    <3>2. R = S
      BY <3>1
    <3> QED BY <1>5, <3>1, <3>2
  <2>2. CASE f # <<>>
    <3>1. all = Append(runs, f)
      BY <1>9, <2>2 DEF AllRuns
    <3>2. (\A x \in ToSet(f) : x \notin S) /\ \A x : x \in R <=> x \in S \/ x \in ToSet(f)
      BY <1>8, <1>10
    <3> QED BY <1>5, <1>10, <3>1, <3>2, FilesAppend
  <2> QED BY <2>1, <2>2
<1>12. CASE runs = <<>>
  <2>1. S = {}
    <3>1. DOMAIN runs = {}
      BY <1>12
    <3> QED BY <1>5, <3>1 DEF Files
  <2>2. ToSet(f) = R
    BY <1>8, <1>10, <2>1
  <2>3. s2 = Emitting(f)
    BY <1>9, <1>12
  <2>4. EmittingOK(s2, <<>>, f, R)
    BY <1>10, <2>2, <2>3, EmittingBegins
  <2> QED BY <1>1, <1>2, <1>4, <1>7, <2>4 DEF SortOK
<1>13. CASE runs # <<>> /\ Len(all) = 1
  <2>1. PICK g : g = all[1]
    OBVIOUS
  <2>2. s2 = Emitting(g)
    BY <1>9, <1>13, <2>1
  <2>3. Sorted(g) /\ ToSet(g) = R
    BY <1>11, <1>13, <2>1, FilesOne
  <2>4. EmittingOK(s2, <<>>, g, R)
    BY <2>2, <2>3, EmittingBegins
  <2> QED BY <1>1, <1>2, <1>4, <1>7, <2>4 DEF SortOK
<1>14. CASE runs # <<>> /\ Len(all) # 1
  <2>1. s2 = Merging(all)
    BY <1>9, <1>14
  <2>2. MergingOK(R, s2)
    BY <1>11, <2>1, MergingBegins
  <2> QED BY <1>1, <1>2, <1>4, <1>7, <2>2 DEF SortOK
<1> QED BY <1>12, <1>13, <1>14

LEMMA MergeStateIs ==
    ASSUME NEW L, NEW s, NEW rs, SortOK(L, s, rs), s.phase = "merge"
    PROVE  rs = <<>> /\ \E todo, group, merged, files, T, G, F :
                            MergeState(ToSet(L), s, todo, group, merged, files, T, G, F)
<1>1. ~ReadingOK(L, s)
  BY DEF ReadingOK
<1>2. ~\E f : EmittingOK(s, rs, f, ToSet(L))
  BY DEF EmittingOK
<1>3. rs = <<>> /\ MergingOK(ToSet(L), s)
  BY <1>1, <1>2 DEF SortOK
<1> QED BY <1>3 DEF MergingOK

LEMMA MergeStateFits ==
    ASSUME NEW R, NEW s, NEW todo, NEW group, NEW merged, NEW files, NEW T, NEW G, NEW F,
           MergeState(R, s, todo, group, merged, files, T, G, F)
    PROVE  MergingOK(R, s)
BY DEF MergingOK

LEMMA SortStartsGroup ==
    ASSUME StartGroup, left \in OrderRows, SortOK(left, st, out)
    PROVE  SortOK(left, st', out')
<1>1. PICK L, s, rs, s2, R : L = left /\ s = st /\ rs = out /\ s2 = st' /\ R = ToSet(L)
  OBVIOUS
<1>2. s.phase = "merge" /\ s.group = <<>> /\ s.todo # <<>> /\ out' = rs
  BY <1>1 DEF StartGroup
<1>3. SortOK(L, s, rs)
  BY <1>1
<1>4. rs = <<>> /\ \E todo, group, merged, files, T, G, F : MergeState(R, s, todo, group, merged, files, T, G, F)
  BY <1>1, <1>2, <1>3, MergeStateIs
<1>5. PICK todo, group, merged, files, T, G, F : MergeState(R, s, todo, group, merged, files, T, G, F)
  BY <1>4
<1>6. PICK merge : merge = "merge"
  OBVIOUS
<1>7. s = [phase |-> merge, todo |-> todo, group |-> group, merged |-> merged, files |-> files]
  BY <1>5, <1>6 DEF MergeState
<1>8. group = <<>> /\ todo # <<>> /\ merged = <<>> /\ s.todo = todo
  BY <1>2, <1>5, <1>7 DEF MergeState
<1>9. Files(todo, T) /\ Files(files, F) /\ Split(R, T, G, ToSet(merged), F) /\ Files(group, G)
  BY <1>5 DEF MergeState
<1>10. PICK k \in Nat : k = Len(todo) /\ k >= 1
  <2>1. PICK U : \E k \in Nat : todo \in Seq(U) /\ k = Len(todo) /\ DOMAIN todo = 1..k
    BY <1>9, FilesAre
  <2> QED BY <1>8, <2>1
<1>11. \A x : x \notin G /\ x \notin ToSet(merged)
  <2>1. DOMAIN group = {}
    BY <1>8
  <2> QED BY <1>8, <1>9, <2>1, SortedEmpty DEF Files
<1>12. PICK n \in Nat : n = Min({MergeFanIn, k}) /\ n = (IF MergeFanIn <= k THEN MergeFanIn ELSE k)
  <2>1. MergeFanIn \in Nat
    BY BoundsAssumption
  <2> QED BY <2>1, MinOfTwo
<1>13. n \in 1..k /\ (n = 1 => k = 1)
  BY <1>10, <1>12, BoundsAssumption
<1>14. PICK e, none : e = <<>> /\ none = {}
  OBVIOUS
<1>15. Files(e, none) /\ ToSet(e) = none /\ Sorted(e) /\ \A x : x \notin none
  BY <1>14, FilesEmpty, SortedEmpty
<1>16. st.todo = todo /\ Min({MergeFanIn, Len(st.todo)}) = n /\ st.files = files
  BY <1>1, <1>7, <1>8, <1>10, <1>12
<1>17. MergingOK(R, s2)
  <2>1. CASE n = 1
    <3>1. PICK f, files2, F2 : f = todo[1] /\ files2 = Append(files, f) /\ F2 = F \cup T
      OBVIOUS
    <3>2. s2 = [s EXCEPT !.todo = e, !.files = files2]
      BY <1>1, <1>14, <1>16, <2>1, <3>1 DEF StartGroup
    <3>3. s2 = [phase |-> merge, todo |-> e, group |-> e, merged |-> e, files |-> files2]
      BY <1>7, <1>8, <1>14, <3>2
    <3>4. Sorted(f) /\ ToSet(f) = T
      BY <1>9, <1>10, <1>13, <2>1, <3>1, FilesOne
    <3>5. (\A x \in ToSet(f) : x \notin F) /\ \A x : x \in F2 <=> x \in F \/ x \in ToSet(f)
      BY <1>9, <3>1, <3>4 DEF Split
    <3>6. Files(files2, F2)
      BY <1>9, <3>1, <3>4, <3>5, FilesAppend
    <3>7. Split(R, none, none, ToSet(e), F2)
      BY <1>9, <1>11, <1>15, <3>1 DEF Split
    <3>8. MergeState(R, s2, e, e, e, files2, none, none, F2)
      BY <1>6, <1>15, <3>3, <3>6, <3>7 DEF MergeState
    <3> QED BY <3>8, MergeStateFits
  <2>2. CASE n # 1
    <3>1. PICK todo2, group2 : todo2 = SubSeq(todo, n + 1, Len(todo)) /\ group2 = SubSeq(todo, 1, n)
      OBVIOUS
    <3>2. s2 = [s EXCEPT !.todo = todo2, !.group = group2]
      BY <1>1, <1>7, <1>16, <2>2, <3>1 DEF StartGroup
    <3>3. s2 = [phase |-> merge, todo |-> todo2, group |-> group2, merged |-> e, files |-> files]
      BY <1>7, <1>8, <1>14, <3>2
    <3>4. PICK A, B : /\ \A x : (x \in T <=> x \in A \/ x \in B) /\ ~(x \in A /\ x \in B)
                      /\ Files(group2, A) /\ Files(todo2, B)
      BY <1>9, <1>10, <1>13, <3>1, FilesSplit
    <3>5. Split(R, B, A, ToSet(e), F)
      BY <1>9, <1>11, <1>15, <3>4 DEF Split
    <3>6. MergeState(R, s2, todo2, group2, e, files, B, A, F)
      BY <1>6, <1>9, <1>14, <1>15, <3>3, <3>4, <3>5 DEF MergeState
    <3> QED BY <3>6, MergeStateFits
  <2> QED BY <2>1, <2>2
<1> QED BY <1>1, <1>2, <1>4, <1>17 DEF SortOK

LEMMA SortEndsPass ==
    ASSUME EndPass, left \in OrderRows, SortOK(left, st, out)
    PROVE  SortOK(left, st', out')
<1>1. PICK L, s, rs, s2, R : L = left /\ s = st /\ rs = out /\ s2 = st' /\ R = ToSet(L)
  OBVIOUS
<1>2. s.phase = "merge" /\ s.group = <<>> /\ s.todo = <<>> /\ out' = rs
  BY <1>1 DEF EndPass
<1>3. SortOK(L, s, rs)
  BY <1>1
<1>4. rs = <<>> /\ \E todo, group, merged, files, T, G, F : MergeState(R, s, todo, group, merged, files, T, G, F)
  BY <1>1, <1>2, <1>3, MergeStateIs
<1>5. PICK todo, group, merged, files, T, G, F : MergeState(R, s, todo, group, merged, files, T, G, F)
  BY <1>4
<1>6. s = [phase |-> "merge", todo |-> todo, group |-> group, merged |-> merged, files |-> files]
  BY <1>5 DEF MergeState
<1>7. group = <<>> /\ todo = <<>> /\ s.files = files
  BY <1>2, <1>6
<1>8. merged = <<>> /\ Files(todo, T) /\ Files(files, F) /\ Split(R, T, G, ToSet(merged), F) /\ Files(group, G)
  BY <1>5, <1>7 DEF MergeState
<1>9. \A x : x \notin T /\ x \notin G /\ x \notin ToSet(merged)
  <2>1. DOMAIN group = {} /\ DOMAIN todo = {}
    BY <1>7
  <2> QED BY <1>8, <2>1, SortedEmpty DEF Files
<1>10. F = R
  BY <1>8, <1>9 DEF Split
<1>11. CASE Len(files) = 1
  <2>1. PICK f : f = files[1] /\ s2 = Emitting(f)
    BY <1>1, <1>7, <1>11 DEF EndPass
  <2>2. Sorted(f) /\ ToSet(f) = R
    BY <1>8, <1>10, <1>11, <2>1, FilesOne
  <2>3. EmittingOK(s2, <<>>, f, R)
    BY <2>1, <2>2, EmittingBegins
  <2> QED BY <1>1, <1>2, <1>4, <2>3 DEF SortOK
<1>12. CASE Len(files) # 1
  <2>1. s2 = Merging(files)
    BY <1>1, <1>7, <1>12 DEF EndPass
  <2>2. MergingOK(R, s2)
    BY <1>8, <1>10, <2>1, MergingBegins
  <2> QED BY <1>1, <1>2, <1>4, <2>2 DEF SortOK
<1> QED BY <1>11, <1>12

(* The least of the first rows is the least of the group.                  *)
LEMMA LeastHead ==
    ASSUME NEW group, NEW G, Files(group, G), \A x \in G : x.key \in Nat,
           NEW i \in DOMAIN group, group[i] # <<>>,
           \A j \in DOMAIN group : group[j] # <<>> => Head(group[i]).key <= Head(group[j]).key
    PROVE  Head(group[i]) \in G /\ \A y \in G : Head(group[i]).key <= y.key
<1>1. \A j \in DOMAIN group : Sorted(group[j]) /\ \A x \in ToSet(group[j]) : x \in G
  BY DEF Files
<1>2. \A j \in DOMAIN group : group[j] # <<>> => /\ Head(group[j]) \in ToSet(group[j])
                                                /\ \A x \in ToSet(group[j]) : Head(group[j]).key <= x.key
  BY <1>1, SortedHead
<1>3. PICK h : h = Head(group[i])
  OBVIOUS
<1>4. h \in G
  BY <1>1, <1>2, <1>3
<1>5. ASSUME NEW y \in G PROVE h.key <= y.key
  <2>1. PICK j \in DOMAIN group : y \in ToSet(group[j])
    BY DEF Files
  <2>2. group[j] # <<>>
    <3>1. ASSUME group[j] = <<>> PROVE FALSE
      <4>1. ToSet(group[j]) = {}
        BY <3>1, SortedEmpty
      <4> QED BY <2>1, <4>1
    <3> QED BY <3>1
  <2>3. PICK g : g = Head(group[j])
    OBVIOUS
  <2>4. g \in G /\ g.key <= y.key /\ h.key <= g.key
    BY <1>1, <1>2, <1>3, <2>1, <2>2, <2>3
  <2>5. g.key \in Nat /\ h.key \in Nat /\ y.key \in Nat
    BY <1>4, <2>4
  <2> QED BY <2>4, <2>5
<1> QED BY <1>3, <1>4, <1>5

LEMMA SortMerges ==
    ASSUME MergeRunGroup, left \in OrderRows, SortOK(left, st, out)
    PROVE  SortOK(left, st', out')
<1>1. PICK L, s, rs, s2, R : L = left /\ s = st /\ rs = out /\ s2 = st' /\ R = ToSet(L)
  OBVIOUS
<1>2. s.phase = "merge" /\ s.group # <<>> /\ out' = rs
  BY <1>1 DEF MergeRunGroup
<1>3. SortOK(L, s, rs) /\ L \in OrderRows
  BY <1>1
<1>4. rs = <<>> /\ \E todo, group, merged, files, T, G, F : MergeState(R, s, todo, group, merged, files, T, G, F)
  BY <1>1, <1>2, <1>3, MergeStateIs
<1>5. PICK todo, group, merged, files, T, G, F : MergeState(R, s, todo, group, merged, files, T, G, F)
  BY <1>4
<1>6. PICK merge : merge = "merge"
  OBVIOUS
<1>7. s = [phase |-> merge, todo |-> todo, group |-> group, merged |-> merged, files |-> files]
  BY <1>5, <1>6 DEF MergeState
<1>8. group # <<>> /\ s.group = group
  BY <1>2, <1>7
<1>9. /\ Files(todo, T) /\ Files(files, F) /\ Split(R, T, G, ToSet(merged), F) /\ Files(group, G) /\ Sorted(merged)
      /\ \A x \in ToSet(merged), y \in G : x.key <= y.key
  BY <1>5 DEF MergeState
<1>10. \A x \in G : x.key \in Nat
  <2>1. \A x \in R : x.key \in Nat
    BY <1>1, <1>3, OrderRowsAre
  <2> QED BY <1>9, <2>1 DEF Split
<1>11. PICK open : open = {i \in DOMAIN group : group[i] # <<>>}
  OBVIOUS
<1>12. st.group = group /\ open = {i \in DOMAIN st.group : st.group[i] # <<>>}
  BY <1>1, <1>8, <1>11
<1>13. \/ \E i \in open :
             /\ \A j \in open : Head(group[i]).key <= Head(group[j]).key
             /\ s2 = [s EXCEPT !.merged = Append(@, Head(group[i])), !.group[i] = Tail(@)]
       \/ /\ open = {}
          /\ s2 = [s EXCEPT !.files = Append(@, s.merged), !.merged = <<>>, !.group = <<>>]
  BY <1>1, <1>12 DEF MergeRunGroup
<1>14. MergingOK(R, s2)
  <2>1. ASSUME NEW i \in open, \A j \in open : Head(group[i]).key <= Head(group[j]).key,
               s2 = [s EXCEPT !.merged = Append(@, Head(group[i])), !.group[i] = Tail(@)]
        PROVE  MergingOK(R, s2)
    <3>1. PICK h, group2, merged2, G2 :
             h = Head(group[i]) /\ group2 = [group EXCEPT ![i] = Tail(group[i])] /\ merged2 = Append(merged, h) /\ G2 = G \ {h}
      OBVIOUS
    <3>2. s2 = [s EXCEPT !.merged = merged2, !.group = group2]
      BY <1>7, <2>1, <3>1
    <3>3. s2 = [phase |-> merge, todo |-> todo, group |-> group2, merged |-> merged2, files |-> files]
      BY <1>7, <3>2
    <3>4. i \in DOMAIN group /\ group[i] # <<>>
      BY <1>11, <2>1
    <3>5. h \in G /\ \A y \in G : h.key <= y.key
      BY <1>9, <1>10, <1>11, <2>1, <3>1, <3>4, LeastHead
    <3>6. \A x : x \in G2 <=> x \in G /\ x # h
      BY <3>1
    <3>7. Files(group2, G2)
      BY <1>9, <1>10, <3>1, <3>4, <3>6, FilesTake
    <3>8. h \notin ToSet(merged) /\ \A y \in ToSet(merged) : y.key <= h.key
      BY <1>9, <3>5 DEF Split
    <3>9. Sorted(merged2) /\ \A y : y \in ToSet(merged2) <=> y \in ToSet(merged) \/ y = h
      BY <1>9, <3>1, <3>8, SortedAppend
    <3>10. Split(R, T, G2, ToSet(merged2), F)
      BY <1>9, <3>5, <3>6, <3>9 DEF Split
    <3>11. \A x \in ToSet(merged2), y \in G2 : x.key <= y.key
      BY <1>9, <3>5, <3>6, <3>9
    <3>12. group2 # <<>>
      <4>1. i \in DOMAIN group2
        BY <3>1, <3>4
      <4> QED BY <4>1
    <3>13. MergeState(R, s2, todo, group2, merged2, files, T, G2, F)
      BY <1>6, <1>9, <3>3, <3>7, <3>9, <3>10, <3>11, <3>12 DEF MergeState
    <3> QED BY <3>13, MergeStateFits
  <2>2. CASE open = {} /\ s2 = [s EXCEPT !.files = Append(@, s.merged), !.merged = <<>>, !.group = <<>>]
    <3>1. PICK e, none, files2, F2 : e = <<>> /\ none = {} /\ files2 = Append(files, merged) /\ F2 = F \cup ToSet(merged)
      OBVIOUS
    <3>2. s2 = [s EXCEPT !.files = files2, !.merged = e, !.group = e]
      BY <1>7, <2>2, <3>1
    <3>3. s2 = [phase |-> merge, todo |-> todo, group |-> e, merged |-> e, files |-> files2]
      BY <1>7, <3>2
    <3>4. \A x : x \notin G
      <4>1. ASSUME NEW x, x \in G PROVE FALSE
        <5>1. PICK j \in DOMAIN group : x \in ToSet(group[j])
          BY <1>9, <4>1 DEF Files
        <5>2. group[j] = <<>>
          BY <1>11, <2>2
        <5>3. ToSet(group[j]) = {}
          BY <5>2, SortedEmpty
        <5> QED BY <5>1, <5>3
      <4> QED BY <4>1
    <3>5. Files(e, none) /\ ToSet(e) = none /\ Sorted(e) /\ \A x : x \notin none
      BY <3>1, FilesEmpty, SortedEmpty
    <3>6. (\A x \in ToSet(merged) : x \notin F) /\ \A x : x \in F2 <=> x \in F \/ x \in ToSet(merged)
      BY <1>9, <3>1 DEF Split
    <3>7. Files(files2, F2)
      BY <1>9, <3>1, <3>6, FilesAppend
    <3>8. Split(R, T, none, ToSet(e), F2)
      BY <1>9, <3>4, <3>5, <3>6 DEF Split
    <3>9. MergeState(R, s2, todo, e, e, files2, T, none, F2)
      BY <1>6, <1>9, <3>3, <3>5, <3>7, <3>8 DEF MergeState
    <3> QED BY <3>9, MergeStateFits
  <2> QED BY <1>13, <2>1, <2>2
<1> QED BY <1>1, <1>2, <1>4, <1>14 DEF SortOK

LEMMA SortReturns ==
    ASSUME OrderedNext, left \in OrderRows, SortOK(left, st, out)
    PROVE  SortOK(left, st', out')
<1>1. PICK L, s, R : L = left /\ s = st /\ R = ToSet(L)
  OBVIOUS
<1>2. s.phase = "next"
  BY <1>1 DEF OrderedNext
<1>3. SortOK(L, s, out)
  BY <1>1
<1>4. ~ReadingOK(L, s) /\ ~MergingOK(R, s)
  BY <1>2 DEF ReadingOK, MergingOK, MergeState
<1>5. PICK f : EmittingOK(s, out, f, R)
  BY <1>1, <1>3, <1>4 DEF SortOK
<1>6. EmittingOK(st, out, f, R)
  BY <1>1, <1>5
<1>7. EmittingOK(st', out', f, R)
  BY <1>6, EmittingStep
<1> QED BY <1>1, <1>7 DEF SortOK

LEMMA SortResult ==
    ASSUME NEW L \in OrderRows, NEW s, NEW rs, SortOK(L, s, rs), s.phase = "done"
    PROVE  InOrder(rs) /\ IsInjective(rs) /\ ToSet(rs) = ToSet(L) /\ Len(rs) = Len(L)
<1>1. PICK R : R = ToSet(L)
  OBVIOUS
<1>2. ~ReadingOK(L, s) /\ ~MergingOK(R, s)
  BY DEF ReadingOK, MergingOK, MergeState
<1>3. PICK f : EmittingOK(s, rs, f, R)
  BY <1>1, <1>2 DEF SortOK
<1>4. InOrder(rs) /\ IsInjective(rs) /\ ToSet(rs) = R /\ Len(rs) = Cardinality(R)
  BY <1>3, EmittingResult
<1> QED BY <1>1, <1>4, OrderRowsCount

OrderInv ==
    op \in {"sort", "topN"} =>
        /\ left \in OrderRows
        /\ op = "sort" => SortOK(left, st, out)
        /\ op = "topN" => TopNOK(left, st, out)

LEMMA OrderKinds ==
    ASSUME op \in {"sort", "topN"}
    PROVE  /\ op \notin JoinOps /\ op \notin NestedLoop /\ op \notin IndexLoop /\ op \notin Hash /\ op \notin SetOps
           /\ op \notin {"merge", "unique", "streamAggregate", "scalarStream", "hashAggregate", "scalarAggregate"}
BY DEF NestedLoop, IndexLoop, Hash, JoinOps, SetOps

LEMMA OrderInit == Init => OrderInv
<1> SUFFICES ASSUME Init, op \in {"sort", "topN"} PROVE OrderInv
  BY DEF OrderInv
<1>1. InitOrder
  BY OrderKinds DEF Init, InitJoin, InitSetOp, InitAggregate, HashAggregates, StreamAggregates
<1>2. PICK L, s, rs : L = left /\ s = st /\ rs = out
  OBVIOUS
<1>3. L \in OrderRows /\ rs = <<>>
  BY <1>1, <1>2 DEF InitOrder, OrderRows
<1>4. PICK n \in Nat : n = Len(L) /\ FirstRows(L, 0) = {}
  BY <1>3, OrderRowsAre
<1>5. 0 \in 0..Len(L)
  BY <1>4
<1>6. PICK z, none, e, read : z = 0 /\ none = {} /\ e = <<>> /\ read = "read"
  OBVIOUS
<1>7. IsFiniteSet(none) /\ Cardinality(none) = 0 /\ FirstRows(L, z) = none
  BY <1>4, <1>6, FS_EmptySet
<1>8. ASSUME op = "sort" PROVE SortOK(L, s, rs)
  <2>1. s = [phase |-> read, pos |-> z, run |-> none, runs |-> e]
    BY <1>1, <1>2, <1>6, <1>8 DEF InitOrder
  <2>2. Files(e, none)
    BY <1>6, FilesEmpty
  <2>3. \A x : (x \in FirstRows(L, z) <=> x \in none \/ x \in none) /\ ~(x \in none /\ x \in none)
    BY <1>6, <1>7
  <2>4. ReadingOK(L, s)
    BY <1>5, <1>6, <1>7, <2>1, <2>2, <2>3 DEF ReadingOK
  <2> QED BY <1>3, <2>4 DEF SortOK
<1>9. ASSUME op = "topN" PROVE TopNOK(L, s, rs)
  <2>1. s = [phase |-> read, pos |-> z, heap |-> none]
    BY <1>1, <1>2, <1>6, <1>9 DEF InitOrder
  <2>2. HeapOK(L, z, none)
    <3>1. Cardinality(none) <= LimitCount
      BY <1>7, BoundsAssumption
    <3>2. \A x : x \notin none
      BY <1>6
    <3> QED BY <1>7, <3>1, <3>2 DEF HeapOK
  <2>3. s.heap = none
    BY <2>1
  <2> QED BY <1>3, <1>5, <1>6, <2>1, <2>2, <2>3 DEF TopNOK
<1> QED BY <1>2, <1>3, <1>8, <1>9 DEF OrderInv

LEMMA OrderPhase ==
    ASSUME OrderInv, op \in {"sort", "topN"}
    PROVE  st.phase \in {"read", "merge", "next", "done"}
<1>1. PICK L, s, rs : L = left /\ s = st /\ rs = out
  OBVIOUS
<1>2. CASE op = "sort"
  <2>1. SortOK(L, s, rs)
    BY <1>1, <1>2 DEF OrderInv
  <2> QED BY <1>1, <2>1 DEF SortOK, ReadingOK, MergingOK, MergeState, EmittingOK
<1>3. CASE op = "topN"
  <2>1. TopNOK(L, s, rs)
    BY <1>1, <1>3 DEF OrderInv
  <2> QED BY <1>1, <2>1 DEF TopNOK, EmittingOK
<1> QED BY <1>2, <1>3

LEMMA OrderSteps ==
    ASSUME OrderInv, op \in {"sort", "topN"}, [Next]_vars
    PROVE  OrderStep \/ UNCHANGED <<st, out>>
<1>1. CASE JoinStep
  BY <1>1, OrderKinds DEF JoinStep, NestedLoopNext, IndexLoopNext, PartitionInputsIntoBatches, HashNext,
                          InitMergeJoin, Compare, EmitMatches, AdvanceOuterDuplicates
<1>2. CASE UniqueNext \/ SetOpNext
  BY <1>2, OrderKinds DEF UniqueNext, SetOpNext
<1>3. CASE AggregateStep
  <2>1. st.phase \notin {"empty", "load", "groups"}
    BY OrderPhase
  <2> QED BY <1>3, <2>1, OrderKinds DEF AggregateStep, HashAggregateInit, EmitEmpty, LoadNextBatch,
                                        HashAggregateNext, StreamAggregateNext, HashAggregates, StreamAggregates
<1>4. CASE Ended \/ UNCHANGED vars
  BY <1>4 DEF Ended, vars
<1> QED BY <1>1, <1>2, <1>3, <1>4 DEF Next

LEMMA OrderKept == OrderInv /\ [Next]_vars => OrderInv'
<1> SUFFICES ASSUME OrderInv, [Next]_vars, op \in {"sort", "topN"} PROVE OrderInv'
  BY InputsStay DEF OrderInv, Inputs
<1>1. op' = op /\ left' = left
  BY InputsStay DEF Inputs
<1>2. left \in OrderRows
  BY DEF OrderInv
<1>3. CASE UNCHANGED <<st, out>>
  <2>1. st' = st /\ out' = out
    BY <1>3
  <2> QED BY <1>1, <2>1 DEF OrderInv
<1>4. CASE OrderStep
  <2>1. CASE op = "sort"
    <3>1. SortRead \/ SortEndOfInput \/ StartGroup \/ MergeRunGroup \/ EndPass \/ OrderedNext
      BY <1>4, <2>1 DEF OrderStep, TopNRead, TopNEndOfInput
    <3>2. SortOK(left, st, out)
      BY <2>1 DEF OrderInv
    <3>3. SortOK(left, st', out')
      BY <1>2, <3>1, <3>2, SortReads, SortEnds, SortStartsGroup, SortMerges, SortEndsPass, SortReturns
    <3> QED BY <1>1, <1>2, <2>1, <3>3 DEF OrderInv
  <2>2. CASE op = "topN"
    <3>1. TopNRead \/ TopNEndOfInput \/ OrderedNext
      BY <1>4, <2>2 DEF OrderStep, SortRead, SortEndOfInput, StartGroup, MergeRunGroup, EndPass
    <3>2. TopNOK(left, st, out)
      BY <2>2 DEF OrderInv
    <3>3. TopNOK(left, st', out')
      BY <1>2, <3>1, <3>2, TopNReads, TopNEnds, TopNReturns
    <3> QED BY <1>1, <1>2, <2>2, <3>3 DEF OrderInv
  <2> QED BY <2>1, <2>2
<1> QED BY <1>3, <1>4, OrderSteps

LEMMA OrderResult == OrderInv => OrderingCorrect
<1> SUFFICES ASSUME OrderInv, op \in {"sort", "topN"}, st.phase = "done"
             PROVE  /\ InOrder(out) /\ IsInjective(out) /\ ToSet(out) \subseteq ToSet(left)
                    /\ Len(out) = IF op = "sort" THEN Len(left) ELSE Min({LimitCount, Len(left)})
                    /\ \A row \in ToSet(left) \ ToSet(out), kept \in ToSet(out) : kept.key <= row.key
  BY DEF OrderingCorrect, Done
<1>1. PICK L, s, rs : L = left /\ s = st /\ rs = out
  OBVIOUS
<1>2. L \in OrderRows /\ s.phase = "done"
  BY <1>1 DEF OrderInv
<1>3. CASE op = "sort"
  <2>1. SortOK(L, s, rs)
    BY <1>1, <1>3 DEF OrderInv
  <2>2. InOrder(rs) /\ IsInjective(rs) /\ ToSet(rs) = ToSet(L) /\ Len(rs) = Len(L)
    BY <1>2, <2>1, SortResult
  <2> QED BY <1>1, <1>3, <2>2
<1>4. CASE op = "topN"
  <2>1. TopNOK(L, s, rs)
    BY <1>1, <1>4 DEF OrderInv
  <2> QED BY <1>1, <1>2, <1>4, <2>1, TopNResult
<1> QED BY <1>3, <1>4

(* OrderInv is inductive: no row is lost or doubled between the input, the  *)
(* run being filled, the files of a pass, the group being merged and what   *)
(* was merged of it, and the heap of a top-N holds the best rows read.      *)
THEOREM OrderInvariant == Spec => []OrderInv
<1>1. OrderInv /\ UNCHANGED vars => OrderInv'
  BY OrderKept
<1> QED BY OrderInit, OrderKept, PTL DEF Spec

(* SortExecutor returns its input in order, for every capacity of a run and *)
(* every merge fan-in, and TopNExecutor what a sort and a limit may return. *)
THEOREM SortsAndLimits == Spec => []OrderingCorrect
BY OrderInvariant, OrderResult, PTL

-----------------------------------------------------------------------------
(* Unique and the set operations.                                          *)

LEMMA SortedRowsAre ==
    ASSUME NEW L \in SortedRows
    PROVE  \E n \in Nat : /\ n = Len(L) /\ DOMAIN L = 1..n
                          /\ \A i \in 1..n : L[i].key \in Nat /\ L[i].key \in Key \cup {Null}
                          /\ \A i, j \in 1..n : i <= j => L[i].key <= L[j].key
<1>1. MaxRows \in Nat
  BY BoundsAssumption
<1>2. L \in {Numbered(t) : t \in SeqOf(Key \cup {Null}, MaxRows)} /\ InOrder(L)
  BY DEF SortedRows
<1>3. PICK n \in Nat : /\ n = Len(L) /\ DOMAIN L = 1..n
                       /\ \A i \in 1..n : L[i].key \in Key \cup {Null} /\ L[i].val = i
  BY <1>1, <1>2, NumberedRowsAre
<1>4. \A i \in 1..n : L[i].key \in Nat
  <2>1. Null \in Nat /\ \A k \in Key : k \in Nat
    BY BoundsAssumption DEF Null
  <2> QED BY <1>3, <2>1
<1>5. ASSUME NEW i \in 1..n, NEW j \in 1..n, i <= j PROVE L[i].key <= L[j].key
  <2>1. CASE i = j
    BY <1>4, <2>1
  <2>2. CASE i < j
    BY <1>2, <1>3, <2>2 DEF InOrder
  <2> QED BY <1>5, <2>1, <2>2
<1> QED BY <1>3, <1>4, <1>5

(* One more row.                                                           *)
LEMMA CopiesAppend ==
    ASSUME NEW T, NEW rs \in Seq(T), NEW x, NEW k
    PROVE  /\ Copies(rs, k) \in Nat
           /\ Copies(Append(rs, x), k) = Copies(rs, k) + (IF k = x THEN 1 ELSE 0)
<1>1. PICK n \in Nat : n = Len(rs) /\ DOMAIN rs = 1..n
  OBVIOUS
<1>2. PICK r2 : r2 = Append(rs, x)
  OBVIOUS
<1>3. DOMAIN r2 = 1..(n + 1) /\ r2[n + 1] = x /\ \A i \in 1..n : r2[i] = rs[i]
  BY <1>1, <1>2
<1>4. PICK A, B : A = {i \in 1..n : rs[i] = k} /\ B = {i \in 1..(n + 1) : r2[i] = k}
  OBVIOUS
<1>5. IsFiniteSet(A) /\ Cardinality(A) \in Nat
  <2>1. IsFiniteSet(1..n) /\ A \in SUBSET (1..n)
    BY <1>4, FS_Interval
  <2>2. IsFiniteSet(A)
    BY <2>1, FS_Subset, Zenon
  <2> QED BY <2>2, FS_CardinalityType
<1>6. Copies(rs, k) = Cardinality(A) /\ Copies(r2, k) = Cardinality(B)
  BY <1>1, <1>3, <1>4 DEF Copies
<1>7. CASE k = x
  <2>1. B = A \cup {n + 1} /\ n + 1 \notin A
    BY <1>3, <1>4, <1>7
  <2>2. Cardinality(B) = Cardinality(A) + 1
    BY <1>5, <2>1, FS_AddElement
  <2> QED BY <1>2, <1>5, <1>6, <1>7, <2>2
<1>8. CASE k # x
  <2>1. B = A
    BY <1>3, <1>4, <1>8
  <2> QED BY <1>2, <1>5, <1>6, <1>8, <2>1
<1> QED BY <1>7, <1>8

LEMMA CopiesEmpty == \A k : Copies(<<>>, k) = 0
<1> SUFFICES ASSUME NEW k PROVE Copies(<<>>, k) = 0
  OBVIOUS
<1>1. {i \in DOMAIN <<>> : <<>>[i] = k} = {}
  OBVIOUS
<1> QED BY <1>1, FS_EmptySet DEF Copies

(* A key that no row has, and one that some row has.                       *)
LEMMA CopiesOfKeyAre ==
    ASSUME NEW n \in Nat, NEW L, DOMAIN L = 1..n, NEW k
    PROVE  /\ CopiesOfKey(L, k) \in Nat
           /\ CopiesOfKey(L, k) # 0 <=> \E i \in 1..n : L[i].key = k
<1>1. PICK A : A = {i \in 1..n : L[i].key = k}
  OBVIOUS
<1>2. IsFiniteSet(A)
  <2>1. IsFiniteSet(1..n) /\ A \in SUBSET (1..n)
    BY <1>1, FS_Interval
  <2> QED BY <2>1, FS_Subset, Zenon
<1>3. Cardinality(A) \in Nat /\ (Cardinality(A) = 0 <=> A = {})
  BY <1>2, FS_CardinalityType, FS_EmptySet
<1>4. CopiesOfKey(L, k) = Cardinality(A)
  BY <1>1 DEF CopiesOfKey
<1>5. A # {} <=> \E i \in 1..n : L[i].key = k
  BY <1>1
<1> QED BY <1>3, <1>4, <1>5

(* One of the first rows has the key.                                      *)
Seen(L, l, k) == \E i \in 1..(l - 1) : L[i].key = k

UniqueOK(L, s, rs) ==
    \E l \in 1..(Len(L) + 1) :
        /\ s.phase \in {"next", "done"}
        /\ s = [phase |-> s.phase, l |-> l, r |-> 1, remaining |-> 0, row |-> s.row]
        /\ l > 1 => s.row = L[l - 1].key
        /\ \E T : rs \in Seq(T)
        /\ \A k : Copies(rs, k) = IF Seen(L, l, k) THEN 1 ELSE 0
        /\ s.phase = "done" => l = Len(L) + 1

LEMMA UniqueSteps ==
    ASSUME UniqueNext, left \in SortedRows, UniqueOK(left, st, out)
    PROVE  UniqueOK(left, st', out')
<1>1. PICK L, s, rs, s2, rs2 : L = left /\ s = st /\ rs = out /\ s2 = st' /\ rs2 = out'
  OBVIOUS
<1>2. L \in SortedRows /\ UniqueOK(L, s, rs) /\ s.phase # "done"
  BY <1>1 DEF UniqueNext, Done
<1>3. PICK n \in Nat : /\ n = Len(L) /\ DOMAIN L = 1..n
                       /\ \A i \in 1..n : L[i].key \in Nat /\ L[i].key \in Key \cup {Null}
                       /\ \A i, j \in 1..n : i <= j => L[i].key <= L[j].key
  BY <1>2, SortedRowsAre
<1>4. PICK l \in 1..(n + 1) :
          /\ s.phase \in {"next", "done"}
          /\ s = [phase |-> s.phase, l |-> l, r |-> 1, remaining |-> 0, row |-> s.row]
          /\ l > 1 => s.row = L[l - 1].key
          /\ \E T : rs \in Seq(T)
          /\ \A k : Copies(rs, k) = IF Seen(L, l, k) THEN 1 ELSE 0
          /\ s.phase = "done" => l = Len(L) + 1
  BY <1>2, <1>3 DEF UniqueOK
<1>5. PICK row, next, z, one : row = s.row /\ next = "next" /\ z = 0 /\ one = 1
  OBVIOUS
<1>6. s.phase = next /\ s = [phase |-> next, l |-> l, r |-> one, remaining |-> z, row |-> row] /\ s.l = l
  BY <1>2, <1>4, <1>5
<1>7. PICK T : rs \in Seq(T)
  BY <1>4
<1>8. \/ /\ l <= n /\ s2 = [s EXCEPT !.l = @ + 1, !.row = L[l].key]
         /\ rs2 = IF l = 1 \/ row # L[l].key THEN Append(rs, L[l].key) ELSE rs
      \/ l > n /\ s2 = [s EXCEPT !.phase = "done"] /\ rs2 = rs
  BY <1>1, <1>3, <1>5, <1>6 DEF UniqueNext, Finish, Emit
<1>9. CASE /\ l <= n /\ s2 = [s EXCEPT !.l = @ + 1, !.row = L[l].key]
           /\ rs2 = (IF l = 1 \/ row # L[l].key THEN Append(rs, L[l].key) ELSE rs)
  <2>1. PICK l2, x : l2 = l + 1 /\ x = L[l].key
    OBVIOUS
  <2>2. s2 = [s EXCEPT !.l = l2, !.row = x]
    <3>1. s2 = [s EXCEPT !.l = s.l + 1, !.row = L[l].key]
      BY <1>9
    <3> QED BY <1>6, <2>1, <3>1
  <2>3. s2 = [phase |-> next, l |-> l2, r |-> one, remaining |-> z, row |-> x]
    <3>1. s = [phase |-> next, l |-> l, r |-> one, remaining |-> z, row |-> row]
      BY <1>6
    <3> QED BY <2>2, <3>1
  <2>4. l2 \in 1..(n + 1) /\ l2 - 1 = l /\ l \in 1..n
    BY <1>9, <2>1
  <2>5. \A k : Seen(L, l2, k) <=> Seen(L, l, k) \/ k = x
    <3>1. 1..(l2 - 1) = (1..(l - 1)) \cup {l}
      BY <2>4
    <3> QED BY <2>1, <3>1 DEF Seen
  <2>6. (l = 1 \/ row # x) <=> ~Seen(L, l, x)
    <3>1. CASE l = 1
      BY <3>1 DEF Seen
    <3>2. CASE l # 1
      <4>1. row = L[l - 1].key /\ l - 1 \in 1..(l - 1) /\ l - 1 \in 1..n
        BY <1>4, <1>5, <2>4, <3>2
      <4>2. row = x => Seen(L, l, x)
        BY <4>1 DEF Seen
      <4>3. ASSUME row # x, NEW i \in 1..(l - 1) PROVE L[i].key # x
        <5>1. i \in 1..n /\ i <= l - 1 /\ l - 1 <= l
          BY <2>4, <4>3
        <5>2. L[i].key <= row /\ row <= x /\ L[i].key \in Nat /\ row \in Nat /\ x \in Nat
          BY <1>3, <2>1, <2>4, <4>1, <5>1
        <5> QED BY <4>3, <5>2
      <4> QED BY <3>2, <4>2, <4>3 DEF Seen
    <3> QED BY <3>1, <3>2
  <2>7. rs2 = IF Seen(L, l, x) THEN rs ELSE Append(rs, x)
    BY <1>9, <2>1, <2>6
  <2>8. ASSUME NEW k PROVE Copies(rs2, k) = IF Seen(L, l2, k) THEN 1 ELSE 0
    <3>1. Copies(rs, k) = IF Seen(L, l, k) THEN 1 ELSE 0
      BY <1>4
    <3>2. Copies(Append(rs, x), k) = Copies(rs, k) + (IF k = x THEN 1 ELSE 0)
      BY <1>7, CopiesAppend
    <3>3. CASE Seen(L, l, x)
      BY <2>5, <2>7, <3>1, <3>3
    <3>4. CASE ~Seen(L, l, x)
      BY <2>5, <2>7, <3>1, <3>2, <3>4
    <3> QED BY <3>3, <3>4
  <2>9. \E U : rs2 \in Seq(U)
    <3>1. rs \in Seq(T \cup {x}) /\ Append(rs, x) \in Seq(T \cup {x})
      BY <1>7
    <3> QED BY <2>7, <3>1
  <2>10. s2.phase = "next" /\ s2.row = x
    BY <1>5, <2>3
  <2>11. UniqueOK(L, s2, rs2)
    BY <1>3, <1>5, <2>1, <2>3, <2>4, <2>8, <2>9, <2>10 DEF UniqueOK
  <2> QED BY <1>1, <2>11
<1>10. CASE l > n /\ s2 = [s EXCEPT !.phase = "done"] /\ rs2 = rs
  <2>1. PICK done : done = "done"
    OBVIOUS
  <2>2. s2 = [phase |-> done, l |-> l, r |-> one, remaining |-> z, row |-> row]
    BY <1>6, <1>10, <2>1
  <2>3. s2.phase = "done" /\ s2.row = row /\ l = n + 1
    BY <1>10, <2>1, <2>2
  <2>4. UniqueOK(L, s2, rs2)
    BY <1>3, <1>4, <1>5, <1>10, <2>1, <2>2, <2>3 DEF UniqueOK
  <2> QED BY <1>1, <2>4
<1> QED BY <1>8, <1>9, <1>10

LEMMA UniqueResult ==
    ASSUME NEW L \in SortedRows, NEW s, NEW rs, UniqueOK(L, s, rs), s.phase = "done", NEW k
    PROVE  Copies(rs, k) = Min({CopiesOfKey(L, k), 1})
<1>1. PICK n \in Nat : n = Len(L) /\ DOMAIN L = 1..n
  BY SortedRowsAre
<1>2. Copies(rs, k) = IF Seen(L, n + 1, k) THEN 1 ELSE 0
  BY <1>1 DEF UniqueOK
<1>3. Seen(L, n + 1, k) <=> \E i \in 1..n : L[i].key = k
  <2>1. (n + 1) - 1 = n
    OBVIOUS
  <2> QED BY <2>1 DEF Seen
<1>4. PICK c \in Nat : c = CopiesOfKey(L, k) /\ (c # 0 <=> \E i \in 1..n : L[i].key = k)
  BY <1>1, CopiesOfKeyAre
<1>5. Min({c, 1}) = IF c <= 1 THEN c ELSE 1
  BY MinOfTwo
<1> QED BY <1>2, <1>3, <1>4, <1>5

LEMMA MaxOfTwo ==
    ASSUME NEW a \in Int, NEW b \in Int
    PROVE  Max({a, b}) = IF a >= b THEN a ELSE b
<1>1. \E x \in {a, b} : \A y \in {a, b} : x >= y
  <2>1. CASE a >= b
    BY <2>1
  <2>2. CASE ~(a >= b)
    BY <2>2
  <2> QED BY <2>1, <2>2
<1>2. Max({a, b}) \in {a, b} /\ \A y \in {a, b} : Max({a, b}) >= y
  BY <1>1 DEF Max
<1> QED BY <1>2

(* How often a row must come when it is a times left and b times right.    *)
Expected(o, a, b) ==
    CASE o = "unique" -> Min({a, 1})
      [] o = "intersect" -> Min({a, b, 1})
      [] o = "intersectAll" -> Min({a, b})
      [] o = "except" -> IF b = 0 THEN Min({a, 1}) ELSE 0
      [] o = "exceptAll" -> Max({a - b, 0})

LEMMA ExpectedValues ==
    ASSUME op \in SetOps, NEW a \in Nat, NEW b \in Nat
    PROVE  /\ Expected(op, a, b) \in Nat
           /\ a = 0 => Expected(op, a, b) = 0
           /\ a # 0 /\ b = 0 => EmitLeftCount(a) = Expected(op, a, b)
           /\ a # 0 /\ b # 0 => EmitCount(a, b) = Expected(op, a, b)
           /\ op \in {"intersect", "intersectAll"} /\ b = 0 => Expected(op, a, b) = 0
<1>1. CASE op = "intersect"
  <2>1. Expected(op, a, b) = Min({a, b, 1}) /\ EmitLeftCount(a) = 0 /\ EmitCount(a, b) = 1
    BY <1>1 DEF Expected, EmitLeftCount, EmitCount
  <2>2. PICK S : S = {a, b, 1}
    OBVIOUS
  <2>3. S \subseteq Nat /\ S # {}
    BY <2>2
  <2>4. PICK m : m = Min(S) /\ m \in S /\ \A y \in S : m <= y
    BY <2>3, MinOfNaturals
  <2>5. m \in Nat /\ (m = a \/ m = b \/ m = 1) /\ m <= a /\ m <= b /\ m <= 1
    BY <2>2, <2>3, <2>4
  <2> QED BY <2>1, <2>2, <2>4, <2>5
<1>2. CASE op = "intersectAll"
  <2>1. Expected(op, a, b) = Min({a, b}) /\ EmitLeftCount(a) = 0 /\ EmitCount(a, b) = Min({a, b})
    BY <1>2 DEF Expected, EmitLeftCount, EmitCount
  <2>2. Min({a, b}) = IF a <= b THEN a ELSE b
    BY MinOfTwo
  <2> QED BY <2>1, <2>2
<1>3. CASE op = "except"
  <2>1. Expected(op, a, b) = (IF b = 0 THEN Min({a, 1}) ELSE 0) /\ EmitLeftCount(a) = 1 /\ EmitCount(a, b) = 0
    BY <1>3 DEF Expected, EmitLeftCount, EmitCount
  <2>2. Min({a, 1}) = IF a <= 1 THEN a ELSE 1
    BY MinOfTwo
  <2> QED BY <1>3, <2>1, <2>2
<1>4. CASE op = "exceptAll"
  <2>1. Expected(op, a, b) = Max({a - b, 0}) /\ EmitLeftCount(a) = a /\ EmitCount(a, b) = Max({a - b, 0})
    BY <1>4 DEF Expected, EmitLeftCount, EmitCount
  <2>2. Max({a - b, 0}) = IF a - b >= 0 THEN a - b ELSE 0
    BY MaxOfTwo
  <2> QED BY <1>4, <2>1, <2>2
<1> QED BY <1>1, <1>2, <1>3, <1>4 DEF SetOps

(* A group ends before place l and another begins there.                   *)
Boundary(L, l) ==
    /\ l \in 1..(Len(L) + 1)
    /\ \A i \in 1..(l - 1), j \in l..Len(L) : L[i].key < L[j].key

(* ReadNextGroup: all the rows with the key, and the next group.           *)
LEMMA NextGroup ==
    ASSUME NEW L \in SortedRows, NEW l, Boundary(L, l), l <= Len(L), NEW c, c = GroupCount(L, l)
    PROVE  /\ c \in Nat \ {0} /\ c = CopiesOfKey(L, L[l].key) /\ Boundary(L, l + c)
           /\ \A i \in l..((l + c) - 1) : L[i].key = L[l].key
<1>1. PICK n \in Nat : /\ n = Len(L) /\ DOMAIN L = 1..n
                       /\ \A i \in 1..n : L[i].key \in Nat /\ L[i].key \in Key \cup {Null}
                       /\ \A i, j \in 1..n : i <= j => L[i].key <= L[j].key
  BY SortedRowsAre
<1>2. l \in 1..n
  BY <1>1 DEF Boundary
<1>3. PICK k \in Nat : k = L[l].key
  BY <1>1, <1>2
<1>4. PICK S : S = {j \in l..(n + 1) : j = n + 1 \/ L[j].key # k}
  OBVIOUS
<1>5. n + 1 \in S /\ S \subseteq Nat
  BY <1>2, <1>4
<1>6. PICK e \in S : \A j \in S : e <= j
  BY <1>5, LeastNatural
<1>7. e \in l..(n + 1) /\ (e = n + 1 \/ L[e].key # k) /\ l # e
  BY <1>2, <1>3, <1>4, <1>6
<1>8. \A i \in l..(e - 1) : L[i].key = k
  <2> SUFFICES ASSUME NEW i \in l..(e - 1) PROVE L[i].key = k
    OBVIOUS
  <2>1. i \in l..(n + 1) /\ i # n + 1 /\ i < e
    BY <1>2, <1>7
  <2>2. i \notin S
    BY <1>5, <1>6, <1>7, <2>1
  <2> QED BY <1>4, <2>1, <2>2
<1>9. \A j \in e..n : L[j].key > k
  <2> SUFFICES ASSUME NEW j \in e..n PROVE L[j].key > k
    OBVIOUS
  <2>1. e \in 1..n /\ j \in 1..n /\ L[e].key # k /\ l <= e /\ e <= j
    BY <1>2, <1>7
  <2>2. k <= L[e].key /\ L[e].key <= L[j].key /\ L[e].key \in Nat /\ L[j].key \in Nat
    BY <1>1, <1>2, <1>3, <2>1
  <2> QED BY <1>3, <2>1, <2>2
<1>10. \A i \in 1..(l - 1) : L[i].key < k
  BY <1>1, <1>2, <1>3 DEF Boundary
<1>11. {i \in l..n : L[i].key = k} = l..(e - 1)
  <2>1. \A i \in l..n : i \in l..(e - 1) \/ i \in e..n
    BY <1>2, <1>7
  <2>2. \A i \in l..(e - 1) : i \in l..n
    BY <1>2, <1>7
  <2>3. \A i \in e..n : L[i].key # k
    BY <1>3, <1>9
  <2> QED BY <1>8, <2>1, <2>2, <2>3
<1>12. {i \in 1..n : L[i].key = k} = l..(e - 1)
  <2>1. \A i \in 1..n : i \in 1..(l - 1) \/ i \in l..n
    BY <1>2
  <2>2. \A i \in l..n : i \in 1..n
    BY <1>2
  <2>3. \A i \in 1..(l - 1) : L[i].key # k
    BY <1>3, <1>10
  <2> QED BY <1>11, <2>1, <2>2, <2>3
<1>13. Cardinality(l..(e - 1)) = e - l
  <2>1. l \in Int /\ e - 1 \in Int /\ l <= e - 1
    BY <1>2, <1>7
  <2>2. Cardinality(l..(e - 1)) = IF l > e - 1 THEN 0 ELSE ((e - 1) - l) + 1
    BY <2>1, FS_Interval
  <2> QED BY <1>2, <1>7, <2>1, <2>2
<1>14. c = e - l
  BY <1>1, <1>3, <1>11, <1>13 DEF GroupCount
<1>15. CopiesOfKey(L, k) = e - l
  BY <1>1, <1>12, <1>13 DEF CopiesOfKey
<1>16. c \in Nat \ {0} /\ l + c = e
  BY <1>2, <1>7, <1>14
<1>17. Boundary(L, e)
  <2> SUFFICES ASSUME NEW i \in 1..(e - 1), NEW j \in e..n PROVE L[i].key < L[j].key
    BY <1>1, <1>2, <1>7 DEF Boundary
  <2>1. L[i].key \in Nat /\ L[j].key \in Nat /\ L[j].key > k
    BY <1>1, <1>2, <1>7, <1>9
  <2>2. L[i].key <= k
    <3>1. CASE i \in 1..(l - 1)
      BY <1>3, <1>10, <2>1, <3>1
    <3>2. CASE i \in l..(e - 1)
      BY <1>3, <1>8, <3>2
    <3> QED BY <1>2, <1>7, <3>1, <3>2
  <2> QED BY <1>3, <2>1, <2>2
<1> QED BY <1>3, <1>8, <1>14, <1>15, <1>16, <1>17

(* What was returned and what is still to be returned of the last row.     *)
Counted(o, L, R, l, rs, row, c) ==
    /\ \E T : rs \in Seq(T)
    /\ \A k : Copies(rs, k) + (IF k = row THEN c ELSE 0) =
                IF Seen(L, l, k) THEN Expected(o, CopiesOfKey(L, k), CopiesOfKey(R, k)) ELSE 0

(* The groups left behind on the right come before the next on the left.   *)
Behind(L, R, l, r) == \A i \in l..Len(L), j \in 1..(r - 1) : R[j].key < L[i].key

SetOpState(o, L, R, s, rs, l, r, c) ==
    /\ s.phase \in {"next", "done"}
    /\ s = [phase |-> s.phase, l |-> l, r |-> r, remaining |-> c, row |-> s.row]
    /\ Boundary(L, l) /\ Boundary(R, r) /\ Behind(L, R, l, r) /\ c \in Nat
    /\ Counted(o, L, R, l, rs, s.row, c)
    /\ s.phase = "done" =>
          c = 0 /\ (l = Len(L) + 1 \/ (o \in {"intersect", "intersectAll"} /\ r = Len(R) + 1))

SetOpOK(o, L, R, s, rs) == \E l, r, c : SetOpState(o, L, R, s, rs, l, r, c)

LEMMA CountedEmit ==
    ASSUME NEW o, NEW L, NEW R, NEW l, NEW rs, NEW row, NEW c \in Nat, c > 0, Counted(o, L, R, l, rs, row, c)
    PROVE  Counted(o, L, R, l, Append(rs, row), row, c - 1)
<1>1. PICK T : rs \in Seq(T)
  BY DEF Counted
<1>2. PICK rs2 : rs2 = Append(rs, row)
  OBVIOUS
<1>3. rs2 \in Seq(T \cup {row})
  BY <1>1, <1>2
<1>4. ASSUME NEW k
      PROVE  Copies(rs2, k) + (IF k = row THEN c - 1 ELSE 0) = Copies(rs, k) + (IF k = row THEN c ELSE 0)
  <2>1. Copies(rs, k) \in Nat /\ Copies(rs2, k) = Copies(rs, k) + (IF k = row THEN 1 ELSE 0)
    BY <1>1, <1>2, CopiesAppend
  <2> QED BY <2>1
<1>5. \E U : rs2 \in Seq(U)
  BY <1>3
<1>6. ASSUME NEW k
      PROVE  Copies(rs, k) + (IF k = row THEN c ELSE 0) =
                IF Seen(L, l, k) THEN Expected(o, CopiesOfKey(L, k), CopiesOfKey(R, k)) ELSE 0
  BY DEF Counted
<1> QED BY <1>2, <1>4, <1>5, <1>6 DEF Counted

LEMMA CountedAdvance ==
    ASSUME NEW o, NEW L \in SortedRows, NEW R, NEW l, NEW rs, NEW row, NEW c, NEW l2,
           Boundary(L, l), l <= Len(L), l2 = l + GroupCount(L, l), Counted(o, L, R, l, rs, row, 0),
           c = Expected(o, CopiesOfKey(L, L[l].key), CopiesOfKey(R, L[l].key)), c \in Nat
    PROVE  Counted(o, L, R, l2, rs, L[l].key, c)
<1>1. PICK g, k0 : g = GroupCount(L, l) /\ k0 = L[l].key
  OBVIOUS
<1>2. /\ g \in Nat \ {0} /\ l2 = l + g
      /\ \A i \in l..(l2 - 1) : L[i].key = k0
  BY <1>1, NextGroup
<1>3. PICK n \in Nat : n = Len(L) /\ l \in 1..n /\ \A i \in 1..n : L[i].key \in Nat
  BY SortedRowsAre DEF Boundary
<1>4. ~Seen(L, l, k0)
  <2>1. \A i \in 1..(l - 1) : L[i].key < k0 /\ i \in 1..n
    BY <1>1, <1>3 DEF Boundary
  <2>2. \A i \in 1..(l - 1) : L[i].key # k0
    BY <1>1, <1>3, <2>1
  <2> QED BY <2>2 DEF Seen
<1>5. ASSUME NEW k PROVE Seen(L, l2, k) <=> Seen(L, l, k) \/ k = k0
  <2>1. 1..(l2 - 1) = (1..(l - 1)) \cup (l..(l2 - 1)) /\ l \in l..(l2 - 1)
    BY <1>2, <1>3
  <2> QED BY <1>2, <2>1 DEF Seen
<1>6. PICK T : rs \in Seq(T)
  BY DEF Counted
<1>7. ASSUME NEW k
      PROVE  Copies(rs, k) + (IF k = k0 THEN c ELSE 0) =
                IF Seen(L, l2, k) THEN Expected(o, CopiesOfKey(L, k), CopiesOfKey(R, k)) ELSE 0
  <2>1. Copies(rs, k) \in Nat
    BY <1>6, CopiesAppend
  <2>2. Copies(rs, k) + (IF k = row THEN 0 ELSE 0) =
                IF Seen(L, l, k) THEN Expected(o, CopiesOfKey(L, k), CopiesOfKey(R, k)) ELSE 0
    BY DEF Counted
  <2>3. Copies(rs, k) = IF Seen(L, l, k) THEN Expected(o, CopiesOfKey(L, k), CopiesOfKey(R, k)) ELSE 0
    BY <2>1, <2>2
  <2>4. CASE k = k0
    BY <1>1, <1>4, <1>5, <2>3, <2>4
  <2>5. CASE k # k0
    BY <1>5, <2>1, <2>3, <2>5
  <2> QED BY <2>4, <2>5
<1>8. \E U : rs \in Seq(U)
  BY <1>6
<1> QED BY <1>1, <1>7, <1>8 DEF Counted

(* A row of the left child alone.                                          *)
LEMMA LeftAlone ==
    ASSUME NEW L \in SortedRows, NEW R \in SortedRows, NEW l, NEW r, Boundary(R, r), Behind(L, R, l, r),
           l \in 1..Len(L), r > Len(R) \/ L[l].key < R[r].key
    PROVE  CopiesOfKey(R, L[l].key) = 0
<1>1. PICK m \in Nat : /\ m = Len(R) /\ DOMAIN R = 1..m /\ \A i \in 1..m : R[i].key \in Nat
                       /\ \A i, j \in 1..m : i <= j => R[i].key <= R[j].key
  BY SortedRowsAre
<1>2. PICK n \in Nat : n = Len(L) /\ \A i \in 1..n : L[i].key \in Nat
  BY SortedRowsAre
<1>3. PICK k \in Nat : k = L[l].key
  BY <1>2
<1>4. r \in 1..(m + 1)
  BY <1>1 DEF Boundary
<1>5. ASSUME NEW j \in 1..m PROVE R[j].key # k
  <2>1. CASE j \in 1..(r - 1)
    <3>1. R[j].key < k
      BY <1>2, <1>3, <2>1 DEF Behind
    <3> QED BY <1>1, <1>3, <3>1
  <2>2. CASE j \in r..m
    <3>1. r \in 1..m /\ r <= j /\ k < R[r].key
      BY <1>1, <1>3, <1>4, <2>2
    <3>2. R[r].key <= R[j].key /\ R[r].key \in Nat /\ R[j].key \in Nat
      BY <1>1, <3>1
    <3> QED BY <1>3, <3>1, <3>2
  <2> QED BY <1>4, <2>1, <2>2
<1>6. CopiesOfKey(R, k) = 0
  BY <1>1, <1>5, CopiesOfKeyAre
<1> QED BY <1>3, <1>6

(* SetOpNext on the parts of the state.                                    *)
SetOpMove(L, R, s, rs, s2, rs2, l, r, c) ==
    \/ c > 0 /\ rs2 = Append(rs, s.row) /\ s2 = [s EXCEPT !.remaining = c - 1]
    \/ /\ c = 0 /\ l <= Len(L) /\ (r > Len(R) \/ (r <= Len(R) /\ L[l].key < R[r].key))
       /\ rs2 = rs
       /\ s2 = [s EXCEPT !.l = l + GroupCount(L, l), !.row = L[l].key,
                         !.remaining = EmitLeftCount(GroupCount(L, l))]
    \/ /\ c = 0 /\ l <= Len(L) /\ r > Len(R) /\ op \in {"intersect", "intersectAll"}
       /\ s2 = [s EXCEPT !.phase = "done"] /\ rs2 = rs
    \/ /\ c = 0 /\ l <= Len(L) /\ r <= Len(R) /\ L[l].key > R[r].key
       /\ s2 = [s EXCEPT !.r = r + GroupCount(R, r)] /\ rs2 = rs
    \/ /\ c = 0 /\ l <= Len(L) /\ r <= Len(R) /\ L[l].key = R[r].key /\ rs2 = rs
       /\ s2 = [s EXCEPT !.l = l + GroupCount(L, l), !.row = L[l].key,
                         !.remaining = EmitCount(GroupCount(L, l), GroupCount(R, r)),
                         !.r = r + GroupCount(R, r)]
    \/ c = 0 /\ l > Len(L) /\ s2 = [s EXCEPT !.phase = "done"] /\ rs2 = rs

LEMMA SetOpCases ==
    ASSUME SetOpNext, NEW L, NEW R, NEW s, NEW rs, NEW s2, NEW rs2, NEW l, NEW r, NEW c,
           L = left, R = right, s = st, rs = out, s2 = st', rs2 = out', s.l = l, s.r = r, s.remaining = c
    PROVE  SetOpMove(L, R, s, rs, s2, rs2, l, r, c)
<1>1. PICK lc, rc, x : lc = GroupCount(left, st.l) /\ rc = GroupCount(right, st.r) /\ x = left[st.l].key
  OBVIOUS
<1>2. lc = GroupCount(L, l) /\ rc = GroupCount(R, r) /\ x = L[l].key
  BY <1>1
<1>3. CASE st.remaining > 0 /\ Emit(st.row) /\ st' = [st EXCEPT !.remaining = @ - 1]
  BY <1>3 DEF Emit, SetOpMove
<1>4. CASE /\ st.remaining = 0 /\ st.l <= Len(left) /\ UNCHANGED out
           /\ st' = [st EXCEPT !.l = @ + lc, !.row = x, !.remaining = EmitLeftCount(lc)]
           /\ st.r > Len(right) \/ (st.r <= Len(right) /\ left[st.l].key < right[st.r].key)
  <2>1. s2 = [s EXCEPT !.l = l + lc, !.row = x, !.remaining = EmitLeftCount(lc)]
    BY <1>4
  <2> QED BY <1>2, <1>4, <2>1 DEF SetOpMove
<1>5. CASE /\ st.remaining = 0 /\ st.l <= Len(left) /\ st.r > Len(right) /\ op \in {"intersect", "intersectAll"}
           /\ st' = [st EXCEPT !.phase = "done"] /\ UNCHANGED out
  BY <1>5 DEF SetOpMove
<1>6. CASE /\ st.remaining = 0 /\ st.l <= Len(left) /\ UNCHANGED out
           /\ st.r <= Len(right) /\ left[st.l].key > right[st.r].key /\ st' = [st EXCEPT !.r = @ + rc]
  <2>1. s2 = [s EXCEPT !.r = r + rc]
    BY <1>6
  <2> QED BY <1>2, <1>6, <2>1 DEF SetOpMove
<1>7. CASE /\ st.remaining = 0 /\ st.l <= Len(left) /\ UNCHANGED out
           /\ st.r <= Len(right) /\ left[st.l].key = right[st.r].key
           /\ st' = [[st EXCEPT !.l = @ + lc, !.row = x, !.remaining = EmitCount(lc, rc)] EXCEPT !.r = @ + rc]
  <2>1. PICK s1 : s1 = [s EXCEPT !.l = l + lc, !.row = x, !.remaining = EmitCount(lc, rc)]
    OBVIOUS
  <2>2. s1.r = r
    BY <2>1
  <2>3. s2 = [s1 EXCEPT !.r = @ + rc]
    BY <1>7, <2>1
  <2>4. s2 = [s1 EXCEPT !.r = r + rc]
    BY <2>2, <2>3
  <2>5. s2 = [s EXCEPT !.l = l + lc, !.row = x, !.remaining = EmitCount(lc, rc), !.r = r + rc]
    BY <2>1, <2>4
  <2> QED BY <1>2, <1>7, <2>5 DEF SetOpMove
<1>8. CASE st.remaining = 0 /\ st.l > Len(left) /\ Finish
  BY <1>8 DEF Finish, SetOpMove
<1> QED BY <1>1, <1>3, <1>4, <1>5, <1>6, <1>7, <1>8 DEF SetOpNext

LEMMA SetOpSteps ==
    ASSUME SetOpNext, left \in SortedRows, right \in SortedRows, SetOpOK(op, left, right, st, out)
    PROVE  SetOpOK(op, left, right, st', out')
<1>1. PICK o, L, R, s, rs, s2, rs2 :
          o = op /\ L = left /\ R = right /\ s = st /\ rs = out /\ s2 = st' /\ rs2 = out'
  OBVIOUS
<1>2. L \in SortedRows /\ R \in SortedRows /\ SetOpOK(o, L, R, s, rs) /\ s.phase # "done" /\ op \in SetOps
  BY <1>1 DEF SetOpNext, Done
<1>3. PICK l, r, c : SetOpState(o, L, R, s, rs, l, r, c)
  BY <1>2 DEF SetOpOK
<1>4. PICK n \in Nat : n = Len(L) /\ DOMAIN L = 1..n /\ \A i \in 1..n : L[i].key \in Nat
  BY <1>2, SortedRowsAre
<1>5. PICK m \in Nat : m = Len(R) /\ DOMAIN R = 1..m /\ \A i \in 1..m : R[i].key \in Nat
  BY <1>2, SortedRowsAre
<1>6. PICK row, next : row = s.row /\ next = "next"
  OBVIOUS
<1>7. s = [phase |-> next, l |-> l, r |-> r, remaining |-> c, row |-> row]
  BY <1>2, <1>3, <1>6 DEF SetOpState
<1>8. Boundary(L, l) /\ Boundary(R, r) /\ Behind(L, R, l, r) /\ c \in Nat /\ Counted(o, L, R, l, rs, row, c)
  BY <1>3, <1>6 DEF SetOpState
<1>9. s.l = l /\ s.r = r /\ s.remaining = c
  BY <1>7
<1>10. l \in 1..(n + 1) /\ r \in 1..(m + 1)
  BY <1>4, <1>5, <1>8 DEF Boundary
<1>11. CASE c > 0 /\ rs2 = Append(rs, s.row) /\ s2 = [s EXCEPT !.remaining = c - 1]
  <2>1. PICK c2 \in Nat : c2 = c - 1
    BY <1>8, <1>11
  <2>2. s2 = [s EXCEPT !.remaining = c2]
    BY <1>11, <2>1
  <2>3. s2 = [phase |-> next, l |-> l, r |-> r, remaining |-> c2, row |-> row]
    BY <1>7, <2>2
  <2>4. Counted(o, L, R, l, rs2, row, c2)
    BY <1>6, <1>8, <1>11, <2>1, CountedEmit
  <2>5. s2.phase = "next" /\ s2.row = row
    BY <1>6, <2>3
  <2>6. SetOpState(o, L, R, s2, rs2, l, r, c2)
    BY <1>6, <1>8, <2>3, <2>4, <2>5 DEF SetOpState
  <2> QED BY <1>1, <2>6 DEF SetOpOK
<1>12. CASE /\ c = 0 /\ l <= Len(L) /\ (r > Len(R) \/ (r <= Len(R) /\ L[l].key < R[r].key))
            /\ rs2 = rs
            /\ s2 = [s EXCEPT !.l = l + GroupCount(L, l), !.row = L[l].key,
                              !.remaining = EmitLeftCount(GroupCount(L, l))]
  <2>1. PICK g, x, l2, c2 : g = GroupCount(L, l) /\ x = L[l].key /\ l2 = l + g /\ c2 = EmitLeftCount(g)
    OBVIOUS
  <2>2. s2 = [s EXCEPT !.l = l2, !.row = x, !.remaining = c2]
    BY <1>12, <2>1
  <2>3. s2 = [phase |-> next, l |-> l2, r |-> r, remaining |-> c2, row |-> x]
    BY <1>7, <2>2
  <2>4. g \in Nat \ {0} /\ g = CopiesOfKey(L, x) /\ Boundary(L, l2)
    BY <1>2, <1>8, <1>12, <2>1, NextGroup
  <2>5. CopiesOfKey(R, x) = 0
    BY <1>2, <1>4, <1>8, <1>10, <1>12, <2>1, LeftAlone
  <2>6. c2 = Expected(o, CopiesOfKey(L, x), CopiesOfKey(R, x)) /\ c2 \in Nat
    BY <1>1, <1>2, <2>1, <2>4, <2>5, ExpectedValues
  <2>7. Counted(o, L, R, l2, rs2, x, c2)
    BY <1>2, <1>8, <1>12, <2>1, <2>6, CountedAdvance
  <2>8. Behind(L, R, l2, r)
    <3>1. \A i \in l2..Len(L) : i \in l..Len(L)
      BY <1>4, <1>10, <2>1, <2>4
    <3> QED BY <1>8, <3>1 DEF Behind
  <2>9. s2.phase = "next" /\ s2.row = x
    BY <1>6, <2>3
  <2>10. SetOpState(o, L, R, s2, rs2, l2, r, c2)
    BY <1>6, <1>8, <2>3, <2>4, <2>6, <2>7, <2>8, <2>9 DEF SetOpState
  <2> QED BY <1>1, <2>10 DEF SetOpOK
<1>13. CASE /\ c = 0 /\ l <= Len(L) /\ r <= Len(R) /\ L[l].key > R[r].key
            /\ s2 = [s EXCEPT !.r = r + GroupCount(R, r)] /\ rs2 = rs
  <2>1. PICK g, y, r2 : g = GroupCount(R, r) /\ y = R[r].key /\ r2 = r + g
    OBVIOUS
  <2>2. s2 = [s EXCEPT !.r = r2]
    BY <1>13, <2>1
  <2>3. s2 = [phase |-> next, l |-> l, r |-> r2, remaining |-> c, row |-> row]
    BY <1>7, <2>2
  <2>4. g \in Nat \ {0} /\ Boundary(R, r2) /\ \A j \in r..(r2 - 1) : R[j].key = y
    BY <1>2, <1>8, <1>13, <2>1, NextGroup
  <2>5. Behind(L, R, l, r2)
    <3> SUFFICES ASSUME NEW i \in l..n, NEW j \in 1..(r2 - 1) PROVE R[j].key < L[i].key
      BY <1>4 DEF Behind
    <3>1. CASE j \in 1..(r - 1)
      BY <1>4, <1>8, <3>1 DEF Behind
    <3>2. CASE j \in r..(r2 - 1)
      <4>1. R[j].key = y /\ y < L[l].key /\ l \in 1..n /\ i \in 1..n /\ l <= i
        BY <1>4, <1>10, <1>13, <2>1, <2>4, <3>2
      <4>2. L[l].key <= L[i].key /\ L[l].key \in Nat /\ L[i].key \in Nat
        BY <1>2, <1>4, <4>1, SortedRowsAre
      <4>3. y \in Nat
        BY <1>5, <1>10, <1>13, <2>1
      <4> QED BY <4>1, <4>2, <4>3
    <3> QED BY <1>10, <2>1, <2>4, <3>1, <3>2
  <2>6. s2.phase = "next" /\ s2.row = row
    BY <1>6, <2>3
  <2>7. SetOpState(o, L, R, s2, rs2, l, r2, c)
    BY <1>6, <1>8, <1>13, <2>3, <2>4, <2>5, <2>6 DEF SetOpState
  <2> QED BY <1>1, <2>7 DEF SetOpOK
<1>14. CASE /\ c = 0 /\ l <= Len(L) /\ r <= Len(R) /\ L[l].key = R[r].key /\ rs2 = rs
            /\ s2 = [s EXCEPT !.l = l + GroupCount(L, l), !.row = L[l].key,
                              !.remaining = EmitCount(GroupCount(L, l), GroupCount(R, r)),
                              !.r = r + GroupCount(R, r)]
  <2>1. PICK g, h, x, l2, r2, c2 : /\ g = GroupCount(L, l) /\ h = GroupCount(R, r) /\ x = L[l].key
                                   /\ l2 = l + g /\ r2 = r + h /\ c2 = EmitCount(g, h)
    OBVIOUS
  <2>2. s2 = [s EXCEPT !.l = l2, !.row = x, !.remaining = c2, !.r = r2]
    BY <1>14, <2>1
  <2>3. s2 = [phase |-> next, l |-> l2, r |-> r2, remaining |-> c2, row |-> x]
    <3>1. PICK s1 : s1 = [s EXCEPT !.l = l2, !.row = x, !.remaining = c2]
      OBVIOUS
    <3>2. s1 = [phase |-> next, l |-> l2, r |-> r, remaining |-> c2, row |-> x]
      BY <1>7, <3>1
    <3>3. s2 = [s1 EXCEPT !.r = r2]
      BY <2>2, <3>1
    <3> QED BY <3>2, <3>3
  <2>4. g \in Nat \ {0} /\ g = CopiesOfKey(L, x) /\ Boundary(L, l2)
    BY <1>2, <1>8, <1>14, <2>1, NextGroup
  <2>5. h \in Nat \ {0} /\ h = CopiesOfKey(R, x) /\ Boundary(R, r2) /\ \A j \in r..(r2 - 1) : R[j].key = x
    BY <1>2, <1>8, <1>14, <2>1, NextGroup
  <2>6. c2 = Expected(o, CopiesOfKey(L, x), CopiesOfKey(R, x)) /\ c2 \in Nat
    <3>1. g \in Nat /\ h \in Nat /\ g # 0 /\ h # 0 /\ op \in SetOps
      BY <1>2, <2>4, <2>5
    <3>2. EmitCount(g, h) = Expected(op, g, h) /\ Expected(op, g, h) \in Nat
      BY <3>1, ExpectedValues
    <3> QED BY <1>1, <2>1, <2>4, <2>5, <3>2
  <2>7. Counted(o, L, R, l2, rs2, x, c2)
    BY <1>2, <1>8, <1>14, <2>1, <2>6, CountedAdvance
  <2>8. Behind(L, R, l2, r2)
    <3> SUFFICES ASSUME NEW i \in l2..n, NEW j \in 1..(r2 - 1) PROVE R[j].key < L[i].key
      BY <1>4 DEF Behind
    <3>1. i \in l..n /\ l \in 1..(l2 - 1)
      BY <1>10, <2>1, <2>4
    <3>2. CASE j \in 1..(r - 1)
      BY <1>4, <1>8, <3>1, <3>2 DEF Behind
    <3>3. CASE j \in r..(r2 - 1)
      <4>1. R[j].key = x /\ L[l].key < L[i].key
        BY <1>4, <2>4, <2>5, <3>1, <3>3 DEF Boundary
      <4> QED BY <2>1, <4>1
    <3> QED BY <1>10, <2>1, <2>5, <3>2, <3>3
  <2>9. s2.phase = "next" /\ s2.row = x
    BY <1>6, <2>3
  <2>10. SetOpState(o, L, R, s2, rs2, l2, r2, c2)
    BY <1>6, <2>3, <2>4, <2>5, <2>6, <2>7, <2>8, <2>9 DEF SetOpState
  <2> QED BY <1>1, <2>10 DEF SetOpOK
<1>15. CASE /\ c = 0 /\ (l > Len(L) \/ (l <= Len(L) /\ r > Len(R) /\ op \in {"intersect", "intersectAll"}))
            /\ s2 = [s EXCEPT !.phase = "done"] /\ rs2 = rs
  <2>1. PICK done : done = "done"
    OBVIOUS
  <2>2. s2 = [phase |-> done, l |-> l, r |-> r, remaining |-> c, row |-> row]
    BY <1>7, <1>15, <2>1
  <2>3. s2.phase = "done" /\ s2.row = row
    BY <2>1, <2>2
  <2>4. l = Len(L) + 1 \/ (o \in {"intersect", "intersectAll"} /\ r = Len(R) + 1)
    BY <1>1, <1>4, <1>5, <1>10, <1>15
  <2>5. SetOpState(o, L, R, s2, rs2, l, r, c)
    BY <1>8, <1>15, <2>1, <2>2, <2>3, <2>4 DEF SetOpState
  <2> QED BY <1>1, <2>5 DEF SetOpOK
<1>16. SetOpMove(L, R, s, rs, s2, rs2, l, r, c)
  BY <1>1, <1>9, SetOpCases, Zenon
<1> QED BY <1>11, <1>12, <1>13, <1>14, <1>15, <1>16 DEF SetOpMove

LEMMA SetOpResult ==
    ASSUME op \in SetOps, NEW L \in SortedRows, NEW R \in SortedRows, NEW s, NEW rs,
           SetOpOK(op, L, R, s, rs), s.phase = "done", NEW k
    PROVE  Copies(rs, k) = Expected(op, CopiesOfKey(L, k), CopiesOfKey(R, k))
<1>1. PICK l, r, c : SetOpState(op, L, R, s, rs, l, r, c)
  BY DEF SetOpOK
<1>2. /\ Boundary(L, l) /\ Behind(L, R, l, r) /\ Counted(op, L, R, l, rs, s.row, c) /\ c = 0
      /\ l = Len(L) + 1 \/ (op \in {"intersect", "intersectAll"} /\ r = Len(R) + 1)
  BY <1>1 DEF SetOpState
<1>3. PICK n \in Nat : n = Len(L) /\ DOMAIN L = 1..n /\ \A i \in 1..n : L[i].key \in Nat
  BY SortedRowsAre
<1>4. PICK m \in Nat : m = Len(R) /\ DOMAIN R = 1..m /\ \A i \in 1..m : R[i].key \in Nat
  BY SortedRowsAre
<1>5. PICK a \in Nat : a = CopiesOfKey(L, k) /\ (a # 0 <=> \E i \in 1..n : L[i].key = k)
  BY <1>3, CopiesOfKeyAre
<1>6. PICK b \in Nat : b = CopiesOfKey(R, k) /\ (b # 0 <=> \E i \in 1..m : R[i].key = k)
  BY <1>4, CopiesOfKeyAre
<1>7. PICK T : rs \in Seq(T)
  BY <1>2 DEF Counted
<1>8. Copies(rs, k) \in Nat
  BY <1>7, CopiesAppend
<1>9. Copies(rs, k) + (IF k = s.row THEN 0 ELSE 0) = IF Seen(L, l, k) THEN Expected(op, a, b) ELSE 0
  BY <1>2, <1>5, <1>6 DEF Counted
<1>10. Copies(rs, k) = IF Seen(L, l, k) THEN Expected(op, a, b) ELSE 0
  BY <1>8, <1>9
<1>11. CASE Seen(L, l, k)
  BY <1>5, <1>6, <1>10, <1>11
<1>12. CASE ~Seen(L, l, k)
  <2>1. Expected(op, a, b) = 0
    <3>1. CASE a = 0
      BY <3>1, ExpectedValues
    <3>2. CASE a # 0
      <4>1. PICK i \in 1..n : L[i].key = k
        BY <1>5, <3>2
      <4>2. l \in 1..(n + 1) /\ i \in l..n
        BY <1>2, <1>3, <1>12, <4>1 DEF Seen, Boundary
      <4>3. op \in {"intersect", "intersectAll"} /\ r = m + 1
        BY <1>2, <1>3, <1>4, <4>2
      <4>4. \A j \in 1..m : R[j].key < L[i].key
        BY <1>2, <1>3, <4>2, <4>3 DEF Behind
      <4>5. \A j \in 1..m : R[j].key # k
        BY <1>3, <1>4, <4>1, <4>4
      <4>6. b = 0
        BY <1>6, <4>5
      <4> QED BY <4>3, <4>6, ExpectedValues
    <3> QED BY <3>1, <3>2
  <2> QED BY <1>5, <1>6, <1>10, <1>12, <2>1
<1> QED BY <1>11, <1>12

SetInv ==
    op \in SetOps \cup {"unique"} =>
        /\ left \in SortedRows /\ right \in SortedRows
        /\ op = "unique" => UniqueOK(left, st, out)
        /\ op \in SetOps => SetOpOK(op, left, right, st, out)

LEMMA SetKinds ==
    ASSUME op \in SetOps \cup {"unique"}
    PROVE  /\ op \notin JoinOps /\ op \notin NestedLoop /\ op \notin IndexLoop /\ op \notin Hash
           /\ op \notin {"merge", "sort", "topN", "streamAggregate", "scalarStream", "hashAggregate", "scalarAggregate"}
           /\ op \in SetOps <=> op # "unique"
BY DEF NestedLoop, IndexLoop, Hash, JoinOps, SetOps

LEMMA SetInit == Init => SetInv
<1> SUFFICES ASSUME Init, op \in SetOps \cup {"unique"} PROVE SetInv
  BY DEF SetInv
<1>1. InitSetOp
  BY SetKinds DEF Init, InitJoin, InitOrder, InitAggregate, HashAggregates, StreamAggregates
<1>2. PICK o, L, R, s, rs : o = op /\ L = left /\ R = right /\ s = st /\ rs = out
  OBVIOUS
<1>3. L \in SortedRows /\ R \in SortedRows /\ rs = <<>>
  BY <1>1, <1>2 DEF InitSetOp
<1>4. PICK next, one, z : next = "next" /\ one = 1 /\ z = 0
  OBVIOUS
<1>5. s = [phase |-> next, l |-> one, r |-> one, remaining |-> z, row |-> Null]
  BY <1>1, <1>2, <1>4 DEF InitSetOp
<1>6. PICK n \in Nat : n = Len(L)
  BY <1>3, SortedRowsAre
<1>7. PICK m \in Nat : m = Len(R)
  BY <1>3, SortedRowsAre
<1>8. s.phase = "next" /\ s.row = Null
  BY <1>4, <1>5
<1>9. \A k : Copies(rs, k) = 0 /\ ~Seen(L, one, k)
  <2>1. 1..(one - 1) = {}
    BY <1>4
  <2> QED BY <1>3, <2>1, CopiesEmpty DEF Seen
<1>10. \E T : rs \in Seq(T)
  BY <1>3
<1>11. UniqueOK(L, s, rs)
  <2>1. one \in 1..(Len(L) + 1) /\ ~(one > 1)
    BY <1>4, <1>6
  <2> QED BY <1>4, <1>5, <1>8, <1>9, <1>10, <2>1 DEF UniqueOK
<1>12. SetOpState(o, L, R, s, rs, one, one, z)
  <2>1. Boundary(L, one) /\ Boundary(R, one) /\ Behind(L, R, one, one)
    <3>1. 1..(one - 1) = {} /\ one \in 1..(Len(L) + 1) /\ one \in 1..(Len(R) + 1)
      BY <1>4, <1>6, <1>7
    <3> QED BY <3>1 DEF Boundary, Behind
  <2>2. Counted(o, L, R, one, rs, Null, z)
    BY <1>4, <1>9, <1>10 DEF Counted
  <2>3. z \in Nat
    BY <1>4
  <2> QED BY <1>4, <1>5, <1>8, <2>1, <2>2, <2>3 DEF SetOpState
<1>13. SetOpOK(o, L, R, s, rs)
  BY <1>12 DEF SetOpOK
<1> QED BY <1>2, <1>3, <1>11, <1>13 DEF SetInv

LEMMA SetPhase ==
    ASSUME SetInv, op \in SetOps \cup {"unique"}
    PROVE  st.phase \in {"next", "done"}
<1>1. CASE op = "unique"
  BY <1>1 DEF SetInv, UniqueOK
<1>2. CASE op \in SetOps
  BY <1>2 DEF SetInv, SetOpOK, SetOpState
<1> QED BY <1>1, <1>2

LEMMA SetSteps ==
    ASSUME SetInv, op \in SetOps \cup {"unique"}, [Next]_vars
    PROVE  UniqueNext \/ SetOpNext \/ UNCHANGED <<st, out>>
<1>1. CASE JoinStep
  BY <1>1, SetKinds DEF JoinStep, NestedLoopNext, IndexLoopNext, PartitionInputsIntoBatches, HashNext,
                        InitMergeJoin, Compare, EmitMatches, AdvanceOuterDuplicates
<1>2. CASE OrderStep
  BY <1>2, SetKinds DEF OrderStep, SortRead, SortEndOfInput, StartGroup, MergeRunGroup, EndPass, TopNRead,
                        TopNEndOfInput, OrderedNext
<1>3. CASE AggregateStep
  <2>1. st.phase \notin {"empty", "load", "groups"}
    BY SetPhase
  <2> QED BY <1>3, <2>1, SetKinds DEF AggregateStep, HashAggregateInit, EmitEmpty, LoadNextBatch,
                                      HashAggregateNext, StreamAggregateNext, HashAggregates, StreamAggregates
<1>4. CASE Ended \/ UNCHANGED vars
  BY <1>4 DEF Ended, vars
<1> QED BY <1>1, <1>2, <1>3, <1>4 DEF Next

LEMMA SetKept == SetInv /\ [Next]_vars => SetInv'
<1> SUFFICES ASSUME SetInv, [Next]_vars, op \in SetOps \cup {"unique"} PROVE SetInv'
  BY InputsStay DEF SetInv, Inputs
<1>1. op' = op /\ left' = left /\ right' = right
  BY InputsStay DEF Inputs
<1>2. left \in SortedRows /\ right \in SortedRows
  BY DEF SetInv
<1>3. CASE UNCHANGED <<st, out>>
  <2>1. st' = st /\ out' = out
    BY <1>3
  <2> QED BY <1>1, <2>1 DEF SetInv
<1>4. CASE UniqueNext
  <2>1. op = "unique" /\ UniqueOK(left, st, out)
    BY <1>4 DEF UniqueNext, SetInv
  <2>2. UniqueOK(left, st', out')
    BY <1>2, <1>4, <2>1, UniqueSteps
  <2> QED BY <1>1, <1>2, <2>1, <2>2, SetKinds DEF SetInv
<1>5. CASE SetOpNext
  <2>1. op \in SetOps /\ SetOpOK(op, left, right, st, out)
    BY <1>5 DEF SetOpNext, SetInv
  <2>2. SetOpOK(op, left, right, st', out')
    BY <1>2, <1>5, <2>1, SetOpSteps
  <2> QED BY <1>1, <1>2, <2>1, <2>2, SetKinds DEF SetInv
<1> QED BY <1>3, <1>4, <1>5, SetSteps

LEMMA SetResult == SetInv => SetOperationsCorrect
<1> SUFFICES ASSUME SetInv, op \in SetOps \cup {"unique"}, st.phase = "done", NEW k
             PROVE  Copies(out, k) = Expected(op, CopiesOfKey(left, k), CopiesOfKey(right, k))
  BY DEF SetOperationsCorrect, Expected, Done
<1>1. PICK L, R, s, rs : L = left /\ R = right /\ s = st /\ rs = out
  OBVIOUS
<1>2. L \in SortedRows /\ R \in SortedRows /\ s.phase = "done"
  BY <1>1 DEF SetInv
<1>3. CASE op = "unique"
  <2>1. UniqueOK(L, s, rs)
    BY <1>1, <1>3 DEF SetInv
  <2>2. Copies(rs, k) = Min({CopiesOfKey(L, k), 1})
    BY <1>2, <2>1, UniqueResult
  <2> QED BY <1>1, <1>3, <2>2 DEF Expected
<1>4. CASE op \in SetOps
  <2>1. SetOpOK(op, L, R, s, rs)
    BY <1>1, <1>4 DEF SetInv
  <2> QED BY <1>1, <1>2, <1>4, <2>1, SetOpResult
<1> QED BY <1>3, <1>4

(* SetInv is inductive: both children stand at the beginning of a group,    *)
(* and every group left behind was, or is being, returned as often as the   *)
(* operation says.                                                          *)
THEOREM SetInvariant == Spec => []SetInv
<1>1. SetInv /\ UNCHANGED vars => SetInv'
  BY SetKept
<1> QED BY SetInit, SetKept, PTL DEF Spec

(* Unique, INTERSECT, EXCEPT and their ALL forms return each row as often   *)
(* as SQL says, for all sorted inputs.                                      *)
THEOREM SetOperationsFollowSQL == Spec => []SetOperationsCorrect
BY SetInvariant, SetResult, PTL

-----------------------------------------------------------------------------
(* The aggregations.                                                       *)

(* What k steps make of base.                                              *)
Iterate(f, k, S, base, step) ==
    /\ f \in [0..k -> S] /\ f[0] = base
    /\ \A n \in 1..k : f[n] = step[<<n, f[n - 1]>>]

LEMMA IterateExists ==
    ASSUME NEW k \in Nat, NEW S, NEW base \in S, NEW step \in [(1..k) \X S -> S]
    PROVE  \E f : Iterate(f, k, S, base, step)
<1> DEFINE Without == {m \in 0..k : ~\E f : Iterate(f, m, S, base, step)}
<1>1. ASSUME NEW m \in Without, \A j \in Without : m <= j PROVE FALSE
  <2>1. m \in 0..k /\ ~\E f : Iterate(f, m, S, base, step)
    OBVIOUS
  <2>2. m # 0
    <3>1. ASSUME m = 0 PROVE FALSE
      <4>1. PICK f : f = [i \in 0..0 |-> base]
        OBVIOUS
      <4>2. f \in [0..0 -> S] /\ f[0] = base /\ 1..0 = {}
        BY <4>1
      <4>3. Iterate(f, m, S, base, step)
        BY <3>1, <4>2 DEF Iterate
      <4> QED BY <2>1, <4>3
    <3> QED BY <3>1
  <2>3. m - 1 \in 0..k /\ m \in 1..k /\ m - 1 \notin Without
    BY <1>1, <2>1, <2>2
  <2>4. PICK g : Iterate(g, m - 1, S, base, step)
    BY <2>3
  <2>5. PICK x : x = step[<<m, g[m - 1]>>]
    OBVIOUS
  <2>6. PICK f : f = [i \in 0..m |-> IF i = m THEN x ELSE g[i]]
    OBVIOUS
  <2>7. g \in [0..(m - 1) -> S] /\ g[0] = base
    BY <2>4 DEF Iterate
  <2>8. g[m - 1] \in S /\ x \in S
    <3>1. m - 1 \in 0..(m - 1)
      BY <2>3
    <3>2. g[m - 1] \in S
      BY <2>7, <3>1
    <3>3. <<m, g[m - 1]>> \in (1..k) \X S
      BY <2>3, <3>2
    <3> QED BY <2>5, <3>2, <3>3
  <2>9. \A i \in 0..m : i # m => i \in 0..(m - 1)
    BY <2>3
  <2>10. f \in [0..m -> S] /\ f[0] = base
    BY <2>2, <2>3, <2>6, <2>7, <2>8, <2>9
  <2>11. ASSUME NEW n \in 1..m PROVE f[n] = step[<<n, f[n - 1]>>]
    <3>1. n - 1 \in 0..m /\ n - 1 # m /\ f[n - 1] = g[n - 1]
      BY <2>3, <2>6
    <3>2. CASE n = m
      BY <2>5, <2>6, <3>1, <3>2
    <3>3. CASE n # m
      <4>1. n \in 1..(m - 1) /\ n \in 0..m
        BY <2>3, <3>3
      <4>2. f[n] = g[n] /\ g[n] = step[<<n, g[n - 1]>>]
        BY <2>4, <2>6, <3>3, <4>1 DEF Iterate
      <4> QED BY <3>1, <4>2
    <3> QED BY <3>2, <3>3
  <2>12. Iterate(f, m, S, base, step)
    BY <2>10, <2>11 DEF Iterate
  <2> QED BY <2>1, <2>12
<1>2. Without \subseteq Nat
  OBVIOUS
<1>3. Without = {}
  <2>1. SUFFICES ASSUME Without # {} PROVE FALSE
    OBVIOUS
  <2>2. PICK m \in Without : \A j \in Without : m <= j
    BY <1>2, <2>1, LeastNatural
  <2> QED BY <1>1, <2>2
<1>4. k \in 0..k
  OBVIOUS
<1> QED BY <1>3, <1>4

(* Rows with values.                                                       *)
LEMMA ValuedRowsAre ==
    ASSUME NEW L \in ValuedRows
    PROVE  \E n \in Nat : /\ n = Len(L) /\ DOMAIN L = 1..n
                          /\ \A i \in 1..n : L[i].key \in Key \cup {Null} /\ L[i].key \in Nat /\ L[i].val \in Nat
<1>1. MaxRows \in Nat /\ Null \in Nat /\ \A k \in Key : k \in Nat
  BY BoundsAssumption DEF Null
<1>2. PICK D : D = [key : Key \cup {Null}, val : Key \cup {Null}]
  OBVIOUS
<1>3. PICK n \in 0..MaxRows : L \in [1..n -> D]
  BY <1>2 DEF ValuedRows, SeqOf
<1>4. n \in Nat
  BY <1>1, <1>3
<1>5. L \in Seq(D)
  BY <1>3, <1>4
<1>6. Len(L) = n /\ DOMAIN L = 1..n
  BY <1>3, <1>4, <1>5
<1>7. ASSUME NEW i \in 1..n
      PROVE  L[i].key \in Key \cup {Null} /\ L[i].key \in Nat /\ L[i].val \in Nat
  <2>1. L[i] \in D
    BY <1>3
  <2>2. L[i].key \in Key \cup {Null} /\ L[i].val \in Key \cup {Null}
    BY <1>2, <2>1
  <2> QED BY <1>1, <2>2
<1> QED BY <1>4, <1>6, <1>7

(* The parts of a sum.                                                     *)
Running(f, L, n, V) ==
    /\ f \in [0..n -> Nat] /\ f[0] = 0
    /\ \A i \in 1..n : f[i] = f[i - 1] + (IF i \in V THEN L[i].val ELSE 0)

LEMMA SumAtIs ==
    ASSUME NEW L, NEW n \in Nat, n = Len(L), \A i \in 1..n : L[i].val \in Nat, NEW V
    PROVE  \E f : Running(f, L, n, V) /\ SumAt(L, V) = f[n]
<1> DEFINE G(f) == [i \in 0..n |-> IF i = 0 THEN 0 ELSE f[i - 1] + (IF i \in V THEN L[i].val ELSE 0)]
<1>1. PICK step : step = [x \in (1..n) \X Nat |-> x[2] + (IF x[1] \in V THEN L[x[1]].val ELSE 0)]
  OBVIOUS
<1>2. step \in [(1..n) \X Nat -> Nat]
  BY <1>1
<1>3. PICK g : Iterate(g, n, Nat, 0, step)
  BY <1>2, IterateExists
<1>4. g \in [0..n -> Nat] /\ g[0] = 0
  BY <1>3 DEF Iterate
<1>5. ASSUME NEW i \in 1..n PROVE g[i] = g[i - 1] + (IF i \in V THEN L[i].val ELSE 0)
  <2>1. i - 1 \in 0..n
    OBVIOUS
  <2>2. g[i - 1] \in Nat
    BY <1>4, <2>1
  <2>3. <<i, g[i - 1]>> \in (1..n) \X Nat
    BY <2>2
  <2>4. g[i] = step[<<i, g[i - 1]>>]
    BY <1>3 DEF Iterate
  <2> QED BY <1>1, <2>3, <2>4
<1>6. g = G(g)
  <2>1. ASSUME NEW i \in 0..n PROVE g[i] = G(g)[i]
    <3>1. CASE i = 0
      BY <1>4, <3>1
    <3>2. CASE i # 0
      <4>1. i \in 1..n
        BY <3>2
      <4> QED BY <1>5, <3>2, <4>1
    <3> QED BY <3>1, <3>2
  <2> QED BY <1>4, <2>1
<1>7. PICK h : h = CHOOSE f : f = G(f)
  OBVIOUS
<1>8. h = G(h)
  BY <1>6, <1>7
<1>9. SumAt(L, V) = h[n]
  BY <1>7 DEF SumAt
<1>10. h = g
  <2>1. DOMAIN h = 0..n /\ h[0] = 0
    BY <1>8
  <2>2. \A i \in 1..n : h[i] = h[i - 1] + (IF i \in V THEN L[i].val ELSE 0)
    <3>1. \A i \in 1..n : i \in 0..n /\ i # 0
      OBVIOUS
    <3> QED BY <1>8, <3>1
  <2> DEFINE Apart == {i \in 0..n : h[i] # g[i]}
  <2>3. ASSUME NEW m \in Apart, \A j \in Apart : m <= j PROVE FALSE
    <3>1. m # 0 /\ m \in 0..n
      BY <1>4, <2>1
    <3>2. m \in 1..n /\ m - 1 \in 0..n
      BY <3>1
    <3>3. h[m - 1] = g[m - 1]
      BY <2>3, <3>2
    <3> QED BY <1>5, <2>2, <3>2, <3>3
  <2>4. Apart = {}
    <3>1. SUFFICES ASSUME Apart # {} PROVE FALSE
      OBVIOUS
    <3>2. Apart \subseteq Nat
      OBVIOUS
    <3>3. PICK m \in Apart : \A j \in Apart : m <= j
      BY <3>1, <3>2, LeastNatural
    <3> QED BY <2>3, <3>3
  <2>5. \A i \in 0..n : h[i] = g[i]
    BY <2>4
  <2>6. h = [i \in 0..n |-> h[i]]
    BY <1>8
  <2> QED BY <1>4, <2>5, <2>6
<1>11. Running(h, L, n, V)
  BY <1>4, <1>5, <1>10 DEF Running
<1> QED BY <1>9, <1>11

LEMMA SumAtNone ==
    ASSUME NEW L, NEW n \in Nat, n = Len(L), \A i \in 1..n : L[i].val \in Nat
    PROVE  SumAt(L, {}) = 0
<1>1. PICK f : Running(f, L, n, {}) /\ SumAt(L, {}) = f[n]
  BY SumAtIs
<1>2. f \in [0..n -> Nat] /\ f[0] = 0 /\ \A i \in 1..n : f[i] = f[i - 1]
  <2>1. f \in [0..n -> Nat] /\ f[0] = 0 /\ \A i \in 1..n : f[i] = f[i - 1] + 0
    BY <1>1 DEF Running
  <2>2. \A i \in 1..n : i - 1 \in 0..n
    OBVIOUS
  <2>3. \A i \in 1..n : f[i - 1] \in Nat
    BY <2>1, <2>2
  <2> QED BY <2>1, <2>3
<1> DEFINE Apart == {i \in 0..n : f[i] # 0}
<1>3. ASSUME NEW m \in Apart, \A j \in Apart : m <= j PROVE FALSE
  <2>1. m \in 1..n /\ m - 1 \in 0..n
    BY <1>2
  <2>2. f[m - 1] = 0
    BY <1>3, <2>1
  <2> QED BY <1>3, <1>2, <2>1, <2>2
<1>4. Apart = {}
  <2>1. SUFFICES ASSUME Apart # {} PROVE FALSE
    OBVIOUS
  <2>2. Apart \subseteq Nat
    OBVIOUS
  <2>3. PICK m \in Apart : \A j \in Apart : m <= j
    BY <2>1, <2>2, LeastNatural
  <2> QED BY <1>3, <2>3
<1>5. n \in 0..n
  OBVIOUS
<1> QED BY <1>1, <1>4, <1>5

LEMMA SumAtAdd ==
    ASSUME NEW L, NEW n \in Nat, n = Len(L), \A i \in 1..n : L[i].val \in Nat,
           NEW V, NEW p \in 1..n, p \notin V, NEW W, W = V \cup {p}
    PROVE  SumAt(L, V) \in Nat /\ SumAt(L, W) = SumAt(L, V) + L[p].val
<1>1. PICK f : Running(f, L, n, V) /\ SumAt(L, V) = f[n]
  BY SumAtIs
<1>2. PICK g : Running(g, L, n, W) /\ SumAt(L, W) = g[n]
  BY SumAtIs
<1>3. f \in [0..n -> Nat] /\ f[0] = 0 /\ \A i \in 1..n : f[i] = f[i - 1] + (IF i \in V THEN L[i].val ELSE 0)
  BY <1>1 DEF Running
<1>4. g \in [0..n -> Nat] /\ g[0] = 0 /\ \A i \in 1..n : g[i] = g[i - 1] + (IF i \in W THEN L[i].val ELSE 0)
  BY <1>2 DEF Running
<1>5. PICK v \in Nat : v = L[p].val
  OBVIOUS
<1> DEFINE Apart == {i \in 0..n : g[i] # f[i] + (IF i < p THEN 0 ELSE v)}
<1>6. ASSUME NEW m \in Apart, \A j \in Apart : m <= j PROVE FALSE
  <2>1. m \in 0..n /\ m # 0
    BY <1>3, <1>4
  <2>2. m \in 1..n /\ m - 1 \in 0..n
    BY <2>1
  <2>3. f[m - 1] \in Nat /\ f[m] \in Nat
    BY <1>3, <2>1, <2>2
  <2>4. g[m - 1] = f[m - 1] + (IF m - 1 < p THEN 0 ELSE v)
    BY <1>6, <2>2
  <2>5. /\ f[m] = f[m - 1] + (IF m \in V THEN L[m].val ELSE 0)
        /\ g[m] = g[m - 1] + (IF m \in W THEN L[m].val ELSE 0)
    BY <1>3, <1>4, <2>2
  <2>6. L[m].val \in Nat
    BY <2>2
  <2>7. CASE m = p
    <3>1. m \in W /\ m \notin V /\ L[m].val = v /\ m - 1 < p
      BY <1>5, <2>2, <2>7
    <3> QED BY <2>3, <2>4, <2>5, <2>7, <3>1
  <2>8. CASE m # p
    <3>1. (m \in W <=> m \in V) /\ (m - 1 < p <=> m < p)
      BY <2>2, <2>8
    <3> QED BY <1>6, <2>3, <2>4, <2>5, <2>6, <3>1
  <2> QED BY <2>7, <2>8
<1>7. Apart = {}
  <2>1. SUFFICES ASSUME Apart # {} PROVE FALSE
    OBVIOUS
  <2>2. Apart \subseteq Nat
    OBVIOUS
  <2>3. PICK m \in Apart : \A j \in Apart : m <= j
    BY <2>1, <2>2, LeastNatural
  <2> QED BY <1>6, <2>3
<1>8. n \in 0..n /\ ~(n < p)
  OBVIOUS
<1>9. g[n] = f[n] + v /\ f[n] \in Nat
  BY <1>3, <1>7, <1>8
<1> QED BY <1>1, <1>2, <1>5, <1>9

Least(m, S) == m \in S /\ \A y \in S : m <= y
Greatest(m, S) == m \in S /\ \A y \in S : y <= m

(* The places of a group, and those of them with a value.                  *)
Places(L, k) == {i \in DOMAIN L : L[i].key = k}
NonNull(L, A) == {i \in A : L[i].val # Null}
ValuesAt(L, A) == {L[i].val : i \in NonNull(L, A)}

(* What the rows at the places A amount to.                                *)
AggOf(agg, L, A) ==
    /\ agg = [rows |-> Cardinality(A), count |-> Cardinality(NonNull(L, A)), sum |-> SumAt(L, NonNull(L, A)),
              min |-> agg.min, max |-> agg.max]
    /\ NonNull(L, A) = {} => agg.min = Null /\ agg.max = Null
    /\ NonNull(L, A) # {} => Least(agg.min, ValuesAt(L, A)) /\ Greatest(agg.max, ValuesAt(L, A))

(* An input of n rows.                                                     *)
Valued(L, n) == n \in Nat /\ n = Len(L) /\ DOMAIN L = 1..n /\ \A i \in 1..n : L[i].key \in Nat /\ L[i].val \in Nat

LEMMA AggOfNone ==
    ASSUME NEW L, NEW n, Valued(L, n)
    PROVE  AggOf(NoRows, L, {})
<1>1. NonNull(L, {}) = {}
  BY DEF NonNull
<1>2. SumAt(L, {}) = 0
  BY SumAtNone DEF Valued
<1>3. Cardinality({}) = 0
  BY FS_EmptySet
<1>4. NoRows.min = Null /\ NoRows.max = Null
  BY DEF NoRows
<1>5. NoRows = [rows |-> 0, count |-> 0, sum |-> 0, min |-> NoRows.min, max |-> NoRows.max]
  BY <1>4 DEF NoRows, Null
<1> QED BY <1>1, <1>2, <1>3, <1>4, <1>5 DEF AggOf

(* One more row.                                                           *)
LEMMA AggOfApply ==
    ASSUME NEW L, NEW n, Valued(L, n), NEW A, A \subseteq 1..n, NEW agg, AggOf(agg, L, A),
           NEW p \in 1..n, p \notin A, NEW B, B = A \cup {p}
    PROVE  AggOf(ApplyAggregateRow(agg, L[p].val), L, B)
<1>1. PICK v, new : v = L[p].val /\ new = ApplyAggregateRow(agg, v)
  OBVIOUS
<1>2. v \in Nat /\ n \in Nat /\ n = Len(L) /\ \A i \in 1..n : L[i].val \in Nat
  BY <1>1 DEF Valued
<1>3. PICK V, W : V = NonNull(L, A) /\ W = NonNull(L, B)
  OBVIOUS
<1>4. IsFiniteSet(A) /\ IsFiniteSet(V) /\ V \subseteq A
  <2>1. IsFiniteSet(1..n) /\ A \in SUBSET (1..n)
    BY <1>2, FS_Interval
  <2>2. IsFiniteSet(A)
    BY <2>1, FS_Subset, Zenon
  <2>3. V \in SUBSET A
    BY <1>3 DEF NonNull
  <2>4. IsFiniteSet(V)
    BY <2>2, <2>3, FS_Subset, Zenon
  <2> QED BY <2>2, <2>3, <2>4
<1>5. PICK c \in Nat : c = Cardinality(A) /\ Cardinality(B) = c + 1
  BY <1>4, FS_AddElement, FS_CardinalityType
<1>6. PICK d \in Nat : d = Cardinality(V)
  BY <1>4, FS_CardinalityType
<1>7. PICK t, mn, mx : t = SumAt(L, V) /\ mn = agg.min /\ mx = agg.max
  OBVIOUS
<1>8. agg = [rows |-> c, count |-> d, sum |-> t, min |-> mn, max |-> mx]
  BY <1>3, <1>5, <1>6, <1>7 DEF AggOf
<1>9. /\ V = {} => mn = Null /\ mx = Null
      /\ V # {} => Least(mn, ValuesAt(L, A)) /\ Greatest(mx, ValuesAt(L, A))
  BY <1>3, <1>7 DEF AggOf
<1>10. CASE v = Null
  <2>1. W = V
    BY <1>1, <1>3, <1>10 DEF NonNull
  <2>2. ValuesAt(L, B) = ValuesAt(L, A)
    BY <1>3, <2>1 DEF ValuesAt
  <2>3. PICK c2 : c2 = c + 1
    OBVIOUS
  <2>4. new = [agg EXCEPT !.rows = c2]
    BY <1>1, <1>8, <1>10, <2>3 DEF ApplyAggregateRow
  <2>5. new = [rows |-> c2, count |-> d, sum |-> t, min |-> mn, max |-> mx]
    BY <1>8, <2>4
  <2>6. new.min = mn /\ new.max = mx
    BY <2>5
  <2>7. AggOf(new, L, B)
    BY <1>3, <1>5, <1>6, <1>7, <1>9, <2>1, <2>2, <2>3, <2>5, <2>6 DEF AggOf
  <2> QED BY <1>1, <2>7
<1>11. CASE v # Null
  <2>1. W = V \cup {p} /\ p \notin V /\ W # {}
    BY <1>1, <1>3, <1>4, <1>11 DEF NonNull
  <2>2. PICK S : S = ValuesAt(L, A)
    OBVIOUS
  <2>3. ValuesAt(L, B) = S \cup {v}
    BY <1>1, <1>3, <2>1, <2>2 DEF ValuesAt
  <2>4. \A y \in S : y \in Nat /\ y # Null
    BY <1>2, <2>2 DEF ValuesAt, NonNull
  <2>5. V = {} <=> S = {}
    BY <1>3, <2>2 DEF ValuesAt
  <2>6. PICK mn2, mx2 : /\ mn2 = (IF mn = Null \/ v < mn THEN v ELSE mn)
                        /\ mx2 = (IF mx = Null \/ v > mx THEN v ELSE mx)
    OBVIOUS
  <2>7. Least(mn2, S \cup {v}) /\ Greatest(mx2, S \cup {v})
    <3>1. CASE S = {}
      <4>1. mn2 = v /\ mx2 = v /\ S \cup {v} = {v}
        BY <1>9, <2>5, <2>6, <3>1
      <4> QED BY <1>2, <4>1 DEF Least, Greatest
    <3>2. CASE S # {}
      <4>1. mn \in S /\ mx \in S /\ \A y \in S : mn <= y /\ y <= mx
        BY <1>9, <2>2, <2>5, <3>2 DEF Least, Greatest
      <4>2. mn \in Nat /\ mx \in Nat /\ mn # Null /\ mx # Null
        BY <2>4, <4>1
      <4>3. Least(mn2, S \cup {v})
        <5>1. mn2 \in S \cup {v} /\ mn2 <= mn /\ mn2 <= v /\ mn2 \in Nat
          BY <1>2, <2>6, <4>1, <4>2
        <5>2. ASSUME NEW y \in S \cup {v} PROVE mn2 <= y
          <6>1. y = v \/ (mn <= y /\ y \in Nat)
            BY <2>4, <4>1
          <6> QED BY <1>2, <4>2, <5>1, <6>1
        <5> QED BY <5>1, <5>2 DEF Least
      <4>4. Greatest(mx2, S \cup {v})
        <5>1. mx2 \in S \cup {v} /\ mx <= mx2 /\ v <= mx2 /\ mx2 \in Nat
          BY <1>2, <2>6, <4>1, <4>2
        <5>2. ASSUME NEW y \in S \cup {v} PROVE y <= mx2
          <6>1. y = v \/ (y <= mx /\ y \in Nat)
            BY <2>4, <4>1
          <6> QED BY <1>2, <4>2, <5>1, <6>1
        <5> QED BY <5>1, <5>2 DEF Greatest
      <4> QED BY <4>3, <4>4
    <3> QED BY <3>1, <3>2
  <2>8. Cardinality(W) = d + 1
    BY <1>4, <1>6, <2>1, FS_AddElement
  <2>9. SumAt(L, W) = t + v
    BY <1>1, <1>2, <1>7, <2>1, SumAtAdd
  <2>10. new = [rows |-> c + 1, count |-> d + 1, sum |-> t + v, min |-> mn2, max |-> mx2]
    <3>1. agg.rows = c /\ agg.count = d /\ agg.sum = t /\ agg.min = mn /\ agg.max = mx
      BY <1>8
    <3>2. new = [rows |-> agg.rows + 1, count |-> agg.count + 1, sum |-> agg.sum + v,
                 min |-> IF agg.min = Null \/ v < agg.min THEN v ELSE agg.min,
                 max |-> IF agg.max = Null \/ v > agg.max THEN v ELSE agg.max]
      BY <1>1, <1>11 DEF ApplyAggregateRow
    <3> QED BY <2>6, <3>1, <3>2
  <2>11. new.min = mn2 /\ new.max = mx2
    BY <2>10
  <2>12. AggOf(new, L, B)
    <3>1. new = [rows |-> Cardinality(B), count |-> Cardinality(W), sum |-> SumAt(L, W), min |-> new.min, max |-> new.max]
      BY <1>5, <2>8, <2>9, <2>10, <2>11
    <3> QED BY <1>3, <2>1, <2>3, <2>7, <2>11, <3>1 DEF AggOf
  <2> QED BY <1>1, <2>12
<1> QED BY <1>10, <1>11

(* All the rows of a group.                                                *)
LEMMA AggOfGroup ==
    ASSUME NEW n, Valued(left, n), NEW k, NEW agg, AggOf(agg, left, Places(left, k))
    PROVE  agg = GroupResult(k)
<1>1. PICK L, A, V, S : L = left /\ A = Places(L, k) /\ V = NonNull(L, A) /\ S = ValuesAt(L, A)
  OBVIOUS
<1>2. Values(k) = V /\ CopiesOfKey(left, k) = Cardinality(A) /\ {left[i].val : i \in V} = S
  BY <1>1 DEF Values, NonNull, Places, CopiesOfKey, ValuesAt
<1>3. /\ agg = [rows |-> Cardinality(A), count |-> Cardinality(V), sum |-> SumAt(L, V), min |-> agg.min, max |-> agg.max]
      /\ V = {} => agg.min = Null /\ agg.max = Null
      /\ V # {} => Least(agg.min, S) /\ Greatest(agg.max, S)
  BY <1>1 DEF AggOf
<1>4. S \subseteq Nat
  BY <1>1 DEF ValuesAt, NonNull, Places, Valued
<1>5. PICK mn, mx : /\ mn = (IF V = {} THEN Null ELSE Min(S))
                    /\ mx = (IF V = {} THEN Null ELSE Max(S))
  OBVIOUS
<1>6. agg.min = mn
  <2>1. CASE V = {}
    BY <1>3, <1>5, <2>1
  <2>2. CASE V # {}
    <3>1. agg.min \in S /\ \A y \in S : agg.min <= y
      BY <1>3, <2>2 DEF Least
    <3>2. Min(S) \in S /\ \A y \in S : Min(S) <= y
      BY <1>4, <3>1, MinOfNaturals
    <3>3. agg.min <= Min(S) /\ Min(S) <= agg.min /\ agg.min \in Nat /\ Min(S) \in Nat
      BY <1>4, <3>1, <3>2
    <3> QED BY <1>5, <2>2, <3>3
  <2> QED BY <2>1, <2>2
<1>7. agg.max = mx
  <2>1. CASE V = {}
    BY <1>3, <1>5, <2>1
  <2>2. CASE V # {}
    <3>1. agg.max \in S /\ \A y \in S : y <= agg.max
      BY <1>3, <2>2 DEF Greatest
    <3>2. \E x \in S : \A y \in S : x >= y
      BY <1>4, <3>1
    <3>3. Max(S) \in S /\ \A y \in S : Max(S) >= y
      BY <3>2 DEF Max
    <3>4. agg.max <= Max(S) /\ Max(S) <= agg.max /\ agg.max \in Nat /\ Max(S) \in Nat
      BY <1>4, <3>1, <3>3
    <3> QED BY <1>5, <2>2, <3>4
  <2> QED BY <2>1, <2>2
<1>8. GroupResult(k) = [rows |-> Cardinality(A), count |-> Cardinality(V), sum |-> SumAt(L, V), min |-> mn, max |-> mx]
  BY <1>1, <1>2, <1>5 DEF GroupResult
<1> QED BY <1>3, <1>6, <1>7, <1>8

AggType == [rows : Nat, count : Nat, sum : Nat, min : Nat, max : Nat]

LEMMA ApplyType ==
    ASSUME NEW agg \in AggType, NEW v \in Nat
    PROVE  ApplyAggregateRow(agg, v) \in AggType
<1>1. agg.rows \in Nat /\ agg.count \in Nat /\ agg.sum \in Nat /\ agg.min \in Nat /\ agg.max \in Nat
  BY DEF AggType
<1>2. CASE v = Null
  <2>1. PICK r \in Nat : r = agg.rows + 1
    BY <1>1
  <2>2. [agg EXCEPT !.rows = r] \in AggType
    BY DEF AggType
  <2> QED BY <1>2, <2>1, <2>2 DEF ApplyAggregateRow
<1>3. CASE v # Null
  <2>1. PICK r, c, t, mn, mx :
            /\ r = agg.rows + 1 /\ c = agg.count + 1 /\ t = agg.sum + v
            /\ mn = (IF agg.min = Null \/ v < agg.min THEN v ELSE agg.min)
            /\ mx = (IF agg.max = Null \/ v > agg.max THEN v ELSE agg.max)
    OBVIOUS
  <2>3. r \in Nat /\ c \in Nat /\ t \in Nat /\ mn \in Nat /\ mx \in Nat
    BY <1>1, <2>1
  <2>2. ApplyAggregateRow(agg, v) = [rows |-> r, count |-> c, sum |-> t, min |-> mn, max |-> mx]
    BY <1>3, <2>1 DEF ApplyAggregateRow
  <2> QED BY <2>3, <2>2 DEF AggType
<1> QED BY <1>2, <1>3

(* The fold over the rows of a group goes through every prefix.            *)
Folding(f, rows, n) ==
    /\ DOMAIN f = 0..n /\ f[0] = NoRows
    /\ \A i \in 1..n : f[i] = ApplyAggregateRow(f[i - 1], rows[i].val)

LEMMA AggregatedFolds ==
    ASSUME NEW rows, NEW n \in Nat, n = Len(rows), \A i \in 1..n : rows[i].val \in Nat
    PROVE  \E f : Folding(f, rows, n) /\ Aggregated(rows) = f[n]
<1> DEFINE G(f) == [i \in 0..n |-> IF i = 0 THEN NoRows ELSE ApplyAggregateRow(f[i - 1], rows[i].val)]
<1>1. PICK step : step = [x \in (1..n) \X AggType |-> ApplyAggregateRow(x[2], rows[x[1]].val)]
  OBVIOUS
<1>2. step \in [(1..n) \X AggType -> AggType]
  <2>1. ASSUME NEW x \in (1..n) \X AggType PROVE ApplyAggregateRow(x[2], rows[x[1]].val) \in AggType
    <3>1. x[1] \in 1..n /\ x[2] \in AggType
      OBVIOUS
    <3>2. rows[x[1]].val \in Nat
      BY <3>1
    <3> QED BY <3>1, <3>2, ApplyType
  <2> QED BY <1>1, <2>1
<1>3. NoRows \in AggType
  BY DEF NoRows, AggType, Null
<1>4. PICK g : Iterate(g, n, AggType, NoRows, step)
  BY <1>2, <1>3, IterateExists
<1>5. g \in [0..n -> AggType] /\ g[0] = NoRows
  BY <1>4 DEF Iterate
<1>6. ASSUME NEW i \in 1..n PROVE g[i] = ApplyAggregateRow(g[i - 1], rows[i].val)
  <2>1. i - 1 \in 0..n
    OBVIOUS
  <2>2. g[i - 1] \in AggType
    BY <1>5, <2>1
  <2>3. PICK x : x = <<i, g[i - 1]>>
    OBVIOUS
  <2>4. x \in (1..n) \X AggType /\ x[1] = i /\ x[2] = g[i - 1]
    BY <2>2, <2>3
  <2>5. g[i] = step[x]
    BY <1>4, <2>3 DEF Iterate
  <2> QED BY <1>1, <2>4, <2>5
<1>7. g = G(g)
  <2>1. ASSUME NEW i \in 0..n PROVE g[i] = G(g)[i]
    <3>1. CASE i = 0
      BY <1>5, <3>1
    <3>2. CASE i # 0
      <4>1. i \in 1..n
        BY <3>2
      <4> QED BY <1>6, <3>2, <4>1
    <3> QED BY <3>1, <3>2
  <2>2. DOMAIN g = 0..n /\ g = [i \in 0..n |-> g[i]]
    BY <1>5
  <2> QED BY <2>1, <2>2
<1>8. PICK h : h = CHOOSE f : f = G(f)
  OBVIOUS
<1>9. h = G(h)
  BY <1>7, <1>8
<1>10. Aggregated(rows) = h[n]
  BY <1>8 DEF Aggregated
<1>11. DOMAIN h = 0..n /\ h[0] = NoRows
  BY <1>9
<1>12. \A i \in 1..n : h[i] = ApplyAggregateRow(h[i - 1], rows[i].val)
  <2>1. \A i \in 1..n : i \in 0..n /\ i # 0
    OBVIOUS
  <2> QED BY <1>9, <2>1
<1> QED BY <1>10, <1>11, <1>12 DEF Folding

LEMMA AggregatedIs ==
    ASSUME NEW L, NEW n, Valued(L, n), NEW A, A \subseteq 1..n, NEW found, NEW at, NEW k \in Nat,
           Enumerates(found, at, L, A, k)
    PROVE  AggOf(Aggregated(found), L, A)
<1>1. k = Len(found) /\ DOMAIN found = 1..k /\ \A q \in 1..k : at[q] \in A /\ found[q] = L[at[q]]
  BY DEF Enumerates
<1>2. Taken(at, 1) = {} /\ Taken(at, k + 1) = A /\ \A q \in 1..(k + 1) : Taken(at, q) \subseteq A
  BY DEF Enumerates
<1>3. \A q \in 1..k : at[q] \notin Taken(at, q) /\ Taken(at, q + 1) = Taken(at, q) \cup {at[q]}
  BY DEF Enumerates
<1>4. \A q \in 1..k : at[q] \in 1..n /\ found[q].val \in Nat /\ found[q].val = L[at[q]].val
  <2>1. \A i \in 1..n : L[i].val \in Nat
    BY DEF Valued
  <2> QED BY <1>1, <2>1
<1>5. PICK f : Folding(f, found, k) /\ Aggregated(found) = f[k]
  BY <1>1, <1>4, AggregatedFolds
<1>6. f[0] = NoRows /\ \A i \in 1..k : f[i] = ApplyAggregateRow(f[i - 1], found[i].val)
  BY <1>5 DEF Folding
<1> DEFINE Bad == {j \in 0..k : ~AggOf(f[j], L, Taken(at, j + 1))}
<1>7. ASSUME NEW m \in Bad, \A j \in Bad : m <= j PROVE FALSE
  <2>1. m # 0
    <3>1. AggOf(f[0], L, Taken(at, 0 + 1))
      BY <1>2, <1>6, AggOfNone
    <3> QED BY <3>1
  <2>2. m \in 1..k /\ m - 1 \in 0..k
    BY <2>1
  <2>3. AggOf(f[m - 1], L, Taken(at, m))
    <3>1. AggOf(f[m - 1], L, Taken(at, (m - 1) + 1))
      BY <1>7, <2>2
    <3>2. (m - 1) + 1 = m
      BY <2>2
    <3> QED BY <3>1, <3>2
  <2>4. PICK B, p, agg : B = Taken(at, m) /\ p = at[m] /\ agg = f[m - 1]
    OBVIOUS
  <2>5. m \in 1..(k + 1)
    BY <2>2
  <2>6. B \subseteq 1..n /\ p \in 1..n /\ p \notin B /\ Taken(at, m + 1) = B \cup {p}
    BY <1>2, <1>3, <1>4, <2>2, <2>4, <2>5
  <2>7. f[m] = ApplyAggregateRow(agg, L[p].val)
    BY <1>4, <1>6, <2>2, <2>4
  <2>8. AggOf(agg, L, B)
    BY <2>3, <2>4
  <2>9. AggOf(ApplyAggregateRow(agg, L[p].val), L, B \cup {p})
    BY <2>6, <2>8, AggOfApply
  <2>10. AggOf(f[m], L, Taken(at, m + 1))
    BY <2>6, <2>7, <2>9
  <2> QED BY <1>7, <2>10
<1>8. Bad = {}
  <2>1. SUFFICES ASSUME Bad # {} PROVE FALSE
    OBVIOUS
  <2>2. Bad \subseteq Nat
    OBVIOUS
  <2>3. PICK m \in Bad : \A j \in Bad : m <= j
    BY <2>1, <2>2, LeastNatural
  <2> QED BY <1>7, <2>3
<1>9. k \in 0..k
  OBVIOUS
<1>10. AggOf(f[k], L, Taken(at, k + 1))
  BY <1>8, <1>9
<1> QED BY <1>2, <1>5, <1>10

(* A row for a group, and the rows for the groups of some keys.            *)
Due(L, k, row) == row = [key |-> k, agg |-> row.agg] /\ AggOf(row.agg, L, Places(L, k))

Listed(rs, L, G) ==
    /\ \E S : rs \in Seq(S)
    /\ IsFiniteSet(G) /\ Len(rs) = Cardinality(G)
    /\ \A i \in 1..Len(rs) : \E k \in G : Due(L, k, rs[i])
    /\ \A k \in G : \E i \in 1..Len(rs) : Due(L, k, rs[i])

LEMMA ListedNone ==
    ASSUME NEW L
    PROVE  Listed(<<>>, L, {})
<1>1. <<>> \in Seq({}) /\ Len(<<>>) = 0 /\ 1..Len(<<>>) = {}
  OBVIOUS
<1>2. IsFiniteSet({}) /\ Cardinality({}) = 0
  BY FS_EmptySet
<1> QED BY <1>1, <1>2 DEF Listed

LEMMA ListedNothing ==
    ASSUME NEW rs, NEW L, Listed(rs, L, {})
    PROVE  rs = <<>>
<1>1. PICK S : rs \in Seq(S)
  BY DEF Listed
<1>2. Len(rs) = 0
  BY FS_EmptySet DEF Listed
<1> QED BY <1>1, <1>2

LEMMA ListedAppend ==
    ASSUME NEW rs, NEW L, NEW G, Listed(rs, L, G), NEW k, k \notin G, NEW agg, AggOf(agg, L, Places(L, k)),
           NEW rs2, rs2 = Append(rs, [key |-> k, agg |-> agg]), NEW H, H = G \cup {k}
    PROVE  Listed(rs2, L, H)
<1>1. PICK row : row = [key |-> k, agg |-> agg]
  OBVIOUS
<1>2. Due(L, k, row)
  <2>1. row.agg = agg
    BY <1>1
  <2> QED BY <1>1, <2>1 DEF Due
<1>3. PICK S : rs \in Seq(S)
  BY DEF Listed
<1>4. PICK T : T = S \cup {row}
  OBVIOUS
<1>5. PICK c \in Nat : c = Len(rs)
  BY <1>3
<1>6. rs \in Seq(T) /\ row \in T
  BY <1>3, <1>4
<1>7. /\ rs2 \in Seq(T) /\ Len(rs2) = c + 1 /\ rs2[c + 1] = row
      /\ \A i \in 1..c : rs2[i] = rs[i]
  BY <1>1, <1>5, <1>6
<1>8. IsFiniteSet(G) /\ c = Cardinality(G)
  BY <1>5 DEF Listed
<1>9. IsFiniteSet(H) /\ Cardinality(H) = c + 1
  BY <1>8, FS_AddElement
<1>10. \A i \in 1..(c + 1) : i \in 1..c \/ i = c + 1
  BY <1>5
<1>11. ASSUME NEW i \in 1..(c + 1) PROVE \E q \in H : Due(L, q, rs2[i])
  <2>1. CASE i \in 1..c
    <3>1. PICK q \in G : Due(L, q, rs[i])
      BY <1>5, <2>1 DEF Listed
    <3> QED BY <1>7, <2>1, <3>1
  <2>2. CASE i = c + 1
    BY <1>2, <1>7, <2>2
  <2> QED BY <1>10, <2>1, <2>2
<1>12. ASSUME NEW q \in H PROVE \E i \in 1..(c + 1) : Due(L, q, rs2[i])
  <2>1. CASE q \in G
    <3>1. PICK i \in 1..c : Due(L, q, rs[i])
      BY <1>5, <2>1 DEF Listed
    <3>2. i \in 1..(c + 1)
      BY <1>5
    <3> QED BY <1>7, <3>1, <3>2
  <2>2. CASE q = k
    <3>1. c + 1 \in 1..(c + 1)
      BY <1>5
    <3> QED BY <1>2, <1>7, <2>2, <3>1
  <2> QED BY <2>1, <2>2
<1> QED BY <1>7, <1>9, <1>11, <1>12 DEF Listed

KeysOf(L) == {L[i].key : i \in DOMAIN L}

(* The stream aggregation has read p rows, the last of them of the group   *)
(* of key.                                                                 *)
KeysTo(L, p) == {L[i].key : i \in 1..p}
PlacesTo(L, p, key) == {i \in 1..p : L[i].key = key}

Streaming(L, p, key, agg, rs) ==
    /\ p = 0 => rs = <<>>
    /\ p > 0 => /\ key = L[p].key /\ AggOf(agg, L, PlacesTo(L, p, key))
                /\ Listed(rs, L, KeysTo(L, p) \ {key})

LEMMA StreamFirst ==
    ASSUME NEW L, NEW n, Valued(L, n), n > 0, NEW rs, rs = <<>>
    PROVE  Streaming(L, 1, L[1].key, ApplyAggregateRow(NoRows, L[1].val), rs)
<1>1. PICK k, A, agg : k = L[1].key /\ A = PlacesTo(L, 1, k) /\ agg = ApplyAggregateRow(NoRows, L[1].val)
  OBVIOUS
<1>2. 1 \in 1..n /\ {} \subseteq 1..n /\ 1 \notin {}
  BY DEF Valued
<1>3. A = {} \cup {1}
  BY <1>1 DEF PlacesTo
<1>4. AggOf(NoRows, L, {})
  BY AggOfNone
<1>5. AggOf(agg, L, A)
  BY <1>1, <1>2, <1>3, <1>4, AggOfApply
<1>6. KeysTo(L, 1) \ {k} = {}
  BY <1>1 DEF KeysTo
<1>7. Listed(rs, L, KeysTo(L, 1) \ {k})
  BY <1>6, ListedNone
<1>8. Streaming(L, 1, k, agg, rs)
  BY <1>1, <1>5, <1>7 DEF Streaming
<1> QED BY <1>1, <1>8

LEMMA StreamSame ==
    ASSUME NEW L, NEW n, Valued(L, n), NEW p \in 1..n, p < n, NEW key, NEW agg, NEW rs,
           Streaming(L, p, key, agg, rs), L[p + 1].key = key
    PROVE  Streaming(L, p + 1, key, ApplyAggregateRow(agg, L[p + 1].val), rs)
<1>0. n \in Nat /\ p > 0
  BY DEF Valued
<1>1. PICK q : q = p + 1
  OBVIOUS
<1>2. q \in 1..n /\ q \notin 1..p /\ q > 0 /\ \A i \in 1..q : i \in 1..p \/ i = q
  BY <1>0, <1>1
<1>3. \A i \in 1..p : i \in 1..q /\ i \in 1..n
  BY <1>0, <1>1
<1>4. PICK A, B, agg2 : A = PlacesTo(L, p, key) /\ B = PlacesTo(L, q, key) /\ agg2 = ApplyAggregateRow(agg, L[q].val)
  OBVIOUS
<1>5. q \in 1..q
  BY <1>2
<1>6. A \subseteq 1..n /\ q \notin A /\ B = A \cup {q}
  BY <1>1, <1>2, <1>3, <1>4, <1>5 DEF PlacesTo
<1>7. key = L[p].key /\ AggOf(agg, L, A) /\ Listed(rs, L, KeysTo(L, p) \ {key})
  BY <1>0, <1>4 DEF Streaming
<1>8. AggOf(agg2, L, B)
  BY <1>2, <1>4, <1>6, <1>7, AggOfApply
<1>9. KeysTo(L, q) \ {key} = KeysTo(L, p) \ {key}
  BY <1>1, <1>2, <1>3 DEF KeysTo
<1>10. Streaming(L, q, key, agg2, rs)
  <2>1. q # 0 /\ key = L[q].key /\ AggOf(agg2, L, PlacesTo(L, q, key)) /\ Listed(rs, L, KeysTo(L, q) \ {key})
    BY <1>1, <1>2, <1>4, <1>7, <1>8, <1>9
  <2> QED BY <2>1, Zenon DEF Streaming
<1> QED BY <1>1, <1>4, <1>10

(* The end of a group: later rows, if any, have greater keys.              *)
LEMMA StreamGroupEnds ==
    ASSUME NEW L, NEW n, Valued(L, n), InOrder(L), NEW p \in 1..n, NEW key, NEW agg, NEW rs,
           Streaming(L, p, key, agg, rs), p < n => L[p + 1].key # key,
           NEW rs2, rs2 = Append(rs, [key |-> key, agg |-> agg])
    PROVE  /\ Listed(rs2, L, KeysTo(L, p))
           /\ \A i \in 1..n : i > p => L[i].key \notin KeysTo(L, p)
<1>1. n \in Nat /\ p > 0 /\ DOMAIN L = 1..n /\ \A i \in 1..n : L[i].key \in Nat
  BY DEF Valued
<1>2. \A i, j \in 1..n : i < j => L[i].key <= L[j].key
  BY <1>1 DEF InOrder
<1>3. key = L[p].key /\ AggOf(agg, L, PlacesTo(L, p, key)) /\ Listed(rs, L, KeysTo(L, p) \ {key})
  BY <1>1 DEF Streaming
<1>4. ASSUME NEW i \in 1..n, i > p PROVE key < L[i].key
  <2>1. p + 1 \in 1..n /\ p < p + 1 /\ p < n
    BY <1>1, <1>4
  <2>2. key <= L[p + 1].key /\ key # L[p + 1].key /\ L[p + 1].key \in Nat /\ key \in Nat
    BY <1>1, <1>2, <1>3, <2>1
  <2>3. L[p + 1].key <= L[i].key
    <3>1. CASE i = p + 1
      BY <1>1, <3>1
    <3>2. CASE i # p + 1
      <4>1. p + 1 < i
        BY <1>4, <3>2
      <4> QED BY <1>2, <2>1, <4>1
    <3> QED BY <3>1, <3>2
  <2>4. L[i].key \in Nat
    BY <1>1
  <2> QED BY <2>2, <2>3, <2>4
<1>5. ASSUME NEW i \in 1..n, i > p, NEW j \in 1..p PROVE L[j].key # L[i].key
  <2>1. j \in 1..n /\ L[j].key <= key
    <3>1. j \in 1..n /\ (j = p \/ j < p)
      BY <1>1
    <3>2. L[j].key \in Nat
      BY <1>1, <3>1
    <3> QED BY <1>2, <1>3, <3>1, <3>2
  <2>2. L[j].key \in Nat /\ L[i].key \in Nat /\ key \in Nat
    BY <1>1, <1>3, <2>1
  <2> QED BY <1>4, <1>5, <2>1, <2>2
<1>6. PlacesTo(L, p, key) = Places(L, key)
  <2>1. \A i \in 1..p : i \in 1..n
    BY <1>1
  <2>2. \A i \in 1..n : i \in 1..p \/ i > p
    BY <1>1
  <2>3. ASSUME NEW i \in 1..n, L[i].key = key PROVE i \in 1..p
    <3>1. p \in 1..p
      BY <1>1
    <3> QED BY <1>3, <1>5, <2>2, <2>3, <3>1
  <2> QED BY <1>1, <2>1, <2>3 DEF PlacesTo, Places
<1>7. key \in KeysTo(L, p)
  <2>1. p \in 1..p
    BY <1>1
  <2> QED BY <1>3, <2>1 DEF KeysTo
<1>8. PICK G, H : G = KeysTo(L, p) \ {key} /\ H = KeysTo(L, p)
  OBVIOUS
<1>9. key \notin G /\ H = G \cup {key}
  BY <1>7, <1>8
<1>10. Listed(rs2, L, H)
  <2>1. AggOf(agg, L, Places(L, key)) /\ Listed(rs, L, G)
    BY <1>3, <1>6, <1>8
  <2> QED BY <1>9, <2>1, ListedAppend
<1>11. \A i \in 1..n : i > p => L[i].key \notin KeysTo(L, p)
  BY <1>5 DEF KeysTo
<1> QED BY <1>8, <1>10, <1>11

LEMMA StreamNew ==
    ASSUME NEW L, NEW n, Valued(L, n), InOrder(L), NEW p \in 1..n, p < n, NEW key, NEW agg, NEW rs,
           Streaming(L, p, key, agg, rs), L[p + 1].key # key,
           NEW rs2, rs2 = Append(rs, [key |-> key, agg |-> agg])
    PROVE  Streaming(L, p + 1, L[p + 1].key, ApplyAggregateRow(NoRows, L[p + 1].val), rs2)
<1>0. n \in Nat /\ p > 0
  BY DEF Valued
<1>1. PICK q, k, A, agg2 : q = p + 1 /\ k = L[q].key /\ A = PlacesTo(L, q, k) /\ agg2 = ApplyAggregateRow(NoRows, L[q].val)
  OBVIOUS
<1>2. q \in 1..n /\ q > p /\ q > 0 /\ q \in 1..q /\ \A i \in 1..q : i \in 1..p \/ i = q
  BY <1>0, <1>1
<1>3. \A i \in 1..p : i \in 1..q
  BY <1>0, <1>1
<1>4. Listed(rs2, L, KeysTo(L, p)) /\ k \notin KeysTo(L, p)
  BY <1>1, <1>2, StreamGroupEnds
<1>5. A = {} \cup {q}
  BY <1>1, <1>2, <1>4 DEF PlacesTo, KeysTo
<1>6. {} \subseteq 1..n /\ q \notin {} /\ AggOf(NoRows, L, {})
  BY AggOfNone
<1>7. AggOf(agg2, L, A)
  BY <1>1, <1>2, <1>5, <1>6, AggOfApply
<1>8. KeysTo(L, q) \ {k} = KeysTo(L, p)
  BY <1>1, <1>2, <1>3, <1>4 DEF KeysTo
<1>9. Streaming(L, q, k, agg2, rs2)
  <2>1. q # 0 /\ k = L[q].key /\ AggOf(agg2, L, PlacesTo(L, q, k)) /\ Listed(rs2, L, KeysTo(L, q) \ {k})
    <3>1. q # 0 /\ k = L[q].key
      BY <1>1, <1>2
    <3>2. AggOf(agg2, L, PlacesTo(L, q, k))
      BY <1>1, <1>7, Zenon
    <3>3. Listed(rs2, L, KeysTo(L, q) \ {k})
      BY <1>4, <1>8, Zenon
    <3> QED BY <3>1, <3>2, <3>3
  <2> QED BY <2>1, Zenon DEF Streaming
<1> QED BY <1>1, <1>9

StreamState(o, L, s, rs, ph, p, key, agg) ==
    /\ s = [phase |-> ph, pos |-> p, key |-> key, agg |-> agg]
    /\ ph \in {"read", "done", "thrown"} /\ p \in 0..Len(L)
    /\ ph = "read" => Streaming(L, p, key, agg, rs)
    /\ ph = "done" => IF o = "scalarStream" /\ L = <<>> THEN rs = <<EmptyTuple>> ELSE Listed(rs, L, KeysOf(L))

StreamOK(o, L, s, rs) == \E ph, p, key, agg : StreamState(o, L, s, rs, ph, p, key, agg)

Stuck(o, a, b) == o = "streamAggregate" /\ Null \in {a, b}

(* StreamAggregateNext on the parts of the state.                          *)
StreamMove(o, L, s, rs, s2, rs2, p, key, agg) ==
    \/ p = 0 /\ L = <<>> /\ o # "scalarStream" /\ s2 = [s EXCEPT !.phase = "done"] /\ rs2 = rs
    \/ p = 0 /\ L = <<>> /\ o = "scalarStream" /\ s2 = [s EXCEPT !.phase = "done"] /\ rs2 = Append(rs, EmptyTuple)
    \/ /\ p = 0 /\ L # <<>> /\ rs2 = rs
       /\ s2 = [s EXCEPT !.pos = p + 1, !.key = L[p + 1].key, !.agg = ApplyAggregateRow(NoRows, L[p + 1].val)]
    \/ /\ p > 0 /\ p = Len(L) /\ rs2 = Append(rs, [key |-> key, agg |-> agg])
       /\ s2 = [s EXCEPT !.phase = "done"]
    \/ p > 0 /\ p < Len(L) /\ Stuck(o, key, L[p + 1].key) /\ s2 = [s EXCEPT !.phase = "thrown"] /\ rs2 = rs
    \/ /\ p > 0 /\ p < Len(L) /\ ~Stuck(o, key, L[p + 1].key) /\ L[p + 1].key = key /\ rs2 = rs
       /\ s2 = [s EXCEPT !.pos = p + 1, !.agg = ApplyAggregateRow(agg, L[p + 1].val)]
    \/ /\ p > 0 /\ p < Len(L) /\ ~Stuck(o, key, L[p + 1].key) /\ L[p + 1].key # key
       /\ rs2 = Append(rs, [key |-> key, agg |-> agg])
       /\ s2 = [s EXCEPT !.pos = p + 1, !.key = L[p + 1].key, !.agg = ApplyAggregateRow(NoRows, L[p + 1].val)]

LEMMA StreamCases ==
    ASSUME StreamAggregateNext, NEW o, NEW L, NEW s, NEW rs, NEW s2, NEW rs2, NEW p, NEW key, NEW agg,
           o = op, L = left, s = st, rs = out, s2 = st', rs2 = out', s.pos = p, s.key = key, s.agg = agg
    PROVE  StreamMove(o, L, s, rs, s2, rs2, p, key, agg)
<1>1. PICK row, res : row = left[st.pos + 1] /\ res = [key |-> st.key, agg |-> st.agg]
  OBVIOUS
<1>2. row = L[p + 1] /\ res = [key |-> key, agg |-> agg]
  BY <1>1
<1>3. CASE st.pos = 0 /\ left = <<>> /\ op = "streamAggregate" /\ Finish
  BY <1>3 DEF Finish, StreamMove
<1>9. CASE st.pos = 0 /\ left = <<>> /\ op = "scalarStream" /\ Emit(EmptyTuple) /\ st' = [st EXCEPT !.phase = "done"]
  <2>1. rs2 = Append(rs, EmptyTuple)
    BY <1>9 DEF Emit
  <2> QED BY <1>9, <2>1 DEF StreamMove
<1>4. CASE /\ st.pos = 0 /\ left # <<>> /\ UNCHANGED out
           /\ st' = [st EXCEPT !.pos = @ + 1, !.key = row.key, !.agg = ApplyAggregateRow(NoRows, row.val)]
  <2>1. s2 = [s EXCEPT !.pos = p + 1, !.key = row.key, !.agg = ApplyAggregateRow(NoRows, row.val)]
    BY <1>4
  <2> QED BY <1>2, <1>4, <2>1 DEF StreamMove
<1>5. CASE st.pos > 0 /\ st.pos = Len(left) /\ Emit(res) /\ st' = [st EXCEPT !.phase = "done"]
  <2>1. rs2 = Append(rs, res)
    BY <1>5 DEF Emit
  <2> QED BY <1>2, <1>5, <2>1 DEF StreamMove
<1>6. CASE /\ st.pos > 0 /\ st.pos < Len(left) /\ Stuck(op, st.key, row.key)
           /\ st' = [st EXCEPT !.phase = "thrown"] /\ UNCHANGED out
  BY <1>2, <1>6 DEF StreamMove
<1>7. CASE /\ st.pos > 0 /\ st.pos < Len(left) /\ ~Stuck(op, st.key, row.key) /\ row.key = st.key /\ UNCHANGED out
           /\ st' = [st EXCEPT !.pos = @ + 1, !.agg = ApplyAggregateRow(@, row.val)]
  <2>1. s2 = [s EXCEPT !.pos = p + 1, !.agg = ApplyAggregateRow(agg, row.val)]
    BY <1>7
  <2> QED BY <1>2, <1>7, <2>1 DEF StreamMove
<1>8. CASE /\ st.pos > 0 /\ st.pos < Len(left) /\ ~Stuck(op, st.key, row.key) /\ row.key # st.key /\ Emit(res)
           /\ st' = [st EXCEPT !.pos = @ + 1, !.key = row.key, !.agg = ApplyAggregateRow(NoRows, row.val)]
  <2>1. s2 = [s EXCEPT !.pos = p + 1, !.key = row.key, !.agg = ApplyAggregateRow(NoRows, row.val)]
    BY <1>8
  <2>2. rs2 = Append(rs, res)
    BY <1>8 DEF Emit
  <2> QED BY <1>2, <1>8, <2>1, <2>2 DEF StreamMove
<1> QED BY <1>1, <1>3, <1>4, <1>5, <1>6, <1>7, <1>8, <1>9 DEF StreamAggregateNext, Stuck

LEMMA StreamStep ==
    ASSUME StreamAggregateNext, left \in ValuedRows, InOrder(left), StreamOK(op, left, st, out)
    PROVE  StreamOK(op, left, st', out')
<1>1. PICK o, L, s, rs, s2, rs2 : o = op /\ L = left /\ s = st /\ rs = out /\ s2 = st' /\ rs2 = out'
  OBVIOUS
<1>2. L \in ValuedRows /\ InOrder(L) /\ StreamOK(o, L, s, rs) /\ s.phase = "read"
  BY <1>1 DEF StreamAggregateNext
<1>3. PICK n : Valued(L, n)
  BY <1>2, ValuedRowsAre DEF Valued
<1>4. n \in Nat /\ n = Len(L) /\ DOMAIN L = 1..n
  BY <1>3 DEF Valued
<1>5. PICK ph, p, key, agg : StreamState(o, L, s, rs, ph, p, key, agg)
  BY <1>2 DEF StreamOK
<1>6. s = [phase |-> ph, pos |-> p, key |-> key, agg |-> agg]
  BY <1>5 DEF StreamState
<1>7. ph = "read" /\ s.pos = p /\ s.key = key /\ s.agg = agg
  BY <1>2, <1>6
<1>8. p \in 0..n /\ Streaming(L, p, key, agg, rs)
  BY <1>4, <1>5, <1>7 DEF StreamState
<1>9. PICK row : row = [key |-> key, agg |-> agg]
  OBVIOUS
<1>10. ASSUME NEW new, s2 = [s EXCEPT !.phase = new], new = "done" \/ new = "thrown",
              new = "done" => IF o = "scalarStream" /\ L = <<>> THEN rs2 = <<EmptyTuple>> ELSE Listed(rs2, L, KeysOf(L))
       PROVE  StreamOK(o, L, s2, rs2)
  <2>1. s2 = [phase |-> new, pos |-> p, key |-> key, agg |-> agg]
    BY <1>6, <1>10
  <2>2. StreamState(o, L, s2, rs2, new, p, key, agg)
    BY <1>4, <1>8, <1>10, <2>1 DEF StreamState
  <2> QED BY <2>2 DEF StreamOK
<1>11. ASSUME NEW q \in 0..n, NEW k2, NEW a2, s2 = [phase |-> ph, pos |-> q, key |-> k2, agg |-> a2],
              Streaming(L, q, k2, a2, rs2)
       PROVE  StreamOK(o, L, s2, rs2)
  <2>1. StreamState(o, L, s2, rs2, ph, q, k2, a2)
    BY <1>4, <1>7, <1>11 DEF StreamState
  <2> QED BY <2>1 DEF StreamOK
<1>19. CASE /\ p = 0 /\ L = <<>> /\ o = "scalarStream" /\ s2 = [s EXCEPT !.phase = "done"]
            /\ rs2 = Append(rs, EmptyTuple)
  <2>1. rs = <<>>
    BY <1>8, <1>19 DEF Streaming
  <2>2. PICK x : x = EmptyTuple
    OBVIOUS
  <2>3. rs2 = Append(<<>>, x)
    BY <1>19, <2>1, <2>2
  <2>4. rs2 = <<x>>
    BY <2>3
  <2> QED BY <1>1, <1>10, <1>19, <2>2, <2>4
<1>12. CASE p = 0 /\ L = <<>> /\ o # "scalarStream" /\ s2 = [s EXCEPT !.phase = "done"] /\ rs2 = rs
  <2>1. rs2 = <<>>
    BY <1>8, <1>12 DEF Streaming
  <2>2. KeysOf(L) = {}
    BY <1>12 DEF KeysOf
  <2>3. Listed(rs2, L, KeysOf(L))
    BY <2>1, <2>2, ListedNone
  <2> QED BY <1>1, <1>10, <1>12, <2>3
<1>13. CASE /\ p = 0 /\ L # <<>> /\ rs2 = rs
            /\ s2 = [s EXCEPT !.pos = p + 1, !.key = L[p + 1].key, !.agg = ApplyAggregateRow(NoRows, L[p + 1].val)]
  <2>1. n > 0
    <3>1. PICK D : D = [key : Key \cup {Null}, val : Key \cup {Null}]
      OBVIOUS
    <3>2. PICK k \in 0..MaxRows : L \in [1..k -> D]
      BY <1>2, <3>1 DEF ValuedRows, SeqOf
    <3>3. k \in Nat
      BY <3>2, BoundsAssumption
    <3>4. L \in Seq(D)
      BY <3>2, <3>3
    <3> QED BY <1>4, <1>13, <3>4
  <2>2. rs2 = <<>>
    BY <1>8, <1>13 DEF Streaming
  <2>3. Streaming(L, 1, L[1].key, ApplyAggregateRow(NoRows, L[1].val), rs2)
    BY <1>3, <2>1, <2>2, StreamFirst
  <2>4. PICK q, k2, a2 : q = p + 1 /\ k2 = L[p + 1].key /\ a2 = ApplyAggregateRow(NoRows, L[p + 1].val)
    OBVIOUS
  <2>5. s2 = [s EXCEPT !.pos = q, !.key = k2, !.agg = a2]
    BY <1>13, <2>4
  <2>6. s2 = [phase |-> ph, pos |-> q, key |-> k2, agg |-> a2]
    BY <1>6, <2>5
  <2>7. q = 1 /\ q \in 0..n
    BY <1>4, <1>13, <2>1, <2>4
  <2>8. k2 = L[1].key /\ a2 = ApplyAggregateRow(NoRows, L[1].val)
    BY <2>4, <2>7
  <2>9. Streaming(L, q, k2, a2, rs2)
    BY <2>3, <2>7, <2>8
  <2> QED BY <1>1, <1>11, <2>6, <2>7, <2>9
<1>14. CASE /\ p > 0 /\ p = Len(L) /\ rs2 = Append(rs, [key |-> key, agg |-> agg])
            /\ s2 = [s EXCEPT !.phase = "done"]
  <2>1. p \in 1..n /\ ~(p < n)
    BY <1>4, <1>8, <1>14
  <2>2. Listed(rs2, L, KeysTo(L, p))
    BY <1>2, <1>3, <1>8, <1>14, <2>1, StreamGroupEnds
  <2>3. KeysTo(L, p) = KeysOf(L)
    BY <1>4, <1>14 DEF KeysTo, KeysOf
  <2>4. L # <<>>
    BY <1>14
  <2> QED BY <1>1, <1>10, <1>14, <2>2, <2>3, <2>4
<1>15. CASE p > 0 /\ p < Len(L) /\ s2 = [s EXCEPT !.phase = "thrown"] /\ rs2 = rs
  BY <1>1, <1>10, <1>15
<1>16. CASE /\ p > 0 /\ p < Len(L) /\ L[p + 1].key = key /\ rs2 = rs
            /\ s2 = [s EXCEPT !.pos = p + 1, !.agg = ApplyAggregateRow(agg, L[p + 1].val)]
  <2>1. p \in 1..n /\ p < n /\ p + 1 \in 0..n
    BY <1>4, <1>8, <1>16
  <2>2. PICK q, a2 : q = p + 1 /\ a2 = ApplyAggregateRow(agg, L[p + 1].val)
    OBVIOUS
  <2>3. Streaming(L, p + 1, key, ApplyAggregateRow(agg, L[p + 1].val), rs)
    BY <1>3, <1>8, <1>16, <2>1, StreamSame
  <2>4. s2 = [s EXCEPT !.pos = q, !.agg = a2]
    BY <1>16, <2>2
  <2>5. s2 = [phase |-> ph, pos |-> q, key |-> key, agg |-> a2]
    BY <1>6, <2>4
  <2>6. q \in 0..n /\ Streaming(L, q, key, a2, rs2)
    BY <1>16, <2>1, <2>2, <2>3
  <2> QED BY <1>1, <1>11, <2>5, <2>6
<1>17. CASE /\ p > 0 /\ p < Len(L) /\ L[p + 1].key # key /\ rs2 = Append(rs, [key |-> key, agg |-> agg])
            /\ s2 = [s EXCEPT !.pos = p + 1, !.key = L[p + 1].key, !.agg = ApplyAggregateRow(NoRows, L[p + 1].val)]
  <2>1. p \in 1..n /\ p < n /\ p + 1 \in 0..n
    BY <1>4, <1>8, <1>17
  <2>2. PICK q, k2, a2 : q = p + 1 /\ k2 = L[p + 1].key /\ a2 = ApplyAggregateRow(NoRows, L[p + 1].val)
    OBVIOUS
  <2>3. Streaming(L, p + 1, L[p + 1].key, ApplyAggregateRow(NoRows, L[p + 1].val), rs2)
    BY <1>2, <1>3, <1>8, <1>17, <2>1, StreamNew
  <2>4. s2 = [s EXCEPT !.pos = q, !.key = k2, !.agg = a2]
    BY <1>17, <2>2
  <2>5. s2 = [phase |-> ph, pos |-> q, key |-> k2, agg |-> a2]
    BY <1>6, <2>4
  <2>6. q \in 0..n /\ Streaming(L, q, k2, a2, rs2)
    BY <2>1, <2>2, <2>3
  <2> QED BY <1>1, <1>11, <2>5, <2>6
<1>18. StreamMove(o, L, s, rs, s2, rs2, p, key, agg)
  BY <1>1, <1>7, StreamCases
<1> QED BY <1>12, <1>13, <1>14, <1>15, <1>16, <1>17, <1>18, <1>19 DEF StreamMove

(* How far a stream with a NULL group key gets: to its second row.         *)
Unstreamable(o, L) == o = "streamAggregate" /\ Len(L) > 1 /\ NullGroup(L)

StreamNulls(o, L, s, rs) ==
    /\ s.phase = "thrown" => Unstreamable(o, L) /\ rs = <<>>
    /\ s.phase = "done" => ~Unstreamable(o, L)
    /\ s.phase = "read" /\ Unstreamable(o, L) => s.pos <= 1

LEMMA NullStep ==
    ASSUME StreamAggregateNext, left \in ValuedRows, InOrder(left), StreamOK(op, left, st, out),
           StreamNulls(op, left, st, out)
    PROVE  StreamNulls(op, left, st', out')
<1>1. PICK o, L, s, rs, s2, rs2 : o = op /\ L = left /\ s = st /\ rs = out /\ s2 = st' /\ rs2 = out'
  OBVIOUS
<1>2. L \in ValuedRows /\ InOrder(L) /\ StreamOK(o, L, s, rs) /\ s.phase = "read" /\ StreamNulls(o, L, s, rs)
  BY <1>1 DEF StreamAggregateNext
<1>3. PICK n : Valued(L, n)
  BY <1>2, ValuedRowsAre DEF Valued
<1>4. n \in Nat /\ n = Len(L) /\ DOMAIN L = 1..n /\ \A i \in 1..n : L[i].key \in Nat
  BY <1>3 DEF Valued
<1>5. PICK ph, p, key, agg : StreamState(o, L, s, rs, ph, p, key, agg)
  BY <1>2 DEF StreamOK
<1>6. s = [phase |-> ph, pos |-> p, key |-> key, agg |-> agg]
  BY <1>5 DEF StreamState
<1>7. ph = "read" /\ s.pos = p
  BY <1>2, <1>6
<1>8. p \in 0..n /\ Streaming(L, p, key, agg, rs)
  BY <1>4, <1>5, <1>7 DEF StreamState
<1>9. \A i, j \in 1..n : i < j => L[i].key <= L[j].key
  BY <1>2, <1>4 DEF InOrder
<1>10. NullGroup(L) => L[1].key = Null
  <2>1. SUFFICES ASSUME NullGroup(L) PROVE L[1].key = Null
    OBVIOUS
  <2>2. PICK i \in 1..n : L[i].key = Null
    BY <1>4, <2>1 DEF NullGroup
  <2>3. 1 \in 1..n /\ (i = 1 \/ 1 < i)
    BY <1>4
  <2>4. L[1].key \in Nat
    BY <1>4, <2>3
  <2>5. CASE 1 < i
    <3>1. L[1].key <= L[i].key
      BY <1>9, <2>3, <2>5
    <3> QED BY <2>2, <2>4, <3>1 DEF Null
  <2> QED BY <2>2, <2>3, <2>5
<1>11. Unstreamable(o, L) => p <= 1
  BY <1>2, <1>7 DEF StreamNulls
<1>18. ASSUME NEW new, s2 = [s EXCEPT !.phase = new] PROVE s2.phase = new
  BY <1>6, <1>18
<1>19. ASSUME NEW q, NEW k2, NEW a2, s2 = [s EXCEPT !.pos = q, !.key = k2, !.agg = a2]
       PROVE  s2.phase = "read" /\ s2.pos = q
  BY <1>6, <1>7, <1>19
<1>20. ASSUME NEW q, NEW a2, s2 = [s EXCEPT !.pos = q, !.agg = a2]
       PROVE  s2.phase = "read" /\ s2.pos = q
  BY <1>6, <1>7, <1>20
<1>12. CASE p = 0 /\ L = <<>> /\ s2.phase = "done"
  <2>1. ~(Len(L) > 1)
    BY <1>12
  <2> QED BY <1>1, <1>12, <2>1 DEF StreamNulls, Unstreamable
<1>13. CASE p = 0 /\ L # <<>> /\ s2.phase = "read" /\ s2.pos = p + 1
  <2>1. s2.pos <= 1
    BY <1>13
  <2> QED BY <1>1, <1>13, <2>1 DEF StreamNulls
<1>14. CASE p > 0 /\ p = Len(L) /\ s2.phase = "done"
  <2>1. ~Unstreamable(o, L)
    BY <1>4, <1>8, <1>11, <1>14 DEF Unstreamable
  <2> QED BY <1>1, <1>14, <2>1 DEF StreamNulls
<1>15. CASE /\ p > 0 /\ p < Len(L) /\ Stuck(o, key, L[p + 1].key) /\ s2.phase = "thrown" /\ rs2 = rs
  <2>1. p \in 1..n /\ p + 1 \in 1..n /\ p < p + 1 /\ Len(L) > 1
    BY <1>4, <1>8, <1>15
  <2>2. key = L[p].key /\ Listed(rs, L, KeysTo(L, p) \ {key})
    BY <1>8, <1>15 DEF Streaming
  <2>3. key \in Nat /\ L[p + 1].key \in Nat /\ key <= L[p + 1].key
    BY <1>4, <1>9, <2>1, <2>2
  <2>4. key = Null
    BY <1>15, <2>3 DEF Null, Stuck
  <2>5. NullGroup(L)
    BY <1>4, <2>1, <2>2, <2>4 DEF NullGroup
  <2>6. \A i \in 1..p : L[i].key = key
    <3>1. ASSUME NEW i \in 1..p PROVE L[i].key = key
      <4>1. i \in 1..n /\ (i = p \/ i < p)
        BY <1>4, <2>1
      <4>2. L[i].key \in Nat
        BY <1>4, <4>1
      <4>3. CASE i < p
        <5>1. L[i].key <= key
          BY <1>9, <2>1, <2>2, <4>1, <4>3
        <5> QED BY <2>4, <4>2, <5>1 DEF Null
      <4> QED BY <2>2, <4>1, <4>3
    <3> QED BY <3>1
  <2>7. PICK G : G = KeysTo(L, p) \ {key}
    OBVIOUS
  <2>8. G = {}
    BY <2>6, <2>7 DEF KeysTo
  <2>9. rs = <<>>
    <3>1. Listed(rs, L, {})
      BY <2>2, <2>7, <2>8
    <3> QED BY <3>1, ListedNothing
  <2>10. Unstreamable(o, L)
    BY <1>15, <2>1, <2>5 DEF Unstreamable, Stuck
  <2> QED BY <1>1, <1>15, <2>9, <2>10 DEF StreamNulls
<1>16. CASE /\ p > 0 /\ p < Len(L) /\ ~Stuck(o, key, L[p + 1].key)
            /\ s2.phase = "read" /\ s2.pos = p + 1
  <2>1. ~Unstreamable(o, L)
    <3>1. SUFFICES ASSUME Unstreamable(o, L) PROVE FALSE
      OBVIOUS
    <3>2. p = 1 /\ o = "streamAggregate" /\ NullGroup(L)
      BY <1>8, <1>11, <1>16, <3>1 DEF Unstreamable
    <3>3. key = L[p].key
      BY <1>8, <1>16 DEF Streaming
    <3>4. key = Null
      BY <1>10, <3>2, <3>3
    <3> QED BY <1>16, <3>2, <3>4 DEF Stuck
  <2> QED BY <1>1, <1>16, <2>1 DEF StreamNulls
<1>17. StreamMove(o, L, s, rs, s2, rs2, p, key, agg)
  <2>1. s.pos = p /\ s.key = key /\ s.agg = agg
    BY <1>6
  <2> QED BY <1>1, <2>1, StreamCases
<1>21. CASE s2 = [s EXCEPT !.phase = "done"] /\ ((p = 0 /\ L = <<>>) \/ (p > 0 /\ p = Len(L)))
  BY <1>12, <1>14, <1>18, <1>21
<1>22. CASE p > 0 /\ p < Len(L) /\ Stuck(o, key, L[p + 1].key) /\ s2 = [s EXCEPT !.phase = "thrown"] /\ rs2 = rs
  BY <1>15, <1>18, <1>22
<1>23. PICK q, k2, a2, a3 : /\ q = p + 1 /\ k2 = L[p + 1].key /\ a2 = ApplyAggregateRow(NoRows, L[p + 1].val)
                            /\ a3 = ApplyAggregateRow(agg, L[p + 1].val)
  OBVIOUS
<1>24. CASE s2 = [s EXCEPT !.pos = q, !.key = k2, !.agg = a2] /\ p = 0 /\ L # <<>>
  BY <1>13, <1>19, <1>23, <1>24
<1>25. CASE /\ s2 = [s EXCEPT !.pos = q, !.key = k2, !.agg = a2]
            /\ p > 0 /\ p < Len(L) /\ ~Stuck(o, key, L[p + 1].key)
  BY <1>16, <1>19, <1>23, <1>25
<1>26. CASE /\ s2 = [s EXCEPT !.pos = q, !.agg = a3]
            /\ p > 0 /\ p < Len(L) /\ ~Stuck(o, key, L[p + 1].key)
  BY <1>16, <1>20, <1>23, <1>26
<1> QED BY <1>17, <1>21, <1>22, <1>23, <1>24, <1>25, <1>26 DEF StreamMove

-----------------------------------------------------------------------------
(* The number of batches of a hash aggregation.                            *)
LEMMA PowerOfTwo ==
    ASSUME NEW n \in Nat, n # 0
    PROVE  NextPowerOfTwo(n) \in Nat \ {0}
<1> DEFINE G(f) == [k \in 0..n |-> IF k = 0 THEN 1 ELSE 2 * f[k - 1]]
<1>1. PICK step : step = [x \in (1..n) \X Nat |-> 2 * x[2]]
  OBVIOUS
<1>2. step \in [(1..n) \X Nat -> Nat]
  BY <1>1
<1>3. PICK g : Iterate(g, n, Nat, 1, step)
  BY <1>2, IterateExists
<1>4. g \in [0..n -> Nat] /\ g[0] = 1
  BY <1>3 DEF Iterate
<1>5. ASSUME NEW i \in 1..n PROVE g[i] = 2 * g[i - 1] /\ g[i - 1] \in Nat
  <2>1. i - 1 \in 0..n
    OBVIOUS
  <2>2. g[i - 1] \in Nat
    BY <1>4, <2>1
  <2>3. PICK x : x = <<i, g[i - 1]>>
    OBVIOUS
  <2>4. x \in (1..n) \X Nat /\ x[2] = g[i - 1]
    BY <2>2, <2>3
  <2>5. g[i] = step[x]
    BY <1>3, <2>3 DEF Iterate
  <2> QED BY <1>1, <2>2, <2>4, <2>5
<1>6. g = G(g)
  <2>1. ASSUME NEW i \in 0..n PROVE g[i] = G(g)[i]
    <3>1. CASE i = 0
      BY <1>4, <3>1
    <3>2. CASE i # 0
      <4>1. i \in 1..n
        BY <3>2
      <4> QED BY <1>5, <3>2, <4>1
    <3> QED BY <3>1, <3>2
  <2>2. DOMAIN g = 0..n /\ g = [i \in 0..n |-> g[i]]
    BY <1>4
  <2> QED BY <2>1, <2>2
<1>7. PICK h : h = CHOOSE f : f = G(f)
  OBVIOUS
<1>8. h = G(h)
  BY <1>6, <1>7
<1>9. PICK S : S = {p \in {h[k] : k \in 0..n} : p >= n}
  OBVIOUS
<1>10. NextPowerOfTwo(n) = Min(S)
  BY <1>7, <1>9 DEF NextPowerOfTwo
<1>11. h[0] = 1 /\ \A i \in 1..n : h[i] = 2 * h[i - 1]
  <2>1. 0 \in 0..n /\ \A i \in 1..n : i \in 0..n /\ i # 0
    OBVIOUS
  <2> QED BY <1>8, <2>1
<1> DEFINE Bad == {k \in 0..n : ~(h[k] \in Nat /\ h[k] > k)}
<1>12. ASSUME NEW m \in Bad, \A j \in Bad : m <= j PROVE FALSE
  <2>1. m # 0
    BY <1>11
  <2>2. m \in 1..n /\ m - 1 \in 0..n
    BY <2>1
  <2>3. h[m - 1] \in Nat /\ h[m - 1] > m - 1
    BY <1>12, <2>2
  <2>4. h[m] = 2 * h[m - 1]
    BY <1>11, <2>2
  <2>5. h[m] \in Nat /\ h[m] > m
    BY <2>2, <2>3, <2>4
  <2> QED BY <1>12, <2>5
<1>13. Bad = {}
  <2>1. SUFFICES ASSUME Bad # {} PROVE FALSE
    OBVIOUS
  <2>2. Bad \subseteq Nat
    OBVIOUS
  <2>3. PICK m \in Bad : \A j \in Bad : m <= j
    BY <2>1, <2>2, LeastNatural
  <2> QED BY <1>12, <2>3
<1>14. \A k \in 0..n : h[k] \in Nat /\ h[k] > k
  BY <1>13
<1>15. S \subseteq Nat /\ h[n] \in S
  <2>1. n \in 0..n /\ h[n] \in Nat /\ h[n] > n
    BY <1>14
  <2> QED BY <1>9, <1>14, <2>1
<1>16. Min(S) \in S
  BY <1>15, MinOfNaturals
<1>17. Min(S) \in Nat /\ Min(S) >= n
  BY <1>9, <1>15, <1>16
<1> QED BY <1>10, <1>17

LEMMA BatchCount ==
    ASSUME NEW k \in Nat
    PROVE  (IF k <= Budget THEN 1 ELSE NextPowerOfTwo(Max({2, (k + Budget - 1) \div Budget}))) \in Nat \ {0}
<1>1. Budget \in Nat \ {0}
  BY BoundsAssumption
<1>2. PICK c : c = (k + Budget - 1) \div Budget
  OBVIOUS
<1>3. k + Budget - 1 \in Int
  BY <1>1
<1>4. c \in Int
  BY <1>1, <1>2, <1>3
<1>5. \E x \in {2, c} : \A y \in {2, c} : x >= y
  BY <1>4
<1>6. Max({2, c}) \in {2, c} /\ \A y \in {2, c} : Max({2, c}) >= y
  BY <1>5 DEF Max
<1>7. Max({2, c}) \in Nat /\ Max({2, c}) # 0
  BY <1>4, <1>6
<1>8. NextPowerOfTwo(Max({2, c})) \in Nat \ {0}
  BY <1>7, PowerOfTwo
<1> QED BY <1>2, <1>8

(* A hash aggregation has finished the groups of the batches below b, but  *)
(* for those still in its table.                                           *)
Wanted(o, L) == KeysOf(L) \cup (IF o = "scalarAggregate" THEN {Null} ELSE {})
KeysBelow(L, n, b) == {k \in KeysOf(L) : \E i \in DOMAIN L : L[i].key = k /\ BatchOf(L, n, i) < b}

HashAggState(o, L, s, rs, ph, b, g, n) ==
    /\ s = [phase |-> ph, batch |-> b, groups |-> g, batches |-> n]
    /\ n \in Nat \ {0} /\ b \in 0..n /\ ph \in {"empty", "load", "groups", "done"}
    /\ ph = "empty" => L = <<>> /\ rs = <<>>
    /\ ph = "load" => L # <<>> /\ Listed(rs, L, KeysBelow(L, n, b))
    /\ ph = "groups" => /\ L # <<>> /\ DOMAIN g \subseteq KeysBelow(L, n, b)
                        /\ \A k \in DOMAIN g : AggOf(g[k], L, Places(L, k))
                        /\ Listed(rs, L, KeysBelow(L, n, b) \ DOMAIN g)
    /\ ph = "done" => Listed(rs, L, Wanted(o, L))

HashAggOK(o, L, s, rs) ==
    \/ s = [phase |-> "init"] /\ rs = <<>>
    \/ \E ph, b, g, n : HashAggState(o, L, s, rs, ph, b, g, n)

LEMMA KeysBelowSteps ==
    ASSUME NEW L, NEW m, Valued(L, m), \A i \in 1..m : L[i].key \in Key \cup {Null}, NEW n \in Nat \ {0}
    PROVE  /\ KeysBelow(L, n, 0) = {} /\ KeysBelow(L, n, n) = KeysOf(L)
           /\ \A b \in Nat : /\ KeysBelow(L, n, b + 1) = KeysBelow(L, n, b) \cup {L[i].key : i \in BatchPlaces(L, n, b)}
                             /\ \A i \in BatchPlaces(L, n, b) : L[i].key \notin KeysBelow(L, n, b)
<1>1. DOMAIN L = 1..m
  BY DEF Valued
<1>2. ASSUME NEW i \in 1..m PROVE BatchOf(L, n, i) \in 0..(n - 1)
  <2>1. PICK x : x = HashKey(Serialize(L[i].key))
    OBVIOUS
  <2>2. x \in Nat
    BY <2>1, SerializeAssumption
  <2>3. x % n \in 0..(n - 1)
    BY <2>2
  <2> QED BY <2>1, <2>3 DEF BatchOf
<1>3. \A i, j \in 1..m : L[i].key = L[j].key => BatchOf(L, n, i) = BatchOf(L, n, j)
  BY DEF BatchOf
<1>4. KeysBelow(L, n, 0) = {}
  <2>1. \A i \in 1..m : ~(BatchOf(L, n, i) < 0)
    BY <1>2
  <2> QED BY <1>1, <2>1 DEF KeysBelow
<1>5. KeysBelow(L, n, n) = KeysOf(L)
  <2>1. \A i \in 1..m : BatchOf(L, n, i) < n
    BY <1>2
  <2> QED BY <1>1, <2>1 DEF KeysBelow, KeysOf
<1>6. ASSUME NEW b \in Nat
      PROVE  /\ KeysBelow(L, n, b + 1) = KeysBelow(L, n, b) \cup {L[i].key : i \in BatchPlaces(L, n, b)}
             /\ \A i \in BatchPlaces(L, n, b) : L[i].key \notin KeysBelow(L, n, b)
  <2>1. \A i \in 1..m : BatchOf(L, n, i) < b + 1 <=> (BatchOf(L, n, i) < b \/ BatchOf(L, n, i) = b)
    BY <1>2
  <2>2. PICK P : P = BatchPlaces(L, n, b)
    OBVIOUS
  <2>3. \A i : i \in P <=> (i \in 1..m /\ BatchOf(L, n, i) = b)
    BY <1>1, <2>2 DEF BatchPlaces
  <2>4. \A c, k : k \in KeysBelow(L, n, c) <=> \E i \in 1..m : L[i].key = k /\ BatchOf(L, n, i) < c
    BY <1>1 DEF KeysBelow, KeysOf
  <2>5. ASSUME NEW k
        PROVE  k \in KeysBelow(L, n, b + 1) <=> (k \in KeysBelow(L, n, b) \/ k \in {L[i].key : i \in P})
    <3>1. k \in {L[i].key : i \in P} <=> \E i \in 1..m : L[i].key = k /\ BatchOf(L, n, i) = b
      BY <2>3
    <3>2. k \in KeysBelow(L, n, b + 1) <=> \E i \in 1..m : L[i].key = k /\ BatchOf(L, n, i) < b + 1
      BY <2>4
    <3>3. k \in KeysBelow(L, n, b) <=> \E i \in 1..m : L[i].key = k /\ BatchOf(L, n, i) < b
      BY <2>4
    <3> QED BY <2>1, <3>1, <3>2, <3>3
  <2>6. ASSUME NEW i \in P, L[i].key \in KeysBelow(L, n, b) PROVE FALSE
    <3>1. PICK j \in 1..m : L[j].key = L[i].key /\ BatchOf(L, n, j) < b
      BY <2>4, <2>6
    <3>2. i \in 1..m /\ BatchOf(L, n, i) = b
      BY <2>3
    <3>3. BatchOf(L, n, j) = b
      BY <1>3, <3>1, <3>2
    <3> QED BY <3>1, <3>3
  <2>7. KeysBelow(L, n, b + 1) = KeysBelow(L, n, b) \cup {L[i].key : i \in P}
    BY <2>5
  <2> QED BY <2>2, <2>6, <2>7
<1> QED BY <1>4, <1>5, <1>6

(* The table of a batch.                                                   *)
LEMMA BatchTable ==
    ASSUME NEW L, NEW m, Valued(L, m), NEW n, NEW b, NEW rows, rows = InBatch(L, n, b)
    PROVE  /\ {row.key : row \in ToSet(rows)} = {L[i].key : i \in BatchPlaces(L, n, b)}
           /\ \A i \in BatchPlaces(L, n, b) : AggOf(Aggregated(Matching(rows, L[i].key)), L, Places(L, L[i].key))
<1>1. m \in Nat /\ DOMAIN L = 1..m
  BY DEF Valued
<1>2. PICK P, at : P = BatchPlaces(L, n, b) /\ at = PlaceOf(P)
  OBVIOUS
<1>3. PICK k \in Nat : Lists(rows, at, L, P, k)
  BY <1>1, <1>2, InBatchAre
<1>4. /\ DOMAIN rows = 1..k
      /\ \A x \in 1..k : at[x] \in P /\ rows[x] = L[at[x]]
      /\ \A j \in P : \E x \in 1..k : at[x] = j
  BY <1>3, Zenon DEF Lists
<1>5. {row.key : row \in ToSet(rows)} = {L[i].key : i \in P}
  <2>1. \A x \in 1..k : rows[x].key = L[at[x]].key
    BY <1>4
  <2>2. \A y : y \in {row.key : row \in ToSet(rows)} <=> \E x \in 1..k : y = rows[x].key
    BY <1>4 DEF ToSet
  <2>3. \A y : y \in {L[i].key : i \in P} <=> \E x \in 1..k : y = L[at[x]].key
    BY <1>4
  <2>4. PICK X, Y : X = {row.key : row \in ToSet(rows)} /\ Y = {L[i].key : i \in P}
    OBVIOUS
  <2>5. ASSUME NEW y PROVE y \in X <=> y \in Y
    <3>1. y \in X <=> \E x \in 1..k : y = rows[x].key
      BY <2>2, <2>4
    <3>2. y \in Y <=> \E x \in 1..k : y = L[at[x]].key
      BY <2>3, <2>4
    <3> QED BY <2>1, <3>1, <3>2
  <2>6. X = Y
    BY <2>5
  <2> QED BY <2>4, <2>6
<1>6. ASSUME NEW i \in P PROVE AggOf(Aggregated(Matching(rows, L[i].key)), L, Places(L, L[i].key))
  <2>1. i \in DOMAIN L /\ BatchOf(L, n, i) = b
    BY <1>2 DEF BatchPlaces
  <2>2. PICK c \in Nat : \E f : Enumerates(Matching(rows, L[i].key), f, L, Matches(L, L, i), c)
    BY <1>1, <2>1, BatchMatchingIs
  <2>3. PICK f : Enumerates(Matching(rows, L[i].key), f, L, Matches(L, L, i), c)
    BY <2>2
  <2>4. PICK A, found : A = Matches(L, L, i) /\ found = Matching(rows, L[i].key)
    OBVIOUS
  <2>5. A = Places(L, L[i].key) /\ A \subseteq 1..m
    BY <1>1, <2>4 DEF Matches, Places
  <2>6. AggOf(Aggregated(found), L, A)
    BY <2>3, <2>4, <2>5, AggregatedIs
  <2> QED BY <2>4, <2>5, <2>6
<1> QED BY <1>2, <1>5, <1>6

LEMMA HashAggInitStep ==
    ASSUME HashAggregateInit, left \in ValuedRows, HashAggOK(op, left, st, out)
    PROVE  HashAggOK(op, left, st', out')
<1>1. PICK o, L, s, rs, s2, rs2 : o = op /\ L = left /\ s = st /\ rs = out /\ s2 = st' /\ rs2 = out'
  OBVIOUS
<1>2. L \in ValuedRows /\ HashAggOK(o, L, s, rs) /\ s.phase = "init" /\ rs2 = rs
  BY <1>1 DEF HashAggregateInit
<1>3. rs = <<>>
  <2>1. ASSUME NEW ph, NEW b, NEW g, NEW n, HashAggState(o, L, s, rs, ph, b, g, n) PROVE FALSE
    <3>1. s.phase = ph /\ ph \in {"empty", "load", "groups", "done"}
      BY <2>1 DEF HashAggState
    <3> QED BY <1>2, <3>1
  <2> QED BY <1>2, <2>1 DEF HashAggOK
<1>4. PICK m \in Nat : /\ m = Len(L) /\ DOMAIN L = 1..m
                       /\ \A i \in 1..m : L[i].key \in Key \cup {Null} /\ L[i].key \in Nat /\ L[i].val \in Nat
  BY <1>2, ValuedRowsAre
<1>5. Valued(L, m) /\ \A i \in 1..m : L[i].key \in Key \cup {Null}
  BY <1>4 DEF Valued
<1>6. PICK ph, none, n : /\ ph = (IF left = <<>> THEN "empty" ELSE "load") /\ none = <<>>
                         /\ n = (IF Len(left) <= Budget THEN 1 ELSE NextPowerOfTwo(Max({2, (Len(left) + Budget - 1) \div Budget})))
  OBVIOUS
<1>7. n \in Nat \ {0}
  BY <1>1, <1>4, <1>6, BatchCount
<1>8. s2 = [phase |-> ph, batch |-> 0, groups |-> none, batches |-> n]
  BY <1>1, <1>6 DEF HashAggregateInit
<1>9. KeysBelow(L, n, 0) = {}
  BY <1>5, <1>7, KeysBelowSteps
<1>10. Listed(rs2, L, KeysBelow(L, n, 0))
  BY <1>2, <1>3, <1>9, ListedNone
<1>11. 0 \in 0..n /\ ph \in {"empty", "load"} /\ (ph = "empty" => L = <<>>) /\ (ph = "load" => L # <<>>)
  BY <1>1, <1>6, <1>7
<1>12. HashAggState(o, L, s2, rs2, ph, 0, none, n)
  BY <1>2, <1>3, <1>7, <1>8, <1>10, <1>11 DEF HashAggState
<1> QED BY <1>1, <1>12 DEF HashAggOK

(* The parts of the state in a later phase.                                *)
LEMMA HashAggParts ==
    ASSUME NEW o, NEW L, NEW s, NEW rs, HashAggOK(o, L, s, rs), s.phase # "init"
    PROVE  \E b, g, n : HashAggState(o, L, s, rs, s.phase, b, g, n)
<1>1. s # [phase |-> "init"]
  OBVIOUS
<1>2. PICK ph, b, g, n : HashAggState(o, L, s, rs, ph, b, g, n)
  BY <1>1 DEF HashAggOK
<1>3. s.phase = ph
  BY <1>2 DEF HashAggState
<1> QED BY <1>2, <1>3

LEMMA EmptyStep ==
    ASSUME EmitEmpty, left \in ValuedRows, HashAggOK(op, left, st, out)
    PROVE  HashAggOK(op, left, st', out')
<1>1. PICK o, L, s, rs, s2, rs2 : o = op /\ L = left /\ s = st /\ rs = out /\ s2 = st' /\ rs2 = out'
  OBVIOUS
<1>2. L \in ValuedRows /\ HashAggOK(o, L, s, rs) /\ s.phase = "empty" /\ s2 = [s EXCEPT !.phase = "done"]
  BY <1>1 DEF EmitEmpty
<1>3. PICK b, g, n : HashAggState(o, L, s, rs, "empty", b, g, n)
  BY <1>2, HashAggParts
<1>4. PICK empty, done : empty = "empty" /\ done = "done"
  OBVIOUS
<1>5. s = [phase |-> empty, batch |-> b, groups |-> g, batches |-> n]
  BY <1>3, <1>4 DEF HashAggState
<1>6. s2 = [s EXCEPT !.phase = done]
  BY <1>2, <1>4
<1>7. s2 = [phase |-> done, batch |-> b, groups |-> g, batches |-> n]
  BY <1>5, <1>6
<1>8. L = <<>> /\ rs = <<>> /\ n \in Nat \ {0} /\ b \in 0..n
  BY <1>3 DEF HashAggState
<1>9. KeysOf(L) = {}
  BY <1>8 DEF KeysOf
<1>10. Listed(rs, L, {})
  BY <1>8, ListedNone
<1>11. Listed(rs2, L, Wanted(o, L))
  <2>1. CASE o = "scalarAggregate"
    <3>1. rs2 = Append(rs, [key |-> Null, agg |-> NoRows])
      BY <1>1, <2>1 DEF EmitEmpty, Emit
    <3>2. Wanted(o, L) = {} \cup {Null} /\ Null \notin {}
      BY <1>9, <2>1 DEF Wanted
    <3>3. PICK m : Valued(L, m)
      BY <1>2, ValuedRowsAre DEF Valued
    <3>4. Places(L, Null) = {}
      BY <1>8 DEF Places
    <3>5. AggOf(NoRows, L, Places(L, Null))
      BY <3>3, <3>4, AggOfNone
    <3> QED BY <1>10, <3>1, <3>2, <3>5, ListedAppend
  <2>2. CASE o # "scalarAggregate"
    <3>1. rs2 = rs
      BY <1>1, <2>2 DEF EmitEmpty
    <3>2. Wanted(o, L) = {}
      BY <1>9, <2>2 DEF Wanted
    <3> QED BY <1>10, <3>1, <3>2
  <2> QED BY <2>1, <2>2
<1>12. HashAggState(o, L, s2, rs2, "done", b, g, n)
  BY <1>4, <1>7, <1>8, <1>11 DEF HashAggState
<1> QED BY <1>1, <1>12 DEF HashAggOK

LEMMA LoadStep ==
    ASSUME LoadNextBatch, left \in ValuedRows, HashAggOK(op, left, st, out),
           op = "scalarAggregate" => \A i \in DOMAIN left : left[i].key = Null
    PROVE  HashAggOK(op, left, st', out')
<1>1. PICK o, L, s, rs, s2, rs2 : o = op /\ L = left /\ s = st /\ rs = out /\ s2 = st' /\ rs2 = out'
  OBVIOUS
<1>2. L \in ValuedRows /\ HashAggOK(o, L, s, rs) /\ s.phase = "load" /\ rs2 = rs
  BY <1>1 DEF LoadNextBatch
<1>3. PICK b, g, n : HashAggState(o, L, s, rs, "load", b, g, n)
  BY <1>2, HashAggParts
<1>4. PICK load : load = "load"
  OBVIOUS
<1>5. s = [phase |-> load, batch |-> b, groups |-> g, batches |-> n]
  BY <1>3, <1>4 DEF HashAggState
<1>6. s.batch = b /\ s.groups = g /\ s.batches = n
  BY <1>5
<1>7. n \in Nat \ {0} /\ b \in 0..n /\ L # <<>> /\ Listed(rs, L, KeysBelow(L, n, b))
  BY <1>3 DEF HashAggState
<1>8. PICK m \in Nat : /\ m = Len(L) /\ DOMAIN L = 1..m
                       /\ \A i \in 1..m : L[i].key \in Key \cup {Null} /\ L[i].key \in Nat /\ L[i].val \in Nat
  BY <1>2, ValuedRowsAre
<1>9. Valued(L, m) /\ \A i \in 1..m : L[i].key \in Key \cup {Null}
  BY <1>8 DEF Valued
<1>10. CASE b = n
  <2>1. s2 = [s EXCEPT !.phase = "done"]
    BY <1>1, <1>6, <1>10 DEF LoadNextBatch
  <2>2. PICK done : done = "done"
    OBVIOUS
  <2>3. s2 = [phase |-> done, batch |-> b, groups |-> g, batches |-> n]
    BY <1>5, <2>1, <2>2
  <2>4. KeysBelow(L, n, b) = KeysOf(L)
    BY <1>7, <1>9, <1>10, KeysBelowSteps
  <2>5. Wanted(o, L) = KeysOf(L)
    <3>1. CASE o = "scalarAggregate"
      <4>1. m # 0
        <5>1. PICK D : D = [key : Key \cup {Null}, val : Key \cup {Null}]
          OBVIOUS
        <5>2. PICK k \in 0..MaxRows : L \in [1..k -> D]
          BY <1>2, <5>1 DEF ValuedRows, SeqOf
        <5>3. k \in Nat
          BY <5>2, BoundsAssumption
        <5>4. L \in Seq(D)
          BY <5>2, <5>3
        <5> QED BY <1>7, <1>8, <5>4
      <4>2. 1 \in DOMAIN L /\ L[1].key = Null
        BY <1>1, <1>8, <3>1, <4>1
      <4>3. Null \in KeysOf(L)
        BY <4>2 DEF KeysOf
      <4> QED BY <3>1, <4>3 DEF Wanted
    <3>2. CASE o # "scalarAggregate"
      BY <3>2 DEF Wanted
    <3> QED BY <3>1, <3>2
  <2>6. Listed(rs2, L, Wanted(o, L))
    BY <1>2, <1>7, <2>4, <2>5
  <2>7. HashAggState(o, L, s2, rs2, "done", b, g, n)
    BY <1>7, <2>2, <2>3, <2>6 DEF HashAggState
  <2> QED BY <1>1, <2>7 DEF HashAggOK
<1>11. CASE b # n
  <2>1. PICK rows, K, g2, b2, ph : /\ rows = InBatch(L, n, b) /\ K = {row.key : row \in ToSet(rows)}
                                   /\ g2 = [k \in K |-> Aggregated(Matching(rows, k))] /\ b2 = b + 1 /\ ph = "groups"
    OBVIOUS
  <2>2. s2 = [s EXCEPT !.phase = ph, !.batch = b2, !.groups = g2]
    BY <1>1, <1>6, <1>11, <2>1 DEF LoadNextBatch
  <2>3. s2 = [phase |-> ph, batch |-> b2, groups |-> g2, batches |-> n]
    BY <1>5, <2>2
  <2>4. b \in Nat /\ b2 \in 0..n
    BY <1>7, <1>11, <2>1
  <2>5. PICK P : P = BatchPlaces(L, n, b)
    OBVIOUS
  <2>6. K = {L[i].key : i \in P} /\ \A i \in P : AggOf(Aggregated(Matching(rows, L[i].key)), L, Places(L, L[i].key))
    BY <1>9, <2>1, <2>5, BatchTable
  <2>7. /\ KeysBelow(L, n, b2) = KeysBelow(L, n, b) \cup {L[i].key : i \in P}
        /\ \A i \in P : L[i].key \notin KeysBelow(L, n, b)
    BY <1>7, <1>9, <2>1, <2>4, <2>5, KeysBelowSteps
  <2>8. PICK B, B2 : B = KeysBelow(L, n, b) /\ B2 = KeysBelow(L, n, b2)
    OBVIOUS
  <2>9. DOMAIN g2 = K
    BY <2>1
  <2>10. K \subseteq B2 /\ B2 \ K = B
    BY <2>6, <2>7, <2>8
  <2>11. ASSUME NEW k \in K PROVE AggOf(g2[k], L, Places(L, k))
    <3>1. PICK i \in P : k = L[i].key
      BY <2>6
    <3>2. g2[k] = Aggregated(Matching(rows, k))
      BY <2>1
    <3> QED BY <2>6, <3>1, <3>2
  <2>12. Listed(rs2, L, B2 \ K)
    BY <1>2, <1>7, <2>8, <2>10
  <2>13. HashAggState(o, L, s2, rs2, ph, b2, g2, n)
    BY <1>7, <2>1, <2>3, <2>4, <2>8, <2>9, <2>10, <2>11, <2>12 DEF HashAggState
  <2> QED BY <1>1, <2>13 DEF HashAggOK
<1> QED BY <1>10, <1>11

LEMMA GroupsStep ==
    ASSUME HashAggregateNext, HashAggOK(op, left, st, out)
    PROVE  HashAggOK(op, left, st', out')
<1>1. PICK o, L, s, rs, s2, rs2 : o = op /\ L = left /\ s = st /\ rs = out /\ s2 = st' /\ rs2 = out'
  OBVIOUS
<1>2. HashAggOK(o, L, s, rs) /\ s.phase = "groups"
  BY <1>1 DEF HashAggregateNext
<1>3. PICK b, g, n : HashAggState(o, L, s, rs, "groups", b, g, n)
  BY <1>2, HashAggParts
<1>4. PICK ph : ph = "groups"
  OBVIOUS
<1>5. s = [phase |-> ph, batch |-> b, groups |-> g, batches |-> n]
  BY <1>3, <1>4 DEF HashAggState
<1>6. s.groups = g
  BY <1>5
<1>7. PICK B, K : B = KeysBelow(L, n, b) /\ K = DOMAIN g
  OBVIOUS
<1>8. n \in Nat \ {0} /\ b \in 0..n /\ L # <<>>
  BY <1>3 DEF HashAggState
<1>9. K \subseteq B /\ (\A k \in K : AggOf(g[k], L, Places(L, k))) /\ Listed(rs, L, B \ K)
  BY <1>3, <1>7 DEF HashAggState
<1>10. ASSUME NEW k \in K, rs2 = Append(rs, [key |-> k, agg |-> g[k]]),
              s2 = [s EXCEPT !.groups = [q \in K \ {k} |-> g[q]]]
       PROVE  HashAggOK(o, L, s2, rs2)
  <2>1. PICK g2, K2 : g2 = [q \in K \ {k} |-> g[q]] /\ K2 = K \ {k}
    OBVIOUS
  <2>2. s2 = [s EXCEPT !.groups = g2]
    BY <1>10, <2>1
  <2>3. s2 = [phase |-> ph, batch |-> b, groups |-> g2, batches |-> n]
    BY <1>5, <2>2
  <2>4. DOMAIN g2 = K2 /\ \A q \in K2 : g2[q] = g[q]
    BY <2>1
  <2>5. K2 \subseteq B /\ \A q \in K2 : AggOf(g2[q], L, Places(L, q))
    BY <1>9, <2>1, <2>4
  <2>6. PICK G, H : G = B \ K /\ H = B \ K2
    OBVIOUS
  <2>7. k \notin G /\ H = G \cup {k}
    BY <1>9, <2>1, <2>6
  <2>8. AggOf(g[k], L, Places(L, k)) /\ Listed(rs, L, G)
    BY <1>9, <2>6
  <2>9. Listed(rs2, L, H)
    BY <1>10, <2>7, <2>8, ListedAppend
  <2>10. HashAggState(o, L, s2, rs2, ph, b, g2, n)
    BY <1>4, <1>7, <1>8, <2>3, <2>4, <2>5, <2>6, <2>9 DEF HashAggState
  <2> QED BY <2>10 DEF HashAggOK
<1>11. ASSUME K = {}, rs2 = rs, s2 = [s EXCEPT !.phase = "load"]
       PROVE  HashAggOK(o, L, s2, rs2)
  <2>1. PICK load : load = "load"
    OBVIOUS
  <2>2. s2 = [phase |-> load, batch |-> b, groups |-> g, batches |-> n]
    BY <1>5, <1>11, <2>1
  <2>3. B \ K = B
    BY <1>11
  <2>4. Listed(rs2, L, KeysBelow(L, n, b))
    BY <1>7, <1>9, <1>11, <2>3
  <2>5. HashAggState(o, L, s2, rs2, load, b, g, n)
    BY <1>8, <2>1, <2>2, <2>4 DEF HashAggState
  <2> QED BY <2>5 DEF HashAggOK
<1>12. \/ \E k \in K : /\ rs2 = Append(rs, [key |-> k, agg |-> g[k]])
                       /\ s2 = [s EXCEPT !.groups = [q \in K \ {k} |-> g[q]]]
       \/ K = {} /\ s2 = [s EXCEPT !.phase = "load"] /\ rs2 = rs
  <2>1. CASE \E k \in DOMAIN st.groups :
                 /\ Emit([key |-> k, agg |-> st.groups[k]])
                 /\ st' = [st EXCEPT !.groups = [q \in DOMAIN @ \ {k} |-> @[q]]]
    <3>1. PICK k \in DOMAIN st.groups :
                 /\ Emit([key |-> k, agg |-> st.groups[k]])
                 /\ st' = [st EXCEPT !.groups = [q \in DOMAIN @ \ {k} |-> @[q]]]
      BY <2>1
    <3>2. k \in K /\ rs2 = Append(rs, [key |-> k, agg |-> g[k]])
      BY <1>1, <1>6, <1>7, <3>1 DEF Emit
    <3>3. s2 = [s EXCEPT !.groups = [q \in K \ {k} |-> g[q]]]
      BY <1>1, <1>6, <1>7, <3>1
    <3> QED BY <3>2, <3>3
  <2>2. CASE DOMAIN st.groups = {} /\ st' = [st EXCEPT !.phase = "load"] /\ UNCHANGED out
    BY <1>1, <1>6, <1>7, <2>2
  <2> QED BY <2>1, <2>2 DEF HashAggregateNext
<1> QED BY <1>1, <1>10, <1>11, <1>12

Aggregates == HashAggregates \cup StreamAggregates

AggInv ==
    op \in Aggregates =>
        /\ left \in ValuedRows
        /\ op = "scalarAggregate" => \A i \in DOMAIN left : left[i].key = Null
        /\ op \in StreamAggregates =>
                InOrder(left) /\ StreamOK(op, left, st, out) /\ StreamNulls(op, left, st, out)
        /\ op \in HashAggregates => HashAggOK(op, left, st, out)

LEMMA AggKinds ==
    ASSUME op \in Aggregates
    PROVE  /\ op \notin JoinOps /\ op \notin NestedLoop /\ op \notin IndexLoop /\ op \notin Hash /\ op \notin SetOps
           /\ op \notin {"merge", "sort", "topN", "unique"} /\ op \notin SetOps \cup {"unique"}
           /\ op \in HashAggregates <=> op \notin StreamAggregates
BY DEF NestedLoop, IndexLoop, Hash, JoinOps, SetOps, Aggregates, HashAggregates, StreamAggregates

LEMMA AggInit == Init => AggInv
<1> SUFFICES ASSUME Init, op \in Aggregates PROVE AggInv
  BY DEF AggInv
<1>1. InitAggregate
  BY AggKinds DEF Init, InitJoin, InitOrder, InitSetOp
<1>2. PICK o, L, s, rs : o = op /\ L = left /\ s = st /\ rs = out
  OBVIOUS
<1>3. /\ L \in ValuedRows /\ rs = <<>> /\ (op = "scalarAggregate" => \A i \in DOMAIN left : left[i].key = Null)
      /\ op \in StreamAggregates => InOrder(left)
  BY <1>1, <1>2 DEF InitAggregate
<1>4. CASE op \in StreamAggregates
  <2>1. PICK read, zero : read = "read" /\ zero = 0
    OBVIOUS
  <2>2. s = [phase |-> read, pos |-> zero, key |-> Null, agg |-> NoRows]
    BY <1>1, <1>2, <1>4, <2>1 DEF InitAggregate
  <2>3. PICK n \in Nat : n = Len(L)
    BY <1>3, ValuedRowsAre
  <2>4. zero \in 0..Len(L) /\ ~(zero > 0)
    BY <2>1, <2>3
  <2>5. Streaming(L, zero, Null, NoRows, rs)
    BY <1>3, <2>4 DEF Streaming
  <2>6. StreamState(o, L, s, rs, read, zero, Null, NoRows)
    BY <2>1, <2>2, <2>4, <2>5 DEF StreamState
  <2>7. StreamOK(o, L, s, rs)
    BY <2>6 DEF StreamOK
  <2>8. s.phase = "read" /\ s.pos <= 1
    BY <2>1, <2>2
  <2>9. StreamNulls(o, L, s, rs)
    BY <2>8 DEF StreamNulls
  <2> QED BY <1>2, <1>3, <1>4, <2>7, <2>9, AggKinds DEF AggInv
<1>5. CASE op \notin StreamAggregates
  <2>1. s = [phase |-> "init"]
    BY <1>1, <1>2, <1>5 DEF InitAggregate
  <2>2. HashAggOK(o, L, s, rs)
    BY <1>3, <2>1 DEF HashAggOK
  <2> QED BY <1>2, <1>3, <1>5, <2>2 DEF AggInv
<1> QED BY <1>4, <1>5

LEMMA AggSteps ==
    ASSUME op \in Aggregates, [Next]_vars
    PROVE  AggregateStep \/ UNCHANGED <<st, out>>
<1>1. CASE JoinStep
  BY <1>1, AggKinds DEF JoinStep, NestedLoopNext, IndexLoopNext, PartitionInputsIntoBatches, HashNext,
                        InitMergeJoin, Compare, EmitMatches, AdvanceOuterDuplicates
<1>2. CASE OrderStep
  BY <1>2, AggKinds DEF OrderStep, SortRead, SortEndOfInput, StartGroup, MergeRunGroup, EndPass, TopNRead,
                        TopNEndOfInput, OrderedNext
<1>3. CASE UniqueNext \/ SetOpNext
  BY <1>3, AggKinds DEF UniqueNext, SetOpNext
<1>4. CASE Ended \/ UNCHANGED vars
  BY <1>4 DEF Ended, vars
<1> QED BY <1>1, <1>2, <1>3, <1>4 DEF Next

LEMMA AggKept == AggInv /\ [Next]_vars => AggInv'
<1> SUFFICES ASSUME AggInv, [Next]_vars, op \in Aggregates PROVE AggInv'
  BY InputsStay DEF AggInv, Inputs
<1>1. op' = op /\ left' = left
  BY InputsStay DEF Inputs
<1>2. /\ left \in ValuedRows
      /\ op = "scalarAggregate" => \A i \in DOMAIN left : left[i].key = Null
  BY DEF AggInv
<1>3. CASE UNCHANGED <<st, out>>
  <2>1. st' = st /\ out' = out
    BY <1>3
  <2> QED BY <1>1, <2>1 DEF AggInv
<1>4. CASE AggregateStep /\ op \in StreamAggregates
  <2>1. InOrder(left) /\ StreamOK(op, left, st, out) /\ StreamNulls(op, left, st, out)
    BY <1>4 DEF AggInv
  <2>2. st.phase \in {"read", "done", "thrown"}
    BY <2>1 DEF StreamOK, StreamState
  <2>3. StreamAggregateNext
    BY <1>4, <2>2 DEF AggregateStep, HashAggregateInit, EmitEmpty, LoadNextBatch, HashAggregateNext
  <2>4. StreamOK(op, left, st', out')
    BY <1>2, <2>1, <2>3, StreamStep
  <2>6. StreamNulls(op, left, st', out')
    BY <1>2, <2>1, <2>3, NullStep
  <2>5. op \notin HashAggregates
    BY <1>4, AggKinds
  <2> QED BY <1>1, <1>2, <1>4, <2>1, <2>4, <2>5, <2>6 DEF AggInv
<1>5. CASE AggregateStep /\ op \notin StreamAggregates
  <2>1. HashAggOK(op, left, st, out)
    BY <1>5, AggKinds DEF AggInv
  <2>2. HashAggOK(op, left, st', out')
    <3>1. CASE HashAggregateInit
      BY <1>2, <2>1, <3>1, HashAggInitStep
    <3>2. CASE EmitEmpty
      BY <1>2, <2>1, <3>2, EmptyStep
    <3>3. CASE LoadNextBatch
      BY <1>2, <2>1, <3>3, LoadStep
    <3>4. CASE HashAggregateNext
      BY <2>1, <3>4, GroupsStep
    <3>5. ~StreamAggregateNext
      BY <1>5 DEF StreamAggregateNext
    <3> QED BY <1>5, <3>1, <3>2, <3>3, <3>4, <3>5 DEF AggregateStep
  <2> QED BY <1>1, <1>2, <1>5, <2>2 DEF AggInv
<1> QED BY <1>3, <1>4, <1>5, AggSteps

LEMMA AggGroups ==
    ASSUME AggInv, op \in Aggregates, st.phase = "done", ~(op = "scalarStream" /\ left = <<>>)
    PROVE  LET groups == {row.key : row \in ToSet(left)} \cup (IF op = "scalarAggregate" THEN {Null} ELSE {}) IN
           /\ Len(out) = Cardinality(groups)
           /\ ToSet(out) = {[key |-> k, agg |-> GroupResult(k)] : k \in groups}
<1>1. PICK G : G = Wanted(op, left)
  OBVIOUS
<1>2. Listed(out, left, G)
  <2>1. CASE op \in StreamAggregates
    <3>1. PICK ph, p, key, agg : StreamState(op, left, st, out, ph, p, key, agg)
      BY <2>1 DEF AggInv, StreamOK
    <3>2. st.phase = ph
      BY <3>1 DEF StreamState
    <3>3. Listed(out, left, KeysOf(left))
      BY <3>1, <3>2 DEF StreamState
    <3>4. G = KeysOf(left)
      BY <1>1, <2>1 DEF Wanted, StreamAggregates
    <3> QED BY <3>3, <3>4
  <2>2. CASE op \notin StreamAggregates
    <3>1. HashAggOK(op, left, st, out)
      BY <2>2, AggKinds DEF AggInv
    <3>2. PICK b, g, n : HashAggState(op, left, st, out, "done", b, g, n)
      BY <3>1, HashAggParts
    <3> QED BY <1>1, <3>2 DEF HashAggState
  <2> QED BY <2>1, <2>2
<1>3. PICK n : Valued(left, n)
  BY ValuedRowsAre DEF AggInv, Valued
<1>4. \A k, row : Due(left, k, row) => row = [key |-> k, agg |-> GroupResult(k)]
  <2>1. ASSUME NEW k, NEW row, Due(left, k, row) PROVE row = [key |-> k, agg |-> GroupResult(k)]
    <3>1. row = [key |-> k, agg |-> row.agg] /\ AggOf(row.agg, left, Places(left, k))
      BY <2>1 DEF Due
    <3>2. row.agg = GroupResult(k)
      BY <1>3, <3>1, AggOfGroup
    <3> QED BY <3>1, <3>2
  <2> QED BY <2>1
<1>5. {row.key : row \in ToSet(left)} \cup (IF op = "scalarAggregate" THEN {Null} ELSE {}) = G
  BY <1>1 DEF Wanted, KeysOf, ToSet
<1>6. PICK c : c = Len(out)
  OBVIOUS
<1>7. DOMAIN out = 1..c /\ c = Cardinality(G)
  BY <1>2, <1>6 DEF Listed
<1>8. \A i \in 1..c : \E k \in G : Due(left, k, out[i])
  BY <1>2, <1>6 DEF Listed
<1>9. \A k \in G : \E i \in 1..c : Due(left, k, out[i])
  BY <1>2, <1>6 DEF Listed
<1>10. PICK T : T = {[key |-> k, agg |-> GroupResult(k)] : k \in G}
  OBVIOUS
<1>11. ToSet(out) = T
  <2>1. ASSUME NEW x \in ToSet(out) PROVE x \in T
    <3>1. PICK i \in 1..c : x = out[i]
      BY <1>7, <2>1 DEF ToSet
    <3>2. PICK k \in G : Due(left, k, x)
      BY <1>8, <3>1
    <3> QED BY <1>4, <1>10, <3>2
  <2>2. ASSUME NEW x \in T PROVE x \in ToSet(out)
    <3>1. PICK k \in G : x = [key |-> k, agg |-> GroupResult(k)]
      BY <1>10, <2>2
    <3>2. PICK i \in 1..c : Due(left, k, out[i])
      BY <1>9
    <3>3. out[i] = x
      BY <1>4, <3>1, <3>2
    <3> QED BY <1>7, <3>3 DEF ToSet
  <2> QED BY <2>1, <2>2
<1> QED BY <1>5, <1>6, <1>7, <1>10, <1>11

LEMMA AggResult == AggInv => AggregatesAgree
<1> SUFFICES ASSUME AggInv, op \in Aggregates PROVE AggregatesAgree
  BY DEF AggregatesAgree, Aggregates
<1> DEFINE groups == {row.key : row \in ToSet(left)} \cup (IF op = "scalarAggregate" THEN {Null} ELSE {})
           unstreamable == op = "streamAggregate" /\ Len(left) > 1 /\ NullGroup(left)
<1>1. CASE op \in StreamAggregates
  <2>1. StreamOK(op, left, st, out) /\ StreamNulls(op, left, st, out)
    BY <1>1 DEF AggInv
  <2>2. (st.phase = "thrown" => unstreamable /\ out = <<>>) /\ (st.phase = "done" => ~unstreamable)
    BY <2>1 DEF StreamNulls, Unstreamable
  <2>3. ASSUME st.phase = "done", op = "scalarStream" /\ left = <<>> PROVE out = <<EmptyTuple>>
    <3>1. PICK ph, p, key, agg : StreamState(op, left, st, out, ph, p, key, agg)
      BY <2>1 DEF StreamOK
    <3>2. st.phase = ph
      BY <3>1 DEF StreamState
    <3> QED BY <2>3, <3>1, <3>2 DEF StreamState
  <2>4. ASSUME st.phase = "done", ~(op = "scalarStream" /\ left = <<>>)
        PROVE  /\ Len(out) = Cardinality(groups)
               /\ ToSet(out) = {[key |-> k, agg |-> GroupResult(k)] : k \in groups}
    BY <2>4, AggGroups
  <2> QED BY <2>2, <2>3, <2>4 DEF AggregatesAgree, Done
<1>2. CASE op \notin StreamAggregates
  <2>1. HashAggOK(op, left, st, out)
    BY <1>2, AggKinds DEF AggInv
  <2>2. st.phase # "thrown"
    <3>1. CASE st.phase # "init"
      <4>1. PICK b, g, n : HashAggState(op, left, st, out, st.phase, b, g, n)
        BY <2>1, <3>1, HashAggParts
      <4> QED BY <4>1 DEF HashAggState
    <3> QED BY <3>1
  <2>3. op # "streamAggregate" /\ op # "scalarStream"
    BY <1>2 DEF StreamAggregates
  <2>4. ASSUME st.phase = "done"
        PROVE  /\ Len(out) = Cardinality(groups)
               /\ ToSet(out) = {[key |-> k, agg |-> GroupResult(k)] : k \in groups}
    BY <2>3, <2>4, AggGroups
  <2> QED BY <2>2, <2>3, <2>4 DEF AggregatesAgree, Done
<1> QED BY <1>1, <1>2

(* AggInv is inductive: between two calls of Next every group is in exactly *)
(* one place, the rows returned, the group being accumulated or the table   *)
(* of the batch, or the batches not yet loaded, with what its rows so far   *)
(* amount to.                                                               *)
THEOREM AggregateInvariant == Spec => []AggInv
<1>1. AggInv /\ UNCHANGED vars => AggInv'
  BY AggKept
<1> QED BY AggInit, AggKept, PTL DEF Spec

(* AggregateExecutor, in any number of batches, returns each group once,    *)
(* with the COUNT, SUM, MIN and MAX of its rows.  StreamAggregateExecutor   *)
(* returns the same, but throws before its first row when there are two     *)
(* input rows or more and a NULL group key, and only then; without GROUP BY *)
(* and input rows it returns a tuple without columns.                       *)
THEOREM AggregationsFollowSQL == Spec => []AggregatesAgree
BY AggregateInvariant, AggResult, PTL
=============================================================================
