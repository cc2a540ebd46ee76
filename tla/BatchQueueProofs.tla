--------------------------- MODULE BatchQueueProofs ---------------------------
(***************************************************************************)
(* What happens to the entries of a queue: bisection keeps them in order,  *)
(* no member is stranded or routed out of turn, what lands is queued, and  *)
(* BatchEngine implements MergeQueue.  The invariants are those of         *)
(* BatchRefinement; each theorem names the faults it has to exclude.       *)
(***************************************************************************)
EXTENDS BatchSafetyProofs, BatchRefinement, FiniteSetTheorems

USE BoundsAssumption, ChecksAssumption, StoreAssumption, EngineAssumption

(***************************************************************************)
(* The operators of bisection.                                             *)
(***************************************************************************)

(* A set of entry ids is finite.                                           *)
LEMMA IdsFinite ==
    ASSUME NEW S \in SUBSET Ids
    PROVE  IsFiniteSet(S) /\ Cardinality(S) \in Nat /\ S \in SUBSET Nat
<1>1. IsFiniteSet(Ids)
  BY FS_Interval DEF Ids
<1>2. IsFiniteSet(S)
  BY <1>1, FS_Subset
<1>3. QED
  BY <1>2, FS_CardinalityType DEF Ids

(* A nonempty set of entry ids has a greatest element.                     *)
LEMMA Greatest ==
    ASSUME NEW S \in SUBSET Ids, S # {}
    PROVE  \E m \in S : \A e \in S : e <= m
<1> DEFINE T == {MaxEntries - e : e \in S}
<1>1. T \in SUBSET Nat /\ T # {}
  BY DEF Ids
<1>2. Least(T) \in T /\ \A y \in T : Least(T) <= y
  BY <1>1, LeastType
<1>3. PICK m \in S : Least(T) = MaxEntries - m
  BY <1>2
<1>4. \A e \in S : MaxEntries - m <= MaxEntries - e
  BY <1>2, <1>3
<1>5. QED
  BY <1>4 DEF Ids

(* The first half of a slice comes before the rest, which is not empty.    *)
LEMMA Halves ==
    ASSUME NEW S \in SUBSET Ids
    PROVE  /\ FirstHalf(S) \subseteq S
           /\ Before(FirstHalf(S), S \ FirstHalf(S))
           /\ S # {} => S \ FirstHalf(S) # {}
<1> DEFINE Under(e) == {f \in S : f < e}
           half == Cardinality(S) \div 2
<1>1. IsFiniteSet(S) /\ Cardinality(S) \in Nat /\ half \in Nat
  BY IdsFinite
<1>2. \A e \in S : IsFiniteSet(Under(e)) /\ Cardinality(Under(e)) \in Nat
  BY IdsFinite
<1>3. FirstHalf(S) = {e \in S : Cardinality(Under(e)) < half}
  BY DEF FirstHalf
<1>4. ASSUME NEW e \in FirstHalf(S), NEW f \in S \ FirstHalf(S), ~ (e < f)
      PROVE  FALSE
  <2>1. e \in S /\ f \in S /\ e \in Nat /\ f \in Nat
    BY <1>3, <1>4, IdsFinite
  <2>2. Under(f) \subseteq Under(e)
    <3>1. \A g \in S : g \in Nat
      BY DEF Ids
    <3>2. \A g \in S : g < f => g < e
      BY <1>4, <2>1, <3>1
    <3>3. QED
      BY <3>2
  <2>3. Cardinality(Under(f)) <= Cardinality(Under(e))
    BY <1>2, <2>1, <2>2, FS_Subset
  <2>4. Cardinality(Under(e)) < half /\ ~ (Cardinality(Under(f)) < half)
    BY <1>3, <1>4, <2>1
  <2>5. QED
    BY <1>1, <1>2, <2>1, <2>3, <2>4
<1>5. ASSUME S # {}
      PROVE  S \ FirstHalf(S) # {}
  <2>1. PICK m \in S : \A e \in S : e <= m
    BY <1>5, Greatest
  <2>2. Under(m) = S \ {m}
    BY <2>1, IdsFinite
  <2>3. Cardinality(Under(m)) = Cardinality(S) - 1
    BY <1>1, <2>2, FS_RemoveElement
  <2>4. Cardinality(S) # 0
    BY <1>1, <1>5, FS_EmptySet
  <2>5. ~ (Cardinality(Under(m)) < half)
    BY <1>1, <2>3, <2>4
  <2>6. QED
    BY <1>3, <2>1, <2>5
<1>6. QED
  BY <1>3, <1>4, <1>5 DEF Before

(* Pushing a slice that comes before all others keeps the stack in order,  *)
(* and so does popping the top, which comes before what is left.           *)
LEMMA StackMoves ==
    ASSUME NEW p \in Seq(SUBSET Ids), StackOrdered(p)
    PROVE  /\ StackOrdered(<<>>)
           /\ \A h \in SUBSET Ids :
                h # {} /\ Before(h, Flatten(p)) => StackOrdered(Append(p, h))
           /\ p # <<>> => /\ StackOrdered(SubSeq(p, 1, Len(p) - 1))
                          /\ Before(p[Len(p)], Flatten(SubSeq(p, 1, Len(p) - 1)))
<1>1. StackOrdered(<<>>)
  BY DEF StackOrdered
<1>2. ASSUME NEW h \in SUBSET Ids, h # {}, Before(h, Flatten(p))
      PROVE  StackOrdered(Append(p, h))
  <2> DEFINE q == Append(p, h)
             n == Len(p) + 1
  <2>1. Len(q) = n /\ q[n] = h /\ \A i \in 1 .. Len(p) : q[i] = p[i]
    OBVIOUS
  <2>2. \A i \in 1 .. Len(p) : Before(h, p[i])
    BY <1>2 DEF Before, Flatten
  <2> HIDE DEF q
  <2>3. \A i \in 1 .. n : q[i] # {}
    BY <1>2, <2>1 DEF StackOrdered
  <2>4. ASSUME NEW i \in 1 .. n, NEW j \in i + 1 .. n
        PROVE  Before(q[j], q[i])
    <3>1. i \in 1 .. Len(p) /\ q[i] = p[i]
      BY <2>1
    <3>2. CASE j = n
      BY <2>1, <2>2, <3>1, <3>2
    <3>3. CASE j # n
      BY <2>1, <3>1, <3>3 DEF StackOrdered
    <3>4. QED
      BY <3>2, <3>3
  <2>5. QED
    BY <2>1, <2>3, <2>4 DEF StackOrdered, q
<1>3. ASSUME p # <<>>
      PROVE  /\ StackOrdered(SubSeq(p, 1, Len(p) - 1))
             /\ Before(p[Len(p)], Flatten(SubSeq(p, 1, Len(p) - 1)))
  <2> DEFINE q == SubSeq(p, 1, Len(p) - 1)
  <2>1. Len(p) \in 1 .. Len(p)
    BY <1>3
  <2>2. \A i \in 1 .. Len(p) - 1 : q[i] = p[i]
    OBVIOUS
  <2>3. Len(q) = Len(p) - 1
    <3>1. ASSUME NEW n \in Nat, n <= Len(p)
          PROVE  Len(SubSeq(p, 1, n)) = n
      BY <3>1
    <3>2. Len(p) - 1 \in Nat /\ Len(p) - 1 <= Len(p)
      BY <2>1
    <3>3. QED
      BY <3>1, <3>2, Zenon
  <2> HIDE DEF q
  <2>4. StackOrdered(q)
    BY <2>1, <2>2, <2>3 DEF StackOrdered
  <2>5. \A i \in 1 .. Len(q) : Before(p[Len(p)], q[i])
    BY <2>1, <2>2, <2>3 DEF StackOrdered
  <2>6. Before(p[Len(p)], Flatten(q))
    BY <2>5 DEF Before, Flatten
  <2>7. QED
    BY <2>4, <2>6 DEF q
<1>4. QED
  BY <1>1, <1>2, <1>3

(* What is left of a stack without one of its slices.                      *)
LEMMA CutFacts ==
    ASSUME NEW p \in Seq(SUBSET Ids), NEW i \in 1 .. Len(p)
    PROVE  /\ Len(Cut(p, i)) = Len(p) - 1
           /\ \A j \in 1 .. Len(p) - 1 :
                Cut(p, i)[j] = IF j < i THEN p[j] ELSE p[j + 1]
<1> DEFINE l == SubSeq(p, 1, i - 1)
           h == SubSeq(p, i + 1, Len(p))
<1>1. /\ l \in Seq(SUBSET Ids) /\ Len(l) = i - 1
      /\ \A j \in 1 .. i - 1 : l[j] = p[j]
  OBVIOUS
<1>2. /\ h \in Seq(SUBSET Ids) /\ Len(h) = Len(p) - i
      /\ \A j \in 1 .. Len(p) - i : h[j] = p[i + j]
  OBVIOUS
<1>3. Cut(p, i) = l \o h
  BY DEF Cut
<1> HIDE DEF l, h
<1>4. Len(l \o h) = Len(p) - 1
  <2>1. Len(l \o h) = Len(l) + Len(h)
    <3>1. \A x, y \in Seq(SUBSET Ids) : Len(x \o y) = Len(x) + Len(y)
      OBVIOUS
    <3>2. QED
      BY <1>1, <1>2, <3>1, Zenon
  <2>2. Len(p) \in Nat /\ i \in Nat
    OBVIOUS
  <2>3. QED
    BY <1>1, <1>2, <2>1, <2>2
<1>5. ASSUME NEW j \in 1 .. Len(p) - 1
      PROVE  (l \o h)[j] = IF j < i THEN p[j] ELSE p[j + 1]
  <2>1. CASE j < i
    <3>1. (l \o h)[j] = l[j] /\ j \in 1 .. i - 1
      BY <1>1, <1>2, <2>1
    <3>2. QED
      BY <1>1, <2>1, <3>1
  <2>2. CASE ~ (j < i)
    <3>1. (l \o h)[j] = h[j - Len(l)] /\ j - Len(l) \in 1 .. Len(p) - i
      BY <1>1, <1>2, <2>2
    <3>2. i + (j - Len(l)) = j + 1
      BY <1>1
    <3>3. QED
      BY <1>2, <2>2, <3>1, <3>2
  <2>3. QED
    BY <2>1, <2>2
<1>6. QED
  BY <1>3, <1>4, <1>5

(* Dropping a member keeps the stack in order and loses that member only.  *)
LEMMA DropOrder ==
    ASSUME NEW p \in Seq(SUBSET Ids), StackOrdered(p), NEW e \in Ids
    PROVE  StackOrdered(Drop(p, e)) /\ Flatten(Drop(p, e)) = Flatten(p) \ {e}
<1>1. CASE \E i \in 1 .. Len(p) : p[i] = {e}
  <2>1. PICK i \in 1 .. Len(p) : p[i] = {e} /\ Drop(p, e) = Cut(p, i)
    BY <1>1, Zenon DEF Drop
  <2> DEFINE q == Cut(p, i)
             Old(j) == IF j < i THEN j ELSE j + 1
  <2>2. /\ Len(q) = Len(p) - 1
        /\ \A j \in 1 .. Len(q) : /\ Old(j) \in 1 .. Len(p) /\ Old(j) # i
                                  /\ q[j] = p[Old(j)]
    BY CutFacts
  <2>3. \A j \in 1 .. Len(q) : \A m \in j + 1 .. Len(q) : Old(m) \in Old(j) + 1 .. Len(p)
    BY <2>2
  <2>4. \A m \in 1 .. Len(p) : m # i => \E j \in 1 .. Len(q) : m = Old(j)
    <3>1. ASSUME NEW m \in 1 .. Len(p), m < i
          PROVE  m \in 1 .. Len(q) /\ m = Old(m)
      BY <2>2, <3>1
    <3>2. ASSUME NEW m \in 1 .. Len(p), m > i
          PROVE  m - 1 \in 1 .. Len(q) /\ m = Old(m - 1)
      BY <2>2, <3>2
    <3>3. \A m \in 1 .. Len(p) : m # i => m < i \/ m > i
      OBVIOUS
    <3> HIDE DEF Old, q
    <3>4. QED
      BY <3>1, <3>2, <3>3
  <2> HIDE DEF q, Old
  <2>5. \A m \in 1 .. Len(p) : m # i => e \notin p[m]
    <3>1. \A m \in 1 .. Len(p) : p[m] \subseteq Nat
      BY DEF Ids
    <3>2. ASSUME NEW m \in 1 .. Len(p), m # i, e \in p[m]
          PROVE  e < e
      BY <2>1, <3>2 DEF StackOrdered, Before
    <3>3. QED
      BY <3>2 DEF Ids
  <2>6. StackOrdered(q)
    <3>1. \A j \in 1 .. Len(q) : q[j] # {}
      BY <2>2 DEF StackOrdered
    <3>2. ASSUME NEW j \in 1 .. Len(q), NEW m \in j + 1 .. Len(q)
          PROVE  Before(q[m], q[j])
      <4>1. m \in 1 .. Len(q)
        BY <2>2
      <4>2. QED
        BY <2>2, <2>3, <4>1 DEF StackOrdered
    <3>3. QED
      BY <3>1, <3>2 DEF StackOrdered
  <2>7. Flatten(q) = Flatten(p) \ {e}
    <3>1. Flatten(q) \subseteq Flatten(p) \ {e}
      BY <2>2, <2>5 DEF Flatten
    <3>2. ASSUME NEW m \in 1 .. Len(p), NEW x \in p[m] \ {e}
          PROVE  x \in Flatten(q)
      <4>1. m # i
        BY <2>1, <3>2
      <4>2. PICK j \in 1 .. Len(q) : m = Old(j)
        BY <2>4, <4>1
      <4>3. q[j] = p[m]
        BY <2>2, <4>2
      <4>4. QED
        BY <3>2, <4>3 DEF Flatten
    <3>3. QED
      BY <3>1, <3>2 DEF Flatten
  <2>8. QED
    BY <2>1, <2>6, <2>7 DEF q
<1>2. CASE ~ \E i \in 1 .. Len(p) : p[i] = {e}
  <2>1. /\ Len(Drop(p, e)) = Len(p)
        /\ \A i \in 1 .. Len(p) : Drop(p, e)[i] = p[i] \ {e}
    BY <1>2 DEF Drop
  <2>2. StackOrdered(Drop(p, e))
    <3>1. \A i \in 1 .. Len(p) : p[i] \ {e} # {}
      BY <1>2 DEF StackOrdered
    <3>2. QED
      BY <2>1, <3>1 DEF StackOrdered, Before
  <2>3. Flatten(Drop(p, e)) = Flatten(p) \ {e}
    BY <2>1 DEF Flatten
  <2>4. QED
    BY <2>2, <2>3
<1>3. QED
  BY <1>1, <1>2

(***************************************************************************)
(* The order of the slices.                                                *)
(***************************************************************************)

(* What the edits of a row do to what it has landed.                       *)
LEMMA RowLanded ==
    ASSUME NEW r \in Row
    PROVE
      /\ \A ids : [r EXCEPT !.current = ids].landed = r.landed
      /\ \A e : [r EXCEPT !.ejected = @ \cup {e}].landed = r.landed
      /\ \A s : [r EXCEPT !.sha = s, !.state = "testing", !.late = FALSE,
                          !.builds = r.builds + 1].landed = r.landed
      /\ [r EXCEPT !.ff = 0].landed = r.landed
      /\ [r EXCEPT !.ff = @ + 1].landed = r.landed
      /\ [r EXCEPT !.landed = r.landed \cup r.current,
                   !.current = {}].landed = r.landed \cup r.current
      /\ [r EXCEPT !.pending = <<>>].landed = r.landed
      /\ \A l, p : [r EXCEPT !.pending = p, !.current = l].landed = r.landed
      /\ [r EXCEPT !.state = "forming"].landed = r.landed
      /\ [r EXCEPT !.state = "done", !.current = {}].landed = r.landed
      /\ [r EXCEPT !.late = TRUE].landed = r.landed
      /\ \A l, p : [r EXCEPT !.current = l, !.pending = p,
                             !.state = "forming"].landed = r.landed
      /\ \A e : WithoutMember(r, e).landed = r.landed
BY DEF Row, WithoutMember

(* A row in order stays in order when current shrinks ...                  *)
LEMMA OrderedLess ==
    ASSUME NEW r, NEW q, Ordered(r), q.landed = r.landed, q.pending = r.pending,
           q.current \subseteq r.current
    PROVE  Ordered(q)
BY DEF Ordered, Before

(* ... when current lands ...                                              *)
LEMMA OrderedLanded ==
    ASSUME NEW r, NEW q, Ordered(r), q.landed = r.landed \cup r.current,
           q.pending = r.pending, q.current = {}
    PROVE  Ordered(q)
BY DEF Ordered, Before

(* ... when it is split in halves ...                                      *)
LEMMA OrderedSplit ==
    ASSUME NEW r \in Row, NEW q, Ordered(r), r.current # {}, q.landed = r.landed,
           q.pending = Append(r.pending, r.current \ FirstHalf(r.current)),
           q.current = FirstHalf(r.current)
    PROVE  Ordered(q)
<1> DEFINE right == r.current \ FirstHalf(r.current)
<1>1. r.current \in SUBSET Ids /\ right \in SUBSET Ids /\ r.pending \in Seq(SUBSET Ids)
  BY DEF Row
<1>2. /\ FirstHalf(r.current) \subseteq r.current /\ right # {}
      /\ Before(FirstHalf(r.current), right)
  BY <1>1, Halves
<1>3. Flatten(q.pending) = Flatten(r.pending) \cup right
  BY <1>1, FlattenFacts
<1>4. Before(right, Flatten(r.pending))
  BY DEF Ordered, Before
<1>5. StackOrdered(q.pending)
  BY <1>1, <1>2, <1>4, StackMoves DEF Ordered
<1>6. Before(q.current, Flatten(q.pending))
  BY <1>2, <1>3 DEF Ordered, Before
<1>7. Before(q.landed, q.current \cup Flatten(q.pending))
  BY <1>2, <1>3 DEF Ordered, Before
<1>8. QED
  BY <1>5, <1>6, <1>7 DEF Ordered

(* ... when the top slice is popped ...                                    *)
LEMMA OrderedPop ==
    ASSUME NEW r \in Row, NEW q, Ordered(r), r.pending # <<>>, q.landed = r.landed,
           q.current = r.pending[Len(r.pending)],
           q.pending = SubSeq(r.pending, 1, Len(r.pending) - 1)
    PROVE  Ordered(q)
<1>1. r.pending \in Seq(SUBSET Ids)
  BY DEF Row
<1>2. /\ q.current \subseteq Flatten(r.pending)
      /\ Flatten(q.pending) \subseteq Flatten(r.pending)
  BY <1>1, FlattenFacts
<1>3. StackOrdered(q.pending) /\ Before(q.current, Flatten(q.pending))
  BY <1>1, StackMoves DEF Ordered
<1>4. Before(q.landed, q.current \cup Flatten(q.pending))
  BY <1>2 DEF Ordered, Before
<1>5. QED
  BY <1>3, <1>4 DEF Ordered

(* ... and when the stack is emptied or a member leaves.                   *)
LEMMA OrderedWithout ==
    ASSUME NEW r \in Row, Ordered(r)
    PROVE  /\ Ordered([r EXCEPT !.pending = <<>>])
           /\ \A e \in Ids : /\ Ordered(WithoutMember(r, e))
                             /\ Held(WithoutMember(r, e)) = Held(r) \ {e}
<1>1. Ordered([r EXCEPT !.pending = <<>>])
  <2>1. StackOrdered(<<>>) /\ Flatten(<<>>) = {}
    BY DEF StackOrdered, Flatten
  <2> DEFINE q == [r EXCEPT !.pending = <<>>]
  <2>2. q.landed = r.landed /\ q.current = r.current /\ q.pending = <<>>
    BY RowFields, RowLanded
  <2> HIDE DEF q
  <2>3. Ordered(q)
    BY <2>1, <2>2 DEF Ordered, Before
  <2>4. QED
    BY <2>3 DEF q
<1>2. ASSUME NEW e \in Ids
      PROVE  /\ Ordered(WithoutMember(r, e))
             /\ Held(WithoutMember(r, e)) = Held(r) \ {e}
  <2> DEFINE q == WithoutMember(r, e)
  <2>1. q.landed = r.landed /\ q.current = r.current \ {e} /\ q.pending = Drop(r.pending, e)
    <3>1. q.current = r.current \ {e} /\ q.pending = Drop(r.pending, e)
      BY RowFields
    <3>2. q.landed = r.landed
      BY RowLanded
    <3>3. QED
      BY <3>1, <3>2
  <2>2. StackOrdered(q.pending) /\ Flatten(q.pending) = Flatten(r.pending) \ {e}
    BY <2>1, DropOrder DEF Row, Ordered
  <2> HIDE DEF q
  <2>3. Ordered(q)
    BY <2>1, <2>2 DEF Ordered, Before
  <2>4. Held(q) = Held(r) \ {e}
    BY <2>1, <2>2 DEF Held
  <2>5. QED
    BY <2>3, <2>4 DEF q
<1>3. QED
  BY <1>1, <1>2

(* A batch that has not done anything yet is in order.                     *)
LEMMA OrderedNew ==
    Ordered(NoRow) /\ \A ids : Ordered(NewRow(ids))
<1>1. Flatten(<<>>) = {}
  BY DEF Flatten
<1>2. QED
  BY <1>1 DEF NoRow, NewRow, Ordered, Before, StackOrdered

(* HandleFail works on a row in order and leaves its copy in order.        *)
LEMMA OrderedFail ==
    ASSUME NEW r \in Row, Ordered(r), r.current # {}, NEW w, NEW k, HandleFail(w, k, r)
    PROVE  Ordered(b')
<1> DEFINE right == r.current \ FirstHalf(r.current)
           q == [r EXCEPT !.pending = Append(r.pending, right),
                          !.current = FirstHalf(r.current)]
<1>1. b' \in {r, [r EXCEPT !.pending = <<>>], q}
  BY DEF HandleFail
<1>2. /\ q.landed = r.landed /\ q.pending = Append(r.pending, right)
      /\ q.current = FirstHalf(r.current)
  <2>1. q.pending = Append(r.pending, right) /\ q.current = FirstHalf(r.current)
    BY RowFields
  <2>2. q.landed = r.landed
    BY RowLanded
  <2>3. QED
    BY <2>1, <2>2
<1>3. Ordered(q)
  BY <1>2, OrderedSplit
<1>4. QED
  BY <1>1, <1>3, OrderedWithout

(* The operation keeps its copy of the row and the row in order.           *)
LEMMA OrderedOperation ==
    ASSUME TypeOK, OneLive, OrderInv, Operation
    PROVE  Ordered(b') /\ \A k \in BatchIds : Ordered(rows'[k])
<1>1. b \in Row /\ Ordered(b) /\ \A k \in BatchIds : rows[k] \in Row /\ Ordered(rows[k])
  BY DEF TypeOK, EngineTypeOK, OpTypeOK, StoreTypeOK, OrderInv
<1>2. CASE SaveTesting \/ Rebuild \/ NextSlice \/ Finish
  <2>1. PICK r : rows' = [rows EXCEPT ![bid] = r] /\ b' \in {r, NoRow} /\ Ordered(r)
    <3>1. CASE SaveTesting
      <4> DEFINE q == [b EXCEPT !.sha = built, !.state = "testing", !.late = FALSE,
                                !.builds = b.builds + 1]
      <4>1. q.current = b.current /\ q.pending = b.pending
        BY <1>1, RowFields
      <4>2. q.landed = b.landed
        BY <1>1, RowLanded
      <4>3. Ordered(q)
        <5> HIDE DEF q
        <5>1. QED
          BY <1>1, <4>1, <4>2, OrderedLess
      <4>4. rows' = [rows EXCEPT ![bid] = q] /\ b' = q
        BY <3>1 DEF SaveTesting, Goto
      <4>5. QED
        BY <4>3, <4>4
    <3>2. CASE Rebuild
      <4> DEFINE q == [b EXCEPT !.state = "forming"]
      <4>1. q.current = b.current /\ q.pending = b.pending
        BY <1>1, RowFields
      <4>2. q.landed = b.landed
        BY <1>1, RowLanded
      <4>3. Ordered(q)
        <5> HIDE DEF q
        <5>1. QED
          BY <1>1, <4>1, <4>2, OrderedLess
      <4>4. rows' = [rows EXCEPT ![bid] = q] /\ b' = q
        BY <3>2 DEF Rebuild, Goto
      <4>5. QED
        BY <4>3, <4>4
    <3>3. CASE NextSlice
      <4> DEFINE n == Len(b.pending)
                 q == [b EXCEPT !.current = b.pending[n],
                                !.pending = SubSeq(b.pending, 1, n - 1),
                                !.state = "forming"]
      <4>1. q.current = b.pending[n] /\ q.pending = SubSeq(b.pending, 1, n - 1)
        BY <1>1, RowFields
      <4>2. q.landed = b.landed
        BY <1>1, RowLanded
      <4>3. Ordered(q)
        BY <1>1, <3>3, <4>1, <4>2, OrderedPop DEF NextSlice
      <4>4. rows' = [rows EXCEPT ![bid] = q] /\ b' = q
        BY <3>3 DEF NextSlice, Goto
      <4>5. QED
        BY <4>3, <4>4
    <3>4. CASE Finish
      <4> DEFINE q == [b EXCEPT !.state = "done", !.current = {}]
      <4>1. q.current = {} /\ q.pending = b.pending
        BY <1>1, RowFields
      <4>2. q.landed = b.landed
        BY <1>1, RowLanded
      <4>3. Ordered(q)
        <5> HIDE DEF q
        <5>1. QED
          BY <1>1, <4>1, <4>2, OrderedLess
      <4>4. rows' = [rows EXCEPT ![bid] = q] /\ b' = NoRow
        BY <3>4 DEF Finish, Release
      <4>5. QED
        BY <4>3, <4>4
    <3>5. QED
      BY <1>2, <3>1, <3>2, <3>3, <3>4
  <2>2. QED
    BY <1>1, <2>1, OrderedNew DEF TypeOK, StoreTypeOK
<1>3. CASE ~ (SaveTesting \/ Rebuild \/ NextSlice \/ Finish)
  <2>1. rows' = rows
    BY <1>3 DEF Operation, storeVars, Build, EjectOne, KeepOne, Sorted, StampOne,
       AllStamped, ClearLedger, EvaluatePass, EvaluateWait, EvaluateFail, FastForward,
       FastForwardRaced, FastForwardDenied, LandOne, Settle, ReconcileDone,
       ReconcileForming, ReconcileTesting
  <2>2. ASSUME \/ Build \/ KeepOne \/ StampOne \/ AllStamped \/ ClearLedger
               \/ EvaluatePass \/ EvaluateWait \/ FastForwardDenied \/ LandOne
               \/ ReconcileDone
               \/ \E k \in BatchIds : ReconcileForming(k) \/ ReconcileTesting(k)
        PROVE  Ordered(b')
    <3>1. b' = b \/ b' = NoRow \/ \E k \in BatchIds : b' = rows[k]
      BY <2>2 DEF Build, KeepOne, StampOne, AllStamped, ClearLedger, Release,
         EvaluatePass, Goto, EvaluateWait, FastForwardDenied, EjectAll, LandOne,
         ReconcileDone, ReconcileForming, ReconcileTesting, Enter
    <3>2. QED
      BY <1>1, <3>1, OrderedNew
  <2>3. ASSUME EjectOne \/ FastForward \/ FastForwardRaced
        PROVE  Ordered(b')
    <3>1. \/ \E e : b' = [b EXCEPT !.ejected = @ \cup {e}]
          \/ b' = [b EXCEPT !.ff = 0]
          \/ b' = [b EXCEPT !.ff = @ + 1]
      BY <2>3 DEF EjectOne, FastForward, FastForwardRaced, Goto, EjectAll
    <3>2. /\ b'.landed = b.landed /\ b'.current = b.current
          /\ b'.pending = b.pending
      BY <1>1, <3>1 DEF Row
    <3>3. QED
      BY <1>1, <3>2, OrderedLess
  <2>4. ASSUME Sorted
        PROVE  Ordered(b')
    <3>1. b' = [b EXCEPT !.current = keep] /\ keep \subseteq b.current
      BY <2>4 DEF Sorted, OrderInv
    <3>2. b'.current = keep /\ b'.pending = b.pending
      BY <1>1, <3>1, RowFields
    <3>3. b'.landed = b.landed
      BY <1>1, <3>1, RowLanded
    <3>4. QED
      BY <1>1, <3>1, <3>2, <3>3, OrderedLess
  <2>5. ASSUME Settle
        PROVE  Ordered(b')
    <3>1. b' = [b EXCEPT !.landed = b.landed \cup b.current, !.current = {}]
      BY <2>5 DEF Settle, Goto
    <3>2. b'.current = {} /\ b'.pending = b.pending
      BY <1>1, <3>1, RowFields
    <3>3. b'.landed = b.landed \cup b.current
      BY <1>1, <3>1, RowLanded
    <3>4. QED
      BY <1>1, <3>2, <3>3, OrderedLanded
  <2>6. ASSUME EvaluateFail
        PROVE  Ordered(b')
    <3>1. HandleFail(by, bid, b) /\ b.current # {}
      BY <2>6 DEF EvaluateFail, OrderInv
    <3>2. QED
      BY <1>1, <3>1, OrderedFail
  <2>7. Ordered(b')
    BY <1>3, <2>2, <2>3, <2>4, <2>5, <2>6 DEF Operation
  <2>8. QED
    BY <1>1, <2>1, <2>7
<1>4. QED
  BY <1>2, <1>3

(* Every other step does, too.                                             *)
LEMMA OrderedStep ==
    ASSUME TypeOK, OneLive, OrderInv, Next
    PROVE  Ordered(b') /\ \A k \in BatchIds : Ordered(rows'[k])
<1>1. /\ b \in Row /\ Ordered(b)
      /\ \A k \in BatchIds : rows[k] \in Row /\ Ordered(rows[k])
      /\ rows \in [BatchIds -> Row]
  BY DEF TypeOK, EngineTypeOK, OpTypeOK, StoreTypeOK, OrderInv
<1>2. CASE EntryPoint
  <2>1. ASSUME NEW k \in BatchIds, FormBatch(k)
        PROVE  Ordered(b') /\ \A j \in BatchIds : Ordered(rows'[j])
    BY <1>1, <2>1, OrderedNew DEF FormBatch, Enter
  <2>2. ASSUME NEW k \in BatchIds, HandleTimeout(k)
        PROVE  Ordered(b') /\ \A j \in BatchIds : Ordered(rows'[j])
    <3>1. HandleFail("poller", k, rows[k]) /\ rows' = rows /\ rows[k].current # {}
      BY <2>2 DEF HandleTimeout, OrderInv, Testing
    <3>2. QED
      BY <1>1, <3>1, OrderedFail
  <2>3. ASSUME RemovedPending \/ RemovedCurrent
        PROVE  Ordered(b') /\ \A j \in BatchIds : Ordered(rows'[j])
    <3> DEFINE q == WithoutMember(rows[removing.batch], removing.id)
    <3>1. removing.batch \in BatchIds /\ removing.id \in Ids
      BY <2>3 DEF RemovedPending, RemovedCurrent, TypeOK, EngineTypeOK, Removal
    <3>2. Ordered(q)
      BY <1>1, <3>1, OrderedWithout
    <3>3. \/ b' = b /\ rows' = [rows EXCEPT ![removing.batch] = q]
          \/ b' = q /\ rows' = rows
      BY <2>3 DEF RemovedPending, RemovedCurrent, Enter, opVars, storeVars
    <3> HIDE DEF q
    <3>4. QED
      BY <1>1, <3>2, <3>3
  <2>4. ASSUME \/ RemovedTooLate
               \/ \E k \in BatchIds : RetryForming(k)
               \/ \E c \in calls : DropCheck(c) \/ SaveCheck(c)
        PROVE  Ordered(b') /\ \A j \in BatchIds : Ordered(rows'[j])
    <3>1. rows' = rows
      BY <2>4 DEF RemovedTooLate, RetryForming, DropCheck, SaveCheck, storeVars
    <3>2. b' = b \/ \E k \in BatchIds : b' = rows[k]
      BY <2>4 DEF RemovedTooLate, RetryForming, DropCheck, SaveCheck, Enter, opVars,
         TypeOK, EngineTypeOK, Call
    <3>3. QED
      BY <1>1, <3>1, <3>2
  <2>5. QED
    BY <1>2, <2>1, <2>2, <2>3, <2>4 DEF EntryPoint
<1>3. CASE World \/ Environment \/ Fault
  <2>1. b' \in {b, NoRow}
    BY <1>3 DEF World, Environment, Fault, Release, Enqueue, RemoveEntry, PromoteHead,
       Webhook, PollChecks, ClockPasses, Abort, AbortRemoval, Crash, opVars
  <2>2. CASE rows' = rows
    BY <1>1, <2>1, <2>2, OrderedNew
  <2>3. ASSUME NEW k \in BatchIds, ClockPasses(k)
        PROVE  \A j \in BatchIds : Ordered(rows'[j])
    <3> DEFINE q == [rows[k] EXCEPT !.late = TRUE]
    <3>1. q.current = rows[k].current /\ q.pending = rows[k].pending
      BY <1>1, RowFields
    <3>2. q.landed = rows[k].landed
      BY <1>1, RowLanded
    <3>3. rows' = [rows EXCEPT ![k] = q]
      BY <2>3 DEF ClockPasses
    <3> HIDE DEF q
    <3>4. Ordered(q)
      BY <1>1, <3>1, <3>2, OrderedLess
    <3>5. QED
      BY <1>1, <3>3, <3>4
  <2>4. rows' = rows \/ \E k \in BatchIds : ClockPasses(k)
    BY <1>3 DEF World, Environment, Fault, Enqueue, RemoveEntry, PromoteHead,
       Webhook, PollChecks, Abort, AbortRemoval, Crash, storeVars
  <2>5. QED
    BY <1>1, <2>1, <2>2, <2>3, <2>4, OrderedNew
<1>4. QED
  BY <1>2, <1>3, OrderedOperation DEF Next

(***************************************************************************)
(* What the operation is about to do fits its copy of the row.             *)
(***************************************************************************)

(* How a batch comes to be testing: Build has saved it, or it was testing  *)
(* the same commit for the same members before.                            *)
LEMMA TestingMoves ==
    ASSUME TypeOK, OneLive, Next, NEW k \in BatchIds, Testing(k)'
    PROVE  \/ /\ SaveTesting /\ k = bid /\ rows'[k] = b'
              /\ b'.sha = built /\ b'.current = b.current
           \/ /\ ~ SaveTesting /\ Testing(k)
              /\ rows'[k].sha = rows[k].sha /\ rows'[k].current = rows[k].current
              /\ RemovedPending \/ rows'[k].pending = rows[k].pending
<1>1. rows[k] \in Row /\ b \in Row /\ rows \in [BatchIds -> Row]
  BY DEF TypeOK, StoreTypeOK, EngineTypeOK, OpTypeOK
<1>2. CASE rows' = rows /\ ~ SaveTesting
  BY <1>2 DEF Testing
<1>3. CASE SaveTesting
  <2>1. bid \in BatchIds /\ Live(bid)
    BY <1>3 DEF SaveTesting, OneLive
  <2> DEFINE q == [b EXCEPT !.sha = built, !.state = "testing", !.late = FALSE,
                            !.builds = b.builds + 1]
  <2>2. q.sha = built /\ q.current = b.current
    BY <1>1, RowFields
  <2>3. rows' = [rows EXCEPT ![bid] = q] /\ b' = q
    BY <1>3 DEF SaveTesting, Goto
  <2>4. k # bid => Testing(k)
    BY <1>1, <2>1, <2>3 DEF Testing
  <2>5. k = bid
    BY <2>1, <2>4 DEF OneLive, Live, Testing
  <2> HIDE DEF q
  <2>6. QED
    BY <1>1, <1>3, <2>1, <2>2, <2>3, <2>5
<1>4. CASE Rebuild \/ NextSlice \/ Finish
  <2>1. bid \in BatchIds /\ Live(bid) /\ ~ SaveTesting
    BY <1>4 DEF Rebuild, NextSlice, Finish, OneLive, SaveTesting
  <2>2. /\ [b EXCEPT !.state = "forming"].state = "forming"
        /\ [b EXCEPT !.state = "done", !.current = {}].state = "done"
        /\ \A l, p : [b EXCEPT !.current = l, !.pending = p,
                               !.state = "forming"].state = "forming"
    BY <1>1 DEF Row
  <2>3. /\ rows'[bid].state \in {"forming", "done"}
        /\ k # bid => rows'[k] = rows[k]
    <3>1. ASSUME NEW r, rows' = [rows EXCEPT ![bid] = r]
          PROVE  rows'[bid] = r /\ (k # bid => rows'[k] = rows[k])
      BY <1>1, <2>1, <3>1
    <3>2. CASE Rebuild
      BY <2>2, <3>1, <3>2 DEF Rebuild
    <3>3. CASE NextSlice
      <4>1. PICK l, p : rows' = [rows EXCEPT ![bid] =
                           [b EXCEPT !.current = l, !.pending = p, !.state = "forming"]]
        BY <3>3 DEF NextSlice
      <4> DEFINE q == [b EXCEPT !.current = l, !.pending = p, !.state = "forming"]
      <4>2. rows' = [rows EXCEPT ![bid] = q] /\ q.state = "forming"
        BY <1>1, <4>1, RowFields
      <4> HIDE DEF q
      <4>3. QED
        BY <3>1, <4>2
    <3>4. CASE Finish
      BY <2>2, <3>1, <3>4 DEF Finish
    <3>5. QED
      BY <1>4, <3>2, <3>3, <3>4
  <2>4. QED
    BY <2>1, <2>3 DEF Testing
<1>5. CASE RemovedPending
  <2>1. removing.batch \in BatchIds /\ removing.id \in Ids /\ ~ SaveTesting
    BY <1>5 DEF RemovedPending, TypeOK, EngineTypeOK, Removal, SaveTesting
  <2> DEFINE q == WithoutMember(rows[removing.batch], removing.id)
  <2>2. /\ q.sha = rows[removing.batch].sha /\ q.state = rows[removing.batch].state
        /\ q.current = rows[removing.batch].current \ {removing.id}
    BY <1>1, <2>1, RowFields DEF TypeOK, StoreTypeOK
  <2>3. rows' = [rows EXCEPT ![removing.batch] = q]
        /\ removing.id \notin rows[removing.batch].current
    BY <1>5 DEF RemovedPending
  <2>4. q.current = rows[removing.batch].current
    BY <2>2, <2>3
  <2> HIDE DEF q
  <2>5. QED
    BY <1>1, <1>5, <2>1, <2>2, <2>3, <2>4 DEF Testing
<1>6. ASSUME NEW j \in BatchIds, FormBatch(j)
      PROVE  ~ SaveTesting /\ Testing(k) /\ rows'[k] = rows[k]
  <2>1. rows' = [rows EXCEPT ![j] = NewRow(TakeQueuedHead)] /\ ~ SaveTesting
    BY <1>6 DEF FormBatch, SaveTesting
  <2>2. NewRow(TakeQueuedHead).state = "forming"
    BY DEF NewRow, NoRow
  <2>3. QED
    BY <1>1, <2>1, <2>2 DEF Testing
<1>7. ASSUME NEW j \in BatchIds, ClockPasses(j)
      PROVE  /\ ~ SaveTesting /\ Testing(k) /\ rows'[k].sha = rows[k].sha
             /\ rows'[k].current = rows[k].current /\ rows'[k].pending = rows[k].pending
  <2>1. ~ SaveTesting
    BY <1>7 DEF SaveTesting, Goto, ClockPasses, opVars
  <2> DEFINE q == [rows[j] EXCEPT !.late = TRUE]
  <2>2. /\ q.sha = rows[j].sha /\ q.current = rows[j].current
        /\ q.pending = rows[j].pending /\ q.state = rows[j].state
    BY <1>1, RowFields
  <2>3. rows' = [rows EXCEPT ![j] = q]
    BY <1>7 DEF ClockPasses
  <2> HIDE DEF q
  <2>4. QED
    BY <1>1, <2>1, <2>2, <2>3 DEF Testing
<1>8. QED
  BY <1>2, <1>3, <1>4, <1>5, <1>6, <1>7, RowsFrame

(* Where the fast-forwarded operation comes from.                          *)
LEMMA LandFrame ==
    ASSUME Next, pc' = "land"
    PROVE  opVars' = opVars \/ FastForward \/ LandOne
<1>1. CASE Operation
  BY <1>1 DEF Operation, Release, Build, EjectOne, KeepOne, Sorted, SaveTesting, Goto,
     StampOne, AllStamped, ClearLedger, EvaluatePass, EvaluateWait, EvaluateFail,
     HandleFail, FastForwardRaced, EjectAll, FastForwardDenied, Settle, Rebuild,
     NextSlice, Finish, ReconcileDone, ReconcileForming, ReconcileTesting, Enter
<1>2. CASE EntryPoint
  BY <1>2 DEF EntryPoint, FormBatch, RetryForming, HandleTimeout, HandleFail, DropCheck,
     SaveCheck, Enter, RemovedTooLate, RemovedPending, RemovedCurrent
<1>3. CASE World \/ Environment \/ Fault
  BY <1>3 DEF World, Environment, Fault, Enqueue, RemoveEntry, PromoteHead,
     Webhook, PollChecks, ClockPasses, Abort, Release, AbortRemoval, Crash
<1>4. QED
  BY <1>1, <1>2, <1>3 DEF Next

(* The parts of OrderInv other than the order itself.                      *)
LEMMA OrderStep ==
    ASSUME IInv, OrderInv, Next
    PROVE  OrderInv'
<1>0. /\ TypeOK /\ OneLive /\ BuildTracked /\ TestingBuilt /\ ShasBorn /\ TypeOK'
      /\ b \in Row /\ rows \in [BatchIds -> Row]
      /\ todo \subseteq Ids
  BY TypeStep DEF IInv, TypeOK, EngineTypeOK, OpTypeOK, StoreTypeOK
<1>1. Ordered(b') /\ \A k \in BatchIds : Ordered(rows'[k])
  BY <1>0, OrderedStep
<1>2. ASSUME pc' = "sort"
      PROVE  /\ keep' \cup (todo' \ out') \subseteq b'.current
             /\ todo' \subseteq b'.current \/ b'.pending = <<>>
  <2>1. CASE opVars' = opVars
    BY <1>2, <2>1 DEF opVars, OrderInv
  <2>2. CASE Build
    BY <2>2 DEF Build
  <2>3. CASE EjectOne
    <3>1. b'.current = b.current /\ b'.pending = b.pending
      BY <1>0, <2>3 DEF EjectOne, Row
    <3>2. QED
      BY <2>3, <3>1 DEF EjectOne, OrderInv
  <2>4. CASE KeepOne
    <3>1. Least(todo) \in todo
      BY <1>0, <2>4, TodoLeast DEF KeepOne
    <3>2. QED
      BY <2>4, <3>1 DEF KeepOne, OrderInv
  <2>5. CASE FastForwardRaced
    <3>1. PICK r : r = [b EXCEPT !.ff = @ + 1]
      OBVIOUS
    <3>2. r.current = b.current
      BY <1>0, <3>1 DEF Row
    <3>3. EjectAll(r, r.current)
      BY <1>2, <2>5, <3>1 DEF FastForwardRaced, Goto
    <3>4. QED
      BY <3>3 DEF EjectAll
  <2>6. CASE FastForwardDenied
    BY <2>6 DEF FastForwardDenied, EjectAll
  <2>7. ASSUME NEW r \in Row, NEW w, NEW k, HandleFail(w, k, r)
        PROVE  /\ keep' \cup (todo' \ out') \subseteq b'.current
               /\ todo' \subseteq b'.current \/ b'.pending = <<>>
    <3>1. keep' = {} /\ todo' = out'
      BY <1>2, <2>7 DEF HandleFail
    <3>2. [r EXCEPT !.pending = <<>>].pending = <<>>
      BY DEF Row
    <3>3. \/ b'.pending = <<>>
          \/ b' = r /\ todo' = r.current \cap Existing
      BY <1>2, <2>7, <3>2 DEF HandleFail
    <3>4. QED
      BY <3>1, <3>3
  <2>8. CASE EvaluateFail \/ \E k \in BatchIds : HandleTimeout(k)
    BY <1>0, <2>7, <2>8 DEF EvaluateFail, HandleTimeout
  <2>9. QED
    BY <1>2, <2>1, <2>2, <2>3, <2>4, <2>5, <2>6, <2>8, OpFrame DEF Sorted, SaveTesting,
       Goto, StampOne, AllStamped, EvaluatePass, SaveCheck, Enter, ReconcileTesting
<1>3. ASSUME pc' \in {"save", "eval", "pass"}
      PROVE  b'.current # {}
  <2>1. CASE opVars' = opVars
    BY <1>3, <2>1 DEF opVars, OrderInv
  <2>2. CASE Sorted
    <3>1. [b EXCEPT !.current = keep].current = keep
      BY <1>0 DEF Row
    <3>2. QED
      BY <1>3, <2>2, <3>1 DEF Sorted
  <2>3. ASSUME NEW c \in calls, SaveCheck(c)
        PROVE  b'.current # {}
    <3>1. c.batch \in BatchIds /\ Testing(c.batch)
      BY <1>0, <2>3 DEF SaveCheck, Current, Testing, TypeOK, EngineTypeOK, Call
    <3>2. b' = rows[c.batch]
      BY <2>3 DEF SaveCheck, Enter
    <3>3. QED
      BY <3>1, <3>2 DEF OrderInv
  <2>4. CASE EvaluatePass
    BY <2>4 DEF EvaluatePass, Goto, OrderInv
  <2>5. QED
    BY <1>3, <2>1, <2>2, <2>3, <2>4, OpFrame DEF SaveTesting, Goto, StampOne, AllStamped,
       Enter, ReconcileTesting
<1>4. ASSUME pc' \in {"stamp", "restamp", "land"}
      PROVE  todo' \subseteq b'.current
  <2>1. CASE opVars' = opVars
    BY <1>4, <2>1 DEF opVars, OrderInv
  <2>2. CASE SaveTesting
    <3>1. [b EXCEPT !.sha = built, !.state = "testing", !.late = FALSE,
                    !.builds = b.builds + 1].current = b.current
      BY <1>0, RowFields
    <3>2. QED
      BY <2>2, <3>1 DEF SaveTesting, Goto
  <2>3. CASE StampOne \/ LandOne
    BY <1>4, <2>3 DEF StampOne, LandOne, OrderInv
  <2>4. ASSUME NEW k \in BatchIds, ReconcileTesting(k)
        PROVE  todo' \subseteq b'.current
    BY <2>4 DEF ReconcileTesting, Enter
  <2>5. CASE FastForward
    <3>1. [b EXCEPT !.ff = 0].current = b.current
      BY <1>0, RowFields
    <3>2. QED
      BY <2>5, <3>1 DEF FastForward, Goto
  <2>6. QED
    BY <1>4, <2>1, <2>2, <2>3, <2>4, <2>5, OpFrame, LandFrame DEF Sorted, AllStamped,
       EvaluatePass, Goto, SaveCheck, Enter
<1>5. ASSUME NEW k \in BatchIds, Testing(k)'
      PROVE  rows'[k].current # {} /\ rows'[k].current = commits'[rows'[k].sha].ids
  <2>1. CASE SaveTesting /\ k = bid /\ rows'[k] = b' /\ b'.sha = built /\ b'.current = b.current
    <3>1. built # NoSha /\ b.current = commits[built].ids /\ b.current # {}
      BY <1>0, <2>1 DEF SaveTesting, BuildTracked, OrderInv
    <3>2. commits' = commits
      BY <2>1 DEF SaveTesting, forgeVars
    <3>3. QED
      BY <2>1, <3>1, <3>2
  <2>2. CASE Testing(k) /\ rows'[k].sha = rows[k].sha /\ rows'[k].current = rows[k].current
    <3>1. rows[k].current # {} /\ rows[k].current = commits[rows[k].sha].ids
      BY <2>2 DEF OrderInv
    <3>2. commits'[rows[k].sha] = commits[rows[k].sha]
      BY <1>0, <2>2, CommitStable, ShasNat DEF ShasBorn, TestingBuilt
    <3>3. QED
      BY <2>2, <3>1, <3>2
  <2>3. QED
    BY <1>0, <1>5, <2>1, <2>2, TestingMoves
<1>6. ASSUME pc' \in {"eval", "pass", "stamp", "clear", "restamp"}
      PROVE  Testing(bid)' /\ SameBuild(rows'[bid'], b')
  <2>1. CASE opVars' = opVars
    <3>1. /\ bid' = bid /\ b' = b /\ bid \in BatchIds /\ pc # "idle"
          /\ Testing(bid) /\ SameBuild(rows[bid], b)
      BY <1>0, <1>6, <2>1 DEF opVars, OrderInv, OneLive
    <3>2. rows' = rows \/ \E k \in BatchIds : ClockPasses(k)
      BY <1>6, <2>1, <3>1, RowsFrame DEF opVars, SaveTesting, Rebuild, NextSlice, Finish,
         Goto, Release, RemovedPending, FormBatch, Enter
    <3>3. ASSUME NEW k \in BatchIds, ClockPasses(k)
          PROVE  /\ rows'[bid].sha = rows[bid].sha
                 /\ rows'[bid].current = rows[bid].current
                 /\ rows'[bid].pending = rows[bid].pending
                 /\ rows'[bid].state = rows[bid].state
      BY <1>0, <3>1, <3>3 DEF ClockPasses, Row
    <3>4. QED
      BY <3>1, <3>2, <3>3 DEF SameBuild, Testing
  <2>2. CASE SaveTesting
    <3>1. bid \in BatchIds /\ bid' = bid
      BY <1>0, <2>2 DEF SaveTesting, OneLive, Goto
    <3>2. rows'[bid] = b'
      BY <1>0, <2>2, <3>1 DEF SaveTesting, Goto
    <3>3. b'.state = "testing"
      BY <1>0, <2>2, RowFields DEF SaveTesting, Goto
    <3>4. QED
      BY <3>1, <3>2, <3>3 DEF SameBuild, Testing
  <2>3. CASE StampOne \/ AllStamped \/ EvaluatePass
    <3>1. bid' = bid /\ b' = b /\ rows' = rows
      BY <2>3 DEF StampOne, AllStamped, EvaluatePass, Goto, storeVars
    <3>2. Testing(bid) /\ SameBuild(rows[bid], b)
      BY <2>3 DEF StampOne, AllStamped, EvaluatePass, OrderInv
    <3>3. QED
      BY <3>1, <3>2 DEF SameBuild, Testing
  <2>4. ASSUME NEW c \in calls, SaveCheck(c)
        PROVE  Testing(bid)' /\ SameBuild(rows'[bid'], b')
    BY <2>4 DEF SaveCheck, Current, Enter, Testing, SameBuild
  <2>5. ASSUME NEW k \in BatchIds, ReconcileTesting(k)
        PROVE  Testing(bid)' /\ SameBuild(rows'[bid'], b')
    BY <2>5 DEF ReconcileTesting, Enter, Testing, SameBuild, storeVars
  <2>6. QED
    BY <1>6, <2>1, <2>2, <2>3, <2>4, <2>5, OpFrame DEF Sorted
<1>7. QED
  BY <1>1, <1>2, <1>3, <1>4, <1>5, <1>6 DEF OrderInv, Testing

(* A batch in order is what BisectionKeepsOrder asks for.                  *)
LEMMA OrderMeant ==
    ASSUME TypeOK, OrderInv
    PROVE  BisectionKeepsOrder
<1> SUFFICES ASSUME NEW k \in BatchIds
             PROVE  LET r == rows[k]
                    IN  /\ \A e \in r.landed, f \in r.current \cup Flatten(r.pending) : e < f
                        /\ \A i \in 1 .. Len(r.pending) :
                             /\ r.pending[i] # {}
                             /\ \A e \in r.pending[i] :
                                  /\ \A f \in r.current : f < e
                                  /\ \A j \in i + 1 .. Len(r.pending) :
                                       \A f \in r.pending[j] : f < e
  BY DEF BisectionKeepsOrder
<1>1. Ordered(rows[k])
  BY DEF OrderInv
<1>2. \A i \in 1 .. Len(rows[k].pending) :
          rows[k].pending[i] \subseteq Flatten(rows[k].pending)
  BY DEF Flatten
<1>3. QED
  BY <1>1, <1>2 DEF Ordered, StackOrdered, Before

(* The initial state satisfies OrderInv.                                   *)
LEMMA OrderInit == Init => OrderInv
<1> SUFFICES ASSUME Init PROVE OrderInv
  OBVIOUS
<1>1. b = NoRow /\ pc = "idle" /\ \A k \in BatchIds : rows[k] = NoRow
  BY DEF Init, StoreInit
<1>2. \A k \in BatchIds : ~ Testing(k)
  BY <1>1 DEF Testing, NoRow
<1>3. Ordered(b) /\ \A k \in BatchIds : Ordered(rows[k])
  BY <1>1, OrderedNew
<1>4. QED
  BY <1>1, <1>2, <1>3 DEF OrderInv

(* OrderInv is an invariant, whatever faults happen.                       *)
THEOREM OrderCorrect == Spec => []OrderInv
<1>1. IInv /\ OrderInv /\ [Next]_vars => OrderInv'
  <2>1. ASSUME IInv, OrderInv, UNCHANGED vars
        PROVE  OrderInv'
    BY <2>1 DEF OrderInv, Ordered, SameBuild, Testing, vars, forgeVars, storeVars, opVars
  <2>2. QED
    BY <2>1, OrderStep
<1>2. QED
  BY <1>1, OrderInit, Invariant, PTL DEF Spec

(* Bisection keeps FIFO order in every batch, whatever faults happen.      *)
THEOREM OrderKept == Spec => []BisectionKeepsOrder
<1>1. IInv /\ OrderInv => BisectionKeepsOrder
  BY OrderMeant DEF IInv
<1>2. QED
  BY <1>1, Invariant, OrderCorrect, PTL

(***************************************************************************)
(* The entries the operation under way will still see to.                  *)
(***************************************************************************)

(* Popping loses no entry, and neither does splitting.                     *)
LEMMA FlattenPop ==
    ASSUME NEW p \in Seq(SUBSET Ids), p # <<>>
    PROVE  Flatten(p) = p[Len(p)] \cup Flatten(SubSeq(p, 1, Len(p) - 1))
<1>1. Len(p) \in 1 .. Len(p)
  OBVIOUS
<1>2. \A i \in 1 .. Len(p) - 1 : SubSeq(p, 1, Len(p) - 1)[i] = p[i]
  OBVIOUS
<1>3. Len(SubSeq(p, 1, Len(p) - 1)) = Len(p) - 1
  <2>1. ASSUME NEW n \in Nat, n <= Len(p)
        PROVE  Len(SubSeq(p, 1, n)) = n
    BY <2>1
  <2>2. Len(p) - 1 \in Nat /\ Len(p) - 1 <= Len(p)
    BY <1>1
  <2>3. QED
    BY <2>1, <2>2, Zenon
<1>4. 1 .. Len(p) = (1 .. Len(p) - 1) \cup {Len(p)}
  BY <1>1
<1>5. QED
  BY <1>2, <1>3, <1>4 DEF Flatten

(* HandleFail passes on all the entries of its row that exist.             *)
LEMMA FailWanted ==
    ASSUME TypeOK, NEW r \in Row, NEW w, NEW k, HandleFail(w, k, r)
    PROVE  /\ pc' \in {"sort", "rebuild"} /\ bid' = k
           /\ Wanted' \subseteq Held(r)
           /\ Held(r) \cap Existing \subseteq Wanted'
           /\ \/ Flatten(b'.pending) \subseteq Flatten(r.pending)
              \/ /\ Flatten(b'.pending) =
                      Flatten(r.pending) \cup (r.current \ FirstHalf(r.current))
                 /\ \/ entries' = Unrouted(r.current \ FirstHalf(r.current))
                    \/ "unroute" \in Faults
<1> DEFINE right == r.current \ FirstHalf(r.current)
           q == [r EXCEPT !.pending = Append(r.pending, right),
                          !.current = FirstHalf(r.current)]
           c == [r EXCEPT !.pending = <<>>]
<1>1. /\ r.pending \in Seq(SUBSET Ids) /\ r.current \in SUBSET Ids
      /\ right \in SUBSET Ids /\ FirstHalf(r.current) \subseteq r.current
  BY DEF Row, FirstHalf
<1>2. /\ q.current = FirstHalf(r.current) /\ q.pending = Append(r.pending, right)
      /\ c.current = r.current /\ c.pending = <<>>
  BY RowFields
<1>3. Flatten(q.pending) = Flatten(r.pending) \cup right /\ Flatten(c.pending) = {}
  BY <1>1, <1>2, FlattenFacts
<1> HIDE DEF q, c
<1>4. CASE pc' = "sort"
  <2>1. bid' = k /\ keep' = {}
    BY DEF HandleFail
  <2>2. \/ b' = r /\ todo' = r.current \cap Existing
        \/ b' = c /\ todo' = Held(r) \cap Existing
    BY <1>4 DEF HandleFail, Held, c
  <2>3. Wanted' = Flatten(b'.pending) \cup todo'
    BY <1>4, <2>1 DEF Wanted
  <2>4. QED
    BY <1>3, <1>4, <2>1, <2>2, <2>3 DEF Held
<1>5. CASE pc' # "sort"
  <2>1. pc' = "rebuild" /\ b' = q /\ bid' = k
    BY <1>5 DEF HandleFail, q
  <2>2. entries' = Unrouted(right) \/ "unroute" \in Faults
    BY <1>5 DEF HandleFail
  <2>3. Wanted' = Flatten(b'.pending) \cup b'.current
    BY <2>1 DEF Wanted
  <2>4. QED
    BY <1>1, <1>2, <1>3, <2>1, <2>2, <2>3 DEF Held
<1>6. QED
  BY <1>4, <1>5

(* While an operation runs it gains no entry to see to, and loses only     *)
(* entries that are gone.                                                  *)
LEMMA WantedOperation ==
    ASSUME TypeOK, Operation, pc \notin {"idle", "boot"}, pc' \notin {"idle", "boot"}
    PROVE  /\ bid' = bid
           /\ Wanted' \subseteq Wanted
           /\ "dequeue" \notin Faults => Wanted \cap Existing' \subseteq Wanted'
<1>1. b \in Row /\ b.pending \in Seq(SUBSET Ids)
  BY DEF TypeOK, EngineTypeOK, OpTypeOK, Row
<1>2. ASSUME Build
      PROVE  /\ bid' = bid /\ b' = b /\ Existing' = Existing
             /\ Wanted = Held(b) /\ Wanted' = Flatten(b.pending) \cup (b.current \cap Existing)
  BY <1>2 DEF Build, Wanted, Held, Existing, storeVars
<1>3. ASSUME EjectOne
      PROVE  /\ bid' = bid /\ Wanted' = Flatten(b.pending) \cup (todo \ {Least(todo)}) \cup keep
             /\ Wanted = Flatten(b.pending) \cup todo \cup keep
             /\ "dequeue" \notin Faults => Least(todo) \notin Existing'
  <2>1. b'.pending = b.pending
    BY <1>1, <1>3 DEF EjectOne, Row
  <2>2. ASSUME "dequeue" \notin Faults
        PROVE  Least(todo) \notin Existing'
    <3>1. entries' = Dequeued(entries[Least(todo)].pr)
      BY <1>3, <2>2 DEF EjectOne
    <3>2. Least(todo) \in Ids
      BY <1>3, TodoLeast DEF EjectOne
    <3>3. entries'[Least(todo)].state = "absent"
      BY <3>1, <3>2, EntryFields
    <3>4. QED
      BY <3>3 DEF Existing
  <2>3. QED
    BY <1>3, <2>1, <2>2 DEF EjectOne, Wanted
<1>4. ASSUME KeepOne
      PROVE  bid' = bid /\ Wanted' = Wanted
  <2>1. Least(todo) \in todo
    BY <1>4, TodoLeast DEF KeepOne
  <2>2. QED
    BY <1>4, <2>1 DEF KeepOne, Wanted
<1>5. ASSUME Sorted
      PROVE  bid' = bid /\ Wanted' = Wanted
  <2>1. b'.pending = b.pending /\ b'.current = keep
    BY <1>1, <1>5, RowFields DEF Sorted
  <2>2. QED
    BY <1>5, <2>1 DEF Sorted, Wanted
<1>6. ASSUME SaveTesting \/ Rebuild
      PROVE  bid' = bid /\ Wanted' = Wanted
  <2>1. b'.pending = b.pending /\ b'.current = b.current
    <3>1. CASE SaveTesting
      BY <1>1, <3>1, RowFields DEF SaveTesting, Goto
    <3>2. CASE Rebuild
      BY <1>1, <3>2, RowFields DEF Rebuild, Goto
    <3>3. QED
      BY <1>6, <3>1, <3>2
  <2>2. QED
    BY <1>6, <2>1 DEF SaveTesting, Rebuild, Goto, Wanted
<1>7. ASSUME StampOne \/ AllStamped \/ EvaluatePass
      PROVE  bid' = bid /\ Wanted' = Wanted
  BY <1>7 DEF StampOne, AllStamped, EvaluatePass, Goto, Wanted
<1>8. ASSUME EvaluateFail
      PROVE  /\ bid' = bid /\ Existing' \subseteq Existing
             /\ Wanted = Held(b) /\ Wanted' \subseteq Held(b)
             /\ Held(b) \cap Existing \subseteq Wanted'
  <2>1. Wanted = Held(b) /\ HandleFail(by, bid, b)
    BY <1>8 DEF EvaluateFail, Wanted, Held
  <2>2. Existing' \subseteq Existing
    BY <1>8, ExistingMoves DEF Next, Operation, EvaluateFail, Enqueue, HandleFail, opVars
  <2>3. QED
    BY <1>1, <2>1, <2>2, FailWanted, Zenon
<1>9. ASSUME FastForward \/ FastForwardDenied
      PROVE  /\ bid' = bid /\ Existing' = Existing
             /\ Wanted = Held(b) /\ Wanted' = Flatten(b.pending) \cup (b.current \cap Existing)
  <2>1. b'.pending = b.pending
    <3>1. CASE FastForward
      BY <1>1, <3>1, RowFields DEF FastForward, Goto
    <3>2. CASE FastForwardDenied
      BY <3>2 DEF FastForwardDenied, EjectAll
    <3>3. QED
      BY <1>9, <3>1, <3>2
  <2>2. QED
    BY <1>9, <2>1 DEF FastForward, FastForwardDenied, Goto, EjectAll, Wanted, Held,
       Existing, storeVars
<1>10. ASSUME FastForwardRaced
       PROVE  /\ bid' = bid /\ Existing' = Existing
              /\ Wanted = Held(b)
              /\ Wanted' \in {Held(b), Flatten(b.pending) \cup (b.current \cap Existing)}
  <2>1. PICK r : r = [b EXCEPT !.ff = @ + 1]
    OBVIOUS
  <2>2. r.pending = b.pending /\ r.current = b.current
    BY <1>1, <2>1, RowFields
  <2>3. Goto("rebuild", r, {}) \/ EjectAll(r, r.current)
    BY <1>10, <2>1 DEF FastForwardRaced
  <2>4. Existing' = Existing /\ pc = "pass"
    BY <1>10 DEF FastForwardRaced, Existing, storeVars
  <2>5. QED
    BY <2>2, <2>3, <2>4 DEF Goto, EjectAll, Wanted, Held
<1>11. ASSUME LandOne
       PROVE  /\ bid' = bid /\ Wanted' = Flatten(b.pending) \cup (todo \ {Least(todo)})
              /\ Wanted = Flatten(b.pending) \cup todo
              /\ "dequeue" \notin Faults => Least(todo) \notin Existing'
  <2>2. ASSUME "dequeue" \notin Faults
        PROVE  Least(todo) \notin Existing'
    <3>1. entries' = Dequeued(entries[Least(todo)].pr)
      BY <1>11, <2>2 DEF LandOne
    <3>2. Least(todo) \in Ids
      BY <1>11, TodoLeast DEF LandOne
    <3>3. entries'[Least(todo)].state = "absent"
      BY <3>1, <3>2, EntryFields
    <3>4. QED
      BY <3>3 DEF Existing
  <2>3. QED
    BY <1>11, <2>2 DEF LandOne, Wanted
<1>12. ASSUME Settle
       PROVE  bid' = bid /\ Wanted' = Wanted
  <2>1. b'.pending = b.pending
    BY <1>1, <1>12, RowFields DEF Settle, Goto
  <2>2. QED
    BY <1>12, <2>1 DEF Settle, Goto, Wanted
<1>13. ASSUME NextSlice
       PROVE  bid' = bid /\ Wanted' = Wanted
  <2> DEFINE n == Len(b.pending)
             q == [b EXCEPT !.current = b.pending[n],
                            !.pending = SubSeq(b.pending, 1, n - 1),
                            !.state = "forming"]
  <2>1. q.current = b.pending[n] /\ q.pending = SubSeq(b.pending, 1, n - 1)
    BY <1>1, RowFields
  <2>2. b' = q /\ bid' = bid /\ pc = "next" /\ pc' = "build" /\ b.pending # <<>>
    BY <1>13 DEF NextSlice, Goto
  <2> HIDE DEF q
  <2>3. QED
    BY <1>1, <2>1, <2>2, FlattenPop DEF Wanted
<1>14. CASE ReconcileDone \/ ClearLedger \/ EvaluateWait \/ Finish
  BY <1>14 DEF ReconcileDone, ClearLedger, EvaluateWait, Finish, Release
<1>15. QED
  BY <1>2, <1>3, <1>4, <1>5, <1>6, <1>7, <1>8, <1>9, <1>10, <1>11, <1>12, <1>13, <1>14
  DEF Operation, ReconcileForming, ReconcileTesting, Held

(* The same for any step.                                                  *)
LEMMA WantedStep ==
    ASSUME TypeOK, Next, pc \notin {"idle", "boot"}, pc' \notin {"idle", "boot"}
    PROVE  /\ bid' = bid
           /\ Wanted' \subseteq Wanted
           /\ "dequeue" \notin Faults => Wanted \cap Existing' \subseteq Wanted'
<1>1. CASE Operation
  BY <1>1, WantedOperation
<1>2. CASE World \/ Environment \/ Fault
  <2>1. opVars' = opVars
    BY <1>2 DEF World, Environment, Fault, Enqueue, RemoveEntry, PromoteHead, Webhook,
       PollChecks, ClockPasses, Abort, Release, AbortRemoval, Crash
  <2>2. QED
    BY <2>1 DEF opVars, Wanted
<1>3. CASE EntryPoint
  BY <1>3 DEF EntryPoint, FormBatch, RetryForming, HandleTimeout, DropCheck, SaveCheck,
     RemovedTooLate, RemovedPending, RemovedCurrent
<1>4. QED
  BY <1>1, <1>2, <1>3 DEF Next

(* An operation begins with the entries its batch holds.                   *)
LEMMA WantedBegin ==
    ASSUME IInv, OrderInv, Next, pc \in {"idle", "boot"}, pc' \notin {"idle", "boot"}
    PROVE  /\ bid' \in BatchIds
           /\ \/ /\ FormBatch(bid') /\ Wanted' = TakeQueuedHead
                 /\ Flatten(b'.pending) = {}
              \/ /\ Live(bid') /\ rows' = rows
                 /\ Wanted' \subseteq Held(rows[bid'])
                 /\ Held(rows[bid']) \cap Existing \subseteq Wanted' \cup {removing.id}
                 /\ removing' = removing \/ removing.id \notin Wanted'
                 /\ pc = "boot" => removing' = removing
                 /\ \/ Flatten(b'.pending) \subseteq Flatten(rows[bid'].pending)
                    \/ \E right \in SUBSET Ids :
                         /\ Flatten(b'.pending) = Flatten(rows[bid'].pending) \cup right
                         /\ entries' = Unrouted(right) \/ "unroute" \in Faults
<1>1. /\ TypeOK /\ rows \in [BatchIds -> Row] /\ calls \subseteq Call
      /\ \A k \in BatchIds : Ordered(rows[k])
  BY DEF IInv, TypeOK, StoreTypeOK, EngineTypeOK, OrderInv
<1>2. ASSUME NEW k \in BatchIds, FormBatch(k)
      PROVE  /\ bid' = k /\ Wanted' = TakeQueuedHead /\ Flatten(b'.pending) = {}
  <2>1. /\ bid' = k /\ pc' = "build" /\ b' = NewRow(TakeQueuedHead)
    BY <1>2 DEF FormBatch, Enter
  <2>2. NewRow(TakeQueuedHead).current = TakeQueuedHead
        /\ NewRow(TakeQueuedHead).pending = <<>>
    BY DEF NewRow, NoRow
  <2>3. Flatten(<<>>) = {}
    BY DEF Flatten
  <2>4. QED
    BY <2>1, <2>2, <2>3 DEF Wanted
<1>3. ASSUME NEW k \in BatchIds, Live(k), NEW s \in {"build", "eval", "restamp"},
             NEW w, NEW ids, Enter(w, k, rows[k], s, ids), rows' = rows,
             removing' = removing
      PROVE  /\ bid' = k /\ Live(bid') /\ rows' = rows /\ removing' = removing
             /\ Wanted' = Held(rows[bid'])
             /\ Flatten(b'.pending) = Flatten(rows[bid'].pending)
  BY <1>3 DEF Enter, Wanted, Held
<1>4. ASSUME NEW k \in BatchIds,
             RetryForming(k) \/ ReconcileForming(k) \/ ReconcileTesting(k)
      PROVE  /\ bid' = k /\ Live(bid') /\ rows' = rows /\ removing' = removing
             /\ Wanted' = Held(rows[bid'])
             /\ Flatten(b'.pending) = Flatten(rows[bid'].pending)
  BY <1>3, <1>4 DEF RetryForming, ReconcileForming, ReconcileTesting, Live, storeVars
<1>5. ASSUME NEW c \in calls, SaveCheck(c)
      PROVE  /\ bid' \in BatchIds /\ Live(bid') /\ rows' = rows /\ removing' = removing
             /\ Wanted' = Held(rows[bid'])
             /\ Flatten(b'.pending) = Flatten(rows[bid'].pending)
  <2>1. c.batch \in BatchIds
    BY <1>1 DEF Call
  <2>2. Live(c.batch) /\ Enter(c.by, c.batch, rows[c.batch], "eval", {c.id})
        /\ rows' = rows /\ removing' = removing
    BY <1>5 DEF SaveCheck, Current, Live
  <2>3. QED
    BY <1>3, <2>1, <2>2
<1>6. ASSUME NEW k \in BatchIds, HandleTimeout(k)
      PROVE  /\ bid' = k /\ Live(bid') /\ rows' = rows /\ removing' = removing
             /\ Wanted' \subseteq Held(rows[bid'])
             /\ Held(rows[bid']) \cap Existing \subseteq Wanted'
             /\ \/ Flatten(b'.pending) \subseteq Flatten(rows[bid'].pending)
                \/ \E right \in SUBSET Ids :
                     /\ Flatten(b'.pending) = Flatten(rows[bid'].pending) \cup right
                     /\ entries' = Unrouted(right) \/ "unroute" \in Faults
  <2>1. /\ HandleFail("poller", k, rows[k]) /\ Live(k)
        /\ rows' = rows /\ removing' = removing
    BY <1>6 DEF HandleTimeout, Live
  <2> DEFINE right == rows[k].current \ FirstHalf(rows[k].current)
  <2>2. /\ bid' = k
        /\ Wanted' \subseteq Held(rows[k])
        /\ Held(rows[k]) \cap Existing \subseteq Wanted'
        /\ \/ Flatten(b'.pending) \subseteq Flatten(rows[k].pending)
           \/ /\ Flatten(b'.pending) = Flatten(rows[k].pending) \cup right
              /\ entries' = Unrouted(right) \/ "unroute" \in Faults
    BY <1>1, <2>1, FailWanted
  <2>3. right \in SUBSET Ids
    BY <1>1 DEF Row
  <2> HIDE DEF right
  <2>4. QED
    BY <2>1, <2>2, <2>3
<1>7. ASSUME RemovedCurrent
      PROVE  /\ bid' \in BatchIds /\ Live(bid') /\ rows' = rows
             /\ Wanted' = Held(rows[bid']) \ {removing.id}
             /\ Flatten(b'.pending) \subseteq Flatten(rows[bid'].pending)
  <2> DEFINE r == WithoutMember(rows[removing.batch], removing.id)
  <2>1. removing.batch \in BatchIds /\ removing.id \in Ids
    BY <1>1, <1>7 DEF RemovedCurrent, TypeOK, EngineTypeOK, Removal
  <2>2. Held(r) = Held(rows[removing.batch]) \ {removing.id}
    BY <1>1, <2>1, OrderedWithout
  <2>3. /\ Live(removing.batch) /\ bid' = removing.batch /\ b' = r /\ rows' = rows
        /\ pc' = IF r.current = {} THEN "next" ELSE "rebuild"
    BY <1>7 DEF RemovedCurrent, Enter, storeVars
  <2>4. r.pending = Drop(rows[removing.batch].pending, removing.id)
    BY <1>1, <2>1, RowFields
  <2>5. Flatten(r.pending) \subseteq Flatten(rows[removing.batch].pending)
    BY <1>1, <2>1, <2>4, FlattenFacts DEF Row
  <2> HIDE DEF r
  <2>6. Wanted' = Held(r)
    BY <2>3 DEF Wanted, Held
  <2>7. QED
    BY <2>1, <2>2, <2>3, <2>5, <2>6
<1>8. \/ \E k \in BatchIds : \/ FormBatch(k) \/ RetryForming(k) \/ HandleTimeout(k)
                             \/ ReconcileForming(k) \/ ReconcileTesting(k)
      \/ \E c \in calls : SaveCheck(c)
      \/ RemovedCurrent
  <2>1. CASE Operation
    BY <2>1 DEF Operation, Build, EjectOne, KeepOne, Sorted, SaveTesting, StampOne,
       AllStamped, ClearLedger, EvaluatePass, EvaluateWait, EvaluateFail, FastForward,
       FastForwardRaced, FastForwardDenied, LandOne, Settle, Rebuild, NextSlice, Finish,
       ReconcileDone, Release
  <2>2. CASE World \/ Environment \/ Fault
    BY <2>2 DEF World, Environment, Fault, Enqueue, RemoveEntry, PromoteHead, Webhook,
       PollChecks, ClockPasses, Abort, Release, AbortRemoval, Crash, opVars
  <2>3. CASE EntryPoint
    BY <2>3 DEF EntryPoint, DropCheck, RemovedTooLate, RemovedPending, opVars
  <2>4. QED
    BY <2>1, <2>2, <2>3 DEF Next
<1>9. ~ (pc = "boot" /\ RemovedCurrent)
  BY DEF RemovedCurrent
<1>10. QED
  BY <1>2, <1>4, <1>5, <1>6, <1>7, <1>8, <1>9

(* What a step makes of the entries a row holds.                           *)
LEMMA RowHeld ==
    ASSUME TypeOK, OneLive, OrderInv, Next, NEW k \in BatchIds
    PROVE  \/ /\ FormBatch(k) /\ Live(k)' /\ Held(rows'[k]) = TakeQueuedHead
              /\ Flatten(rows'[k].pending) = {}
           \/ /\ k = bid /\ pc \notin {"idle", "boot"}
              /\ SaveTesting \/ Rebuild \/ NextSlice
              /\ Live(k)' /\ Held(rows'[k]) = Wanted
              /\ Flatten(rows'[k].pending) \subseteq Flatten(b.pending)
           \/ k = bid /\ Finish /\ ~ Live(k)' /\ Wanted = {}
           \/ /\ RemovedPending /\ k = removing.batch /\ Live(k) /\ Live(k)'
              /\ Held(rows'[k]) = Held(rows[k]) \ {removing.id}
              /\ Flatten(rows'[k].pending) \subseteq Flatten(rows[k].pending)
           \/ /\ Held(rows'[k]) = Held(rows[k]) /\ (Live(k)' <=> Live(k))
              /\ Flatten(rows'[k].pending) = Flatten(rows[k].pending)
<1>1. /\ rows \in [BatchIds -> Row] /\ b \in Row /\ b.pending \in Seq(SUBSET Ids)
      /\ \A j \in BatchIds : Ordered(rows[j])
      /\ \A j \in BatchIds : rows[j].pending \in Seq(SUBSET Ids)
  BY DEF TypeOK, StoreTypeOK, EngineTypeOK, OpTypeOK, OrderInv, Row
<1>2. CASE rows'[k] = rows[k]
  BY <1>2 DEF Live
<1>3. ASSUME NEW j \in BatchIds, NEW r, rows' = [rows EXCEPT ![j] = r]
      PROVE  rows'[j] = r /\ (k # j => rows'[k] = rows[k])
  BY <1>1, <1>3
<1>4. CASE (SaveTesting \/ Rebuild) /\ k = bid
  <2>1. /\ Held(b') = Wanted /\ b'.pending = b.pending
        /\ b'.state \in {"testing", "forming"}
    <3>1. /\ b'.current = b.current /\ b'.pending = b.pending
          /\ b'.state \in {"testing", "forming"}
      <4>1. CASE SaveTesting
        BY <1>1, <4>1, RowFields DEF SaveTesting, Goto
      <4>2. CASE Rebuild
        BY <1>1, <4>2, RowFields DEF Rebuild, Goto
      <4>3. QED
        BY <1>4, <4>1, <4>2
    <3>2. QED
      BY <1>4, <3>1 DEF Wanted, Held, SaveTesting, Rebuild
  <2>2. rows' = [rows EXCEPT ![bid] = b']
    BY <1>4 DEF SaveTesting, Rebuild, Goto
  <2>3. QED
    BY <1>3, <1>4, <2>1, <2>2 DEF SaveTesting, Rebuild, Live
<1>5. CASE NextSlice /\ k = bid
  <2> DEFINE n == Len(b.pending)
             q == [b EXCEPT !.current = b.pending[n],
                            !.pending = SubSeq(b.pending, 1, n - 1),
                            !.state = "forming"]
  <2>1. /\ q.current = b.pending[n] /\ q.pending = SubSeq(b.pending, 1, n - 1)
        /\ q.state = "forming"
    BY <1>1, RowFields
  <2>2. rows' = [rows EXCEPT ![bid] = q] /\ pc = "next" /\ b.pending # <<>>
    BY <1>5 DEF NextSlice
  <2> HIDE DEF q
  <2>3. Flatten(b.pending) = q.current \cup Flatten(q.pending)
    BY <1>1, <2>1, <2>2, FlattenPop
  <2>4. Held(q) = Wanted
    BY <2>2, <2>3 DEF Held, Wanted
  <2>5. QED
    BY <1>3, <1>5, <2>1, <2>2, <2>3, <2>4 DEF Live
<1>6. CASE Finish /\ k = bid
  <2> DEFINE q == [b EXCEPT !.state = "done", !.current = {}]
  <2>1. q.state = "done"
    BY <1>1, RowFields
  <2>2. rows' = [rows EXCEPT ![bid] = q] /\ pc = "next" /\ b.pending = <<>>
    BY <1>6 DEF Finish
  <2> HIDE DEF q
  <2>3. rows'[k] = q
    BY <1>3, <1>6, <2>2
  <2>4. Flatten(<<>>) = {}
    BY DEF Flatten
  <2>5. QED
    BY <1>6, <2>1, <2>2, <2>3, <2>4 DEF Live, Wanted
<1>7. CASE RemovedPending /\ k = removing.batch
  <2> DEFINE q == WithoutMember(rows[k], removing.id)
  <2>1. removing.id \in Ids /\ Live(k)
    BY <1>7 DEF RemovedPending, TypeOK, EngineTypeOK, Removal
  <2>2. rows'[k] = q
    <3>1. rows' = [rows EXCEPT ![k] = q]
      BY <1>7 DEF RemovedPending
    <3> HIDE DEF q
    <3>2. QED
      BY <1>3, <3>1
  <2>3. Held(q) = Held(rows[k]) \ {removing.id}
    BY <1>1, <2>1, OrderedWithout
  <2>4. q.pending = Drop(rows[k].pending, removing.id) /\ q.state = rows[k].state
    BY <1>1, RowFields
  <2>5. Flatten(q.pending) \subseteq Flatten(rows[k].pending)
    BY <1>1, <2>1, <2>4, FlattenFacts
  <2> HIDE DEF q
  <2>6. QED
    BY <1>7, <2>1, <2>2, <2>3, <2>4, <2>5 DEF Live
<1>8. CASE FormBatch(k)
  <2>1. rows' = [rows EXCEPT ![k] = NewRow(TakeQueuedHead)]
    BY <1>8 DEF FormBatch
  <2>2. rows'[k] = NewRow(TakeQueuedHead)
    BY <1>3, <2>1
  <2>3. NewRow(TakeQueuedHead).current = TakeQueuedHead
        /\ NewRow(TakeQueuedHead).pending = <<>>
        /\ NewRow(TakeQueuedHead).state = "forming"
    BY DEF NewRow, NoRow
  <2>4. Flatten(<<>>) = {}
    BY DEF Flatten
  <2>5. QED
    BY <1>8, <2>2, <2>3, <2>4 DEF Held, Live
<1>9. CASE ClockPasses(k)
  <2> DEFINE q == [rows[k] EXCEPT !.late = TRUE]
  <2>1. /\ q.state = rows[k].state /\ q.current = rows[k].current
        /\ q.pending = rows[k].pending
    BY <1>1, RowFields
  <2>2. rows'[k] = q
    <3>1. rows' = [rows EXCEPT ![k] = q]
      BY <1>9 DEF ClockPasses
    <3> HIDE DEF q
    <3>2. QED
      BY <1>3, <3>1
  <2> HIDE DEF q
  <2>3. QED
    BY <2>1, <2>2 DEF Held, Live
<1>10. rows'[k] = rows[k]
         \/ (k = bid /\ (SaveTesting \/ Rebuild \/ NextSlice \/ Finish))
         \/ (k = removing.batch /\ RemovedPending)
         \/ FormBatch(k) \/ ClockPasses(k)
  <2>1. CASE SaveTesting \/ Rebuild \/ NextSlice \/ Finish
    <3>1. bid \in BatchIds
      BY <2>1 DEF SaveTesting, Rebuild, NextSlice, Finish, OneLive
    <3>2. k # bid => rows'[k] = rows[k]
      BY <1>1, <2>1, <3>1 DEF SaveTesting, Rebuild, NextSlice, Finish
    <3>3. QED
      BY <2>1, <3>2
  <2>2. CASE RemovedPending
    BY <1>1, <2>2 DEF RemovedPending
  <2>3. ASSUME NEW j \in BatchIds, FormBatch(j) \/ ClockPasses(j)
        PROVE  rows'[k] = rows[k] \/ FormBatch(k) \/ ClockPasses(k)
    BY <1>1, <2>3 DEF FormBatch, ClockPasses
  <2>4. QED
    BY <2>1, <2>2, <2>3, RowsFrame
<1>11. QED
  BY <1>2, <1>4, <1>5, <1>6, <1>7, <1>8, <1>9, <1>10

(* The stack of the copy only loses slices, but for the one HandleFail     *)
(* pushes, whose entries it has unrouted unless that failed.               *)
LEMMA PendingStep ==
    ASSUME TypeOK, Next, pc \notin {"idle", "boot"}, pc' \notin {"idle", "boot"}
    PROVE  \/ Flatten(b'.pending) \subseteq Flatten(b.pending)
           \/ \E right \in SUBSET Ids :
                /\ Flatten(b'.pending) = Flatten(b.pending) \cup right
                /\ entries' = Unrouted(right) \/ "unroute" \in Faults
<1>1. b \in Row /\ b.pending \in Seq(SUBSET Ids) /\ b.current \in SUBSET Ids
  BY DEF TypeOK, EngineTypeOK, OpTypeOK, Row
<1>2. CASE EvaluateFail
  <2>1. HandleFail(by, bid, b)
    BY <1>2 DEF EvaluateFail
  <2> DEFINE right == b.current \ FirstHalf(b.current)
  <2>2. \/ Flatten(b'.pending) \subseteq Flatten(b.pending)
        \/ /\ Flatten(b'.pending) = Flatten(b.pending) \cup right
           /\ entries' = Unrouted(right) \/ "unroute" \in Faults
    BY <1>1, <2>1, FailWanted
  <2>3. right \in SUBSET Ids
    BY <1>1
  <2> HIDE DEF right
  <2>4. QED
    BY <2>2, <2>3
<1>3. CASE NextSlice
  <2>1. \E l : b' = [b EXCEPT !.current = l,
                             !.pending = SubSeq(b.pending, 1, Len(b.pending) - 1),
                             !.state = "forming"]
    BY <1>3 DEF NextSlice, Goto
  <2>2. b'.pending = SubSeq(b.pending, 1, Len(b.pending) - 1) /\ b.pending # <<>>
    BY <1>1, <1>3, <2>1 DEF NextSlice, Row
  <2>3. QED
    BY <1>1, <2>2, FlattenFacts
<1>4. CASE EjectOne \/ Sorted \/ SaveTesting \/ FastForward \/ FastForwardRaced \/ Settle
           \/ Rebuild
  <2>1. \/ \E ids : b' = [b EXCEPT !.current = ids]
        \/ \E e : b' = [b EXCEPT !.ejected = @ \cup {e}]
        \/ \E s : b' = [b EXCEPT !.sha = s, !.state = "testing", !.late = FALSE,
                                 !.builds = b.builds + 1]
        \/ b' = [b EXCEPT !.ff = 0]
        \/ b' = [b EXCEPT !.ff = @ + 1]
        \/ b' = [b EXCEPT !.landed = b.landed \cup b.current, !.current = {}]
        \/ b' = [b EXCEPT !.state = "forming"]
    BY <1>4 DEF EjectOne, Sorted, SaveTesting, FastForward, FastForwardRaced, Settle,
       Rebuild, Goto, EjectAll
  <2>2. b'.pending = b.pending
    BY <1>1, <2>1 DEF Row
  <2>3. QED
    BY <2>2
<1>5. CASE \/ Build \/ KeepOne \/ StampOne \/ AllStamped \/ EvaluatePass
           \/ FastForwardDenied \/ LandOne
  BY <1>5 DEF Build, KeepOne, StampOne, AllStamped, EvaluatePass, FastForwardDenied,
     LandOne, Goto, EjectAll
<1>6. CASE Operation
  BY <1>2, <1>3, <1>4, <1>5, <1>6 DEF Operation, ReconcileDone, ClearLedger, EvaluateWait,
     Finish, Release, ReconcileForming, ReconcileTesting
<1>7. CASE World \/ Environment \/ Fault
  <2>1. opVars' = opVars
    BY <1>7 DEF World, Environment, Fault, Enqueue, RemoveEntry, PromoteHead, Webhook,
       PollChecks, ClockPasses, Abort, Release, AbortRemoval, Crash
  <2>2. QED
    BY <2>1 DEF opVars
<1>8. CASE EntryPoint
  BY <1>8 DEF EntryPoint, FormBatch, RetryForming, HandleTimeout, DropCheck, SaveCheck,
     RemovedTooLate, RemovedPending, RemovedCurrent
<1>9. QED
  BY <1>6, <1>7, <1>8 DEF Next

(***************************************************************************)
(* Entries that wait in the stack carry no commit.                         *)
(***************************************************************************)

(* The entry StampOne gives a commit does not wait in a stack.             *)
LEMMA StampsCurrent ==
    ASSUME IInv, OrderInv, StampOne, NEW x \in Existing,
           \/ x \in Flatten(b.pending)
           \/ \E k \in BatchIds : Live(k) /\ x \in Flatten(rows[k].pending)
    PROVE  entries[x].pr # entries[Least(todo)].pr
<1>1. TypeOK /\ OneEntryPerPR /\ LoopHeld /\ RestampHeld /\ OneLive
  BY DEF IInv
<1>2. pc \in {"stamp", "restamp"} /\ todo # {}
  BY DEF StampOne
<1>3. Least(todo) \in todo /\ Least(todo) \in Ids
  BY <1>1, <1>2, TodoLeast
<1>4. x \in Flatten(b.pending)
  <2>1. ASSUME NEW k \in BatchIds, Live(k), x \in Flatten(rows[k].pending)
        PROVE  x \in Flatten(b.pending)
    <3>1. k = bid
      BY <1>1, <1>2, <2>1 DEF OneLive
    <3>2. rows[bid].pending = b.pending
      BY <1>2 DEF OrderInv, SameBuild
    <3>3. QED
      BY <2>1, <3>1, <3>2
  <2>2. QED
    BY <2>1
<1>5. Least(todo) \in b.current
  BY <1>2, <1>3 DEF OrderInv
<1>6. Least(todo) # x
  <2>1. Least(todo) < x
    BY <1>4, <1>5 DEF OrderInv, Ordered, Before
  <2>2. QED
    BY <1>3, <2>1 DEF Ids
<1>7. CASE Least(todo) \in Existing
  BY <1>1, <1>6, <1>7 DEF OneEntryPerPR
<1>8. CASE Least(todo) \notin Existing
  BY <1>1, <1>2, <1>3, <1>8 DEF LoopHeld, RestampHeld
<1>9. QED
  BY <1>7, <1>8

(* A waiting entry without a commit gets none while it waits.              *)
LEMMA UnroutedStable ==
    ASSUME IInv, OrderInv, Next, NEW x \in Existing', x \in Existing => entries[x].sha = NoSha,
           StampOne => \/ x \in Flatten(b.pending)
                       \/ \E k \in BatchIds : Live(k) /\ x \in Flatten(rows[k].pending)
    PROVE  entries'[x].sha = NoSha
<1>1. TypeOK /\ x \in Ids /\ entries'[x].state # "absent"
  BY DEF IInv, Existing
<1>2. ASSUME NEW p \in PRs, Enqueue(p, x)
      PROVE  entries'[x].sha = NoSha
  BY <1>1, <1>2, EntryFields DEF Enqueue
<1>3. ASSUME entries[x].state # "absent", StampOne
      PROVE  entries[x].pr # entries[Least(todo)].pr
  BY <1>1, <1>3, StampsCurrent DEF Existing
<1>4. QED
  BY <1>1, <1>2, <1>3, EntriesMove DEF Existing

(* UnroutedInv is preserved by every step, unless ClearMergeBranch fails.  *)
LEMMA UnroutedStep ==
    ASSUME "unroute" \notin Faults, IInv, OrderInv, UnroutedInv, Next
    PROVE  UnroutedInv'
<1>1. TypeOK /\ TypeOK' /\ OneLive
  BY TypeStep DEF IInv
<1>2. ASSUME NEW k \in BatchIds, Live(k)', NEW e \in Flatten(rows'[k].pending) \cap Existing'
      PROVE  entries'[e].sha = NoSha
  <2>1. CASE Live(k) /\ e \in Flatten(rows[k].pending)
    <3>1. e \in Existing => entries[e].sha = NoSha
      BY <2>1 DEF UnroutedInv, PendingUnrouted
    <3>2. QED
      BY <2>1, <3>1, UnroutedStable
  <2>2. CASE pc \notin {"idle", "boot"} /\ e \in Flatten(b.pending)
    <3>1. e \in Existing => entries[e].sha = NoSha
      BY <2>2 DEF UnroutedInv, Unreached
    <3>2. QED
      BY <2>2, <3>1, UnroutedStable
  <2>3. QED
    BY <1>1, <1>2, <2>1, <2>2, RowHeld
<1>3. ASSUME pc' \notin {"idle", "boot"}, NEW e \in Flatten(b'.pending) \cap Existing'
      PROVE  entries'[e].sha = NoSha
  <2>0. e \in Ids
    BY DEF Existing
  <2>1. ASSUME NEW right \in SUBSET Ids, entries' = Unrouted(right), e \in right
        PROVE  entries'[e].sha = NoSha
    BY <1>1, <2>0, <2>1 DEF Unrouted, TypeOK, StoreTypeOK, Entry
  <2>2. CASE pc \notin {"idle", "boot"}
    <3>1. CASE e \in Flatten(b.pending)
      <4>1. e \in Existing => entries[e].sha = NoSha
        BY <2>2, <3>1 DEF UnroutedInv, Unreached
      <4>2. QED
        BY <3>1, <4>1, UnroutedStable
    <3>2. QED
      BY <1>1, <1>3, <2>1, <2>2, <3>1, PendingStep
  <2>3. CASE pc \in {"idle", "boot"}
    <3>1. CASE bid' \in BatchIds /\ Live(bid') /\ e \in Flatten(rows[bid'].pending)
      <4>1. e \in Existing => entries[e].sha = NoSha
        BY <3>1 DEF UnroutedInv, PendingUnrouted
      <4>2. QED
        BY <3>1, <4>1, UnroutedStable
    <3>2. QED
      BY <1>3, <2>1, <2>3, <3>1, WantedBegin
  <2>4. QED
    BY <2>2, <2>3
<1>4. QED
  BY <1>2, <1>3 DEF UnroutedInv, PendingUnrouted, Unreached, Live, Existing

(* The initial state satisfies UnroutedInv.                                *)
LEMMA UnroutedInit == Init => UnroutedInv
<1> SUFFICES ASSUME Init PROVE UnroutedInv
  OBVIOUS
<1>1. pc = "idle" /\ \A k \in BatchIds : rows[k] = NoRow
  BY DEF Init, StoreInit
<1>2. \A k \in BatchIds : ~ Live(k)
  BY <1>1 DEF Live, NoRow
<1>3. QED
  BY <1>1, <1>2 DEF UnroutedInv, PendingUnrouted

(* Unless ClearMergeBranch fails, entries that wait in the bisection stack *)
(* carry no commit, whatever other faults happen.                          *)
THEOREM UnroutedCorrect ==
    ASSUME "unroute" \notin Faults
    PROVE  Spec => []PendingUnrouted
<1>1. IInv /\ OrderInv /\ UnroutedInv /\ [Next]_vars => UnroutedInv'
  <2>1. ASSUME UnroutedInv, UNCHANGED vars
        PROVE  UnroutedInv'
    BY <2>1 DEF UnroutedInv, PendingUnrouted, Unreached, Live, Existing, vars, storeVars,
       opVars
  <2>2. QED
    BY <2>1, UnroutedStep
<1>2. UnroutedInv => PendingUnrouted
  BY DEF UnroutedInv
<1>3. QED
  BY <1>1, <1>2, UnroutedInit, Invariant, OrderCorrect, PTL DEF Spec

(***************************************************************************)
(* No member is stranded.                                                  *)
(***************************************************************************)

(* An entry gets its batch from FormBatch and never another one.           *)
LEMMA BatchMoves ==
    ASSUME TypeOK, Next, NEW x \in Existing', entries'[x].batch # NoBatch
    PROVE  /\ x \in Existing
           /\ \/ entries'[x].batch = entries[x].batch
              \/ /\ entries'[x].batch \in BatchIds /\ FormBatch(entries'[x].batch)
                 /\ x \in TakeQueuedHead
<1>1. /\ x \in Ids /\ entries'[x].state # "absent"
      /\ entries \in [Ids -> Entry] /\ entries[x] \in Entry
  BY DEF Existing, TypeOK, StoreTypeOK
<1>2. CASE entries' = entries
  BY <1>1, <1>2 DEF Existing
<1>3. ASSUME NEW k \in BatchIds, FormBatch(k)
      PROVE  /\ x \in Existing
             /\ \/ entries'[x].batch = entries[x].batch
                \/ entries'[x].batch = k /\ x \in TakeQueuedHead
  <2>1. entries' = Batched(TakeQueuedHead, k)
    BY <1>3 DEF FormBatch
  <2>2. \A y \in TakeQueuedHead : entries[y].state = "queued"
    BY DEF TakeQueuedHead
  <2>3. QED
    BY <1>1, <2>1, <2>2, EntryFields DEF Existing
<1>4. ASSUME NEW ids, entries' = Unrouted(ids)
      PROVE  x \in Existing /\ entries'[x].batch = entries[x].batch
  BY <1>1, <1>4, EntryFields DEF Existing
<1>5. ASSUME NEW p, entries' = Dequeued(p)
      PROVE  x \in Existing /\ entries'[x].batch = entries[x].batch
  BY <1>1, <1>5, EntryFields DEF Existing
<1>6. ASSUME NEW p, NEW s, entries' = Stamped(p, s)
      PROVE  x \in Existing /\ entries'[x].batch = entries[x].batch
  BY <1>1, <1>6, EntryFields DEF Existing
<1>7. ASSUME NEW p, NEW e \in Ids, entries' = Enqueued(p, e)
      PROVE  x \in Existing /\ entries'[x].batch = entries[x].batch
  <2>1. [NoEntry EXCEPT !.state = "queued", !.pr = p].batch = NoBatch
    BY DEF NoEntry
  <2>2. x # e
    BY <1>1, <1>7, <2>1 DEF Enqueued
  <2>3. QED
    BY <1>1, <1>7, <2>2, EntryFields DEF Existing
<1>8. CASE PromoteHead
  <2>1. Least(Existing) \in Existing
    BY <1>8, LeastEntry DEF PromoteHead, HeadQueued, TypeOK, Existing
  <2>2. entries' = [entries EXCEPT ![Least(Existing)].state = "success"]
    BY <1>8 DEF PromoteHead
  <2>3. entries'[x].batch = entries[x].batch /\ (x # Least(Existing) => entries'[x] = entries[x])
    BY <1>1, <2>2 DEF Entry
  <2>4. QED
    BY <1>1, <2>1, <2>3 DEF Existing
<1>9. CASE EjectOne \/ LandOne
  BY <1>2, <1>5, <1>9 DEF EjectOne, LandOne
<1>10. CASE StampOne
  BY <1>2, <1>6, <1>10 DEF StampOne
<1>11. CASE EvaluateFail \/ \E k \in BatchIds : HandleTimeout(k)
  BY <1>2, <1>4, <1>11 DEF EvaluateFail, HandleTimeout, HandleFail
<1>12. CASE \E e \in Ids : RemoveEntry(e)
  BY <1>2, <1>5, <1>12 DEF RemoveEntry
<1>13. CASE \E p \in PRs, e \in Ids : Enqueue(p, e)
  BY <1>7, <1>13 DEF Enqueue
<1>14. QED
  BY <1>2, <1>3, <1>8, <1>9, <1>10, <1>11, <1>12, <1>13, EntriesFrame

(* A removal is reported before the PR can be queued again.                *)
LEMMA RemovalQuietStep ==
    ASSUME "dequeue" \notin Faults, IInv, RemovalQuiet, Next
    PROVE  RemovalQuiet'
<1> SUFFICES ASSUME removing' # NoRemoval
             PROVE  /\ removing'.id \notin Existing' /\ entries'[removing'.id].pr # NoPR
                    /\ \A f \in Existing' : entries'[f].pr # entries'[removing'.id].pr
  BY DEF RemovalQuiet
<1>1. TypeOK /\ OneEntryPerPR
  BY DEF IInv
<1>2. ASSUME NEW e \in Ids, RemoveEntry(e)
      PROVE  /\ removing'.id \notin Existing' /\ entries'[removing'.id].pr # NoPR
             /\ \A f \in Existing' : entries'[f].pr # entries'[removing'.id].pr
  <2>1. /\ entries' = Dequeued(entries[e].pr) /\ removing'.id = e /\ e \in Existing
    BY <1>2 DEF RemoveEntry
  <2>2. \A f \in Ids : /\ entries'[f].pr = entries[f].pr
                       /\ entries[f].pr = entries[e].pr => entries'[f].state = "absent"
    BY <1>1, <2>1, EntryFields
  <2>3. QED
    BY <1>1, <2>1, <2>2 DEF Existing, OneEntryPerPR
<1>3. ASSUME removing' = removing
      PROVE  /\ removing'.id \notin Existing' /\ entries'[removing'.id].pr # NoPR
             /\ \A f \in Existing' : entries'[f].pr # entries'[removing'.id].pr
  <2>1. removing.id \in Ids
    BY <1>1, <1>3 DEF TypeOK, EngineTypeOK, Removal
  <2>2. /\ Existing' \subseteq Existing
        /\ \A f \in Ids : entries'[f].pr = entries[f].pr
    BY <1>1, <1>3, ExistingMoves DEF Enqueue, PollerFree
  <2>3. QED
    BY <1>3, <2>1, <2>2 DEF RemovalQuiet, Existing
<1>4. removing' \in {removing, NoRemoval} \/ \E e \in Ids : RemoveEntry(e)
  <2>1. CASE Operation
    BY <2>1 DEF Operation, Build, EjectOne, KeepOne, Sorted, SaveTesting, StampOne,
       AllStamped, ClearLedger, EvaluatePass, EvaluateWait, EvaluateFail, FastForward,
       FastForwardRaced, FastForwardDenied, LandOne, Settle, Rebuild, NextSlice, Finish,
       ReconcileDone, ReconcileForming, ReconcileTesting
  <2>2. CASE EntryPoint
    BY <2>2 DEF EntryPoint, FormBatch, RetryForming, HandleTimeout, DropCheck, SaveCheck,
       RemovedTooLate, RemovedPending, RemovedCurrent
  <2>3. CASE World \/ Environment \/ Fault
    BY <2>3 DEF World, Environment, Fault, Enqueue, PromoteHead, Webhook,
       PollChecks, ClockPasses, Abort, AbortRemoval, Crash
  <2>4. QED
    BY <2>1, <2>2, <2>3 DEF Next
<1>5. QED
  BY <1>2, <1>3, <1>4

(* Every entry of a batch stays with it, and with the operation that works *)
(* on it, unless DequeuePR fails.                                          *)
LEMMA TrackedStep ==
    ASSUME "dequeue" \notin Faults, IInv, OrderInv, TrackedInv, Next
    PROVE  TrackedInv'
<1>1. /\ TypeOK /\ OneLive /\ RemovalQuiet /\ entries \in [Ids -> Entry]
      /\ \A e \in Existing : entries[e].batch # NoBatch =>
           /\ entries[e].batch \in BatchIds /\ Live(entries[e].batch)
           /\ e \in Held(rows[entries[e].batch])
  <2>1. /\ TypeOK /\ OneLive /\ RemovalQuiet /\ MembersTracked
        /\ entries \in [Ids -> Entry]
    BY DEF IInv, TrackedInv, TypeOK, StoreTypeOK
  <2>2. \A e \in Existing : entries[e].batch # NoBatch => entries[e].batch \in BatchIds
    BY <2>1 DEF Existing, Entry, BatchIds, NoBatch
  <2>3. QED
    BY <2>1, <2>2 DEF MembersTracked, Held
<1>2. \A e \in Existing : e # removing.id
  BY <1>1 DEF RemovalQuiet, NoRemoval, Existing, Ids
<1>3. ASSUME NEW e \in Existing', NEW k, k = entries'[e].batch, k # NoBatch
      PROVE  Live(k)' /\ e \in Held(rows'[k])
  <2>1. e \in Existing
    BY <1>1, <1>3, BatchMoves
  <2>2. CASE k \in BatchIds /\ FormBatch(k) /\ e \in TakeQueuedHead
    <3>1. ~ Live(k) /\ pc = "idle"
      BY <2>2 DEF FormBatch
    <3>2. Live(k)' /\ Held(rows'[k]) = TakeQueuedHead
      <4>1. rows' = [rows EXCEPT ![k] = NewRow(TakeQueuedHead)]
        BY <2>2 DEF FormBatch
      <4>2. rows'[k] = NewRow(TakeQueuedHead)
        BY <1>1, <2>2, <4>1 DEF TypeOK, StoreTypeOK
      <4>3. /\ NewRow(TakeQueuedHead).current = TakeQueuedHead
            /\ NewRow(TakeQueuedHead).pending = <<>>
            /\ NewRow(TakeQueuedHead).state = "forming"
        BY DEF NewRow, NoRow
      <4>4. Flatten(<<>>) = {}
        BY DEF Flatten
      <4>5. QED
        BY <4>2, <4>3, <4>4 DEF Live, Held
    <3>3. QED
      BY <2>2, <3>2
  <2>3. CASE k = entries[e].batch
    <3>1. k \in BatchIds /\ Live(k) /\ e \in Held(rows[k])
      BY <1>1, <1>3, <2>1, <2>3
    <3>2. k = bid /\ pc \notin {"idle", "boot"} => e \in Wanted
      BY <2>1, <2>3 DEF TrackedInv
    <3>3. ~ FormBatch(k)
      BY <3>1 DEF FormBatch
    <3>4. Finish => pc \notin {"idle", "boot"}
      BY DEF Finish
    <3>5. QED
      BY <1>1, <1>2, <2>1, <3>1, <3>2, <3>3, <3>4, RowHeld
  <2>4. QED
    BY <1>1, <1>3, <2>2, <2>3, BatchMoves
<1>4. ASSUME pc' \notin {"idle", "boot"}, NEW e \in Existing', entries'[e].batch = bid'
      PROVE  e \in Wanted'
  <2>1. CASE pc \notin {"idle", "boot"}
    <3>1. bid' = bid /\ bid # NoBatch /\ Wanted \cap Existing' \subseteq Wanted'
      BY <1>1, <1>4, <2>1, WantedStep DEF OneLive, BatchIds, NoBatch
    <3>2. e \in Existing /\ entries[e].batch = bid
      BY <1>1, <1>4, <2>1, <3>1, BatchMoves DEF FormBatch
    <3>3. QED
      BY <2>1, <3>1, <3>2 DEF TrackedInv
  <2>2. CASE pc \in {"idle", "boot"}
    <3>1. bid' \in BatchIds /\ bid' # NoBatch
      BY <1>4, <2>2, WantedBegin DEF BatchIds, NoBatch
    <3>2. /\ e \in Existing
          /\ \/ entries[e].batch = bid'
             \/ FormBatch(bid') /\ e \in TakeQueuedHead
      BY <1>1, <1>4, <3>1, BatchMoves
    <3>3. CASE FormBatch(bid')
      <4>1. \A j \in BatchIds : ~ Live(j)
        BY <3>3 DEF FormBatch
      <4>2. e \in TakeQueuedHead
        BY <1>1, <3>1, <3>2, <4>1
      <4>3. QED
        BY <1>4, <2>2, <3>3, <4>1, <4>2, <3>1, WantedBegin
    <3>4. CASE ~ FormBatch(bid')
      <4>1. e \in Held(rows[bid'])
        BY <1>1, <3>1, <3>2, <3>4
      <4>2. e # removing.id
        BY <1>2, <3>2
      <4>3. QED
        BY <1>4, <2>2, <3>2, <3>4, <4>1, <4>2, WantedBegin
    <3>5. QED
      BY <3>3, <3>4
  <2>3. QED
    BY <2>1, <2>2
<1>5. RemovalQuiet'
  BY <1>1, RemovalQuietStep
<1>6. MembersTracked'
  BY <1>3 DEF MembersTracked, Held, Live
<1>7. QED
  BY <1>4, <1>5, <1>6 DEF TrackedInv

(* The initial state satisfies TrackedInv.                                 *)
LEMMA TrackedInit == Init => TrackedInv
<1> SUFFICES ASSUME Init PROVE TrackedInv
  OBVIOUS
<1>1. pc = "idle" /\ removing = NoRemoval /\ Existing = {}
  BY DEF Init, StoreInit, Existing, NoEntry
<1>2. QED
  BY <1>1 DEF TrackedInv, MembersTracked, RemovalQuiet

(* Unless DequeuePR fails, no member of a batch is stranded, whatever      *)
(* other faults happen.                                                    *)
THEOREM TrackedCorrect ==
    ASSUME "dequeue" \notin Faults
    PROVE  Spec => []MembersTracked
<1>1. IInv /\ OrderInv /\ TrackedInv /\ [Next]_vars => TrackedInv'
  <2>1. ASSUME TrackedInv, UNCHANGED vars
        PROVE  TrackedInv'
    BY <2>1 DEF TrackedInv, MembersTracked, RemovalQuiet, Wanted, Live, Existing, vars,
       storeVars, opVars
  <2>2. QED
    BY <2>1, TrackedStep
<1>2. TrackedInv => MembersTracked
  BY DEF TrackedInv
<1>3. QED
  BY <1>1, <1>2, TrackedInit, Invariant, OrderCorrect, PTL DEF Spec

(***************************************************************************)
(* The history of the target.                                              *)
(***************************************************************************)

(* The history holds the tip and the bases of its commits.                 *)
LEMMA HistoryClosed ==
    ASSUME TypeOK
    PROVE  tip \in History /\ Closed(History) /\ History \subseteq Shas
<1>1. tip \in Shas /\ commits \in [Shas -> Commit]
  BY DEF TypeOK, ForgeTypeOK
<1>2. tip \in History /\ History \subseteq Shas
  BY <1>1 DEF History
<1>3. ASSUME NEW s \in History, commits[s].base # NoSha
      PROVE  commits[s].base \in History
  <2>1. commits[s].base \in Shas
    BY <1>1, <1>2, <1>3 DEF Commit, Shas, NoSha
  <2>2. ASSUME NEW H \in SUBSET Shas, tip \in H, Closed(H)
        PROVE  commits[s].base \in H
    <3>1. s \in H
      BY <2>2 DEF History
    <3>2. QED
      BY <1>3, <2>2, <3>1 DEF Closed
  <2>3. QED
    BY <2>1, <2>2 DEF History
<1>4. QED
  BY <1>2, <1>3 DEF Closed

(* The history grows by the new tip when that stands on the old one.       *)
LEMMA HistoryGrows ==
    ASSUME TypeOK, TypeOK', ForgeInv, \A s \in 1 .. last : commits'[s] = commits[s],
           tip' = tip \/ commits'[tip'].base = tip
    PROVE  History' = History \cup {tip'}
<1>1. /\ tip \in History /\ Closed(History) /\ History \subseteq Shas
      /\ History \subseteq 1 .. last /\ tip' \in Shas /\ tip # NoSha
      /\ last \in Nat /\ last <= MaxCommits
  BY HistoryClosed DEF ForgeInv, TypeOK, ForgeTypeOK, Shas, NoSha
<1> DEFINE K == History \cup {tip'}
<1>2. K \in SUBSET Shas /\ tip' \in K
  BY <1>1
<1>3. ASSUME NEW s \in K, commits'[s].base # NoSha
      PROVE  commits'[s].base \in K
  <2>1. CASE s \in History
    BY <1>1, <1>3, <2>1 DEF Closed
  <2>2. CASE s = tip' /\ tip' # tip
    BY <1>1, <2>2
  <2>3. QED
    BY <1>1, <2>1, <2>2
<1> HIDE DEF K
<1>4. History' \subseteq K
  BY <1>2, <1>3 DEF History, Closed
<1>5. ASSUME NEW H \in SUBSET Shas, tip' \in H,
             \A s \in H : commits'[s].base # NoSha => commits'[s].base \in H
      PROVE  K \subseteq H
  <2> DEFINE G == H \cap (1 .. last)
  <2>1. tip \in H
    BY <1>1, <1>5
  <2>2. tip \in G /\ G \in SUBSET Shas
    BY <1>1, <2>1
  <2>3. Closed(G)
    <3>1. ASSUME NEW s \in G, commits[s].base # NoSha
          PROVE  commits[s].base \in G
      <4>1. commits'[s] = commits[s] /\ s \in Shas
        BY <2>2
      <4>2. commits[s].base \in History
        BY <3>1, <4>1 DEF ForgeInv
      <4>3. QED
        BY <1>1, <1>5, <3>1, <4>1, <4>2
    <3>2. QED
      BY <3>1 DEF Closed
  <2> HIDE DEF G
  <2>4. History \subseteq G
    BY <2>2, <2>3 DEF History
  <2>5. QED
    BY <1>5, <2>4 DEF G, K
<1>6. K \subseteq History'
  <2>1. ASSUME NEW s \in K
        PROVE  s \in History'
    BY <1>2, <1>5 DEF History, Closed
  <2>2. QED
    BY <2>1
<1>7. QED
  BY <1>4, <1>6 DEF K

(* Every step adds the tip it leaves to the history, and nothing else.     *)
LEMMA HistoryStep ==
    ASSUME IInv, ForgeInv, Next
    PROVE  /\ History' = History \cup {tip'}
           /\ Landed' = Landed \cup commits'[tip'].ids
           /\ \A s \in Shas : s <= last => commits'[s] = commits[s]
<1>1. /\ TypeOK /\ TypeOK' /\ ShasBorn /\ last \in Nat /\ tip \in Shas
      /\ commits \in [Shas -> Commit] /\ tip \in 1 .. last
  BY TypeStep, ShasNat, HistoryClosed DEF IInv, TypeOK, ForgeTypeOK, Shas, ForgeInv
<1>2. \A s \in 1 .. last : commits'[s] = commits[s]
  BY <1>1, ForgeGrows
<1>3. tip' = tip \/ commits'[tip'].base = tip
  <2>1. CASE FastForward
    BY <2>1 DEF FastForward, CanFastForward
  <2>2. CASE TargetPush
    <3>1. /\ last + 1 \in Shas /\ tip' = last + 1
          /\ commits' = [commits EXCEPT ![last + 1] = [base |-> tip, ids |-> {}]]
      BY <1>1, <2>2 DEF TargetPush, Shas
    <3>2. QED
      BY <1>1, <3>1
  <2>3. QED
    BY <2>1, <2>2, ForgeFrame DEF forgeVars, Build, CIReport
<1>4. History' = History \cup {tip'}
  BY <1>1, <1>2, <1>3, HistoryGrows
<1>5. Landed' = Landed \cup commits'[tip'].ids
  <2>1. \A s \in History : commits'[s] = commits[s]
    BY <1>2 DEF ForgeInv
  <2>2. QED
    BY <1>4, <2>1 DEF Landed
<1>6. QED
  BY <1>1, <1>2, <1>4, <1>5 DEF Shas

(* ForgeInv is preserved by every step.                                    *)
LEMMA ForgeInvStep ==
    ASSUME IInv, ForgeInv, Next
    PROVE  ForgeInv'
<1>1. /\ TypeOK /\ ShasBorn /\ last \in Nat /\ last' \in Nat /\ last <= last'
      /\ tip \in History /\ tip \in Nat
      /\ commits \in [Shas -> Commit]
      /\ reports \in [Shas -> [Contexts -> Seq(ReportStates)]]
  BY ForgeGrows, HistoryClosed, ShasNat DEF IInv, TypeOK, ForgeTypeOK
<1>2. History' = History \cup {tip'}
  BY HistoryStep
<1>3. CASE \/ Build \/ TargetPush
  <2>1. \/ UNCHANGED <<commits, last>>
        \/ \E ids : /\ last' = last + 1
                    /\ commits' = [commits EXCEPT ![last + 1] = [base |-> tip, ids |-> ids]]
    BY <1>3 DEF Build, TargetPush, StackOnTip
  <2>2. reports' = reports /\ tip' \in {tip, last'}
    BY <1>3 DEF Build, TargetPush
  <2>3. ASSUME NEW ids, NEW s \in Shas,
               commits' = [commits EXCEPT ![last + 1] = [base |-> tip, ids |-> ids]]
        PROVE  /\ commits'[s].base \in {commits[s].base, tip}
               /\ s # last + 1 => commits'[s] = commits[s]
    <3>1. s # last + 1 => commits'[s] = commits[s]
      BY <1>1, <2>3
    <3>2. s = last + 1 => commits'[s] = [base |-> tip, ids |-> ids]
      BY <1>1, <2>3
    <3>3. QED
      BY <3>1, <3>2
  <2>4. \A s \in Shas : commits'[s].base \in {commits[s].base, tip}
    BY <2>1, <2>3
  <2>5. \A s \in Shas : s > last' => commits'[s] = commits[s]
    <3>1. \A s \in Shas : s > last' => s # last'
      BY <1>1 DEF Shas
    <3>2. QED
      BY <2>1, <2>3, <3>1
  <2>6. tip' \in 1 .. last'
    BY <1>1, <2>2 DEF ForgeInv
  <2>7. \A s \in Shas : s > last' => s > last
    BY <1>1 DEF Shas
  <2>8. History' \subseteq 1 .. last'
    <3>1. 1 .. last \subseteq 1 .. last'
      BY <1>1
    <3>2. QED
      BY <1>2, <2>6, <3>1 DEF ForgeInv
  <2>9. \A s \in Shas : commits'[s].base \in History' \cup {NoSha}
    BY <1>1, <1>2, <2>4 DEF ForgeInv
  <2>10. \A s \in Shas : s > last' => commits'[s].ids = {}
    BY <2>5, <2>7 DEF ForgeInv
  <2>11. \A s \in Shas, c \in Contexts : s > last' => reports'[s][c] = <<>>
    BY <2>2, <2>7 DEF ForgeInv
  <2>12. QED
    BY <2>8, <2>9, <2>10, <2>11 DEF ForgeInv
<1>4. ASSUME commits' = commits, last' = last, tip' \in 1 .. last,
             \A s \in Shas, c \in Contexts : s > last => reports'[s][c] = <<>>
      PROVE  ForgeInv'
  BY <1>2, <1>4 DEF ForgeInv
<1>5. CASE FastForward
  <2>1. b.sha \in 1 .. last
    BY <1>1, <1>5, ShasNat DEF FastForward, CanFastForward, ShasBorn, Shas
  <2>2. QED
    BY <1>4, <1>5, <2>1 DEF FastForward, ForgeInv
<1>6. ASSUME NEW s \in Shas, NEW c \in Contexts, NEW st \in ReportStates, CIReport(s, c, st)
      PROVE  ForgeInv'
  <2>1. \A r \in Shas : r > last => reports'[r] = reports[r]
    BY <1>1, <1>6 DEF CIReport, Builds
  <2>2. tip \in 1 .. last
    BY <1>1 DEF ForgeInv
  <2>3. QED
    BY <1>4, <1>6, <2>1, <2>2 DEF CIReport, ForgeInv
<1>7. CASE forgeVars' = forgeVars
  BY <1>1, <1>4, <1>7 DEF forgeVars, ForgeInv
<1>8. QED
  BY <1>3, <1>5, <1>6, <1>7, ForgeFrame

(***************************************************************************)
(* What a batch still has to process is queued and has not landed.         *)
(***************************************************************************)

(* Without aborts and crashes no operation is cut off.                     *)
LEMMA NoCutOff ==
    ASSUME Faults \subseteq {"stamp", "unroute"}, LandingInv, Next
    PROVE  /\ ~ Abort /\ ~ AbortRemoval /\ ~ Crash
           /\ pc' \notin {"boot", "restamp"} /\ ~ dirty'
           /\ \/ removing' = removing
              \/ \E e \in Ids : RemoveEntry(e)
              \/ /\ pc = "idle" /\ removing' = NoRemoval
                 /\ RemovedTooLate \/ RemovedPending \/ RemovedCurrent
<1>1. ~ Abort /\ ~ AbortRemoval /\ ~ Crash /\ "clear" \notin Faults
  BY DEF Abort, AbortRemoval, Crash
<1>2. pc \notin {"boot", "restamp"} /\ ~ dirty
  BY DEF LandingInv
<1>3. CASE Operation
  <2>1. pc' \notin {"boot", "restamp"}
    BY <1>2, <1>3 DEF Operation, Release, Build, EjectOne, KeepOne, Sorted, SaveTesting,
       Goto, StampOne, AllStamped, ClearLedger, EvaluatePass, EvaluateWait, EvaluateFail,
       HandleFail, FastForward, FastForwardRaced, EjectAll, FastForwardDenied, LandOne,
       Settle, Rebuild, NextSlice, Finish, ReconcileDone, ReconcileForming,
       ReconcileTesting
  <2>2. removing' = removing
    BY <1>3 DEF Operation, Build, EjectOne, KeepOne, Sorted, SaveTesting, StampOne,
       AllStamped, ClearLedger, EvaluatePass, EvaluateWait, EvaluateFail, FastForward,
       FastForwardRaced, FastForwardDenied, LandOne, Settle, Rebuild, NextSlice, Finish,
       ReconcileDone, ReconcileForming, ReconcileTesting
  <2>3. ~ dirty'
    BY <1>1, <1>2, <1>3, Zenon DEF Operation, Build, EjectOne, KeepOne, Sorted,
       SaveTesting, StampOne, AllStamped, ClearLedger, EvaluatePass, EvaluateWait,
       EvaluateFail, FastForward, FastForwardRaced, FastForwardDenied, LandOne, Settle,
       Rebuild, NextSlice, Finish, ReconcileDone, ReconcileForming, ReconcileTesting
  <2>4. QED
    BY <1>1, <2>1, <2>2, <2>3
<1>4. CASE EntryPoint
  <2>1. pc' \notin {"boot", "restamp"}
    BY <1>2, <1>4 DEF EntryPoint, FormBatch, RetryForming, HandleTimeout, HandleFail,
       Enter, DropCheck, SaveCheck, RemovedTooLate, RemovedPending, RemovedCurrent, opVars
  <2>2. \/ removing' = removing
        \/ /\ pc = "idle" /\ removing' = NoRemoval
           /\ RemovedTooLate \/ RemovedPending \/ RemovedCurrent
    BY <1>4 DEF EntryPoint, FormBatch, RetryForming, HandleTimeout, DropCheck, SaveCheck,
       RemovedTooLate, RemovedPending, RemovedCurrent
  <2>3. ~ dirty'
    BY <1>2, <1>4, Zenon DEF EntryPoint, FormBatch, RetryForming, HandleTimeout, DropCheck,
       SaveCheck, RemovedTooLate, RemovedPending, RemovedCurrent
  <2>4. QED
    BY <1>1, <2>1, <2>2, <2>3
<1>5. CASE World \/ Environment \/ Fault
  <2>1. opVars' = opVars
    BY <1>1, <1>5 DEF World, Environment, Fault, Enqueue, RemoveEntry, PromoteHead,
       Webhook, PollChecks, ClockPasses
  <2>2. removing' = removing \/ \E e \in Ids : RemoveEntry(e)
    BY <1>1, <1>5 DEF World, Environment, Fault, Enqueue, PromoteHead, Webhook,
       PollChecks, ClockPasses
  <2>3. ~ dirty'
    BY <1>1, <1>2, <1>5, Zenon DEF World, Environment, Fault, Enqueue, RemoveEntry,
       PromoteHead, Webhook, PollChecks, ClockPasses
  <2>4. QED
    BY <1>1, <1>2, <2>1, <2>2, <2>3 DEF opVars
<1>6. QED
  BY <1>3, <1>4, <1>5 DEF Next

(* Rows disappear one PR at a time.                                        *)
LEMMA ExistingLost ==
    ASSUME TypeOK, Next, NEW x \in Existing, x \notin Existing'
    PROVE  \/ /\ (EjectOne \/ LandOne) /\ todo # {}
              /\ entries[x].pr = entries[Least(todo)].pr
           \/ \E e \in Existing : RemoveEntry(e) /\ entries[x].pr = entries[e].pr
<1>1. x \in Ids /\ entries[x].state # "absent" /\ entries'[x].state = "absent"
      /\ entries \in [Ids -> Entry]
  BY DEF Existing, TypeOK, StoreTypeOK
<1>2. ASSUME NEW p, entries' = Dequeued(p)
      PROVE  entries[x].pr = p
  BY <1>1, <1>2 DEF Dequeued
<1>3. ~ (entries' = entries)
  BY <1>1
<1>4. ~ \E p, s : entries' = Stamped(p, s)
  BY <1>1, EntryFields
<1>5. ~ \E ids : entries' = Unrouted(ids)
  BY <1>1, EntryFields
<1>6. ~ \E k \in BatchIds : FormBatch(k)
  <2>1. \A ids, k : entries' # Batched(ids, k)
    BY <1>1, EntryFields
  <2>2. QED
    BY <2>1 DEF FormBatch
<1>7. ~ \E p \in PRs, e \in Ids : Enqueue(p, e)
  <2>1. \A p, e : entries' # Enqueued(p, e)
    BY <1>1, EntryFields
  <2>2. QED
    BY <2>1 DEF Enqueue
<1>8. ~ PromoteHead
  <2>1. \A y : entries' # [entries EXCEPT ![y].state = "success"]
    <3>1. ASSUME NEW y, entries' = [entries EXCEPT ![y].state = "success"]
          PROVE  FALSE
      <4>1. entries[x] \in Entry
        BY <1>1
      <4>2. CASE y = x
        BY <1>1, <3>1, <4>1, <4>2 DEF Entry
      <4>3. CASE y # x
        BY <1>1, <3>1, <4>3
      <4>4. QED
        BY <4>2, <4>3
    <3>2. QED
      BY <3>1
  <2>2. QED
    BY <2>1 DEF PromoteHead
<1>9. ~ StampOne /\ ~ EvaluateFail /\ ~ \E k \in BatchIds : HandleTimeout(k)
  BY <1>3, <1>4, <1>5, Zenon DEF StampOne, EvaluateFail, HandleTimeout, HandleFail
<1>10. CASE EjectOne
  BY <1>2, <1>3, <1>10 DEF EjectOne
<1>11. CASE LandOne
  BY <1>2, <1>3, <1>11 DEF LandOne
<1>12. ASSUME NEW e \in Ids, RemoveEntry(e)
       PROVE  e \in Existing /\ entries[x].pr = entries[e].pr
  BY <1>2, <1>3, <1>12 DEF RemoveEntry
<1>13. QED
  BY <1>3, <1>6, <1>7, <1>8, <1>9, <1>10, <1>11, <1>12, EntriesFrame

(* A member a loop dequeues takes no other entry's row with it.            *)
LEMMA LoopDequeues ==
    ASSUME IInv, TrackedInv, LandingInv, pc \in {"sort", "land"}, todo # {},
           NEW f \in Existing, entries[f].pr = entries[Least(todo)].pr
    PROVE  f = Least(todo)
<1>1. TypeOK /\ OneEntryPerPR /\ RemovalQuiet
  BY DEF IInv, TrackedInv
<1>2. Least(todo) \in todo /\ Least(todo) \in Ids
  BY <1>1, TodoLeast
<1>3. CASE Least(todo) \in Existing
  BY <1>1, <1>3 DEF OneEntryPerPR
<1>4. CASE Least(todo) \notin Existing
  <2>1. Least(todo) \in Wanted
    BY <1>2 DEF Wanted
  <2>2. Least(todo) = removing.id
    BY <1>4, <2>1 DEF LandingInv
  <2>3. removing # NoRemoval
    BY <1>2, <2>2 DEF NoRemoval, Ids
  <2>4. QED
    BY <1>1, <2>2, <2>3 DEF RemovalQuiet
<1>5. QED
  BY <1>3, <1>4

(* Only a fast-forward of a build lands anything, and it lands its members. *)
LEMMA LandedStep ==
    ASSUME IInv, OrderInv, ForgeInv, Next
    PROVE  \/ ~ FastForward /\ Landed' = Landed
           \/ FastForward /\ Landed' = Landed \cup b.current
<1>1. TypeOK /\ tip \in History /\ commits \in [Shas -> Commit] /\ last \in Nat
  BY HistoryClosed DEF IInv, TypeOK, ForgeTypeOK, Shas
<1>2. Landed' = Landed \cup commits'[tip'].ids
  BY HistoryStep
<1>3. CASE FastForward
  <2>1. b.current = commits[b.sha].ids
    <3>1. pc = "pass" /\ bid \in BatchIds
      BY <1>3 DEF FastForward, IInv, OneLive
    <3>2. QED
      BY <3>1 DEF OrderInv, SameBuild
  <2>2. commits' = commits /\ tip' = b.sha
    BY <1>3 DEF FastForward
  <2>3. QED
    BY <1>2, <1>3, <2>1, <2>2
<1>4. CASE ~ FastForward
  <2>1. CASE TargetPush
    <3>1. tip' = last + 1 /\ last + 1 \in Shas
          /\ commits' = [commits EXCEPT ![last + 1] = [base |-> tip, ids |-> {}]]
      BY <1>1, <2>1 DEF TargetPush, Shas, TypeOK, ForgeTypeOK
    <3>2. commits'[tip'].ids = {}
      BY <1>1, <3>1
    <3>3. QED
      BY <1>2, <1>4, <3>2
  <2>2. CASE ~ TargetPush
    <3>1. tip' = tip
      BY <1>4, <2>2, ForgeFrame DEF forgeVars, Build, CIReport
    <3>2. commits'[tip] = commits[tip]
      <4>1. tip \in Shas /\ tip <= last
        BY <1>1 DEF ForgeInv, TypeOK, ForgeTypeOK
      <4>2. QED
        BY <4>1, HistoryStep
    <3>3. commits[tip].ids \subseteq Landed
      BY <1>1 DEF Landed
    <3>4. QED
      BY <1>2, <1>4, <3>1, <3>2, <3>3
  <2>3. QED
    BY <2>1, <2>2
<1>5. QED
  BY <1>3, <1>4

(* What the operation still wants was queued once and is the batch's.      *)
LEMMA WantedOwned ==
    ASSUME IInv, OrderInv, NEW x \in Wanted, pc # "idle"
    PROVE  x \in Ids /\ Owned(x)
<1>1. TypeOK /\ RowsOwned /\ LoopHeld /\ b \in Row /\ b.pending \in Seq(SUBSET Ids)
      /\ b.current \in SUBSET Ids /\ todo \in SUBSET Ids /\ keep \in SUBSET Ids
  BY DEF IInv, TypeOK, EngineTypeOK, OpTypeOK, Row
<1>2. CASE x \in Held(b)
  <2>1. Held(b) \subseteq Ids
    BY <1>1 DEF Held, Flatten
  <2>2. QED
    BY <1>1, <1>2, <2>1 DEF RowsOwned
<1>3. CASE pc = "sort" /\ x \in todo \cup keep
  BY <1>1, <1>3 DEF LoopHeld
<1>4. pc = "land" => todo \subseteq b.current
  BY DEF OrderInv
<1>5. QED
  BY <1>2, <1>3, <1>4 DEF Wanted, Held

(* An entry leaves the queue when a loop visits it or the poller removes   *)
(* that very entry.                                                        *)
LEMMA ExistingGone ==
    ASSUME IInv, TrackedInv, LandingInv, Next, NEW x \in Existing, x \notin Existing'
    PROVE  \/ (EjectOne \/ LandOne) /\ todo # {} /\ x = Least(todo)
           \/ RemoveEntry(x)
<1>1. TypeOK /\ OneEntryPerPR
  BY DEF IInv
<1>2. CASE (EjectOne \/ LandOne) /\ todo # {} /\ entries[x].pr = entries[Least(todo)].pr
  <2>1. pc \in {"sort", "land"}
    BY <1>2 DEF EjectOne, LandOne
  <2>2. QED
    BY <1>2, <2>1, LoopDequeues
<1>3. ASSUME NEW e \in Existing, RemoveEntry(e), entries[x].pr = entries[e].pr
      PROVE  RemoveEntry(x)
  BY <1>1, <1>3 DEF OneEntryPerPR
<1>4. QED
  BY <1>1, <1>2, <1>3, ExistingLost

(* A member stays queued or is about to be reported.                       *)
LEMMA MemberStays ==
    ASSUME Faults \subseteq {"stamp", "unroute"}, IInv, TrackedInv, LandingInv, Next,
           NEW x \in Ids, Owned(x), x \in Existing \cup {removing.id},
           EjectOne \/ LandOne => x # Least(todo),
           RemovedTooLate \/ RemovedPending \/ RemovedCurrent => x # removing.id
    PROVE  x \in Existing' \cup {removing'.id}
<1>1. CASE x \in Existing
  <2>1. CASE RemoveEntry(x)
    <3>1. removing' = [id |-> x, batch |-> entries[x].batch]
      BY <1>1, <2>1 DEF RemoveEntry, Owned, Existing
    <3>2. QED
      BY <3>1
  <2>2. QED
    BY <1>1, <2>1, ExistingGone
<1>2. CASE x = removing.id
  <2>1. removing # NoRemoval
    BY <1>2 DEF NoRemoval, Ids
  <2>2. ~ \E e \in Ids : RemoveEntry(e)
    BY <2>1 DEF RemoveEntry, PollerFree
  <2>3. removing' = removing
    BY <1>2, <2>2, NoCutOff
  <2>4. QED
    BY <1>2, <2>3
<1>3. QED
  BY <1>1, <1>2

(* Landing ends when every landed member has been visited.                 *)
LEMMA LandExit ==
    ASSUME Faults \subseteq {"stamp", "unroute"}, LandingInv, Next, pc = "land"
    PROVE  opVars' = opVars \/ LandOne \/ Settle
<1>1. CASE Operation
  BY <1>1 DEF Operation, Build, EjectOne, KeepOne, Sorted, SaveTesting, StampOne,
     AllStamped, ClearLedger, EvaluatePass, EvaluateWait, EvaluateFail, FastForward,
     FastForwardRaced, FastForwardDenied, Rebuild, NextSlice, Finish, ReconcileDone,
     ReconcileForming, ReconcileTesting
<1>2. CASE EntryPoint
  BY <1>2 DEF EntryPoint, FormBatch, RetryForming, HandleTimeout, DropCheck, SaveCheck,
     RemovedTooLate, RemovedPending, RemovedCurrent
<1>3. CASE World \/ Environment
  BY <1>3 DEF World, Environment, Enqueue, RemoveEntry, PromoteHead, Webhook, PollChecks,
     ClockPasses
<1>4. ~ Fault
  BY NoCutOff DEF Fault
<1>5. QED
  BY <1>1, <1>2, <1>3, <1>4 DEF Next

(* How the mutex is released when nothing is cut off.                      *)
LEMMA IdleFrame ==
    ASSUME Faults \subseteq {"stamp", "unroute"}, LandingInv, Next,
           pc # "idle", pc' = "idle"
    PROVE  ClearLedger \/ EvaluateWait \/ Finish
<1>1. pc \notin {"boot", "restamp"}
  BY DEF LandingInv
<1>2. CASE Operation
  BY <1>1, <1>2 DEF Operation, Build, EjectOne, KeepOne, Sorted, SaveTesting, Goto,
     StampOne, AllStamped, EvaluatePass, EvaluateFail, HandleFail, FastForward,
     FastForwardRaced, EjectAll, FastForwardDenied, LandOne, Settle, Rebuild, NextSlice,
     ReconcileDone, ReconcileForming, ReconcileTesting
<1>3. CASE EntryPoint
  BY <1>3 DEF EntryPoint, FormBatch, RetryForming, HandleTimeout, DropCheck, SaveCheck,
     RemovedTooLate, RemovedPending, RemovedCurrent
<1>4. CASE World \/ Environment
  BY <1>4 DEF World, Environment, Enqueue, RemoveEntry, PromoteHead, Webhook, PollChecks,
     ClockPasses, opVars
<1>5. ~ Fault
  BY NoCutOff DEF Fault
<1>6. QED
  BY <1>2, <1>3, <1>4, <1>5 DEF Next

(* The loops visit members that the operation no longer wants afterwards.  *)
LEMMA VisitedOnce ==
    ASSUME IInv, OrderInv, NEW x \in Ids, EjectOne \/ LandOne, x = Least(todo)
    PROVE  x \notin Wanted'
<1>1. /\ TypeOK /\ LoopHeld /\ b \in Row /\ b.pending \in Seq(SUBSET Ids)
      /\ x \in Nat /\ todo # {} /\ x \in todo
  <2>1. TypeOK /\ LoopHeld
    BY DEF IInv
  <2>2. b \in Row /\ b.pending \in Seq(SUBSET Ids) /\ x \in Nat
    BY <2>1 DEF TypeOK, EngineTypeOK, OpTypeOK, Row, Ids
  <2>3. todo # {}
    BY DEF EjectOne, LandOne
  <2>4. QED
    BY <2>1, <2>2, <2>3, TodoLeast
<1>2. /\ pc \in {"sort", "land"} /\ pc' = pc /\ keep' = keep
      /\ todo' = todo \ {x} /\ b'.pending = b.pending
  <2>1. CASE EjectOne
    BY <1>1, <2>1, RowFields DEF EjectOne
  <2>2. CASE LandOne
    BY <2>2 DEF LandOne
  <2>3. QED
    BY <2>1, <2>2
<1>3. x \notin Flatten(b.pending)
  <2>1. todo \subseteq b.current \/ b.pending = <<>>
    BY <1>2 DEF OrderInv
  <2>2. CASE todo \subseteq b.current
    BY <1>1, <2>2 DEF OrderInv, Ordered, Before
  <2>3. CASE b.pending = <<>>
    BY <2>3 DEF Flatten
  <2>4. QED
    BY <2>1, <2>2, <2>3
<1>4. pc = "sort" => x \notin keep
  BY <1>1 DEF LoopHeld
<1>5. QED
  BY <1>2, <1>3, <1>4 DEF Wanted

(* The third part of LandingInv for an operation that goes on.             *)
LEMMA LandingGoesOn ==
    ASSUME Faults \subseteq {"stamp", "unroute"}, IInv, OrderInv, TrackedInv,
           LandingInv, ForgeInv, Next, pc # "idle", pc' # "idle"
    PROVE  /\ Wanted' \subseteq Existing' \cup {removing'.id}
           /\ Flatten(b'.pending) \cap Landed' = {}
           /\ pc' # "land" => Wanted' \cap Landed' = {}
<1>1. TypeOK /\ pc \notin {"idle", "boot"} /\ pc' \notin {"idle", "boot"}
  BY NoCutOff DEF IInv, LandingInv
<1>2. Wanted' \subseteq Wanted
  BY <1>1, WantedStep
<1>3. ASSUME NEW x \in Wanted'
      PROVE  x \in Existing' \cup {removing'.id}
  <2>1. x \in Ids /\ Owned(x) /\ x \in Existing \cup {removing.id}
    BY <1>1, <1>2, <1>3, WantedOwned DEF LandingInv
  <2>2. EjectOne \/ LandOne => x # Least(todo)
    BY <1>3, <2>1, VisitedOnce
  <2>3. ~ (RemovedTooLate \/ RemovedPending \/ RemovedCurrent)
    BY <1>1 DEF RemovedTooLate, RemovedPending, RemovedCurrent
  <2>4. QED
    BY <2>1, <2>2, <2>3, MemberStays
<1>4. Flatten(b'.pending) \subseteq Wanted'
  BY DEF Wanted
<1>5. CASE FastForward
  <2>1. pc' = "land" /\ b'.pending = b.pending /\ Landed' = Landed \cup b.current
    BY <1>1, <1>5, LandedStep, RowFields DEF FastForward, Goto, TypeOK, EngineTypeOK,
       OpTypeOK
  <2>2. Flatten(b.pending) \cap Landed = {}
    BY <1>1 DEF LandingInv
  <2>3. Flatten(b.pending) \cap b.current = {}
    <3>1. b.current \subseteq Nat /\ Before(b.current, Flatten(b.pending))
      BY <1>1 DEF OrderInv, Ordered, TypeOK, EngineTypeOK, OpTypeOK, Row, Ids
    <3>2. QED
      BY <3>1 DEF Before
  <2>4. QED
    BY <1>3, <2>1, <2>2, <2>3
<1>6. CASE ~ FastForward /\ pc # "land"
  <2>1. Landed' = Landed /\ Wanted \cap Landed = {}
    BY <1>1, <1>6, LandedStep DEF LandingInv
  <2>2. QED
    BY <1>2, <1>3, <1>4, <2>1
<1>7. CASE pc = "land"
  <2>1. Landed' = Landed /\ Flatten(b.pending) \cap Landed = {}
    BY <1>1, <1>7, LandedStep DEF LandingInv, FastForward
  <2>2. b'.pending = b.pending
    <3>1. CASE Settle
      BY <1>1, <3>1, RowFields DEF Settle, Goto, TypeOK, EngineTypeOK, OpTypeOK
    <3>2. QED
      BY <1>7, <3>1, LandExit DEF opVars, LandOne
  <2>3. pc' # "land" => Wanted' = Flatten(b'.pending)
    <3>1. CASE Settle
      BY <3>1 DEF Settle, Goto, Wanted
    <3>2. QED
      BY <1>7, <3>1, LandExit DEF opVars, LandOne
  <2>4. QED
    BY <1>3, <2>1, <2>2, <2>3
<1>8. QED
  BY <1>5, <1>6, <1>7

(* The same for an operation that begins.                                  *)
LEMMA LandingBegins ==
    ASSUME Faults \subseteq {"stamp", "unroute"}, IInv, OrderInv, TrackedInv,
           LandingInv, ForgeInv, Next, pc = "idle", pc' # "idle"
    PROVE  /\ Wanted' \subseteq Existing' \cup {removing'.id}
           /\ Wanted' \cap Landed' = {}
<1>1. TypeOK /\ RowsOwned /\ pc' \notin {"idle", "boot"}
  BY NoCutOff DEF IInv
<1>2. Landed' = Landed
  BY LandedStep DEF FastForward
<1>3. CASE FormBatch(bid')
  <2>1. Wanted' = TakeQueuedHead /\ TakeQueuedHead \subseteq Existing
    <3>1. TakeQueuedHead \subseteq Existing
      BY DEF TakeQueuedHead, Existing
    <3>2. b' = NewRow(TakeQueuedHead) /\ pc' = "build"
      BY <1>3 DEF FormBatch, Enter
    <3>3. Wanted' = TakeQueuedHead
      <4>1. NewRow(TakeQueuedHead).current = TakeQueuedHead
            /\ NewRow(TakeQueuedHead).pending = <<>>
        BY DEF NewRow, NoRow
      <4>2. Flatten(<<>>) = {}
        BY DEF Flatten
      <4>3. QED
        BY <3>2, <4>1, <4>2 DEF Wanted
    <3>4. QED
      BY <3>1, <3>3
  <2>2. ASSUME NEW x \in TakeQueuedHead
        PROVE  x \in Existing'
    <3>1. x \in Ids /\ entries' = Batched(TakeQueuedHead, bid')
      BY <1>3, <2>1 DEF FormBatch, Existing
    <3>2. entries'[x].state = "testing"
      BY <1>1, <3>1, EntryFields
    <3>3. QED
      BY <3>1, <3>2 DEF Existing
  <2>3. TakeQueuedHead \cap Landed = {}
    BY <2>1 DEF LandingInv
  <2>4. QED
    BY <1>2, <2>1, <2>2, <2>3
<1>4. CASE ~ FormBatch(bid')
  <2>1. /\ bid' \in BatchIds /\ Live(bid') /\ Wanted' \subseteq Held(rows[bid'])
        /\ removing' = removing \/ removing.id \notin Wanted'
    BY <1>1, <1>4, WantedBegin
  <2> DEFINE k == bid'
  <2> HIDE DEF k
  <2>2. /\ k \in BatchIds /\ Live(k) /\ Wanted' \subseteq Held(rows[k])
    BY <2>1, Zenon DEF k
  <2>3. /\ Held(rows[k]) \subseteq Existing \cup {removing.id}
        /\ Held(rows[k]) \cap Landed = {}
    BY <2>2 DEF LandingInv
  <2>4. ASSUME NEW x \in Wanted'
        PROVE  x \in Existing' \cup {removing'.id}
    <3>1. x \in Ids
      BY <1>1, <2>2, <2>4 DEF Held, Flatten, TypeOK, StoreTypeOK, Row
    <3>2. Owned(x)
      BY <1>1, <2>2, <2>4 DEF RowsOwned
    <3>3. ~ (EjectOne \/ LandOne)
      BY DEF EjectOne, LandOne
    <3>4. RemovedTooLate \/ RemovedPending \/ RemovedCurrent => x # removing.id
      BY <2>1, <2>4 DEF RemovedTooLate, RemovedPending, RemovedCurrent
    <3>5. QED
      BY <2>2, <2>3, <2>4, <3>1, <3>2, <3>3, <3>4, MemberStays
  <2>5. QED
    BY <1>2, <2>2, <2>3, <2>4
<1>5. QED
  BY <1>3, <1>4

(* What waits has not landed, unless it is being visited for having landed. *)
LEMMA LandedGone ==
    ASSUME Faults \subseteq {"stamp", "unroute"}, IInv, OrderInv, TrackedInv,
           LandingInv, ForgeInv, Next
    PROVE  Existing' \cap Landed' \subseteq IF pc' = "land" THEN todo' ELSE {}
<1>1. TypeOK
  BY DEF IInv
<1>2. CASE FastForward
  <2>1. /\ pc = "pass" /\ pc' = "land" /\ entries' = entries
        /\ todo' = b.current \cap Existing
    BY <1>2 DEF FastForward, Goto, storeVars
  <2>2. Landed' = Landed \cup b.current /\ Existing \cap Landed = {}
    BY <1>2, <2>1, LandedStep DEF LandingInv
  <2>3. Existing' = Existing
    BY <2>1 DEF Existing
  <2>4. QED
    BY <2>1, <2>2, <2>3
<1>3. CASE ~ FastForward
  <2>1. Landed' = Landed
    BY <1>3, LandedStep
  <2>2. SUFFICES ASSUME NEW x \in Existing', x \in Landed
                 PROVE  pc' = "land" /\ x \in todo'
    BY <2>1
  <2>3. x \in Existing
    <3>1. ASSUME NEW p \in PRs, NEW e \in Ids, Enqueue(p, e)
          PROVE  e \notin Landed
      BY <3>1 DEF Enqueue, NoEntry, LandingInv
    <3>2. QED
      BY <1>1, <2>2, <3>1, ExistingMoves
  <2>4. pc = "land" /\ x \in todo
    BY <2>2, <2>3 DEF LandingInv
  <2>5. CASE opVars' = opVars
    BY <2>4, <2>5 DEF opVars
  <2>6. CASE LandOne
    <3>1. x # Least(todo)
      <4>1. entries' = Dequeued(entries[Least(todo)].pr)
        BY <2>6 DEF LandOne
      <4>2. x \in Ids /\ entries'[x].state # "absent"
        BY <2>2 DEF Existing
      <4>3. QED
        BY <1>1, <4>1, <4>2, EntryFields
    <3>2. QED
      BY <2>4, <2>6, <3>1 DEF LandOne
  <2>7. CASE Settle
    BY <2>4, <2>7 DEF Settle
  <2>8. QED
    BY <2>4, <2>5, <2>6, <2>7, LandExit
<1>4. QED
  BY <1>2, <1>3

(* A landed entry was queued once.                                         *)
LEMMA LandedQueued ==
    ASSUME IInv, OrderInv, LandingInv, ForgeInv, Next
    PROVE  \A e \in Landed' : entries'[e].pr # NoPR
<1>1. TypeOK /\ RowsOwned /\ TypeOK'
  BY TypeStep DEF IInv
<1>2. ASSUME NEW e \in Landed'
      PROVE  e \in Ids /\ entries[e].pr # NoPR
  <2>1. CASE e \in Landed
    <3>1. Landed \subseteq Ids
      <4>1. History \subseteq Shas
        BY <1>1, HistoryClosed
      <4>2. \A s \in Shas : commits[s].ids \subseteq Ids
        BY <1>1 DEF TypeOK, ForgeTypeOK, Commit
      <4>3. QED
        BY <4>1, <4>2 DEF Landed
    <3>2. QED
      BY <2>1, <3>1 DEF LandingInv
  <2>2. CASE e \in b.current
    <3>1. e \in Held(b) /\ e \in Ids
      BY <1>1, <2>2 DEF Held, TypeOK, EngineTypeOK, OpTypeOK, Row
    <3>2. QED
      BY <1>1, <3>1 DEF RowsOwned, Owned
  <2>3. QED
    BY <1>2, <2>1, <2>2, LandedStep
<1>3. ASSUME NEW e \in Landed'
      PROVE  entries'[e].pr # NoPR
  <2>1. ~ \E p \in PRs : Enqueue(p, e)
    BY <1>2 DEF Enqueue, NoEntry
  <2>2. QED
    BY <1>1, <1>2, <2>1, EntriesMove
<1>4. QED
  BY <1>3

(* What a live batch holds when the mutex is free.                         *)
LEMMA LandingRests ==
    ASSUME Faults \subseteq {"stamp", "unroute"}, IInv, OrderInv, TrackedInv,
           LandingInv, ForgeInv, Next, NEW k \in BatchIds, Live(k)', pc' = "idle"
    PROVE  /\ Held(rows'[k]) \subseteq Existing' \cup {removing'.id}
           /\ Held(rows'[k]) \cap Landed' = {}
<1>1. TypeOK /\ RowsOwned /\ OneLive /\ rows \in [BatchIds -> Row] /\ b \in Row
  BY DEF IInv, TypeOK, StoreTypeOK, EngineTypeOK, OpTypeOK
<1>2. CASE pc = "idle"
  <2>1. Landed' = Landed
    BY <1>2, LandedStep DEF FastForward
  <2>2. /\ Live(k) /\ Held(rows'[k]) \subseteq Held(rows[k])
        /\ RemovedPending /\ k = removing.batch =>
             Held(rows'[k]) = Held(rows[k]) \ {removing.id}
    <3>1. ~ FormBatch(k) /\ ~ Finish
      BY <1>2 DEF FormBatch, Enter, Finish
    <3>2. ASSUME RemovedPending, k = removing.batch
          PROVE  Held(rows'[k]) = Held(rows[k]) \ {removing.id}
      <4>1. rows'[k] = WithoutMember(rows[k], removing.id) /\ removing.id \in Ids
        BY <1>1, <3>2 DEF RemovedPending, TypeOK, EngineTypeOK, Removal
      <4>2. Ordered(rows[k])
        BY DEF OrderInv
      <4>3. QED
        BY <1>1, <4>1, <4>2, OrderedWithout
    <3>3. Live(k) /\ Held(rows'[k]) \subseteq Held(rows[k])
      BY <1>1, <1>2, <3>1, RowHeld
    <3>4. QED
      BY <3>2, <3>3
  <2>3. /\ removing # NoRemoval => removing.batch = k
        /\ Held(rows[k]) \subseteq Existing \cup {removing.id}
        /\ Held(rows[k]) \cap Landed = {}
    BY <1>2, <2>2 DEF LandingInv
  <2>4. ASSUME NEW x \in Held(rows'[k])
        PROVE  x \in Existing' \cup {removing'.id}
    <3>1. x \in Held(rows[k]) /\ x \in Ids /\ Owned(x)
      <4>1. Held(rows[k]) \subseteq Ids
        BY <1>1 DEF Held, Flatten, Row
      <4>2. QED
        BY <1>1, <2>2, <2>4, <4>1 DEF RowsOwned
    <3>2. ~ (EjectOne \/ LandOne)
      BY <1>2 DEF EjectOne, LandOne
    <3>3. ~ RemovedTooLate /\ ~ RemovedCurrent
      BY <2>2, <2>3 DEF RemovedTooLate, RemovedCurrent, Enter
    <3>4. RemovedPending => x # removing.id
      BY <2>2, <2>3, <2>4 DEF RemovedPending
    <3>5. QED
      BY <2>3, <3>1, <3>2, <3>3, <3>4, MemberStays
  <2>5. QED
    BY <2>1, <2>2, <2>3, <2>4
<1>3. CASE pc # "idle"
  <2>1. bid \in BatchIds /\ Live(bid)
    BY <1>1, <1>3 DEF OneLive, LandingInv
  <2>2. CASE ClearLedger \/ EvaluateWait
    <3>1. /\ rows' = rows /\ entries' = entries /\ removing' = removing
          /\ pc \in {"clear", "eval"}
      BY <2>2 DEF ClearLedger, EvaluateWait, storeVars
    <3>2. k = bid
      BY <1>1, <2>1, <3>1 DEF OneLive, Live
    <3>3. Held(rows[k]) = Wanted
      BY <3>1, <3>2 DEF OrderInv, SameBuild, Held, Wanted
    <3>4. Landed' = Landed /\ Existing' = Existing
      BY <3>1, LandedStep DEF FastForward, Existing
    <3>5. Wanted \subseteq Existing \cup {removing.id} /\ Wanted \cap Landed = {}
      BY <3>1 DEF LandingInv
    <3>6. QED
      BY <3>1, <3>3, <3>4, <3>5
  <2>3. CASE Finish
    <3>1. k # bid
      <4>1. rows'[bid] = [b EXCEPT !.state = "done", !.current = {}]
        BY <1>1, <2>1, <2>3 DEF Finish
      <4>2. rows'[bid].state = "done"
        BY <1>1, <4>1, RowFields
      <4>3. QED
        BY <4>2 DEF Live
    <3>2. Live(k)
      BY <1>1, <2>3, <3>1 DEF Finish, Live
    <3>3. QED
      BY <1>1, <2>1, <3>1, <3>2 DEF OneLive
  <2>4. QED
    BY <1>3, <2>2, <2>3, IdleFrame
<1>4. QED
  BY <1>2, <1>3

(* The poller reports a member of the one live batch.                      *)
LEMMA RemovalLive ==
    ASSUME Faults \subseteq {"stamp", "unroute"}, IInv, OrderInv, TrackedInv,
           LandingInv, Next, NEW k \in BatchIds, Live(k)', removing' # NoRemoval
    PROVE  removing'.batch = k
<1>1. TypeOK /\ OneLive
  BY DEF IInv
<1>2. CASE removing' = removing
  <2>1. ~ FormBatch(k)
    BY <1>2 DEF FormBatch, PollerFree
  <2>2. CASE Live(k)
    BY <1>2, <2>2 DEF LandingInv
  <2>3. CASE ~ Live(k)
    <3>1. k = bid /\ pc \notin {"idle", "boot"}
      BY <1>1, <2>1, <2>3, RowHeld
    <3>2. QED
      BY <1>1, <2>3, <3>1 DEF OneLive
  <2>4. QED
    BY <2>2, <2>3
<1>3. ASSUME NEW e \in Ids, RemoveEntry(e)
      PROVE  removing'.batch = k
  <2> DEFINE j == entries[e].batch
  <2>1. /\ e \in Existing /\ j # NoBatch /\ removing'.batch = j /\ rows' = rows
        /\ j \in BatchIds
    BY <1>1, <1>3 DEF RemoveEntry, TypeOK, StoreTypeOK, Entry, BatchIds, NoBatch
  <2>2. Live(j)
    BY <2>1 DEF TrackedInv, MembersTracked
  <2>3. Live(k)
    BY <2>1 DEF Live
  <2> HIDE DEF j
  <2>4. QED
    BY <1>1, <2>1, <2>2, <2>3 DEF OneLive
<1>4. QED
  BY <1>2, <1>3, NoCutOff

(* LandingInv is preserved by every step.                                  *)
LEMMA LandingStep ==
    ASSUME Faults \subseteq {"stamp", "unroute"}, IInv, OrderInv, TrackedInv,
           LandingInv, ForgeInv, Next
    PROVE  LandingInv'
<1>1. pc' \notin {"boot", "restamp"} /\ ~ dirty'
  BY NoCutOff
<1>2. ASSUME NEW k \in BatchIds, Live(k)'
      PROVE  /\ removing' # NoRemoval => removing'.batch = k
             /\ pc' = "idle" => /\ Held(rows'[k]) \subseteq Existing' \cup {removing'.id}
                                /\ Held(rows'[k]) \cap Landed' = {}
  BY <1>2, LandingRests, RemovalLive
<1>3. ASSUME pc' # "idle"
      PROVE  /\ Wanted' \subseteq Existing' \cup {removing'.id}
             /\ Flatten(b'.pending) \cap Landed' = {}
             /\ pc' # "land" => Wanted' \cap Landed' = {}
  <2>1. CASE pc = "idle"
    <3>1. Flatten(b'.pending) \subseteq Wanted'
      BY DEF Wanted
    <3>2. QED
      BY <1>3, <2>1, <3>1, LandingBegins
  <2>2. CASE pc # "idle"
    BY <1>3, <2>2, LandingGoesOn
  <2>3. QED
    BY <2>1, <2>2
<1>4. Existing' \cap Landed' \subseteq IF pc' = "land" THEN todo' ELSE {}
  BY LandedGone
<1>5. \A e \in Landed' : entries'[e].pr # NoPR
  BY LandedQueued
<1>6. QED
  BY <1>1, <1>2, <1>3, <1>4, <1>5, Zenon DEF LandingInv

(* The initial state satisfies ForgeInv and LandingInv.                    *)
LEMMA LandingInit == Init => ForgeInv /\ LandingInv
<1> SUFFICES ASSUME Init PROVE ForgeInv /\ LandingInv
  OBVIOUS
<1>1. /\ tip = 1 /\ last = 1 /\ \A s \in Shas : commits[s] = [base |-> NoSha, ids |-> {}]
      /\ \A s \in Shas, c \in Contexts : reports[s][c] = <<>>
      /\ pc = "idle" /\ removing = NoRemoval /\ ~ dirty
      /\ Existing = {} /\ \A k \in BatchIds : ~ Live(k)
  <2>1. ~ dirty
    BY Zenon DEF Init
  <2>2. \A k \in BatchIds : ~ Live(k)
    BY DEF Init, StoreInit, NoRow, Live
  <2>3. QED
    BY <2>1, <2>2 DEF Init, ForgeInit, StoreInit, NoEntry, Existing
<1>2. History = {1}
  <2>1. 1 \in Shas /\ {1} \in SUBSET Shas
    BY DEF Shas
  <2>2. Closed({1})
    BY <1>1, <2>1 DEF Closed
  <2>3. QED
    BY <1>1, <2>1, <2>2 DEF History
<1>3. Landed = {}
  BY <1>1, <1>2 DEF Landed, Shas
<1>4. ForgeInv
  BY <1>1, <1>2 DEF ForgeInv
<1>5. LandingInv
  BY <1>1, <1>3, Zenon DEF LandingInv
<1>6. QED
  BY <1>4, <1>5

(* What a batch still has to process is queued and new to the target, as   *)
(* long as no operation is cut off and no deletion fails.                  *)
THEOREM LandingCorrect ==
    ASSUME Faults \subseteq {"stamp", "unroute"}
    PROVE  Spec => [](TrackedInv /\ ForgeInv /\ LandingInv)
<1>1. "dequeue" \notin Faults
  OBVIOUS
<1>2. IInv /\ OrderInv /\ TrackedInv /\ [Next]_vars => TrackedInv'
  <2>1. ASSUME TrackedInv, UNCHANGED vars
        PROVE  TrackedInv'
    BY <2>1 DEF TrackedInv, MembersTracked, RemovalQuiet, Wanted, Live, Existing, vars,
       storeVars, opVars
  <2>2. QED
    BY <1>1, <2>1, TrackedStep
<1>3. IInv /\ OrderInv /\ TrackedInv /\ ForgeInv /\ LandingInv /\ [Next]_vars
        => ForgeInv' /\ LandingInv'
  <2>1. ASSUME ForgeInv, LandingInv, UNCHANGED vars
        PROVE  ForgeInv' /\ LandingInv'
    <3>1. History' = History /\ Landed' = Landed
      BY <2>1 DEF History, Closed, Landed, vars, forgeVars
    <3>2. ForgeInv'
      BY <2>1, <3>1 DEF ForgeInv, vars, forgeVars
    <3>3. LandingInv'
      <4>1. /\ Existing' = Existing /\ Wanted' = Wanted
            /\ \A k \in BatchIds : (Live(k)' <=> Live(k)) /\ Held(rows'[k]) = Held(rows[k])
        BY <2>1 DEF Existing, Wanted, Live, vars, storeVars, opVars
      <4>2. /\ entries' = entries /\ pc' = pc /\ removing' = removing /\ todo' = todo
            /\ b' = b /\ dirty' = dirty
        BY <2>1 DEF vars, storeVars, opVars
      <4>3. QED
        BY <2>1, <3>1, <4>1, <4>2, Zenon DEF LandingInv
    <3>4. QED
      BY <3>2, <3>3
  <2>2. QED
    BY <2>1, LandingStep, ForgeInvStep
<1>4. QED
  BY <1>2, <1>3, TrackedInit, LandingInit, Invariant, OrderCorrect, PTL DEF Spec

(***************************************************************************)
(* What a landing is made of.                                              *)
(***************************************************************************)

(* A fast-forward lands the members of a build the target has not had,     *)
(* which CI passed on the tip they land on, and all of which are queued.   *)
LEMMA FastForwardLands ==
    ASSUME IInv, OrderInv, LandingInv, ForgeInv, FastForward
    PROVE  /\ b.sha \in Builds /\ b.sha \notin History
           /\ commits[b.sha].base = tip /\ Tested(b.sha)
           /\ commits[b.sha].ids = b.current /\ b.current # {}
           /\ b.current \subseteq Existing \cup {removing.id}
           /\ b.current \cap Landed = {}
<1>1. /\ TypeOK /\ ShasBorn /\ pc = "pass" /\ CanFastForward(b.sha) /\ bid \in BatchIds
      /\ tip \in History
  BY HistoryClosed DEF FastForward, IInv, OneLive
<1>2. commits[b.sha].ids = b.current /\ b.current # {}
  BY <1>1 DEF OrderInv, SameBuild
<1>3. b.sha \in Builds
  BY <1>1, <1>2, ShasNat DEF Builds, ShasBorn, CanFastForward, Shas
<1>4. /\ b.current \subseteq Existing \cup {removing.id}
      /\ b.current \cap Landed = {}
  <2>1. b.current \subseteq Wanted
    BY <1>1 DEF Wanted
  <2>2. QED
    BY <1>1, <2>1 DEF LandingInv
<1>5. b.sha \notin History
  BY <1>2, <1>4 DEF Landed
<1>6. commits[b.sha].base = tip
  BY <1>1, <1>5 DEF CanFastForward
<1>7. Tested(b.sha)
  BY <1>1 DEF IInv, PassEarned, LandingInv
<1>8. QED
  BY <1>2, <1>3, <1>4, <1>5, <1>6, <1>7

(* As long as no operation is cut off and no deletion fails, all that a    *)
(* batch lands is queued when it lands, or was deleted by the poller while *)
(* the operation that lands it ran.                                        *)
THEOREM LandsQueued ==
    ASSUME Faults \subseteq {"stamp", "unroute"}
    PROVE  Spec => LandsOnlyQueued
<1>1. ASSUME IInv, OrderInv, LandingInv, ForgeInv, [Next]_vars
      PROVE  tip' # tip => commits'[tip'].ids \subseteq Existing \cup {removing.id}
  <2>1. CASE UNCHANGED vars
    BY <2>1 DEF vars, forgeVars
  <2>2. CASE FastForward
    BY <1>1, <2>2, FastForwardLands DEF FastForward
  <2>3. CASE TargetPush
    <3>1. /\ tip' = last + 1 /\ last + 1 \in Shas /\ commits \in [Shas -> Commit]
          /\ commits' = [commits EXCEPT ![last + 1] = [base |-> tip, ids |-> {}]]
      BY <1>1, <2>3 DEF IInv, TypeOK, ForgeTypeOK, TargetPush, Shas
    <3>2. QED
      BY <3>1
  <2>4. CASE Next /\ ~ FastForward /\ ~ TargetPush
    <3>1. tip' = tip
      BY <2>4, ForgeFrame DEF forgeVars, Build, CIReport
    <3>2. QED
      BY <3>1
  <2>5. QED
    BY <1>1, <2>1, <2>2, <2>3, <2>4
<1>2. IInv /\ OrderInv /\ LandingInv /\ ForgeInv /\ [Next]_vars
        => [tip' # tip => commits'[tip'].ids \subseteq Existing \cup {removing.id}]_vars
  BY <1>1
<1>3. QED
  BY <1>2, LandingCorrect, Invariant, OrderCorrect, PTL DEF Spec, LandsOnlyQueued

(* If no operation is cut off and clearing the results never fails, a      *)
(* commit reaches the target only if CI passed on that very commit.        *)
THEOREM LandsPassed ==
    ASSUME Faults \cap {"abort", "crash", "clear"} = {}
    PROVE  Spec => []LandsOnlyTested
<1>1. Init => ~ dirty
  BY Zenon DEF Init
<1>2. ~ dirty /\ [Next]_vars => ~ dirty'
  <2>1. CASE UNCHANGED vars
    BY <2>1, Zenon DEF vars
  <2>2. ASSUME Next, ~ dirty
        PROVE  ~ dirty'
    <3>1. ~ Abort /\ ~ AbortRemoval /\ ~ Crash /\ "clear" \notin Faults
      BY DEF Abort, AbortRemoval, Crash
    <3>2. CASE Operation
      BY <2>2, <3>1, <3>2, Zenon DEF Operation, Build, EjectOne, KeepOne, Sorted,
         SaveTesting, StampOne, AllStamped, ClearLedger, EvaluatePass, EvaluateWait,
         EvaluateFail, FastForward, FastForwardRaced, FastForwardDenied, LandOne, Settle,
         Rebuild, NextSlice, Finish, ReconcileDone, ReconcileForming, ReconcileTesting
    <3>3. CASE EntryPoint
      BY <2>2, <3>3, Zenon DEF EntryPoint, FormBatch, RetryForming, HandleTimeout,
         DropCheck, SaveCheck, RemovedTooLate, RemovedPending, RemovedCurrent
    <3>4. CASE World \/ Environment \/ Fault
      BY <2>2, <3>1, <3>4, Zenon DEF World, Environment, Fault, Enqueue, RemoveEntry,
         PromoteHead, Webhook, PollChecks, ClockPasses
    <3>5. QED
      BY <2>2, <3>2, <3>3, <3>4, Zenon DEF Next
  <2>3. QED
    BY <2>1, <2>2
<1>3. ~ dirty /\ LandsOnlyTestedOrDirty => LandsOnlyTested
  BY Zenon DEF LandsOnlyTestedOrDirty
<1>4. QED
  BY <1>1, <1>2, <1>3, LandsTested, PTL DEF Spec

(***************************************************************************)
(* BatchEngine implements MergeQueue.                                      *)
(***************************************************************************)

(* What CI said about a commit it has not reported on is nothing.          *)
LEMMA UntestedNew ==
    ASSUME NEW s \in Shas, \A c \in Contexts : reports[s][c] = <<>>
    PROVE  ~ Tested(s)
<1>1. \A c \in Contexts : ~ Reported(s, c, "success")
  BY DEF Reported
<1>2. QED
  BY <1>1 DEF Tested

(* Moving the target makes all earlier results worthless.                  *)
LEMMA PassedMoved ==
    ASSUME IInv, OrderInv, LandingInv, ForgeInv, Next, FastForward \/ TargetPush
    PROVE  PassedOnTip' = {}
<1>1. /\ TypeOK /\ last \in Nat /\ tip \in Nat /\ commits \in [Shas -> Commit]
      /\ tip' \notin History /\ tip' # NoSha
  <2>1. /\ TypeOK /\ last \in Nat /\ tip \in Nat /\ commits \in [Shas -> Commit]
    BY ShasNat DEF IInv, TypeOK, ForgeTypeOK, Shas
  <2>2. CASE FastForward
    <3>1. tip' = b.sha /\ b.sha \notin History /\ b.sha \in Builds
      BY <2>2, FastForwardLands DEF FastForward
    <3>2. b.sha # NoSha
      BY <3>1 DEF Builds, NoSha
    <3>3. QED
      BY <2>1, <3>1, <3>2
  <2>3. CASE TargetPush
    <3>1. tip' = last + 1 /\ History \subseteq 1 .. last
      BY <2>3 DEF TargetPush, ForgeInv
    <3>2. last + 1 \notin History /\ last + 1 # NoSha
      BY <2>1, <3>1 DEF NoSha
    <3>3. QED
      BY <2>1, <3>1, <3>2
  <2>4. QED
    BY <2>2, <2>3
<1>2. ASSUME NEW s \in Builds'
      PROVE  commits'[s].base # tip'
  <2>1. CASE FastForward
    <3>1. commits' = commits /\ last' = last /\ s \in Shas
      BY <1>1, <1>2, <2>1 DEF FastForward, Builds, TypeOK, ForgeTypeOK, Shas
    <3>2. QED
      BY <1>1, <3>1 DEF ForgeInv
  <2>2. CASE TargetPush
    <3>1. /\ commits' = [commits EXCEPT ![last + 1] = [base |-> tip, ids |-> {}]]
          /\ last' = last + 1 /\ last + 1 \in Shas
      BY <1>1, <2>2 DEF TargetPush, Shas, TypeOK, ForgeTypeOK
    <3>2. s \in Shas /\ commits'[s].ids # {}
      BY <1>1, <1>2, <3>1 DEF Builds, Shas
    <3>3. s # last + 1
      BY <1>1, <3>1, <3>2
    <3>4. commits'[s] = commits[s]
      BY <1>1, <3>1, <3>2, <3>3
    <3>5. QED
      BY <1>1, <3>2, <3>4 DEF ForgeInv
  <2>3. QED
    BY <2>1, <2>2
<1>3. QED
  BY <1>2 DEF PassedOnTip

(* A result may turn one more group into a passed one.                     *)
LEMMA PassedReport ==
    ASSUME TypeOK, Next, NEW s \in Shas, NEW c \in Contexts, NEW st \in ReportStates,
           CIReport(s, c, st)
    PROVE  /\ PassedOnTip' \in {PassedOnTip, PassedOnTip \cup {commits[s].ids}}
           /\ commits[s].ids # {} /\ commits[s].ids \in SUBSET Ids
<1>1. /\ commits' = commits /\ last' = last /\ tip' = tip
      /\ last \in Nat /\ last <= MaxCommits /\ commits \in [Shas -> Commit]
      /\ reports \in [Shas -> [Contexts -> Seq(ReportStates)]]
      /\ reports' = [reports EXCEPT ![s][c] = Append(@, st)]
      /\ s \in Builds
  BY DEF CIReport, TypeOK, ForgeTypeOK, Shas
<1>2. Builds' = Builds /\ Builds \subseteq Shas
  BY <1>1 DEF Builds, Shas
<1>3. \A r \in Builds : r # s => (Tested(r)' <=> Tested(r))
  <2>1. \A r \in Builds : r # s => reports'[r] = reports[r]
    BY <1>1, <1>2
  <2>2. QED
    BY <2>1 DEF Tested, Reported
<1>4. \A r \in Builds : Tested(r) => Tested(r)'
  BY <1>2, TestedStable
<1>5. commits[s].ids # {} /\ commits[s].ids \in SUBSET Ids
  BY <1>1 DEF Builds, Commit
<1>6. PassedOnTip \subseteq PassedOnTip'
  <2>1. ASSUME NEW g \in PassedOnTip
        PROVE  g \in PassedOnTip'
    <3>1. PICK r \in Builds : commits[r].base = tip /\ Tested(r) /\ g = commits[r].ids
      BY <2>1 DEF PassedOnTip
    <3>2. r \in Builds' /\ commits'[r].base = tip' /\ Tested(r)' /\ g = commits'[r].ids
      BY <1>1, <1>2, <1>4, <3>1
    <3>3. QED
      BY <3>2 DEF PassedOnTip
  <2>2. QED
    BY <2>1
<1>7. PassedOnTip' \subseteq PassedOnTip \cup {commits[s].ids}
  <2>1. ASSUME NEW g \in PassedOnTip'
        PROVE  g \in PassedOnTip \cup {commits[s].ids}
    <3>1. PICK r \in Builds' : commits'[r].base = tip' /\ Tested(r)' /\ g = commits'[r].ids
      BY <2>1 DEF PassedOnTip
    <3>2. r \in Builds /\ commits[r].base = tip /\ g = commits[r].ids
      BY <1>1, <1>2, <3>1
    <3>3. CASE r = s
      BY <3>2, <3>3
    <3>4. CASE r # s
      BY <1>3, <3>1, <3>2, <3>4 DEF PassedOnTip
    <3>5. QED
      BY <3>3, <3>4
  <2>2. QED
    BY <2>1
<1>8. QED
  BY <1>5, <1>6, <1>7

(* No other step passes anything: a new build has not been tested yet.     *)
LEMMA PassedKept ==
    ASSUME IInv, ForgeInv, Next, ~ FastForward, ~ TargetPush,
           ~ \E s \in Shas, c \in Contexts, st \in ReportStates : CIReport(s, c, st)
    PROVE  PassedOnTip' = PassedOnTip
<1>1. /\ TypeOK /\ last \in Nat /\ last <= MaxCommits /\ commits \in [Shas -> Commit]
      /\ tip' = tip /\ reports' = reports
      /\ Builds \subseteq Shas
  BY ForgeFrame DEF IInv, TypeOK, ForgeTypeOK, forgeVars, Build, Builds, Shas
<1>2. CASE commits' = commits /\ last' = last
  BY <1>1, <1>2 DEF PassedOnTip, Builds, Tested, Reported
<1>3. CASE ~ (commits' = commits /\ last' = last)
  <2>1. PICK ids : /\ last' = last + 1 /\ last + 1 \in Shas
                   /\ commits' = [commits EXCEPT ![last + 1] = [base |-> tip, ids |-> ids]]
    <3>1. Build
      BY <1>3, ForgeFrame DEF forgeVars
    <3>2. \E ids : StackOnTip(ids)
      BY <1>3, <3>1 DEF Build
    <3>3. PICK ids : StackOnTip(ids)
      BY <3>2
    <3>4. last + 1 \in Shas
      BY <1>1, <3>3 DEF StackOnTip, Shas
    <3>5. QED
      BY <3>3, <3>4 DEF StackOnTip
  <2>2. \A r \in Shas : Tested(r)' <=> Tested(r)
    BY <1>1 DEF Tested, Reported
  <2>3. ~ Tested(last + 1)
    BY <1>1, <2>1, UntestedNew DEF ForgeInv
  <2>4. \A r \in Shas : r # last + 1 =>
          commits'[r] = commits[r] /\ (r \in Builds' <=> r \in Builds)
    <3>1. \A r \in Shas : r # last + 1 => commits'[r] = commits[r]
      BY <1>1, <2>1
    <3>2. \A r \in Shas : r # last + 1 => (r \in 1 .. last' <=> r \in 1 .. last)
      BY <1>1, <2>1 DEF Shas
    <3>3. QED
      BY <3>1, <3>2 DEF Builds
  <2>5. Builds' \subseteq Shas
    BY <1>1, <2>1 DEF Builds, Shas
  <2>6. \A r : r \in Builds' /\ commits'[r].base = tip' /\ Tested(r)'
                 <=> r \in Builds /\ commits[r].base = tip /\ Tested(r)
    <3>1. last + 1 \notin Builds
      BY <1>1 DEF Builds
    <3>2. QED
      BY <1>1, <2>1, <2>2, <2>3, <2>4, <2>5, <3>1
  <2>7. \A r \in Builds : commits[r].base = tip /\ Tested(r) => commits'[r] = commits[r]
    BY <1>1, <2>3, <2>4
  <2>8. QED
    BY <2>6, <2>7 DEF PassedOnTip
<1>4. QED
  BY <1>2, <1>3

(* Steps that neither enqueue, dequeue nor report leave the queue alone.   *)
LEMMA QueueKept ==
    ASSUME Faults \subseteq {"stamp", "unroute"}, IInv, TrackedInv, LandingInv, Next,
           ~ \E p \in PRs, e \in Ids : Enqueue(p, e),
           ~ \E e \in Ids : RemoveEntry(e)
    PROVE  /\ ~ EjectOne /\ ~ LandOne => Existing' = Existing
           /\ ~ RemovedTooLate /\ ~ RemovedPending /\ ~ RemovedCurrent
                => removing' = removing
<1>1. TypeOK
  BY DEF IInv
<1>2. Existing' \subseteq Existing
  BY <1>1, ExistingMoves
<1>3. ASSUME ~ EjectOne, ~ LandOne, NEW x \in Existing
      PROVE  x \in Existing'
  <2>1. x \in Ids
    BY DEF Existing
  <2>2. QED
    BY <1>3, <2>1, ExistingGone
<1>4. QED
  BY <1>2, <1>3, NoCutOff

(* What the poller is about to report, as a set.                           *)
LEMMA LeavingSet ==
    ASSUME TypeOK
    PROVE  /\ removing = NoRemoval => Leaving = {}
           /\ removing # NoRemoval => Leaving = {removing.id}
BY DEF Leaving, NoRemoval, TypeOK, EngineTypeOK, Removal, Ids

(* Every step is one of MergeQueue's or changes nothing it sees: an entry  *)
(* joins or leaves ...                                                     *)
LEMMA JoinsOrLeaves ==
    ASSUME Faults \subseteq {"stamp", "unroute"}, IInv, OrderInv, TrackedInv, LandingInv,
           ForgeInv, Next,
           \/ \E p \in PRs, e \in Ids : Enqueue(p, e)
           \/ \E e \in Ids : RemoveEntry(e)
           \/ EjectOne \/ LandOne
    PROVE  [MQ!Next]_(MQ!vars)
<1>1. TypeOK /\ TypeOK' /\ OneEntryPerPR
  BY TypeStep DEF IInv
<1>2. forgeVars' = forgeVars /\ ~ FastForward /\ ~ TargetPush
  <2>1. forgeVars' = forgeVars
    BY DEF Enqueue, RemoveEntry, EjectOne, LandOne
  <2>2. ~ FastForward /\ ~ TargetPush
    <3>1. \/ \E p \in PRs, e \in Ids : Enqueue(p, e)
          \/ \E e \in Ids : RemoveEntry(e)
          => opVars' = opVars
      BY DEF Enqueue, RemoveEntry
    <3>2. FastForward => opVars' # opVars /\ pc = "pass"
      BY DEF FastForward, Goto, opVars
    <3>3. TargetPush => last' # last
      BY <1>1 DEF TargetPush, TypeOK, ForgeTypeOK, Shas
    <3>4. QED
      BY <2>1, <3>1, <3>2, <3>3 DEF forgeVars, EjectOne, LandOne
  <2>3. QED
    BY <2>1, <2>2
<1>3. Landed' = Landed
  BY <1>2, LandedStep
<1>4. PassedOnTip' = PassedOnTip
  BY <1>2 DEF PassedOnTip, Builds, Tested, Reported, forgeVars
<1>5. ASSUME NEW p \in PRs, NEW e \in Ids, Enqueue(p, e)
      PROVE  MQ!Join(e)
  <2>1. removing' = removing /\ e \notin Existing /\ e \notin Landed
    BY <1>5 DEF Enqueue, Existing, NoEntry, LandingInv
  <2>2. Existing' = Existing \cup {e}
    <3>1. entries' = Enqueued(p, e)
      BY <1>5 DEF Enqueue
    <3>2. \A x \in Ids : x # e => entries'[x] = entries[x]
      BY <1>1, <3>1, EntryFields
    <3>3. entries'[e].state = "queued"
      BY <1>1, <3>1, EntryFields
    <3>4. QED
      BY <3>2, <3>3 DEF Existing
  <2>3. Leaving' = Leaving
    BY <2>1 DEF Leaving
  <2>4. QED
    BY <1>3, <1>4, <2>1, <2>2, <2>3 DEF MQ!Join
<1>6. ASSUME NEW e \in Ids, RemoveEntry(e)
      PROVE  MQ!Leave(e)
  <2>1. /\ e \in Existing /\ removing = NoRemoval
        /\ entries' = Dequeued(entries[e].pr)
        /\ removing' = NoRemoval \/ removing'.id = e
    BY <1>6 DEF RemoveEntry, PollerFree
  <2>2. Existing' = Existing \ {e}
    <3>1. \A x \in Ids : /\ entries[x].pr = entries[e].pr => entries'[x].state = "absent"
                         /\ entries[x].pr # entries[e].pr => entries'[x] = entries[x]
      BY <1>1, <2>1, EntryFields
    <3>2. \A x \in Existing : entries[x].pr = entries[e].pr => x = e
      BY <1>1, <2>1 DEF OneEntryPerPR
    <3>3. QED
      BY <2>1, <3>1, <3>2 DEF Existing
  <2>3. Leaving' \in {Leaving, {e}}
    <3>1. Leaving = {}
      BY <1>1, <2>1, LeavingSet
    <3>2. CASE removing' = NoRemoval
      BY <3>1, <3>2 DEF Leaving, NoRemoval
    <3>3. CASE removing'.id = e
      BY <3>3 DEF Leaving, NoRemoval, Ids
    <3>4. QED
      BY <2>1, <3>2, <3>3
  <2>4. QED
    BY <1>3, <1>4, <2>1, <2>2, <2>3 DEF MQ!Leave
<1>7. CASE EjectOne \/ LandOne
  <2> DEFINE e == Least(todo)
  <2>1. /\ todo # {} /\ pc \in {"sort", "land"} /\ removing' = removing
        /\ entries' = Dequeued(entries[e].pr)
    BY <1>7 DEF EjectOne, LandOne
  <2>2. e \in Ids /\ e \in todo
    BY <1>1, <2>1, TodoLeast
  <2>3. \A x \in Existing : entries[x].pr = entries[e].pr => x = e
    BY <2>1, LoopDequeues
  <2> HIDE DEF e
  <2>4. \A x \in Ids : /\ entries[x].pr = entries[e].pr => entries'[x].state = "absent"
                       /\ entries[x].pr # entries[e].pr => entries'[x] = entries[x]
    BY <1>1, <2>1, EntryFields
  <2>5. Existing' = Existing \ {e}
    BY <2>2, <2>3, <2>4 DEF Existing
  <2>6. Leaving' = Leaving
    BY <2>1 DEF Leaving
  <2>7. CASE e \in Existing
    <3>1. MQ!Leave(e)
      BY <1>3, <1>4, <2>5, <2>6, <2>7 DEF MQ!Leave
    <3>2. QED
      BY <2>2, <3>1 DEF MQ!Next
  <2>8. CASE e \notin Existing
    BY <1>3, <1>4, <2>5, <2>6, <2>8 DEF MQ!vars
  <2>9. QED
    BY <2>7, <2>8
<1>8. QED
  BY <1>5, <1>6, <1>7 DEF MQ!Next

(* ... or a group lands, the target is pushed to, a removal is reported or *)
(* CI passes a group.                                                      *)
LEMMA LandsOrPasses ==
    ASSUME Faults \subseteq {"stamp", "unroute"}, IInv, OrderInv, TrackedInv, LandingInv,
           ForgeInv, Next,
           ~ \E p \in PRs, e \in Ids : Enqueue(p, e),
           ~ \E e \in Ids : RemoveEntry(e),
           ~ EjectOne, ~ LandOne
    PROVE  [MQ!Next]_(MQ!vars)
<1>1. TypeOK /\ TypeOK' /\ Existing' = Existing
  BY TypeStep, QueueKept DEF IInv
<1>2. CASE FastForward
  <2>1. /\ removing' = removing /\ PassedOnTip' = {} /\ Landed' = Landed \cup b.current
    BY <1>2, LandedStep, PassedMoved DEF FastForward
  <2>2. b.current \in PassedOnTip
    BY <1>2, FastForwardLands DEF PassedOnTip
  <2>3. b.current \subseteq Existing \cup Leaving
    <3>1. b.current \subseteq Existing \cup {removing.id} /\ b.current \subseteq Ids
      BY <1>1, <1>2, FastForwardLands DEF TypeOK, EngineTypeOK, OpTypeOK, Row
    <3>2. removing = NoRemoval => removing.id \notin Ids
      BY DEF NoRemoval, Ids
    <3>3. QED
      BY <1>1, <3>1, <3>2, LeavingSet
  <2>4. b.current \cap Landed = {} /\ b.current \in SUBSET Ids
    BY <1>1, <1>2, FastForwardLands DEF TypeOK, EngineTypeOK, OpTypeOK, Row
  <2>5. Leaving' = Leaving
    BY <2>1 DEF Leaving
  <2>6. MQ!Land(b.current)
    BY <1>1, <2>1, <2>2, <2>3, <2>4, <2>5 DEF MQ!Land
  <2>7. QED
    BY <2>4, <2>6 DEF MQ!Next
<1>3. CASE TargetPush
  <2>1. PassedOnTip' = {} /\ Landed' = Landed
    <3>1. ~ FastForward
      BY <1>1, <1>3 DEF FastForward, TargetPush, TypeOK, ForgeTypeOK, Shas
    <3>2. QED
      BY <1>3, <3>1, LandedStep, PassedMoved
  <2>2. removing' = removing
    BY <1>1, <1>3, QueueKept DEF RemovedTooLate, RemovedPending, RemovedCurrent,
       forgeVars, TargetPush, TypeOK, ForgeTypeOK, Shas
  <2>3. Leaving' = Leaving
    BY <2>2 DEF Leaving
  <2>4. QED
    BY <1>1, <2>1, <2>3 DEF MQ!Next, MQ!Push
<1>4. ASSUME NEW s \in Shas, NEW c \in Contexts, NEW st \in ReportStates,
             CIReport(s, c, st), ~ FastForward
      PROVE  [MQ!Next]_(MQ!vars)
  <2>1. Landed' = Landed
    BY <1>4, LandedStep
  <2>2. CASE removing' = removing
    <3>1. Leaving' = Leaving
      BY <2>2 DEF Leaving
    <3>2. /\ PassedOnTip' \in {PassedOnTip, PassedOnTip \cup {commits[s].ids}}
          /\ commits[s].ids # {} /\ commits[s].ids \in SUBSET Ids
      BY <1>1, <1>4, PassedReport
    <3>3. CASE PassedOnTip' = PassedOnTip
      BY <1>1, <2>1, <3>1, <3>3 DEF MQ!vars
    <3>4. CASE PassedOnTip' = PassedOnTip \cup {commits[s].ids}
      <4>1. MQ!Pass(commits[s].ids)
        BY <1>1, <2>1, <3>1, <3>2, <3>4 DEF MQ!Pass
      <4>2. QED
        BY <3>2, <4>1 DEF MQ!Next
    <3>5. QED
      BY <3>2, <3>3, <3>4
  <2>3. CASE removing' # removing
    <3>1. forgeVars' = forgeVars
      BY <2>3, QueueKept DEF RemovedTooLate, RemovedPending, RemovedCurrent
    <3>2. reports' # reports
      <4>1. /\ reports \in [Shas -> [Contexts -> Seq(ReportStates)]]
            /\ reports' = [reports EXCEPT ![s][c] = Append(@, st)]
        BY <1>1, <1>4 DEF CIReport, TypeOK, ForgeTypeOK
      <4>2. reports'[s][c] = Append(reports[s][c], st) /\ reports[s][c] \in Seq(ReportStates)
        BY <4>1
      <4>3. Len(reports'[s][c]) # Len(reports[s][c])
        BY <4>2
      <4>4. QED
        BY <4>3
    <3>3. QED
      BY <3>1, <3>2 DEF forgeVars
  <2>4. QED
    BY <2>2, <2>3
<1>5. CASE /\ ~ FastForward /\ ~ TargetPush
           /\ ~ \E s \in Shas, c \in Contexts, st \in ReportStates : CIReport(s, c, st)
  <2>1. Landed' = Landed /\ PassedOnTip' = PassedOnTip
    BY <1>5, LandedStep, PassedKept
  <2>2. CASE RemovedTooLate \/ RemovedPending \/ RemovedCurrent
    <3>1. Leaving' = {}
      BY <2>2 DEF RemovedTooLate, RemovedPending, RemovedCurrent, Leaving, NoRemoval
    <3>2. QED
      BY <1>1, <2>1, <3>1 DEF MQ!Next, MQ!Gone
  <2>3. CASE ~ RemovedTooLate /\ ~ RemovedPending /\ ~ RemovedCurrent
    <3>1. Leaving' = Leaving
      BY <2>3, QueueKept DEF Leaving
    <3>2. QED
      BY <1>1, <2>1, <3>1 DEF MQ!vars
  <2>4. QED
    BY <2>2, <2>3
<1>6. QED
  BY <1>2, <1>3, <1>4, <1>5

(* As long as no operation is cut off and no deletion fails, the engine    *)
(* implements the abstract queue: it lands whole groups that CI passed on  *)
(* the very target they land on, that are queued and that are new to it.   *)
THEOREM Implements ==
    ASSUME Faults \subseteq {"stamp", "unroute"}
    PROVE  Spec => ImplementsMergeQueue
<1>1. Init => MQ!Init
  <2>1. SUFFICES ASSUME Init PROVE MQ!Init
    OBVIOUS
  <2>2. Existing = {} /\ removing = NoRemoval /\ tip = 1
        /\ \A s \in Shas : commits[s] = [base |-> NoSha, ids |-> {}]
    BY <2>1 DEF Init, ForgeInit, StoreInit, NoEntry, Existing
  <2>3. Leaving = {}
    BY <2>2 DEF Leaving, NoRemoval
  <2>4. Landed = {}
    <3>1. \A s \in History : commits[s].ids = {}
      BY <2>2 DEF History
    <3>2. QED
      BY <3>1 DEF Landed
  <2>5. PassedOnTip = {}
    <3>1. last = 1
      BY <2>1 DEF Init, ForgeInit
    <3>2. Builds = {}
      BY <2>2, <3>1 DEF Builds, Shas
    <3>3. QED
      BY <3>2 DEF PassedOnTip
  <2>6. QED
    BY <2>2, <2>3, <2>4, <2>5 DEF MQ!Init
<1>2. ASSUME IInv, OrderInv, TrackedInv, LandingInv, ForgeInv, [Next]_vars
      PROVE  [MQ!Next]_(MQ!vars)
  <2>1. CASE UNCHANGED vars
    <3>1. Existing' = Existing /\ Leaving' = Leaving
      BY <2>1 DEF vars, storeVars, Existing, Leaving
    <3>2. Landed' = Landed
      BY <2>1 DEF vars, forgeVars, Landed, History, Closed
    <3>3. PassedOnTip' = PassedOnTip
      BY <2>1 DEF vars, forgeVars, PassedOnTip, Builds, Tested, Reported
    <3>4. QED
      BY <3>1, <3>2, <3>3 DEF MQ!vars
  <2>2. QED
    BY <1>2, <2>1, JoinsOrLeaves, LandsOrPasses
<1>3. IInv /\ OrderInv /\ TrackedInv /\ LandingInv /\ ForgeInv /\ [Next]_vars
        => [MQ!Next]_(MQ!vars)
  BY <1>2
<1>4. QED
  BY <1>1, <1>3, LandingCorrect, Invariant, OrderCorrect, PTL
     DEF Spec, ImplementsMergeQueue, MQ!Spec

(***************************************************************************)
(* Results meet on the head of the build.                                  *)
(***************************************************************************)

(* Where a new check event comes from.                                     *)
LEMMA NewCall ==
    ASSUME TypeOK, Next, NEW c \in calls', c \notin calls
    PROVE  /\ rows' = rows /\ entries' = entries /\ opVars' = opVars
           /\ \/ /\ c.id \in Existing /\ c.sha = entries[c.id].sha /\ c.sha # NoSha
                 /\ \A f \in Existing : entries[f].sha = c.sha => c.id <= f
              \/ \E k \in BatchIds :
                   /\ Testing(k) /\ rows[k].current # {} /\ c.batch = k
                   /\ c.sha = rows[k].sha /\ c.id = Least(rows[k].current)
<1>1. ASSUME NEW s \in Shas, NEW x \in Contexts, NEW st \in ReportStates, Webhook(s, x, st)
      PROVE  /\ rows' = rows /\ entries' = entries /\ opVars' = opVars
             /\ c.id \in Existing /\ c.sha = entries[c.id].sha /\ c.sha # NoSha
             /\ \A f \in Existing : entries[f].sha = c.sha => c.id <= f
  <2>1. PICK e \in FindEntryForCommit(s) :
             calls' = calls \cup
                  {[by |-> "webhook", id |-> e, batch |-> entries[e].batch,
                    sha |-> s, ctx |-> x, state |-> st]}
    BY <1>1 DEF Webhook
  <2>2. c.id = e /\ c.sha = s
    BY <2>1
  <2>3. /\ e \in Existing /\ entries[e].sha = s /\ s # NoSha
        /\ \A f \in Existing : entries[f].sha = s => e <= f
    BY DEF FindEntryForCommit, Shas, NoSha
  <2>4. QED
    BY <1>1, <2>2, <2>3 DEF Webhook, storeVars
<1>2. ASSUME NEW k \in BatchIds, PollChecks(k)
      PROVE  /\ rows' = rows /\ entries' = entries /\ opVars' = opVars
             /\ Testing(k) /\ rows[k].current # {} /\ c.batch = k
             /\ c.sha = rows[k].sha /\ c.id = Least(rows[k].current)
  <2>1. \E x, st : c = [by |-> "poller", id |-> Least(rows[k].current), batch |-> k,
                        sha |-> rows[k].sha, ctx |-> x, state |-> st]
    BY <1>2 DEF PollChecks
  <2>2. QED
    BY <1>2, <2>1 DEF PollChecks, Testing, storeVars
<1>3. QED
  BY <1>1, <1>2, CallsFrame

(* How an existing entry comes to carry another commit: it is routed to    *)
(* the build, or it is in the half that goes back to the stack.            *)
LEMMA ShaMoves ==
    ASSUME TypeOK, OneLive, OrderInv, Next, NEW x \in Existing, x \in Existing',
           entries'[x].sha # entries[x].sha
    PROVE  \/ StampOne
           \/ \E k \in BatchIds :
                /\ Testing(k) /\ pc \in {"idle", "eval"}
                /\ x \in rows[k].current \ FirstHalf(rows[k].current)
                /\ entries' = Unrouted(rows[k].current \ FirstHalf(rows[k].current))
<1>1. x \in Ids /\ entries[x].state # "absent" /\ entries'[x].state # "absent"
  BY DEF Existing
<1>2. ASSUME NEW ids, entries' = Unrouted(ids)
      PROVE  x \in ids
  BY <1>1, <1>2 DEF Unrouted
<1>3. ~ \E k \in BatchIds : FormBatch(k)
  BY <1>1, EntryFields DEF FormBatch
<1>4. ~ EjectOne /\ ~ LandOne /\ ~ \E e \in Ids : RemoveEntry(e)
  <2>1. \A p : entries' # Dequeued(p)
    BY <1>1, EntryFields
  <2>2. QED
    BY <2>1 DEF EjectOne, LandOne, RemoveEntry
<1>5. ~ \E p \in PRs, e \in Ids : Enqueue(p, e)
  <2>1. ASSUME NEW p, NEW e, entries' = Enqueued(p, e)
        PROVE  e = x
    BY <1>1, <2>1, EntryFields
  <2>2. \A p \in PRs : ~ Enqueue(p, x)
    BY <1>1 DEF Enqueue, NoEntry
  <2>3. QED
    BY <2>1, <2>2 DEF Enqueue
<1>6. ~ PromoteHead
  <2>1. ASSUME NEW y, entries' = [entries EXCEPT ![y].state = "success"]
        PROVE  FALSE
    <3>1. entries[x] \in Entry /\ entries \in [Ids -> Entry]
      BY <1>1 DEF TypeOK, StoreTypeOK
    <3>2. CASE y = x
      BY <1>1, <2>1, <3>1, <3>2 DEF Entry
    <3>3. CASE y # x
      BY <1>1, <2>1, <3>1, <3>3
    <3>4. QED
      BY <3>2, <3>3
  <2>2. QED
    BY <2>1 DEF PromoteHead
<1>7. ASSUME NEW k \in BatchIds, HandleTimeout(k)
      PROVE  /\ Testing(k) /\ pc = "idle"
             /\ entries' = Unrouted(rows[k].current \ FirstHalf(rows[k].current))
  BY <1>1, <1>7 DEF HandleTimeout, HandleFail, Testing
<1>8. ASSUME EvaluateFail
      PROVE  /\ bid \in BatchIds /\ Testing(bid) /\ pc = "eval"
             /\ entries' = Unrouted(rows[bid].current \ FirstHalf(rows[bid].current))
  <2>1. pc = "eval" /\ HandleFail(by, bid, b)
    BY <1>8 DEF EvaluateFail
  <2>2. bid \in BatchIds
    BY <2>1 DEF OneLive
  <2>3. Testing(bid) /\ rows[bid].current = b.current
    BY <2>1 DEF OrderInv, SameBuild
  <2>4. entries' = Unrouted(b.current \ FirstHalf(b.current))
    BY <2>1 DEF HandleFail
  <2>5. QED
    BY <2>1, <2>2, <2>3, <2>4
<1>9. QED
  BY <1>1, <1>2, <1>3, <1>4, <1>5, <1>6, <1>7, <1>8, EntriesFrame

(* An entry that was queued once and exists now existed before.            *)
LEMMA OwnedExisted ==
    ASSUME TypeOK, Next, NEW x \in Ids, Owned(x), x \in Existing'
    PROVE  x \in Existing
BY EntriesMove DEF Owned, Enqueue, NoEntry, Existing

(* BuiltUnknown is preserved by every step.                                *)
LEMMA BuiltUnknownStep ==
    ASSUME TypeOK, ShasBorn, BuiltUnknown, Next
    PROVE  BuiltUnknown'
<1> SUFFICES ASSUME pc' \in {"sort", "save"}, built' # NoSha
             PROVE  /\ \A e \in Ids : entries'[e].sha # built'
                    /\ \A k \in BatchIds : rows'[k].sha # built'
                    /\ \A c \in calls' : c.sha # built'
  BY DEF BuiltUnknown
<1>1. \/ Build /\ built' = last + 1
      \/ pc \in {"sort", "save"} /\ built' = built /\ ~ SaveTesting
  <2>1. CASE opVars' = opVars
    BY <2>1 DEF opVars, SaveTesting, Goto
  <2>2. CASE \/ FastForwardRaced \/ FastForwardDenied \/ EvaluateFail
             \/ \E k \in BatchIds : HandleTimeout(k)
    BY <2>2 DEF FastForwardRaced, FastForwardDenied, EvaluateFail, HandleTimeout,
       HandleFail, EjectAll, Goto
  <2>3. CASE Build
    BY <2>3 DEF Build
  <2>4. CASE EjectOne \/ KeepOne \/ Sorted
    BY <2>4 DEF EjectOne, KeepOne, Sorted, SaveTesting
  <2>5. ~ SaveTesting /\ ~ StampOne /\ ~ AllStamped /\ ~ EvaluatePass
    BY DEF SaveTesting, StampOne, AllStamped, EvaluatePass, Goto
  <2>6. /\ ~ \E c \in calls : SaveCheck(c)
        /\ ~ \E k \in BatchIds : ReconcileTesting(k)
    BY DEF SaveCheck, ReconcileTesting, Enter
  <2>7. QED
    BY <2>1, <2>2, <2>3, <2>4, <2>5, <2>6, OpFrame
<1>2. CASE Build /\ built' = last + 1
  <2>1. entries' = entries /\ rows' = rows /\ calls' = calls /\ last \in Nat
    BY <1>2 DEF Build, storeVars, TypeOK, ForgeTypeOK, Shas
  <2>2. QED
    BY <1>2, <2>1, ShasNat DEF ShasBorn
<1>3. CASE pc \in {"sort", "save"} /\ built' = built /\ ~ SaveTesting
  <2>1. /\ \A e \in Ids : entries[e].sha # built
        /\ \A k \in BatchIds : rows[k].sha # built
        /\ \A c \in calls : c.sha # built
    BY <1>3 DEF BuiltUnknown
  <2>2. \A e \in Ids : entries'[e].sha # built
    <3>1. ~ StampOne
      BY <1>3 DEF StampOne
    <3>2. \A p \in PRs, e \in Ids : Enqueue(p, e) => entries'[e].sha = NoSha
      BY EntryFields DEF Enqueue
    <3>3. QED
      BY <1>3, <2>1, <3>1, <3>2, EntriesMove
  <2>3. \A k \in BatchIds : rows'[k].sha # built
    <3>1. rows \in [BatchIds -> Row]
      BY DEF TypeOK, StoreTypeOK
    <3>2. ASSUME NEW j \in BatchIds, ClockPasses(j), NEW k \in BatchIds
          PROVE  rows'[k].sha = rows[k].sha
      <4>1. rows' = [rows EXCEPT ![j].late = TRUE]
        BY <3>2 DEF ClockPasses
      <4>2. CASE k = j
        <5>1. rows'[k] = [rows[k] EXCEPT !.late = TRUE] /\ rows[k] \in Row
          BY <3>1, <4>1, <4>2
        <5>2. QED
          BY <5>1, RowFields
      <4>3. CASE k # j
        BY <3>1, <4>1, <4>3
      <4>4. QED
        BY <4>2, <4>3
    <3>3. rows' = rows \/ \E j \in BatchIds : ClockPasses(j)
      BY <1>3, RowsFrame DEF Rebuild, NextSlice, Finish, RemovedPending, FormBatch
    <3>4. QED
      BY <2>1, <3>2, <3>3
  <2>4. \A c \in calls' : c.sha # built
    <3>1. Existing \subseteq Ids
      BY DEF Existing
    <3>2. ASSUME NEW c \in calls', c \notin calls
          PROVE  c.sha # built
      BY <2>1, <3>1, <3>2, NewCall
    <3>3. QED
      BY <2>1, <3>2
  <2>5. QED
    BY <1>3, <2>2, <2>3, <2>4
<1>4. QED
  BY <1>1, <1>2, <1>3

(* A build is routed to its members from the head on.                      *)
LEMMA RoutedFromHead ==
    ASSUME IInv, OrderInv, HeadInv, Next, NEW k \in BatchIds, Testing(k)',
           NEW e \in rows'[k].current \cap Existing',
           NEW f \in rows'[k].current \cap Existing',
           f < e, entries'[e].sha = rows'[k].sha
    PROVE  entries'[f].sha = rows'[k].sha
<1>1. /\ TypeOK /\ OneLive /\ OneEntryPerPR /\ RowsOwned /\ TestingBuilt
      /\ LoopHeld /\ RestampHeld /\ BuildTracked
      /\ rows \in [BatchIds -> Row] /\ e \in Ids /\ f \in Ids
  BY DEF IInv, TypeOK, StoreTypeOK, Existing
<1>2. CASE SaveTesting
  <2>1. (k = bid /\ rows'[k].sha = built) \/ ~ SaveTesting
    BY <1>1, TestingMoves
  <2>2. entries' = entries /\ pc = "save"
    BY <1>2 DEF SaveTesting
  <2>3. built # NoSha
    BY <1>1, <2>2 DEF BuildTracked
  <2>4. entries[e].sha # built
    BY <1>1, <2>2, <2>3 DEF HeadInv, BuiltUnknown
  <2>5. QED
    BY <1>2, <2>1, <2>2, <2>4
<1>3. CASE ~ SaveTesting
  <2> DEFINE s == rows[k].sha
             cur == rows[k].current
  <2>1. Testing(k) /\ rows'[k].sha = s /\ rows'[k].current = cur
    BY <1>1, <1>3, TestingMoves
  <2>2. s # NoSha /\ Live(k)
    BY <1>1, <2>1 DEF TestingBuilt, Testing, Live
  <2>3. e \in Existing /\ f \in Existing /\ e \in cur /\ f \in cur
    <3>1. e \in cur /\ f \in cur
      BY <2>1
    <3>2. Owned(e) /\ Owned(f)
      BY <1>1, <3>1 DEF RowsOwned, Held
    <3>3. QED
      BY <1>1, <3>1, <3>2, OwnedExisted
  <2>4. StampOne => /\ bid = k /\ b.sha = s /\ b.current = cur
                    /\ pc \in {"stamp", "restamp"} /\ todo # {}
    <3>1. ASSUME StampOne
          PROVE  /\ bid = k /\ b.sha = s /\ b.current = cur
                 /\ pc \in {"stamp", "restamp"} /\ todo # {}
      <4>1. pc \in {"stamp", "restamp"} /\ todo # {}
        BY <3>1 DEF StampOne
      <4>2. bid = k
        BY <1>1, <2>2, <4>1 DEF OneLive
      <4>3. SameBuild(rows[bid], b)
        BY <4>1 DEF OrderInv
      <4>4. QED
        BY <4>1, <4>2, <4>3 DEF SameBuild
    <3>2. QED
      BY <3>1
  <2>5. entries'[f].sha = entries[f].sha => entries[f].sha = s
    <3>1. CASE entries'[e].sha = entries[e].sha
      BY <2>1, <2>3, <3>1 DEF HeadInv
    <3>2. CASE entries'[e].sha # entries[e].sha /\ StampOne
      <4> DEFINE m == Least(todo)
      <4>1. m \in todo /\ m \in Ids /\ \A y \in todo : m <= y
        <5>1. todo \in SUBSET Nat
          BY <1>1 DEF TypeOK, EngineTypeOK, OpTypeOK, Ids
        <5>2. QED
          BY <1>1, <2>4, <3>2, <5>1, TodoLeast, LeastType
      <4>2. entries[e].pr = entries[m].pr
        <5>1. \/ entries' = Stamped(entries[m].pr, b.sha)
              \/ entries' = entries
          BY <3>2 DEF StampOne
        <5>2. QED
          BY <1>1, <3>2, <5>1 DEF Stamped
      <4> HIDE DEF m
      <4>3. m \in Existing
        BY <1>1, <2>3, <2>4, <3>2, <4>1, <4>2 DEF LoopHeld, RestampHeld
      <4>4. e = m
        BY <1>1, <2>3, <4>2, <4>3 DEF OneEntryPerPR
      <4>5. f \notin todo
        BY <1>1, <4>1, <4>4 DEF Ids
      <4>6. entries[f].sha = b.sha
        BY <2>3, <2>4, <3>2, <4>5 DEF HeadInv
      <4>7. QED
        BY <2>4, <3>2, <4>6
    <3>3. CASE entries'[e].sha # entries[e].sha /\ ~ StampOne
      <4>1. PICK j \in BatchIds :
                entries' = Unrouted(rows[j].current \ FirstHalf(rows[j].current))
                /\ e \in rows[j].current \ FirstHalf(rows[j].current)
        BY <1>1, <2>3, <3>3, ShaMoves
      <4>2. entries'[e].sha = NoSha
        <5>1. entries[e] \in Entry
          BY <1>1 DEF TypeOK, StoreTypeOK
        <5>2. QED
          BY <1>1, <4>1, <5>1 DEF Unrouted, Entry
      <4>3. QED
        BY <2>1, <2>2, <4>2
    <3>4. QED
      BY <3>1, <3>2, <3>3
  <2>6. CASE entries'[f].sha = entries[f].sha
    BY <2>1, <2>5, <2>6
  <2>7. CASE entries'[f].sha # entries[f].sha /\ StampOne
    <3>1. \/ entries' = Stamped(entries[Least(todo)].pr, b.sha)
          \/ entries' = entries
      BY <2>7 DEF StampOne
    <3>2. entries'[f].sha = b.sha
      BY <1>1, <2>7, <3>1, EntryFields
    <3>3. QED
      BY <2>1, <2>4, <2>7, <3>2
  <2>8. CASE entries'[f].sha # entries[f].sha /\ ~ StampOne
    <3>1. PICK j \in BatchIds :
              /\ Testing(j) /\ f \in rows[j].current \ FirstHalf(rows[j].current)
              /\ entries' = Unrouted(rows[j].current \ FirstHalf(rows[j].current))
      BY <1>1, <2>3, <2>8, ShaMoves
    <3>2. j = k
      BY <1>1, <2>2, <3>1 DEF OneLive, Testing, Live
    <3>3. cur \in SUBSET Ids
      BY <1>1 DEF Row
    <3>4. e \in cur \ FirstHalf(cur)
      <4>1. Before(FirstHalf(cur), cur \ FirstHalf(cur))
        BY <3>3, Halves
      <4>2. e \in FirstHalf(cur) => e < f
        BY <3>1, <3>2, <4>1 DEF Before
      <4>3. QED
        BY <1>1, <2>3, <4>2 DEF Ids
    <3>5. entries'[e].sha = NoSha
      <4>1. entries[e] \in Entry
        BY <1>1 DEF TypeOK, StoreTypeOK
      <4>2. QED
        BY <1>1, <3>1, <3>2, <3>4, <4>1 DEF Unrouted, Entry
    <3>6. QED
      BY <2>1, <2>2, <3>5
  <2>9. QED
    BY <2>6, <2>7, <2>8
<1>4. QED
  BY <1>2, <1>3

(* What the loop over the members has passed is routed to the build.       *)
LEMMA RoutedSoFar ==
    ASSUME "stamp" \notin Faults, IInv, OrderInv, HeadInv, Next,
           pc' \in {"stamp", "restamp"}, NEW f \in (b'.current \ todo') \cap Existing'
    PROVE  entries'[f].sha = b'.sha
<1>1. /\ TypeOK /\ OneLive /\ OneEntryPerPR /\ RowsOwned /\ f \in Ids
      /\ b \in Row
  BY DEF IInv, Existing, TypeOK, EngineTypeOK, OpTypeOK
<1>2. CASE SaveTesting
  BY <1>2 DEF SaveTesting, Goto
<1>3. ASSUME NEW k \in BatchIds, ReconcileTesting(k)
      PROVE  FALSE
  <2>1. todo' = b'.current \cap Existing /\ entries' = entries
    BY <1>3 DEF ReconcileTesting, Enter, storeVars
  <2>2. QED
    BY <2>1 DEF Existing
<1>4. CASE StampOne \/ opVars' = opVars
  <2>1. /\ b' = b /\ pc' = pc /\ todo' \subseteq todo
        /\ ~ StampOne => todo' = todo
        /\ StampOne => todo # {} /\ todo' = todo \ {Least(todo)}
    BY <1>4 DEF StampOne, opVars
  <2>2. f \in Existing
    <3>1. Owned(f)
      BY <1>1, <2>1 DEF RowsOwned, Held
    <3>2. QED
      BY <1>1, <3>1, OwnedExisted
  <2>3. f \notin todo => entries[f].sha = b.sha
    BY <2>1, <2>2 DEF HeadInv
  <2>4. CASE StampOne
    <3>1. entries' = Stamped(entries[Least(todo)].pr, b.sha)
      BY <2>4 DEF StampOne
    <3>2. CASE f \notin todo
      BY <1>1, <2>1, <2>3, <3>1, <3>2, EntryFields
    <3>3. CASE f = Least(todo)
      <4>1. entries[f] \in Entry
        BY <1>1 DEF TypeOK, StoreTypeOK
      <4>2. QED
        BY <1>1, <2>1, <2>2, <3>1, <3>3, <4>1 DEF Stamped, Entry
    <3>4. QED
      BY <2>1, <2>4, <3>2, <3>3
  <2>5. CASE ~ StampOne
    <3>1. entries'[f].sha = entries[f].sha
      BY <1>1, <2>1, <2>2, <2>5, ShaMoves
    <3>2. QED
      BY <2>1, <2>3, <2>5, <3>1
  <2>6. QED
    BY <2>4, <2>5
<1>5. StampOne \/ opVars' = opVars \/ SaveTesting \/ \E k \in BatchIds : ReconcileTesting(k)
  BY OpFrame DEF Sorted, AllStamped, EvaluatePass, Goto, SaveCheck, Enter
<1>6. QED
  BY <1>2, <1>3, <1>4, <1>5

(* A check event for the build under test is about its head.               *)
LEMMA CallsAtHead ==
    ASSUME IInv, OrderInv, HeadInv, Next, NEW c \in calls', Testing(c.batch)',
           rows'[c.batch].sha = c.sha, c.id \in Existing'
    PROVE  /\ c.id \in rows'[c.batch].current
           /\ \A f \in rows'[c.batch].current \cap Existing' : c.id <= f
<1> DEFINE k == c.batch
<1>1. /\ TypeOK /\ OneLive /\ RowsOwned /\ TestingBuilt /\ BuildTracked /\ CallsPinned
      /\ RoutedToOwnBuild /\ TypeOK'
      /\ rows \in [BatchIds -> Row] /\ k \in BatchIds /\ c.id \in Ids
  BY TypeStep DEF IInv, TypeOK, StoreTypeOK, EngineTypeOK, Call
<1>2. CASE c \in calls
  <2>1. ~ SaveTesting
    <3>1. ASSUME SaveTesting
          PROVE  FALSE
      <4>1. rows'[k].sha = built /\ pc = "save"
        BY <1>1, <3>1, TestingMoves DEF SaveTesting
      <4>2. built # NoSha
        BY <1>1, <4>1 DEF BuildTracked
      <4>3. c.sha # built
        BY <1>2, <4>1, <4>2 DEF HeadInv, BuiltUnknown
      <4>4. QED
        BY <4>1, <4>3
    <3>2. QED
      BY <3>1
  <2>2. Testing(k) /\ rows[k].sha = c.sha /\ rows'[k].current = rows[k].current
    BY <1>1, <2>1, TestingMoves
  <2>3. \A f \in rows[k].current \cap Existing' : f \in Existing
    <3>1. \A f \in rows[k].current : f \in Ids /\ Owned(f)
      BY <1>1 DEF RowsOwned, Held, Row
    <3>2. QED
      BY <1>1, <3>1, OwnedExisted
  <2>4. c.id \in rows[k].current
    BY <1>1, <1>2, <2>2 DEF CallsPinned, OrderInv
  <2>5. c.id \in Existing
    BY <2>3, <2>4
  <2>6. \A f \in rows[k].current \cap Existing : c.id <= f
    BY <1>2, <2>2, <2>5 DEF HeadInv
  <2>7. QED
    BY <2>2, <2>3, <2>4, <2>6
<1>3. CASE c \notin calls
  <2>1. rows' = rows /\ entries' = entries /\ Existing' = Existing /\ Testing(k)
        /\ rows[k].sha = c.sha
    BY <1>1, <1>3, NewCall DEF Existing, Testing
  <2>2. ASSUME c.sha = entries[c.id].sha, c.sha # NoSha,
               \A f \in Existing : entries[f].sha = c.sha => c.id <= f
        PROVE  /\ c.id \in rows[k].current
               /\ \A f \in rows[k].current \cap Existing : c.id <= f
    <3>1. c.id \in Existing
      BY <2>1
    <3>2. c.id \in rows[k].current
      BY <1>1, <2>1, <2>2, <3>1 DEF RoutedToOwnBuild, OrderInv
    <3>3. ASSUME NEW f \in rows[k].current \cap Existing, ~ (c.id <= f)
          PROVE  FALSE
      <4>1. f < c.id
        BY <1>1, <3>3 DEF Existing, Ids
      <4>2. entries[f].sha = c.sha
        BY <1>1, <2>1, <2>2, <3>1, <3>2, <4>1 DEF HeadInv
      <4>3. QED
        BY <2>2, <3>3, <4>2
    <3>4. QED
      BY <3>2, <3>3
  <2>3. ASSUME rows[k].current # {}, c.id = Least(rows[k].current)
        PROVE  /\ c.id \in rows[k].current
               /\ \A f \in rows[k].current \cap Existing : c.id <= f
    <3>1. rows[k].current \in SUBSET Nat
      BY <1>1 DEF Row, Ids
    <3>2. QED
      BY <2>3, <3>1, LeastType
  <2>4. QED
    BY <1>1, <1>3, <2>1, <2>2, <2>3, NewCall
<1>4. QED
  BY <1>2, <1>3

(* HeadInv is preserved by every step, unless SetMergeBranch fails.        *)
LEMMA HeadStep ==
    ASSUME "stamp" \notin Faults, IInv, OrderInv, HeadInv, Next
    PROVE  HeadInv'
<1>1. BuiltUnknown'
  BY BuiltUnknownStep DEF IInv, HeadInv
<1>2. ASSUME NEW k \in BatchIds, Testing(k)',
             NEW e \in rows'[k].current \cap Existing',
             NEW f \in rows'[k].current \cap Existing',
             f < e, entries'[e].sha = rows'[k].sha
      PROVE  entries'[f].sha = rows'[k].sha
  BY <1>2, RoutedFromHead
<1>3. ASSUME pc' \in {"stamp", "restamp"}, NEW f \in (b'.current \ todo') \cap Existing'
      PROVE  entries'[f].sha = b'.sha
  BY <1>3, RoutedSoFar
<1>4. ASSUME NEW c \in calls', Testing(c.batch)', rows'[c.batch].sha = c.sha, c.id \in Existing'
      PROVE  /\ c.id \in rows'[c.batch].current
             /\ \A f \in rows'[c.batch].current \cap Existing' : c.id <= f
  BY <1>4, CallsAtHead
<1>5. QED
  BY <1>1, <1>2, <1>3, <1>4 DEF HeadInv

(* Unless SetMergeBranch fails, all results of a build are recorded on its *)
(* first member that is still queued, whoever fetched them.                *)
THEOREM ResultsMeet ==
    ASSUME "stamp" \notin Faults
    PROVE  Spec => ResultsMeetOnHead
<1>1. Init => HeadInv
  <2>1. SUFFICES ASSUME Init PROVE HeadInv
    OBVIOUS
  <2>2. pc = "idle" /\ calls = {} /\ Existing = {}
    BY <2>1 DEF Init, StoreInit, NoEntry, Existing
  <2>3. QED
    BY <2>2 DEF HeadInv, BuiltUnknown
<1>2. IInv /\ OrderInv /\ HeadInv /\ [Next]_vars => HeadInv'
  <2>1. ASSUME HeadInv, UNCHANGED vars
        PROVE  HeadInv'
    BY <2>1 DEF HeadInv, BuiltUnknown, Testing, Existing, vars, storeVars, opVars
  <2>2. QED
    BY <2>1, HeadStep
<1>3. ASSUME IInv, HeadInv, [Next]_vars, pc = "idle", pc' = "eval"
      PROVE  todo' = {Least(b'.current \cap Existing)}
  <2>1. Next /\ TypeOK
    BY <1>3 DEF vars, opVars, IInv
  <2>2. PICK c \in calls : SaveCheck(c)
    BY <1>3, <2>1, OpFrame DEF opVars, Build, EjectOne, KeepOne, FastForwardRaced,
       FastForwardDenied, EvaluateFail, HandleTimeout, HandleFail, Sorted, SaveTesting,
       Goto, StampOne, AllStamped, EvaluatePass, ReconcileTesting, Enter
  <2>3. /\ todo' = {c.id} /\ b' = rows[c.batch] /\ Testing(c.batch)
        /\ rows[c.batch].sha = c.sha /\ c.id \in Existing
    BY <2>2 DEF SaveCheck, Enter, Current, Testing
  <2> DEFINE S == rows[c.batch].current \cap Existing
  <2>4. c.id \in S /\ \A f \in S : c.id <= f
    BY <1>3, <2>3 DEF HeadInv
  <2>5. S \in SUBSET Nat /\ S # {}
    BY <2>4 DEF Existing, Ids
  <2> HIDE DEF S
  <2>6. Least(S) = c.id
    <3>1. Least(S) \in S /\ Least(S) <= c.id
      BY <2>4, <2>5, LeastType
    <3>2. c.id <= Least(S) /\ c.id \in Nat /\ Least(S) \in Nat
      BY <2>4, <2>5, <3>1
    <3>3. QED
      BY <3>1, <3>2
  <2>7. QED
    BY <2>3, <2>6 DEF S
<1>4. IInv /\ HeadInv /\ [Next]_vars
        => [(pc = "idle" /\ pc' = "eval") => todo' = {Least(b'.current \cap Existing)}]_vars
  BY <1>3
<1>5. QED
  BY <1>1, <1>2, <1>4, Invariant, OrderCorrect, PTL DEF Spec, ResultsMeetOnHead

=============================================================================
