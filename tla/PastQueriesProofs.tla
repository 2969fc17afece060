--------------------------- MODULE PastQueriesProofs ---------------------------
(***************************************************************************)
(* If no two literals are closer than 1, what a comparison of predicates   *)
(* claims is true of all rows, for any predicates, any number of           *)
(* attributes and any values, and so is what optimize() promises of the    *)
(* past minerule it chooses and of combinations, for any catalogue and any *)
(* minerule; and distances are exact. If there are values between any two  *)
(* literals, no relationship of conditions without cross conditions is     *)
(* missed, and the minerule chosen is the best one.                        *)
(***************************************************************************)
EXTENDS PastQueries, FiniteSetTheorems, TLAPS

-----------------------------------------------------------------------------
(* The inductive invariant. *)

Within(x, i) ==
  /\ i.lwr # NegInfty => (IF i.lwrOpen THEN NumberOf[i.lwr] < x ELSE NumberOf[i.lwr] <= x)
  /\ i.upp # PosInfty => (IF i.uppOpen THEN x < NumberOf[i.upp] ELSE x <= NumberOf[i.upp])
  /\ \A p \in i.openPoints : x # NumberOf[p]

\* The setting that a row produces.
Pattern(tuple) == {i \in used : Holds(i, tuple)}

\* The settings the enumerator has dealt with for predicate k.
Seen(k) ==
  IF pc \in {"merge", "answered"} \/ k < side THEN SUBSET used
  ELSE IF k # side \/ first THEN {}
  ELSE {s \in SUBSET used : Precedes(s, setting) \/ (s = setting /\ pc # "filter")}

\* The predicate is true of the settings in its encoding, and those of them that a row
\* produces are there.
Encoded(k) ==
  /\ \A s \in Elements(code[k]) : Evaluate(pair[k], s)
  /\ \A tuple \in Rows :
       used # {} /\ Pattern(tuple) \in Seen(k) /\ Evaluate(pair[k], Pattern(tuple))
         => Pattern(tuple) \in Elements(code[k])

\* The filter never excludes a value of a row that produces the setting.
Filtering ==
  pc = "filter" =>
    /\ ~first /\ used # {}
    /\ Evaluate(pair[side], setting)
    /\ \A tuple \in Rows : Pattern(tuple) = setting =>
         \A a \in Attributes : Within(tuple[a], intervals[a])

Before(k) == {code[k][i] : i \in 1 .. pos[k] - 1}

\* What the merge has found of the parts it has passed.
Merging ==
  /\ pc \in {"next", "filter"} => pos = <<1, 1>> /\ relationship = "Equivalent"
  /\ pc = "merge" =>
       /\ \A k \in {1, 2} : pos[k] <= Len(code[k]) + 1
       /\ relationship # "Unrelated"
       /\ ask = "distance" => (distance = 0 => Before(1) = Before(2))
       /\ ask = "relationship" =>
            /\ relationship \in {"Equivalent", "FirstMoreGeneral"} => Before(2) \subseteq Before(1)
            /\ relationship \in {"Equivalent", "FirstMoreSpecific"} => Before(1) \subseteq Before(2)

CompareInv ==
  /\ CompareTypeOK
  /\ used = UNION (pair[1] \cup pair[2])
  /\ \A k \in {1, 2} : pc # "idle" => Encoded(k)
  /\ Filtering
  /\ Merging
  /\ Sound

-----------------------------------------------------------------------------
(* Intervals. *)

Limits == Literals \cup {NegInfty, PosInfty}

\* The comparison of literals is that of their numbers.
LEMMA CompareExact ==
  ASSUME Separated, NEW a \in Literals, NEW b \in Literals
  PROVE  /\ CompareValues(a, b) \in Int
         /\ CompareValues(a, b) < 0 <=> NumberOf[a] < NumberOf[b]
         /\ CompareValues(a, b) = 0 <=> NumberOf[a] = NumberOf[b]
         /\ CompareValues(a, b) > 0 <=> NumberOf[a] > NumberOf[b]
  BY ParametersAssumption, SMT DEF Separated, CompareValues, CompareNumbers

\* The limits of unbounded intervals are below and above everything else.
LEMMA CompareLimits ==
  /\ CompareValues(NegInfty, NegInfty) = 0 /\ CompareValues(PosInfty, PosInfty) = 0
  /\ CompareValues(NegInfty, PosInfty) = -1
  /\ \A a \in Literals : /\ CompareValues(NegInfty, a) = -1 /\ CompareValues(a, NegInfty) = 1
                         /\ CompareValues(a, PosInfty) = -1 /\ CompareValues(PosInfty, a) = 1
  BY ParametersAssumption, SMT DEF CompareValues

LEMMA CompareType ==
  ASSUME NEW a \in Limits, NEW b \in Limits
  PROVE  CompareValues(a, b) \in {-1, 0, 1}
  BY ParametersAssumption, SMT DEF CompareValues, CompareNumbers, Limits

\* An intersection is an interval.
LEMMA IntersectType ==
  ASSUME NEW i \in Interval, NEW j \in Interval
  PROVE  Intersect(i, j) \in Interval
  BY SMT DEF Intersect, Interval

\* No value within two intervals is lost by their intersection.
LEMMA IntersectWithin ==
  ASSUME Separated, NEW i \in Interval, NEW j \in Interval, NEW x \in Int,
         Within(x, i), Within(x, j)
  PROVE  Within(x, Intersect(i, j))
<1> DEFINE m == Intersect(i, j)
<1>1. m.lwr # NegInfty => (IF m.lwrOpen THEN NumberOf[m.lwr] < x ELSE NumberOf[m.lwr] <= x)
  <2>1. CASE i.lwr = NegInfty /\ j.lwr = NegInfty
    BY <2>1, CompareType, SMT DEF Intersect
  <2>2. CASE i.lwr = NegInfty /\ j.lwr \in Literals
    BY <2>2, CompareLimits, ParametersAssumption, SMT DEF Intersect, Within, Interval
  <2>3. CASE i.lwr \in Literals /\ j.lwr = NegInfty
    BY <2>3, CompareLimits, ParametersAssumption, SMT DEF Intersect, Within, Interval
  <2>4. CASE i.lwr \in Literals /\ j.lwr \in Literals
    <3>1. NumberOf[i.lwr] \in Int /\ NumberOf[j.lwr] \in Int
      BY <2>4, ParametersAssumption
    <3>2. i.lwr # NegInfty /\ j.lwr # NegInfty
      BY <2>4, ParametersAssumption
    <3> QED BY <2>4, <3>1, <3>2, CompareExact, SMT DEF Intersect, Within, Interval
  <2> QED BY <2>1, <2>2, <2>3, <2>4 DEF Interval
<1>2. m.upp # PosInfty => (IF m.uppOpen THEN x < NumberOf[m.upp] ELSE x <= NumberOf[m.upp])
  <2>1. CASE i.upp = PosInfty /\ j.upp = PosInfty
    BY <2>1, CompareType, SMT DEF Intersect
  <2>2. CASE i.upp = PosInfty /\ j.upp \in Literals
    BY <2>2, CompareLimits, ParametersAssumption, SMT DEF Intersect, Within, Interval
  <2>3. CASE i.upp \in Literals /\ j.upp = PosInfty
    BY <2>3, CompareLimits, ParametersAssumption, SMT DEF Intersect, Within, Interval
  <2>4. CASE i.upp \in Literals /\ j.upp \in Literals
    <3>1. NumberOf[i.upp] \in Int /\ NumberOf[j.upp] \in Int
      BY <2>4, ParametersAssumption
    <3>2. i.upp # PosInfty /\ j.upp # PosInfty
      BY <2>4, ParametersAssumption
    <3> QED BY <2>4, <3>1, <3>2, CompareExact, SMT DEF Intersect, Within, Interval
  <2> QED BY <2>1, <2>2, <2>3, <2>4 DEF Interval
<1>3. \A p \in m.openPoints : x # NumberOf[p]
  BY DEF Intersect, Within
<1> QED BY <1>1, <1>2, <1>3 DEF Within

\* An interval that is taken for empty contains no value.
LEMMA EmptyWithin ==
  ASSUME Separated, NEW i \in Interval, NEW x \in Int, IsEmpty(i)
  PROVE  ~ Within(x, i)
<1>1. CASE i.lwr = NegInfty
  <2>1. i.upp = PosInfty \/ i.upp \in Literals
    BY DEF Interval
  <2>2. CompareValues(i.lwr, i.upp) = -1
    BY <1>1, <2>1, CompareLimits
  <2> QED BY <2>2, SMT DEF IsEmpty
<1>2. CASE i.upp = PosInfty
  <2>1. i.lwr = NegInfty \/ i.lwr \in Literals
    BY DEF Interval
  <2>2. CompareValues(i.lwr, i.upp) = -1
    BY <1>2, <2>1, CompareLimits
  <2> QED BY <2>2, SMT DEF IsEmpty
<1>3. CASE i.lwr \in Literals /\ i.upp \in Literals
  <2>1. /\ NumberOf[i.lwr] \in Int /\ NumberOf[i.upp] \in Int
        /\ i.lwr # NegInfty /\ i.upp # PosInfty
    BY <1>3, ParametersAssumption
  <2>2. /\ CompareValues(i.lwr, i.upp) = 0 <=> NumberOf[i.lwr] = NumberOf[i.upp]
        /\ CompareValues(i.lwr, i.upp) > 0 <=> NumberOf[i.lwr] > NumberOf[i.upp]
    BY <1>3, CompareExact
  <2> QED BY <2>1, <2>2, SMT DEF IsEmpty, Within
<1> QED BY <1>1, <1>2, <1>3 DEF Interval

-----------------------------------------------------------------------------
(* Settings. *)

\* A row satisfies a predicate if the setting it produces does.
LEMMA PatternEvaluates ==
  ASSUME NEW p, UNION p \subseteq used, NEW tuple
  PROVE  Evaluate(p, Pattern(tuple)) <=> Meaning(p, tuple)
  BY DEF Evaluate, Meaning, Pattern

\* The enumerator skips no setting.
LEMMA NextPrecedes ==
  ASSUME used \in SUBSET Int, setting \subseteq used,
         NEW i \in used \ setting, \A j \in used \ setting : i <= j,
         NEW s \in SUBSET used, Precedes(s, {i} \cup {j \in setting : j > i})
  PROVE  Precedes(s, setting) \/ s = setting
<1>1. PICK m \in ({i} \cup {j \in setting : j > i}) \ s :
        \A j \in s \ ({i} \cup {l \in setting : l > i}) : j < m
  BY DEF Precedes
<1>2. CASE m = i
  <2>1. s \subseteq setting
    <3> SUFFICES ASSUME NEW j \in s PROVE j \in setting
      OBVIOUS
    <3>1. j # i
      BY <1>1, <1>2
    <3>2. CASE j > i
      BY <1>1, <1>2, <3>2, SMT
    <3>3. CASE j < i
      BY <3>3, SMT
    <3> QED BY <3>1, <3>2, <3>3, SMT
  <2> QED BY <2>1 DEF Precedes
<1>3. CASE m # i
  <2>1. m \in setting \ s /\ m > i
    BY <1>1, <1>3
  <2>2. ASSUME NEW j \in s \ setting PROVE j < m
    <3>1. CASE j = i
      BY <3>1, <2>1, SMT
    <3>2. CASE j # i
      BY <3>2, <1>1
    <3> QED BY <3>1, <3>2
  <2> QED BY <2>1, <2>2 DEF Precedes
<1> QED BY <1>2, <1>3

\* Every setting but the last one precedes it.
LEMMA LastSetting ==
  ASSUME NEW s \in SUBSET used
  PROVE  Precedes(s, used) \/ s = used
  BY DEF Precedes

\* A new element of an encoding.
LEMMA AppendElements ==
  ASSUME NEW S, NEW q \in Seq(S), NEW e \in S
  PROVE  Elements(Append(q, e)) = Elements(q) \cup {e}
<1>1. Len(Append(q, e)) = Len(q) + 1 /\ Len(q) \in Nat
  BY SMT
<1>2. \A i \in 1 .. Len(q) : Append(q, e)[i] = q[i]
  BY SMT
<1>3. Append(q, e)[Len(q) + 1] = e
  BY SMT
<1>4. 1 .. Len(q) + 1 = (1 .. Len(q)) \cup {Len(q) + 1}
  BY <1>1, SMT
<1> QED BY <1>1, <1>2, <1>3, <1>4 DEF Elements

-----------------------------------------------------------------------------
(* Simple predicates as intervals. *)

\* The values that satisfy a comparison are those in the interval of it.
LEMMA MeetsWithin ==
  ASSUME NEW op \in Operators, NEW val \in Literals, NEW x \in Int
  PROVE  /\ IntervalOf(op, val) \in Interval
         /\ Meets(op, x, NumberOf[val]) <=> Within(x, IntervalOf(op, val))
<1>1. NumberOf[val] \in Int /\ val # NegInfty /\ val # PosInfty
  BY ParametersAssumption
<1>2. CASE op = "<"
  <2>1. IntervalOf(op, val) = [lwr |-> NegInfty, upp |-> val, lwrOpen |-> TRUE, uppOpen |-> TRUE,
                             openPoints |-> {}]
    BY <1>2 DEF IntervalOf
  <2>2. IntervalOf(op, val) \in Interval
    BY <2>1, SMT DEF Interval
  <2>3. Meets(op, x, NumberOf[val]) <=> x < NumberOf[val]
    BY <1>2, SMT DEF Meets
  <2> QED BY <1>1, <2>1, <2>2, <2>3, SMT DEF Within
<1>3. CASE op = "<="
  <2>1. IntervalOf(op, val) = [lwr |-> NegInfty, upp |-> val, lwrOpen |-> TRUE, uppOpen |-> FALSE,
                             openPoints |-> {}]
    BY <1>3 DEF IntervalOf
  <2>2. IntervalOf(op, val) \in Interval
    BY <2>1, SMT DEF Interval
  <2>3. Meets(op, x, NumberOf[val]) <=> x <= NumberOf[val]
    BY <1>3, SMT DEF Meets
  <2> QED BY <1>1, <2>1, <2>2, <2>3, SMT DEF Within
<1>4. CASE op = ">"
  <2>1. IntervalOf(op, val) = [lwr |-> val, upp |-> PosInfty, lwrOpen |-> TRUE, uppOpen |-> TRUE,
                             openPoints |-> {}]
    BY <1>4 DEF IntervalOf
  <2>2. IntervalOf(op, val) \in Interval
    BY <2>1, SMT DEF Interval
  <2>3. Meets(op, x, NumberOf[val]) <=> x > NumberOf[val]
    BY <1>4, SMT DEF Meets
  <2> QED BY <1>1, <2>1, <2>2, <2>3, SMT DEF Within
<1>5. CASE op = ">="
  <2>1. IntervalOf(op, val) = [lwr |-> val, upp |-> PosInfty, lwrOpen |-> FALSE, uppOpen |-> TRUE,
                             openPoints |-> {}]
    BY <1>5 DEF IntervalOf
  <2>2. IntervalOf(op, val) \in Interval
    BY <2>1, SMT DEF Interval
  <2>3. Meets(op, x, NumberOf[val]) <=> x >= NumberOf[val]
    BY <1>5, SMT DEF Meets
  <2> QED BY <1>1, <2>1, <2>2, <2>3, SMT DEF Within
<1>6. CASE op = "="
  <2>1. IntervalOf(op, val) = [lwr |-> val, upp |-> val, lwrOpen |-> FALSE, uppOpen |-> FALSE,
                             openPoints |-> {}]
    BY <1>6 DEF IntervalOf
  <2>2. IntervalOf(op, val) \in Interval
    BY <2>1, SMT DEF Interval
  <2>3. Meets(op, x, NumberOf[val]) <=> x = NumberOf[val]
    BY <1>6, SMT DEF Meets
  <2> QED BY <1>1, <2>1, <2>2, <2>3, SMT DEF Within
<1>7. CASE op = "<>"
  <2>1. IntervalOf(op, val) = [lwr |-> NegInfty, upp |-> PosInfty, lwrOpen |-> TRUE, uppOpen |-> TRUE,
                             openPoints |-> {val}]
    BY <1>7 DEF IntervalOf
  <2>2. IntervalOf(op, val) \in Interval
    BY <2>1, SMT DEF Interval
  <2>3. Meets(op, x, NumberOf[val]) <=> x # NumberOf[val]
    BY <1>7, SMT DEF Meets
  <2> QED BY <1>1, <2>1, <2>2, <2>3, SMT DEF Within
<1> QED BY <1>2, <1>3, <1>4, <1>5, <1>6, <1>7 DEF Operators

\* The negated operator holds where the operator does not.
LEMMA NegatedMeets ==
  ASSUME NEW op \in Operators, NEW x \in Int, NEW y \in Int
  PROVE  /\ Negated(op) \in Operators
         /\ Meets(Negated(op), x, y) <=> ~ Meets(op, x, y)
<1>1. CASE op = "<"
  BY <1>1, SMT DEF Operators, Negated, Meets
<1>2. CASE op = "<="
  BY <1>2, SMT DEF Operators, Negated, Meets
<1>3. CASE op = ">"
  BY <1>3, SMT DEF Operators, Negated, Meets
<1>4. CASE op = ">="
  BY <1>4, SMT DEF Operators, Negated, Meets
<1>5. CASE op = "="
  BY <1>5, SMT DEF Operators, Negated, Meets
<1>6. CASE op = "<>"
  BY <1>6, SMT DEF Operators, Negated, Meets
<1> QED BY <1>1, <1>2, <1>3, <1>4, <1>5, <1>6 DEF Operators

LEMMA ElementInSet ==
  ASSUME NEW S, NEW q \in Seq(S), NEW i \in 1 .. Len(q)
  PROVE  q[i] \in S
  BY SMT

\* What the filter learns of a simple predicate keeps the values of the rows that produce
\* the setting.
LEMMA UpdateWithin ==
  ASSUME Separated, CompareTypeOK, NEW i \in used, Constrains(i)
  PROVE  /\ Update(i) \in Interval
         /\ \A tuple \in Rows :
              Pattern(tuple) = setting /\ Within(tuple[Pool[i].left], intervals[Pool[i].left])
                => Within(tuple[Pool[i].left], Update(i))
<1> DEFINE a == Pool[i].left
           val == Pool[i].right
           op == IF i \in setting THEN Pool[i].op ELSE Negated(Pool[i].op)
<1>1. i \in Indices /\ a \in Attributes /\ val \in Literals /\ val \notin Attributes
  BY ParametersAssumption DEF CompareTypeOK, Constrains
<1>2. Pool[i].op \in Operators
  <2> DEFINE S == [left : Attributes \cup Literals, op : Operators,
                   right : Attributes \cup Literals]
  <2>1. Pool \in Seq(S) /\ i \in 1 .. Len(Pool)
    BY <1>1, ParametersAssumption DEF Indices
  <2>2. Pool[i] \in S
    <3> HIDE DEF S
    <3> QED BY <2>1, ElementInSet
  <2> QED BY <2>2
<1>3. op \in Operators
  BY <1>2, NegatedMeets
<1>4. intervals[a] \in Interval
  BY <1>1 DEF CompareTypeOK
<1>5. Update(i) = Intersect(intervals[a], IntervalOf(op, val))
  BY DEF Update
<1>6. NumberOf[val] \in Int
  BY <1>1, ParametersAssumption
<1>7. IntervalOf(op, val) \in Interval
  BY <1>1, <1>3, MeetsWithin, 0 \in Int
<1>8. ASSUME NEW tuple \in Rows, Pattern(tuple) = setting, Within(tuple[a], intervals[a])
      PROVE  Within(tuple[a], Update(i))
  <2>1. tuple[a] \in Int
    BY <1>1, ParametersAssumption DEF Rows
  <2>2. Holds(i, tuple) <=> Meets(Pool[i].op, tuple[a], NumberOf[val])
    BY <1>1 DEF Holds, Term
  <2>3. i \in setting <=> Holds(i, tuple)
    BY <1>8 DEF Pattern
  <2>4. Meets(op, tuple[a], NumberOf[val])
    BY <1>2, <1>6, <2>1, <2>2, <2>3, NegatedMeets
  <2>5. Within(tuple[a], IntervalOf(op, val))
    BY <1>1, <1>3, <2>1, <2>4, MeetsWithin
  <2> QED BY <1>4, <1>5, <1>7, <1>8, <2>1, <2>5, IntersectWithin
<1>9. Update(i) \in Interval
  BY <1>4, <1>5, <1>7, IntersectType
<1> QED BY <1>8, <1>9

-----------------------------------------------------------------------------
(* Every step keeps the invariant. *)

\* An encoding that a step leaves alone stays right if the settings the step passes over
\* belong to no row that satisfies the predicate.
LEMMA EncodedKept ==
  ASSUME NEW k \in {1, 2}, Encoded(k), UNCHANGED <<code, pair, used>>,
         \A tuple \in Rows :
           used # {} /\ Pattern(tuple) \in Seen(k)' /\ Evaluate(pair[k], Pattern(tuple))
             => Pattern(tuple) \in Seen(k)
  PROVE  Encoded(k)'
<1>1. \A tuple \in Rows : Pattern(tuple)' = Pattern(tuple)
  BY DEF Pattern
<1>2. Elements(code[k])' = Elements(code[k])
  BY DEF Elements
<1>3. \A s : Evaluate(pair[k], s)' = Evaluate(pair[k], s)
  BY DEF Evaluate
<1> QED BY <1>1, <1>2, <1>3 DEF Encoded

LEMMA CoupleInSet ==
  ASSUME NEW S, NEW a \in S, NEW b \in S
  PROVE  <<a, b>> \in [1 .. 2 -> S]
<1>1. 1 .. 2 = {1, 2}
  BY SMT
<1> QED BY <1>1, SMT

LEMMA CompareInitInv == CompareInit => CompareInv
<1> SUFFICES ASSUME CompareInit PROVE CompareInv
  OBVIOUS
<1>1. CompareTypeOK
  <2>1. Unbounded \in [Attributes -> Interval]
    BY DEF Unbounded, Whole, Interval
  <2>2. <<<<>>, <<>>>> \in [1 .. 2 -> Seq(SUBSET Indices)]
    BY CoupleInSet, <<>> \in Seq(SUBSET Indices)
  <2>3. <<1, 1>> \in [1 .. 2 -> Nat \ {0}]
    BY CoupleInSet, 1 \in Nat \ {0}
  <2>4. <<{}, {}>> \in [1 .. 2 -> SUBSET (SUBSET Indices)]
    BY CoupleInSet, {} \in SUBSET (SUBSET Indices)
  <2> QED BY <2>1, <2>2, <2>3, <2>4 DEF CompareInit, CompareTypeOK, Relationships
<1>2. used = UNION (pair[1] \cup pair[2])
  BY DEF CompareInit
<1> QED BY <1>1, <1>2 DEF CompareInit, CompareInv, Filtering, Merging, Sound

LEMMA CompareKeepsInv ==
  ASSUME NEW p \in SUBSET (SUBSET Indices), NEW q \in SUBSET (SUBSET Indices),
         NEW question \in {"relationship", "distance"}, Compare(p, q, question)
  PROVE  CompareInv'
<1>1. CompareTypeOK'
  <2>1. Unbounded \in [Attributes -> Interval]
    BY DEF Unbounded, Whole, Interval
  <2>2. <<<<>>, <<>>>> \in [1 .. 2 -> Seq(SUBSET Indices)]
    BY CoupleInSet, <<>> \in Seq(SUBSET Indices)
  <2>3. <<1, 1>> \in [1 .. 2 -> Nat \ {0}]
    BY CoupleInSet, 1 \in Nat \ {0}
  <2>4. <<p, q>> \in [1 .. 2 -> SUBSET (SUBSET Indices)]
    BY CoupleInSet, {} \in SUBSET (SUBSET Indices)
  <2>5. used' \subseteq Indices
    BY DEF Compare
  <2> QED BY <2>1, <2>2, <2>3, <2>4, <2>5 DEF Compare, CompareTypeOK, Relationships
<1>2. used' = UNION (pair[1]' \cup pair[2]')
  BY DEF Compare
<1>3. ASSUME NEW k \in {1, 2} PROVE Encoded(k)'
  <2>1. Elements(code[k])' = {}
    <3>1. code'[k] = <<>>
      BY DEF Compare
    <3> QED BY <3>1, SMT DEF Elements
  <2>2. Seen(k)' = {}
    BY SMT DEF Compare, Seen
  <2> QED BY <2>1, <2>2 DEF Encoded
<1> QED BY <1>1, <1>2, <1>3 DEF Compare, CompareInv, Filtering, Merging, Sound

\* The next setting: if the predicate is true of it, the filter starts with intervals that
\* contain everything.
LEMMA ConsiderKeepsInv ==
  ASSUME CompareInv, pc = "next", used # {}, NEW s \in SUBSET used, Consider(s),
         \A t \in SUBSET used : Precedes(t, s) => t \in Seen(side)
  PROVE  CompareInv'
<1>1. CompareTypeOK'
  <2>1. Unbounded \in [Attributes -> Interval]
    BY DEF Unbounded, Whole, Interval
  <2> QED BY <2>1, CompareTypeOK DEF Consider, CompareTypeOK, CompareInv
<1>2. ASSUME NEW k \in {1, 2} PROVE Encoded(k)'
  <2>1. Encoded(k)
    BY DEF CompareInv
  <2>2. ASSUME NEW tuple \in Rows, Pattern(tuple) \in Seen(k)', Evaluate(pair[k], Pattern(tuple))
        PROVE  Pattern(tuple) \in Seen(k)
    <3>1. CASE k < side
      BY <3>1 DEF Seen, Pattern
    <3>2. CASE k = side
      <4>1. side' = side /\ first' = FALSE /\ setting' = s /\ used' = used
            /\ pc' \in {"next", "filter"}
        BY DEF Consider
      <4>2. Pattern(tuple) \in SUBSET used /\ (Precedes(Pattern(tuple), s) \/ (Pattern(tuple) = s /\ pc' # "filter"))
        BY <2>2, <3>2, <4>1, SMT DEF Seen
      <4>3. CASE Pattern(tuple) = s /\ pc' # "filter"
        BY <2>2, <3>2, <4>3 DEF Consider
      <4> QED BY <3>2, <4>2, <4>3
    <3>3. CASE k > side
      <4>1. Seen(k)' = {}
        BY <3>3, SMT DEF Consider, Seen, CompareInv, CompareTypeOK
      <4> QED BY <2>2, <4>1
    <3> QED BY <3>1, <3>2, <3>3, SMT DEF CompareInv, CompareTypeOK
  <2> QED BY <2>1, <2>2, EncodedKept DEF Consider
<1>3. Filtering'
  <2> SUFFICES ASSUME pc' = "filter"
               PROVE  /\ Evaluate(pair[side], s)
                      /\ \A tuple \in Rows : \A a \in Attributes : Within(tuple[a], Unbounded[a])
    BY DEF Consider, Filtering, Evaluate, Pattern
  <2>1. Evaluate(pair[side], s)
    BY DEF Consider
  <2>2. ASSUME NEW a \in Attributes, NEW x PROVE Within(x, Unbounded[a])
    BY DEF Within, Unbounded, Whole
  <2> QED BY <2>1, <2>2
<1> QED BY <1>1, <1>2, <1>3 DEF Consider, CompareInv, Merging, Sound

LEMMA FirstSettingKeepsInv ==
  ASSUME CompareInv, FirstSetting
  PROVE  CompareInv'
<1>1. \A t : ~ Precedes(t, {})
  BY DEF Precedes
<1> QED BY <1>1, ConsiderKeepsInv DEF FirstSetting

LEMMA NextSettingKeepsInv ==
  ASSUME CompareInv, NextSetting
  PROVE  CompareInv'
<1>1. PICK i \in used \ setting :
        /\ \A j \in used \ setting : i <= j
        /\ Consider({i} \cup {j \in setting : j > i})
  BY DEF NextSetting
<1> DEFINE s == {i} \cup {j \in setting : j > i}
<1>2. used \in SUBSET Int /\ setting \subseteq used
  BY DEF CompareInv, CompareTypeOK, Indices
<1>3. ASSUME NEW t \in SUBSET used, Precedes(t, s)
      PROVE  t \in Seen(side)
  <2>1. Precedes(t, setting) \/ t = setting
    BY <1>1, <1>2, <1>3, NextPrecedes
  <2> QED BY <2>1, SMT DEF NextSetting, Seen, CompareInv, CompareTypeOK
<1>4. s \in SUBSET used /\ used # {} /\ pc = "next"
  BY <1>2 DEF NextSetting
<1>5. Consider(s)
  BY <1>1
<1> HIDE DEF s
<1> QED BY <1>3, <1>4, <1>5, ConsiderKeepsInv

LEMMA NoMoreSettingsKeepsInv ==
  ASSUME CompareInv, NoMoreSettings
  PROVE  CompareInv'
<1> USE DEF NoMoreSettings, Exhausted
<1>1. CompareTypeOK'
  BY DEF CompareInv, CompareTypeOK
<1>2. ASSUME NEW k \in {1, 2} PROVE Encoded(k)'
  <2>1. Encoded(k)
    BY DEF CompareInv
  <2>2. ASSUME NEW tuple \in Rows, used # {}, Pattern(tuple) \in Seen(k)'
        PROVE  Pattern(tuple) \in Seen(k)
    <3>1. Pattern(tuple) \in SUBSET used
      BY DEF Pattern
    <3>2. CASE k < side
      BY <3>1, <3>2 DEF Seen
    <3>3. CASE k = side
      <4>1. Precedes(Pattern(tuple), setting) \/ Pattern(tuple) = setting
        BY <3>1, LastSetting
      <4> QED BY <2>2, <3>1, <3>3, <4>1, SMT DEF Seen
    <3>4. CASE k > side
      <4>1. side = 1 /\ k = 2
        BY <3>4, SMT DEF CompareInv, CompareTypeOK
      <4>2. Seen(k)' = {}
        BY <4>1, SMT DEF Seen
      <4> QED BY <2>2, <4>2
    <3> QED BY <3>2, <3>3, <3>4, SMT DEF CompareInv, CompareTypeOK
  <2> QED BY <2>1, <2>2, EncodedKept
<1>3. Merging'
  <2>1. pos' = <<1, 1>> /\ relationship' = "Equivalent"
    BY DEF CompareInv, Merging
  <2>2. \A k \in {1, 2} : Before(k)' = {}
    BY <2>1, SMT DEF Before
  <2>3. \A k \in {1, 2} : Len(code'[k]) \in Nat
    BY <1>1 DEF CompareTypeOK
  <2>4. \A k \in {1, 2} : pos'[k] <= Len(code'[k]) + 1
    BY <2>1, <2>3, SMT
  <2>5. Before(1)' = {} /\ Before(2)' = {}
    BY <2>2
  <2> QED BY <2>1, <2>4, <2>5 DEF Merging
<1>4. used' = UNION (pair'[1] \cup pair'[2])
  BY DEF CompareInv
<1> QED BY <1>1, <1>2, <1>3, <1>4 DEF CompareInv, Filtering, Sound

\* The filter rejects only settings that no row produces.
LEMMA FilterNextKeepsInv ==
  ASSUME Separated, CompareInv, FilterNext
  PROVE  CompareInv'
<1>1. PICK i \in todo :
        /\ todo' = todo \ {i}
        /\ IF Constrains(i)
           THEN /\ intervals' = [intervals EXCEPT ![Pool[i].left] = Update(i)]
                /\ pc' = IF IsEmpty(Update(i)) THEN "next" ELSE pc
           ELSE UNCHANGED <<pc, intervals>>
  BY DEF FilterNext
<1>2. /\ pc = "filter" /\ CompareTypeOK
      /\ UNCHANGED <<ask, pair, used, side, first, setting, code, pos, relationship, distance>>
  BY DEF FilterNext, CompareInv
<1>3. i \in used /\ pc' \in {"filter", "next"}
  BY <1>1, <1>2 DEF CompareTypeOK
<1>4. Constrains(i) =>
        /\ Update(i) \in Interval
        /\ \A tuple \in Rows :
             Pattern(tuple) = setting /\ Within(tuple[Pool[i].left], intervals[Pool[i].left])
               => Within(tuple[Pool[i].left], Update(i))
  BY <1>2, <1>3, UpdateWithin
<1>5. intervals' \in [Attributes -> Interval]
  BY <1>1, <1>2, <1>4 DEF CompareTypeOK
<1>6. CompareTypeOK'
  BY <1>1, <1>2, <1>3, <1>5 DEF CompareTypeOK
<1>7. ASSUME NEW tuple \in Rows, Pattern(tuple) = setting
      PROVE  \A a \in Attributes : Within(tuple[a], intervals'[a])
  <2>1. \A a \in Attributes : Within(tuple[a], intervals[a])
    BY <1>2, <1>7 DEF CompareInv, Filtering
  <2>2. CASE Constrains(i)
    <3>1. Within(tuple[Pool[i].left], Update(i))
      BY <1>4, <1>7, <2>1, <2>2 DEF Constrains
    <3> QED BY <1>1, <1>2, <2>1, <2>2, <3>1 DEF CompareTypeOK
  <2> QED BY <1>1, <2>1, <2>2
<1>8. ASSUME pc' = "next", NEW tuple \in Rows PROVE Pattern(tuple) # setting
  <2> SUFFICES ASSUME Pattern(tuple) = setting PROVE FALSE
    OBVIOUS
  <2>1. Constrains(i) /\ IsEmpty(Update(i))
    BY <1>1, <1>2, <1>8
  <2>2. Within(tuple[Pool[i].left], Update(i))
    BY <1>2, <1>4, <2>1 DEF CompareInv, Filtering, Constrains
  <2>3. tuple[Pool[i].left] \in Int
    BY <2>1, ParametersAssumption DEF Rows, Constrains
  <2> QED BY <1>4, <2>1, <2>2, <2>3, EmptyWithin
<1>9. ASSUME NEW k \in {1, 2} PROVE Encoded(k)'
  <2>1. Encoded(k)
    BY <1>2 DEF CompareInv
  <2>2. ASSUME NEW tuple \in Rows, Pattern(tuple) \in Seen(k)'
        PROVE  Pattern(tuple) \in Seen(k)
    <3>1. CASE k = side /\ ~first /\ pc' = "next"
      BY <1>2, <1>8, <2>2, <3>1, SMT DEF Seen
    <3> QED BY <1>2, <1>3, <2>2, <3>1, SMT DEF Seen
  <2> QED BY <1>2, <2>1, <2>2, EncodedKept
<1>10. Filtering'
  <2>1. \A tuple : Pattern(tuple)' = Pattern(tuple)
    BY <1>2 DEF Pattern
  <2>2. Evaluate(pair[side], setting)' = Evaluate(pair[side], setting)
    BY <1>2 DEF Evaluate
  <2> QED BY <1>2, <1>7, <2>1, <2>2 DEF Filtering, CompareInv
<1>11. Merging' /\ Sound' /\ used' = UNION (pair'[1] \cup pair'[2])
  BY <1>2, <1>3 DEF Merging, Sound, CompareInv
<1> QED BY <1>6, <1>9, <1>10, <1>11 DEF CompareInv

\* A setting that passes the filter joins the encoding.
LEMMA KeepSettingKeepsInv ==
  ASSUME CompareInv, KeepSetting
  PROVE  CompareInv'
<1>1. CompareTypeOK /\ pc = "filter" /\ pc' = "next"
      /\ code' = [code EXCEPT ![side] = Append(@, setting)]
      /\ UNCHANGED <<ask, pair, used, side, first, setting, todo, intervals, pos, relationship, distance>>
  BY DEF KeepSetting, CompareInv
<1>2. setting \in SUBSET Indices /\ side \in 1 .. 2 /\ code[side] \in Seq(SUBSET Indices)
  BY <1>1, SMT DEF CompareTypeOK
<1>3. Append(code[side], setting) \in Seq(SUBSET Indices)
  BY <1>2, SMT
<1>4. CompareTypeOK'
  BY <1>1, <1>3 DEF CompareTypeOK
<1>5. Evaluate(pair[side], setting)
  BY <1>1 DEF CompareInv, Filtering
<1>6. \A tuple : Pattern(tuple)' = Pattern(tuple)
  BY <1>1 DEF Pattern
<1>7. \A k, t : Evaluate(pair[k], t)' = Evaluate(pair[k], t)
  BY <1>1 DEF Evaluate
<1>8. ASSUME NEW k \in {1, 2} PROVE Encoded(k)'
  <2>1. Encoded(k)
    BY <1>1 DEF CompareInv
  <2>2. CASE k = side
    <3>1. Elements(code[k])' = Elements(code[k]) \cup {setting}
      <4>1. code'[k] = Append(code[k], setting)
        BY <1>1, <1>2, <2>2 DEF CompareTypeOK
      <4> QED BY <1>2, <2>2, <4>1, AppendElements DEF Elements
    <3>2. \A t \in SUBSET used : t \in Seen(k)' => t \in Seen(k) \/ t = setting
      BY <1>1, <2>2, SMT DEF Seen
    <3>3. \A tuple : Pattern(tuple) \in SUBSET used
      BY DEF Pattern
    <3> QED BY <1>1, <1>5, <1>6, <1>7, <2>1, <2>2, <3>1, <3>2, <3>3 DEF Encoded
  <2>3. CASE k # side
    <3>1. Elements(code[k])' = Elements(code[k])
      BY <1>1, <1>2, <2>3 DEF Elements, CompareTypeOK
    <3>2. Seen(k)' = Seen(k)
      BY <1>1, <2>3, SMT DEF Seen
    <3> QED BY <1>1, <1>6, <1>7, <2>1, <3>1, <3>2 DEF Encoded
  <2> QED BY <2>2, <2>3
<1>9. Merging' /\ Filtering' /\ Sound' /\ used' = UNION (pair'[1] \cup pair'[2])
  BY <1>1 DEF Merging, Filtering, Sound, CompareInv
<1> QED BY <1>4, <1>8, <1>9 DEF CompareInv

-----------------------------------------------------------------------------
(* The merge. *)

\* When the encodings are complete, inclusion of encodings is inclusion of predicates.
LEMMA EncodingsDecide ==
  ASSUME CompareInv, pc = "merge", NEW j \in {1, 2}, NEW k \in {1, 2},
         Elements(code[j]) \subseteq Elements(code[k]),
         NEW tuple \in Rows, Meaning(pair[j], tuple)
  PROVE  Meaning(pair[k], tuple)
<1>1. UNION pair[j] \subseteq used /\ UNION pair[k] \subseteq used
  BY DEF CompareInv
<1>2. CASE used = {}
  BY <1>1, <1>2 DEF Meaning
<1>3. CASE used # {}
  <2>1. Evaluate(pair[j], Pattern(tuple))
    BY <1>1, PatternEvaluates
  <2>2. Pattern(tuple) \in Seen(j)
    BY DEF Seen, Pattern
  <2>3. Pattern(tuple) \in Elements(code[k])
    BY <1>3, <2>1, <2>2 DEF CompareInv, Encoded
  <2>4. Evaluate(pair[k], Pattern(tuple))
    BY <2>3 DEF CompareInv, Encoded
  <2> QED BY <1>1, <2>4, PatternEvaluates
<1> QED BY <1>2, <1>3

LEMMA BeforeAll ==
  ASSUME CompareInv, pc = "merge", NEW k \in {1, 2}
  PROVE  /\ Before(k) \subseteq Elements(code[k])
         /\ ~ Ok(k) => Before(k) = Elements(code[k])
<1>1. pos[k] \in Nat \ {0} /\ Len(code[k]) \in Nat /\ pos[k] <= Len(code[k]) + 1
  <2>1. k \in 1 .. 2
    BY SMT
  <2> QED BY <2>1 DEF CompareInv, CompareTypeOK, Merging
<1>2. 1 .. pos[k] - 1 \subseteq 1 .. Len(code[k])
  BY <1>1, SMT
<1>3. ~ Ok(k) => 1 .. pos[k] - 1 = 1 .. Len(code[k])
  BY <1>1, SMT DEF Ok
<1> QED BY <1>2, <1>3 DEF Before, Elements

LEMMA BeforeGrows ==
  ASSUME CompareInv, pc = "merge", NEW k \in {1, 2}, Ok(k), pos'[k] = pos[k] + 1, code' = code
  PROVE  /\ Before(k)' = Before(k) \cup {Current(k)}
         /\ pos'[k] <= Len(code'[k]) + 1
<1>1. pos[k] \in Nat \ {0} /\ Len(code[k]) \in Nat /\ pos[k] <= Len(code[k])
  <2>1. k \in 1 .. 2
    BY SMT
  <2> QED BY <2>1 DEF CompareInv, CompareTypeOK, Ok
<1>2. 1 .. pos'[k] - 1 = (1 .. pos[k] - 1) \cup {pos[k]}
  BY <1>1, SMT
<1>3. pos'[k] <= Len(code'[k]) + 1
  BY <1>1, SMT
<1> QED BY <1>2, <1>3 DEF Before, Current

\* What the steps of the merge leave alone.
LEMMA MergeKeepsRest ==
  ASSUME CompareInv, pc = "merge", pc' \in {"merge", "answered"}, UNCHANGED Unmerged,
         pos' \in [1 .. 2 -> Nat \ {0}], relationship' \in Relationships, distance' \in Nat,
         Merging', Sound'
  PROVE  CompareInv'
<1>1. CompareTypeOK'
  BY DEF CompareInv, CompareTypeOK, Unmerged
<1>2. ASSUME NEW k \in {1, 2} PROVE Encoded(k)'
  <2>1. Seen(k)' = Seen(k)
    BY DEF Seen, Unmerged
  <2> QED BY <2>1, EncodedKept DEF CompareInv, Unmerged
<1>3. Filtering' /\ used' = UNION (pair'[1] \cup pair'[2])
  BY DEF CompareInv, Filtering, Unmerged
<1> QED BY <1>1, <1>2, <1>3 DEF CompareInv

LEMMA MergeSameKeepsInv ==
  ASSUME CompareInv, MergeSame
  PROVE  CompareInv'
<1>1. /\ pc = "merge" /\ Ok(1) /\ Ok(2) /\ Current(1) = Current(2)
      /\ pos' = [k \in {1, 2} |-> pos[k] + 1]
      /\ pc' = pc /\ relationship' = relationship /\ distance' = distance
      /\ ask' = ask /\ code' = code /\ UNCHANGED Unmerged
  BY DEF MergeSame, Unmerged
<1>2. pos' \in [1 .. 2 -> Nat \ {0}]
  <2>1. 1 .. 2 = {1, 2}
    BY SMT
  <2>2. \A k \in {1, 2} : pos[k] + 1 \in Nat \ {0}
    BY <2>1, SMT DEF CompareInv, CompareTypeOK
  <2> QED BY <1>1, <2>1, <2>2
<1>3. \A k \in {1, 2} : /\ Before(k)' = Before(k) \cup {Current(k)}
                        /\ pos'[k] <= Len(code'[k]) + 1
  BY <1>1, BeforeGrows
<1>4. /\ Before(1)' = Before(1) \cup {Current(1)}
      /\ Before(2)' = Before(2) \cup {Current(1)}
  BY <1>1, <1>3
<1>5. Merging'
  BY <1>1, <1>3, <1>4 DEF CompareInv, Merging
<1> QED BY <1>1, <1>2, <1>5, MergeKeepsRest DEF CompareInv, CompareTypeOK, Sound

\* The claims of an answer follow from inclusions of encodings.
LEMMA AnswerSound ==
  ASSUME CompareInv, pc = "merge", UNCHANGED <<ask, pair, distance>>,
         ask = "distance" => (distance = 0 => Elements(code[1]) = Elements(code[2])),
         ask = "relationship" =>
           /\ relationship' \in {"Equivalent", "FirstMoreGeneral"}
                => Elements(code[2]) \subseteq Elements(code[1])
           /\ relationship' \in {"Equivalent", "FirstMoreSpecific"}
                => Elements(code[1]) \subseteq Elements(code[2])
  PROVE  Sound'
<1> DEFINE Inside(j, k) == \A tuple \in Rows : Meaning(pair[j], tuple) => Meaning(pair[k], tuple)
<1>1. Elements(code[1]) \subseteq Elements(code[2]) => Inside(1, 2)
  BY EncodingsDecide
<1>2. Elements(code[2]) \subseteq Elements(code[1]) => Inside(2, 1)
  BY EncodingsDecide
<1>3. ask \in {"relationship", "distance"}
  BY DEF CompareInv, CompareTypeOK
<1>4. /\ Inside(1, 2) <=> \A tuple \in Rows : Meaning(pair'[1], tuple) => Meaning(pair'[2], tuple)
      /\ Inside(2, 1) <=> \A tuple \in Rows : Meaning(pair'[2], tuple) => Meaning(pair'[1], tuple)
  BY DEF Meaning
<1> HIDE DEF Inside
<1>5. CASE ask = "distance"
  <2>1. distance = 0 => Inside(1, 2) /\ Inside(2, 1)
    BY <1>1, <1>2, <1>5
  <2> QED BY <1>4, <1>5, <2>1 DEF Sound, Claims
<1>6. CASE ask = "relationship"
  <2>1. /\ relationship' \in {"Equivalent", "FirstMoreGeneral"} => Inside(2, 1)
        /\ relationship' \in {"Equivalent", "FirstMoreSpecific"} => Inside(1, 2)
    BY <1>1, <1>2, <1>6
  <2> QED BY <1>4, <1>6, <2>1 DEF Sound, Claims
<1> QED BY <1>3, <1>5, <1>6

LEMMA MergeAloneKeepsInv ==
  ASSUME CompareInv, NEW k \in {1, 2}, MergeAlone(k)
  PROVE  CompareInv'
<1>1. /\ pc = "merge" /\ Ok(k) /\ ask = "relationship" /\ distance' = distance
      /\ UNCHANGED Unmerged /\ UNCHANGED <<ask, pair, code>>
  BY DEF MergeAlone, Alone, Unmerged, Answer
<1>2. CASE relationship = MoreGeneral(3 - k)
  <2>1. relationship' = "Unrelated" /\ pc' = "answered" /\ pos' = pos
    BY <1>2 DEF MergeAlone, Answer
  <2>2. Sound'
    BY <1>1, <2>1, AnswerSound
  <2> QED BY <1>1, <2>1, <2>2, MergeKeepsRest DEF CompareInv, CompareTypeOK, Merging, Relationships
<1>3. CASE relationship # MoreGeneral(3 - k)
  <2>1. /\ relationship' = MoreGeneral(k) /\ pos' = [pos EXCEPT ![k] = @ + 1] /\ pc' = pc
    BY <1>3 DEF MergeAlone
  <2>2. k \in 1 .. 2 /\ pos \in [1 .. 2 -> Nat \ {0}]
    BY SMT DEF CompareInv, CompareTypeOK
  <2>3. pos' \in [1 .. 2 -> Nat \ {0}] /\ pos'[k] = pos[k] + 1
    BY <2>1, <2>2, SMT
  <2>4. Before(k)' = Before(k) \cup {Current(k)} /\ pos'[k] <= Len(code'[k]) + 1
    BY <1>1, <2>3, BeforeGrows
  <2>5. \A j \in {1, 2} : j # k => pos'[j] = pos[j] /\ Before(j)' = Before(j)
    BY <1>1, <2>1, <2>2, SMT DEF Before
  <2>6. MoreGeneral(k) \in Relationships \ {"Unrelated"}
    BY DEF MoreGeneral, Relationships
  <2>7. Merging'
    <3>1. CASE k = 1
      <4>1. relationship' = "FirstMoreGeneral" /\ relationship # "FirstMoreSpecific"
        BY <1>3, <2>1, <3>1, SMT DEF MoreGeneral
      <4> QED BY <1>1, <2>1, <2>4, <2>5, <3>1, <4>1 DEF Merging, CompareInv, CompareTypeOK, Relationships
    <3>2. CASE k = 2
      <4>1. relationship' = "FirstMoreSpecific" /\ relationship # "FirstMoreGeneral"
        BY <1>3, <2>1, <3>2, SMT DEF MoreGeneral
      <4> QED BY <1>1, <2>1, <2>4, <2>5, <3>2, <4>1 DEF Merging, CompareInv, CompareTypeOK, Relationships
    <3> QED BY <3>1, <3>2
  <2> QED BY <1>1, <2>1, <2>3, <2>6, <2>7, MergeKeepsRest DEF CompareInv, CompareTypeOK, Sound
<1> QED BY <1>2, <1>3

LEMMA MergeRestKeepsInv ==
  ASSUME CompareInv, NEW k \in {1, 2}, MergeRest(k)
  PROVE  CompareInv'
<1>1. /\ pc = "merge" /\ ask = "relationship" /\ pc' = "answered"
      /\ ~ Ok(3 - k) /\ UNCHANGED Unmerged /\ UNCHANGED <<ask, pair, pos, distance>>
      /\ relationship' = IF relationship = MoreGeneral(3 - k) THEN "Unrelated" ELSE MoreGeneral(k)
  BY DEF MergeRest, Alone, Unmerged, Answer
<1>2. relationship' \in Relationships
  BY <1>1 DEF MoreGeneral, Relationships
<1>3. Sound'
  <2>1. CASE k = 1
    <3>1. Before(2) = Elements(code[2]) /\ Before(1) \subseteq Elements(code[1])
      BY <1>1, <2>1, BeforeAll, 3 - 1 = 2
    <3>2. relationship' = IF relationship = "FirstMoreSpecific" THEN "Unrelated" ELSE "FirstMoreGeneral"
      BY <1>1, <2>1, SMT DEF MoreGeneral
    <3> QED BY <1>1, <3>1, <3>2, AnswerSound DEF CompareInv, CompareTypeOK, Merging, Relationships
  <2>2. CASE k = 2
    <3>1. Before(1) = Elements(code[1]) /\ Before(2) \subseteq Elements(code[2])
      BY <1>1, <2>2, BeforeAll, 3 - 2 = 1
    <3>2. relationship' = IF relationship = "FirstMoreGeneral" THEN "Unrelated" ELSE "FirstMoreSpecific"
      BY <1>1, <2>2, SMT DEF MoreGeneral
    <3> QED BY <1>1, <3>1, <3>2, AnswerSound DEF CompareInv, CompareTypeOK, Merging, Relationships
  <2> QED BY <2>1, <2>2
<1> QED BY <1>1, <1>2, <1>3, MergeKeepsRest DEF CompareInv, CompareTypeOK, Merging

LEMMA CountAloneKeepsInv ==
  ASSUME CompareInv, NEW k \in {1, 2}, CountAlone(k)
  PROVE  CompareInv'
<1>1. /\ pc = "merge" /\ Ok(k) /\ ask = "distance" /\ distance' = distance + 1
      /\ UNCHANGED Unmerged /\ UNCHANGED <<pc, ask, pair, code, relationship>>
      /\ pos' = [pos EXCEPT ![k] = @ + 1]
  BY DEF CountAlone, Alone, Unmerged
<1>2. k \in 1 .. 2 /\ pos \in [1 .. 2 -> Nat \ {0}] /\ distance \in Nat
  BY SMT DEF CompareInv, CompareTypeOK
<1>3. pos' \in [1 .. 2 -> Nat \ {0}] /\ pos'[k] = pos[k] + 1 /\ distance' \in Nat /\ distance' # 0
  BY <1>1, <1>2, SMT
<1>4. pos'[k] <= Len(code'[k]) + 1
  BY <1>1, <1>3, BeforeGrows
<1>5. \A j \in {1, 2} : j # k => pos'[j] = pos[j]
  BY <1>1, <1>2, SMT
<1>6. Merging'
  BY <1>1, <1>3, <1>4, <1>5 DEF CompareInv, Merging
<1> QED BY <1>1, <1>3, <1>6, MergeKeepsRest DEF CompareInv, CompareTypeOK, Sound

LEMMA MergeEndKeepsInv ==
  ASSUME CompareInv, MergeEnd
  PROVE  CompareInv'
<1>1. /\ pc = "merge" /\ pc' = "answered" /\ ~ Ok(1) /\ ~ Ok(2)
      /\ UNCHANGED Unmerged /\ UNCHANGED <<ask, pair, pos, relationship, distance>>
  BY DEF MergeEnd, Unmerged, Answer
<1>2. Before(1) = Elements(code[1]) /\ Before(2) = Elements(code[2])
  BY <1>1, BeforeAll
<1>3. Sound'
  BY <1>1, <1>2, AnswerSound DEF CompareInv, Merging
<1> QED BY <1>1, <1>3, MergeKeepsRest DEF CompareInv, CompareTypeOK, Merging

-----------------------------------------------------------------------------
(* The theorems. *)

LEMMA StepKeepsInv ==
  ASSUME Separated, CompareInv, CompareStep
  PROVE  CompareInv'
  BY FirstSettingKeepsInv, NextSettingKeepsInv, NoMoreSettingsKeepsInv, FilterNextKeepsInv,
     KeepSettingKeepsInv, MergeSameKeepsInv, MergeAloneKeepsInv, MergeRestKeepsInv,
     CountAloneKeepsInv, MergeEndKeepsInv DEF CompareStep

LEMMA StutterKeepsInv ==
  ASSUME CompareInv, UNCHANGED compareVars
  PROVE  CompareInv'
<1>1. CompareTypeOK' /\ Filtering' /\ Sound' /\ used' = UNION (pair'[1] \cup pair'[2])
  BY DEF compareVars, CompareInv, CompareTypeOK, Filtering, Evaluate, Pattern, Sound, Claims
<1>2. ASSUME NEW k \in {1, 2} PROVE Before(k)' = Before(k) /\ (pc # "idle" => Encoded(k)')
  <2>1. Seen(k)' = Seen(k)
    BY DEF Seen, compareVars
  <2> QED BY <2>1, EncodedKept DEF CompareInv, compareVars, Before
<1>3. Merging'
  BY <1>2 DEF compareVars, CompareInv, Merging
<1> QED BY <1>1, <1>2, <1>3 DEF compareVars, CompareInv

\* Whatever the predicates, the attributes and the values: if no two literals are closer
\* than 1, predicates that are found equivalent accept the same rows, and one that is found
\* more general accepts all rows of the other (getPredicateRelationship and the fitness of
\* GAQueryCombinator).
THEOREM CompareSound ==
  ASSUME Separated
  PROVE  CompareSpec => []Sound
<1>1. CompareInit => CompareInv
  BY CompareInitInv
<1>2. CompareInv /\ [CompareNext]_compareVars => CompareInv'
  BY CompareKeepsInv, StepKeepsInv, StutterKeepsInv DEF CompareNext
<1>3. CompareInv => Sound
  BY DEF CompareInv
<1> QED BY <1>1, <1>2, <1>3, PTL DEF CompareSpec

-----------------------------------------------------------------------------
(* The inductive invariant. *)

RequestsKept ==
  /\ target \in Minerules /\ past \in Seq(Minerules) /\ toCombine \in Seq(Minerules)
  /\ row \in Nat \ {0}

\* A relationship of the condition k of the current row tells the truth.
Says(relation, k) ==
  /\ relation \in {"Equivalent", "FirstMoreGeneral"} =>
       Included(target.conditions[k], past[row].conditions[k])
  /\ relation = "Equivalent" => Included(past[row].conditions[k], target.conditions[k])

\* While a row is related, the comparison is about its next condition.
Relating ==
  phase = "relating" =>
    /\ row <= Len(past) /\ Comparable(past[row], target)
    /\ relations \in Seq(Relationships) /\ Len(relations) \in 0 .. 2
    /\ pc # "idle" /\ ask = "relationship"
    /\ pair[1] = past[row].conditions[Len(relations) + 1]
    /\ pair[2] = target.conditions[Len(relations) + 1]
    /\ \A k \in 1 .. Len(relations) : Says(relations[k], k)

\* The past minerule that is kept is worth it from the moment it is chosen.
Chosen ==
  /\ phase \in {"scanning", "relating"} => found \in {"None", "Dominance", "Equivalence"}
  /\ found \in {"Dominance", "Equivalence"} =>
       /\ \E i \in 1 .. Len(past) : past[i] = basis
       /\ Comparable(basis, target)
       /\ \A k \in 1 .. 3 : /\ Included(target.conditions[k], basis.conditions[k])
                            /\ found = "Equivalence" => Included(basis.conditions[k], target.conditions[k])

QueriesInv ==
  /\ CompareInv
  /\ RequestsKept
  /\ Relating
  /\ Chosen

-----------------------------------------------------------------------------
(* The predicates that are compared. *)

LEMMA MineruleConditions ==
  ASSUME NEW m \in Minerules, NEW k \in 1 .. 3
  PROVE  m.conditions[k] \in SUBSET (SUBSET Indices)
<1>1. m \in Minerule
  BY RequestsAssumption
<1>2. m.conditions \in [1 .. 3 -> SUBSET (SUBSET Indices)]
  BY <1>1 DEF Minerule
<1> QED BY <1>2

LEMMA PastElement ==
  ASSUME RequestsKept, NEW i \in 1 .. Len(past)
  PROVE  past[i] \in Minerules
  BY ElementInSet DEF RequestsKept

\* What a combination of candidates stands for is a predicate.
LEMMA CombinationType ==
  ASSUME RequestsKept, NEW g \in Genomes
  PROVE  AssociatedPredicate(g) \in SUBSET (SUBSET Indices)
<1>1. ASSUME NEW d \in g PROVE Conjoined(d) \in SUBSET (SUBSET Indices)
  <2>1. \A j \in d : Candidate(j) \in SUBSET (SUBSET Indices)
    <3> SUFFICES ASSUME NEW j \in d PROVE Candidate(j) \in SUBSET (SUBSET Indices)
      OBVIOUS
    <3>1. j \in 1 .. Len(toCombine)
      BY DEF Genomes
    <3>2. toCombine[j] \in Minerules
      BY <3>1, ElementInSet DEF RequestsKept
    <3> QED BY <3>2, MineruleConditions, 1 \in 1 .. 3 DEF Candidate
  <2> DEFINE operands == {j \in d : Candidate(j) # {}}
             disjuncts == UNION {Candidate(j) : j \in operands}
  <2>2. ASSUME NEW f \in [operands -> disjuncts], \A j \in operands : f[j] \in Candidate(j)
        PROVE  UNION {f[j] : j \in operands} \in SUBSET Indices
    <3>1. \A j \in operands : f[j] \in SUBSET Indices
      BY <2>1, <2>2
    <3> HIDE DEF operands
    <3> QED BY <3>1
  <2> HIDE DEF operands, disjuncts
  <2>3. {UNION {f[j] : j \in operands} :
           f \in {e \in [operands -> disjuncts] : \A j \in operands : e[j] \in Candidate(j)}}
          \in SUBSET (SUBSET Indices)
    BY <2>2
  <2> QED BY <2>3 DEF Conjoined, operands, disjuncts
<1> QED BY <1>1 DEF AssociatedPredicate

\* The truth about a pair of conditions once it was compared.
LEMMA AnswerSays ==
  ASSUME QueriesInv, phase = "relating", pc = "answered"
  PROVE  Says(relationship, Len(relations) + 1)
<1>1. Claims(pair[1], pair[2]) /\ ask = "relationship"
  BY DEF QueriesInv, CompareInv, Sound, Relating
<1>2. /\ relationship \in {"Equivalent", "FirstMoreGeneral"} => Included(pair[2], pair[1])
      /\ relationship = "Equivalent" => Included(pair[1], pair[2])
  BY <1>1 DEF Claims, Included
<1> QED BY <1>2 DEF Says, QueriesInv, Relating

-----------------------------------------------------------------------------
(* Every step keeps the invariant. *)

LEMMA SkipRowKeepsInv ==
  ASSUME QueriesInv, SkipRow
  PROVE  QueriesInv'
<1>1. CompareInv'
  BY StutterKeepsInv DEF QueriesInv, SkipRow
<1>2. toCombine' \in Seq(Minerules)
  BY PastElement, SMT DEF SkipRow, Collected, QueriesInv, RequestsKept
<1>3. RequestsKept'
  BY <1>2, SMT DEF SkipRow, QueriesInv, RequestsKept
<1> QED BY <1>1, <1>3 DEF SkipRow, QueriesInv, Relating, Chosen

LEMMA RelateRowKeepsInv ==
  ASSUME QueriesInv, RelateRow
  PROVE  QueriesInv'
<1>1. /\ phase' = "relating" /\ relations' = <<>> /\ row <= Len(past)
      /\ Comparable(past[row], target)
      /\ UNCHANGED <<target, past, row, found, basis>>
      /\ Compare(past[row].conditions[1], target.conditions[1], "relationship")
      /\ toCombine' = Collected
  BY DEF RelateRow, CompareConditions
<1>2. row \in 1 .. Len(past) /\ past[row] \in Minerules /\ target \in Minerules
  <2>1. row \in 1 .. Len(past)
    BY <1>1, SMT DEF QueriesInv, RequestsKept
  <2> QED BY <2>1, PastElement DEF QueriesInv, RequestsKept
<1>3. CompareInv'
  BY <1>1, <1>2, MineruleConditions, CompareKeepsInv, 1 \in 1 .. 3
<1>4. RequestsKept'
  <2>1. toCombine' \in Seq(Minerules)
    BY <1>1, <1>2, SMT DEF Collected, QueriesInv, RequestsKept
  <2> QED BY <1>1, <2>1 DEF QueriesInv, RequestsKept
<1>5. Relating'
  <2>1. pc' # "idle" /\ ask' = "relationship" /\ pair'[1] = past[row].conditions[1]
        /\ pair'[2] = target.conditions[1]
    BY <1>1 DEF Compare
  <2>2. relations' \in Seq(Relationships) /\ Len(relations') = 0
    BY <1>1, SMT
  <2>3. Comparable(past[row], target)'
    BY <1>1
  <2> QED BY <1>1, <2>1, <2>2, <2>3, SMT DEF Relating
<1>6. Chosen'
  BY <1>1 DEF QueriesInv, Chosen, RelateRow
<1> QED BY <1>3, <1>4, <1>5, <1>6 DEF QueriesInv

LEMMA RelateNextKeepsInv ==
  ASSUME QueriesInv, RelateNext
  PROVE  QueriesInv'
<1> DEFINE n == Len(relations)
<1>1. /\ phase = "relating" /\ phase' = phase /\ pc = "answered" /\ n < 2
      /\ relations' = Append(relations, relationship)
      /\ UNCHANGED <<target, past, row, found, basis, toCombine>>
      /\ Compare(past[row].conditions[n + 2], target.conditions[n + 2], "relationship")
  BY DEF RelateNext, CompareConditions
<1>2. /\ row \in 1 .. Len(past) /\ past[row] \in Minerules /\ target \in Minerules
      /\ n \in 0 .. 2 /\ relations \in Seq(Relationships) /\ relationship \in Relationships
  <2>1. row \in 1 .. Len(past)
    BY <1>1, SMT DEF QueriesInv, RequestsKept, Relating
  <2> QED BY <1>1, <2>1, PastElement DEF QueriesInv, RequestsKept, Relating, CompareInv, CompareTypeOK
<1>3. CompareInv'
  <2>1. n + 2 \in 1 .. 3
    BY <1>1, <1>2, SMT
  <2> HIDE DEF n
  <2> QED BY <1>1, <1>2, <2>1, MineruleConditions, CompareKeepsInv
<1>4. RequestsKept'
  BY <1>1 DEF QueriesInv, RequestsKept
<1>5. Relating'
  <2>1. /\ relations' \in Seq(Relationships) /\ Len(relations') = n + 1 /\ n + 1 \in 0 .. 2
        /\ Len(relations') + 1 = n + 2
    BY <1>1, <1>2, SMT
  <2>2. pc' # "idle" /\ ask' = "relationship" /\ pair'[1] = past[row].conditions[n + 2]
        /\ pair'[2] = target.conditions[n + 2]
    BY <1>1 DEF Compare
  <2>3. \A k \in 1 .. n + 1 : Says(relations'[k], k)
    <3>1. Says(relationship, n + 1)
      BY <1>1, AnswerSays
    <3>2. \A k \in 1 .. n : relations'[k] = relations[k] /\ Says(relations[k], k)
      BY <1>1, <1>2, SMT DEF QueriesInv, Relating
    <3>3. relations'[n + 1] = relationship
      BY <1>1, <1>2, SMT
    <3> QED BY <1>2, <3>1, <3>2, <3>3, SMT
  <2>4. \A k, r : Says(r, k)' = Says(r, k)
    BY <1>1 DEF Says
  <2>5. Comparable(past[row], target)' /\ row' <= Len(past')
    BY <1>1 DEF QueriesInv, Relating
  <2> HIDE DEF n
  <2> QED BY <1>1, <2>1, <2>2, <2>3, <2>4, <2>5 DEF Relating
<1>6. Chosen'
  BY <1>1 DEF QueriesInv, Chosen
<1> QED BY <1>3, <1>4, <1>5, <1>6 DEF QueriesInv

\* A relationship that all three conditions allow is one of the minerules.
LEMMA RelateKeepsInv ==
  ASSUME QueriesInv, Relate
  PROVE  QueriesInv'
<1> DEFINE all == Append(relations, relationship)
           rel == MineruleRelationship(all)
           current == IF rel = "Equivalence" /\ AvoidEquivalenceDetection THEN "Dominance" ELSE rel
<1>1. /\ phase = "relating" /\ pc = "answered" /\ Len(relations) = 2
      /\ relations' = <<>> /\ row' = row + 1
      /\ UNCHANGED <<target, past, toCombine>> /\ UNCHANGED compareVars
      /\ phase' = IF current = "Equivalence" THEN "optimized" ELSE "scanning"
      /\ found' = IF current = "None" THEN found ELSE current
      /\ basis' = IF current = "Equivalence" \/ (current = "Dominance" /\ SmallerOne)
                 THEN past[row] ELSE basis
  BY DEF Relate
<1>2. /\ row \in 1 .. Len(past) /\ Comparable(past[row], target)
      /\ relations \in Seq(Relationships) /\ relationship \in Relationships
      /\ found \in {"None", "Dominance", "Equivalence"}
  BY <1>1, SMT DEF QueriesInv, RequestsKept, Relating, Chosen, CompareInv, CompareTypeOK
<1>3. \A k \in 1 .. 3 : Says(all[k], k)
  <2>1. all[1] = relations[1] /\ all[2] = relations[2] /\ all[3] = relationship
    <3>1. \A k \in 1 .. Len(relations) : all[k] = relations[k]
      BY <1>2, SMT
    <3>2. all[Len(relations) + 1] = relationship
      BY <1>2, SMT
    <3> HIDE DEF all
    <3> QED BY <1>1, <3>1, <3>2, SMT
  <2>2. Says(relations[1], 1) /\ Says(relations[2], 2) /\ Says(relationship, 3)
    <3>1. Says(relationship, 3)
      BY <1>1, AnswerSays, 2 + 1 = 3
    <3>2. \A k \in 1 .. 2 : Says(relations[k], k)
      BY <1>1 DEF QueriesInv, Relating
    <3> QED BY <3>1, <3>2, 1 \in 1 .. 2, 2 \in 1 .. 2
  <2>3. 1 .. 3 = {1, 2, 3}
    BY SMT
  <2> HIDE DEF all
  <2> QED BY <2>1, <2>2, <2>3
<1>4. /\ rel \in {"None", "Dominance", "Equivalence"}
      /\ rel # "None" => \A k \in 1 .. 3 : all[k] \in {"FirstMoreGeneral", "Equivalent"}
      /\ rel = "Equivalence" => \A k \in 1 .. 3 : all[k] = "Equivalent"
  <2> HIDE DEF all
  <2> QED BY DEF MineruleRelationship
<1>5. /\ current \in {"None", "Dominance", "Equivalence"}
      /\ current # "None" => \A k \in 1 .. 3 : Included(target.conditions[k], past[row].conditions[k])
      /\ current = "Equivalence" => \A k \in 1 .. 3 : Included(past[row].conditions[k], target.conditions[k])
  <2> HIDE DEF all
  <2> QED BY <1>3, <1>4 DEF Says
<1> HIDE DEF current, rel, all
<1>6. CompareInv' /\ RequestsKept' /\ Relating'
  <2>1. CompareInv'
    BY <1>1, StutterKeepsInv DEF QueriesInv
  <2> QED BY <1>1, <2>1, SMT DEF QueriesInv, RequestsKept, Relating
<1>7. Chosen'
  <2>1. CASE current = "Equivalence" \/ (current = "Dominance" /\ SmallerOne)
    BY <1>1, <1>2, <1>5, <2>1 DEF Chosen
  <2>2. CASE ~ (current = "Equivalence" \/ (current = "Dominance" /\ SmallerOne))
    <3>1. current = "None" \/ (current = "Dominance" /\ found # "None")
      BY <1>5, <2>2 DEF SmallerOne
    <3>2. /\ found' \in {"Dominance", "Equivalence"} => found \in {"Dominance", "Equivalence"}
          /\ found' = "Equivalence" => found = "Equivalence"
          /\ basis' = basis
      BY <1>1, <1>2, <2>2, <3>1
    <3> QED BY <1>1, <1>2, <3>1, <3>2 DEF Chosen, QueriesInv
  <2> QED BY <2>1, <2>2
<1> QED BY <1>6, <1>7 DEF QueriesInv

\* The comparison of a combination.
LEMMA EvaluateGenomeKeepsInv ==
  ASSUME QueriesInv, EvaluateGenome
  PROVE  QueriesInv'
<1>1. /\ phase = "searching" /\ phase' \in {"failed", "evaluating"}
      /\ UNCHANGED <<target, past, row, relations, found, basis, toCombine>>
  BY DEF EvaluateGenome
<1>2. CompareInv'
  <2>1. target.conditions[1] \in SUBSET (SUBSET Indices)
    BY MineruleConditions, 1 \in 1 .. 3 DEF QueriesInv, RequestsKept
  <2>2. CASE UNCHANGED compareVars
    BY <2>2, StutterKeepsInv DEF QueriesInv
  <2>3. CASE \E g \in Genomes : Compare(target.conditions[1], AssociatedPredicate(g), "distance")
    BY <2>1, <2>3, CombinationType, CompareKeepsInv DEF QueriesInv
  <2> QED BY <2>2, <2>3 DEF EvaluateGenome
<1> QED BY <1>1, <1>2 DEF QueriesInv, RequestsKept, Relating, Chosen

\* The steps of a comparison do not change what is compared.
LEMMA ComparisonKeepsQuestion ==
  ASSUME CompareStep
  PROVE  UNCHANGED <<ask, pair>> /\ (pc # "idle" => pc' # "idle")
<1>1. CASE FirstSetting \/ NextSetting
  BY <1>1 DEF FirstSetting, NextSetting, Consider
<1>2. CASE NoMoreSettings \/ KeepSetting
  BY <1>2 DEF NoMoreSettings, Exhausted, KeepSetting
<1>3. CASE FilterNext
  BY <1>3 DEF FilterNext
<1>4. CASE MergeSame \/ MergeEnd
  BY <1>4 DEF MergeSame, MergeEnd, Answer, Unmerged
<1>5. CASE \E k \in {1, 2} : MergeAlone(k) \/ MergeRest(k) \/ CountAlone(k)
  BY <1>5 DEF MergeAlone, MergeRest, CountAlone, Answer, Unmerged
<1> QED BY <1>1, <1>2, <1>3, <1>4, <1>5 DEF CompareStep

LEMMA RunComparisonKeepsInv ==
  ASSUME Separated, QueriesInv, RunComparison
  PROVE  QueriesInv'
<1>1. CompareInv'
  BY StepKeepsInv DEF QueriesInv, RunComparison
<1>2. UNCHANGED <<ask, pair>> /\ (pc # "idle" => pc' # "idle")
  BY ComparisonKeepsQuestion DEF RunComparison
<1>3. \A k, r : Says(r, k)' = Says(r, k)
  BY DEF Says, RunComparison, queryVars
<1> QED BY <1>1, <1>2, <1>3 DEF RunComparison, queryVars, QueriesInv, RequestsKept, Relating, Chosen

\* The other steps, and no step at all, leave the rows, the choice and the comparison alone.
LEMMA OtherStepKeepsInv ==
  ASSUME QueriesInv, UnreadableRow \/ EndOfRows \/ Combine \/ SearchOn \/ GiveUp \/ UNCHANGED vars
  PROVE  QueriesInv'
<1>1. CompareInv'
  BY StutterKeepsInv DEF UnreadableRow, EndOfRows, Combine, SearchOn, GiveUp, vars, QueriesInv
<1>2. \A k, r : Says(r, k)' = Says(r, k)
  BY DEF Says, UnreadableRow, EndOfRows, Combine, SearchOn, GiveUp, vars, queryVars
<1>3. RequestsKept'
  <2>1. <<>> \in Seq(Minerules)
    BY SMT
  <2> QED BY <2>1 DEF UnreadableRow, EndOfRows, Combine, SearchOn, GiveUp, vars, queryVars, QueriesInv, RequestsKept
<1>4. Chosen' /\ Relating'
  BY <1>2 DEF UnreadableRow, EndOfRows, Combine, SearchOn, GiveUp, vars, queryVars, compareVars, QueriesInv, Relating, Chosen
<1> QED BY <1>1, <1>3, <1>4 DEF QueriesInv

-----------------------------------------------------------------------------
(* The theorems. *)

LEMMA QueriesInductive ==
  ASSUME Separated
  PROVE  Spec => []QueriesInv
<1>1. Init => QueriesInv
  <2> SUFFICES ASSUME Init PROVE QueriesInv
    OBVIOUS
  <2>1. CompareInv
    BY CompareInitInv DEF Init
  <2>2. RequestsKept
    BY RequestsAssumption, SMT DEF Init, RequestsKept
  <2> QED BY <2>1, <2>2 DEF Init, QueriesInv, Relating, Chosen
<1>2. QueriesInv /\ [Next]_vars => QueriesInv'
  BY SkipRowKeepsInv, RelateRowKeepsInv, RelateNextKeepsInv, RelateKeepsInv, EvaluateGenomeKeepsInv,
     RunComparisonKeepsInv, OtherStepKeepsInv DEF Next
<1> QED BY <1>1, <1>2, PTL DEF Spec

\* Every answer to a comparison that optimize() asks for is true of all rows.
THEOREM QueriesSound ==
  ASSUME Separated
  PROVE  Spec => []Sound
<1>1. QueriesInv => Sound
  BY DEF QueriesInv, CompareInv
<1> QED BY <1>1, QueriesInductive, PTL

\* The past minerule that answers a new one, dominating or equivalent, is one of the catalogue
\* and accepts all rows that each condition of the new one accepts; an equivalent one accepts
\* no others.
THEOREM AnswersPromised ==
  ASSUME Separated
  PROVE  Spec => []Promised
<1>1. QueriesInv => Promised
  BY DEF QueriesInv, Chosen, Promised
<1> QED BY <1>1, QueriesInductive, PTL

-----------------------------------------------------------------------------
(* Combinations. *)

\* If one of its candidates has a condition on rules, the conjunction that is built accepts the
\* rows that all of them accept.
LEMMA ConjoinedMeaning ==
  ASSUME NEW d, \E j \in d : Candidate(j) # {}, NEW tuple
  PROVE  /\ Conjoined(d) # {}
         /\ Meaning(Conjoined(d), tuple) <=> \A j \in d : Meaning(Candidate(j), tuple)
<1> DEFINE operands == {j \in d : Candidate(j) # {}}
           disjuncts == UNION {Candidate(j) : j \in operands}
           choices == {f \in [operands -> disjuncts] : \A j \in operands : f[j] \in Candidate(j)}
<1>1. Conjoined(d) = {UNION {f[j] : j \in operands} : f \in choices}
  BY DEF Conjoined
<1>2. ASSUME NEW f, f = [j \in operands |-> f[j]], \A j \in operands : f[j] \in Candidate(j)
      PROVE  UNION {f[j] : j \in operands} \in Conjoined(d)
  <2>1. f \in choices
    BY <1>2
  <2> DEFINE joined(h) == UNION {h[j] : j \in operands}
  <2>2. Conjoined(d) = {joined(h) : h \in choices}
    BY <1>1
  <2> HIDE DEF joined, choices
  <2>3. joined(f) \in Conjoined(d)
    BY <2>1, <2>2
  <2> QED BY <2>3 DEF joined
<1>3. \A j \in operands : j \in d /\ Candidate(j) # {}
  OBVIOUS
<1>4. \A j \in d : j \notin operands => Candidate(j) = {}
  OBVIOUS
<1>5. ASSUME NEW c \in Conjoined(d)
      PROVE  \E f : c = UNION {f[j] : j \in operands} /\ \A j \in operands : f[j] \in Candidate(j)
  <2> HIDE DEF operands, disjuncts
  <2>1. PICK f \in choices : c = UNION {f[j] : j \in operands}
    BY <1>1
  <2> QED BY <2>1
<1> HIDE DEF operands
<1>6. Conjoined(d) # {}
  <2> DEFINE any == [j \in operands |-> CHOOSE c \in Candidate(j) : TRUE]
  <2>1. \A j \in operands : any[j] \in Candidate(j)
    BY <1>3
  <2>2. any = [j \in operands |-> any[j]]
    OBVIOUS
  <2> HIDE DEF any
  <2> QED BY <1>2, <2>1, <2>2
<1>7. ASSUME Meaning(Conjoined(d), tuple), NEW j \in d  PROVE Meaning(Candidate(j), tuple)
  <2>1. PICK c \in Conjoined(d) : \A i \in c : Holds(i, tuple)
    BY <1>6, <1>7 DEF Meaning
  <2>2. PICK f : c = UNION {f[k] : k \in operands} /\ \A k \in operands : f[k] \in Candidate(k)
    BY <1>5
  <2>3. CASE j \in operands
    <3>1. f[j] \in Candidate(j) /\ \A i \in f[j] : Holds(i, tuple)
      BY <2>1, <2>2, <2>3
    <3> QED BY <3>1 DEF Meaning
  <2>4. CASE j \notin operands
    BY <1>4, <2>4 DEF Meaning
  <2> QED BY <2>3, <2>4
<1>8. ASSUME \A j \in d : Meaning(Candidate(j), tuple)  PROVE Meaning(Conjoined(d), tuple)
  <2> DEFINE met == [j \in operands |-> CHOOSE c \in Candidate(j) : \A i \in c : Holds(i, tuple)]
  <2>1. \A j \in operands : met[j] \in Candidate(j) /\ \A i \in met[j] : Holds(i, tuple)
    <3>1. ASSUME NEW j \in operands  PROVE \E c \in Candidate(j) : \A i \in c : Holds(i, tuple)
      BY <1>3, <1>8 DEF Meaning
    <3> QED BY <3>1
  <2>2. met = [j \in operands |-> met[j]]
    OBVIOUS
  <2> HIDE DEF met
  <2>3. UNION {met[j] : j \in operands} \in Conjoined(d)
    BY <1>2, <2>1, <2>2
  <2>4. \A i \in UNION {met[j] : j \in operands} : Holds(i, tuple)
    BY <2>1
  <2> QED BY <2>3, <2>4 DEF Meaning
<1> QED BY <1>6, <1>7, <1>8

LEMMA CombinationMeaning ==
  ASSUME NEW g, g # {}, Anchored(g), NEW tuple
  PROVE  Meaning(AssociatedPredicate(g), tuple)
           <=> \E d \in g : \A j \in d : Meaning(Candidate(j), tuple)
<1>1. \A d \in g : /\ Conjoined(d) # {}
                   /\ Meaning(Conjoined(d), tuple) <=> \A j \in d : Meaning(Candidate(j), tuple)
  BY ConjoinedMeaning DEF Anchored
<1>2. AssociatedPredicate(g) # {}
  BY <1>1 DEF AssociatedPredicate
<1>3. Meaning(AssociatedPredicate(g), tuple) <=> \E d \in g : Meaning(Conjoined(d), tuple)
  BY <1>1, <1>2 DEF Meaning, AssociatedPredicate
<1> QED BY <1>1, <1>3

\* What is compared while a genome is evaluated, and what the comparison said of the one kept.
Combining ==
  /\ phase = "evaluating" =>
       /\ ask = "distance"
       /\ pair[1] = target.conditions[1] /\ pair[2] = AssociatedPredicate(genome)
  /\ found = "Combination" =>
       /\ phase = "optimized" /\ formula # {}
       /\ Included(target.conditions[1], AssociatedPredicate(formula))
       /\ Included(AssociatedPredicate(formula), target.conditions[1])

LEMMA AssociatedStays ==
  ASSUME toCombine' = toCombine, NEW g
  PROVE  AssociatedPredicate(g)' = AssociatedPredicate(g)
BY DEF AssociatedPredicate, Conjoined, Candidate

LEMMA CombiningStep ==
  ASSUME QueriesInv, Combining, [Next]_vars
  PROVE  Combining'
<1>1. CASE EvaluateGenome
  <2>1. found # "Combination" /\ found' = found /\ target' = target /\ toCombine' = toCombine
    BY <1>1 DEF EvaluateGenome, Combining
  <2>2. CASE phase' = "evaluating"
    <3>1. Compare(target.conditions[1], AssociatedPredicate(genome'), "distance")
      BY <1>1, <2>2 DEF EvaluateGenome
    <3>2. ask' = "distance" /\ pair'[1] = target.conditions[1] /\ pair'[2] = AssociatedPredicate(genome')
      BY <3>1 DEF Compare
    <3>3. AssociatedPredicate(genome)' = AssociatedPredicate(genome')
      BY <2>1 DEF AssociatedPredicate, Conjoined, Candidate
    <3> QED BY <2>1, <3>2, <3>3 DEF Combining
  <2> QED BY <2>1, <2>2 DEF Combining
<1>2. CASE Combine
  <2>1. /\ phase = "evaluating" /\ pc = "answered" /\ distance = 0 /\ genome # {}
        /\ phase' = "optimized" /\ formula' = genome /\ UNCHANGED <<target, toCombine, genome>>
    BY <1>2 DEF Combine
  <2>2. Claims(pair[1], pair[2])
    BY <2>1 DEF QueriesInv, CompareInv, Sound
  <2>3. /\ Included(target.conditions[1], AssociatedPredicate(genome))
        /\ Included(AssociatedPredicate(genome), target.conditions[1])
    BY <2>1, <2>2 DEF Claims, Included, Combining
  <2>4. AssociatedPredicate(formula)' = AssociatedPredicate(genome)
    BY <2>1 DEF AssociatedPredicate, Conjoined, Candidate
  <2>5. \A p, q : Included(p, q)' = Included(p, q)
    BY DEF Included
  <2> QED BY <2>1, <2>3, <2>4 DEF Combining, Included
<1>3. CASE RunComparison
  <2>1. UNCHANGED queryVars /\ UNCHANGED <<ask, pair>>
    BY <1>3, ComparisonKeepsQuestion DEF RunComparison
  <2>2. AssociatedPredicate(genome)' = AssociatedPredicate(genome)
        /\ AssociatedPredicate(formula)' = AssociatedPredicate(formula)
    BY <2>1 DEF AssociatedPredicate, Conjoined, Candidate, queryVars
  <2> QED BY <2>1, <2>2 DEF queryVars, Combining, Included
<1>4. CASE UNCHANGED vars
  <2>1. AssociatedPredicate(genome)' = AssociatedPredicate(genome)
        /\ AssociatedPredicate(formula)' = AssociatedPredicate(formula)
    BY <1>4 DEF AssociatedPredicate, Conjoined, Candidate, vars, queryVars
  <2> QED BY <1>4, <2>1 DEF vars, queryVars, compareVars, Combining, Included
<1>5. CASE UnreadableRow \/ SkipRow \/ RelateRow \/ RelateNext \/ EndOfRows \/ SearchOn \/ GiveUp
  <2>1. found # "Combination" /\ found' = found /\ phase' # "evaluating"
    BY <1>5 DEF UnreadableRow, SkipRow, RelateRow, RelateNext, EndOfRows, SearchOn, GiveUp, Combining
  <2> QED BY <2>1 DEF Combining
<1>6. CASE Relate
  <2>1. found # "Combination" /\ phase' # "evaluating"
    BY <1>6 DEF Relate, Combining
  <2>2. found' # "Combination"
    BY <1>6, <2>1 DEF Relate, MineruleRelationship
  <2> QED BY <2>1, <2>2 DEF Combining
<1> QED BY <1>1, <1>2, <1>3, <1>4, <1>5, <1>6 DEF Next

\* If every disjunct of a combination has a candidate with a condition on rules, which is what
\* Anchored says, the combination accepts exactly the rows of the new condition
\* (buildAssociatedPredicate, buildResult).
THEOREM CombinationAnswers ==
  ASSUME Separated
  PROVE  Spec => []CombinationExact
<1>1. Init => Combining
  BY DEF Init, Combining
<1>2. QueriesInv /\ Combining /\ [Next]_vars => Combining'
  BY CombiningStep
<1>3. Combining => CombinationExact
  <2> SUFFICES ASSUME Combining, Anchored(formula), phase = "optimized", found = "Combination",
                      NEW tuple \in Rows
               PROVE  Meaning(target.conditions[1], tuple)
                        <=> \E d \in formula : \A j \in d : Meaning(Candidate(j), tuple)
    BY DEF CombinationExact
  <2>1. Meaning(target.conditions[1], tuple) <=> Meaning(AssociatedPredicate(formula), tuple)
    BY DEF Combining, Included
  <2>2. formula # {}
    BY DEF Combining
  <2> QED BY <2>1, <2>2, CombinationMeaning
<1> QED BY <1>1, <1>2, <1>3, QueriesInductive, PTL DEF Spec

-----------------------------------------------------------------------------
(* The distance. An encoding ascends, so that a setting the merge has passed in one of them *)
(* cannot come later in the other; what was counted are the settings passed in one only.    *)

Apart(S, T) == (S \ T) \cup (T \ S)

CountTypes ==
  /\ used \subseteq Indices /\ setting \subseteq used /\ side \in {1, 2}
  /\ code \in [1 .. 2 -> Seq(SUBSET Indices)] /\ pos \in [1 .. 2 -> Nat \ {0}]
  /\ distance \in Nat /\ relationship \in Relationships

Ascends(s) == \A i, j \in 1 .. Len(s) : i < j => Precedes(s[i], s[j])

Encoding ==
  pc \in {"next", "filter"} =>
    /\ pos = <<1, 1>> /\ distance = 0
    /\ side = 1 => code[2] = <<>>
    /\ first => pc = "next" /\ code[side] = <<>>
    /\ \A i \in 1 .. Len(code[side]) :
         Precedes(code[side][i], setting) \/ (pc = "next" /\ code[side][i] = setting)

Passed(j, k) == \A s \in Before(j) : \A i \in pos[k] .. Len(code[k]) : Precedes(s, code[k][i])

Counting ==
  pc = "merge" /\ ask = "distance" =>
    /\ pos[1] <= Len(code[1]) + 1 /\ pos[2] <= Len(code[2]) + 1
    /\ Passed(1, 2) /\ Passed(2, 1)
    /\ IsFiniteSet(Apart(Before(1), Before(2)))
    /\ distance = Cardinality(Apart(Before(1), Before(2)))

CountInv ==
  /\ CountTypes
  /\ Ascends(code[1]) /\ Ascends(code[2])
  /\ Encoding /\ Counting /\ DistanceExact

LEMMA PrecedesIsStrict ==
  ASSUME NEW r \in SUBSET Indices, NEW s \in SUBSET Indices, NEW t \in SUBSET Indices
  PROVE  /\ ~ Precedes(s, s)
         /\ Precedes(r, s) /\ Precedes(s, t) => Precedes(r, t)
<1>1. \A i \in r \cup s \cup t : i \in Int
  BY DEF Indices
<1>2. ~ Precedes(s, s)
  BY DEF Precedes
<1>3. ASSUME Precedes(r, s), Precedes(s, t)  PROVE Precedes(r, t)
  <2>1. PICK i \in s \ r : \A j \in r \ s : j < i
    BY <1>3 DEF Precedes
  <2>2. PICK h \in t \ s : \A j \in s \ t : j < h
    BY <1>3 DEF Precedes
  <2>3. i \in Int /\ h \in Int /\ i # h
    BY <1>1
  <2>4. CASE i < h
    <3>1. h \notin r
      BY <1>1, <2>1, <2>2, <2>3, <2>4
    <3>2. \A j \in r \ t : j < h
      BY <1>1, <2>1, <2>2, <2>3, <2>4
    <3> QED BY <2>2, <3>1, <3>2 DEF Precedes
  <2>5. CASE h < i
    <3>1. i \in t
      BY <1>1, <2>1, <2>2, <2>3, <2>5
    <3>2. \A j \in r \ t : j < i
      BY <1>1, <2>1, <2>2, <2>3, <2>5
    <3> QED BY <2>1, <3>1, <3>2 DEF Precedes
  <2> QED BY <2>3, <2>4, <2>5
<1> QED BY <1>2, <1>3

\* An ascending sequence still ascends with a later setting at its end.
LEMMA AscendsOn ==
  ASSUME NEW s \in Seq(SUBSET Indices), NEW e \in SUBSET Indices, Ascends(s),
         \A i \in 1 .. Len(s) : Precedes(s[i], e)
  PROVE  Ascends(Append(s, e))
<1>1. Len(Append(s, e)) = Len(s) + 1 /\ Len(s) \in Nat
  BY SMT
<1>2. /\ \A i \in 1 .. Len(s) : Append(s, e)[i] = s[i]
      /\ Append(s, e)[Len(s) + 1] = e
  BY SMT
<1> DEFINE a == Append(s, e)
<1> HIDE DEF a
<1>3. ASSUME NEW i \in 1 .. Len(a), NEW j \in 1 .. Len(a), i < j  PROVE Precedes(a[i], a[j])
  <2>1. i \in 1 .. Len(s) /\ a[i] = s[i]
    BY <1>1, <1>2, <1>3 DEF a
  <2>2. CASE j \in 1 .. Len(s)
    BY <1>2, <1>3, <2>1, <2>2 DEF a, Ascends
  <2>3. CASE j = Len(s) + 1
    BY <1>2, <2>1, <2>3 DEF a
  <2> QED BY <1>1, <1>3, <2>2, <2>3 DEF a
<1> QED BY <1>3 DEF Ascends, a

-----------------------------------------------------------------------------
LEMMA CountCompare ==
  ASSUME NEW p \in SUBSET (SUBSET Indices), NEW q \in SUBSET (SUBSET Indices),
         NEW question \in {"relationship", "distance"}, Compare(p, q, question)
  PROVE  CountInv'
<1>1. /\ used' = UNION (p \cup q) /\ side' = 1 /\ first' = TRUE /\ setting' = {}
      /\ code' = <<<<>>, <<>>>> /\ pos' = <<1, 1>> /\ distance' = 0 /\ pc' \in {"aborted", "next"}
      /\ relationship' \in Relationships
  BY DEF Compare, Relationships
<1>2. <<>> \in Seq(SUBSET Indices) /\ Len(<<>>) = 0
  BY SMT
<1>3. code' \in [1 .. 2 -> Seq(SUBSET Indices)] /\ pos' \in [1 .. 2 -> Nat \ {0}]
  <2>1. <<<<>>, <<>>>> \in [1 .. 2 -> Seq(SUBSET Indices)]
    BY <1>2, CoupleInSet
  <2>2. <<1, 1>> \in [1 .. 2 -> Nat \ {0}]
    BY CoupleInSet
  <2> QED BY <1>1, <2>1, <2>2
<1>4. CountTypes'
  BY <1>1, <1>3 DEF CountTypes
<1>5. code'[1] = <<>> /\ code'[2] = <<>>
  BY <1>1
<1>6. Ascends(code[1])' /\ Ascends(code[2])'
  BY <1>2, <1>5, SMT DEF Ascends
<1>7. Encoding' /\ Counting' /\ DistanceExact'
  BY <1>1, <1>2, <1>5, SMT DEF Encoding, Counting, DistanceExact
<1> QED BY <1>4, <1>6, <1>7 DEF CountInv

LEMMA CountConsider ==
  ASSUME CountInv, pc = "next", NEW s \in SUBSET used, Consider(s),
         first \/ Precedes(setting, s)
  PROVE  CountInv'
<1>1. /\ setting' = s /\ first' = FALSE /\ pc' \in {"next", "filter"}
      /\ UNCHANGED <<ask, used, side, code, pos, distance, relationship>>
  BY DEF Consider
<1>2. CountTypes' /\ Ascends(code[1])' /\ Ascends(code[2])'
  BY <1>1 DEF CountInv, CountTypes, Ascends
<1>3. ASSUME NEW i \in 1 .. Len(code[side])  PROVE Precedes(code[side][i], s)
  <2>1. code[side] \in Seq(SUBSET Indices)
    BY SMT DEF CountInv, CountTypes
  <2>2. code[side][i] \in SUBSET Indices
    BY <2>1, ElementInSet
  <2>3. ~ first
    BY <1>3, <2>1, SMT DEF CountInv, Encoding
  <2>4. Precedes(code[side][i], setting) \/ code[side][i] = setting
    BY DEF CountInv, Encoding
  <2>5. setting \in SUBSET Indices /\ s \in SUBSET Indices
    BY DEF CountInv, CountTypes
  <2> QED BY <2>2, <2>3, <2>4, <2>5, PrecedesIsStrict
<1>4. Encoding'
  BY <1>1, <1>3 DEF CountInv, Encoding
<1>5. Counting' /\ DistanceExact'
  BY <1>1 DEF Counting, DistanceExact
<1> QED BY <1>2, <1>4, <1>5 DEF CountInv

LEMMA CountNextSetting ==
  ASSUME CountInv, FirstSetting \/ NextSetting
  PROVE  CountInv'
<1>1. CASE FirstSetting
  BY <1>1, CountConsider DEF FirstSetting
<1>2. CASE NextSetting
  <2>1. PICK i \in used \ setting :
          /\ \A j \in used \ setting : i <= j
          /\ Consider({i} \cup {j \in setting : j > i})
    BY <1>2 DEF NextSetting
  <2>2. \A j \in used : j \in Int
    BY DEF CountInv, CountTypes, Indices
  <2>3. {i} \cup {j \in setting : j > i} \in SUBSET used
    BY DEF CountInv, CountTypes
  <2>4. Precedes(setting, {i} \cup {j \in setting : j > i})
    <3>1. ASSUME NEW j \in setting, ~ (j > i)  PROVE j < i
      BY <2>2, <3>1 DEF CountInv, CountTypes
    <3> QED BY <3>1 DEF Precedes
  <2> QED BY <1>2, <2>1, <2>3, <2>4, CountConsider DEF NextSetting
<1> QED BY <1>1, <1>2

LEMMA CountNoMoreSettings ==
  ASSUME CountInv, NoMoreSettings
  PROVE  CountInv'
<1>1. /\ pc = "next" /\ first' = TRUE /\ setting' = {} /\ UNCHANGED <<ask, used, code, pos, distance, relationship>>
      /\ \/ side = 1 /\ side' = 2 /\ pc' = "next"
         \/ side = 2 /\ side' = 2 /\ pc' = "merge"
  BY DEF NoMoreSettings, Exhausted, CountInv, CountTypes
<1>2. CountTypes' /\ Ascends(code[1])' /\ Ascends(code[2])'
  BY <1>1 DEF CountInv, CountTypes, Ascends
<1>3. pos = <<1, 1>> /\ distance = 0 /\ (side = 1 => code[2] = <<>>)
  BY <1>1 DEF CountInv, Encoding
<1>4. Encoding'
  <2>1. Len(<<>>) = 0
    BY SMT
  <2> QED BY <1>1, <1>3, <2>1, SMT DEF Encoding
<1>5. Before(1)' = {} /\ Before(2)' = {}
  BY <1>1, <1>3, SMT DEF Before
<1>6. Counting'
  <2>1. Len(code[1]) \in Nat /\ Len(code[2]) \in Nat
    BY SMT DEF CountInv, CountTypes
  <2>2. pos'[1] <= Len(code'[1]) + 1 /\ pos'[2] <= Len(code'[2]) + 1
    BY <1>1, <1>3, <2>1, SMT
  <2>3. Apart({}, {}) = {}
    BY DEF Apart
  <2> QED BY <1>1, <1>3, <1>5, <2>2, <2>3, FS_EmptySet DEF Counting, Passed
<1>7. DistanceExact'
  BY <1>1 DEF DistanceExact
<1> QED BY <1>2, <1>4, <1>6, <1>7 DEF CountInv

LEMMA CountFilter ==
  ASSUME CountInv, FilterNext
  PROVE  CountInv'
<1>1. pc = "filter" /\ pc' \in {"next", "filter"}
      /\ UNCHANGED <<ask, used, side, first, setting, code, pos, distance, relationship>>
  BY DEF FilterNext
<1>2. CountTypes' /\ Ascends(code[1])' /\ Ascends(code[2])'
  BY <1>1 DEF CountInv, CountTypes, Ascends
<1>3. Encoding' /\ Counting' /\ DistanceExact'
  BY <1>1 DEF CountInv, Encoding, Counting, DistanceExact
<1> QED BY <1>2, <1>3 DEF CountInv

LEMMA CountKeep ==
  ASSUME CountInv, KeepSetting
  PROVE  CountInv'
<1>1. /\ pc = "filter" /\ pc' = "next" /\ code' = [code EXCEPT ![side] = Append(@, setting)]
      /\ UNCHANGED <<ask, used, side, first, setting, pos, distance, relationship>>
  BY DEF KeepSetting
<1>2. setting \in SUBSET Indices /\ side \in 1 .. 2 /\ code[side] \in Seq(SUBSET Indices)
  BY SMT DEF CountInv, CountTypes
<1>3. Append(code[side], setting) \in Seq(SUBSET Indices)
  BY <1>2, SMT
<1>4. CountTypes'
  BY <1>1, <1>3 DEF CountInv, CountTypes
<1>5. code'[side] = Append(code[side], setting) /\ \A k \in 1 .. 2 : k # side => code'[k] = code[k]
  BY <1>1, <1>2 DEF CountInv, CountTypes
<1>6. \A i \in 1 .. Len(code[side]) : Precedes(code[side][i], setting)
  BY <1>1, SMT DEF CountInv, Encoding
<1>7. Ascends(code[side])
  BY DEF CountInv, CountTypes
<1>8. Ascends(code'[side])
  BY <1>2, <1>5, <1>6, <1>7, AscendsOn
<1>9. Ascends(code'[1]) /\ Ascends(code'[2])
  <2>1. side = 1 \/ side = 2
    BY DEF CountInv, CountTypes
  <2>2. 1 \in 1 .. 2 /\ 2 \in 1 .. 2
    BY SMT
  <2> QED BY <1>5, <1>8, <2>1, <2>2 DEF CountInv
<1>10. Encoding'
  <2>1. ~ first
    BY <1>1, SMT DEF CountInv, Encoding
  <2>2. side = 1 => code'[2] = <<>>
    BY <1>1, <1>5, SMT DEF CountInv, Encoding
  <2>3. ASSUME NEW i \in 1 .. Len(code'[side])
        PROVE  Precedes(code'[side][i], setting) \/ code'[side][i] = setting
    <3>1. /\ \A h \in 1 .. Len(code[side]) : Append(code[side], setting)[h] = code[side][h]
          /\ Append(code[side], setting)[Len(code[side]) + 1] = setting
          /\ Len(Append(code[side], setting)) = Len(code[side]) + 1 /\ Len(code[side]) \in Nat
      BY <1>2, SMT
    <3>2. i \in 1 .. Len(code[side]) \/ i = Len(code[side]) + 1
      BY <1>5, <3>1, SMT
    <3> QED BY <1>5, <1>6, <3>1, <3>2
  <2> QED BY <1>1, <2>1, <2>2, <2>3 DEF CountInv, Encoding
<1>11. Counting' /\ DistanceExact'
  BY <1>1 DEF Counting, DistanceExact
<1> QED BY <1>4, <1>9, <1>10, <1>11 DEF CountInv, Ascends

-----------------------------------------------------------------------------
(* The merge. *)

LEMMA CountTypesMerge ==
  ASSUME CountInv, pc = "merge", UNCHANGED Unmerged, pc' \in {"merge", "answered"},
         pos' \in [1 .. 2 -> Nat \ {0}], distance' \in Nat, relationship' \in Relationships,
         Counting', DistanceExact'
  PROVE  CountInv'
<1>1. UNCHANGED <<used, setting, side, code>>
  BY DEF Unmerged
<1>2. CountTypes' /\ Ascends(code[1])' /\ Ascends(code[2])' /\ Encoding'
  BY <1>1 DEF CountInv, CountTypes, Ascends, Encoding
<1> QED BY <1>2 DEF CountInv

\* The current setting of an encoding was not passed in it, and is before the later ones.
LEMMA CurrentLater ==
  ASSUME CountInv, NEW k \in {1, 2}, Ok(k)
  PROVE  /\ pos[k] \in 1 .. Len(code[k]) /\ pos[k] \in Nat
         /\ Current(k) \in SUBSET Indices /\ Before(k) \in SUBSET (SUBSET Indices)
         /\ Current(k) \notin Before(k)
         /\ \A i \in pos[k] + 1 .. Len(code[k]) : Precedes(Current(k), code[k][i])
         /\ \A i \in 1 .. Len(code[k]) : code[k][i] \in SUBSET Indices
<1>1. k \in 1 .. 2
  BY SMT
<1>2. code[k] \in Seq(SUBSET Indices) /\ pos[k] \in Nat \ {0} /\ Len(code[k]) \in Nat
  BY <1>1, SMT DEF CountInv, CountTypes
<1>3. pos[k] \in 1 .. Len(code[k])
  BY <1>2, SMT DEF Ok
<1>4. \A i \in 1 .. Len(code[k]) : code[k][i] \in SUBSET Indices
  BY <1>2, ElementInSet
<1>5. Ascends(code[k])
  BY DEF CountInv
<1>6. \A i \in 1 .. pos[k] - 1 : i \in 1 .. Len(code[k]) /\ i < pos[k]
  BY <1>2, <1>3, SMT
<1>7. \A i \in 1 .. pos[k] - 1 : Precedes(code[k][i], Current(k))
  BY <1>3, <1>5, <1>6 DEF Ascends, Current
<1>8. Before(k) \in SUBSET (SUBSET Indices)
  BY <1>4, <1>6 DEF Before
<1>9. Current(k) \notin Before(k)
  BY <1>3, <1>4, <1>7, PrecedesIsStrict DEF Before, Current
<1>10. \A i \in pos[k] + 1 .. Len(code[k]) : i \in 1 .. Len(code[k]) /\ pos[k] < i
  BY <1>2, <1>3, SMT
<1> QED BY <1>2, <1>3, <1>4, <1>5, <1>8, <1>9, <1>10 DEF Ascends, Current

LEMMA PassedOn ==
  ASSUME CountInv, NEW k \in {1, 2}, Ok(k), pos'[k] = pos[k] + 1, code' = code
  PROVE  /\ Before(k)' = Before(k) \cup {Current(k)}
         /\ pos'[k] <= Len(code'[k]) + 1
<1>1. pos[k] \in 1 .. Len(code[k]) /\ pos[k] \in Nat
  BY CurrentLater
<1>2. 1 .. pos'[k] - 1 = (1 .. pos[k] - 1) \cup {pos[k]}
  BY <1>1, SMT
<1>3. Len(code[k]) \in Nat
  <2>1. k \in 1 .. 2
    BY SMT
  <2> QED BY <2>1, SMT DEF CountInv, CountTypes
<1>4. pos'[k] <= Len(code'[k]) + 1
  BY <1>1, <1>3, SMT
<1> QED BY <1>2, <1>4 DEF Before, Current

\* What one encoding has passed is not the current setting of the other one.
LEMMA NotPassed ==
  ASSUME CountInv, NEW j \in {1, 2}, NEW k \in {1, 2}, Ok(k), Passed(j, k)
  PROVE  Current(k) \notin Before(j)
<1>1. pos[k] \in pos[k] .. Len(code[k]) /\ Current(k) \in SUBSET Indices
  BY CurrentLater
<1>2. \A s \in Before(j) : Precedes(s, Current(k))
  BY <1>1 DEF Passed, Current
<1> QED BY <1>1, <1>2, PrecedesIsStrict

\* An encoding that goes on by one stays behind the other one.
LEMMA PassedGrows ==
  ASSUME CountInv, NEW j \in {1, 2}, NEW k \in {1, 2}, j # k, Ok(j), code' = code,
         pos'[j] = pos[j] + 1, Passed(j, k), Passed(k, j),
         \/ pos'[k] = pos[k] /\ (Ok(k) => Precedes(Current(j), Current(k)))
         \/ pos'[k] = pos[k] + 1 /\ Ok(k) /\ Current(j) = Current(k)
  PROVE  Passed(j, k)'
<1>1. Before(j)' = Before(j) \cup {Current(j)}
  BY PassedOn
<1>2. pos[k] \in Nat /\ Len(code[k]) \in Nat
  <2>1. k \in 1 .. 2
    BY SMT
  <2> QED BY <2>1, SMT DEF CountInv, CountTypes
<1>3. ASSUME NEW i \in pos'[k] .. Len(code[k])  PROVE i \in pos[k] .. Len(code[k])
  BY <1>2, SMT
<1>4. ASSUME NEW i \in pos'[k] .. Len(code[k])  PROVE Precedes(Current(j), code[k][i])
  <2>1. Ok(k)
    BY <1>2, <1>3, SMT DEF Ok
  <2>2. /\ Current(j) \in SUBSET Indices /\ Current(k) \in SUBSET Indices
        /\ pos[k] \in 1 .. Len(code[k])
        /\ \A h \in pos[k] + 1 .. Len(code[k]) : Precedes(Current(k), code[k][h])
        /\ \A h \in 1 .. Len(code[k]) : code[k][h] \in SUBSET Indices
    BY <2>1, CurrentLater
  <2>3. CASE pos'[k] = pos[k] /\ Precedes(Current(j), Current(k))
    <3>1. CASE i = pos[k]
      BY <2>3, <3>1 DEF Current
    <3>2. CASE i # pos[k]
      <4>1. i \in pos[k] + 1 .. Len(code[k]) /\ i \in 1 .. Len(code[k])
        BY <1>2, <2>2, <2>3, <3>2, SMT
      <4> QED BY <2>2, <2>3, <4>1, PrecedesIsStrict
    <3> QED BY <3>1, <3>2
  <2>4. CASE pos'[k] = pos[k] + 1 /\ Current(j) = Current(k)
    BY <2>2, <2>4
  <2> QED BY <2>1, <2>3, <2>4
<1>5. \A s \in Before(j) : \A i \in pos'[k] .. Len(code[k]) : Precedes(s, code[k][i])
  BY <1>3 DEF Passed
<1>6. \A s \in Before(j)' : \A i \in pos'[k] .. Len(code[k]) : Precedes(s, code[k][i])
  BY <1>1, <1>4, <1>5
<1> QED BY <1>6 DEF Passed

\* An encoding that stands still is not overtaken.
LEMMA PassedStays ==
  ASSUME CountInv, NEW j \in {1, 2}, NEW k \in {1, 2}, Ok(k), code' = code,
         pos'[j] = pos[j], pos'[k] = pos[k] + 1, Passed(j, k)
  PROVE  Passed(j, k)'
<1>1. Before(j)' = Before(j)
  BY DEF Before
<1>2. pos[k] \in Nat
  BY CurrentLater
<1>3. \A i \in pos'[k] .. Len(code[k]) : i \in pos[k] .. Len(code[k])
  BY <1>2, SMT
<1> QED BY <1>1, <1>3 DEF Passed

LEMMA CountMergeSame ==
  ASSUME CountInv, MergeSame
  PROVE  CountInv'
<1>1. /\ pc = "merge" /\ pc' = "merge" /\ Ok(1) /\ Ok(2) /\ Current(1) = Current(2)
      /\ pos' = [k \in {1, 2} |-> pos[k] + 1]
      /\ ask' = ask /\ code' = code /\ distance' = distance /\ relationship' = relationship
      /\ UNCHANGED Unmerged
  BY DEF MergeSame, Unmerged
<1>2. pos'[1] = pos[1] + 1 /\ pos'[2] = pos[2] + 1
  BY <1>1
<1>3. pos' \in [1 .. 2 -> Nat \ {0}] /\ distance' \in Nat
  <2>1. 1 .. 2 = {1, 2}
    BY SMT
  <2>2. \A k \in {1, 2} : pos[k] + 1 \in Nat \ {0}
    BY <2>1, SMT DEF CountInv, CountTypes
  <2> QED BY <1>1, <2>1, <2>2 DEF CountInv, CountTypes
<1>4. Counting'
  <2>1. CASE ask = "distance"
    <3>1. /\ Passed(1, 2) /\ Passed(2, 1)
          /\ IsFiniteSet(Apart(Before(1), Before(2)))
          /\ distance = Cardinality(Apart(Before(1), Before(2)))
      BY <1>1, <2>1 DEF CountInv, Counting
    <3>2. Passed(1, 2)' /\ Passed(2, 1)'
      BY <1>1, <1>2, <3>1, PassedGrows
    <3>3. Current(1) \notin Before(1) /\ Current(1) \notin Before(2)
      <4>1. Current(1) \notin Before(1)
        BY <1>1, CurrentLater
      <4>2. Current(1) \notin Before(2)
        BY <1>1, <3>1, NotPassed
      <4> QED BY <4>1, <4>2
    <3>4. /\ Before(1)' = Before(1) \cup {Current(1)} /\ pos'[1] <= Len(code'[1]) + 1
          /\ Before(2)' = Before(2) \cup {Current(1)} /\ pos'[2] <= Len(code'[2]) + 1
      <4>1. Before(1)' = Before(1) \cup {Current(1)} /\ pos'[1] <= Len(code'[1]) + 1
        BY <1>1, <1>2, PassedOn
      <4>2. Before(2)' = Before(2) \cup {Current(2)} /\ pos'[2] <= Len(code'[2]) + 1
        BY <1>1, <1>2, PassedOn
      <4> QED BY <1>1, <4>1, <4>2
    <3>5. Apart(Before(1), Before(2))' = Apart(Before(1), Before(2))
      BY <3>3, <3>4, Zenon DEF Apart
    <3> QED BY <1>1, <3>1, <3>2, <3>4, <3>5 DEF Counting
  <2>2. CASE ask # "distance"
    BY <1>1, <2>2 DEF Counting
  <2> QED BY <2>1, <2>2
<1>5. DistanceExact'
  BY <1>1 DEF DistanceExact
<1> QED BY <1>1, <1>3, <1>4, <1>5, CountTypesMerge DEF CountInv, CountTypes

LEMMA CountCountAlone ==
  ASSUME CountInv, NEW k \in {1, 2}, CountAlone(k)
  PROVE  CountInv'
<1>1. /\ pc = "merge" /\ pc' = "merge" /\ Ok(k) /\ ask = "distance" /\ ask' = ask
      /\ distance' = distance + 1 /\ pos' = [pos EXCEPT ![k] = @ + 1]
      /\ code' = code /\ relationship' = relationship /\ UNCHANGED Unmerged
      /\ Ok(3 - k) => Precedes(Current(k), Current(3 - k))
  BY DEF CountAlone, Alone, Unmerged
<1>2. PICK j \in {1, 2} : j # k /\ 3 - k = j
  BY SMT
<1>3. /\ pos \in [1 .. 2 -> Nat \ {0}] /\ k \in 1 .. 2 /\ j \in 1 .. 2 /\ distance \in Nat
  BY SMT DEF CountInv, CountTypes
<1>4. pos' \in [1 .. 2 -> Nat \ {0}] /\ pos'[k] = pos[k] + 1 /\ pos'[j] = pos[j] /\ distance' \in Nat
  BY <1>1, <1>2, <1>3, SMT
<1>5. /\ pos[1] <= Len(code[1]) + 1 /\ pos[2] <= Len(code[2]) + 1
      /\ Passed(1, 2) /\ Passed(2, 1)
      /\ IsFiniteSet(Apart(Before(1), Before(2)))
      /\ distance = Cardinality(Apart(Before(1), Before(2)))
  BY <1>1 DEF CountInv, Counting
<1>6. Passed(k, j) /\ Passed(j, k)
  BY <1>2, <1>5
<1>7. Passed(k, j)'
  BY <1>1, <1>2, <1>4, <1>6, PassedGrows
<1>8. Passed(j, k)'
  BY <1>1, <1>4, <1>6, PassedStays
<1>9. Before(k)' = Before(k) \cup {Current(k)} /\ pos'[k] <= Len(code'[k]) + 1
  BY <1>1, <1>4, PassedOn
<1>10. Before(j)' = Before(j) /\ pos'[j] <= Len(code'[j]) + 1
  <2>1. Before(j)' = Before(j)
    BY <1>1, <1>4 DEF Before
  <2> QED BY <1>1, <1>2, <1>4, <1>5, <2>1
<1>11. Current(k) \notin Before(k) /\ Current(k) \notin Before(j)
  <2>1. Current(k) \notin Before(k)
    BY <1>1, CurrentLater
  <2>2. Current(k) \notin Before(j)
    BY <1>1, <1>6, NotPassed
  <2> QED BY <2>1, <2>2
<1> DEFINE apart == Apart(Before(1), Before(2))
<1>12. apart = Apart(Before(k), Before(j)) /\ apart' = Apart(Before(k)', Before(j)')
  <2>1. (k = 1 /\ j = 2) \/ (k = 2 /\ j = 1)
    BY <1>2
  <2>2. CASE k = 1 /\ j = 2
    BY <2>2
  <2>3. CASE k = 2 /\ j = 1
    BY <2>3 DEF Apart
  <2> QED BY <2>1, <2>2, <2>3
<1>13. Apart(Before(k)', Before(j)') = Apart(Before(k), Before(j)) \cup {Current(k)}
       /\ Current(k) \notin Apart(Before(k), Before(j))
  BY <1>9, <1>10, <1>11 DEF Apart
<1>14. IsFiniteSet(apart') /\ Cardinality(apart') = Cardinality(apart) + 1
  <2>1. apart' = apart \cup {Current(k)} /\ Current(k) \notin apart /\ IsFiniteSet(apart)
    BY <1>5, <1>12, <1>13
  <2> HIDE DEF apart
  <2> QED BY <2>1, FS_AddElement
<1>15. Counting'
  <2>1. Passed(1, 2)' /\ Passed(2, 1)' /\ pos'[1] <= Len(code'[1]) + 1 /\ pos'[2] <= Len(code'[2]) + 1
    BY <1>2, <1>7, <1>8, <1>9, <1>10
  <2> QED BY <1>1, <1>5, <1>14, <2>1 DEF Counting
<1>16. DistanceExact'
  BY <1>1 DEF DistanceExact
<1> QED BY <1>1, <1>4, <1>15, <1>16, CountTypesMerge DEF CountInv, CountTypes

LEMMA CountMergeEnd ==
  ASSUME CountInv, MergeEnd
  PROVE  CountInv'
<1>1. /\ pc = "merge" /\ pc' = "answered" /\ ~ Ok(1) /\ ~ Ok(2)
      /\ UNCHANGED Unmerged /\ UNCHANGED <<ask, code, pos, distance>> /\ relationship' = relationship
  BY DEF MergeEnd, Unmerged, Answer
<1>2. /\ pos \in [1 .. 2 -> Nat \ {0}] /\ distance \in Nat
      /\ Len(code[1]) \in Nat /\ Len(code[2]) \in Nat /\ pos[1] \in Nat /\ pos[2] \in Nat
  BY SMT DEF CountInv, CountTypes
<1>3. Counting'
  BY <1>1 DEF Counting
<1>4. DistanceExact'
  <2>1. CASE ask = "distance"
    <3>1. /\ pos[1] <= Len(code[1]) + 1 /\ pos[2] <= Len(code[2]) + 1
          /\ distance = Cardinality(Apart(Before(1), Before(2)))
      BY <1>1, <2>1 DEF CountInv, Counting
    <3>2. 1 .. pos[1] - 1 = 1 .. Len(code[1]) /\ 1 .. pos[2] - 1 = 1 .. Len(code[2])
      BY <1>1, <1>2, <3>1, SMT DEF Ok
    <3>3. Before(1) = Elements(code[1]) /\ Before(2) = Elements(code[2])
      BY <3>2 DEF Before, Elements
    <3> QED BY <1>1, <3>1, <3>3 DEF DistanceExact, Apart
  <2>2. CASE ask # "distance"
    BY <1>1, <2>2 DEF DistanceExact
  <2> QED BY <2>1, <2>2
<1> QED BY <1>1, <1>2, <1>3, <1>4, CountTypesMerge DEF CountInv, CountTypes

\* The steps of the other question do not count.
LEMMA CountRelates ==
  ASSUME CountInv, NEW k \in {1, 2}, MergeAlone(k) \/ MergeRest(k)
  PROVE  CountInv'
<1>1. /\ pc = "merge" /\ pc' \in {"merge", "answered"} /\ ask = "relationship" /\ ask' = ask
      /\ distance' = distance /\ UNCHANGED Unmerged
      /\ (pos' = pos \/ pos' = [pos EXCEPT ![k] = @ + 1])
      /\ relationship' \in {"Unrelated", MoreGeneral(k)}
  BY DEF MergeAlone, MergeRest, Alone, Answer, Unmerged
<1>2. pos \in [1 .. 2 -> Nat \ {0}] /\ distance \in Nat /\ k \in 1 .. 2
  BY SMT DEF CountInv, CountTypes
<1>3. pos' \in [1 .. 2 -> Nat \ {0}]
  BY <1>1, <1>2, SMT
<1>4. Counting' /\ DistanceExact'
  BY <1>1 DEF Counting, DistanceExact
<1>5. relationship' \in Relationships
  BY <1>1 DEF MoreGeneral, Relationships
<1> QED BY <1>1, <1>2, <1>3, <1>4, <1>5, CountTypesMerge

LEMMA CountStep ==
  ASSUME CountInv, CompareStep
  PROVE  CountInv'
  BY CountNextSetting, CountNoMoreSettings, CountFilter, CountKeep, CountMergeSame, CountMergeEnd,
     CountCountAlone, CountRelates DEF CompareStep

LEMMA CountStutter ==
  ASSUME CountInv, UNCHANGED compareVars
  PROVE  CountInv'
<1>1. CountTypes' /\ Ascends(code[1])' /\ Ascends(code[2])' /\ Encoding' /\ DistanceExact'
  BY DEF compareVars, CountInv, CountTypes, Ascends, Encoding, DistanceExact
<1>2. \A k : Before(k)' = Before(k)
  BY DEF compareVars, Before
<1>3. Counting'
  BY <1>2 DEF compareVars, CountInv, Counting, Passed
<1> QED BY <1>1, <1>3 DEF CountInv

-----------------------------------------------------------------------------
LEMMA RequestsStep ==
  ASSUME RequestsKept, [Next]_vars
  PROVE  RequestsKept'
<1> USE DEF RequestsKept
<1>1. CASE SkipRow \/ RelateRow
  <2>1. row \in 1 .. Len(past)
    BY <1>1, SMT DEF SkipRow, RelateRow
  <2>2. toCombine' \in Seq(Minerules)
    <3>1. past[row] \in Minerules
      BY <2>1, PastElement
    <3>2. toCombine' \in {toCombine, Append(toCombine, past[row])}
      BY <1>1 DEF SkipRow, RelateRow, Collected
    <3> QED BY <3>1, <3>2, SMT
  <2> QED BY <1>1, <2>2, SMT DEF SkipRow, RelateRow
<1>2. CASE Relate
  BY <1>2, SMT DEF Relate
<1>3. CASE UnreadableRow \/ RelateNext \/ EndOfRows \/ EvaluateGenome \/ Combine \/ SearchOn
  BY <1>3 DEF UnreadableRow, RelateNext, EndOfRows, EvaluateGenome, Combine, SearchOn
<1>4. CASE GiveUp
  BY <1>4, SMT DEF GiveUp
<1>5. CASE RunComparison \/ UNCHANGED vars
  BY <1>5 DEF RunComparison, vars, queryVars
<1> QED BY <1>1, <1>2, <1>3, <1>4, <1>5 DEF Next

Related == phase = "relating" => row <= Len(past) /\ relations \in Seq(Relationships)

LEMMA CountQueries ==
  ASSUME RequestsKept, CountInv, Related, [Next]_vars
  PROVE  CountInv' /\ Related'
<1>1. CASE RelateRow
  <2>1. row \in 1 .. Len(past)
    BY <1>1, SMT DEF RelateRow, RequestsKept
  <2>2. past[row] \in Minerules /\ target \in Minerules
    BY <2>1, PastElement DEF RequestsKept
  <2>3. CountInv'
    BY <1>1, <2>2, MineruleConditions, CountCompare, 1 \in 1 .. 3 DEF RelateRow, CompareConditions
  <2>4. Related'
    BY <1>1, SMT DEF RelateRow, Related
  <2> QED BY <2>3, <2>4
<1>2. CASE RelateNext
  <2>1. row \in 1 .. Len(past) /\ Len(relations) + 2 \in 1 .. 3 /\ relations \in Seq(Relationships)
    BY <1>2, SMT DEF RelateNext, RequestsKept, Related
  <2>2. past[row] \in Minerules /\ target \in Minerules
    BY <2>1, PastElement DEF RequestsKept
  <2>3. CountInv'
    BY <1>2, <2>1, <2>2, MineruleConditions, CountCompare DEF RelateNext, CompareConditions
  <2>4. Related'
    <3>1. relationship \in Relationships
      BY DEF CountInv, CountTypes
    <3>2. Append(relations, relationship) \in Seq(Relationships)
      BY <2>1, <3>1, SMT
    <3> QED BY <1>2, <3>2 DEF RelateNext, Related
  <2> QED BY <2>3, <2>4
<1>3. CASE EvaluateGenome
  <2>1. target.conditions[1] \in SUBSET (SUBSET Indices)
    BY MineruleConditions, 1 \in 1 .. 3 DEF RequestsKept
  <2>2. \/ UNCHANGED compareVars
        \/ \E g \in Genomes : Compare(target.conditions[1], AssociatedPredicate(g), "distance")
    BY <1>3 DEF EvaluateGenome
  <2>3. CountInv'
    BY <2>1, <2>2, CombinationType, CountCompare, CountStutter
  <2>4. Related'
    BY <1>3 DEF EvaluateGenome, Related
  <2> QED BY <2>3, <2>4
<1>4. CASE RunComparison
  <2>1. CountInv'
    BY <1>4, CountStep DEF RunComparison
  <2> QED BY <1>4, <2>1 DEF RunComparison, queryVars, Related
<1>5. CASE UnreadableRow \/ SkipRow \/ Relate \/ EndOfRows \/ Combine \/ SearchOn \/ GiveUp \/ UNCHANGED vars
  <2>1. UNCHANGED compareVars
    BY <1>5 DEF UnreadableRow, SkipRow, Relate, EndOfRows, Combine, SearchOn, GiveUp, vars
  <2>2. Related'
    BY <1>5 DEF UnreadableRow, SkipRow, Relate, EndOfRows, Combine, SearchOn, GiveUp, vars, queryVars, Related
  <2> QED BY <2>1, <2>2, CountStutter
<1> QED BY <1>1, <1>2, <1>3, <1>4, <1>5 DEF Next

LEMMA CountInit ==
  ASSUME Init
  PROVE  RequestsKept /\ CountInv /\ Related
<1>1. RequestsKept
  BY RequestsAssumption, SMT DEF Init, RequestsKept
<1>2. Len(<<>>) = 0 /\ <<>> \in Seq(SUBSET Indices)
  BY SMT
<1>3. CountTypes
  <2>1. code \in [1 .. 2 -> Seq(SUBSET Indices)]
    BY <1>2, CoupleInSet DEF Init, CompareInit
  <2>2. pos \in [1 .. 2 -> Nat \ {0}]
    BY CoupleInSet DEF Init, CompareInit
  <2> QED BY <2>1, <2>2 DEF Init, CompareInit, CountTypes, Relationships
<1>4. Ascends(code[1]) /\ Ascends(code[2])
  BY <1>2, SMT DEF Init, CompareInit, Ascends
<1> QED BY <1>1, <1>3, <1>4 DEF Init, CompareInit, CountInv, Encoding, Counting, DistanceExact, Related

\* Whatever is compared, the distance that computeHammingDistance counts is the number of
\* settings in one encoding only.
THEOREM DistanceCounted == Spec => []DistanceExact
<1>1. Init => RequestsKept /\ CountInv /\ Related
  BY CountInit
<1>2. RequestsKept /\ CountInv /\ Related /\ [Next]_vars => RequestsKept' /\ CountInv' /\ Related'
  BY RequestsStep, CountQueries
<1>3. CountInv => DistanceExact
  BY DEF CountInv
<1> QED BY <1>1, <1>2, <1>3, PTL DEF Spec

-----------------------------------------------------------------------------
(* No relationship is missed. A setting that one encoding has and the other one lacks is    *)
(* produced by a row, because every interval that the filter does not take for empty has a  *)
(* value in it, and the values of different attributes do not depend on one another.        *)

\* An intersection keeps no other values.
LEMMA WithinIntersection ==
  ASSUME Separated, NEW i \in Interval, NEW j \in Interval, NEW x \in Int,
         Within(x, Intersect(i, j))
  PROVE  Within(x, i) /\ Within(x, j)
<1> DEFINE m == Intersect(i, j)
           Above(k) == k.lwr # NegInfty =>
                         (IF k.lwrOpen THEN NumberOf[k.lwr] < x ELSE NumberOf[k.lwr] <= x)
           Below(k) == k.upp # PosInfty =>
                         (IF k.uppOpen THEN x < NumberOf[k.upp] ELSE x <= NumberOf[k.upp])
<1>1. Above(i) /\ Above(j)
  <2>1. CASE i.lwr = NegInfty /\ j.lwr = NegInfty
    BY <2>1
  <2>2. CASE i.lwr = NegInfty /\ j.lwr \in Literals
    BY <2>2, CompareLimits, ParametersAssumption, SMT DEF Intersect, Within, Interval
  <2>3. CASE i.lwr \in Literals /\ j.lwr = NegInfty
    BY <2>3, CompareLimits, ParametersAssumption, SMT DEF Intersect, Within, Interval
  <2>4. CASE i.lwr \in Literals /\ j.lwr \in Literals
    <3>1. NumberOf[i.lwr] \in Int /\ NumberOf[j.lwr] \in Int
      BY <2>4, ParametersAssumption
    <3>2. i.lwr # NegInfty /\ j.lwr # NegInfty
      BY <2>4, ParametersAssumption
    <3> QED BY <2>4, <3>1, <3>2, CompareExact, SMT DEF Intersect, Within, Interval
  <2> QED BY <2>1, <2>2, <2>3, <2>4 DEF Interval
<1>2. Below(i) /\ Below(j)
  <2>1. CASE i.upp = PosInfty /\ j.upp = PosInfty
    BY <2>1
  <2>2. CASE i.upp = PosInfty /\ j.upp \in Literals
    BY <2>2, CompareLimits, ParametersAssumption, SMT DEF Intersect, Within, Interval
  <2>3. CASE i.upp \in Literals /\ j.upp = PosInfty
    BY <2>3, CompareLimits, ParametersAssumption, SMT DEF Intersect, Within, Interval
  <2>4. CASE i.upp \in Literals /\ j.upp \in Literals
    <3>1. NumberOf[i.upp] \in Int /\ NumberOf[j.upp] \in Int
      BY <2>4, ParametersAssumption
    <3>2. i.upp # PosInfty /\ j.upp # PosInfty
      BY <2>4, ParametersAssumption
    <3> QED BY <2>4, <3>1, <3>2, CompareExact, SMT DEF Intersect, Within, Interval
  <2> QED BY <2>1, <2>2, <2>3, <2>4 DEF Interval
<1>3. \A p \in i.openPoints \cup j.openPoints : x # NumberOf[p]
  BY DEF Intersect, Within
<1> QED BY <1>1, <1>2, <1>3 DEF Within

\* An interval that is not taken for empty has a value in it.
LEMMA HasValue ==
  ASSUME Separated, Dense, NEW i \in Interval, ~ IsEmpty(i)
  PROVE  \E x \in Numbers : Within(x, i)
<1>1. /\ i.lwr \in Literals \cup {NegInfty} /\ i.upp \in Literals \cup {PosInfty}
      /\ i.openPoints \subseteq Literals
  BY DEF Interval
<1>2. CASE i.lwr = NegInfty /\ i.upp = PosInfty
  BY <1>1, <1>2 DEF Dense, Within
<1>3. CASE i.lwr \in Literals /\ i.upp = PosInfty
  <2>1. PICK n \in Numbers : NumberOf[i.lwr] < n /\ \A l \in Literals : n # NumberOf[l]
    BY <1>3 DEF Dense
  <2>2. NumberOf[i.lwr] \in Int /\ n \in Int
    BY <1>3, ParametersAssumption
  <2> QED BY <1>1, <1>3, <2>1, <2>2, SMT DEF Within
<1>4. CASE i.lwr = NegInfty /\ i.upp \in Literals
  <2>1. PICK n \in Numbers : n < NumberOf[i.upp] /\ \A l \in Literals : n # NumberOf[l]
    BY <1>4 DEF Dense
  <2>2. NumberOf[i.upp] \in Int /\ n \in Int
    BY <1>4, ParametersAssumption
  <2> QED BY <1>1, <1>4, <2>1, <2>2, SMT DEF Within
<1>5. CASE i.lwr \in Literals /\ i.upp \in Literals
  <2>1. /\ NumberOf[i.lwr] \in Int /\ NumberOf[i.upp] \in Int
        /\ CompareValues(i.lwr, i.upp) = 0 <=> NumberOf[i.lwr] = NumberOf[i.upp]
        /\ CompareValues(i.lwr, i.upp) > 0 <=> NumberOf[i.lwr] > NumberOf[i.upp]
    BY <1>5, CompareExact, ParametersAssumption
  <2>2. CASE NumberOf[i.lwr] < NumberOf[i.upp]
    <3>1. PICK n \in Numbers : /\ NumberOf[i.lwr] < n /\ n < NumberOf[i.upp]
                               /\ \A l \in Literals : n # NumberOf[l]
      BY <1>5, <2>2 DEF Dense
    <3>2. n \in Int
      BY ParametersAssumption
    <3> QED BY <1>1, <2>1, <3>1, <3>2, SMT DEF Within
  <2>3. CASE NumberOf[i.lwr] = NumberOf[i.upp]
    <3>1. ~ i.lwrOpen /\ ~ i.uppOpen /\ i.lwr \notin i.openPoints
      BY <2>1, <2>3 DEF IsEmpty
    <3>2. \A p \in i.openPoints : NumberOf[i.lwr] # NumberOf[p]
      BY <1>1, <1>5, <3>1 DEF Dense
    <3>3. NumberOf[i.lwr] \in Numbers
      BY <1>5 DEF Dense
    <3> QED BY <2>1, <2>3, <3>1, <3>2, <3>3, SMT DEF Within
  <2>4. CASE NumberOf[i.lwr] > NumberOf[i.upp]
    BY <2>1, <2>4 DEF IsEmpty
  <2> QED BY <2>1, <2>2, <2>3, <2>4, SMT
<1> QED BY <1>1, <1>2, <1>3, <1>4, <1>5

LEMMA WholeNotEmpty == Whole \in Interval /\ ~ IsEmpty(Whole)
<1>1. Whole \in Interval
  BY DEF Whole, Interval
<1>2. CompareValues(NegInfty, PosInfty) = -1
  BY CompareLimits
<1> QED BY <1>1, <1>2, SMT DEF Whole, IsEmpty

\* Simple predicates that each narrow the interval of an attribute.
Plain == \A i \in used : Constrains(i)

\* The values within an interval are those that the simple predicates the filter has looked
\* at allow, and there are some.
Narrowed ==
  pc = "filter" /\ Plain =>
    \A a \in Attributes :
      /\ ~ IsEmpty(intervals[a])
      /\ \A x \in Int : Within(x, intervals[a]) =>
           \A i \in used \ todo : Pool[i].left = a =>
             (Meets(Pool[i].op, x, NumberOf[Pool[i].right]) <=> i \in setting)

\* Some row produces each setting of an encoding.
Produced(k) ==
  \A s \in Elements(code[k]) : used # {} /\ (Plain => \E tuple \in Rows : Pattern(tuple) = s)

RowsInv == Narrowed /\ Produced(1) /\ Produced(2)

\* What the filter learns of a simple predicate, and nothing else, is in the new interval.
LEMMA UpdateExact ==
  ASSUME Separated, CompareTypeOK, NEW i \in used, Constrains(i), NEW x \in Int,
         Within(x, Update(i))
  PROVE  /\ Within(x, intervals[Pool[i].left])
         /\ Meets(Pool[i].op, x, NumberOf[Pool[i].right]) <=> i \in setting
<1> DEFINE a == Pool[i].left
           val == Pool[i].right
           op == IF i \in setting THEN Pool[i].op ELSE Negated(Pool[i].op)
<1>1. i \in Indices /\ a \in Attributes /\ val \in Literals /\ NumberOf[val] \in Int
  BY ParametersAssumption DEF CompareTypeOK, Constrains
<1>2. Pool[i].op \in Operators
  <2> DEFINE S == [left : Attributes \cup Literals, op : Operators,
                   right : Attributes \cup Literals]
  <2>1. Pool \in Seq(S) /\ i \in 1 .. Len(Pool)
    BY <1>1, ParametersAssumption DEF Indices
  <2>2. Pool[i] \in S
    <3> HIDE DEF S
    <3> QED BY <2>1, ElementInSet
  <2> QED BY <2>2
<1>3. op \in Operators
  BY <1>2, NegatedMeets
<1>4. intervals[a] \in Interval /\ IntervalOf(op, val) \in Interval
  BY <1>1, <1>3, MeetsWithin DEF CompareTypeOK
<1>5. Within(x, Intersect(intervals[a], IntervalOf(op, val)))
  BY DEF Update
<1>6. Within(x, intervals[a]) /\ Within(x, IntervalOf(op, val))
  BY <1>4, <1>5, WithinIntersection
<1>7. Meets(op, x, NumberOf[val])
  BY <1>1, <1>3, <1>6, MeetsWithin
<1> QED BY <1>1, <1>2, <1>6, <1>7, NegatedMeets

\* A setting that passes the filter is produced by a row that takes a value from each interval.
LEMMA SettingProduced ==
  ASSUME Separated, Dense, CompareTypeOK, Narrowed, Plain, pc = "filter", todo = {}
  PROVE  \E tuple \in Rows : Pattern(tuple) = setting
<1>1. \A a \in Attributes : \E x \in Numbers : Within(x, intervals[a])
  BY HasValue DEF Narrowed, CompareTypeOK
<1> DEFINE tuple == [a \in Attributes |-> CHOOSE x \in Numbers : Within(x, intervals[a])]
<1>2. \A a \in Attributes : tuple[a] \in Numbers /\ Within(tuple[a], intervals[a])
  BY <1>1
<1>3. tuple \in Rows
  BY <1>1 DEF Rows
<1> HIDE DEF tuple
<1>4. ASSUME NEW i \in used  PROVE Holds(i, tuple) <=> i \in setting
  <2>1. /\ Pool[i].left \in Attributes /\ Pool[i].right \in Literals
        /\ Pool[i].right \notin Attributes
    BY ParametersAssumption DEF Plain, Constrains
  <2>2. tuple[Pool[i].left] \in Int
    BY <1>2, <2>1, ParametersAssumption
  <2>3. Holds(i, tuple) <=> Meets(Pool[i].op, tuple[Pool[i].left], NumberOf[Pool[i].right])
    BY <2>1 DEF Holds, Term
  <2> QED BY <1>2, <2>1, <2>2, <2>3 DEF Narrowed
<1>5. Pattern(tuple) = setting
  BY <1>4 DEF Pattern, CompareTypeOK
<1> QED BY <1>3, <1>5

LEMMA ProducedKept ==
  ASSUME NEW k \in {1, 2}, Produced(k), UNCHANGED <<code, used>>
  PROVE  Produced(k)'
<1>1. Elements(code[k])' = Elements(code[k]) /\ Plain' = Plain
  BY DEF Elements, Plain
<1>2. \A tuple : Pattern(tuple)' = Pattern(tuple)
  BY DEF Pattern
<1> QED BY <1>1, <1>2 DEF Produced

LEMMA RowsCompare ==
  ASSUME NEW p, NEW q, NEW question, Compare(p, q, question)
  PROVE  RowsInv'
<1>1. pc' \in {"aborted", "next"} /\ code' = <<<<>>, <<>>>>
  BY DEF Compare
<1>2. ASSUME NEW k \in {1, 2}  PROVE Elements(code[k])' = {}
  <2>1. code'[k] = <<>>
    BY <1>1
  <2> QED BY <2>1, SMT DEF Elements
<1> QED BY <1>1, <1>2 DEF RowsInv, Narrowed, Produced

LEMMA RowsConsider ==
  ASSUME RowsInv, CompareInv, FirstSetting \/ NextSetting
  PROVE  RowsInv'
<1>1. /\ UNCHANGED <<code, used>>
      /\ pc = "next" /\ (pc' = pc \/ (todo' = used /\ intervals' = Unbounded))
  <2>1. pc = "next" /\ \E s : Consider(s)
    BY DEF FirstSetting, NextSetting
  <2>2. PICK s : Consider(s)
    BY <2>1
  <2>3. UNCHANGED <<code, used>>
    BY <2>2 DEF Consider
  <2>4. pc' = pc \/ (todo' = used /\ intervals' = Unbounded)
    <3>1. CASE Evaluate(pair[side], s)
      BY <2>2, <3>1 DEF Consider
    <3>2. CASE ~ Evaluate(pair[side], s)
      BY <2>2, <3>2 DEF Consider
    <3> QED BY <3>1, <3>2
  <2> QED BY <2>1, <2>3, <2>4
<1>2. Narrowed'
  <2>1. CASE pc' = pc
    BY <1>1, <2>1 DEF Narrowed
  <2>2. CASE todo' = used /\ intervals' = Unbounded
    <3>1. \A a \in Attributes : intervals'[a] = Whole
      BY <2>2 DEF Unbounded
    <3> QED BY <1>1, <2>2, <3>1, WholeNotEmpty DEF Narrowed
  <2> QED BY <1>1, <2>1, <2>2
<1> QED BY <1>1, <1>2, ProducedKept DEF RowsInv

LEMMA RowsFilter ==
  ASSUME Separated, RowsInv, CompareInv, FilterNext
  PROVE  RowsInv'
<1>1. PICK i \in todo :
        /\ todo' = todo \ {i}
        /\ IF Constrains(i)
           THEN /\ intervals' = [intervals EXCEPT ![Pool[i].left] = Update(i)]
                /\ pc' = IF IsEmpty(Update(i)) THEN "next" ELSE pc
           ELSE UNCHANGED <<pc, intervals>>
  BY DEF FilterNext
<1>2. /\ pc = "filter" /\ CompareTypeOK /\ UNCHANGED <<used, setting, code>>
  BY DEF FilterNext, CompareInv
<1>3. i \in used /\ intervals \in [Attributes -> Interval]
  BY <1>2 DEF CompareTypeOK
<1>4. ASSUME pc' = "filter", Plain', NEW a \in Attributes
      PROVE  /\ ~ IsEmpty(intervals'[a])
             /\ \A x \in Int : Within(x, intervals'[a]) =>
                  \A j \in used \ todo' : Pool[j].left = a =>
                    (Meets(Pool[j].op, x, NumberOf[Pool[j].right]) <=> j \in setting)
  <2>1. Plain /\ Constrains(i) /\ Pool[i].left \in Attributes
    BY <1>2, <1>3, <1>4 DEF Plain, Constrains
  <2>2. intervals' = [intervals EXCEPT ![Pool[i].left] = Update(i)] /\ ~ IsEmpty(Update(i))
    BY <1>1, <1>2, <1>4, <2>1
  <2>3. /\ ~ IsEmpty(intervals[a])
        /\ \A x \in Int : Within(x, intervals[a]) =>
             \A j \in used \ todo : Pool[j].left = a =>
               (Meets(Pool[j].op, x, NumberOf[Pool[j].right]) <=> j \in setting)
    BY <1>2, <2>1 DEF RowsInv, Narrowed
  <2>4. CASE a = Pool[i].left
    <3>1. intervals'[a] = Update(i)
      BY <1>3, <2>1, <2>2, <2>4
    <3>2. ASSUME NEW x \in Int, Within(x, Update(i))
          PROVE  /\ Within(x, intervals[a])
                 /\ Meets(Pool[i].op, x, NumberOf[Pool[i].right]) <=> i \in setting
      BY <1>2, <1>3, <2>1, <2>4, <3>2, UpdateExact
    <3> QED BY <1>1, <2>2, <2>3, <3>1, <3>2
  <2>5. CASE a # Pool[i].left
    <3>1. intervals'[a] = intervals[a]
      BY <1>3, <2>2, <2>5
    <3> QED BY <1>1, <2>3, <2>5, <3>1
  <2> QED BY <2>4, <2>5
<1>5. Narrowed'
  BY <1>2, <1>4 DEF Narrowed
<1> QED BY <1>2, <1>5, ProducedKept DEF RowsInv

LEMMA RowsKeep ==
  ASSUME Separated, Dense, RowsInv, CompareInv, KeepSetting
  PROVE  RowsInv'
<1>1. /\ pc = "filter" /\ pc' = "next" /\ todo = {} /\ CompareTypeOK /\ used' = used /\ used # {}
      /\ code' = [code EXCEPT ![side] = Append(@, setting)]
  BY DEF KeepSetting, CompareInv, Filtering
<1>2. setting \in SUBSET Indices /\ side \in 1 .. 2 /\ code[side] \in Seq(SUBSET Indices)
  BY <1>1, SMT DEF CompareTypeOK
<1>3. Plain => \E tuple \in Rows : Pattern(tuple) = setting
  BY <1>1, SettingProduced DEF RowsInv
<1>4. Plain' = Plain /\ \A tuple : Pattern(tuple)' = Pattern(tuple)
  BY <1>1 DEF Plain, Pattern
<1>5. ASSUME NEW k \in {1, 2}  PROVE Produced(k)'
  <2>1. Produced(k)
    BY DEF RowsInv
  <2>2. \A s \in Elements(code[k])' : s \in Elements(code[k]) \/ s = setting
    <3>1. CASE k = side
      <4>1. code'[k] = Append(code[k], setting)
        BY <1>1, <1>2, <3>1 DEF CompareTypeOK
      <4>2. Elements(code[k])' = Elements(code[k]) \cup {setting}
        BY <1>2, <3>1, <4>1, AppendElements DEF Elements
      <4> QED BY <4>2
    <3>2. CASE k # side
      <4>1. code'[k] = code[k]
        BY <1>1, <1>2, <3>2 DEF CompareTypeOK
      <4> QED BY <4>1 DEF Elements
    <3> QED BY <3>1, <3>2
  <2> QED BY <1>1, <1>3, <1>4, <2>1, <2>2 DEF Produced
<1> QED BY <1>1, <1>5 DEF RowsInv, Narrowed

LEMMA RowsOther ==
  ASSUME RowsInv, UNCHANGED <<code, used>>,
         pc' # "filter" \/ UNCHANGED <<pc, intervals, todo, setting>>
  PROVE  RowsInv'
<1>1. Narrowed'
  BY DEF RowsInv, Narrowed, Plain
<1> QED BY <1>1, ProducedKept DEF RowsInv

LEMMA RowsStep ==
  ASSUME Separated, Dense, RowsInv, CompareInv, CompareStep
  PROVE  RowsInv'
<1>1. CASE NoMoreSettings
  BY <1>1, RowsOther DEF NoMoreSettings, Exhausted
<1>2. CASE MergeSame \/ MergeEnd
  BY <1>2, RowsOther DEF MergeSame, MergeEnd, Answer, Unmerged
<1>3. CASE \E k \in {1, 2} : MergeAlone(k) \/ MergeRest(k) \/ CountAlone(k)
  BY <1>3, RowsOther DEF MergeAlone, MergeRest, CountAlone, Alone, Answer, Unmerged
<1> QED BY <1>1, <1>2, <1>3, RowsConsider, RowsFilter, RowsKeep DEF CompareStep

-----------------------------------------------------------------------------
\* What the merge says of the encodings: a relationship that is not an inclusion has found a
\* setting that is only in one of them.
Lacking(j, k) == \E s \in Elements(code[j]) : s \notin Elements(code[k])

Telling ==
  /\ pc \in {"merge", "answered"} /\ ask = "relationship" =>
       /\ relationship \notin {"Equivalent", "FirstMoreGeneral"}  => Lacking(2, 1)
       /\ relationship \notin {"Equivalent", "FirstMoreSpecific"} => Lacking(1, 2)
  /\ pc = "merge" /\ ask = "relationship" => Passed(1, 2) /\ Passed(2, 1)

LEMMA CurrentLacks ==
  ASSUME CompareInv, CountInv, NEW j \in {1, 2}, NEW k \in {1, 2}, j = 3 - k, Alone(k),
         Passed(j, k)
  PROVE  Lacking(k, j)
<1>1. pc = "merge" /\ Ok(k) /\ (Ok(j) => Precedes(Current(k), Current(j)))
  BY DEF Alone
<1>2. /\ pos[k] \in 1 .. Len(code[k]) /\ Current(k) \in SUBSET Indices
  BY <1>1, CurrentLater
<1>3. Current(k) \in Elements(code[k])
  BY <1>2 DEF Elements, Current
<1>4. Current(k) \notin Before(j)
  BY <1>1, NotPassed
<1>5. CASE ~ Ok(j)
  BY <1>1, <1>3, <1>4, <1>5, BeforeAll DEF Lacking
<1>6. CASE Ok(j)
  <2>1. /\ pos[j] \in 1 .. Len(code[j]) /\ pos[j] \in Nat /\ Current(j) \in SUBSET Indices
        /\ \A i \in pos[j] + 1 .. Len(code[j]) : Precedes(Current(j), code[j][i])
        /\ \A i \in 1 .. Len(code[j]) : code[j][i] \in SUBSET Indices
    BY <1>6, CurrentLater
  <2>2. ASSUME NEW i \in 1 .. Len(code[j])  PROVE code[j][i] # Current(k)
    <3>1. CASE i < pos[j]
      <4>1. i \in 1 .. pos[j] - 1
        BY <2>1, <3>1, SMT
      <4> QED BY <1>4, <4>1 DEF Before
    <3>2. CASE i = pos[j]
      BY <1>1, <1>2, <1>6, <3>2, PrecedesIsStrict DEF Current
    <3>3. CASE i > pos[j]
      <4>1. i \in pos[j] + 1 .. Len(code[j])
        BY <2>1, <3>3, SMT
      <4>2. Precedes(Current(k), Current(j)) /\ Precedes(Current(j), code[j][i])
        BY <1>1, <1>6, <2>1, <4>1
      <4>3. Precedes(Current(k), code[j][i])
        BY <1>2, <2>1, <4>2, PrecedesIsStrict
      <4> QED BY <1>2, <4>3, PrecedesIsStrict
    <3> QED BY <2>1, <3>1, <3>2, <3>3, SMT
  <2> QED BY <1>3, <2>2 DEF Lacking, Elements
<1> QED BY <1>5, <1>6

LEMMA TellingMergeAlone ==
  ASSUME CompareInv, CountInv, Telling, NEW k \in {1, 2}, MergeAlone(k)
  PROVE  Telling'
<1>1. PICK j \in {1, 2} : j # k /\ 3 - k = j
  BY SMT
<1>2. /\ pc = "merge" /\ ask = "relationship" /\ ask' = ask /\ code' = code /\ Alone(k) /\ Ok(k)
      /\ Ok(j) => Precedes(Current(k), Current(j))
      /\ IF relationship = MoreGeneral(j) THEN Answer("Unrelated")
         ELSE relationship' = MoreGeneral(k) /\ pos' = [pos EXCEPT ![k] = @ + 1]
  BY <1>1 DEF MergeAlone, Alone, Unmerged
<1>3. Passed(j, k) /\ Passed(k, j)
  BY <1>1, <1>2 DEF Telling
<1>4. Lacking(k, j)
  BY <1>1, <1>2, <1>3, CurrentLacks
<1>5. \A a, b : Lacking(a, b)' = Lacking(a, b)
  BY <1>2 DEF Lacking, Elements
<1>6. (k = 1 /\ j = 2) \/ (k = 2 /\ j = 1)
  BY <1>1
<1>7. CASE relationship = MoreGeneral(j)
  <2>1. relationship' = "Unrelated" /\ pc' = "answered"
    BY <1>2, <1>7 DEF Answer
  <2>2. Lacking(j, k)
    BY <1>2, <1>6, <1>7 DEF Telling, MoreGeneral
  <2> QED BY <1>4, <1>5, <1>6, <2>1, <2>2 DEF Telling
<1>8. CASE relationship # MoreGeneral(j)
  <2>1. relationship' = MoreGeneral(k) /\ pos' = [pos EXCEPT ![k] = @ + 1]
    BY <1>2, <1>8
  <2>2. pos \in [1 .. 2 -> Nat \ {0}] /\ k \in 1 .. 2 /\ j \in 1 .. 2
    BY SMT DEF CountInv, CountTypes
  <2>3. pos'[k] = pos[k] + 1 /\ pos'[j] = pos[j]
    BY <1>1, <2>1, <2>2
  <2>4. Passed(k, j)'
    BY <1>1, <1>2, <1>3, <2>3, PassedGrows
  <2>5. Passed(j, k)'
    BY <1>1, <1>2, <1>3, <2>3, PassedStays
  <2> QED BY <1>4, <1>5, <1>6, <2>1, <2>4, <2>5 DEF Telling, MoreGeneral
<1> QED BY <1>7, <1>8

LEMMA TellingMergeRest ==
  ASSUME CompareInv, CountInv, Telling, NEW k \in {1, 2}, MergeRest(k)
  PROVE  Telling'
<1>1. PICK j \in {1, 2} : j # k /\ 3 - k = j
  BY SMT
<1>2. /\ pc = "merge" /\ pc' = "answered" /\ ask = "relationship" /\ code' = code /\ Alone(k)
      /\ relationship' = IF relationship = MoreGeneral(j) THEN "Unrelated" ELSE MoreGeneral(k)
  BY <1>1 DEF MergeRest, Alone, Unmerged, Answer
<1>3. Lacking(k, j)
  BY <1>1, <1>2, CurrentLacks DEF Telling
<1>4. \A a, b : Lacking(a, b)' = Lacking(a, b)
  BY <1>2 DEF Lacking, Elements
<1>5. (k = 1 /\ j = 2) \/ (k = 2 /\ j = 1)
  BY <1>1
<1>6. relationship = MoreGeneral(j) => Lacking(j, k)
  BY <1>2, <1>5 DEF Telling, MoreGeneral
<1> QED BY <1>2, <1>3, <1>4, <1>5, <1>6 DEF Telling, MoreGeneral

LEMMA TellingOther ==
  ASSUME Telling, UNCHANGED <<code, ask, relationship>>,
         \/ pc' \notin {"merge", "answered"}
         \/ ask # "relationship"
         \/ pc \in {"merge", "answered"} /\ (pc' = "merge" => UNCHANGED <<pc, pos>>)
  PROVE  Telling'
<1>1. \A a, b : Lacking(a, b)' = Lacking(a, b)
  BY DEF Lacking, Elements
<1>2. UNCHANGED pos => \A a, b : Passed(a, b)' = Passed(a, b)
  BY DEF Passed, Before
<1> QED BY <1>1, <1>2 DEF Telling

LEMMA TellingStep ==
  ASSUME CompareInv, CountInv, Telling, CompareStep
  PROVE  Telling'
<1>1. CASE FirstSetting \/ NextSetting \/ FilterNext \/ KeepSetting
  <2>1. pc' \notin {"merge", "answered"}
    <3>1. CASE FirstSetting \/ NextSetting
      <4>1. pc = "next" /\ \E s : Consider(s)
        BY <3>1 DEF FirstSetting, NextSetting
      <4> QED BY <4>1 DEF Consider
    <3>2. CASE FilterNext \/ KeepSetting
      BY <3>2 DEF FilterNext, KeepSetting
    <3> QED BY <1>1, <3>1, <3>2
  <2> QED BY <2>1 DEF Telling
<1>2. CASE NoMoreSettings
  <2>1. UNCHANGED <<ask, code, pos, relationship>> /\ pc = "next"
    BY <1>2 DEF NoMoreSettings, Exhausted
  <2>2. pos = <<1, 1>> /\ relationship = "Equivalent"
    BY <2>1 DEF CompareInv, Merging
  <2>3. Before(1)' = {} /\ Before(2)' = {}
    BY <2>1, <2>2, SMT DEF Before
  <2> QED BY <2>1, <2>2, <2>3 DEF Telling, Passed
<1>3. CASE MergeSame
  <2>1. /\ pc = "merge" /\ pc' = pc /\ Ok(1) /\ Ok(2) /\ Current(1) = Current(2)
        /\ pos' = [k \in {1, 2} |-> pos[k] + 1]
        /\ UNCHANGED <<ask, code, relationship>>
    BY <1>3 DEF MergeSame, Unmerged
  <2>2. pos'[1] = pos[1] + 1 /\ pos'[2] = pos[2] + 1
    BY <2>1
  <2>3. ask = "relationship" => Passed(1, 2)' /\ Passed(2, 1)'
    BY <2>1, <2>2, PassedGrows DEF Telling
  <2>4. \A a, b : Lacking(a, b)' = Lacking(a, b)
    BY <2>1 DEF Lacking, Elements
  <2> QED BY <2>1, <2>3, <2>4 DEF Telling
<1>4. CASE MergeEnd
  BY <1>4, TellingOther DEF MergeEnd, Answer, Unmerged
<1>5. CASE \E k \in {1, 2} : CountAlone(k)
  BY <1>5, TellingOther DEF CountAlone, Unmerged
<1> QED BY <1>1, <1>2, <1>3, <1>4, <1>5, TellingMergeAlone, TellingMergeRest DEF CompareStep

\* An answer about predicates without cross conditions that is not an inclusion has a row to
\* show for it.
LEMMA Tells ==
  ASSUME CompareInv, RowsInv, Telling
  PROVE  Recognized
<1> SUFFICES ASSUME pc = "answered", ask = "relationship", Plain
             PROVE  /\ relationship \notin {"Equivalent", "FirstMoreGeneral"} =>
                         \E tuple \in Rows : Meaning(pair[2], tuple) /\ ~ Meaning(pair[1], tuple)
                    /\ relationship \notin {"Equivalent", "FirstMoreSpecific"} =>
                         \E tuple \in Rows : Meaning(pair[1], tuple) /\ ~ Meaning(pair[2], tuple)
  BY DEF Recognized, Plain
<1>1. ASSUME NEW j \in {1, 2}, NEW k \in {1, 2}, Lacking(j, k)
      PROVE  \E tuple \in Rows : Meaning(pair[j], tuple) /\ ~ Meaning(pair[k], tuple)
  <2>1. PICK s \in Elements(code[j]) : s \notin Elements(code[k])
    BY <1>1 DEF Lacking
  <2>2. Encoded(j) /\ Encoded(k) /\ Produced(j)
    BY DEF CompareInv, RowsInv
  <2>3. used # {} /\ \E tuple \in Rows : Pattern(tuple) = s
    BY <2>1, <2>2 DEF Produced
  <2>4. PICK tuple \in Rows : Pattern(tuple) = s
    BY <2>3
  <2>5. UNION pair[j] \subseteq used /\ UNION pair[k] \subseteq used
    BY DEF CompareInv
  <2>6. Meaning(pair[j], tuple)
    BY <2>1, <2>2, <2>4, <2>5, PatternEvaluates DEF Encoded
  <2>7. Pattern(tuple) \in Seen(k)
    BY DEF Seen, Pattern
  <2>8. ~ Evaluate(pair[k], Pattern(tuple))
    BY <2>1, <2>2, <2>3, <2>4, <2>7 DEF Encoded
  <2>9. ~ Meaning(pair[k], tuple)
    BY <2>5, <2>8, PatternEvaluates
  <2> QED BY <2>6, <2>9
<1> QED BY <1>1 DEF Telling

-----------------------------------------------------------------------------
(* Comparisons within optimize(). *)

LEMMA RecognizeCompare ==
  ASSUME NEW p, NEW q, NEW question, Compare(p, q, question)
  PROVE  RowsInv' /\ Telling'
<1>1. pc' \in {"aborted", "next"}
  BY DEF Compare
<1> QED BY <1>1, RowsCompare DEF Telling

LEMMA RecognizeStep ==
  ASSUME Separated, Dense, QueriesInv, CountInv, RowsInv, Telling, [Next]_vars
  PROVE  RowsInv' /\ Telling'
<1>1. CASE RunComparison
  BY <1>1, RowsStep, TellingStep DEF RunComparison, QueriesInv
<1>2. CASE \E p, q, question : Compare(p, q, question)
  BY <1>2, RecognizeCompare
<1>3. CASE UNCHANGED compareVars
  <2>1. RowsInv'
    BY <1>3, RowsOther DEF compareVars
  <2>2. Telling'
    BY <1>3, TellingOther DEF compareVars
  <2> QED BY <2>1, <2>2
<1>4. CASE RelateRow \/ RelateNext \/ EvaluateGenome
  BY <1>2, <1>3, <1>4 DEF RelateRow, RelateNext, EvaluateGenome, CompareConditions
<1>5. CASE UnreadableRow \/ SkipRow \/ Relate \/ EndOfRows \/ Combine \/ SearchOn \/ GiveUp \/ UNCHANGED vars
  BY <1>3, <1>5 DEF UnreadableRow, SkipRow, Relate, EndOfRows, Combine, SearchOn, GiveUp, vars
<1> QED BY <1>1, <1>4, <1>5 DEF Next

LEMMA RecognizeInit ==
  ASSUME Init
  PROVE  RequestsKept /\ CountInv /\ Related /\ RowsInv /\ Telling
<1>1. RowsInv
  <2>1. Len(<<>>) = 0
    BY SMT
  <2>2. Elements(code[1]) = {} /\ Elements(code[2]) = {}
    BY <2>1, SMT DEF Init, CompareInit, Elements
  <2> QED BY <2>2 DEF Init, CompareInit, RowsInv, Narrowed, Produced
<1>2. Telling
  BY DEF Init, CompareInit, Telling
<1> QED BY <1>1, <1>2, CountInit

RecognizeInv == QueriesInv /\ CountInv /\ Related /\ RowsInv /\ Telling

LEMMA RecognizeInductive ==
  ASSUME Separated, Dense
  PROVE  Spec => []RecognizeInv
<1>1. Init => RequestsKept /\ CountInv /\ Related /\ RowsInv /\ Telling
  BY RecognizeInit
<1>2. /\ QueriesInv /\ RequestsKept /\ CountInv /\ Related /\ RowsInv /\ Telling
      /\ [Next]_vars
      => RequestsKept' /\ CountInv' /\ Related' /\ RowsInv' /\ Telling'
  BY RequestsStep, CountQueries, RecognizeStep
<1> QED BY <1>1, <1>2, QueriesInductive, PTL DEF Spec, RecognizeInv

\* Whatever conditions optimize() compares, as long as they have no cross conditions: it calls
\* them unrelated, or one of them strictly more general, only if a row tells them apart
\* (getPredicateRelationship).
THEOREM RelationshipsRecognized ==
  ASSUME Separated, Dense
  PROVE  Spec => []Recognized
<1>1. RecognizeInv => Recognized
  BY Tells DEF RecognizeInv, QueriesInv
<1> QED BY <1>1, RecognizeInductive, PTL

-----------------------------------------------------------------------------
(* The best of the past minerules. *)

\* A relationship of the condition k of the current row misses no inclusion.
Misses(relation, k) ==
  (\A j \in UNION (past[row].conditions[k] \cup target.conditions[k]) : Constrains(j)) =>
    /\ relation \notin {"Equivalent", "FirstMoreGeneral"} =>
         ~ Included(target.conditions[k], past[row].conditions[k])
    /\ relation \notin {"Equivalent", "FirstMoreSpecific"} =>
         ~ Included(past[row].conditions[k], target.conditions[k])

\* A past minerule that could answer the target.
Serves(m) ==
  /\ Comparable(m, target)
  /\ \A k \in 1 .. 3 : /\ Included(target.conditions[k], m.conditions[k])
                       /\ \A j \in UNION (m.conditions[k] \cup target.conditions[k]) : Constrains(j)

Differs(m) == \E k \in 1 .. 3 : ~ Included(m.conditions[k], target.conditions[k])

\* The choice is as good as m.
Considered(m) ==
  Serves(m) =>
    \/ found = "Equivalence"
    \/ found = "Dominance" /\ basis.size <= m.size /\ (AvoidEquivalenceDetection \/ Differs(m))

Scanning ==
  /\ phase = "relating" => \A k \in 1 .. Len(relations) : Misses(relations[k], k)
  /\ ~ AvoidDominanceDetection =>
       /\ phase \in {"scanning", "relating"} =>
            /\ found # "Equivalence"
            /\ \A i \in 1 .. Len(past) : i < row => Considered(past[i])
       /\ phase \in {"searching", "evaluating"} => \A i \in 1 .. Len(past) : ~ Serves(past[i])
       /\ phase = "optimized" => \A i \in 1 .. Len(past) : Considered(past[i])

\* What a comparison of conditions that has ended tells.
LEMMA AnswerMisses ==
  ASSUME RecognizeInv, phase = "relating", pc = "answered"
  PROVE  Misses(relationship, Len(relations) + 1)
<1>1. /\ Recognized /\ ask = "relationship" /\ used = UNION (pair[1] \cup pair[2])
      /\ pair[1] = past[row].conditions[Len(relations) + 1]
      /\ pair[2] = target.conditions[Len(relations) + 1]
  BY Tells DEF RecognizeInv, QueriesInv, CompareInv, Relating
<1>2. (\A j \in UNION (pair[1] \cup pair[2]) : Constrains(j)) =>
        /\ relationship \notin {"Equivalent", "FirstMoreGeneral"} => ~ Included(pair[2], pair[1])
        /\ relationship \notin {"Equivalent", "FirstMoreSpecific"} => ~ Included(pair[1], pair[2])
  BY <1>1 DEF Recognized, Included
<1> QED BY <1>1, <1>2 DEF Misses

\* Steps that leave the choice alone.
LEMMA ScanningKept ==
  ASSUME Scanning, UNCHANGED <<target, past, row, relations, found, basis>>,
         \/ phase' = phase
         \/ phase = "searching" /\ phase' = "evaluating"
         \/ phase \in {"searching", "evaluating"} /\ phase' \in {"searching", "optimized"}
         \/ phase' = "failed"
  PROVE  Scanning'
<1>1. \A m : (Serves(m)' <=> Serves(m)) /\ (Considered(m)' <=> Considered(m))
  BY DEF Serves, Considered, Differs
<1>2. \A k, r : Misses(r, k)' <=> Misses(r, k)
  BY DEF Misses
<1>3. \A i \in 1 .. Len(past) : ~ Serves(past[i]) => Considered(past[i])
  BY DEF Considered
<1> QED BY <1>1, <1>2, <1>3 DEF Scanning

\* A row that is turned down before its conditions are compared serves nobody.
LEMMA ScanningSkipRow ==
  ASSUME RecognizeInv, Scanning, SkipRow
  PROVE  Scanning'
<1>1. /\ phase = "scanning" /\ phase' = phase /\ row' = row + 1 /\ row \in Nat
      /\ AvoidDominanceDetection \/ ~ Comparable(past[row], target)
      /\ UNCHANGED <<target, past, found, basis>>
  BY DEF SkipRow, RecognizeInv, QueriesInv, RequestsKept
<1>2. \A m : Considered(m)' <=> Considered(m)
  BY <1>1 DEF Considered, Serves, Differs
<1>3. ASSUME ~ AvoidDominanceDetection, NEW i \in 1 .. Len(past), i < row + 1
      PROVE  Considered(past[i])
  <2>1. CASE i < row
    BY <1>1, <1>3, <2>1 DEF Scanning
  <2>2. CASE i = row
    BY <1>1, <1>3, <2>2 DEF Considered, Serves
  <2> QED BY <1>1, <1>3, <2>1, <2>2, SMT
<1> QED BY <1>1, <1>2, <1>3 DEF Scanning

LEMMA ScanningRelating ==
  ASSUME RecognizeInv, Scanning, RelateRow \/ RelateNext
  PROVE  Scanning'
<1>1. /\ phase \in {"scanning", "relating"} /\ phase' = "relating"
      /\ UNCHANGED <<target, past, row, found, basis>>
  BY DEF RelateRow, RelateNext
<1>2. \A m : Considered(m)' <=> Considered(m)
  BY <1>1 DEF Considered, Serves, Differs
<1>3. \A k, r : Misses(r, k)' <=> Misses(r, k)
  BY <1>1 DEF Misses
<1>4. \A k \in 1 .. Len(relations') : Misses(relations'[k], k)
  <2>1. CASE RelateRow
    <3>1. Len(relations') = 0
      BY <2>1, SMT DEF RelateRow
    <3> QED BY <3>1, SMT
  <2>2. CASE RelateNext
    <3>1. /\ phase = "relating" /\ relations' = Append(relations, relationship)
          /\ pc = "answered"
      BY <2>2 DEF RelateNext
    <3>2. relations \in Seq(Relationships) /\ relationship \in Relationships
      BY <3>1 DEF RecognizeInv, QueriesInv, Relating, CompareInv, CompareTypeOK
    <3>3. /\ Len(relations') = Len(relations) + 1 /\ Len(relations) \in Nat
          /\ \A k \in 1 .. Len(relations) : relations'[k] = relations[k]
          /\ relations'[Len(relations) + 1] = relationship
      BY <3>1, <3>2, SMT
    <3>4. Misses(relationship, Len(relations) + 1)
      BY <3>1, AnswerMisses
    <3>5. \A k \in 1 .. Len(relations) : Misses(relations[k], k)
      BY <3>1 DEF Scanning
    <3>6. \A k \in 1 .. Len(relations) + 1 : k \in 1 .. Len(relations) \/ k = Len(relations) + 1
      BY <3>3, SMT
    <3> QED BY <3>3, <3>4, <3>5, <3>6
  <2> QED BY <2>1, <2>2
<1> QED BY <1>1, <1>2, <1>3, <1>4 DEF Scanning

\* After a row was related, the choice is as good as it and as all before.
LEMMA ScanningRelate ==
  ASSUME RecognizeInv, Scanning, Relate
  PROVE  Scanning'
<1> DEFINE all == Append(relations, relationship)
           rel == MineruleRelationship(all)
           current == IF rel = "Equivalence" /\ AvoidEquivalenceDetection THEN "Dominance" ELSE rel
<1>1. /\ phase = "relating" /\ pc = "answered" /\ Len(relations) = 2
      /\ relations' = <<>> /\ row' = row + 1 /\ UNCHANGED <<target, past>>
      /\ phase' = IF current = "Equivalence" THEN "optimized" ELSE "scanning"
      /\ found' = IF current = "None" THEN found ELSE current
      /\ basis' = IF current = "Equivalence" \/ (current = "Dominance" /\ SmallerOne)
                 THEN past[row] ELSE basis
  BY DEF Relate
<1>2. /\ row \in 1 .. Len(past) /\ row \in Nat
      /\ relations \in Seq(Relationships) /\ relationship \in Relationships
      /\ found \in {"None", "Dominance", "Equivalence"}
  BY <1>1, SMT DEF RecognizeInv, QueriesInv, RequestsKept, Relating, Chosen, CompareInv, CompareTypeOK
<1>3. \A k \in 1 .. 3 : Misses(all[k], k)
  <2>1. all[1] = relations[1] /\ all[2] = relations[2] /\ all[3] = relationship
    <3>1. \A k \in 1 .. Len(relations) : all[k] = relations[k]
      BY <1>2, SMT
    <3>2. all[Len(relations) + 1] = relationship
      BY <1>2, SMT
    <3> HIDE DEF all
    <3> QED BY <1>1, <3>1, <3>2, SMT
  <2>2. Misses(relationship, 3)
    BY <1>1, AnswerMisses, 2 + 1 = 3
  <2>3. \A k \in 1 .. 2 : Misses(relations[k], k)
    BY <1>1 DEF Scanning
  <2>4. Misses(relations[1], 1) /\ Misses(relations[2], 2)
    BY <2>3, 1 \in 1 .. 2, 2 \in 1 .. 2
  <2>5. 1 .. 3 = {1, 2, 3}
    BY SMT
  <2> HIDE DEF all
  <2> QED BY <2>1, <2>2, <2>4, <2>5
<1>4. /\ rel \in {"None", "Dominance", "Equivalence"}
      /\ (\A k \in 1 .. 3 : all[k] \in {"FirstMoreGeneral", "Equivalent"}) => rel # "None"
      /\ rel = "Dominance" => \E k \in 1 .. 3 : all[k] = "FirstMoreGeneral"
  <2> HIDE DEF all
  <2> QED BY DEF MineruleRelationship
<1>5. ASSUME Serves(past[row])
      PROVE  /\ current # "None"
             /\ current = "Dominance" => AvoidEquivalenceDetection \/ Differs(past[row])
  <2> HIDE DEF all
  <2>1. \A k \in 1 .. 3 : all[k] \in {"FirstMoreGeneral", "Equivalent"}
    BY <1>3, <1>5 DEF Serves, Misses
  <2>2. ASSUME rel = "Dominance"  PROVE Differs(past[row])
    BY <1>3, <1>4, <1>5, <2>2 DEF Serves, Misses, Differs
  <2> QED BY <1>4, <2>1, <2>2
<1>6. current \in {"None", "Dominance", "Equivalence"}
  BY <1>4
<1> HIDE DEF current, rel, all
<1>7. CASE current = "Equivalence"
  BY <1>1, <1>7 DEF Scanning, Considered
<1>8. CASE current # "Equivalence"
  <2>1. phase' = "scanning"
    BY <1>1, <1>8
  <2>2. ASSUME ~ AvoidDominanceDetection
        PROVE  /\ found' # "Equivalence"
               /\ \A i \in 1 .. Len(past) : i < row + 1 => Considered(past[i])'
    <3>1. found # "Equivalence" /\ \A i \in 1 .. Len(past) : i < row => Considered(past[i])
      BY <1>1, <2>2 DEF Scanning
    <3>2. \A m : (Serves(m)' <=> Serves(m)) /\ (Differs(m)' <=> Differs(m))
      BY <1>1 DEF Serves, Differs
    <3>3. \A i \in 1 .. Len(past) : past[i].size \in Nat
      <4>1. \A m \in Minerules : m.size \in Nat
        BY RequestsAssumption DEF Minerule
      <4> QED BY <4>1, PastElement DEF RecognizeInv, QueriesInv
    <3>4. found = "Dominance" => basis.size \in Nat
      BY <3>3 DEF RecognizeInv, QueriesInv, Chosen
    <3>5. CASE current = "None"
      <4>1. found' = found /\ basis' = basis /\ ~ Serves(past[row])
        BY <1>1, <1>5, <3>5
      <4>2. \A m : Considered(m)' <=> Considered(m)
        BY <3>2, <4>1 DEF Considered
      <4>3. Considered(past[row])
        BY <4>1 DEF Considered
      <4>4. \A i \in 1 .. Len(past) : i < row + 1 => i < row \/ i = row
        BY <1>2, SMT
      <4>5. \A i \in 1 .. Len(past) : i < row + 1 => Considered(past[i])
        BY <3>1, <4>3, <4>4
      <4>6. found' # "Equivalence"
        BY <3>1, <4>1
      <4>7. \A i \in 1 .. Len(past) : i < row + 1 => Considered(past[i])'
        BY <1>1, <4>2, <4>5
      <4> QED BY <4>6, <4>7
    <3>6. CASE current = "Dominance"
      <4>1. found' = "Dominance" /\ basis' = IF SmallerOne THEN past[row] ELSE basis
        BY <1>1, <3>6
      <4>2. /\ basis'.size \in Nat /\ basis'.size <= past[row].size
            /\ found = "Dominance" => basis'.size <= basis.size
        <5>1. past[row].size \in Nat
          BY <1>2, <3>3
        <5>2. CASE SmallerOne
          BY <3>4, <4>1, <5>1, <5>2, SMT DEF SmallerOne
        <5>3. CASE ~ SmallerOne
          <6>1. found = "Dominance"
            BY <1>2, <3>1, <5>3 DEF SmallerOne
          <6> QED BY <3>4, <4>1, <5>1, <5>3, <6>1, SMT DEF SmallerOne
        <5> QED BY <5>2, <5>3
      <4>3. \A m : m = past[row] => Considered(m)'
        BY <1>5, <3>2, <3>6, <4>1, <4>2 DEF Considered
      <4>4. ASSUME NEW i \in 1 .. Len(past), i < row  PROVE Considered(past[i])'
        <5>1. SUFFICES ASSUME Serves(past[i])
                       PROVE  /\ basis'.size <= past[i].size
                              /\ AvoidEquivalenceDetection \/ Differs(past[i])
          BY <1>1, <3>2, <4>1 DEF Considered
        <5>2. /\ found = "Dominance" /\ basis.size <= past[i].size
              /\ AvoidEquivalenceDetection \/ Differs(past[i])
          BY <3>1, <4>4, <5>1 DEF Considered
        <5> QED BY <3>3, <3>4, <4>2, <5>2, SMT
      <4>5. \A i \in 1 .. Len(past) : i < row + 1 => i < row \/ i = row
        BY <1>2, SMT
      <4>6. found' # "Equivalence"
        BY <4>1
      <4>7. \A i \in 1 .. Len(past) : i < row + 1 => Considered(past[i])'
        <5> SUFFICES ASSUME NEW i \in 1 .. Len(past), i < row + 1
                     PROVE  Considered(past[i])'
          BY <1>1
        <5>1. CASE i < row
          BY <4>4, <5>1
        <5>2. CASE i = row
          <6>1. past[i] = past[row] /\ past' = past
            BY <1>1, <5>2
          <6>2. \A m : m = past[i] => Considered(m)'
            BY <4>3, <6>1
          <6> QED BY <6>1, <6>2
        <5> QED BY <4>5, <5>1, <5>2
      <4> QED BY <4>6, <4>7
    <3> QED BY <1>6, <1>8, <3>5, <3>6
  <2> QED BY <1>1, <2>1, <2>2 DEF Scanning
<1> QED BY <1>7, <1>8

LEMMA ScanningEnds ==
  ASSUME RecognizeInv, Scanning, EndOfRows \/ Combine
  PROVE  Scanning'
<1>1. CASE EndOfRows
  <2>1. /\ phase = "scanning" /\ row > Len(past) /\ row \in Nat /\ Len(past) \in Nat
        /\ phase' = IF found = "None" /\ ~ AvoidCombination THEN "searching" ELSE "optimized"
        /\ UNCHANGED <<target, past, found, basis>>
    BY <1>1 DEF EndOfRows, RecognizeInv, QueriesInv, RequestsKept
  <2>2. \A m : (Serves(m)' <=> Serves(m)) /\ (Considered(m)' <=> Considered(m))
    BY <2>1 DEF Serves, Considered, Differs
  <2>3. ~ AvoidDominanceDetection => \A i \in 1 .. Len(past) : Considered(past[i])
    BY <2>1, SMT DEF Scanning
  <2>4. found = "None" => \A m : Considered(m) => ~ Serves(m)
    BY DEF Considered
  <2> QED BY <2>1, <2>2, <2>3, <2>4 DEF Scanning
<1>2. CASE Combine
  <2>1. phase = "evaluating" /\ phase' = "optimized" /\ UNCHANGED <<target, past>>
    BY <1>2 DEF Combine
  <2>2. \A m : Serves(m)' <=> Serves(m)
    BY <2>1 DEF Serves
  <2> QED BY <2>1, <2>2 DEF Scanning, Considered
<1> QED BY <1>1, <1>2

LEMMA ScanningStep ==
  ASSUME RecognizeInv, Scanning, [Next]_vars
  PROVE  Scanning'
<1>1. CASE UnreadableRow \/ EvaluateGenome \/ SearchOn \/ GiveUp
  BY <1>1, ScanningKept DEF UnreadableRow, EvaluateGenome, SearchOn, GiveUp
<1>2. CASE RunComparison \/ UNCHANGED vars
  BY <1>2, ScanningKept DEF RunComparison, vars, queryVars
<1> QED BY <1>1, <1>2, ScanningSkipRow, ScanningRelating, ScanningRelate, ScanningEnds DEF Next

\* Whatever the catalogue, without cross conditions: optimize() misses no equivalent past
\* minerule, and if there is none it takes a dominating one with the smallest result.
THEOREM BestChosen ==
  ASSUME Separated, Dense
  PROVE  Spec => []BestFound
<1>1. Init => Scanning
  <2>1. ASSUME Init  PROVE Scanning
    <3>1. phase = "scanning" /\ row = 1 /\ found = "None"
      BY <2>1 DEF Init
    <3>2. \A i \in 1 .. Len(past) : ~ (i < 1)
      BY SMT
    <3> QED BY <3>1, <3>2 DEF Scanning
  <2> QED BY <2>1
<1>2. RecognizeInv /\ Scanning /\ [Next]_vars => Scanning'
  BY ScanningStep
<1>3. Scanning => BestFound
  BY DEF Scanning, Considered, Serves, Differs, BestFound
<1> QED BY <1>1, <1>2, <1>3, RecognizeInductive, PTL DEF Spec
=============================================================================
