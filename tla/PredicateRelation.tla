--------------------------- MODULE PredicateRelation ---------------------------
(***************************************************************************)
(* How minerule compares two predicates: every simple predicate of the two *)
(* becomes a Boolean variable, each predicate is encoded as the increasing *)
(* sequence of the variable settings that satisfy it and that an attribute *)
(* value could produce, and the two sequences are merged.                  *)
(***************************************************************************)
EXTENDS Integers, Sequences, FiniteSets

CONSTANTS Attributes,   \* the attributes of the source table
          Literals,     \* the numbers of predicates, as they are written
          NumberOf,     \* the number a literal stands for, in units of 1/Unit
          Unit,         \* how many units make 1
          Pool,         \* simple predicates, in the order of their texts
          MaxVars,      \* settings hold up to that many variables (31)
          NegInfty, PosInfty,  \* the limits of an unbounded interval
          Numbers       \* the values, in units, that rows may hold

Operators == {"<", "<=", ">", ">=", "=", "<>"}
Indices == 1 .. Len(Pool)

\* A simple predicate compares an attribute or a literal with another one; the
\* parser moves a single attribute to the left. A predicate is a disjunction of
\* conjunctions; without disjuncts it is the condition nobody wrote.
ASSUME ParametersAssumption ==
  /\ Attributes \cap Literals = {}
  /\ NumberOf \in [Literals -> Int]
  /\ Unit \in Nat \ {0}
  /\ MaxVars \in Nat
  /\ Numbers \subseteq Int
  /\ NegInfty \notin Literals /\ PosInfty \notin Literals /\ NegInfty # PosInfty
  /\ Pool \in Seq([left : Attributes \cup Literals, op : Operators,
                   right : Attributes \cup Literals])
  /\ \A i \in Indices : Pool[i].left \in Literals => Pool[i].right \in Literals

-----------------------------------------------------------------------------
(* What predicates mean for a row of the source table. *)

Rows == [Attributes -> Numbers]

Meets(op, x, y) ==
  CASE op = "<"  -> x < y
    [] op = "<=" -> x <= y
    [] op = ">"  -> x > y
    [] op = ">=" -> x >= y
    [] op = "="  -> x = y
    [] op = "<>" -> x # y

Term(t, row) == IF t \in Attributes THEN row[t] ELSE NumberOf[t]

Holds(i, row) == Meets(Pool[i].op, Term(Pool[i].left, row), Term(Pool[i].right, row))

Meaning(p, row) == p = {} \/ \E c \in p : \A i \in c : Holds(i, row)

\* Literals whose difference the cast to int does not lose.
Separated ==
  \A a, b \in Literals : NumberOf[a] < NumberOf[b] => NumberOf[b] - NumberOf[a] >= Unit

\* Every number has one literal only, and rows may hold it. They may hold others too: below
\* and above all literals and between any two of them.
Dense ==
  LET between(S, T) == \E n \in Numbers : /\ \A a \in S : NumberOf[a] < n
                                         /\ \A b \in T : n < NumberOf[b]
                                         /\ \A l \in Literals : n # NumberOf[l]
  IN  /\ \A a, b \in Literals : NumberOf[a] = NumberOf[b] => a = b
      /\ \A a \in Literals : NumberOf[a] \in Numbers
      /\ between({}, {})
      /\ \A a \in Literals : between({a}, {}) /\ between({}, {a})
      /\ \A a, b \in Literals : NumberOf[a] < NumberOf[b] => between({a}, {b})

-----------------------------------------------------------------------------
(* Variable settings: the set of the variables that are true. *)

Evaluate(p, setting) == p = {} \/ \E c \in p : c \subseteq setting

\* The order of settings as binary numbers, the first variable lowest.
Precedes(s, t) == \E i \in t \ s : \A j \in s \ t : j < i

(* Intervals of attribute values. *)

Interval == [lwr : Literals \cup {NegInfty}, upp : Literals \cup {PosInfty},
             lwrOpen : BOOLEAN, uppOpen : BOOLEAN, openPoints : SUBSET Literals]

Whole == [lwr |-> NegInfty, upp |-> PosInfty, lwrOpen |-> TRUE, uppOpen |-> TRUE,
          openPoints |-> {}]

NegatedStrict(op) ==
  CASE op \in {"<", "<="} -> ">"
    [] op \in {">", ">="} -> "<"
    [] op = "="  -> "<>"
    [] op = "<>" -> "="

Negated(op) ==
  CASE op = "<"  -> ">="
    [] op = "<=" -> ">"
    [] op = ">"  -> "<="
    [] op = ">=" -> "<"
    [] op = "="  -> "<>"
    [] op = "<>" -> "="

IntervalOf(op, val) ==
  [lwr |-> IF op \in {">", ">=", "="} THEN val ELSE NegInfty,
   upp |-> IF op \in {"<", "<=", "="} THEN val ELSE PosInfty,
   lwrOpen |-> op \notin {">=", "="},
   uppOpen |-> op \notin {"<=", "="},
   openPoints |-> IF op = "<>" THEN {val} ELSE {}]

\* The difference of two numbers is cast to int: below 1 it becomes 0.
CompareNumbers(val1, val2) ==
  LET difference == NumberOf[val1] - NumberOf[val2]
  IN  IF difference >= Unit THEN 1 ELSE IF difference <= -Unit THEN -1 ELSE 0

CompareValues(val1, val2) ==
  IF val1 = val2 THEN 0
  ELSE IF val1 = NegInfty \/ val2 = PosInfty THEN -1
  ELSE IF val1 = PosInfty \/ val2 = NegInfty THEN 1
  ELSE CompareNumbers(val1, val2)

Intersect(a, b) ==
  LET low  == CompareValues(a.lwr, b.lwr)
      high == CompareValues(a.upp, b.upp)
  IN  [lwr |-> IF low < 0 THEN b.lwr ELSE a.lwr,
       lwrOpen |-> (low >= 0 /\ a.lwrOpen) \/ (low <= 0 /\ b.lwrOpen),
       upp |-> IF high > 0 THEN b.upp ELSE a.upp,
       uppOpen |-> (high <= 0 /\ a.uppOpen) \/ (high >= 0 /\ b.uppOpen),
       openPoints |-> a.openPoints \cup b.openPoints]

Reversed(i) == CompareValues(i.lwr, i.upp) > 0

IsEmpty(i) ==
  LET order == CompareValues(i.lwr, i.upp)
  IN  order > 0 \/ (order = 0 /\ (i.lwrOpen \/ i.uppOpen \/ i.lwr \in i.openPoints))

-----------------------------------------------------------------------------
VARIABLES pc,            \* where the comparison is
          ask,           \* which question it answers
          pair,          \* the two predicates
          used,          \* the simple predicates of both, numbered in their order
          side,          \* which predicate is being encoded
          first,         \* the enumerator was not called yet
          setting,       \* the current setting
          todo,          \* the simple predicates the filter has not looked at
          intervals,     \* what the filter knows of each attribute
          code,          \* the encodings of the two predicates
          pos,           \* the iterators over the encodings
          relationship,  \* getCodesRelationship so far
          distance       \* computeHammingDistance so far

compareVars == <<pc, ask, pair, used, side, first, setting, todo, intervals, code, pos,
                 relationship, distance>>

Relationships == {"FirstMoreGeneral", "FirstMoreSpecific", "Equivalent", "Unrelated"}

Unbounded == [a \in Attributes |-> Whole]

CompareInit ==
  /\ pc = "idle" /\ ask = "relationship" /\ pair = <<{}, {}>> /\ used = {}
  /\ side = 1 /\ first = TRUE /\ setting = {} /\ todo = {} /\ intervals = Unbounded
  /\ code = <<<<>>, <<>>>> /\ pos = <<1, 1>>
  /\ relationship = "Equivalent" /\ distance = 0

\* getPredicateRelationship and GAQueryCombinator::evaluator: the variables of both
\* predicates are numbered, then each is encoded. A setting with more than MaxVars
\* variables fails its assertion, which ends the program.
Compare(p, q, question) ==
  /\ pc \in {"idle", "answered"}
  /\ pair' = <<p, q>> /\ ask' = question
  /\ used' = UNION (p \cup q)
  /\ pc' = IF Cardinality(used') > MaxVars THEN "aborted" ELSE "next"
  /\ side' = 1 /\ first' = TRUE /\ setting' = {} /\ todo' = {} /\ intervals' = Unbounded
  /\ code' = <<<<>>, <<>>>> /\ pos' = <<1, 1>>
  /\ relationship' = "Equivalent" /\ distance' = 0

\* The setting is filtered only if the predicate is true of it.
Consider(s) ==
  /\ setting' = s
  /\ first' = FALSE
  /\ IF Evaluate(pair[side], s)
     THEN pc' = "filter" /\ todo' = used /\ intervals' = Unbounded
     ELSE UNCHANGED <<pc, todo, intervals>>
  /\ UNCHANGED <<ask, pair, used, side, code, pos, relationship, distance>>

FirstSetting ==
  /\ pc = "next" /\ first /\ used # {}
  /\ Consider({})

NextSetting ==
  /\ pc = "next" /\ ~first
  /\ \E i \in used \ setting :
       /\ \A j \in used \ setting : i <= j
       /\ Consider({i} \cup {j \in setting : j > i})

Exhausted ==
  /\ IF side = 1 THEN side' = 2 /\ UNCHANGED pc ELSE pc' = "merge" /\ UNCHANGED side
  /\ first' = TRUE /\ setting' = {}
  /\ UNCHANGED <<ask, pair, used, todo, intervals, code, pos, relationship, distance>>

NoMoreAfterFirst == pc = "next" /\ ~first /\ setting = used /\ Exhausted

\* No more settings; the enumerator of no variables yields none at all.
NoMoreSettings ==
  /\ pc = "next" /\ setting = used /\ (first => used = {})
  /\ Exhausted

\* The list of the simple predicates was built from its end. Those that compare two
\* literals or two attributes constrain no interval.
Constrains(i) == Pool[i].left \in Attributes /\ Pool[i].right \in Literals

Update(i) ==
  LET s  == Pool[i]
      op == IF i \in setting THEN s.op ELSE Negated(s.op)
  IN  Intersect(intervals[s.left], IntervalOf(op, s.right))

FilterNext ==
  /\ pc = "filter"
  /\ \E i \in todo :
       /\ \A j \in todo : j <= i
       /\ todo' = todo \ {i}
       /\ IF Constrains(i)
          THEN /\ intervals' = [intervals EXCEPT ![Pool[i].left] = Update(i)]
               /\ pc' = IF IsEmpty(Update(i)) THEN "next" ELSE pc
          ELSE UNCHANGED <<pc, intervals>>
  /\ UNCHANGED <<ask, pair, used, side, first, setting, code, pos, relationship, distance>>

KeepSetting ==
  /\ pc = "filter" /\ todo = {}
  /\ code' = [code EXCEPT ![side] = Append(@, setting)]
  /\ pc' = "next"
  /\ UNCHANGED <<ask, pair, used, side, first, setting, todo, intervals, pos, relationship, distance>>

-----------------------------------------------------------------------------
(* The merge of the two encodings. *)

Ok(k) == pos[k] <= Len(code[k])
Current(k) == code[k][pos[k]]

Answer(r) == relationship' = r /\ pc' = "answered" /\ UNCHANGED <<pos, distance>>

Unmerged == <<ask, pair, used, side, first, setting, todo, intervals, code>>

MergeSame ==
  /\ pc = "merge" /\ Ok(1) /\ Ok(2) /\ Current(1) = Current(2)
  /\ pos' = [k \in {1, 2} |-> pos[k] + 1]
  /\ UNCHANGED <<pc, relationship, distance>> /\ UNCHANGED Unmerged

\* A setting of encoding k that the other one lacks; only the loops of the distance go
\* on when the other encoding is finished.
Alone(k) ==
  /\ pc = "merge" /\ Ok(k)
  /\ Ok(3 - k) => Precedes(Current(k), Current(3 - k))

MoreGeneral(k) == IF k = 1 THEN "FirstMoreGeneral" ELSE "FirstMoreSpecific"

MergeAlone(k) ==
  /\ Alone(k) /\ ask = "relationship" /\ Ok(3 - k)
  /\ IF relationship = MoreGeneral(3 - k)
     THEN Answer("Unrelated")
     ELSE /\ relationship' = MoreGeneral(k)
          /\ pos' = [pos EXCEPT ![k] = @ + 1]
          /\ UNCHANGED <<pc, distance>>
  /\ UNCHANGED Unmerged

MergeRest(k) ==
  /\ Alone(k) /\ ask = "relationship" /\ ~Ok(3 - k)
  /\ Answer(IF relationship = MoreGeneral(3 - k) THEN "Unrelated" ELSE MoreGeneral(k))
  /\ UNCHANGED Unmerged

CountFirst(k) ==
  /\ Alone(k) /\ ask = "distance"
  /\ distance' = IF k = 1 THEN distance + 1 ELSE distance
  /\ pos' = [pos EXCEPT ![k] = @ + 1]
  /\ UNCHANGED <<pc, relationship>> /\ UNCHANGED Unmerged

CountAlone(k) ==
  /\ Alone(k) /\ ask = "distance"
  /\ distance' = distance + 1
  /\ pos' = [pos EXCEPT ![k] = @ + 1]
  /\ UNCHANGED <<pc, relationship>> /\ UNCHANGED Unmerged

MergeEnd ==
  /\ pc = "merge" /\ ~Ok(1) /\ ~Ok(2)
  /\ Answer(relationship)
  /\ UNCHANGED Unmerged

CompareStep ==
  \/ FirstSetting \/ NextSetting \/ NoMoreSettings \/ FilterNext \/ KeepSetting
  \/ MergeSame \/ MergeEnd
  \/ \E k \in {1, 2} : MergeAlone(k) \/ MergeRest(k) \/ CountAlone(k)

CompareNext ==
  \/ \E p, q \in SUBSET (SUBSET Indices), question \in {"relationship", "distance"} :
       Compare(p, q, question)
  \/ CompareStep

CompareSpec == CompareInit /\ [][CompareNext]_compareVars

-----------------------------------------------------------------------------
(* Properties. *)

Elements(s) == {s[i] : i \in 1 .. Len(s)}

\* Every variable holds a value of its kind.
CompareTypeOK ==
  /\ pc \in {"idle", "next", "filter", "merge", "answered", "aborted"}
  /\ ask \in {"relationship", "distance"}
  /\ pair \in [1 .. 2 -> SUBSET (SUBSET Indices)]
  /\ used \subseteq Indices /\ setting \subseteq used /\ todo \subseteq used
  /\ side \in {1, 2} /\ first \in BOOLEAN
  /\ intervals \in [Attributes -> Interval]
  /\ code \in [1 .. 2 -> Seq(SUBSET Indices)]
  /\ pos \in [1 .. 2 -> Nat \ {0}]
  /\ relationship \in Relationships /\ distance \in Nat

\* What an answer claims about the rows of the source table.
Claims(p, q) ==
  LET included(x, y) == \A row \in Rows : Meaning(x, row) => Meaning(y, row)
  IN  IF ask = "distance" THEN distance = 0 => included(p, q) /\ included(q, p)
      ELSE /\ relationship \in {"Equivalent", "FirstMoreGeneral"}  => included(q, p)
           /\ relationship \in {"Equivalent", "FirstMoreSpecific"} => included(p, q)

\* A predicate is found equivalent to another one, more general or at distance 0 only if
\* it accepts all the rows it should: getPredicateRelationship and the fitness of
\* GAQueryCombinator decide on it which past results answer a minerule.
Sound == pc = "answered" => Claims(pair[1], pair[2])

\* Over predicates without cross conditions no relationship is missed: predicates are
\* reported as unrelated or as strictly more general only if some row tells them apart.
Recognized ==
  pc = "answered" /\ ask = "relationship" /\ (\A i \in used : Constrains(i)) =>
    /\ relationship \notin {"Equivalent", "FirstMoreGeneral"} =>
         \E row \in Rows : Meaning(pair[2], row) /\ ~Meaning(pair[1], row)
    /\ relationship \notin {"Equivalent", "FirstMoreSpecific"} =>
         \E row \in Rows : Meaning(pair[1], row) /\ ~Meaning(pair[2], row)

\* The distance is the number of settings the two encodings do not share, whatever the
\* order in which the loops of computeHammingDistance meet them.
DistanceExact ==
  pc = "answered" /\ ask = "distance" =>
    distance = Cardinality((Elements(code[1]) \ Elements(code[2]))
                           \cup (Elements(code[2]) \ Elements(code[1])))

=============================================================================
