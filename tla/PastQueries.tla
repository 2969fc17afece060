------------------------------ MODULE PastQueries ------------------------------
(***************************************************************************)
(* What OptimizedMinerule::optimize makes of the past minerules: it relates *)
(* each one to the new minerule by comparing their three conditions, keeps  *)
(* the equivalent one or the smallest of those that dominate, and otherwise *)
(* searches for a combination of several. The comparisons are those of      *)
(* PredicateRelation, whose variables it shares.                            *)
(***************************************************************************)
EXTENDS PredicateRelation

CONSTANTS Minerules,   \* the minerules of users
          Requests,    \* pairs of a new minerule and the past ones, as they are read
          ItemAttributes, \* attributes whose values the items of a rule determine
          AvoidDominanceDetection,
          AvoidEquivalenceDetection,
          AvoidCombinationDetection,
          MaxQueries,  \* past minerules a combination may use
          MaxDisjuncts,  \* disjuncts of a combination
          MaxEvaluations \* combinations the genetic search looks at

VARIABLES phase,       \* where optimize() is
          target,      \* the minerule to optimize
          past,        \* the minerules of the catalogue
          row,         \* the one that is looked at
          relations,   \* how its conditions relate to those of the target
          found,       \* optInfo.relationship
          basis,       \* optInfo.minerule
          toCombine,   \* optInfo.minerulesToCombine
          genome,      \* the combination under evaluation
          formula,     \* optInfo.combinationFormula
          evaluations  \* how many combinations were evaluated

queryVars == <<phase, target, past, row, relations, found, basis, toCombine, genome,
               formula, evaluations>>
vars == <<compareVars, queryVars>>

\* form stands for the source table, the attribute lists and the aggregates; conditions are
\* those on rules, groups and clusters; size is the number of rules found.
Minerule == [form : STRING, sup : Int, conf : Int, body : Int \X Int, head : Int \X Int,
             conditions : [1 .. 3 -> SUBSET (SUBSET Indices)], size : Nat]

ASSUME RequestsAssumption ==
  /\ Minerules \subseteq Minerule
  /\ ItemAttributes \subseteq Attributes
  /\ Requests \subseteq Minerules \X Seq(Minerules)
  /\ {AvoidDominanceDetection, AvoidEquivalenceDetection, AvoidCombinationDetection} \subseteq BOOLEAN
  /\ MaxQueries \in Nat /\ MaxDisjuncts \in Nat /\ MaxEvaluations \in Nat

-----------------------------------------------------------------------------
Contains(p, q) == p[1] <= q[1] /\ q[2] <= p[2]

\* What getMineruleRelationship and isACandidateQuery ask before they look at conditions.
Comparable(m1, m2) ==
  /\ m1.form = m2.form
  /\ m1.sup <= m2.sup
  /\ Contains(m1.body, m2.body)
  /\ Contains(m1.head, m2.head)

AttributesIn(p) ==
  UNION {{Pool[i].left, Pool[i].right} : i \in UNION p} \ Literals

\* A condition on rules always names an attribute; a cross condition depends on more than
\* the items.
HasIDConstraints(m) ==
  \A i \in UNION m.conditions[1] :
    Constrains(i) /\ Pool[i].left \in ItemAttributes

\* The conditions on groups and clusters are not looked at.
IsACandidateQuery(m1, m2) ==
  /\ Comparable(m1, m2)
  /\ HasIDConstraints(m1)
  /\ AttributesIn(m1.conditions[1]) \subseteq AttributesIn(m2.conditions[1])

RuleRelationship(rels) ==
  IF rels[1] \notin {"FirstMoreGeneral", "Equivalent"} THEN "None"
  ELSE IF rels[1] = "FirstMoreGeneral" THEN "Dominance" ELSE "Equivalence"

MineruleRelationship(rels) ==
  LET all == {rels[k] : k \in 1 .. 3}
  IN  IF ~ all \subseteq {"FirstMoreGeneral", "Equivalent"} THEN "None"
      ELSE IF "FirstMoreGeneral" \in all THEN "Dominance" ELSE "Equivalence"

AvoidCombination == AvoidCombinationDetection \/ ~HasIDConstraints(target)

\* GAQueryCombinator::buildAssociatedPredicate. A genome is a set of disjuncts, each a set
\* of candidates. The candidates of a disjunct are conjoined one after the other into a
\* predicate that is taken to be unset as long as it is empty.
Candidate(j) == toCombine[j].conditions[1]

Disjoined(d) == UNION {Candidate(j) : j \in d}

Conjoined(d) ==
  LET operands == {j \in d : Candidate(j) # {}}
      disjuncts == UNION {Candidate(j) : j \in operands}
      choices == {f \in [operands -> disjuncts] : \A j \in operands : f[j] \in Candidate(j)}
  IN  IF operands = {} THEN {} ELSE {UNION {f[j] : j \in operands} : f \in choices}

AssociatedPredicate(g) == UNION {Conjoined(d) : d \in g}

\* Predicate::operator&= with an empty operand counts down from 0 and exhausts the memory.
Overruns(d) == \E i, j \in d : i < j /\ Candidate(i) # {} /\ Candidate(j) = {}

Genomes ==
  {g \in SUBSET (SUBSET (1 .. Len(toCombine)) \ {{}}) :
     Cardinality(g) <= MaxDisjuncts /\ Cardinality(UNION g) <= MaxQueries}

-----------------------------------------------------------------------------
\* optimize() starts with the past minerules in the order in which they are read. A program
\* calls it once; an exception or a failed assertion ends the program with it.
Init ==
  /\ CompareInit
  /\ phase = "scanning" /\ row = 1 /\ relations = <<>> /\ found = "None"
  /\ \E r \in Requests : target = r[1] /\ past = r[2]
  /\ basis = target /\ toCombine = <<>> /\ genome = {} /\ formula = {} /\ evaluations = 0

CompareConditions(k) ==
  Compare(past[row].conditions[k], target.conditions[k], "relationship")

Collected ==
  IF ~AvoidCombination /\ IsACandidateQuery(past[row], target)
  THEN Append(toCombine, past[row]) ELSE toCombine

\* getMineruleText writes a condition on groups without HAVING, so that the text of such a
\* past minerule cannot be parsed: the loop ends with an exception nobody catches.
Readable(m) == m.conditions[2] = {}

UnreadableRow ==
  /\ phase = "scanning" /\ row <= Len(past) /\ ~Readable(past[row])
  /\ phase' = "failed"
  /\ UNCHANGED <<target, past, row, relations, found, basis, toCombine, genome, formula, evaluations>>
  /\ UNCHANGED compareVars

\* A row that getMineruleRelationship turns down before it compares conditions.
SkipRow ==
  /\ phase = "scanning" /\ row <= Len(past) /\ Readable(past[row])
  /\ AvoidDominanceDetection \/ ~Comparable(past[row], target)
  /\ toCombine' = Collected
  /\ row' = row + 1
  /\ UNCHANGED <<phase, target, past, relations, found, basis, genome, formula, evaluations>>
  /\ UNCHANGED compareVars

RelateRow ==
  /\ phase = "scanning" /\ row <= Len(past) /\ Readable(past[row])
  /\ ~AvoidDominanceDetection /\ Comparable(past[row], target)
  /\ toCombine' = Collected
  /\ phase' = "relating" /\ relations' = <<>>
  /\ CompareConditions(1)
  /\ UNCHANGED <<target, past, row, found, basis, genome, formula, evaluations>>

\* All three pairs of conditions are compared before any answer is looked at.
RelateNext ==
  /\ phase = "relating" /\ pc = "answered" /\ Len(relations) < 2
  /\ relations' = Append(relations, relationship)
  /\ CompareConditions(Len(relations) + 2)
  /\ UNCHANGED <<phase, target, past, row, found, basis, toCombine, genome, formula, evaluations>>

LastOne == TRUE

SmallerOne == found = "None" \/ past[row].size < basis.size

\* The switch on the relationship: an equivalent minerule ends the loop, a dominating one
\* is kept if it is the first or its result is smaller.
Relate ==
  LET rel == MineruleRelationship(Append(relations, relationship))
      current == IF rel = "Equivalence" /\ AvoidEquivalenceDetection THEN "Dominance" ELSE rel
  IN  /\ phase = "relating" /\ pc = "answered" /\ Len(relations) = 2
      /\ relations' = <<>>
      /\ found' = IF current = "None" THEN found ELSE current
      /\ basis' = IF \/ current = "Equivalence"
                     \/ current = "Dominance" /\ SmallerOne
                  THEN past[row] ELSE basis
      /\ phase' = IF current = "Equivalence" THEN "optimized" ELSE "scanning"
      /\ row' = row + 1
      /\ UNCHANGED <<target, past, toCombine, genome, formula, evaluations>>
      /\ UNCHANGED compareVars

EndOfRows ==
  /\ phase = "scanning" /\ row > Len(past)
  /\ phase' = IF found = "None" /\ ~AvoidCombination THEN "searching" ELSE "optimized"
  /\ UNCHANGED <<target, past, row, relations, found, basis, toCombine, genome, formula, evaluations>>
  /\ UNCHANGED compareVars

\* The genetic search evaluates one combination after the other.
EvaluateGenome ==
  /\ phase = "searching" /\ evaluations < MaxEvaluations
  /\ \E g \in Genomes :
       /\ genome' = g /\ evaluations' = evaluations + 1
       /\ IF \E d \in g : Overruns(d)
          THEN phase' = "failed" /\ UNCHANGED compareVars
          ELSE /\ phase' = "evaluating"
               /\ Compare(target.conditions[1], AssociatedPredicate(g), "distance")
  /\ UNCHANGED <<target, past, row, relations, found, basis, toCombine, formula>>

\* At distance 0 the fitness is infinite: the search ends after the generation, whose other
\* genomes are still evaluated, and buildResult takes the best one.
Combine ==
  /\ phase = "evaluating" /\ pc = "answered" /\ distance = 0 /\ genome # {}
  /\ phase' = "optimized" /\ found' = "Combination" /\ formula' = genome
  /\ UNCHANGED <<target, past, row, relations, basis, toCombine, genome, evaluations>>
  /\ UNCHANGED compareVars

SearchOn ==
  /\ phase = "evaluating" /\ pc = "answered"
  /\ phase' = "searching"
  /\ UNCHANGED <<target, past, row, relations, found, basis, toCombine, genome, formula, evaluations>>
  /\ UNCHANGED compareVars

\* The last generation, or the time limit, without a combination.
GiveUp ==
  /\ phase = "searching"
  /\ phase' = "optimized" /\ toCombine' = <<>>
  /\ UNCHANGED <<target, past, row, relations, found, basis, genome, formula, evaluations>>
  /\ UNCHANGED compareVars

\* The statements of a comparison.
RunComparison ==
  /\ phase \in {"relating", "evaluating"}
  /\ CompareStep
  /\ UNCHANGED queryVars

Next ==
  \/ UnreadableRow \/ SkipRow \/ RelateRow \/ RelateNext \/ Relate \/ EndOfRows
  \/ EvaluateGenome \/ Combine \/ SearchOn \/ GiveUp \/ RunComparison

Spec == Init /\ [][Next]_vars
FairSpec == Spec /\ WF_vars(Next)

-----------------------------------------------------------------------------
(* Properties. *)

\* Every variable of optimize() holds a value of its kind.
TypeOK ==
  /\ CompareTypeOK
  /\ phase \in {"scanning", "relating", "searching", "evaluating", "optimized", "failed"}
  /\ target \in Minerule /\ past \in Seq(Minerule) /\ row \in 1 .. Len(past) + 1
  /\ relations \in Seq(Relationships) /\ Len(relations) <= 2
  /\ found \in {"None", "Dominance", "Equivalence", "Combination"}
  /\ basis \in Minerule /\ toCombine \in Seq(Minerule)
  /\ {genome, formula} \subseteq SUBSET (SUBSET (1 .. Len(past)))
  /\ evaluations \in 0 .. MaxEvaluations

Included(p, q) == \A r \in Rows : Meaning(p, r) => Meaning(q, r)

\* The past minerule that answers the new one accepts, in each of its three conditions, all
\* rows that the new one accepts, and the same ones if it is called equivalent: what the
\* incremental algorithms and addDerivedResult take for granted.
Promised ==
  phase = "optimized" /\ found \in {"Dominance", "Equivalence"} =>
    /\ \E i \in 1 .. Len(past) : past[i] = basis
    /\ Comparable(basis, target)
    /\ \A k \in 1 .. 3 : /\ Included(target.conditions[k], basis.conditions[k])
                         /\ found = "Equivalence" => Included(basis.conditions[k], target.conditions[k])

\* Without cross conditions the loop over the past minerules finds the best of them: the
\* equivalent one if there is one, or else a dominating one with the smallest result.
BestFound ==
  phase = "optimized" /\ ~AvoidDominanceDetection =>
    \A i \in 1 .. Len(past) :
      LET m == past[i]
      IN  /\ Comparable(m, target)
          /\ \A k \in 1 .. 3 : /\ Included(target.conditions[k], m.conditions[k])
                               /\ \A j \in UNION (m.conditions[k] \cup target.conditions[k]) : Constrains(j)
          => \/ found = "Equivalence"
             \/ /\ found = "Dominance" /\ basis.size <= m.size
                /\ \/ AvoidEquivalenceDetection
                   \/ \E k \in 1 .. 3 : ~Included(m.conditions[k], target.conditions[k])

\* Each disjunct has a candidate with a condition on rules. One that has none is taken for a
\* disjunct that is not set, and the combination is compared without it.
Anchored(g) == \A d \in g : \E j \in d : Candidate(j) # {}

\* A combination whose disjuncts were all compared accepts exactly the rows that the condition
\* of the target accepts.
CombinationExact ==
  phase = "optimized" /\ found = "Combination" /\ Anchored(formula) =>
    \A r \in Rows :
      Meaning(target.conditions[1], r)
        <=> \E d \in formula : \A j \in d : Meaning(Candidate(j), r)

\* optimize() ends, by itself or with the program.
Ends ==
  phase = "scanning" ~> (phase \in {"optimized", "failed"} \/ pc = "aborted")

=============================================================================
