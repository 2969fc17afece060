----------------------- MODULE IncrementalMiningProofs -----------------------
(***************************************************************************)
(* What holds of every incremental run, for any source tables, minerules   *)
(* and past results the optimizer may have found.                          *)
(***************************************************************************)
EXTENDS IncrementalMining, SourceDataProofs

-----------------------------------------------------------------------------
(* The job, and the rules of the past results.                             *)

JobInv == job \in Jobs /\ Answerable(job)

NonEmpty == (SUBSET Items) \ {{}}

(* r is a rule that minerule m finds in table t, with Tot groups in all.   *)
IsRule(r, m, t) ==
  /\ r.body \in NonEmpty /\ r.head \in NonEmpty /\ r.body \cap r.head = {}
  /\ Accepts(m.condition, r.body, r.head)
  /\ r = Counts(t, r.body, r.head)
  /\ r.gids > 0 /\ Frequent(m, r.gids) /\ Within(r, m)

LEMMA AnswerIsRules ==
  \A m, t, r : r \in Answer(m, t) <=> IsRule(r, m, t)
<1> SUFFICES ASSUME NEW m, NEW t, NEW r  PROVE r \in Answer(m, t) <=> IsRule(r, m, t)
  OBVIOUS
<1> DEFINE sides == NonEmpty \X NonEmpty
           accepted == {p \in sides : p[1] \cap p[2] = {} /\ Accepts(m.condition, p[1], p[2])}
<1>1. r \in Answer(m, t) <=>
        /\ \E p \in accepted : r = Counts(t, p[1], p[2])
        /\ r.gids > 0 /\ Frequent(m, r.gids) /\ Within(r, m)
  BY DEF Answer, NonEmpty
<1>2. \A B, H : Counts(t, B, H).body = B /\ Counts(t, B, H).head = H
  BY DEF Counts
<1>3. ASSUME NEW p \in accepted, r = Counts(t, p[1], p[2])
      PROVE  /\ r.body \in NonEmpty /\ r.head \in NonEmpty /\ r.body \cap r.head = {}
             /\ Accepts(m.condition, r.body, r.head) /\ r = Counts(t, r.body, r.head)
  BY <1>2, <1>3
<1>4. ASSUME r.body \in NonEmpty, r.head \in NonEmpty, r.body \cap r.head = {},
             Accepts(m.condition, r.body, r.head), r = Counts(t, r.body, r.head)
      PROVE  \E p \in accepted : r = Counts(t, p[1], p[2])
  <2>1. <<r.body, r.head>> \in accepted
    BY <1>4
  <2>2. QED  BY <1>4, <2>1
<1> HIDE DEF accepted
<1>5. QED  BY <1>1, <1>3, <1>4 DEF IsRule

LEMMA JobFacts ==
  ASSUME JobInv
  PROVE  /\ job.rows \in Seq(PastRow) /\ job.pasts \in Seq(Minerule) /\ job.new \in Minerule
         /\ 1 \in DOMAIN job.pasts
         /\ job.formula \in Seq(Seq(Nat))
<1>1. job \in Job
  BY JobsAssumption DEF JobInv
<1>2. /\ job.rows \in Seq(PastRow) /\ job.pasts \in Seq(Minerule) /\ job.new \in Minerule
      /\ job.formula \in Seq(Seq(Nat))
  BY <1>1 DEF Job
<1>3. job.pasts # <<>>
  BY DEF JobInv, Answerable
<1>4. QED  BY <1>2, <1>3

(* Nothing but the job decides what follows.                               *)
LEMMA SameJob ==
  ASSUME job' = job
  PROVE  /\ Algorithm' = Algorithm /\ InStep' = InStep /\ HeadsFromOne' = HeadsFromOne
         /\ JobInv => JobInv'
         /\ \A m, n : Frequent(m, n)' = Frequent(m, n)
<1>1. Algorithm' = Algorithm
  BY DEF Algorithm
<1>2. QueryFails' = QueryFails
  BY DEF QueryFails
<1>3. HeadsInStep' = HeadsInStep
  BY DEF HeadsInStep
<1>4. BothInStep' = BothInStep
  BY <1>2 DEF BothInStep
<1>5. InStep' = InStep
  BY <1>1, <1>3, <1>4 DEF InStep
<1>6. HeadsFromOne' = HeadsFromOne
  BY <1>1 DEF HeadsFromOne
<1>7. JobInv => JobInv'
  BY DEF JobInv
<1>8. \A m, n : Frequent(m, n)' = Frequent(m, n)
  BY DEF Frequent
<1>9. QED  BY <1>1, <1>5, <1>6, <1>7, <1>8

(* The rules of the past minerule k.                                       *)
PastRule(k, r) == IsRule(r, job.pasts[k], AsPast(job.rows))

LEMMA SamePastRules ==
  ASSUME job' = job
  PROVE  \A k, r : PastRule(k, r)' = PastRule(k, r)
BY DEF PastRule, IsRule, Frequent

LEMMA JobStep ==
  ASSUME [Next]_vars
  PROVE  job' = job
BY DEF vars, Next, Choose, FilterRule, FilterEnd, LoadConjunct, UniteConjunct, Combining,
       SaveCombination, Insert, StartReading, ReadConstructive, EndReading, ReadDestructive,
       ExtractRules

-----------------------------------------------------------------------------
(* The algorithm chosen, and what it starts from.                          *)

StartInv ==
  /\ rules = NoRules /\ cursor = [q \in Queries |-> 1]
  /\ chunk.gb = NoGroup /\ chunk.gh = NoGroup /\ chunk.newBody /\ chunk.newHead
  /\ chunk.b = {} /\ chunk.h = {} /\ chunk.bOut = {} /\ chunk.hOut = {}
  /\ bodySupp = Empty /\ ruleSupp = Empty
  /\ disjunct = 1 /\ conjunct = 1 /\ curConj = NoRules /\ union = NoRules

PhasesOf(a) ==
  CASE a = "Filter" -> {"filter", "done"}
    [] a = "Combinator" -> {"combine", "done"}
    [] a = "None" -> {"extraction"}
    [] a = "Constructive" -> {"load", "read", "write", "done"}
    [] OTHER -> {"load", "read", "write", "done", "failed", "crashed"}

(* The past results are the answers of the past minerules.                 *)
ResultsInv ==
  /\ DOMAIN results = DOMAIN job.pasts
  /\ \A k \in DOMAIN job.pasts : \A r :
       r \in results[k] <=> PastRule(k, r)

ChoiceInv ==
  /\ phase = "choose" => StartInv
  /\ phase # "choose" =>
       /\ algorithm = Algorithm /\ phase \in PhasesOf(algorithm)
       /\ ResultsInv /\ left \subseteq results[1]

LEMMA AlgorithmType == Algorithm \in {"None", "Filter", "Combinator", "Constructive", "Destructive"}
BY DEF Algorithm

LEMMA ChooseKeeps ==
  ASSUME JobInv, Choose
  PROVE  ChoiceInv'
<1>1. /\ job' = job /\ algorithm' = Algorithm /\ left' = results'[1]
      /\ results' = [k \in DOMAIN job.pasts |-> Answer(job.pasts[k], AsPast(job.rows))]
  BY DEF Choose
<1>2. phase' \in PhasesOf(Algorithm) /\ phase' # "choose"
  BY AlgorithmType DEF Choose, PhasesOf
<1>3. Algorithm' = Algorithm /\ \A k, r : PastRule(k, r)' = PastRule(k, r)
  BY <1>1, SameJob, SamePastRules
<1>4. ResultsInv'
  <2>1. DOMAIN results' = DOMAIN job.pasts
    BY <1>1
  <2>2. ASSUME NEW k \in DOMAIN job.pasts, NEW r
        PROVE  r \in results'[k] <=> PastRule(k, r)
    BY <1>1, AnswerIsRules DEF PastRule
  <2>3. QED  BY <1>1, <1>3, <2>1, <2>2 DEF ResultsInv
<1>5. QED  BY <1>1, <1>2, <1>3, <1>4 DEF ChoiceInv

LEMMA ResultsKept ==
  ASSUME ResultsInv, job' = job, results' = results
  PROVE  ResultsInv'
<1>1. \A k, r : PastRule(k, r)' = PastRule(k, r)
  BY SamePastRules
<1>2. QED  BY <1>1 DEF ResultsInv

LEMMA ChoiceStep ==
  ASSUME JobInv, ChoiceInv, [Next]_vars
  PROVE  ChoiceInv'
<1>1. CASE Choose
  BY <1>1, ChooseKeeps
<1>2. CASE ~Choose
  <2>1. job' = job
    BY JobStep
  <2>2. Algorithm' = Algorithm
    BY <2>1, SameJob
  <2>3. CASE UNCHANGED vars
    <3>1. phase' = phase /\ algorithm' = algorithm /\ results' = results /\ left' = left
          /\ (phase = "choose" => StartInv')
      BY <2>3 DEF vars, reading, tree, combination, ChoiceInv, StartInv
    <3>2. ResultsInv => ResultsInv'
      BY <2>1, <3>1, ResultsKept
    <3>3. QED  BY <2>2, <3>1, <3>2 DEF ChoiceInv
  <2>4. CASE Next
    <3>1. /\ phase # "choose" /\ algorithm' = algorithm /\ results' = results
          /\ left' \subseteq left
      BY <1>2, <2>4 DEF Next, FilterRule, FilterEnd, LoadConjunct, UniteConjunct, Combining,
         SaveCombination, Insert, StartReading, ReadConstructive, EndReading, ReadDestructive,
         ExtractRules
    <3>2. algorithm = Algorithm /\ phase \in PhasesOf(algorithm) /\ ResultsInv /\ left \subseteq results[1]
      BY <3>1 DEF ChoiceInv
    <3>3. phase' \in PhasesOf(algorithm) /\ phase' # "choose"
      BY <1>2, <2>4, <3>2, AlgorithmType DEF Next, FilterRule, FilterEnd, LoadConjunct, UniteConjunct, Combining,
         SaveCombination, Insert, StartReading, ReadConstructive, EndReading, ReadDestructive,
         ExtractRules, PhasesOf
    <3>4. ResultsInv'
      BY <2>1, <3>1, <3>2, ResultsKept
    <3>5. QED  BY <2>2, <3>1, <3>2, <3>3, <3>4 DEF ChoiceInv
  <2>5. QED  BY <2>3, <2>4
<1>3. QED  BY <1>1, <1>2

-----------------------------------------------------------------------------
(* The filter, and the combination of several results.                     *)

FilterTakes(r) ==
  /\ r \in results[1] /\ Confident(job.pasts[1].conf, r)
  /\ CheckInValidRules(r) /\ Within(r, job.new)

FilterInv ==
  /\ phase = "filter" => \A r : r \in rules <=> FilterTakes(r) /\ r \notin left
  /\ phase = "done" /\ algorithm = "Filter" => \A r : r \in rules <=> FilterTakes(r)

LEMMA SameFilter ==
  ASSUME job' = job, results' = results
  PROVE  \A r : FilterTakes(r)' = FilterTakes(r)
BY DEF FilterTakes, CheckInValidRules

LEMMA FilterStep ==
  ASSUME JobInv, ChoiceInv, FilterInv, [Next]_vars
  PROVE  FilterInv'
<1>1. job' = job
  BY JobStep
<1>2. CASE Choose
  <2>1. /\ results' = [k \in DOMAIN job.pasts |-> Answer(job.pasts[k], AsPast(job.rows))]
        /\ left' = results'[1] /\ rules' = NoRules /\ phase' # "done"
    BY <1>2 DEF Choose, ChoiceInv, StartInv
  <2>2. \A r : FilterTakes(r)' => r \in left'
    BY <2>1 DEF FilterTakes
  <2>3. \A r : r \notin rules'
    BY <2>1 DEF NoRules
  <2>4. QED  BY <2>1, <2>2, <2>3 DEF FilterInv
<1>3. CASE FilterRule
  <2> DEFINE s == NextRule
  <2>1. s \in left
    BY <1>3 DEF FilterRule, NextRule, NoRules
  <2>2. \A r : FilterTakes(r)' = FilterTakes(r)
    BY <1>1, <1>3, SameFilter DEF FilterRule
  <2>3. phase = "filter" /\ phase' = "filter" /\ left \subseteq results[1]
    BY <1>3 DEF FilterRule, ChoiceInv
  <2>4. left' = left \ {s}
    BY <1>3 DEF FilterRule
  <2>5. rules' = IF FilterTakes(s) THEN rules \cup {s} ELSE rules
    BY <1>3, <2>1, <2>3 DEF FilterRule, FilterTakes
  <2> HIDE DEF s
  <2>6. QED  BY <2>1, <2>2, <2>3, <2>4, <2>5 DEF FilterInv
<1>4. CASE FilterEnd
  <2>1. \A r : FilterTakes(r)' = FilterTakes(r)
    BY <1>1, <1>4, SameFilter DEF FilterEnd
  <2>2. QED  BY <1>4, <2>1 DEF FilterEnd, FilterInv, NoRules
<1>5. CASE UNCHANGED vars
  <2>1. \A r : FilterTakes(r)' = FilterTakes(r)
    BY <1>1, <1>5, SameFilter DEF vars
  <2>2. QED  BY <1>5, <2>1 DEF vars, FilterInv
<1>6. CASE ~Choose /\ ~FilterRule /\ ~FilterEnd /\ Next
  <2>1. phase' # "filter" /\ ~(phase' = "done" /\ algorithm' = "Filter")
    BY <1>6 DEF Next, LoadConjunct, UniteConjunct, Combining, ChoiceInv, PhasesOf,
         SaveCombination, Insert, StartReading, ReadConstructive, EndReading, ReadDestructive,
         ExtractRules
  <2>2. QED  BY <2>1 DEF FilterInv
<1>7. QED  BY <1>2, <1>3, <1>4, <1>5, <1>6

(* The rules of the first n conjuncts of disjunct d, and those of the      *)
(* disjuncts up to d.  An empty conjunction loads nothing.                 *)
InConj(d, n, r) == \A c \in 1 .. n : r \in Load(job.formula[d][c])
InUnion(d, r) == \E e \in 1 .. d : job.formula[e] # <<>> /\ InConj(e, Len(job.formula[e]), r)

CurConjInv == \A r : r \in curConj <=> conjunct > 1 /\ InConj(disjunct, conjunct - 1, r)
UnionInv == \A r : r \in union <=> InUnion(disjunct - 1, r)
CombinedInv == \A r : r \in rules <=> InUnion(Len(job.formula), r) /\ Within(r, job.new)

CombineInv ==
  /\ phase = "combine" =>
       /\ disjunct \in 1 .. Len(job.formula) + 1 /\ conjunct \in Nat \ {0}
       /\ disjunct <= Len(job.formula) => conjunct <= Len(job.formula[disjunct]) + 1
       /\ CurConjInv /\ UnionInv
  /\ phase = "done" /\ algorithm = "Combinator" => CombinedInv

(* Rules of the past results with one body and one head are one rule.      *)
LEMMA OneRule ==
  ASSUME ResultsInv, NEW i \in DOMAIN job.pasts, NEW j \in DOMAIN job.pasts,
         NEW r \in Load(i), NEW s \in Load(j), SameRule(r, s)
  PROVE  r = s
<1>1. PastRule(i, r) /\ PastRule(j, s)
  BY DEF ResultsInv, Load
<1>2. r = Counts(AsPast(job.rows), r.body, r.head) /\ s = Counts(AsPast(job.rows), s.body, s.head)
  BY <1>1 DEF PastRule, IsRule
<1>3. QED  BY <1>2 DEF SameRule

LEMMA PastsOfFormula ==
  ASSUME JobInv, NEW d \in 1 .. Len(job.formula), NEW c \in 1 .. Len(job.formula[d])
  PROVE  job.formula[d][c] \in DOMAIN job.pasts
<1>1. job.formula \in Seq(Seq(Nat))
  BY JobFacts
<1>2. d \in DOMAIN job.formula /\ job.formula[d] \in Seq(Nat)
  BY <1>1
<1>3. c \in DOMAIN job.formula[d]
  BY <1>2
<1>4. QED  BY <1>2, <1>3 DEF JobInv, Answerable

LEMMA ConjunctLoaded ==
  ASSUME JobInv, ChoiceInv, CombineInv, LoadConjunct
  PROVE  CombineInv'
<1> DEFINE f == job.formula[disjunct]
           i == f[conjunct]
<1>1. /\ phase = "combine" /\ phase' = "combine" /\ disjunct \in 1 .. Len(job.formula)
      /\ conjunct \in Nat \ {0} /\ conjunct <= Len(f) /\ conjunct' = conjunct + 1
      /\ disjunct' = disjunct /\ union' = union /\ job' = job /\ results' = results
      /\ curConj' = IF conjunct = 1 THEN Load(f[1]) ELSE Intersect(curConj, Load(i))
  BY DEF LoadConjunct, Combining, CombineInv
<1>2. job.formula \in Seq(Seq(Nat)) /\ f \in Seq(Nat) /\ Len(f) \in Nat
  <2>1. job.formula \in Seq(Seq(Nat))
    BY JobFacts
  <2>2. QED  BY <1>1, <2>1
<1>3. /\ \A r : r \in curConj <=> conjunct > 1 /\ InConj(disjunct, conjunct - 1, r)
      /\ \A r : r \in union <=> InUnion(disjunct - 1, r)
  BY <1>1 DEF CombineInv, CurConjInv, UnionInv
<1>4. ResultsInv
  BY <1>1 DEF ChoiceInv
<1>5. \A c \in 1 .. Len(f) : f[c] \in DOMAIN job.pasts
  BY <1>1, PastsOfFormula
<1>6. \A r : InConj(disjunct, conjunct, r) <=> InConj(disjunct, conjunct - 1, r) /\ r \in Load(i)
  <2>1. \A c \in 1 .. conjunct : c \in 1 .. conjunct - 1 \/ c = conjunct
    BY <1>1
  <2>2. conjunct \in 1 .. conjunct /\ \A c \in 1 .. conjunct - 1 : c \in 1 .. conjunct
    BY <1>1
  <2>3. QED  BY <2>1, <2>2 DEF InConj
<1>7. ASSUME NEW r
      PROVE  r \in curConj' <=> InConj(disjunct, conjunct, r)
  <2>1. CASE conjunct = 1
    <3>1. InConj(disjunct, 0, r)
      BY DEF InConj
    <3>2. QED  BY <1>1, <1>6, <2>1, <3>1
  <2>2. CASE conjunct # 1
    <3>1. conjunct > 1 /\ 1 \in 1 .. conjunct - 1 /\ 1 \in 1 .. Len(f) /\ conjunct \in 1 .. Len(f)
      BY <1>1, <1>2, <2>2
    <3>2. curConj' = {s \in curConj : \E t \in Load(i) : SameRule(s, t)}
      BY <1>1, <2>2 DEF Intersect
    <3>3. r \in curConj <=> InConj(disjunct, conjunct - 1, r)
      BY <1>3, <3>1
    <3>4. ASSUME r \in curConj, NEW t \in Load(i), SameRule(r, t)  PROVE r = t
      <4>1. r \in Load(f[1])
        BY <3>1, <3>3, <3>4 DEF InConj
      <4>2. f[1] \in DOMAIN job.pasts /\ i \in DOMAIN job.pasts
        BY <1>5, <3>1
      <4> HIDE DEF f, i
      <4>3. QED  BY <1>4, <3>4, <4>1, <4>2, OneRule
    <3>5. SameRule(r, r)
      BY DEF SameRule
    <3>6. QED  BY <1>6, <3>2, <3>3, <3>4, <3>5
  <2>3. QED  BY <2>1, <2>2
<1>9. CurConjInv'
  <2>1. conjunct' > 1 /\ conjunct' - 1 = conjunct
    BY <1>1
  <2>2. \A r : r \in curConj' <=> InConj(disjunct, conjunct, r)
    BY <1>7
  <2>3. QED  BY <1>1, <2>1, <2>2 DEF CurConjInv, InConj, Load
<1>10. UnionInv'
  BY <1>1, <1>3 DEF UnionInv, InUnion, InConj, Load
<1>11. /\ disjunct' \in 1 .. Len(job'.formula) + 1 /\ conjunct' \in Nat \ {0}
       /\ conjunct' <= Len(job'.formula[disjunct']) + 1
  BY <1>1, <1>2
<1>12. QED  BY <1>1, <1>9, <1>10, <1>11 DEF CombineInv

LEMMA ConjunctionUnited ==
  ASSUME JobInv, ChoiceInv, CombineInv, UniteConjunct
  PROVE  CombineInv'
<1> DEFINE f == job.formula[disjunct]
<1>1. /\ phase = "combine" /\ phase' = "combine" /\ disjunct \in 1 .. Len(job.formula)
      /\ conjunct \in Nat \ {0} /\ conjunct > Len(f) /\ conjunct <= Len(f) + 1
      /\ conjunct' = 1 /\ disjunct' = disjunct + 1 /\ curConj' = {}
      /\ union' = Unite(union, curConj) /\ job' = job /\ results' = results
  BY DEF UniteConjunct, Combining, CombineInv, NoRules
<1>2. job.formula \in Seq(Seq(Nat)) /\ Len(job.formula) \in Nat /\ f \in Seq(Nat) /\ Len(f) \in Nat
  <2>1. job.formula \in Seq(Seq(Nat))
    BY JobFacts
  <2>2. QED  BY <1>1, <2>1
<1>3. /\ \A r : r \in curConj <=> conjunct > 1 /\ InConj(disjunct, conjunct - 1, r)
      /\ \A r : r \in union <=> InUnion(disjunct - 1, r)
  BY <1>1 DEF CombineInv, CurConjInv, UnionInv
<1>4. ResultsInv
  BY <1>1 DEF ChoiceInv
<1>5. conjunct - 1 = Len(f) /\ (conjunct > 1 <=> f # <<>>)
  <2>1. Len(f) = 0 <=> f = <<>>
    BY <1>2, EmptySeq
  <2> HIDE DEF f
  <2>2. QED  BY <1>1, <1>2, <2>1
<1>6. \A r : r \in curConj <=> f # <<>> /\ InConj(disjunct, Len(f), r)
  BY <1>3, <1>5
<1>7. \A d \in 1 .. Len(job.formula) : \A r :
        job.formula[d] # <<>> /\ InConj(d, Len(job.formula[d]), r)
          => \E k \in DOMAIN job.pasts : r \in Load(k)
  <2> SUFFICES ASSUME NEW d \in 1 .. Len(job.formula), NEW r,
                      job.formula[d] # <<>>, InConj(d, Len(job.formula[d]), r)
               PROVE  \E k \in DOMAIN job.pasts : r \in Load(k)
    OBVIOUS
  <2>1. job.formula[d] \in Seq(Nat) /\ Len(job.formula[d]) \in Nat \ {0}
    BY <1>2
  <2>2. 1 \in 1 .. Len(job.formula[d])
    BY <2>1
  <2>3. QED  BY <2>2, PastsOfFormula DEF InConj
<1>8. \A r \in union \cup curConj : \E k \in DOMAIN job.pasts : r \in Load(k)
  <2>1. \A r \in curConj : \E k \in DOMAIN job.pasts : r \in Load(k)
    BY <1>1, <1>6, <1>7
  <2>2. \A e \in 1 .. disjunct - 1 : e \in 1 .. Len(job.formula)
    BY <1>1, <1>2
  <2>3. \A r \in union : \E k \in DOMAIN job.pasts : r \in Load(k)
    BY <1>3, <1>7, <2>2 DEF InUnion
  <2>4. QED  BY <2>1, <2>3
<1>9. union' = union \cup curConj
  <2>1. \A r \in union, s \in curConj : SameRule(r, s) => r = s
    BY <1>4, <1>8, OneRule
  <2>2. QED  BY <1>1, <2>1 DEF Unite
<1>10. \A r : InUnion(disjunct, r) <=> InUnion(disjunct - 1, r) \/ (f # <<>> /\ InConj(disjunct, Len(f), r))
  <2>1. \A e \in 1 .. disjunct : e \in 1 .. disjunct - 1 \/ e = disjunct
    BY <1>1
  <2>2. disjunct \in 1 .. disjunct /\ \A e \in 1 .. disjunct - 1 : e \in 1 .. disjunct
    BY <1>1
  <2>3. QED  BY <2>1, <2>2 DEF InUnion
<1>11. \A r : r \in union' <=> InUnion(disjunct, r)
  BY <1>3, <1>6, <1>9, <1>10
<1>12. UnionInv' /\ CurConjInv'
  <2>1. disjunct' - 1 = disjunct
    BY <1>1
  <2>2. QED  BY <1>1, <1>11, <2>1 DEF UnionInv, CurConjInv, InUnion, InConj, Load
<1>13. /\ disjunct' \in 1 .. Len(job'.formula) + 1 /\ conjunct' \in Nat \ {0}
       /\ disjunct' <= Len(job'.formula) => conjunct' <= Len(job'.formula[disjunct']) + 1
  <2>1. ASSUME disjunct' <= Len(job'.formula)
        PROVE  Len(job'.formula[disjunct']) \in Nat
    <3>1. disjunct' \in 1 .. Len(job'.formula) /\ job'.formula \in Seq(Seq(Nat))
      BY <1>1, <1>2, <2>1
    <3>2. job'.formula[disjunct'] \in Seq(Nat)
      BY <3>1
    <3>3. QED  BY <3>2
  <2>2. disjunct' <= Len(job'.formula) => conjunct' <= Len(job'.formula[disjunct']) + 1
    BY <1>1, <2>1
  <2>3. disjunct' \in 1 .. Len(job'.formula) + 1 /\ conjunct' \in Nat \ {0}
    BY <1>1, <1>2
  <2>4. QED  BY <2>2, <2>3
<1>14. QED  BY <1>1, <1>12, <1>13 DEF CombineInv

LEMMA CombineStep ==
  ASSUME JobInv, ChoiceInv, CombineInv, [Next]_vars
  PROVE  CombineInv'
<1>1. job' = job
  BY JobStep
<1>2. CASE Choose
  <2>1. /\ disjunct' = 1 /\ conjunct' = 1 /\ curConj' = {} /\ union' = {} /\ phase' # "done"
    BY <1>2 DEF Choose, ChoiceInv, StartInv, combination, NoRules
  <2>2. UnionInv' /\ CurConjInv'
    BY <2>1 DEF UnionInv, CurConjInv, InUnion
  <2>3. /\ disjunct' \in 1 .. Len(job'.formula) + 1
        /\ disjunct' <= Len(job'.formula) => conjunct' <= Len(job'.formula[disjunct']) + 1
    <3>1. job'.formula \in Seq(Seq(Nat)) /\ Len(job'.formula) \in Nat
      BY <1>1, JobFacts
    <3>2. 1 <= Len(job'.formula) => job'.formula[1] \in Seq(Nat)
      BY <3>1
    <3>3. 1 <= Len(job'.formula) => Len(job'.formula[1]) \in Nat
      BY <3>2
    <3>4. QED  BY <2>1, <3>1, <3>3
  <2>4. QED  BY <2>1, <2>2, <2>3 DEF CombineInv
<1>3. CASE LoadConjunct
  BY <1>3, ConjunctLoaded
<1>4. CASE UniteConjunct
  BY <1>4, ConjunctionUnited
<1>5. CASE SaveCombination
  <2>1. /\ phase = "combine" /\ phase' = "done" /\ disjunct > Len(job.formula) /\ results' = results
        /\ rules' = {r \in union : Within(r, job.new)}
    BY <1>5 DEF SaveCombination
  <2>2. disjunct - 1 = Len(job.formula)
    <3>1. Len(job.formula) \in Nat
      BY JobFacts
    <3>2. QED  BY <2>1, <3>1 DEF CombineInv
  <2>3. \A r : r \in union <=> InUnion(Len(job.formula), r)
    BY <2>1, <2>2 DEF CombineInv, UnionInv
  <2>4. \A r : r \in rules' <=> InUnion(Len(job.formula), r) /\ Within(r, job.new)
    BY <2>1, <2>3
  <2>5. CombinedInv'
    BY <1>1, <2>1, <2>4 DEF CombinedInv, InUnion, InConj, Load
  <2>6. QED  BY <2>1, <2>5 DEF CombineInv
<1>6. CASE UNCHANGED vars
  <2>1. phase' = phase /\ algorithm' = algorithm /\ disjunct' = disjunct /\ conjunct' = conjunct
        /\ curConj' = curConj /\ union' = union /\ rules' = rules /\ results' = results
    BY <1>6 DEF vars, combination
  <2>2. /\ CurConjInv => CurConjInv'
        /\ UnionInv => UnionInv'
        /\ CombinedInv => CombinedInv'
    BY <1>1, <2>1 DEF CurConjInv, UnionInv, CombinedInv, InUnion, InConj, Load
  <2>3. QED  BY <1>1, <2>1, <2>2 DEF CombineInv
<1>7. CASE ~Choose /\ ~LoadConjunct /\ ~UniteConjunct /\ ~SaveCombination /\ Next
  <2>1. phase' # "combine" /\ ~(phase' = "done" /\ algorithm' = "Combinator")
    BY <1>7 DEF Next, FilterRule, FilterEnd, ChoiceInv, PhasesOf, Insert, StartReading,
         ReadConstructive, EndReading, ReadDestructive, ExtractRules
  <2>2. QED  BY <2>1 DEF CombineInv
<1>8. QED  BY <1>2, <1>3, <1>4, <1>5, <1>6, <1>7

-----------------------------------------------------------------------------
(* The queries of the trees.                                               *)

LEMMA AsPastRows ==
  ASSUME NEW t \in Seq(PastRow)
  PROVE  /\ AsPast(t) \in Seq(PastRow) /\ DOMAIN AsPast(t) = DOMAIN t
         /\ \A k \in DOMAIN t :
              /\ AsPast(t)[k].gid = t[k].gid /\ AsPast(t)[k].item = t[k].item
              /\ AsPast(t)[k].body = t[k].pastBody /\ AsPast(t)[k].head = t[k].pastHead
<1>1. DOMAIN t = 1 .. Len(t) /\ Len(t) \in Nat /\ \A k \in DOMAIN t : t[k] \in PastRow
  OBVIOUS
<1>2. AsPast(t) = [k \in DOMAIN t |-> [t[k] EXCEPT !.body = t[k].pastBody, !.head = t[k].pastHead]]
  BY DEF AsPast
<1>3. ASSUME NEW k \in DOMAIN t
      PROVE  /\ AsPast(t)[k] \in PastRow
             /\ AsPast(t)[k].gid = t[k].gid /\ AsPast(t)[k].item = t[k].item
             /\ AsPast(t)[k].body = t[k].pastBody /\ AsPast(t)[k].head = t[k].pastHead
  <2>1. t[k] \in PastRow
    BY <1>1
  <2>2. QED  BY <1>2, <2>1 DEF PastRow
<1>4. AsPast(t) \in [1 .. Len(t) -> PastRow]
  BY <1>1, <1>2, <1>3
<1>5. AsPast(t) \in Seq(PastRow)
  BY <1>1, <1>4
<1>6. QED  BY <1>2, <1>3, <1>5

LEMMA TableOfPastRows ==
  ASSUME NEW t \in Seq(PastRow)
  PROVE  Table(t) /\ \A k \in DOMAIN t : t[k] \in PastRow
<1>1. Len(t) \in Nat /\ DOMAIN t = 1 .. Len(t) /\ \A k \in 1 .. Len(t) : t[k] \in PastRow
  OBVIOUS
<1>2. \A k \in DOMAIN t : t[k].gid \in Nat
  BY <1>1, SourceAssumption DEF PastRow
<1>3. t \in Seq({t[k] : k \in DOMAIN t})
  BY <1>1
<1>4. QED  BY <1>1, <1>2, <1>3 DEF Table

(* q returns the given rows of table t, group by group.                    *)
Returns(q, t, rows) ==
  /\ Result(q) /\ ByGid(q)
  /\ \A i \in 1 .. Len(q) : \E k \in rows : q[i] = t[k]
  /\ \A k \in rows : \E i \in 1 .. Len(q) : q[i] = t[k]

LEMMA ByGroupReturns ==
  ASSUME NEW t \in Seq(PastRow), NEW rows \in SUBSET DOMAIN t
  PROVE  Returns(ByGroup(t, rows), t, rows)
<1> DEFINE q == Ordered(t, rows, TRUE)
<1>1. Table(t) /\ TRUE \in BOOLEAN
  BY TableOfPastRows
<1>2. /\ q \in Seq({t[k] : k \in rows})
      /\ \A k \in rows : \E i \in 1 .. Len(q) : q[i] = t[k]
      /\ TRUE \/ ByGid(t) => ByGid(q)
  BY <1>1, OrderedProperties
<1>3. Result(q)
  BY <1>1, OrderedGroups
<1> HIDE DEF q
<1>4. ByGid(q)
  BY <1>2
<1>5. \A i \in 1 .. Len(q) : \E k \in rows : q[i] = t[k]
  BY <1>2
<1>6. QED  BY <1>2, <1>3, <1>4, <1>5 DEF Returns, ByGroup, q

(* The items a loop collects of a group.                                   *)
ItemsAt(t, rows, g) == {t[k].item : k \in {j \in rows : t[j].gid = g}}

LEMMA GroupItems ==
  ASSUME NEW q, NEW t, NEW rows, Returns(q, t, rows), NEW g, NEW at,
         Loaded(q, g, at) = GroupRows(q, g)
  PROVE  ItemsIn(q, g, at) = ItemsAt(t, rows, g)
<1>1. GroupRows(q, g) = {t[k] : k \in {j \in rows : t[j].gid = g}}
  BY DEF Returns, GroupRows
<1>2. ItemsIn(q, g, at) = {r.item : r \in GroupRows(q, g)}
  BY DEF ItemsIn
<1>3. QED  BY <1>1, <1>2 DEF ItemsAt

-----------------------------------------------------------------------------
(* A cursor that keeps level with the groups read: the rows before it are  *)
(* of these groups, and those to come are of others.                       *)

Level(q, at, G) ==
  /\ at \in 1 .. Len(q) + 1
  /\ \A i \in 1 .. at - 1 : q[i].gid \in G
  /\ \A i \in at .. Len(q) : q[i].gid \notin G

Follows(q, b) == \A i \in 1 .. Len(q) : \E j \in 1 .. Len(b) : q[i].gid = b[j].gid

LEMMA LevelLoads ==
  ASSUME NEW q, Result(q), ByGid(q), NEW at, NEW G, Level(q, at, G),
         NEW gid \in Nat, gid \notin G, \A i \in at .. Len(q) : q[i].gid >= gid
  PROVE  /\ Level(q, LoadEnd(q, gid, at), G \cup {gid})
         /\ Loaded(q, gid, at) = GroupRows(q, gid)
<1> DEFINE e == LoadEnd(q, gid, at)
<1>1. at \in 1 .. Len(q) + 1 /\ Len(q) \in Nat /\ \A i \in 1 .. Len(q) : q[i].gid \in Nat
  BY DEF Level, Result
<1>2. /\ e \in at .. Len(q) + 1
      /\ \A i \in at .. e - 1 : q[i].gid = gid
      /\ e <= Len(q) => q[e].gid # gid
  BY <1>1, LoadEndProperties
<1>3. Loaded(q, gid, at) = {q[i] : i \in at .. e - 1}
  BY DEF Loaded
<1> HIDE DEF e
<1>4. ASSUME NEW i \in e .. Len(q)
      PROVE  q[i].gid > gid
  <2>1. e \in at .. Len(q) /\ e \in 1 .. Len(q) /\ i \in 1 .. Len(q) /\ e <= i
    BY <1>1, <1>2
  <2>2. q[e].gid >= gid /\ q[e].gid # gid
    BY <1>2, <2>1
  <2>3. q[e].gid <= q[i].gid
    BY <1>1, <2>1 DEF ByGid
  <2>4. q[e].gid \in Nat /\ q[i].gid \in Nat
    BY <1>1, <2>1
  <2>5. QED  BY <2>2, <2>3, <2>4
<1>5. Level(q, e, G \cup {gid})
  <2>1. e \in 1 .. Len(q) + 1
    BY <1>1, <1>2
  <2>2. ASSUME NEW i \in 1 .. e - 1  PROVE q[i].gid \in G \cup {gid}
    <3>1. i \in 1 .. at - 1 \/ i \in at .. e - 1
      BY <1>1, <1>2
    <3>2. QED  BY <1>2, <3>1 DEF Level
  <2>3. ASSUME NEW i \in e .. Len(q)  PROVE q[i].gid \notin G \cup {gid}
    <3>1. i \in at .. Len(q) /\ i \in 1 .. Len(q)
      BY <1>1, <1>2
    <3>2. q[i].gid \in Nat /\ q[i].gid > gid
      BY <1>1, <1>4, <3>1
    <3>3. q[i].gid # gid
      BY <3>2
    <3>4. q[i].gid \notin G
      BY <3>1 DEF Level
    <3>5. QED  BY <3>3, <3>4
  <2>4. QED  BY <2>1, <2>2, <2>3 DEF Level
<1>6. at .. e - 1 = {k \in 1 .. Len(q) : q[k].gid = gid}
  <2>1. ASSUME NEW k \in 1 .. Len(q), q[k].gid = gid  PROVE k \in at .. e - 1
    <3>1. ~(k \in 1 .. at - 1)
      BY <2>1 DEF Level
    <3>2. ~(k \in e .. Len(q))
      BY <1>4, <2>1
    <3>3. QED  BY <1>1, <1>2, <3>1, <3>2
  <2>2. \A k \in at .. e - 1 : k \in 1 .. Len(q) /\ q[k].gid = gid
    BY <1>1, <1>2
  <2>3. QED  BY <2>1, <2>2
<1>7. QED  BY <1>3, <1>5, <1>6 DEF GroupRows, e

(* A query whose groups are among those of b is read level with b.         *)
LEMMA LevelWith ==
  ASSUME NEW b, Result(b), ByGid(b), NEW first, BetweenGroups(b, first), ~AfterLast(b, first),
         NEW gid, gid = b[first].gid,
         NEW q, Result(q), ByGid(q), NEW at, Follows(q, b), Level(q, at, GidsBefore(b, first))
  PROVE  /\ Level(q, LoadEnd(q, gid, at), GidsBefore(b, LoadEnd(b, gid, first)))
         /\ Loaded(q, gid, at) = GroupRows(q, gid)
         /\ \A i \in at .. Len(q) : q[i].gid >= gid
<1>1. /\ gid \in Nat /\ \A g \in GidsBefore(b, first) : g \in Nat /\ g < gid
      /\ GidsBefore(b, LoadEnd(b, gid, first)) = GidsBefore(b, first) \cup {gid}
  BY NextGroup
<1>2. first \in 1 .. Len(b) /\ Len(b) \in Nat /\ \A j \in 1 .. Len(b) : b[j].gid \in Nat
  BY DEF BetweenGroups, AfterLast, Result
<1>3. ASSUME NEW i \in at .. Len(q)  PROVE q[i].gid >= gid
  <2>1. i \in 1 .. Len(q)
    BY DEF Level, Result
  <2>2. PICK j \in 1 .. Len(b) : q[i].gid = b[j].gid
    BY <2>1 DEF Follows
  <2>3. ~(j \in 1 .. first - 1)
    BY <2>2 DEF Level, GidsBefore
  <2>4. first <= j
    BY <1>2, <2>3
  <2>5. b[first].gid <= b[j].gid
    BY <1>2, <2>4 DEF ByGid
  <2>6. QED  BY <1>2, <2>2, <2>5
<1>4. gid \notin GidsBefore(b, first)
  BY <1>1
<1> DEFINE G == GidsBefore(b, first)
<1> HIDE DEF G
<1>5. Level(q, at, G) /\ gid \notin G /\ gid \in Nat
  BY <1>1, <1>4 DEF G
<1>6. Level(q, LoadEnd(q, gid, at), G \cup {gid}) /\ Loaded(q, gid, at) = GroupRows(q, gid)
  BY <1>3, <1>5, LevelLoads
<1>7. QED  BY <1>1, <1>3, <1>6 DEF G

-----------------------------------------------------------------------------
(* The trees read their groups in step.                                    *)

Treeing == phase \in {"load", "read", "write"}
Destructs == algorithm = "Destructive"
Past == AsPast(job.rows)
TreeTable == IF Destructs THEN Past ELSE job.rows
BodiesLost == BodyRows(Past) \cap NotQuery2(job.rows, "body")
HeadsLost == HeadRows(Past) \cap NotQuery2(job.rows, "head")

QueryInv ==
  Treeing =>
    /\ algorithm \in {"Constructive", "Destructive"}
    /\ query["b"] = ByGroup(TreeTable, BodyRows(TreeTable))
    /\ query["h"] = ByGroup(TreeTable, HeadRows(TreeTable))
    /\ Destructs => /\ query["bOut"] = ByGroup(Past, BodiesLost)
                    /\ query["hOut"] = ByGroup(Past, HeadsLost)

LEMMA QueryStep ==
  ASSUME JobInv, ChoiceInv, QueryInv, [Next]_vars
  PROVE  QueryInv'
<1>1. job' = job
  BY JobStep
<1>2. \A t, side : NotQuery2(t, side)' = NotQuery2(t, side)
  BY <1>1 DEF NotQuery2
<1>3. Past' = Past /\ BodiesLost' = BodiesLost /\ HeadsLost' = HeadsLost
  BY <1>1 DEF Past, BodiesLost, HeadsLost, NotQuery2
<1>4. CASE Choose
  <2>1. CASE Treeing'
    <3>1. Algorithm \in {"Constructive", "Destructive"} /\ PrepareTree(Algorithm) /\ algorithm' = Algorithm
      BY <1>4, <2>1, AlgorithmType DEF Choose, Treeing
    <3>2. /\ TreeTable' = IF Algorithm = "Constructive" THEN job.rows ELSE AsPast(job.rows)
          /\ Destructs' <=> Algorithm # "Constructive"
      BY <1>1, <3>1 DEF TreeTable, Past, Destructs
    <3>3. /\ query'["b"] = ByGroup(TreeTable', BodyRows(TreeTable'))
          /\ query'["h"] = ByGroup(TreeTable', HeadRows(TreeTable'))
      BY <3>1, <3>2 DEF PrepareTree
    <3>4. Destructs' => /\ query'["bOut"] = ByGroup(Past, BodiesLost)
                        /\ query'["hOut"] = ByGroup(Past, HeadsLost)
      BY <3>1, <3>2 DEF PrepareTree, Past, BodiesLost, HeadsLost
    <3>5. QED  BY <1>3, <3>1, <3>3, <3>4 DEF QueryInv
  <2>2. CASE ~Treeing'
    BY <2>2 DEF QueryInv
  <2>3. QED  BY <2>1, <2>2
<1>5. CASE ~Choose
  <2>1. (Treeing' => Treeing) /\ query' = query /\ algorithm' = algorithm
    BY <1>5 DEF vars, reading, Next, FilterRule, FilterEnd, LoadConjunct, UniteConjunct, Combining,
       SaveCombination, Insert, StartReading, ReadConstructive, EndReading, ReadDestructive,
       ExtractRules, Treeing, ChoiceInv, PhasesOf
  <2>2. TreeTable' = TreeTable /\ Destructs' = Destructs
    BY <1>1, <1>3, <2>1 DEF TreeTable, Destructs
  <2>3. QED  BY <1>3, <2>1, <2>2 DEF QueryInv
<1>6. QED  BY <1>4, <1>5

LEMMA QueriesReturn ==
  ASSUME JobInv, QueryInv, Treeing
  PROVE  /\ Returns(query["b"], TreeTable, BodyRows(TreeTable))
         /\ Returns(query["h"], TreeTable, HeadRows(TreeTable))
         /\ Destructs => /\ Returns(query["bOut"], Past, BodiesLost)
                         /\ Returns(query["hOut"], Past, HeadsLost)
<1>1. Past \in Seq(PastRow) /\ TreeTable \in Seq(PastRow)
  BY JobFacts, AsPastRows DEF Past, TreeTable
<1>2. /\ BodyRows(TreeTable) \in SUBSET DOMAIN TreeTable
      /\ HeadRows(TreeTable) \in SUBSET DOMAIN TreeTable
      /\ BodiesLost \in SUBSET DOMAIN Past /\ HeadsLost \in SUBSET DOMAIN Past
  BY DEF BodyRows, HeadRows, BodiesLost, HeadsLost
<1> HIDE DEF BodiesLost, HeadsLost, Past, TreeTable
<1>3. QED  BY <1>1, <1>2, ByGroupReturns DEF QueryInv

(* The groups read, and a query read level with them.                      *)
ReadGroups == GidsBefore(query["b"], cursor["b"])
IsLevel(q) == Level(query[q], cursor[q], ReadGroups)

CursorInv ==
  Treeing /\ InStep =>
    /\ DOMAIN cursor = Queries
    /\ BetweenGroups(query["b"], cursor["b"]) /\ IsLevel("h")
    /\ Destructs => /\ IsLevel("bOut") /\ IsLevel("hOut")
                    /\ chunk.newBody /\ chunk.newHead /\ chunk.gb = chunk.gh /\ chunk.gb \in Nat
    /\ phase = "load" => ReadGroups = {}
    /\ Destructs /\ phase \in {"load", "read"} /\ AfterLast(query["b"], cursor["b"]) =>
         chunk.b = {} /\ chunk.bOut = {} /\ chunk.hOut = {}
    /\ phase = "write" => AfterLast(query["b"], cursor["b"])

GidsIn(t, rows) == {t[k].gid : k \in rows}

LEMMA ReturnsFollow ==
  ASSUME NEW q, NEW b, NEW t, NEW R, NEW S, Returns(q, t, R), Returns(b, t, S),
         GidsIn(t, R) \subseteq GidsIn(t, S)
  PROVE  Follows(q, b)
<1>1. ASSUME NEW i \in 1 .. Len(q)  PROVE \E j \in 1 .. Len(b) : q[i].gid = b[j].gid
  <2>1. PICK k \in R : q[i] = t[k]
    BY DEF Returns
  <2>2. PICK l \in S : t[k].gid = t[l].gid
    BY DEF GidsIn
  <2>3. PICK j \in 1 .. Len(b) : b[j] = t[l]
    BY DEF Returns
  <2>4. QED  BY <2>1, <2>2, <2>3
<1>2. QED  BY <1>1 DEF Follows

(* The groups of the two sides are in step, as the queries see it.         *)
LEMMA QueriesFollow ==
  ASSUME JobInv, ChoiceInv, QueryInv, Treeing, InStep
  PROVE  /\ Follows(query["h"], query["b"])
         /\ Destructs => /\ Follows(query["b"], query["h"])
                         /\ Follows(query["bOut"], query["b"]) /\ Follows(query["hOut"], query["b"])
         /\ ~Destructs => \A i \in 1 .. Len(query["b"]) : \E j \in 1 .. Len(query["h"]) :
                            query["b"][i].gid <= query["h"][j].gid
<1> DEFINE b == query["b"]
           h == query["h"]
           t == TreeTable
<1>1. /\ Returns(b, t, BodyRows(t)) /\ Returns(h, t, HeadRows(t))
      /\ Destructs => /\ Returns(query["bOut"], Past, BodiesLost)
                      /\ Returns(query["hOut"], Past, HeadsLost)
  BY QueriesReturn
<1>2. GroupsOf(t, "body") = GidsIn(t, BodyRows(t)) /\ GroupsOf(t, "head") = GidsIn(t, HeadRows(t))
  BY DEF GroupsOf, BodyRows, HeadRows, GidsIn
<1>3. algorithm = Algorithm /\ algorithm \in {"Constructive", "Destructive"}
  BY DEF Treeing, ChoiceInv, QueryInv
<1>4. CASE Destructs
  <2>1. BothInStep /\ t = Past
    BY <1>3, <1>4 DEF InStep, TreeTable, Destructs
  <2>2. GroupsOf(t, "body") = GroupsOf(t, "head")
    BY <2>1 DEF BothInStep, Past
  <2> HIDE DEF b, h, t
  <2>3. Follows(h, b) /\ Follows(b, h)
    BY <1>1, <1>2, <2>2, ReturnsFollow
  <2>4. BodiesLost \subseteq BodyRows(t) /\ HeadsLost \subseteq HeadRows(t)
    BY <2>1 DEF BodiesLost, HeadsLost
  <2>5. Follows(query["bOut"], b) /\ Follows(query["hOut"], h)
    <3>1. /\ GidsIn(t, BodiesLost) \subseteq GidsIn(t, BodyRows(t))
          /\ GidsIn(t, HeadsLost) \subseteq GidsIn(t, HeadRows(t))
      BY <2>4 DEF GidsIn
    <3>2. Returns(query["bOut"], t, BodiesLost) /\ Returns(query["hOut"], t, HeadsLost)
      BY <1>1, <1>4, <2>1
    <3>3. QED  BY <1>1, <3>1, <3>2, ReturnsFollow
  <2>6. Follows(query["hOut"], b)
    BY <2>3, <2>5 DEF Follows
  <2>7. QED  BY <1>4, <2>3, <2>5, <2>6 DEF b, h
<1>5. CASE ~Destructs
  <2>1. HeadsInStep /\ t = job.rows
    BY <1>3, <1>5 DEF InStep, TreeTable, Destructs
  <2>2. /\ GroupsOf(t, "head") \subseteq GroupsOf(t, "body")
        /\ \A g \in GroupsOf(t, "body") : \E f \in GroupsOf(t, "head") : g <= f
    BY <2>1 DEF HeadsInStep
  <2> HIDE DEF b, h, t
  <2>3. Follows(h, b)
    BY <1>1, <1>2, <2>2, ReturnsFollow
  <2>4. ASSUME NEW i \in 1 .. Len(b)  PROVE \E j \in 1 .. Len(h) : b[i].gid <= h[j].gid
    <3>1. b[i].gid \in GroupsOf(t, "body")
      BY <1>1, <1>2 DEF Returns, GidsIn
    <3>2. PICK f \in GroupsOf(t, "head") : b[i].gid <= f
      BY <2>2, <3>1
    <3>3. PICK k \in HeadRows(t) : f = t[k].gid
      BY <1>2 DEF GidsIn
    <3>4. PICK j \in 1 .. Len(h) : h[j] = t[k]
      BY <1>1 DEF Returns
    <3>5. QED  BY <3>2, <3>3, <3>4
  <2>5. QED  BY <1>5, <2>3, <2>4 DEF b, h
<1>6. QED  BY <1>4, <1>5

LEMMA ItemsAtRows ==
  \A t, g : /\ ItemsAt(t, BodyRows(t), g) = ItemsOf(t, g, "body")
            /\ ItemsAt(t, HeadRows(t), g) = ItemsOf(t, g, "head")
BY DEF ItemsAt, ItemsOf, BodyRows, HeadRows

ThisGroup == query["b"][cursor["b"]].gid

(* The group read next is a new one, and every query that is level with    *)
(* the bodies returns its rows of that group.                              *)
LEMMA GroupIsNew ==
  ASSUME JobInv, ChoiceInv, QueryInv, CursorInv, Treeing, InStep, ~AfterLast(query["b"], cursor["b"])
  PROVE  LET end == LoadEnd(query["b"], ThisGroup, cursor["b"]) IN
         /\ ThisGroup \in Groups /\ ThisGroup \notin ReadGroups /\ IsFiniteSet(ReadGroups)
         /\ \A g \in ReadGroups : g \in Nat /\ g < ThisGroup
         /\ BetweenGroups(query["b"], end) /\ GidsBefore(query["b"], end) = ReadGroups \cup {ThisGroup}
         /\ ItemsIn(query["b"], ThisGroup, cursor["b"]) = ItemsOf(TreeTable, ThisGroup, "body")
<1> DEFINE b == query["b"]
           at == cursor["b"]
<1>1. Returns(b, TreeTable, BodyRows(TreeTable)) /\ Result(b) /\ ByGid(b) /\ BetweenGroups(b, at)
  BY QueriesReturn DEF CursorInv, Returns
<1> HIDE DEF b, at
<1>2. ~AfterLast(b, at) /\ ThisGroup = b[at].gid /\ ReadGroups = GidsBefore(b, at)
  BY DEF ThisGroup, ReadGroups, b, at
<1>3. /\ ThisGroup \in Nat /\ \A g \in ReadGroups : g \in Nat /\ g < ThisGroup
      /\ IsFiniteSet(ReadGroups) /\ Loaded(b, ThisGroup, at) = GroupRows(b, ThisGroup)
      /\ BetweenGroups(b, LoadEnd(b, ThisGroup, at))
      /\ GidsBefore(b, LoadEnd(b, ThisGroup, at)) = ReadGroups \cup {ThisGroup}
  BY <1>1, <1>2, NextGroup
<1>4. ItemsIn(b, ThisGroup, at) = ItemsOf(TreeTable, ThisGroup, "body")
  BY <1>1, <1>3, GroupItems, ItemsAtRows
<1>5. ThisGroup \in Groups
  <2>1. TreeTable \in Seq(PastRow)
    BY JobFacts, AsPastRows DEF Past, TreeTable
  <2>2. at \in 1 .. Len(b)
    BY <1>1, <1>2 DEF BetweenGroups, AfterLast, Result
  <2>3. PICK k \in BodyRows(TreeTable) : b[at] = TreeTable[k]
    BY <1>1, <2>2 DEF Returns
  <2>4. TreeTable[k] \in PastRow
    BY <2>1, <2>3, TableOfPastRows DEF BodyRows
  <2>5. QED  BY <1>2, <2>3, <2>4 DEF PastRow
<1>6. ThisGroup \notin ReadGroups
  BY <1>3
<1>7. QED  BY <1>3, <1>4, <1>5, <1>6 DEF b, at

LEMMA LevelReads ==
  ASSUME JobInv, ChoiceInv, QueryInv, CursorInv, Treeing, InStep, ~AfterLast(query["b"], cursor["b"]),
         NEW q \in Queries, IsLevel(q), Follows(query[q], query["b"]),
         NEW t, NEW rows, Returns(query[q], t, rows)
  PROVE  /\ Level(query[q], LoadEnd(query[q], ThisGroup, cursor[q]), ReadGroups \cup {ThisGroup})
         /\ ItemsIn(query[q], ThisGroup, cursor[q]) = ItemsAt(t, rows, ThisGroup)
         /\ \A i \in cursor[q] .. Len(query[q]) : query[q][i].gid >= ThisGroup
<1> DEFINE b == query["b"]
           at == cursor["b"]
           s == query[q]
           here == cursor[q]
<1>1. Result(b) /\ ByGid(b) /\ BetweenGroups(b, at) /\ Result(s) /\ ByGid(s)
  BY QueriesReturn DEF CursorInv, Returns
<1>2. ~AfterLast(b, at) /\ ThisGroup = b[at].gid /\ ReadGroups = GidsBefore(b, at)
      /\ Level(s, here, GidsBefore(b, at)) /\ Follows(s, b)
  BY DEF ThisGroup, ReadGroups, IsLevel
<1>3. GidsBefore(b, LoadEnd(b, ThisGroup, at)) = ReadGroups \cup {ThisGroup}
  BY GroupIsNew
<1> HIDE DEF b, at, s, here
<1>4. /\ Level(s, LoadEnd(s, ThisGroup, here), GidsBefore(b, LoadEnd(b, ThisGroup, at)))
      /\ Loaded(s, ThisGroup, here) = GroupRows(s, ThisGroup)
      /\ \A i \in here .. Len(s) : s[i].gid >= ThisGroup
  BY <1>1, <1>2, LevelWith
<1>5. Returns(s, t, rows)
  BY DEF s
<1>6. ItemsIn(s, ThisGroup, here) = ItemsAt(t, rows, ThisGroup)
  BY <1>4, <1>5, GroupItems
<1>7. QED  BY <1>3, <1>4, <1>6 DEF s, here

(* What an iteration of ConstrTree does.                                   *)
LEMMA ConstructiveReads ==
  ASSUME JobInv, ChoiceInv, QueryInv, CursorInv, InStep, ReadConstructive
  PROVE  /\ CursorInv'
         /\ ThisGroup \in Groups /\ ThisGroup \notin ReadGroups /\ IsFiniteSet(ReadGroups)
         /\ ReadGroups' = ReadGroups \cup {ThisGroup}
         /\ bodySupp' = Add(bodySupp, {N \in DOMAIN bodySupp : N \subseteq ItemsOf(job.rows, ThisGroup, "body")}, 1)
         /\ \/ ruleSupp' = Add(ruleSupp, {p \in DOMAIN ruleSupp :
                                            /\ p[1] \subseteq ItemsOf(job.rows, ThisGroup, "body")
                                            /\ p[2] \subseteq ItemsOf(job.rows, ThisGroup, "head")}, 1)
            \/ ruleSupp' = ruleSupp /\ ItemsOf(job.rows, ThisGroup, "head") = {}
<1> DEFINE b == query["b"]
           h == query["h"]
           at == cursor["b"]
           headAt == cursor["h"]
           body == ItemsIn(b, ThisGroup, at)
           head == ItemsIn(h, ThisGroup, headAt)
           headLeft == ~AfterLast(h, headAt)
           withHead == headLeft /\ h[headAt].gid = ThisGroup
<1>1. /\ phase = "read" /\ phase' = "read" /\ algorithm = "Constructive" /\ ~AfterLast(b, at)
      /\ job' = job /\ algorithm' = algorithm /\ query' = query /\ chunk' = chunk
      /\ cursor' = [cursor EXCEPT !["b"] = LoadEnd(b, ThisGroup, at),
                                  !["h"] = IF withHead THEN LoadEnd(h, ThisGroup, headAt) ELSE headAt]
      /\ bodySupp' = IF headLeft THEN Add(bodySupp, {N \in DOMAIN bodySupp : N \subseteq body}, 1)
                     ELSE bodySupp
      /\ ruleSupp' = IF withHead
                     THEN Add(ruleSupp, {p \in DOMAIN ruleSupp : p[1] \subseteq body /\ p[2] \subseteq head}, 1)
                     ELSE ruleSupp
  BY DEF ReadConstructive, ThisGroup
<1>2. Treeing /\ Treeing' /\ ~Destructs /\ ~Destructs' /\ TreeTable = job.rows
  BY <1>1 DEF Treeing, Destructs, TreeTable
<1>3. /\ ThisGroup \in Groups /\ ThisGroup \notin ReadGroups /\ IsFiniteSet(ReadGroups)
      /\ \A g \in ReadGroups : g \in Nat /\ g < ThisGroup
      /\ BetweenGroups(b, LoadEnd(b, ThisGroup, at))
      /\ GidsBefore(b, LoadEnd(b, ThisGroup, at)) = ReadGroups \cup {ThisGroup}
      /\ body = ItemsOf(job.rows, ThisGroup, "body")
  BY <1>1, <1>2, GroupIsNew
<1>4. IsLevel("h") /\ DOMAIN cursor = Queries /\ BetweenGroups(b, at)
  BY <1>2 DEF CursorInv
<1>5. /\ Level(h, LoadEnd(h, ThisGroup, headAt), ReadGroups \cup {ThisGroup})
      /\ head = ItemsOf(job.rows, ThisGroup, "head")
  <2>1. Returns(h, job.rows, HeadRows(job.rows)) /\ Follows(h, b) /\ "h" \in Queries
    BY <1>2, QueriesReturn, QueriesFollow DEF Queries
  <2>2. QED  BY <1>1, <1>2, <1>4, <2>1, LevelReads, ItemsAtRows
<1>6. Result(h) /\ Result(b) /\ Len(h) \in Nat /\ headAt \in 1 .. Len(h) + 1 /\ at \in 1 .. Len(b)
      /\ ThisGroup \in Nat
  <2>1. Result(h) /\ Result(b)
    BY <1>2, QueriesReturn DEF Returns
  <2>2. headAt \in 1 .. Len(h) + 1 /\ at \in 1 .. Len(b)
    BY <1>1, <1>4, <2>1 DEF IsLevel, Level, BetweenGroups, AfterLast, Result
  <2>3. QED  BY <1>3, <2>1, <2>2, SourceAssumption DEF Result
<1>7. headLeft
  <2>1. PICK j \in 1 .. Len(h) : ThisGroup <= h[j].gid
    BY <1>2, <1>6, QueriesFollow DEF ThisGroup
  <2>2. ASSUME j \in 1 .. headAt - 1  PROVE FALSE
    <3>1. h[j].gid \in ReadGroups
      BY <1>4, <2>2 DEF IsLevel, Level
    <3>2. h[j].gid \in Nat /\ h[j].gid < ThisGroup
      BY <1>3, <3>1
    <3>3. QED  BY <1>6, <2>1, <3>2
  <2>3. QED  BY <1>6, <2>2 DEF AfterLast
<1>8. ~withHead => LoadEnd(h, ThisGroup, headAt) = headAt /\ head = {}
  <2>1. SUFFICES ASSUME ~withHead
                 PROVE  LoadEnd(h, ThisGroup, headAt) = headAt /\ head = {}
    OBVIOUS
  <2> DEFINE e == LoadEnd(h, ThisGroup, headAt)
  <2>2. /\ e \in headAt .. Len(h) + 1
        /\ \A i \in headAt .. e - 1 : h[i].gid = ThisGroup
    BY <1>6, LoadEndProperties
  <2>3. Loaded(h, ThisGroup, headAt) = {h[i] : i \in headAt .. e - 1}
    BY DEF Loaded
  <2> HIDE DEF e
  <2>4. ~(headAt \in headAt .. e - 1)
    BY <1>7, <2>1, <2>2
  <2>5. e = headAt
    BY <1>6, <2>2, <2>4
  <2>6. Loaded(h, ThisGroup, headAt) = {}
    BY <1>6, <2>3, <2>5
  <2>7. head = {}
    BY <2>6 DEF ItemsIn
  <2>8. QED  BY <2>5, <2>7 DEF e
<1>9. /\ cursor'["b"] = LoadEnd(b, ThisGroup, at) /\ cursor'["h"] = LoadEnd(h, ThisGroup, headAt)
      /\ DOMAIN cursor' = Queries
  BY <1>1, <1>4, <1>8 DEF Queries
<1>10. ReadGroups' = ReadGroups \cup {ThisGroup}
  BY <1>1, <1>3, <1>9 DEF ReadGroups
<1>11. CursorInv'
  <2>1. IsLevel("h")'
    BY <1>1, <1>5, <1>9, <1>10 DEF IsLevel
  <2>2. QED  BY <1>1, <1>2, <1>3, <1>9, <2>1 DEF CursorInv
<1> HIDE DEF body, head, headLeft, withHead
<1>12. QED  BY <1>1, <1>3, <1>5, <1>7, <1>8, <1>10, <1>11

(* What an iteration of DestrTree does, at a group or with nothing to read.*)
DestrGroup ==
  /\ ThisGroup \in Groups /\ ThisGroup \notin ReadGroups /\ IsFiniteSet(ReadGroups)
  /\ ReadGroups' = ReadGroups \cup {ThisGroup}
  /\ chunk'.b = ItemsAt(Past, BodyRows(Past), ThisGroup)
  /\ chunk'.h = ItemsAt(Past, HeadRows(Past), ThisGroup)
  /\ chunk'.bOut = ItemsAt(Past, BodiesLost, ThisGroup)
  /\ chunk'.hOut = ItemsAt(Past, HeadsLost, ThisGroup)

DestrNothing ==
  /\ ReadGroups' = ReadGroups
  /\ chunk'.bOut = {} /\ chunk'.hOut = {}

LEMMA HeadsAreThere ==
  ASSUME JobInv, ChoiceInv, QueryInv, CursorInv, Treeing, InStep, Destructs
  PROVE  /\ AfterLast(query["b"], cursor["b"]) <=> AfterLast(query["h"], cursor["h"])
         /\ ~AfterLast(query["b"], cursor["b"]) => query["h"][cursor["h"]].gid = ThisGroup
<1> DEFINE b == query["b"]
           h == query["h"]
           at == cursor["b"]
           headAt == cursor["h"]
<1>1. Result(b) /\ ByGid(b) /\ Result(h) /\ ByGid(h)
  BY QueriesReturn DEF Returns
<1>2. Follows(h, b) /\ Follows(b, h)
  BY QueriesFollow
<1>3. Level(h, headAt, GidsBefore(b, at)) /\ BetweenGroups(b, at)
  BY DEF CursorInv, IsLevel, ReadGroups
<1>4. ~AfterLast(b, at) => ThisGroup \notin GidsBefore(b, at) /\ \A i \in headAt .. Len(h) : h[i].gid >= ThisGroup
  <2>1. SUFFICES ASSUME ~AfterLast(b, at)
                 PROVE  ThisGroup \notin GidsBefore(b, at) /\ \A i \in headAt .. Len(h) : h[i].gid >= ThisGroup
    OBVIOUS
  <2>2. ThisGroup \notin ReadGroups
    BY <2>1, GroupIsNew
  <2>3. "h" \in Queries /\ IsLevel("h") /\ Returns(h, TreeTable, HeadRows(TreeTable))
    BY QueriesReturn DEF Queries, CursorInv
  <2>4. \A i \in headAt .. Len(h) : h[i].gid >= ThisGroup
    BY <1>2, <2>1, <2>3, LevelReads
  <2>5. QED  BY <2>2, <2>4 DEF ReadGroups
<1>5. ThisGroup = b[at].gid
  BY DEF ThisGroup
<1> HIDE DEF b, h, at, headAt
<1>6. Len(h) \in Nat /\ Len(b) \in Nat /\ headAt \in 1 .. Len(h) + 1 /\ at \in 1 .. Len(b) + 1
      /\ (\A i \in 1 .. Len(h) : h[i].gid \in Nat) /\ (\A i \in 1 .. Len(b) : b[i].gid \in Nat)
  BY <1>1, <1>3 DEF Result, Level, BetweenGroups
<1>7. CASE ~AfterLast(b, at)
  <2>1. at \in 1 .. Len(b)
    BY <1>6, <1>7 DEF AfterLast
  <2>2. PICK j \in 1 .. Len(h) : b[at].gid = h[j].gid
    BY <1>2, <2>1 DEF Follows
  <2>3. ~(j \in 1 .. headAt - 1)
    BY <1>3, <1>4, <1>5, <1>7, <2>2 DEF Level
  <2>4. headAt <= j /\ headAt \in 1 .. Len(h) /\ headAt \in headAt .. Len(h)
    BY <1>6, <2>3
  <2>5. h[headAt].gid <= h[j].gid /\ h[headAt].gid >= ThisGroup
    BY <1>1, <1>4, <1>6, <1>7, <2>4 DEF ByGid
  <2>6. h[headAt].gid = ThisGroup
    BY <1>5, <1>6, <2>2, <2>4, <2>5
  <2>7. QED  BY <1>6, <1>7, <2>4, <2>6 DEF AfterLast, b, h, at, headAt
<1>8. CASE AfterLast(b, at)
  <2>1. ASSUME ~AfterLast(h, headAt)  PROVE FALSE
    <3>1. headAt \in 1 .. Len(h) /\ headAt \in headAt .. Len(h)
      BY <1>6, <2>1 DEF AfterLast
    <3>2. PICK j \in 1 .. Len(b) : h[headAt].gid = b[j].gid
      BY <1>2, <3>1 DEF Follows
    <3>3. j \in 1 .. at - 1
      BY <1>6, <1>8 DEF AfterLast
    <3>4. h[headAt].gid \in GidsBefore(b, at)
      BY <3>2, <3>3 DEF GidsBefore
    <3>5. QED  BY <1>3, <3>1, <3>4 DEF Level
  <2>2. QED  BY <1>8, <2>1 DEF b, h, at, headAt
<1>9. QED  BY <1>7, <1>8

LEMMA DestructiveReads ==
  ASSUME JobInv, ChoiceInv, QueryInv, CursorInv, InStep, ReadDestructive
  PROVE  /\ CursorInv' /\ Treeing'
         /\ DestrGroup \/ DestrNothing
         /\ bodySupp' = Add(bodySupp, LostBodies, -1) /\ ruleSupp' = Add(ruleSupp, LostRules, -1)
<1> DEFINE b == query["b"]
           h == query["h"]
           at == cursor["b"]
           headAt == cursor["h"]
           atBody == chunk.newBody /\ ~AfterLast(b, at)
           atHead == chunk.newHead /\ ~AfterLast(h, headAt)
           gb == IF atBody THEN b[at].gid ELSE chunk.gb
           gh == IF atHead THEN h[headAt].gid ELSE chunk.gh
           loads == (IF atBody THEN {"b", "bOut"} ELSE {}) \cup (IF atHead THEN {"h", "hOut"} ELSE {})
           gidOf(q) == IF q \in {"b", "bOut"} THEN gb ELSE gh
<1>1. /\ phase = "read" /\ algorithm = "Destructive" /\ algorithm' = algorithm
      /\ job' = job /\ query' = query /\ results' = results /\ left' = left
      /\ cursor' = [q \in Queries |-> IF q \in loads THEN LoadEnd(query[q], gidOf(q), cursor[q])
                                      ELSE cursor[q]]
      /\ chunk' =
           [gb |-> gb, gh |-> gh,
            b |-> IF atBody THEN ItemsIn(b, gb, at) ELSE chunk.b,
            bOut |-> IF atBody THEN ItemsIn(query["bOut"], gb, cursor["bOut"]) ELSE chunk.bOut,
            h |-> IF atHead THEN ItemsIn(h, gh, headAt) ELSE chunk.h,
            hOut |-> IF atHead THEN ItemsIn(query["hOut"], gh, cursor["hOut"]) ELSE chunk.hOut,
            newBody |-> Onward(gb, gh), newHead |-> Onward(gh, gb)]
      /\ IF FollowsNull
           THEN phase' = "crashed" /\ UNCHANGED tree
           ELSE /\ bodySupp' = IF gb <= gh THEN Add(bodySupp, LostBodies, -1) ELSE bodySupp
                /\ ruleSupp' = IF gb = gh THEN Add(ruleSupp, LostRules, -1) ELSE ruleSupp
                /\ phase' = IF AfterLast(b, cursor'["b"]) /\ AfterLast(h, cursor'["h"])
                              THEN "write" ELSE "read"
  BY DEF ReadDestructive
<1> HIDE DEF b, h, at, headAt, atBody, atHead, gb, gh, loads, gidOf
<1>2. Treeing /\ Destructs /\ Destructs' /\ TreeTable = Past
  BY <1>1 DEF Treeing, Destructs, TreeTable
<1>3. /\ DOMAIN cursor = Queries /\ BetweenGroups(b, at)
      /\ IsLevel("h") /\ IsLevel("bOut") /\ IsLevel("hOut")
      /\ chunk.newBody /\ chunk.newHead /\ chunk.gb = chunk.gh /\ chunk.gb \in Nat
  BY <1>2 DEF CursorInv, b, at
<1>4. /\ AfterLast(b, at) <=> AfterLast(h, headAt)
      /\ ~AfterLast(b, at) => h[headAt].gid = ThisGroup
  BY <1>2, HeadsAreThere DEF b, h, at, headAt
<1>5. atBody = ~AfterLast(b, at) /\ atHead = ~AfterLast(b, at)
  BY <1>3, <1>4 DEF atBody, atHead
<1>6. gb = gh /\ gb = IF AfterLast(b, at) THEN chunk.gb ELSE ThisGroup
  BY <1>3, <1>4, <1>5 DEF gb, gh, ThisGroup, b, at
<1>7. gb \in Nat
  <2>1. CASE AfterLast(b, at)
    BY <1>3, <1>6, <2>1
  <2>2. CASE ~AfterLast(b, at)
    <3>1. ThisGroup \in Groups
      BY <1>2, <2>2, GroupIsNew DEF b, at
    <3>2. QED  BY <1>6, <2>2, <3>1, SourceAssumption
  <2>3. QED  BY <2>1, <2>2
<1>8. ~(gb < gh) /\ ~(gb > gh) /\ gb <= gh /\ Onward(gb, gh) /\ Onward(gh, gb)
  BY <1>6, <1>7 DEF Onward
<1>9. ~FollowsNull
  <2>1. chunk'.gb = gb /\ chunk'.gh = gh
    BY <1>1
  <2>2. QED  BY <1>8, <2>1 DEF FollowsNull
<1>10. /\ bodySupp' = Add(bodySupp, LostBodies, -1) /\ ruleSupp' = Add(ruleSupp, LostRules, -1)
       /\ phase' = IF AfterLast(b, cursor'["b"]) /\ AfterLast(h, cursor'["h"]) THEN "write" ELSE "read"
  BY <1>1, <1>6, <1>8, <1>9
<1>11. chunk'.newBody /\ chunk'.newHead /\ chunk'.gb = chunk'.gh /\ chunk'.gb \in Nat /\ DOMAIN cursor' = Queries
  BY <1>1, <1>6, <1>7, <1>8
<1>12. phase' \in {"read", "write"} /\ Treeing'
  BY <1>10 DEF Treeing
<1>13. CASE ~AfterLast(b, at)
  <2>1. atBody /\ atHead /\ gb = ThisGroup /\ gh = ThisGroup
    BY <1>5, <1>6, <1>13
  <2>2. \A q \in Queries : cursor'[q] = LoadEnd(query[q], ThisGroup, cursor[q])
    BY <1>1, <2>1 DEF loads, gidOf, Queries
  <2>3. /\ ThisGroup \in Groups /\ ThisGroup \notin ReadGroups /\ IsFiniteSet(ReadGroups)
        /\ BetweenGroups(b, LoadEnd(b, ThisGroup, at))
        /\ GidsBefore(b, LoadEnd(b, ThisGroup, at)) = ReadGroups \cup {ThisGroup}
        /\ ItemsIn(b, ThisGroup, at) = ItemsOf(Past, ThisGroup, "body")
    BY <1>2, <1>13, GroupIsNew DEF b, at
  <2>4. /\ Returns(query["h"], Past, HeadRows(Past))
        /\ Returns(query["bOut"], Past, BodiesLost) /\ Returns(query["hOut"], Past, HeadsLost)
        /\ Follows(query["h"], query["b"])
        /\ Follows(query["bOut"], query["b"]) /\ Follows(query["hOut"], query["b"])
    BY <1>2, QueriesReturn, QueriesFollow
  <2>5. /\ Level(query["h"], LoadEnd(query["h"], ThisGroup, cursor["h"]), ReadGroups \cup {ThisGroup})
        /\ ItemsIn(query["h"], ThisGroup, cursor["h"]) = ItemsAt(Past, HeadRows(Past), ThisGroup)
    BY <1>2, <1>3, <1>13, <2>4, LevelReads DEF Queries, b, at
  <2>6. /\ Level(query["bOut"], LoadEnd(query["bOut"], ThisGroup, cursor["bOut"]), ReadGroups \cup {ThisGroup})
        /\ ItemsIn(query["bOut"], ThisGroup, cursor["bOut"]) = ItemsAt(Past, BodiesLost, ThisGroup)
    BY <1>2, <1>3, <1>13, <2>4, LevelReads DEF Queries, b, at
  <2>7. /\ Level(query["hOut"], LoadEnd(query["hOut"], ThisGroup, cursor["hOut"]), ReadGroups \cup {ThisGroup})
        /\ ItemsIn(query["hOut"], ThisGroup, cursor["hOut"]) = ItemsAt(Past, HeadsLost, ThisGroup)
    BY <1>2, <1>3, <1>13, <2>4, LevelReads DEF Queries, b, at
  <2>8. ReadGroups' = ReadGroups \cup {ThisGroup}
    BY <1>1, <2>2, <2>3 DEF ReadGroups, Queries, b, at
  <2>9. DestrGroup
    <3>1. /\ chunk'.b = ItemsIn(b, ThisGroup, at) /\ chunk'.h = ItemsIn(h, ThisGroup, headAt)
          /\ chunk'.bOut = ItemsIn(query["bOut"], ThisGroup, cursor["bOut"])
          /\ chunk'.hOut = ItemsIn(query["hOut"], ThisGroup, cursor["hOut"])
      BY <1>1, <2>1
    <3>2. QED  BY <2>3, <2>5, <2>6, <2>7, <2>8, <3>1, ItemsAtRows DEF DestrGroup, h, headAt
  <2>10. IsLevel("h")' /\ IsLevel("bOut")' /\ IsLevel("hOut")'
    <3>1. /\ query' = query
          /\ cursor'["h"] = LoadEnd(query["h"], ThisGroup, cursor["h"])
          /\ cursor'["bOut"] = LoadEnd(query["bOut"], ThisGroup, cursor["bOut"])
          /\ cursor'["hOut"] = LoadEnd(query["hOut"], ThisGroup, cursor["hOut"])
      BY <1>1, <2>2 DEF Queries
    <3>2. QED  BY <2>5, <2>6, <2>7, <2>8, <3>1 DEF IsLevel
  <2>11. BetweenGroups(query'["b"], cursor'["b"])
    BY <1>1, <2>2, <2>3 DEF Queries, b, at
  <2>12. Level(h, cursor'["h"], ReadGroups') /\ BetweenGroups(b, cursor'["b"])
    BY <1>1, <2>10, <2>11 DEF IsLevel, h, b
  <2>13. AfterLast(b, cursor'["b"]) => AfterLast(h, cursor'["h"])
    <3>1. SUFFICES ASSUME AfterLast(b, cursor'["b"]), ~AfterLast(h, cursor'["h"])
                   PROVE  FALSE
      OBVIOUS
    <3> DEFINE n == cursor'["h"]
               m == cursor'["b"]
    <3>2. Result(b) /\ Result(h) /\ Follows(h, b)
      BY <1>2, <2>4, QueriesReturn DEF Returns, b, h
    <3>3. ReadGroups' = GidsBefore(b, m)
      BY <1>1 DEF ReadGroups, b
    <3>4. Level(h, n, GidsBefore(b, m)) /\ BetweenGroups(b, m)
      BY <2>12, <3>3
    <3> HIDE DEF n, m
    <3>5. n \in 1 .. Len(h) /\ n \in n .. Len(h)
      BY <3>1, <3>2, <3>4 DEF Level, AfterLast, Result, n
    <3>6. PICK j \in 1 .. Len(b) : h[n].gid = b[j].gid
      BY <3>2, <3>5 DEF Follows
    <3>7. j \in 1 .. m - 1
      BY <3>1, <3>2, <3>4 DEF BetweenGroups, AfterLast, Result, m
    <3>8. h[n].gid \in GidsBefore(b, m)
      BY <3>6, <3>7 DEF GidsBefore
    <3>9. QED  BY <3>4, <3>5, <3>8 DEF Level
  <2>14. AfterLast(b, cursor'["b"]) <=> phase' = "write"
    BY <1>10, <2>13
  <2>15. CursorInv'
    <3>1. query'["b"] = b
      BY <1>1 DEF b
    <3>2. QED  BY <1>11, <1>12, <2>10, <2>11, <2>14, <3>1 DEF CursorInv
  <2>16. QED  BY <1>10, <1>12, <2>9, <2>15
<1>14. CASE AfterLast(b, at)
  <2>1. ~atBody /\ ~atHead /\ AfterLast(h, headAt)
    BY <1>4, <1>5, <1>14
  <2>2. \A q \in Queries : cursor'[q] = cursor[q]
    BY <1>1, <2>1 DEF loads
  <2>3. cursor'["b"] = at /\ cursor'["h"] = headAt
    BY <2>2 DEF Queries, at, headAt
  <2>4. phase' = "write"
    BY <1>10, <1>14, <2>1, <2>3
  <2>5. ReadGroups' = ReadGroups
    BY <1>1, <2>3 DEF ReadGroups, at
  <2>6. IsLevel("h")' /\ IsLevel("bOut")' /\ IsLevel("hOut")'
    <3>1. cursor'["h"] = cursor["h"] /\ cursor'["bOut"] = cursor["bOut"] /\ cursor'["hOut"] = cursor["hOut"]
      BY <2>2 DEF Queries
    <3>2. QED  BY <1>1, <1>3, <2>5, <3>1 DEF IsLevel
  <2>7. query'["b"] = b
    BY <1>1 DEF b
  <2>8. CursorInv'
    BY <1>3, <1>11, <1>14, <2>3, <2>4, <2>6, <2>7 DEF CursorInv
  <2>9. chunk'.bOut = {} /\ chunk'.hOut = {}
    <3>1. chunk.bOut = {} /\ chunk.hOut = {}
      BY <1>1, <1>2, <1>14 DEF CursorInv, b, at
    <3>2. QED  BY <1>1, <2>1, <3>1
  <2>10. QED  BY <1>10, <1>12, <2>5, <2>8, <2>9 DEF DestrNothing
<1>15. QED  BY <1>13, <1>14

LEMMA TreePrepared ==
  ASSUME JobInv, ChoiceInv, Choose, Treeing', QueryInv'
  PROVE  CursorInv' /\ ReadGroups' = {}
<1>1. /\ phase = "choose" /\ phase' = "load" /\ job' = job
      /\ cursor' = cursor /\ chunk' = chunk
  BY DEF Choose, Treeing
<1>2. StartInv
  BY <1>1 DEF ChoiceInv
<1>3. cursor' = [q \in Queries |-> 1]
  BY <1>1, <1>2 DEF StartInv
<1>4. cursor'["b"] = 1 /\ cursor'["h"] = 1 /\ cursor'["bOut"] = 1 /\ cursor'["hOut"] = 1
      /\ DOMAIN cursor' = Queries
  BY <1>3 DEF Queries
<1>5. TreeTable' \in Seq(PastRow) /\ Past' \in Seq(PastRow)
  BY <1>1, JobFacts, AsPastRows DEF TreeTable, Past
<1>6. /\ BodyRows(TreeTable') \in SUBSET DOMAIN TreeTable'
      /\ HeadRows(TreeTable') \in SUBSET DOMAIN TreeTable'
      /\ BodiesLost' \in SUBSET DOMAIN Past' /\ HeadsLost' \in SUBSET DOMAIN Past'
  BY DEF BodyRows, HeadRows, BodiesLost, HeadsLost
<1> HIDE DEF TreeTable, Past, BodiesLost, HeadsLost
<1>7. /\ Len(query'["b"]) \in Nat /\ Len(query'["h"]) \in Nat
      /\ Destructs' => Len(query'["bOut"]) \in Nat /\ Len(query'["hOut"]) \in Nat
  BY <1>5, <1>6, ByGroupReturns DEF QueryInv, Returns, Result
<1>8. ReadGroups' = {}
  BY <1>4 DEF ReadGroups, GidsBefore
<1>9. BetweenGroups(query'["b"], cursor'["b"])
  BY <1>4, <1>7 DEF BetweenGroups
<1>10. \A q : Len(q) \in Nat => Level(q, 1, {})
  BY DEF Level
<1>11. IsLevel("h")' /\ (Destructs' => IsLevel("bOut")' /\ IsLevel("hOut")')
  BY <1>4, <1>7, <1>8, <1>10 DEF IsLevel
<1>12. /\ chunk'.newBody /\ chunk'.newHead /\ chunk'.gb = chunk'.gh /\ chunk'.gb \in Nat
       /\ chunk'.b = {} /\ chunk'.bOut = {} /\ chunk'.hOut = {}
  BY <1>1, <1>2 DEF StartInv, NoGroup
<1>13. QED  BY <1>1, <1>4, <1>8, <1>9, <1>11, <1>12 DEF CursorInv

LEMMA CursorStep ==
  ASSUME JobInv, ChoiceInv, QueryInv, CursorInv, QueryInv', [Next]_vars
  PROVE  CursorInv'
<1>1. InStep' = InStep
  BY JobStep, SameJob
<1>2. CASE Choose
  BY <1>2, TreePrepared DEF CursorInv
<1>3. CASE Insert \/ StartReading \/ EndReading \/ UNCHANGED vars
  <2>1. /\ cursor' = cursor /\ chunk' = chunk /\ query' = query /\ algorithm' = algorithm
        /\ Treeing' => Treeing
        /\ phase' = "load" => phase = "load"
        /\ phase' = "read" => phase \in {"load", "read"}
        /\ phase' = "write" => phase = "write" \/ (algorithm = "Constructive" /\ AfterLast(query["b"], cursor["b"]))
    BY <1>3 DEF Insert, StartReading, EndReading, vars, reading, Treeing
  <2>2. ReadGroups' = ReadGroups
    BY <2>1 DEF ReadGroups
  <2>3. \A q : IsLevel(q)' = IsLevel(q)
    BY <2>1, <2>2 DEF IsLevel
  <2>4. Destructs' = Destructs
    BY <2>1 DEF Destructs
  <2>5. CASE Treeing /\ InStep /\ Treeing'
    BY <1>1, <2>1, <2>2, <2>3, <2>4, <2>5 DEF CursorInv, Destructs
  <2>6. QED  BY <1>1, <2>1, <2>5 DEF CursorInv
<1>4. CASE ReadConstructive
  BY <1>1, <1>4, ConstructiveReads DEF CursorInv
<1>5. CASE ReadDestructive
  BY <1>1, <1>5, DestructiveReads DEF CursorInv
<1>6. CASE FilterRule \/ FilterEnd \/ LoadConjunct \/ UniteConjunct \/ SaveCombination \/ ExtractRules
  <2>1. ~Treeing'
    BY <1>6 DEF FilterRule, FilterEnd, LoadConjunct, UniteConjunct, Combining,
       SaveCombination, ExtractRules, Treeing
  <2>2. QED  BY <2>1 DEF CursorInv
<1>7. QED  BY <1>2, <1>3, <1>4, <1>5, <1>6 DEF Next

-----------------------------------------------------------------------------
(* The groups that support a set of items, and the nodes of the tree.      *)

LEMMA SupportsFinite ==
  ASSUME NEW t \in Seq(PastRow), NEW S \in NonEmpty, NEW side
  PROVE  /\ IsFiniteSet(Supports(t, S, side))
         /\ Supports(t, S, side) \subseteq GroupsOf(t, side)
<1> DEFINE G == {t[k].gid : k \in DOMAIN t}
           f == [k \in DOMAIN t |-> t[k].gid]
<1>1. f \in Surjection(DOMAIN t, G)
  BY DEF Surjection
<1>2. IsFiniteSet(DOMAIN t)
  <2>1. DOMAIN t = 1 .. Len(t) /\ Len(t) \in Nat
    OBVIOUS
  <2>2. QED  BY <2>1, FS_Interval
<1> HIDE DEF f
<1>3. IsFiniteSet(G)
  BY <1>1, <1>2, FS_Surjection
<1>4. ASSUME NEW g \in Supports(t, S, side)  PROVE g \in GroupsOf(t, side)
  <2>1. PICK i \in S : TRUE
    BY DEF NonEmpty
  <2>2. i \in ItemsOf(t, g, side)
    BY DEF Supports
  <2>3. PICK k \in DOMAIN t : t[k].gid = g /\ t[k][side]
    BY <2>2 DEF ItemsOf
  <2>4. QED  BY <2>3 DEF GroupsOf
<1>5. GroupsOf(t, side) \subseteq G
  BY DEF GroupsOf
<1>6. IsFiniteSet(Supports(t, S, side))
  BY <1>3, <1>4, <1>5, FS_Subset
<1>7. QED  BY <1>4, <1>6

LEMMA PrefixesOf ==
  ASSUME NEW S \in NonEmpty
  PROVE  /\ S \in Prefixes(S)
         /\ \A P \in Prefixes(S) : P \in NonEmpty /\ P \subseteq S
         /\ IsFiniteSet(S)
<1>1. S \in SUBSET Nat /\ S # {} /\ IsFiniteSet(S)
  BY SourceAssumption, FS_Subset DEF NonEmpty
<1>2. Size(S) \in Nat \ {0}
  BY <1>1, FS_CardinalityType, FS_EmptySet DEF Size
<1>3. PICK m \in S : Size(Upto(S, m)) = Size(S)
  <2>1. Size(S) \in 1 .. Size(S)
    BY <1>2
  <2>2. QED  BY <1>1, <2>1, UptoTaken
<1>4. Upto(S, m) = S
  <2>1. Upto(S, m) \in SUBSET S
    BY DEF Upto
  <2>2. QED  BY <1>1, <1>3, <2>1, FS_Subset DEF Size
<1>5. S \in Prefixes(S)
  BY <1>4 DEF Prefixes, Upto
<1>6. ASSUME NEW P \in Prefixes(S)  PROVE P \in NonEmpty /\ P \subseteq S
  <2>1. PICK i \in S : P = {j \in S : j <= i}
    BY DEF Prefixes
  <2>2. i \in Nat /\ i <= i
    BY <1>1
  <2>3. i \in P /\ P \subseteq S
    BY <2>1, <2>2
  <2>4. QED  BY <2>3 DEF NonEmpty
<1>7. QED  BY <1>1, <1>5, <1>6

LEMMA TotGroupsType ==
  ASSUME JobInv
  PROVE  TotGroups(job.rows) \in Nat
<1>1. TotGroups(job.rows) = Cardinality({job.rows[i].gid : i \in DOMAIN job.rows})
  BY DEF TotGroups
<1>2. IsFiniteSet({job.rows[i].gid : i \in DOMAIN job.rows})
  <2>1. Result(job.rows) /\ DOMAIN job.rows = 1 .. Len(job.rows)
    <3>1. job.rows \in Seq(PastRow)
      BY JobFacts
    <3>2. Table(job.rows)
      BY <3>1, TableOfPastRows
    <3>3. DOMAIN job.rows = 1 .. Len(job.rows) /\ Len(job.rows) \in Nat
      BY <3>1
    <3>4. QED  BY <3>2, <3>3 DEF Result, Table
  <2>2. Len(job.rows) + 1 \in 1 .. Len(job.rows) + 1 /\ Len(job.rows) + 1 - 1 = Len(job.rows)
    BY <2>1 DEF Result
  <2>3. QED  BY <2>1, <2>2, GidsFinite
<1>3. QED  BY <1>1, <1>2, FS_CardinalityType

(* A rule with a smaller head, of one item or more, is found as well.      *)
LEMMA SmallerHead ==
  ASSUME JobInv, NEW r, PastRule(1, r), NEW H \in NonEmpty, H \subseteq r.head,
         job.pasts[1].head[1] <= 1
  PROVE  PastRule(1, Counts(Past, r.body, H))
<1> DEFINE s == Counts(Past, r.body, H)
           m == job.pasts[1]
           B == r.body
           X == Supports(Past, B, "body") \cap Supports(Past, r.head, "head")
           Y == Supports(Past, B, "body") \cap Supports(Past, H, "head")
<1>1. /\ B \in NonEmpty /\ r.head \in NonEmpty /\ B \cap r.head = {}
      /\ Accepts(m.condition, B, r.head)
      /\ r = Counts(Past, B, r.head) /\ r.gids > 0 /\ Frequent(m, r.gids) /\ Within(r, m)
  BY DEF PastRule, IsRule, Past
<1>2. s.body = B /\ s.head = H /\ s.gids = Size(Y) /\ r.gids = Size(X)
  BY <1>1 DEF Counts
<1>3. Accepts(m.condition, B, H) /\ B \cap H = {}
  BY <1>1 DEF Accepts
<1>4. m \in Minerule
  BY JobFacts
<1>5. Size(X) <= Size(Y) /\ Size(X) \in Nat /\ Size(Y) \in Nat
  <2>1. X \subseteq Y
    BY DEF Supports
  <2>2. Past \in Seq(PastRow)
    BY JobFacts, AsPastRows DEF Past
  <2>3. IsFiniteSet(Y)
    BY <1>1, <2>2, SupportsFinite, FS_Subset
  <2> HIDE DEF X, Y
  <2>4. IsFiniteSet(X) /\ Cardinality(X) <= Cardinality(Y)
    BY <2>1, <2>3, FS_Subset
  <2>5. QED  BY <2>3, <2>4, FS_CardinalityType DEF Size
<1> HIDE DEF X, Y
<1>6. Frequent(m, s.gids)
  <2>1. m.den \in Nat /\ Size(X) * m.den >= m.num * TotGroups(job.rows)
    BY <1>1, <1>2, <1>4 DEF Frequent, Minerule
  <2>2. Size(Y) * m.den >= Size(X) * m.den
    BY <1>5, <2>1
  <2>3. TotGroups(job.rows) \in Nat /\ m.num \in Nat
    BY <1>4, TotGroupsType DEF Minerule
  <2>4. m.num * TotGroups(job.rows) \in Nat /\ Size(X) * m.den \in Nat /\ Size(Y) * m.den \in Nat
    BY <1>5, <2>1, <2>3
  <2>5. Size(Y) * m.den >= m.num * TotGroups(job.rows)
    BY <2>1, <2>2, <2>4
  <2>6. QED  BY <1>2, <2>5 DEF Frequent
<1>7. Within(s, m)
  <2>1. IsFiniteSet(r.head) /\ IsFiniteSet(H)
    BY <1>1, PrefixesOf
  <2>2. Size(H) \in Nat \ {0} /\ Size(H) <= Size(r.head)
    BY <2>1, FS_Subset, FS_CardinalityType, FS_EmptySet DEF Size, NonEmpty
  <2>3. Size(r.head) \in m.head[1] .. m.head[2] /\ Size(B) \in m.body[1] .. m.body[2]
    BY <1>1 DEF Within
  <2>4. m.head[1] \in Nat /\ m.head[2] \in Nat
    BY <1>4 DEF Minerule
  <2>5. Size(H) \in m.head[1] .. m.head[2]
    BY <2>2, <2>3, <2>4
  <2>6. QED  BY <1>2, <2>3, <2>5 DEF Within
<1>8. s.gids > 0
  BY <1>1, <1>2, <1>5
<1> HIDE DEF s
<1>9. QED  BY <1>1, <1>2, <1>3, <1>6, <1>7, <1>8 DEF PastRule, IsRule, Past, s

(* The tree has a node for every past rule inserted, and nodes of bodies   *)
(* above those of rules.                                                   *)
IsInserted(r) == r \in results[1] /\ r \notin left

NodesInv ==
  Treeing =>
    /\ \A N \in DOMAIN bodySupp : N \in NonEmpty
    /\ \A p \in DOMAIN ruleSupp : p = <<p[1], p[2]>> /\ p[1] \in DOMAIN bodySupp /\ p[2] \in NonEmpty
    /\ Destructs /\ HeadsFromOne =>
         \A p \in DOMAIN ruleSupp : \E r \in results[1] : p = <<r.body, r.head>>
    /\ \A r : IsInserted(r) => r.body \in DOMAIN bodySupp /\ <<r.body, r.head>> \in DOMAIN ruleSupp
    /\ phase \in {"read", "write"} => left = {}

LEMMA AddKeepsNodes ==
  \A f, nodes, n : /\ DOMAIN Add(f, nodes, n) = DOMAIN f
                   /\ \A x \in DOMAIN f : Add(f, nodes, n)[x] = IF x \in nodes THEN f[x] + n ELSE f[x]
BY DEF Add

LEMMA InsertedRule ==
  ASSUME JobInv, ChoiceInv, Insert
  PROVE  /\ NextRule \in left /\ NextRule \in results[1] /\ PastRule(1, NextRule)
         /\ NextRule.body \in NonEmpty /\ NextRule.head \in NonEmpty
<1>1. NextRule \in left
  BY DEF Insert, NextRule, NoRules
<1>2. left \subseteq results[1] /\ ResultsInv
  BY DEF ChoiceInv, Insert
<1>3. PastRule(1, NextRule)
  BY <1>1, <1>2, JobFacts DEF ResultsInv
<1>4. QED  BY <1>1, <1>2, <1>3 DEF PastRule, IsRule

LEMMA NodesInserted ==
  ASSUME JobInv, ChoiceInv, NodesInv, Insert
  PROVE  NodesInv'
<1> DEFINE r == NextRule
           B == r.body
           H == r.head
<1>1. /\ r \in left /\ r \in results[1] /\ PastRule(1, r) /\ B \in NonEmpty /\ H \in NonEmpty
  BY InsertedRule
<1>2. /\ phase = "load" /\ phase' = "load" /\ job' = job /\ algorithm' = algorithm /\ results' = results
      /\ left' = left \ {r}
      /\ DOMAIN bodySupp' = DOMAIN bodySupp \cup Prefixes(B)
      /\ DOMAIN ruleSupp' = DOMAIN ruleSupp \cup ({B} \X Prefixes(H))
  BY DEF Insert, InsertBody, InsertHead
<1> HIDE DEF r
<1>3. /\ B \in Prefixes(B) /\ H \in Prefixes(H)
      /\ \A P \in Prefixes(B) : P \in NonEmpty
      /\ \A P \in Prefixes(H) : P \in NonEmpty /\ P \subseteq H
  BY <1>1, PrefixesOf
<1>4. Treeing /\ HeadsFromOne' = HeadsFromOne /\ Destructs' = Destructs
  BY <1>2, SameJob DEF Treeing, Destructs
<1>5. \A N \in DOMAIN bodySupp' : N \in NonEmpty
  BY <1>2, <1>3, <1>4 DEF NodesInv
<1>6. ASSUME NEW p \in DOMAIN ruleSupp'
      PROVE  p = <<p[1], p[2]>> /\ p[1] \in DOMAIN bodySupp' /\ p[2] \in NonEmpty
  <2>1. CASE p \in DOMAIN ruleSupp
    BY <1>2, <1>4, <2>1 DEF NodesInv
  <2>2. CASE p \in {B} \X Prefixes(H)
    BY <1>2, <1>3, <2>2
  <2>3. QED  BY <1>2, <2>1, <2>2
<1>7. ASSUME Destructs, HeadsFromOne, NEW p \in DOMAIN ruleSupp'
      PROVE  \E s \in results[1] : p = <<s.body, s.head>>
  <2>1. CASE p \in DOMAIN ruleSupp
    BY <1>4, <1>7, <2>1 DEF NodesInv
  <2>2. CASE p \in {B} \X Prefixes(H)
    <3>1. p = <<B, p[2]>> /\ p[2] \in NonEmpty /\ p[2] \subseteq H
      BY <1>3, <2>2
    <3>2. job.pasts[1].head[1] <= 1
      BY <1>2, <1>7 DEF HeadsFromOne, Destructs, ChoiceInv
    <3>3. PastRule(1, Counts(Past, B, p[2]))
      BY <1>1, <3>1, <3>2, SmallerHead
    <3>4. Counts(Past, B, p[2]) \in results[1]
      BY <1>2, <3>3, JobFacts DEF ChoiceInv, ResultsInv
    <3>5. Counts(Past, B, p[2]).body = B /\ Counts(Past, B, p[2]).head = p[2]
      BY DEF Counts
    <3>6. QED  BY <3>1, <3>4, <3>5
  <2>3. QED  BY <1>2, <2>1, <2>2
<1>8. ASSUME NEW s, IsInserted(s)'
      PROVE  s.body \in DOMAIN bodySupp' /\ <<s.body, s.head>> \in DOMAIN ruleSupp'
  <2>1. CASE s = r
    BY <1>2, <1>3, <2>1
  <2>2. CASE s # r
    <3>1. IsInserted(s)
      BY <1>2, <1>8, <2>2 DEF IsInserted
    <3>2. QED  BY <1>2, <1>4, <3>1 DEF NodesInv
  <2>3. QED  BY <2>1, <2>2
<1>9. QED  BY <1>2, <1>4, <1>5, <1>6, <1>7, <1>8 DEF NodesInv

LEMMA NodesStep ==
  ASSUME JobInv, ChoiceInv, QueryInv, NodesInv, [Next]_vars
  PROVE  NodesInv'
<1>1. job' = job /\ HeadsFromOne' = HeadsFromOne
  BY JobStep, SameJob
<1>2. CASE Insert
  BY <1>2, NodesInserted
<1>3. CASE Choose
  <2>1. CASE Treeing'
    <3>1. bodySupp' = Empty /\ ruleSupp' = Empty /\ left' = results'[1] /\ phase' = "load"
      BY <1>3, <2>1 DEF Choose, Treeing, tree, ChoiceInv, StartInv
    <3>2. DOMAIN bodySupp' = {} /\ DOMAIN ruleSupp' = {}
      BY <3>1 DEF Empty
    <3>3. \A r : ~IsInserted(r)'
      BY <3>1 DEF IsInserted
    <3>4. QED  BY <3>1, <3>2, <3>3 DEF NodesInv
  <2>2. QED  BY <2>1 DEF NodesInv
<1>4. CASE StartReading \/ EndReading \/ ReadConstructive \/ ReadDestructive \/ UNCHANGED vars
  <2>1. /\ algorithm' = algorithm /\ results' = results /\ left' = left
        /\ Treeing' => Treeing
        /\ phase' = "load" => phase = "load"
        /\ phase' \in {"read", "write"} => phase \in {"read", "write"} \/ left = {}
    BY <1>4 DEF StartReading, EndReading, ReadConstructive, ReadDestructive, vars, Treeing, NoRules
  <2>2. DOMAIN bodySupp' = DOMAIN bodySupp /\ DOMAIN ruleSupp' = DOMAIN ruleSupp
    BY <1>4, AddKeepsNodes DEF StartReading, EndReading, ReadConstructive, ReadDestructive, vars, tree
  <2>3. \A r : IsInserted(r)' = IsInserted(r)
    BY <2>1 DEF IsInserted
  <2>4. Destructs' = Destructs
    BY <2>1 DEF Destructs
  <2>5. CASE Treeing'
    <3>1. Treeing
      BY <2>1, <2>5
    <3>2. phase' \in {"read", "write"} => left' = {}
      BY <2>1, <3>1 DEF NodesInv
    <3>3. QED  BY <1>1, <2>1, <2>2, <2>3, <2>4, <3>1, <3>2 DEF NodesInv
  <2>6. QED  BY <2>5 DEF NodesInv
<1>5. CASE FilterRule \/ FilterEnd \/ LoadConjunct \/ UniteConjunct \/ SaveCombination \/ ExtractRules
  <2>1. ~Treeing'
    BY <1>5 DEF FilterRule, FilterEnd, LoadConjunct, UniteConjunct, Combining,
       SaveCombination, ExtractRules, Treeing
  <2>2. QED  BY <2>1 DEF NodesInv
<1>6. QED  BY <1>2, <1>3, <1>4, <1>5 DEF Next

-----------------------------------------------------------------------------
(* The supports of the tree.                                               *)

(* The groups counted for a set of items: those read support it under the  *)
(* new condition, and the destructive tree has not yet looked at the rest. *)
Held(S, side) ==
  (Supports(job.rows, S, side) \cap ReadGroups)
    \cup (IF Destructs THEN Supports(Past, S, side) \ ReadGroups ELSE {})
HeldRule(B, H) == Held(B, "body") \cap Held(H, "head")

(* The destructive tree has the support of the past rules only.            *)
SureBody(N) == Destructs => \E r : IsInserted(r) /\ r.body = N
SureRule(B, H) == Destructs => \E r : IsInserted(r) /\ r.body = B /\ r.head = H

SuppInv ==
  Treeing /\ InStep =>
    /\ \A N \in DOMAIN bodySupp : SureBody(N) => bodySupp[N] = Size(Held(N, "body"))
    /\ \A p \in DOMAIN ruleSupp : SureRule(p[1], p[2]) => ruleSupp[p] = Size(HeldRule(p[1], p[2]))

LEMMA HeldFinite ==
  ASSUME JobInv, NEW S \in NonEmpty, NEW side
  PROVE  IsFiniteSet(Held(S, side))
<1>1. job.rows \in Seq(PastRow) /\ Past \in Seq(PastRow)
  BY JobFacts, AsPastRows DEF Past
<1>2. IsFiniteSet(Supports(job.rows, S, side)) /\ IsFiniteSet(Supports(Past, S, side))
  BY <1>1, SupportsFinite
<1>3. Held(S, side) \subseteq Supports(job.rows, S, side) \cup Supports(Past, S, side)
  BY DEF Held
<1> HIDE DEF Past
<1>4. QED  BY <1>2, <1>3, FS_Subset, FS_Union

LEMMA SameHeld ==
  ASSUME job' = job, algorithm' = algorithm, ReadGroups' = ReadGroups
  PROVE  /\ \A S, side : Held(S, side)' = Held(S, side)
         /\ \A B, H : HeldRule(B, H)' = HeldRule(B, H)
<1>1. Past' = Past /\ Destructs' = Destructs
  BY DEF Past, Destructs
<1>2. \A S, side : Held(S, side)' = Held(S, side)
  BY <1>1 DEF Held
<1>3. QED  BY <1>2 DEF HeldRule

LEMMA OneMore ==
  ASSUME NEW X, IsFiniteSet(X), NEW g, g \notin X
  PROVE  Size(X \cup {g}) = Size(X) + 1
BY FS_AddElement DEF Size

LEMMA OneLess ==
  ASSUME NEW X, IsFiniteSet(X), NEW g \in X
  PROVE  Size(X \ {g}) = Size(X) + (-1)
<1>1. Cardinality(X \ {g}) = Cardinality(X) - 1 /\ Cardinality(X) \in Nat
  BY FS_RemoveElement, FS_CardinalityType
<1>2. QED  BY <1>1 DEF Size

(* A group read by ConstrTree counts for what it supports.                 *)
LEMMA HeldGrows ==
  ASSUME JobInv, job' = job, algorithm' = algorithm, ~Destructs,
         ThisGroup \in Groups, ThisGroup \notin ReadGroups, ReadGroups' = ReadGroups \cup {ThisGroup},
         NEW S, NEW side
  PROVE  /\ ThisGroup \notin Held(S, side)
         /\ Held(S, side)' = IF S \subseteq ItemsOf(job.rows, ThisGroup, side)
                             THEN Held(S, side) \cup {ThisGroup} ELSE Held(S, side)
<1>1. ~Destructs'
  BY DEF Destructs
<1>2. /\ Held(S, side) = Supports(job.rows, S, side) \cap ReadGroups
      /\ Held(S, side)' = Supports(job.rows, S, side) \cap (ReadGroups \cup {ThisGroup})
  BY <1>1 DEF Held
<1>3. ThisGroup \in Supports(job.rows, S, side) <=> S \subseteq ItemsOf(job.rows, ThisGroup, side)
  BY DEF Supports
<1>4. QED  BY <1>2, <1>3

LEMMA ConstructiveCounts ==
  ASSUME JobInv, ChoiceInv, QueryInv, CursorInv, NodesInv, SuppInv, ReadConstructive, InStep
  PROVE  SuppInv'
<1> DEFINE g == ThisGroup
           body == ItemsOf(job.rows, g, "body")
           head == ItemsOf(job.rows, g, "head")
<1>1. /\ g \in Groups /\ g \notin ReadGroups /\ ReadGroups' = ReadGroups \cup {g}
      /\ bodySupp' = Add(bodySupp, {N \in DOMAIN bodySupp : N \subseteq body}, 1)
      /\ \/ ruleSupp' = Add(ruleSupp, {p \in DOMAIN ruleSupp : p[1] \subseteq body /\ p[2] \subseteq head}, 1)
         \/ ruleSupp' = ruleSupp /\ head = {}
  BY ConstructiveReads
<1>2. Treeing /\ ~Destructs /\ job' = job /\ algorithm' = algorithm
  BY DEF ReadConstructive, Treeing, Destructs
<1>3. /\ \A N \in DOMAIN bodySupp : N \in NonEmpty /\ bodySupp[N] = Size(Held(N, "body"))
      /\ \A p \in DOMAIN ruleSupp : /\ p[1] \in NonEmpty /\ p[2] \in NonEmpty
                                    /\ ruleSupp[p] = Size(HeldRule(p[1], p[2]))
  BY <1>2 DEF NodesInv, SuppInv, SureBody, SureRule
<1>4. \A S, side : /\ g \notin Held(S, side)
                   /\ Held(S, side)' = IF S \subseteq ItemsOf(job.rows, g, side)
                                       THEN Held(S, side) \cup {g} ELSE Held(S, side)
  BY <1>1, <1>2, HeldGrows
<1> HIDE DEF g, body, head
<1>5. ASSUME NEW N \in DOMAIN bodySupp'
      PROVE  bodySupp'[N] = Size(Held(N, "body")')
  <2>1. N \in DOMAIN bodySupp /\ bodySupp'[N] = IF N \subseteq body THEN bodySupp[N] + 1 ELSE bodySupp[N]
    BY <1>1, AddKeepsNodes
  <2>2. IsFiniteSet(Held(N, "body")) /\ bodySupp[N] = Size(Held(N, "body"))
    BY <1>3, <2>1, HeldFinite
  <2>3. /\ g \notin Held(N, "body")
        /\ Held(N, "body")' = IF N \subseteq body THEN Held(N, "body") \cup {g} ELSE Held(N, "body")
    BY <1>4 DEF body
  <2>4. CASE N \subseteq body
    BY <2>1, <2>2, <2>3, <2>4, OneMore
  <2>5. CASE ~(N \subseteq body)
    BY <2>1, <2>2, <2>3, <2>5
  <2>6. QED  BY <2>4, <2>5
<1>6. ASSUME NEW p \in DOMAIN ruleSupp'
      PROVE  ruleSupp'[p] = Size(HeldRule(p[1], p[2])')
  <2> DEFINE in == p[1] \subseteq body /\ p[2] \subseteq head
  <2>1. p \in DOMAIN ruleSupp
    BY <1>1, AddKeepsNodes
  <2>2. p[2] # {} /\ p[1] \in NonEmpty /\ p[2] \in NonEmpty /\ ruleSupp[p] = Size(HeldRule(p[1], p[2]))
    BY <1>3, <2>1 DEF NonEmpty
  <2>3. ruleSupp'[p] = IF in THEN ruleSupp[p] + 1 ELSE ruleSupp[p]
    <3>1. CASE ruleSupp' = ruleSupp /\ head = {}
      BY <2>2, <3>1
    <3>2. CASE ruleSupp' = Add(ruleSupp, {n \in DOMAIN ruleSupp : n[1] \subseteq body /\ n[2] \subseteq head}, 1)
      BY <2>1, <3>2, AddKeepsNodes
    <3>3. QED  BY <1>1, <3>1, <3>2
  <2>4. IsFiniteSet(HeldRule(p[1], p[2])) /\ g \notin HeldRule(p[1], p[2])
    <3>1. IsFiniteSet(Held(p[1], "body")) /\ HeldRule(p[1], p[2]) \subseteq Held(p[1], "body")
      BY <2>2, HeldFinite DEF HeldRule
    <3>2. QED  BY <1>4, <3>1, FS_Subset
  <2>5. HeldRule(p[1], p[2])' = IF in THEN HeldRule(p[1], p[2]) \cup {g} ELSE HeldRule(p[1], p[2])
    <3>1. \A B, H : HeldRule(B, H)' = Held(B, "body")' \cap Held(H, "head")'
      BY DEF HeldRule
    <3>2. /\ Held(p[1], "body")' = IF p[1] \subseteq body THEN Held(p[1], "body") \cup {g} ELSE Held(p[1], "body")
          /\ Held(p[2], "head")' = IF p[2] \subseteq head THEN Held(p[2], "head") \cup {g} ELSE Held(p[2], "head")
          /\ g \notin Held(p[1], "body") /\ g \notin Held(p[2], "head")
      BY <1>4 DEF body, head
    <3>3. QED  BY <3>1, <3>2 DEF HeldRule
  <2> HIDE DEF in
  <2>6. CASE in
    BY <2>2, <2>3, <2>4, <2>5, <2>6, OneMore
  <2>7. CASE ~in
    BY <2>2, <2>3, <2>5, <2>7
  <2>8. QED  BY <2>6, <2>7
<1>7. QED  BY <1>5, <1>6 DEF SuppInv


(* A group supports under the new condition what it supported under the    *)
(* past one, without the items it lost.                                    *)
LostRows(side) == {k \in DOMAIN job.rows : Past[k][side] /\ ~job.rows[k][side]}
LostItems(g, side) == ItemsAt(Past, LostRows(side), g)

LEMMA TreeInContext ==
  ASSUME JobInv, ChoiceInv, QueryInv, Treeing
  PROVE  /\ ~job.itemDependent /\ InContext(job) /\ Len(job.new.condition.clauses) <= 1
         /\ algorithm = Algorithm
<1>1. algorithm = Algorithm /\ algorithm \in {"Constructive", "Destructive"}
  BY DEF Treeing, ChoiceInv, QueryInv
<1>2. ~job.itemDependent /\ ~(Len(job.new.condition.clauses) > 1)
  BY <1>1 DEF Algorithm
<1>3. Len(job.new.condition.clauses) \in Nat
  <2>1. job.new \in Minerule
    BY JobFacts
  <2>2. job.new.condition \in Condition
    BY <2>1 DEF Minerule
  <2>3. job.new.condition.clauses \in Seq(Clause)
    BY <2>2 DEF Condition
  <2>4. QED  BY <2>3
<1>4. InContext(job)
  BY <1>2 DEF JobInv, Answerable
<1>5. QED  BY <1>1, <1>2, <1>3, <1>4

LEMMA GroupHeld ==
  ASSUME JobInv, InContext(job), BothInStep, NEW S, NEW g, NEW side \in Sides
  PROVE  S \subseteq ItemsOf(job.rows, g, side) <=>
           S \subseteq ItemsOf(Past, g, side) /\ S \cap LostItems(g, side) = {}
<1> DEFINE t == job.rows
<1>1. /\ DOMAIN Past = DOMAIN t
      /\ \A k \in DOMAIN t : Past[k].gid = t[k].gid /\ Past[k].item = t[k].item
  BY JobFacts, AsPastRows DEF Past
<1>2. \A k \in DOMAIN t : t[k][side] => Past[k][side]
  <2>1. \A k \in DOMAIN t : /\ t[k].body => Past[k].body
                            /\ t[k].head => Past[k].head
    <3>1. \A k \in DOMAIN t : Past[k].body = t[k].pastBody /\ Past[k].head = t[k].pastHead
      BY JobFacts, AsPastRows DEF Past
    <3>2. QED  BY <3>1 DEF InContext
  <2>2. QED  BY <2>1 DEF Sides
<1>3. \A i, j \in DOMAIN t : t[i].gid = t[j].gid /\ t[i].item = t[j].item /\ Past[i][side] /\ Past[j][side]
        => t[i][side] = t[j][side]
  BY DEF BothInStep, Past
<1>4. ItemsOf(t, g, side) = {t[k].item : k \in {i \in DOMAIN t : t[i].gid = g /\ t[i][side]}}
  BY DEF ItemsOf
<1>5. ItemsOf(Past, g, side) = {Past[k].item : k \in {i \in DOMAIN t : Past[i].gid = g /\ Past[i][side]}}
  BY <1>1 DEF ItemsOf
<1>6. LostItems(g, side) = {Past[k].item : k \in {j \in LostRows(side) : Past[j].gid = g}}
  BY DEF LostItems, ItemsAt
<1>7. LostRows(side) = {k \in DOMAIN t : Past[k][side] /\ ~t[k][side]}
  BY DEF LostRows
<1> HIDE DEF t
<1>8. ASSUME NEW i, i \in ItemsOf(t, g, side)
      PROVE  i \in ItemsOf(Past, g, side) /\ i \notin LostItems(g, side)
  <2>1. PICK k \in DOMAIN t : t[k].gid = g /\ t[k][side] /\ i = t[k].item
    BY <1>4, <1>8
  <2>2. Past[k].gid = g /\ Past[k][side] /\ i = Past[k].item
    BY <1>1, <1>2, <2>1
  <2>3. i \in ItemsOf(Past, g, side)
    BY <1>5, <2>2
  <2>4. ASSUME NEW j \in LostRows(side), Past[j].gid = g, Past[j].item = i
        PROVE  FALSE
    <3>1. j \in DOMAIN t /\ Past[j][side] /\ ~t[j][side]
      BY <1>7, <2>4
    <3>2. t[j].gid = t[k].gid /\ t[j].item = t[k].item
      BY <1>1, <2>1, <2>4, <3>1
    <3>3. t[j][side] = t[k][side]
      BY <1>3, <2>1, <2>2, <3>1, <3>2
    <3>4. QED  BY <2>1, <3>1, <3>3
  <2>5. QED  BY <1>6, <2>3, <2>4
<1>9. ASSUME NEW i, i \in ItemsOf(Past, g, side), i \notin LostItems(g, side)
      PROVE  i \in ItemsOf(t, g, side)
  <2>1. PICK k \in DOMAIN t : Past[k].gid = g /\ Past[k][side] /\ i = Past[k].item
    BY <1>5, <1>9
  <2>2. t[k][side]
    BY <1>6, <1>7, <1>9, <2>1
  <2>3. t[k].gid = g /\ i = t[k].item
    BY <1>1, <2>1
  <2>4. QED  BY <1>4, <2>2, <2>3
<1>10. QED  BY <1>8, <1>9 DEF t

(* A group read by DestrTree no longer counts for what it lost.            *)
LEMMA HeldShrinks ==
  ASSUME JobInv, InContext(job), BothInStep, job' = job, algorithm' = algorithm, Destructs,
         ThisGroup \in Groups, ThisGroup \notin ReadGroups, ReadGroups' = ReadGroups \cup {ThisGroup},
         NEW S, NEW side \in Sides
  PROVE  /\ ThisGroup \in Held(S, side) <=> S \subseteq ItemsOf(Past, ThisGroup, side)
         /\ Held(S, side)' = IF S \cap LostItems(ThisGroup, side) # {}
                             THEN Held(S, side) \ {ThisGroup} ELSE Held(S, side)
<1> DEFINE g == ThisGroup
           new == Supports(job.rows, S, side)
           past == Supports(Past, S, side)
<1>1. Destructs' /\ Past' = Past
  BY DEF Destructs, Past
<1>2. /\ Held(S, side) = (new \cap ReadGroups) \cup (past \ ReadGroups)
      /\ Held(S, side)' = (new \cap (ReadGroups \cup {g})) \cup (past \ (ReadGroups \cup {g}))
  BY <1>1 DEF Held
<1>3. /\ g \in new <=> S \subseteq ItemsOf(job.rows, g, side)
      /\ g \in past <=> S \subseteq ItemsOf(Past, g, side)
  BY DEF Supports
<1>4. g \in new <=> g \in past /\ S \cap LostItems(g, side) = {}
  BY <1>3, GroupHeld
<1> HIDE DEF g, new, past
<1>5. g \notin ReadGroups
  BY DEF g
<1>6. g \in Held(S, side) <=> g \in past
  BY <1>2, <1>5
<1>7. Held(S, side)' = IF S \cap LostItems(g, side) # {} THEN Held(S, side) \ {g} ELSE Held(S, side)
  BY <1>2, <1>4, <1>5
<1>8. QED  BY <1>3, <1>6, <1>7 DEF g

(* What an iteration of DestrTree takes from a node, and from a rule.      *)
LEMMA DestructiveCounts ==
  ASSUME JobInv, ChoiceInv, QueryInv, CursorInv, NodesInv, SuppInv, ReadDestructive, InStep
  PROVE  SuppInv'
<1> DEFINE g == ThisGroup
<1>1. /\ DestrGroup \/ DestrNothing
      /\ bodySupp' = Add(bodySupp, LostBodies, -1) /\ ruleSupp' = Add(ruleSupp, LostRules, -1)
  BY DestructiveReads
<1>2. Treeing /\ Destructs /\ job' = job /\ algorithm' = algorithm /\ results' = results /\ left' = left
  BY DEF ReadDestructive, Treeing, Destructs
<1>3. InContext(job) /\ BothInStep
  BY <1>2, TreeInContext DEF InStep, Destructs
<1>4. /\ \A N \in DOMAIN bodySupp : N \in NonEmpty
      /\ \A N \in DOMAIN bodySupp : SureBody(N) => bodySupp[N] = Size(Held(N, "body"))
      /\ \A p \in DOMAIN ruleSupp : p[1] \in NonEmpty /\ p[2] \in NonEmpty
      /\ \A p \in DOMAIN ruleSupp : SureRule(p[1], p[2]) => ruleSupp[p] = Size(HeldRule(p[1], p[2]))
  BY <1>2 DEF NodesInv, SuppInv
<1>5. /\ \A N : SureBody(N)' = SureBody(N)
      /\ \A B, H : SureRule(B, H)' = SureRule(B, H)
  BY <1>2 DEF SureBody, SureRule, Destructs, IsInserted
<1>6. CASE DestrNothing
  <2>1. ReadGroups' = ReadGroups /\ LostBodies = {} /\ LostRules = {}
    BY <1>6 DEF DestrNothing, LostBodies, LostRules
  <2>2. /\ DOMAIN bodySupp' = DOMAIN bodySupp /\ \A N \in DOMAIN bodySupp : bodySupp'[N] = bodySupp[N]
        /\ DOMAIN ruleSupp' = DOMAIN ruleSupp /\ \A p \in DOMAIN ruleSupp : ruleSupp'[p] = ruleSupp[p]
    BY <1>1, <2>1, AddKeepsNodes
  <2>3. /\ \A S, side : Held(S, side)' = Held(S, side)
        /\ \A B, H : HeldRule(B, H)' = HeldRule(B, H)
    BY <1>2, <2>1, SameHeld
  <2>4. QED  BY <1>4, <1>5, <2>2, <2>3 DEF SuppInv
<1>7. CASE DestrGroup
  <2> DEFINE lostB == LostItems(g, "body")
             lostH == LostItems(g, "head")
  <2>1. LostRows("body") = BodiesLost /\ LostRows("head") = HeadsLost
    <3>1. DOMAIN Past = DOMAIN job.rows
      BY JobFacts, AsPastRows DEF Past
    <3>2. job.new.condition.sides = {"body", "head"}
      BY <1>3 DEF BothInStep, Sides
    <3>3. QED  BY <3>1, <3>2 DEF LostRows, BodiesLost, HeadsLost, BodyRows, HeadRows, NotQuery2
  <2>2. /\ g \in Groups /\ g \notin ReadGroups /\ ReadGroups' = ReadGroups \cup {g}
        /\ chunk'.b = ItemsOf(Past, g, "body") /\ chunk'.h = ItemsOf(Past, g, "head")
        /\ chunk'.bOut = lostB /\ chunk'.hOut = lostH
    BY <1>7, <2>1, ItemsAtRows DEF DestrGroup, LostItems
  <2>3. \A S : \A side \in Sides :
          /\ g \in Held(S, side) <=> S \subseteq ItemsOf(Past, g, side)
          /\ Held(S, side)' = IF S \cap LostItems(g, side) # {} THEN Held(S, side) \ {g} ELSE Held(S, side)
    BY <1>2, <1>3, <2>2, HeldShrinks
  <2>4. \A S : /\ g \in Held(S, "body") <=> S \subseteq chunk'.b
               /\ g \in Held(S, "head") <=> S \subseteq chunk'.h
               /\ Held(S, "body")' = IF S \cap lostB # {} THEN Held(S, "body") \ {g} ELSE Held(S, "body")
               /\ Held(S, "head")' = IF S \cap lostH # {} THEN Held(S, "head") \ {g} ELSE Held(S, "head")
    BY <2>2, <2>3 DEF Sides
  <2> HIDE DEF g, lostB, lostH
  <2>5. ASSUME NEW N \in DOMAIN bodySupp', SureBody(N)'
        PROVE  bodySupp'[N] = Size(Held(N, "body")')
    <3>1. N \in DOMAIN bodySupp /\ bodySupp'[N] = IF N \in LostBodies THEN bodySupp[N] + (-1) ELSE bodySupp[N]
      BY <1>1, AddKeepsNodes
    <3>2. IsFiniteSet(Held(N, "body")) /\ bodySupp[N] = Size(Held(N, "body"))
      BY <1>4, <1>5, <2>5, <3>1, HeldFinite
    <3>3. N \in LostBodies <=> N \subseteq chunk'.b /\ N \cap lostB # {}
      BY <2>2, <3>1 DEF LostBodies
    <3>4. CASE N \in LostBodies
      <4>1. g \in Held(N, "body") /\ Held(N, "body")' = Held(N, "body") \ {g}
        BY <2>4, <3>3, <3>4
      <4>2. QED  BY <3>1, <3>2, <3>4, <4>1, OneLess
    <3>5. CASE N \notin LostBodies
      <4>1. Held(N, "body")' = Held(N, "body")
        <5>1. g \notin Held(N, "body") => Held(N, "body") \ {g} = Held(N, "body")
          OBVIOUS
        <5>2. QED  BY <2>4, <3>3, <3>5, <5>1
      <4>2. QED  BY <3>1, <3>2, <3>5, <4>1
    <3>6. QED  BY <3>4, <3>5
  <2>6. ASSUME NEW p \in DOMAIN ruleSupp', SureRule(p[1], p[2])'
        PROVE  ruleSupp'[p] = Size(HeldRule(p[1], p[2])')
    <3>1. p \in DOMAIN ruleSupp /\ ruleSupp'[p] = IF p \in LostRules THEN ruleSupp[p] + (-1) ELSE ruleSupp[p]
      BY <1>1, AddKeepsNodes
    <3>2. IsFiniteSet(HeldRule(p[1], p[2])) /\ ruleSupp[p] = Size(HeldRule(p[1], p[2]))
      <4>1. IsFiniteSet(Held(p[1], "body")) /\ HeldRule(p[1], p[2]) \subseteq Held(p[1], "body")
        BY <1>4, <3>1, HeldFinite DEF HeldRule
      <4>2. ruleSupp[p] = Size(HeldRule(p[1], p[2]))
        BY <1>4, <1>5, <2>6, <3>1
      <4>3. QED  BY <4>1, <4>2, FS_Subset
    <3>3. p \in LostRules <=> /\ p[1] \subseteq chunk'.b /\ p[2] \subseteq chunk'.h
                              /\ p[1] \cap lostB # {} \/ p[2] \cap lostH # {}
      BY <2>2, <3>1 DEF LostRules
    <3>4. \A B, H : HeldRule(B, H)' = Held(B, "body")' \cap Held(H, "head")'
      BY DEF HeldRule
    <3>5. CASE p \in LostRules
      <4>1. g \in HeldRule(p[1], p[2]) /\ HeldRule(p[1], p[2])' = HeldRule(p[1], p[2]) \ {g}
        BY <2>4, <3>3, <3>4, <3>5 DEF HeldRule
      <4>2. QED  BY <3>1, <3>2, <3>5, <4>1, OneLess
    <3>6. CASE p \notin LostRules
      <4>1. HeldRule(p[1], p[2])' = HeldRule(p[1], p[2])
        BY <2>4, <3>3, <3>4, <3>6 DEF HeldRule
      <4>2. QED  BY <3>1, <3>2, <3>6, <4>1
    <3>7. QED  BY <3>5, <3>6
  <2>7. QED  BY <2>5, <2>6 DEF SuppInv
<1>8. QED  BY <1>1, <1>6, <1>7


(* Before a group is read, a past rule has the support of the past result. *)
LEMMA HeldAtFirst ==
  ASSUME JobInv, ReadGroups = {}
  PROVE  /\ ~Destructs => \A B, H : Size(Held(B, "body")) = 0 /\ Size(HeldRule(B, H)) = 0
         /\ Destructs => \A r : PastRule(1, r) => /\ r.support = Size(Held(r.body, "body"))
                                                  /\ r.gids = Size(HeldRule(r.body, r.head))
<1>1. ASSUME ~Destructs  PROVE \A B, H : Size(Held(B, "body")) = 0 /\ Size(HeldRule(B, H)) = 0
  <2>1. \A S, side : Held(S, side) = {}
    BY <1>1 DEF Held
  <2>2. \A B, H : HeldRule(B, H) = {}
    BY <2>1 DEF HeldRule
  <2>3. Size({}) = 0
    BY FS_EmptySet DEF Size
  <2>4. QED  BY <2>1, <2>2, <2>3
<1>2. ASSUME Destructs, NEW r, PastRule(1, r)
      PROVE  r.support = Size(Held(r.body, "body")) /\ r.gids = Size(HeldRule(r.body, r.head))
  <2>1. r = Counts(Past, r.body, r.head)
    BY <1>2 DEF PastRule, IsRule, Past
  <2>2. \A S, side : Held(S, side) = Supports(Past, S, side)
    BY <1>2 DEF Held
  <2>3. Counts(Past, r.body, r.head).support = Size(Supports(Past, r.body, "body"))
        /\ Counts(Past, r.body, r.head).gids = Size(Supports(Past, r.body, "body") \cap Supports(Past, r.head, "head"))
    BY DEF Counts
  <2>4. QED  BY <2>1, <2>2, <2>3 DEF HeldRule
<1>3. QED  BY <1>1, <1>2

LEMMA RuleCounted ==
  ASSUME JobInv, ChoiceInv, QueryInv, CursorInv, NodesInv, SuppInv, Insert, InStep
  PROVE  SuppInv'
<1> DEFINE r == NextRule
           B == r.body
           H == r.head
           s == IF Destructs THEN r.support ELSE 0
           n == IF Destructs THEN r.gids ELSE 0
<1>1. /\ r \in left /\ r \in results[1] /\ PastRule(1, r) /\ B \in NonEmpty /\ H \in NonEmpty
  BY InsertedRule
<1>2. /\ phase = "load" /\ job' = job /\ algorithm' = algorithm /\ results' = results
      /\ left' = left \ {r} /\ query' = query /\ cursor' = cursor
      /\ bodySupp' = InsertBody(B, s) /\ ruleSupp' = InsertHead(B, H, n)
  BY DEF Insert, reading, Destructs
<1>3. Treeing /\ ReadGroups = {} /\ ReadGroups' = ReadGroups /\ Destructs' = Destructs
  BY <1>2 DEF Treeing, CursorInv, ReadGroups, Destructs
<1>4. /\ \A S, side : Held(S, side)' = Held(S, side)
      /\ \A C, K : HeldRule(C, K)' = HeldRule(C, K)
  BY <1>2, <1>3, SameHeld
<1>5. s = Size(Held(B, "body")) /\ n = Size(HeldRule(B, H))
  BY <1>1, <1>3, HeldAtFirst
<1>6. /\ \A N \in DOMAIN bodySupp : SureBody(N) => bodySupp[N] = Size(Held(N, "body"))
      /\ \A p \in DOMAIN ruleSupp : SureRule(p[1], p[2]) => ruleSupp[p] = Size(HeldRule(p[1], p[2]))
      /\ \A t : IsInserted(t) => t.body \in DOMAIN bodySupp /\ <<t.body, t.head>> \in DOMAIN ruleSupp
  BY <1>3 DEF SuppInv, NodesInv
<1>7. \A t : IsInserted(t)' => IsInserted(t) \/ t = r
  BY <1>2 DEF IsInserted
<1> HIDE DEF r
<1>8. ASSUME NEW N \in DOMAIN bodySupp', SureBody(N)'
      PROVE  bodySupp'[N] = Size(Held(N, "body"))
  <2>1. bodySupp'[N] = IF N = B THEN s ELSE IF N \in DOMAIN bodySupp THEN bodySupp[N] ELSE 0
    BY <1>2, <1>8 DEF InsertBody
  <2>2. CASE N = B
    BY <1>5, <2>1, <2>2
  <2>3. CASE N # B /\ Destructs
    <3>1. PICK t : IsInserted(t)' /\ t.body = N
      BY <1>3, <1>8, <2>3 DEF SureBody
    <3>2. IsInserted(t)
      BY <1>7, <2>3, <3>1
    <3>3. N \in DOMAIN bodySupp /\ SureBody(N)
      BY <1>6, <3>1, <3>2 DEF SureBody
    <3>4. QED  BY <1>6, <2>1, <2>3, <3>3
  <2>4. CASE N # B /\ ~Destructs
    <3>1. Size(Held(N, "body")) = 0 /\ SureBody(N)
      BY <1>3, <2>4, HeldAtFirst DEF SureBody
    <3>2. QED  BY <1>6, <2>1, <2>4, <3>1
  <2>5. QED  BY <2>2, <2>3, <2>4
<1>9. ASSUME NEW p \in DOMAIN ruleSupp', SureRule(p[1], p[2])'
      PROVE  ruleSupp'[p] = Size(HeldRule(p[1], p[2]))
  <2>1. /\ ruleSupp'[p] = IF p = <<B, H>> \/ p \notin DOMAIN ruleSupp THEN n ELSE ruleSupp[p]
        /\ p \in DOMAIN ruleSupp \/ p = <<p[1], p[2]>>
    BY <1>2, <1>9 DEF InsertHead
  <2>2. CASE p = <<B, H>>
    BY <1>5, <2>1, <2>2
  <2>3. CASE p # <<B, H>> /\ Destructs
    <3>1. PICK t : IsInserted(t)' /\ t.body = p[1] /\ t.head = p[2]
      BY <1>3, <1>9, <2>3 DEF SureRule
    <3>2. p = <<p[1], p[2]>>
      BY <1>3, <2>1 DEF NodesInv
    <3>3. IsInserted(t)
      BY <1>7, <2>3, <3>1, <3>2
    <3>4. p \in DOMAIN ruleSupp /\ SureRule(p[1], p[2])
      BY <1>6, <3>1, <3>2, <3>3 DEF SureRule
    <3>5. QED  BY <1>6, <2>1, <2>3, <3>4
  <2>4. CASE p # <<B, H>> /\ ~Destructs
    <3>1. Size(HeldRule(p[1], p[2])) = 0 /\ SureRule(p[1], p[2])
      BY <1>3, <2>4, HeldAtFirst DEF SureRule
    <3>2. QED  BY <1>6, <2>1, <2>4, <3>1
  <2>5. QED  BY <2>2, <2>3, <2>4
<1>10. QED  BY <1>4, <1>8, <1>9 DEF SuppInv

LEMMA SuppStep ==
  ASSUME JobInv, ChoiceInv, QueryInv, CursorInv, NodesInv, SuppInv, [Next]_vars
  PROVE  SuppInv'
<1>1. job' = job /\ InStep' = InStep
  BY JobStep, SameJob
<1>2. SUFFICES ASSUME InStep, Treeing'
               PROVE  SuppInv'
  BY <1>1 DEF SuppInv
<1>3. CASE Insert
  BY <1>2, <1>3, RuleCounted
<1>4. CASE ReadConstructive
  BY <1>2, <1>4, ConstructiveCounts
<1>5. CASE ReadDestructive
  BY <1>2, <1>5, DestructiveCounts
<1>6. CASE Choose
  <2>1. bodySupp' = Empty /\ ruleSupp' = Empty
    BY <1>6 DEF Choose, tree, ChoiceInv, StartInv
  <2>2. DOMAIN bodySupp' = {} /\ DOMAIN ruleSupp' = {}
    BY <2>1 DEF Empty
  <2>3. QED  BY <2>2 DEF SuppInv
<1>7. CASE StartReading \/ EndReading \/ UNCHANGED vars
  <2>1. /\ algorithm' = algorithm /\ results' = results /\ left' = left /\ query' = query /\ cursor' = cursor
        /\ bodySupp' = bodySupp /\ ruleSupp' = ruleSupp
        /\ Treeing' => Treeing
    BY <1>7 DEF StartReading, EndReading, vars, reading, tree, Treeing
  <2>2. ReadGroups' = ReadGroups
    BY <2>1 DEF ReadGroups
  <2>3. /\ \A S, side : Held(S, side)' = Held(S, side)
        /\ \A B, H : HeldRule(B, H)' = HeldRule(B, H)
    BY <1>1, <2>1, <2>2, SameHeld
  <2>4. /\ \A N : SureBody(N)' = SureBody(N)
        /\ \A B, H : SureRule(B, H)' = SureRule(B, H)
    BY <2>1 DEF SureBody, SureRule, Destructs, IsInserted
  <2>5. Treeing
    BY <1>2, <2>1
  <2>6. QED  BY <1>2, <2>1, <2>3, <2>4, <2>5 DEF SuppInv
<1>8. CASE FilterRule \/ FilterEnd \/ LoadConjunct \/ UniteConjunct \/ SaveCombination \/ ExtractRules
  <2>1. ~Treeing'
    BY <1>8 DEF FilterRule, FilterEnd, LoadConjunct, UniteConjunct, Combining,
       SaveCombination, ExtractRules, Treeing
  <2>2. QED  BY <1>2, <2>1
<1>9. QED  BY <1>3, <1>4, <1>5, <1>6, <1>7, <1>8 DEF Next


LEMMA CountedThere ==
  ASSUME JobInv, ChoiceInv, QueryInv, NodesInv, SuppInv
  PROVE  Counted
<1> SUFFICES ASSUME phase \in {"read", "write"}, InStep, NEW r \in results[1]
             PROVE  /\ bodySupp[r.body] = Size(Held(r.body, "body"))
                    /\ ruleSupp[<<r.body, r.head>>] = Size(HeldRule(r.body, r.head))
  BY DEF Counted, Held, HeldRule, ReadGroups, GidsBefore, Destructs, Past
<1>1. Treeing /\ left = {}
  BY DEF Treeing, NodesInv
<1>2. IsInserted(r)
  BY <1>1 DEF IsInserted
<1>3. r.body \in DOMAIN bodySupp /\ <<r.body, r.head>> \in DOMAIN ruleSupp
  BY <1>1, <1>2 DEF NodesInv
<1>4. SureBody(r.body) /\ SureRule(r.body, r.head)
  BY <1>2 DEF SureBody, SureRule
<1>5. /\ <<r.body, r.head>>[1] = r.body /\ <<r.body, r.head>>[2] = r.head
  OBVIOUS
<1>6. QED  BY <1>1, <1>3, <1>4, <1>5 DEF SuppInv

(* Once all groups are read, the supports are those of the new condition.  *)
LEMMA HeldAtLast ==
  ASSUME JobInv, ChoiceInv, QueryInv, CursorInv, phase = "write", InStep, NEW B \in NonEmpty, NEW H
  PROVE  /\ Held(B, "body") = Supports(job.rows, B, "body")
         /\ HeldRule(B, H) = Supports(job.rows, B, "body") \cap Supports(job.rows, H, "head")
<1> DEFINE b == query["b"]
           new == Supports(job.rows, B, "body")
           past == Supports(Past, B, "body")
<1>1. Treeing /\ AfterLast(b, cursor["b"])
  BY DEF Treeing, CursorInv
<1>2. Returns(b, TreeTable, BodyRows(TreeTable)) /\ BetweenGroups(b, cursor["b"])
  BY <1>1, QueriesReturn DEF CursorInv
<1>3. 1 .. Len(b) \subseteq 1 .. cursor["b"] - 1
  BY <1>1, <1>2 DEF Returns, Result, AfterLast, BetweenGroups
<1>4. GroupsOf(TreeTable, "body") \subseteq ReadGroups
  <2>1. ASSUME NEW k \in DOMAIN TreeTable, TreeTable[k].body
        PROVE  TreeTable[k].gid \in ReadGroups
    <3>1. k \in BodyRows(TreeTable)
      BY <2>1 DEF BodyRows
    <3>2. PICK i \in 1 .. Len(b) : b[i] = TreeTable[k]
      BY <1>2, <3>1 DEF Returns
    <3>3. i \in 1 .. cursor["b"] - 1
      BY <1>3, <3>2
    <3>4. QED  BY <3>2, <3>3 DEF ReadGroups, GidsBefore
  <2>2. QED  BY <2>1 DEF GroupsOf
<1>5. job.rows \in Seq(PastRow) /\ Past \in Seq(PastRow)
  BY JobFacts, AsPastRows DEF Past
<1>6. new \subseteq GroupsOf(job.rows, "body") /\ past \subseteq GroupsOf(Past, "body")
  BY <1>5, SupportsFinite
<1>7. new \subseteq ReadGroups /\ (Destructs => past \subseteq ReadGroups)
  <2>1. CASE ~Destructs
    BY <1>4, <1>6, <2>1 DEF TreeTable
  <2>2. CASE Destructs
    <3>1. past \subseteq ReadGroups
      BY <1>4, <1>6, <2>2 DEF TreeTable
    <3>2. InContext(job) /\ BothInStep
      BY <1>1, <2>2, TreeInContext DEF InStep, Destructs
    <3>3. new \subseteq past
      BY <3>2, GroupHeld DEF Supports, Sides
    <3>4. QED  BY <3>1, <3>3
  <2>3. QED  BY <2>1, <2>2
<1> HIDE DEF new, past
<1>8. Held(B, "body") = (new \cap ReadGroups) \cup (IF Destructs THEN past \ ReadGroups ELSE {})
  BY DEF Held, new, past
<1>9. Held(B, "body") = new
  BY <1>7, <1>8
<1>10. new \cap Held(H, "head") = new \cap Supports(job.rows, H, "head")
  BY <1>7 DEF Held
<1>11. QED  BY <1>9, <1>10 DEF HeldRule, new

(* What a tree leaves behind.                                              *)
Recounted ==
  /\ \A r \in rules : r.body \in NonEmpty /\ r.head \in NonEmpty
  /\ HeadsFromOne => \A r \in rules : r = Counts(job.rows, r.body, r.head)
  /\ \A r \in results[1] :
       Frequent(job.new, Counts(job.rows, r.body, r.head).gids) => Counts(job.rows, r.body, r.head) \in rules

TreeDoneInv == phase = "done" /\ algorithm \in {"Constructive", "Destructive"} /\ InStep => Recounted

LEMMA RulesExtracted ==
  ASSUME JobInv, ChoiceInv, QueryInv, CursorInv, NodesInv, SuppInv, ExtractRules, InStep
  PROVE  Recounted'
<1> DEFINE rule(p) == [body |-> p[1], head |-> p[2], gids |-> ruleSupp[p], support |-> bodySupp[p[1]]]
           N(p) == Counts(job.rows, p[1], p[2])
<1>1. /\ phase = "write" /\ Treeing /\ job' = job /\ results' = results /\ left = {}
      /\ rules' = {rule(p) : p \in {n \in DOMAIN ruleSupp : Frequent(job.new, ruleSupp[n])}}
  BY DEF ExtractRules, Treeing, NodesInv
<1>2. \A p \in DOMAIN ruleSupp :
        p = <<p[1], p[2]>> /\ p[1] \in DOMAIN bodySupp /\ p[1] \in NonEmpty /\ p[2] \in NonEmpty
  BY <1>1 DEF NodesInv
<1>3. ASSUME NEW p \in DOMAIN ruleSupp, SureRule(p[1], p[2])
      PROVE  rule(p) = N(p) /\ ruleSupp[p] = N(p).gids
  <2>1. SureBody(p[1])
    BY <1>3 DEF SureRule, SureBody
  <2>2. bodySupp[p[1]] = Size(Held(p[1], "body")) /\ ruleSupp[p] = Size(HeldRule(p[1], p[2]))
    BY <1>1, <1>2, <1>3, <2>1 DEF SuppInv
  <2>3. /\ Held(p[1], "body") = Supports(job.rows, p[1], "body")
        /\ HeldRule(p[1], p[2]) = Supports(job.rows, p[1], "body") \cap Supports(job.rows, p[2], "head")
    BY <1>1, <1>2, HeldAtLast
  <2>4. QED  BY <2>2, <2>3 DEF Counts
<1>4. ASSUME NEW r \in rules'
      PROVE  r.body \in NonEmpty /\ r.head \in NonEmpty /\ (HeadsFromOne => r = Counts(job.rows, r.body, r.head))
  <2>1. PICK p \in DOMAIN ruleSupp : r = rule(p)
    BY <1>1
  <2>2. r.body = p[1] /\ r.head = p[2]
    BY <2>1
  <2>3. HeadsFromOne => SureRule(p[1], p[2])
    <3>1. SUFFICES ASSUME HeadsFromOne, Destructs
                   PROVE  \E s : IsInserted(s) /\ s.body = p[1] /\ s.head = p[2]
      BY DEF SureRule
    <3>2. PICK s \in results[1] : p = <<s.body, s.head>>
      BY <1>1, <3>1 DEF NodesInv
    <3>3. IsInserted(s) /\ s.body = p[1] /\ s.head = p[2]
      BY <1>1, <3>2 DEF IsInserted
    <3>4. QED  BY <3>3
  <2>4. HeadsFromOne => r = N(p)
    BY <1>3, <2>1, <2>3
  <2>5. QED  BY <1>2, <2>2, <2>4
<1>5. ASSUME NEW r \in results[1], Frequent(job.new, Counts(job.rows, r.body, r.head).gids)
      PROVE  Counts(job.rows, r.body, r.head) \in rules'
  <2> DEFINE p == <<r.body, r.head>>
  <2>1. IsInserted(r)
    BY <1>1 DEF IsInserted
  <2>2. p \in DOMAIN ruleSupp /\ p[1] = r.body /\ p[2] = r.head /\ SureRule(p[1], p[2])
    BY <1>1, <2>1 DEF NodesInv, SureRule
  <2>3. rule(p) = Counts(job.rows, r.body, r.head) /\ Frequent(job.new, ruleSupp[p])
    BY <1>3, <1>5, <2>2
  <2> HIDE DEF p
  <2>4. p \in {n \in DOMAIN ruleSupp : Frequent(job.new, ruleSupp[n])}
    BY <2>2, <2>3
  <2>5. QED  BY <1>1, <2>3, <2>4
<1>6. HeadsFromOne' = HeadsFromOne /\ \A m, n : Frequent(m, n)' = Frequent(m, n)
  BY <1>1, SameJob
<1>7. QED  BY <1>1, <1>4, <1>5, <1>6 DEF Recounted

LEMMA TreeDoneStep ==
  ASSUME JobInv, ChoiceInv, QueryInv, CursorInv, NodesInv, SuppInv, TreeDoneInv, [Next]_vars
  PROVE  TreeDoneInv'
<1>1. job' = job /\ InStep' = InStep /\ HeadsFromOne' = HeadsFromOne /\ \A m, n : Frequent(m, n)' = Frequent(m, n)
  BY JobStep, SameJob
<1>2. CASE ExtractRules
  BY <1>1, <1>2, RulesExtracted DEF TreeDoneInv
<1>3. CASE UNCHANGED vars
  <2>1. phase' = phase /\ algorithm' = algorithm /\ rules' = rules /\ results' = results
    BY <1>3 DEF vars
  <2>2. Recounted' = Recounted
    BY <1>1, <2>1 DEF Recounted
  <2>3. QED  BY <1>1, <2>1, <2>2 DEF TreeDoneInv
<1>4. CASE ~ExtractRules /\ Next
  <2>1. ~(phase' = "done" /\ algorithm' \in {"Constructive", "Destructive"})
    BY <1>4 DEF Next, Choose, FilterRule, FilterEnd, LoadConjunct, UniteConjunct, Combining,
       SaveCombination, Insert, StartReading, ReadConstructive, EndReading, ReadDestructive,
       ChoiceInv, PhasesOf
  <2>2. QED  BY <2>1 DEF TreeDoneInv
<1>5. QED  BY <1>2, <1>3, <1>4


-----------------------------------------------------------------------------
(* The past minerules ask for no more, and accept what is accepted now.    *)

LEMMA MultiplyKeeps ==
  ASSUME NEW a \in Nat, NEW b \in Nat, a <= b, NEW c \in Nat
  PROVE  a * c <= b * c
<1>1. PICK d \in Nat : b = a + d
  <2>1. b - a \in Nat /\ b = a + (b - a)
    OBVIOUS
  <2>2. QED  BY <2>1
<1>2. b * c = a * c + d * c /\ a * c \in Nat /\ d * c \in Nat
  BY <1>1
<1>3. QED  BY <1>2

LEMMA Fractions ==
  ASSUME NEW n \in Nat, NEW N \in Nat, n <= N, NEW num \in Nat, NEW den \in Nat \ {0},
         NEW pastNum \in Nat, NEW pastDen \in Nat \ {0}, NEW total \in Nat,
         n * den >= num * total, pastNum * den <= num * pastDen
  PROVE  N * pastDen >= pastNum * total
<1>1. (n * den) * pastDen >= (num * total) * pastDen
  BY MultiplyKeeps
<1>2. (pastNum * den) * total <= (num * pastDen) * total
  BY MultiplyKeeps
<1>3. (num * total) * pastDen = (num * pastDen) * total
  OBVIOUS
<1>4. (n * den) * pastDen = (n * pastDen) * den /\ (pastNum * den) * total = (pastNum * total) * den
  OBVIOUS
<1> DEFINE x == n * pastDen
           y == pastNum * total
<1>5. x \in Nat /\ y \in Nat /\ (num * pastDen) * total \in Nat
  OBVIOUS
<1>6. x * den >= y * den
  BY <1>1, <1>2, <1>3, <1>4, <1>5
<1> HIDE DEF x, y
<1>7. x >= y
  <2>1. SUFFICES ASSUME y >= x + 1  PROVE FALSE
    BY <1>5
  <2>2. y * den >= (x + 1) * den
    BY <1>5, <2>1, MultiplyKeeps
  <2>3. (x + 1) * den = x * den + den /\ x * den \in Nat /\ y * den \in Nat
    BY <1>5
  <2>4. QED  BY <1>6, <2>2, <2>3
<1>8. N * pastDen >= n * pastDen
  BY MultiplyKeeps
<1>9. N * pastDen \in Nat
  OBVIOUS
<1>10. QED  BY <1>5, <1>7, <1>8, <1>9 DEF x, y

(* What the new minerule finds, a past one that accepts it found too.      *)
LEMMA FoundBefore ==
  ASSUME JobInv, NEW k \in DOMAIN job.pasts, NEW r, IsRule(r, job.new, job.rows),
         Accepts(job.pasts[k].condition, r.body, r.head),
         \A S : \A side \in Sides : Supports(job.rows, S, side) \subseteq Supports(Past, S, side)
  PROVE  PastRule(k, Counts(Past, r.body, r.head))
<1> DEFINE B == r.body
           H == r.head
           s == Counts(Past, B, H)
           m == job.pasts[k]
           X == Supports(job.rows, B, "body") \cap Supports(job.rows, H, "head")
           Y == Supports(Past, B, "body") \cap Supports(Past, H, "head")
<1>1. /\ B \in NonEmpty /\ H \in NonEmpty /\ B \cap H = {}
      /\ r = Counts(job.rows, B, H) /\ r.gids > 0 /\ Frequent(job.new, r.gids) /\ Within(r, job.new)
  BY DEF IsRule
<1>2. s.body = B /\ s.head = H /\ s.gids = Size(Y) /\ Counts(job.rows, B, H).gids = Size(X)
  BY DEF Counts
<1>3. m \in Minerule /\ job.new \in Minerule /\ AsksNoMore(m, job.new)
  BY JobFacts DEF JobInv, Answerable
<1>4. Size(X) <= Size(Y) /\ Size(X) \in Nat /\ Size(Y) \in Nat
  <2>1. X \subseteq Y
    BY DEF Sides
  <2>2. Past \in Seq(PastRow)
    BY JobFacts, AsPastRows DEF Past
  <2>3. IsFiniteSet(Y)
    <3>1. IsFiniteSet(Supports(Past, B, "body"))
      BY <1>1, <2>2, SupportsFinite
    <3>2. Y \subseteq Supports(Past, B, "body")
      OBVIOUS
    <3> HIDE DEF Y
    <3>3. QED  BY <3>1, <3>2, FS_Subset
  <2> HIDE DEF X, Y
  <2>4. IsFiniteSet(X) /\ Cardinality(X) <= Cardinality(Y)
    BY <2>1, <2>3, FS_Subset
  <2>5. QED  BY <2>3, <2>4, FS_CardinalityType DEF Size
<1> HIDE DEF X, Y
<1>5. r.gids = Size(X)
  BY <1>1, <1>2
<1>6. Frequent(m, s.gids)
  <2>1. Size(X) * job.new.den >= job.new.num * TotGroups(job.rows)
    BY <1>1, <1>5 DEF Frequent
  <2>2. m.num * job.new.den <= job.new.num * m.den
    BY <1>3 DEF AsksNoMore
  <2>3. /\ m.num \in Nat /\ job.new.num \in Nat
        /\ m.den \in Nat \ {0} /\ job.new.den \in Nat \ {0}
    BY <1>3 DEF Minerule
  <2>4. TotGroups(job.rows) \in Nat
    BY TotGroupsType
  <2> HIDE DEF m
  <2>5. Size(Y) * m.den >= m.num * TotGroups(job.rows)
    BY <1>4, <2>1, <2>2, <2>3, <2>4, Fractions
  <2>6. QED  BY <1>2, <2>5 DEF Frequent
<1>7. Within(s, m)
  <2>1. Size(B) \in job.new.body[1] .. job.new.body[2] /\ Size(H) \in job.new.head[1] .. job.new.head[2]
    BY <1>1 DEF Within
  <2>2. /\ m.body[1] <= job.new.body[1] /\ job.new.body[2] <= m.body[2]
        /\ m.head[1] <= job.new.head[1] /\ job.new.head[2] <= m.head[2]
    BY <1>3 DEF AsksNoMore
  <2>3. /\ m.body[1] \in Nat /\ m.body[2] \in Nat /\ m.head[1] \in Nat /\ m.head[2] \in Nat
        /\ job.new.body[1] \in Nat /\ job.new.body[2] \in Nat
        /\ job.new.head[1] \in Nat /\ job.new.head[2] \in Nat
    BY <1>3 DEF Minerule
  <2> HIDE DEF B, H, m
  <2>4. Size(B) \in m.body[1] .. m.body[2] /\ Size(H) \in m.head[1] .. m.head[2]
    BY <2>1, <2>2, <2>3
  <2>5. QED  BY <1>2, <2>4 DEF Within
<1>8. s.gids > 0
  BY <1>1, <1>2, <1>4, <1>5
<1>9. Accepts(m.condition, s.body, s.head)
  BY <1>2
<1> HIDE DEF s
<1>10. QED  BY <1>1, <1>2, <1>6, <1>7, <1>8, <1>9 DEF PastRule, IsRule, Past, s

(* With conditions over items, the rows satisfy both conditions alike.     *)
LEMMA ItemsAlone ==
  ASSUME JobInv, ChoiceInv, phase = "done", algorithm \in {"Filter", "Combinator"}
  PROVE  /\ Past = job.rows
         /\ algorithm = "Combinator" =>
              \A B, H \in SUBSET Items : Accepts(job.new.condition, B, H) <=> AcceptedByPasts(job, B, H)
         /\ algorithm = "Filter" =>
              \A B, H \in SUBSET Items :
                Accepts(job.new.condition, B, H) => Accepts(job.pasts[1].condition, B, H)
<1>1. algorithm = Algorithm
  BY DEF ChoiceInv
<1>2. job.itemDependent /\ (algorithm = "Combinator" <=> job.relationship = "Combination")
  BY <1>1 DEF Algorithm
<1>3. OverItems(job)
  BY <1>2 DEF JobInv, Answerable
<1>4. QED  BY <1>2, <1>3 DEF OverItems, Past

LEMMA DoneAlgorithms ==
  ASSUME ChoiceInv, phase = "done"
  PROVE  algorithm \in {"Filter", "Combinator", "Constructive", "Destructive"} /\ ResultsInv
         /\ algorithm = Algorithm
BY AlgorithmType DEF ChoiceInv, PhasesOf

LEMMA TreeJob ==
  ASSUME JobInv, ChoiceInv, phase = "done", algorithm \in {"Constructive", "Destructive"}
  PROVE  /\ \A B, H \in SUBSET Items : /\ Accepts(job.new.condition, B, H)
                                       /\ Accepts(job.pasts[1].condition, B, H)
         /\ \A S : \A side \in Sides : Supports(job.rows, S, side) \subseteq Supports(Past, S, side)
<1>1. algorithm = Algorithm
  BY DEF ChoiceInv
<1>2. ~job.itemDependent /\ ~(Len(job.new.condition.clauses) > 1)
  BY <1>1 DEF Algorithm
<1>3. Len(job.new.condition.clauses) \in Nat
  <2>1. job.new \in Minerule
    BY JobFacts
  <2>2. job.new.condition \in Condition
    BY <2>1 DEF Minerule
  <2>3. job.new.condition.clauses \in Seq(Clause)
    BY <2>2 DEF Condition
  <2>4. QED  BY <2>3
<1>4. InContext(job)
  BY <1>2 DEF JobInv, Answerable
<1>5. TakesAll(job.new.condition) /\ TakesAll(job.pasts[1].condition)
  BY <1>2, <1>3, <1>4 DEF InContext
<1>6. \A c : TakesAll(c) => \A B, H \in SUBSET Items : Accepts(c, B, H)
  BY DEF TakesAll, Accepts
<1>7. \A k \in DOMAIN job.rows : \A side \in Sides : job.rows[k][side] => Past[k][side]
  <2>1. \A k \in DOMAIN job.rows : Past[k].body = job.rows[k].pastBody /\ Past[k].head = job.rows[k].pastHead
    BY JobFacts, AsPastRows DEF Past
  <2>2. \A k \in DOMAIN job.rows : /\ job.rows[k].body => Past[k].body
                                   /\ job.rows[k].head => Past[k].head
    BY <1>4, <2>1 DEF InContext
  <2>3. QED  BY <2>2 DEF Sides
<1>8. ASSUME NEW g, NEW side \in Sides
      PROVE  ItemsOf(job.rows, g, side) \subseteq ItemsOf(Past, g, side)
  <2>1. DOMAIN Past = DOMAIN job.rows
        /\ \A k \in DOMAIN job.rows : Past[k].gid = job.rows[k].gid /\ Past[k].item = job.rows[k].item
    BY JobFacts, AsPastRows DEF Past
  <2>2. ASSUME NEW i \in ItemsOf(job.rows, g, side)  PROVE i \in ItemsOf(Past, g, side)
    <3>1. PICK k \in DOMAIN job.rows : job.rows[k].gid = g /\ job.rows[k][side] /\ i = job.rows[k].item
      BY <2>2 DEF ItemsOf
    <3>2. k \in DOMAIN Past /\ Past[k].gid = g /\ Past[k][side] /\ i = Past[k].item
      BY <1>7, <2>1, <3>1
    <3>3. QED  BY <3>2 DEF ItemsOf
  <2>3. QED  BY <2>2
<1>9. \A S : \A side \in Sides : Supports(job.rows, S, side) \subseteq Supports(Past, S, side)
  BY <1>8 DEF Supports
<1>10. QED  BY <1>5, <1>6, <1>9


-----------------------------------------------------------------------------
(* Sound and Complete, for each way to an answer.                          *)

LEMMA FilterAnswers ==
  ASSUME JobInv, ChoiceInv, FilterInv, phase = "done", algorithm = "Filter"
  PROVE  Sound /\ Complete
<1>1. /\ \A r : r \in rules <=> FilterTakes(r)
      /\ Past = job.rows /\ ResultsInv
      /\ \A B, H \in SUBSET Items :
           Accepts(job.new.condition, B, H) => Accepts(job.pasts[1].condition, B, H)
  BY ItemsAlone, DoneAlgorithms DEF FilterInv
<1>2. \A r : r \in results[1] <=> PastRule(1, r)
  BY <1>1, JobFacts DEF ResultsInv
<1>3. ASSUME NEW r \in rules
      PROVE  r = Counts(job.rows, r.body, r.head) /\ Accepts(job.new.condition, r.body, r.head)
  BY <1>1, <1>2 DEF FilterTakes, CheckInValidRules, PastRule, IsRule, Past
<1>4. ASSUME \A k \in DOMAIN job.pasts : job.pasts[k].conf = job.new.conf,
             NEW r \in Answer(job.new, job.rows), Confident(job.new.conf, r)
      PROVE  r \in rules
  <2>1. IsRule(r, job.new, job.rows)
    BY <1>4, AnswerIsRules
  <2>2. /\ r.body \in SUBSET Items /\ r.head \in SUBSET Items /\ r = Counts(Past, r.body, r.head)
        /\ Accepts(job.new.condition, r.body, r.head) /\ Within(r, job.new)
    BY <1>1, <2>1 DEF IsRule, NonEmpty
  <2>3. Accepts(job.pasts[1].condition, r.body, r.head) /\ 1 \in DOMAIN job.pasts
    BY <1>1, <2>2, JobFacts
  <2>4. PastRule(1, Counts(Past, r.body, r.head))
    BY <1>1, <2>1, <2>3, FoundBefore
  <2>5. r \in results[1]
    BY <1>2, <2>2, <2>4
  <2>6. QED  BY <1>1, <1>4, <2>2, <2>3, <2>5 DEF FilterTakes, CheckInValidRules
<1>5. Sound
  BY <1>3 DEF Sound
<1>6. QED  BY <1>4, <1>5 DEF Complete

LEMMA CombinatorAnswers ==
  ASSUME JobInv, ChoiceInv, CombineInv, phase = "done", algorithm = "Combinator"
  PROVE  Sound /\ Complete
<1>1. /\ \A r : r \in rules <=> InUnion(Len(job.formula), r) /\ Within(r, job.new)
      /\ Past = job.rows /\ ResultsInv
      /\ \A B, H \in SUBSET Items : Accepts(job.new.condition, B, H) <=> AcceptedByPasts(job, B, H)
  BY ItemsAlone, DoneAlgorithms DEF CombineInv, CombinedInv
<1>2. \A d \in DOMAIN job.formula : /\ d \in 1 .. Len(job.formula)
                                    /\ job.formula[d] \in Seq(Nat)
                                    /\ DOMAIN job.formula[d] = 1 .. Len(job.formula[d])
  <2>1. job.formula \in Seq(Seq(Nat))
    BY JobFacts
  <2>2. DOMAIN job.formula = 1 .. Len(job.formula) /\ \A d \in DOMAIN job.formula : job.formula[d] \in Seq(Nat)
    BY <2>1
  <2>3. QED  BY <2>2
<1>3. \A d \in DOMAIN job.formula : \A c \in DOMAIN job.formula[d] : job.formula[d][c] \in DOMAIN job.pasts
  BY DEF JobInv, Answerable
<1>4. \A k \in DOMAIN job.pasts : \A r : r \in Load(k) <=> PastRule(k, r) /\ Confident(job.pasts[k].conf, r)
  BY <1>1 DEF ResultsInv, Load
<1>5. ASSUME NEW r \in rules
      PROVE  r = Counts(job.rows, r.body, r.head) /\ Accepts(job.new.condition, r.body, r.head)
  <2>1. PICK d \in 1 .. Len(job.formula) : job.formula[d] # <<>> /\ InConj(d, Len(job.formula[d]), r)
    BY <1>1 DEF InUnion
  <2>2. d \in DOMAIN job.formula
    <3>1. job.formula \in Seq(Seq(Nat))
      BY JobFacts
    <3>2. QED  BY <2>1, <3>1
  <2>3. \A c \in DOMAIN job.formula[d] : PastRule(job.formula[d][c], r)
    BY <1>2, <1>3, <1>4, <2>1, <2>2 DEF InConj
  <2>4. 1 \in DOMAIN job.formula[d]
    <3>1. job.formula[d] \in Seq(Nat)
      BY <1>2, <2>2
    <3>2. QED  BY <2>1, <3>1
  <2>5. r = Counts(job.rows, r.body, r.head) /\ r.body \in SUBSET Items /\ r.head \in SUBSET Items
    BY <1>1, <2>3, <2>4 DEF PastRule, IsRule, Past, NonEmpty
  <2>6. \A c \in DOMAIN job.formula[d] : Accepts(job.pasts[job.formula[d][c]].condition, r.body, r.head)
    BY <2>3 DEF PastRule, IsRule
  <2>7. AcceptedByPasts(job, r.body, r.head)
    BY <2>1, <2>2, <2>6 DEF AcceptedByPasts
  <2>8. QED  BY <1>1, <2>5, <2>7
<1>6. ASSUME \A k \in DOMAIN job.pasts : job.pasts[k].conf = job.new.conf,
             NEW r \in Answer(job.new, job.rows), Confident(job.new.conf, r)
      PROVE  r \in rules
  <2>1. IsRule(r, job.new, job.rows)
    BY <1>6, AnswerIsRules
  <2>2. /\ r.body \in SUBSET Items /\ r.head \in SUBSET Items /\ r = Counts(Past, r.body, r.head)
        /\ Accepts(job.new.condition, r.body, r.head) /\ Within(r, job.new)
    BY <1>1, <2>1 DEF IsRule, NonEmpty
  <2>3. PICK d \in DOMAIN job.formula :
          /\ job.formula[d] # <<>>
          /\ \A c \in DOMAIN job.formula[d] : Accepts(job.pasts[job.formula[d][c]].condition, r.body, r.head)
    BY <1>1, <2>2 DEF AcceptedByPasts
  <2>4. ASSUME NEW c \in DOMAIN job.formula[d]
        PROVE  r \in Load(job.formula[d][c])
    <3> DEFINE k == job.formula[d][c]
    <3>1. k \in DOMAIN job.pasts /\ Accepts(job.pasts[k].condition, r.body, r.head)
      BY <1>3, <2>3
    <3> HIDE DEF k
    <3>2. PastRule(k, Counts(Past, r.body, r.head))
      BY <1>1, <2>1, <3>1, FoundBefore
    <3>3. Confident(job.pasts[k].conf, r)
      BY <1>6, <3>1
    <3>4. r \in Load(k)
      BY <1>4, <2>2, <3>1, <3>2, <3>3
    <3>5. QED  BY <3>4 DEF k
  <2>5. InConj(d, Len(job.formula[d]), r)
    BY <1>2, <2>4 DEF InConj
  <2>6. InUnion(Len(job.formula), r)
    BY <1>2, <2>3, <2>5 DEF InUnion
  <2>7. QED  BY <1>1, <2>2, <2>6
<1>7. Sound
  BY <1>5 DEF Sound
<1>8. QED  BY <1>6, <1>7 DEF Complete

LEMMA TreeAnswers ==
  ASSUME JobInv, ChoiceInv, TreeDoneInv, phase = "done", algorithm \in {"Constructive", "Destructive"}
  PROVE  Sound /\ Complete
<1>1. /\ \A B, H \in SUBSET Items : /\ Accepts(job.new.condition, B, H)
                                    /\ Accepts(job.pasts[1].condition, B, H)
      /\ \A S : \A side \in Sides : Supports(job.rows, S, side) \subseteq Supports(Past, S, side)
  BY TreeJob
<1>2. InStep => Recounted
  BY DEF TreeDoneInv
<1>3. ASSUME InStep, HeadsFromOne, NEW r \in rules
      PROVE  r = Counts(job.rows, r.body, r.head) /\ Accepts(job.new.condition, r.body, r.head)
  <2>1. r = Counts(job.rows, r.body, r.head) /\ r.body \in NonEmpty /\ r.head \in NonEmpty
    BY <1>2, <1>3 DEF Recounted
  <2>2. r.body \in SUBSET Items /\ r.head \in SUBSET Items
    BY <2>1 DEF NonEmpty
  <2>3. QED  BY <1>1, <2>1, <2>2
<1>4. ASSUME InStep, NEW r \in Answer(job.new, job.rows)
      PROVE  r \in rules
  <2>1. IsRule(r, job.new, job.rows)
    BY <1>4, AnswerIsRules
  <2>2. /\ r.body \in SUBSET Items /\ r.head \in SUBSET Items
        /\ r = Counts(job.rows, r.body, r.head) /\ Frequent(job.new, r.gids)
    BY <2>1 DEF IsRule, NonEmpty
  <2>3. Accepts(job.pasts[1].condition, r.body, r.head) /\ 1 \in DOMAIN job.pasts
    BY <1>1, <2>2, JobFacts
  <2> DEFINE s == Counts(Past, r.body, r.head)
  <2>4. PastRule(1, s)
    BY <1>1, <2>1, <2>3, FoundBefore
  <2>5. s.body = r.body /\ s.head = r.head
    BY DEF Counts
  <2> HIDE DEF s
  <2>6. s \in results[1]
    BY <2>3, <2>4, DoneAlgorithms DEF ResultsInv
  <2>7. Counts(job.rows, s.body, s.head) = r
    BY <2>2, <2>5
  <2>8. QED  BY <1>2, <1>4, <2>2, <2>6, <2>7 DEF Recounted
<1>5. Sound
  BY <1>3 DEF Sound
<1>6. QED  BY <1>4, <1>5 DEF Complete

LEMMA Answered ==
  ASSUME JobInv, ChoiceInv, FilterInv, CombineInv, TreeDoneInv
  PROVE  Sound /\ Complete
<1>1. CASE phase # "done"
  BY <1>1 DEF Sound, Complete
<1>2. CASE phase = "done"
  <2>1. algorithm \in {"Filter", "Combinator", "Constructive", "Destructive"}
    BY <1>2, DoneAlgorithms
  <2>2. QED  BY <1>2, <2>1, FilterAnswers, CombinatorAnswers, TreeAnswers
<1>3. QED  BY <1>1, <1>2

-----------------------------------------------------------------------------
(* All of it is kept, whatever the incremental run does.                   *)
IncrementalInv ==
  /\ JobInv /\ ChoiceInv /\ FilterInv /\ CombineInv
  /\ QueryInv /\ CursorInv /\ NodesInv /\ SuppInv /\ TreeDoneInv

LEMMA IncrementalInvInit ==
  ASSUME JobsAnswerable, Init
  PROVE  IncrementalInv
<1>1. phase = "choose" /\ JobInv
  BY DEF Init, JobsAnswerable, JobInv
<1>2. StartInv
  BY DEF Init, StartInv
<1>3. ~Treeing
  BY <1>1 DEF Treeing
<1>4. ChoiceInv
  BY <1>1, <1>2 DEF ChoiceInv
<1>5. FilterInv /\ CombineInv /\ TreeDoneInv
  BY <1>1 DEF FilterInv, CombineInv, TreeDoneInv
<1>6. QueryInv /\ CursorInv /\ NodesInv /\ SuppInv
  BY <1>3 DEF QueryInv, CursorInv, NodesInv, SuppInv
<1>7. QED  BY <1>1, <1>4, <1>5, <1>6 DEF IncrementalInv

LEMMA IncrementalInvStep ==
  ASSUME IncrementalInv, [Next]_vars
  PROVE  IncrementalInv'
<1>1. JobInv /\ ChoiceInv /\ FilterInv /\ CombineInv /\ QueryInv /\ CursorInv /\ NodesInv /\ SuppInv /\ TreeDoneInv
  BY DEF IncrementalInv
<1>2. JobInv'
  BY <1>1, JobStep, SameJob
<1>3. ChoiceInv' /\ FilterInv' /\ CombineInv'
  BY <1>1, ChoiceStep, FilterStep, CombineStep
<1>4. QueryInv'
  BY <1>1, QueryStep
<1>5. CursorInv' /\ NodesInv' /\ SuppInv' /\ TreeDoneInv'
  BY <1>1, <1>4, CursorStep, NodesStep, SuppStep, TreeDoneStep
<1>6. QED  BY <1>2, <1>3, <1>4, <1>5 DEF IncrementalInv

LEMMA IncrementalKept == JobsAnswerable => (Spec => []IncrementalInv)
<1> SUFFICES ASSUME JobsAnswerable PROVE Spec => []IncrementalInv
  OBVIOUS
<1>1. Init => IncrementalInv
  BY IncrementalInvInit
<1>2. IncrementalInv /\ [Next]_vars => IncrementalInv'
  BY IncrementalInvStep
<1>3. QED  BY <1>1, <1>2, PTL DEF Spec

(* While ConstrTree and DestrTree adjust their tree, each past rule and    *)
(* its body have the support of the groups read under the new condition,   *)
(* and of those to come under the past one.                                *)
THEOREM SupportsCounted == JobsAnswerable => (Spec => []Counted)
<1> SUFFICES ASSUME JobsAnswerable PROVE Spec => []Counted
  OBVIOUS
<1>1. Spec => []IncrementalInv
  BY IncrementalKept
<1>2. IncrementalInv => Counted
  BY CountedThere DEF IncrementalInv
<1>3. QED  BY <1>1, <1>2, PTL

(* What the filter, ResultCombinator and the trees write are rules of the  *)
(* new minerule, with the numbers of groups that support them and their    *)
(* bodies.                                                                 *)
THEOREM AnswersSound == JobsAnswerable => (Spec => []Sound)
<1> SUFFICES ASSUME JobsAnswerable PROVE Spec => []Sound
  OBVIOUS
<1>1. Spec => []IncrementalInv
  BY IncrementalKept
<1>2. IncrementalInv => Sound
  BY Answered DEF IncrementalInv
<1>3. QED  BY <1>1, <1>2, PTL

(* And they lose no rule of the new minerule that is confident enough.     *)
THEOREM AnswersComplete == JobsAnswerable => (Spec => []Complete)
<1> SUFFICES ASSUME JobsAnswerable PROVE Spec => []Complete
  OBVIOUS
<1>1. Spec => []IncrementalInv
  BY IncrementalKept
<1>2. IncrementalInv => Complete
  BY Answered DEF IncrementalInv
<1>3. QED  BY <1>1, <1>2, PTL
=============================================================================
