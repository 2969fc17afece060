------------------------- MODULE SequenceMiningProofs -------------------------
(***************************************************************************)
(* What the tables that runs of STSMiner leave behind do to later runs,    *)
(* and that the sequences it writes differ, are right and are all there    *)
(* are, for any source table and minerule, and however often runs are      *)
(* killed.                                                                 *)
(***************************************************************************)
EXTENDS SequenceMining, SourceDataProofs

(* The tables that the run itself made, or drops before it ends; all the   *)
(* others were left by runs that were killed.                              *)
OwnTables ==
  CASE phase \in {"number", "singletons"} -> {SourceTable}
    [] phase = "numbered" -> {SourceTable, GroupNumbers}
    [] phase = "level" -> IF level = 2 THEN {SourceTable} ELSE {level - 1}
    [] phase = "pairs" -> IF level = 2 THEN {SourceTable, 2} ELSE {level - 1, level}
    [] phase = "finish" -> LastTables
    [] OTHER -> {}

LeftTables == tables \ OwnTables

(* A run that fails drops a table that was left, and a killed one leaves   *)
(* at most two.                                                            *)
CountsInv ==
  /\ kills \in Nat /\ failures \in Nat /\ level \in Nat
  /\ phase \in {"level", "pairs"} => level >= 2
  /\ phase \in {"start", "failed", "source", "number", "numbered", "singletons"} => level = 1
LeftInv ==
  /\ IsFiniteSet(tables)
  /\ failures + Size(LeftTables) <= 2 * kills

LEMMA CountsStep ==
  ASSUME CountsInv, [Next]_vars
  PROVE  CountsInv'
<1>1. CASE UNCHANGED vars
  BY <1>1 DEF CountsInv, vars, memory
<1>2. CASE Start \/ CreateSource \/ CreateNumbers \/ DropNumbers
  BY <1>2 DEF Start, CreateSource, CreateNumbers, DropNumbers, CountsInv, memory
<1>3. CASE FailSource
  BY <1>3 DEF FailSource, Fail, Forget, CountsInv
<1>4. CASE ExtractSingletons \/ StartLevel \/ ReadCandidate \/ Finish
  BY <1>4 DEF ExtractSingletons, StartLevel, ReadCandidate, Finish, CountsInv, memory
<1>5. CASE EndLevel
  BY <1>5 DEF EndLevel, CountsInv
<1>6. CASE Kill \/ Again
  BY <1>6 DEF Kill, Again, Forget, CountsInv, memory
<1>7. QED  BY <1>1, <1>2, <1>3, <1>4, <1>5, <1>6 DEF Next, Mine

(* A step of a run that goes on leaves no table.                           *)
LEMMA NoneLeft ==
  ASSUME CountsInv, [Next]_vars, ~FailSource, ~Kill
  PROVE  LeftTables' \subseteq LeftTables /\ kills' = kills /\ failures' = failures
<1> USE DEF LeftTables, OwnTables, SourceTable, GroupNumbers, LastTables
<1>1. CASE UNCHANGED vars
  BY <1>1 DEF vars, memory
<1>2. CASE Start
  BY <1>2 DEF Start, memory
<1>3. CASE CreateSource
  BY <1>3 DEF CreateSource, CountsInv
<1>4. CASE CreateNumbers
  BY <1>4 DEF CreateNumbers, memory
<1>5. CASE DropNumbers
  BY <1>5 DEF DropNumbers, memory
<1>6. CASE ExtractSingletons
  BY <1>6 DEF ExtractSingletons
<1>7. CASE StartLevel
  BY <1>7 DEF StartLevel
<1>8. CASE ReadCandidate
  BY <1>8 DEF ReadCandidate
<1>9. CASE EndLevel
  BY <1>9 DEF EndLevel, CountsInv
<1>10. CASE Finish
  BY <1>10 DEF Finish, memory
<1>11. CASE Again
  BY <1>11 DEF Again, memory
<1>12. QED
  BY <1>1, <1>2, <1>3, <1>4, <1>5, <1>6, <1>7, <1>8, <1>9, <1>10, <1>11 DEF Next, Mine

LEMMA FiniteStep ==
  ASSUME IsFiniteSet(tables), [Next]_vars
  PROVE  IsFiniteSet(tables')
<1>1. \A n : IsFiniteSet(tables \cup {n})
  BY FS_AddElement
<1>2. \E n : tables' \subseteq tables \cup {n}
  BY DEF Next, Mine, vars, Start, CreateSource, CreateNumbers, DropNumbers, FailSource, Fail,
         DropResultsTables, ExtractSingletons, StartLevel, ReadCandidate, EndLevel, Finish, Kill, Again
<1>3. QED  BY <1>1, <1>2, FS_Subset

(* A run fails on a table that was left, and drops it and its own.         *)
LEMMA FailDrops ==
  ASSUME CountsInv, FailSource
  PROVE  /\ \E n \in LeftTables : LeftTables' \subseteq LeftTables \ {n}
         /\ kills' = kills /\ failures' = failures + 1
<1> USE DEF LeftTables, OwnTables, SourceTable, GroupNumbers
<1>1. /\ kills' = kills /\ failures' = failures + 1 /\ phase' = "failed"
      /\ tables' = DropResultsTables(IF level < 3 THEN 3 ELSE level) \ NumbersDropped
  BY DEF FailSource, Fail
<1>2. LeftTables' = tables'
  BY <1>1
<1>3. CASE phase = "source" /\ SourceTable \in tables
  BY <1>1, <1>2, <1>3 DEF DropResultsTables
<1>4. CASE phase = "number" /\ GroupNumbers \in tables
  BY <1>1, <1>2, <1>4 DEF DropResultsTables, NumbersDropped
<1>5. CASE phase = "level" /\ level \in tables
  BY <1>1, <1>2, <1>5 DEF DropResultsTables, CountsInv
<1>6. QED  BY <1>1, <1>3, <1>4, <1>5 DEF FailSource

(* A run has two tables at a time.                                         *)
LEMMA KillLeaves ==
  ASSUME CountsInv, Kill
  PROVE  /\ \E m, n : LeftTables' \subseteq (LeftTables \cup {m}) \cup {n}
         /\ kills' = kills + 1 /\ failures' = failures
<1>1. LeftTables' \subseteq LeftTables \cup OwnTables
  BY DEF LeftTables, Kill
<1>2. \E m, n : OwnTables \subseteq {m} \cup {n}
  BY DEF OwnTables, LastTables
<1>3. QED  BY <1>1, <1>2 DEF Kill

LEMMA OneMore ==
  ASSUME NEW S, IsFiniteSet(S), NEW x
  PROVE  IsFiniteSet(S \cup {x}) /\ Size(S \cup {x}) \in Nat /\ Size(S \cup {x}) <= Size(S) + 1
<1>1. /\ IsFiniteSet(S \cup {x})
      /\ Cardinality(S \cup {x}) = IF x \in S THEN Cardinality(S) ELSE Cardinality(S) + 1
  BY FS_AddElement
<1>2. Cardinality(S) \in Nat /\ Cardinality(S \cup {x}) \in Nat
  BY <1>1, FS_CardinalityType
<1>3. QED  BY <1>1, <1>2 DEF Size

LEMMA LeftStep ==
  ASSUME CountsInv, LeftInv, [Next]_vars
  PROVE  LeftInv'
<1>1. IsFiniteSet(tables') /\ IsFiniteSet(LeftTables) /\ IsFiniteSet(LeftTables')
  BY FiniteStep, FS_Subset DEF LeftInv, LeftTables
<1>2. Size(LeftTables) \in Nat /\ Size(LeftTables') \in Nat
  BY <1>1, FS_CardinalityType DEF Size
<1>3. CASE ~FailSource /\ ~Kill
  <2>1. Size(LeftTables') <= Size(LeftTables)
    BY <1>1, <1>3, NoneLeft, FS_Subset DEF Size
  <2>2. QED  BY <1>1, <1>2, <1>3, <2>1, NoneLeft DEF LeftInv, CountsInv
<1>4. CASE FailSource
  <2>1. PICK n \in LeftTables : LeftTables' \subseteq LeftTables \ {n}
    BY <1>4, FailDrops
  <2>2. /\ IsFiniteSet(LeftTables \ {n})
        /\ Cardinality(LeftTables \ {n}) = Cardinality(LeftTables) - 1
    BY <1>1, FS_RemoveElement
  <2>3. Size(LeftTables') <= Size(LeftTables) - 1
    BY <2>1, <2>2, FS_Subset DEF Size
  <2>4. QED  BY <1>1, <1>2, <1>4, <2>3, FailDrops DEF LeftInv, CountsInv
<1>5. CASE Kill
  <2>1. PICK m, n : LeftTables' \subseteq (LeftTables \cup {m}) \cup {n}
    BY <1>5, KillLeaves
  <2>2. /\ IsFiniteSet(LeftTables \cup {m}) /\ Size(LeftTables \cup {m}) \in Nat
        /\ Size(LeftTables \cup {m}) <= Size(LeftTables) + 1
    BY <1>1, OneMore
  <2> DEFINE T == (LeftTables \cup {m}) \cup {n}
  <2>3. IsFiniteSet(T) /\ Size(T) \in Nat /\ Size(T) <= Size(LeftTables \cup {m}) + 1
    BY <2>2, OneMore
  <2>4. Size(LeftTables') <= Size(T)
    BY <2>1, <2>3, FS_Subset DEF Size
  <2> HIDE DEF T
  <2>5. Size(LeftTables') <= Size(LeftTables) + 2
    BY <1>2, <2>2, <2>3, <2>4
  <2>6. QED  BY <1>1, <1>2, <1>5, <2>5, KillLeaves DEF LeftInv, CountsInv
<1>6. QED  BY <1>3, <1>4, <1>5

(* However often runs are killed, and at whatever moment, each killed one  *)
(* makes at most two later ones fail (STSMiner::mineRules: its handlers    *)
(* drop the source table and the tables of two levels; the group numbers   *)
(* are dropped by setSeqIDProp, if that is where it fails).                *)
THEOREM KilledRunsFailTwice == Spec => []FailsTwice
<1>1. Init => CountsInv /\ LeftInv
  BY FS_EmptySet DEF Init, CountsInv, LeftInv, LeftTables, OwnTables, Size
<1>2. CountsInv /\ LeftInv /\ [Next]_vars => CountsInv' /\ LeftInv'
  BY CountsStep, LeftStep
<1>3. CountsInv /\ LeftInv => FailsTwice
  <2>1. ASSUME CountsInv, LeftInv  PROVE FailsTwice
    <3>1. Size(LeftTables) \in Nat
      BY <2>1, FS_Subset, FS_CardinalityType DEF LeftInv, LeftTables, Size
    <3>2. QED  BY <2>1, <3>1 DEF CountsInv, LeftInv, FailsTwice
  <2>2. QED  BY <2>1
<1>4. QED  BY <1>1, <1>2, <1>3, PTL DEF Spec

-----------------------------------------------------------------------------
(* The sequences of a level, and those that are written.                   *)

Distinct(q) == \A i, j \in 1 .. Len(q) : q[i].items = q[j].items => i = j
OfLength(q, n) == \A i \in 1 .. Len(q) : q[i].items \in Seq(Items) /\ Len(q[i].items) = n
SameFront(p, q, n) == \A k \in 1 .. n - 1 : p.items[k] = q.items[k]

(* ids[1] is the pattern that is extended, of the level below.             *)
LevelOf(ps, n) ==
  /\ IsList(ps) /\ OfLength(ps, n) /\ Distinct(ps)
  /\ \A i, j \in 1 .. Len(ps) : ps[i].ids[1] = ps[j].ids[1] => SameFront(ps[i], ps[j], n)

LastItem(p) == p.items[Len(p.items)]
Extension(c) == Append(patterns[c[1]].items, LastItem(patterns[c[2]]))

AllOf(q) == {q[k] : k \in 1 .. Len(q)}
Differ(q) == \A i, j \in 1 .. Len(q) : q[i] = q[j] => i = j

(* A candidate is read once, and makes the pattern that its ids tell.      *)
PatternsInv == phase \in {"level", "pairs"} => LevelOf(patterns, level - 1)
CandidatesInv ==
  phase = "pairs" =>
    /\ IsList(todo) /\ AllOf(todo) \subseteq Candidates /\ Differ(todo)
    /\ IsList(new) /\ closed \subseteq 1 .. Len(patterns)
    /\ \A k \in 1 .. Len(new) :
         new[k].ids \in Candidates \ AllOf(todo) /\ new[k].items = Extension(new[k].ids)
    /\ \A k, l \in 1 .. Len(new) : new[k].ids = new[l].ids => k = l

Shorter(q, n) == \A i \in 1 .. Len(q) : Len(q[i].items) \in 0 .. n - 1

(* What is written is shorter than the patterns of the level below.        *)
WrittenInv ==
  /\ kills = 0 /\ phase \in {"start", "source", "number", "numbered", "singletons", "failed"} =>
       saved = <<>>
  /\ job.overwrite /\ phase \in {"source", "number", "numbered", "singletons"} => saved = <<>>
  /\ Fresh =>
       /\ IsList(saved) /\ Distinct(saved)
       /\ phase \in {"level", "pairs"} => Shorter(saved, level - 1)

LEMMA CandidateExtension ==
  ASSUME CountsInv, level >= 2, LevelOf(patterns, level - 1), NEW c \in Candidates
  PROVE  /\ c[1] \in 1 .. Len(patterns) /\ c[2] \in 1 .. Len(patterns)
         /\ c = <<c[1], c[2]>> /\ IsCandidate(patterns[c[1]], patterns[c[2]])
         /\ Extension(c) \in Seq(Items) /\ Len(Extension(c)) = level
         /\ \A k \in 1 .. level - 1 : Extension(c)[k] = patterns[c[1]].items[k]
         /\ Extension(c)[level] = patterns[c[2]].items[level - 1]
<1> DEFINE s == patterns[c[1]].items
           t == patterns[c[2]].items
<1>1. DOMAIN patterns = 1 .. Len(patterns) /\ level \in Nat
  BY ListDomain DEF LevelOf, CountsInv
<1>2. /\ c[1] \in 1 .. Len(patterns) /\ c[2] \in 1 .. Len(patterns)
      /\ c = <<c[1], c[2]>> /\ IsCandidate(patterns[c[1]], patterns[c[2]])
  BY <1>1 DEF Candidates
<1>3. s \in Seq(Items) /\ Len(s) = level - 1 /\ t \in Seq(Items) /\ Len(t) = level - 1
  BY <1>2 DEF LevelOf, OfLength
<1>4. Extension(c) = Append(s, t[level - 1])
  BY <1>3 DEF Extension, LastItem
<1> HIDE DEF s, t
<1>5. t[level - 1] \in Items
  <2>1. level - 1 \in 1 .. Len(t)
    BY <1>1, <1>3
  <2>2. QED  BY <1>3, <2>1, ElementOfSeq
<1>6. /\ Extension(c) \in Seq(Items) /\ Len(Extension(c)) = level
      /\ \A k \in 1 .. level - 1 : Extension(c)[k] = s[k]
      /\ Extension(c)[level] = t[level - 1]
  BY <1>1, <1>3, <1>4, <1>5, AppendProperties
<1>7. QED  BY <1>2, <1>6 DEF s, t

LEMMA SameItems ==
  ASSUME NEW n \in Nat, NEW s \in Seq(Items), NEW t \in Seq(Items), Len(s) = n, Len(t) = n,
         \A k \in 1 .. n : s[k] = t[k]
  PROVE  s = t
<1>1. s = [k \in 1 .. n |-> s[k]] /\ t = [k \in 1 .. n |-> t[k]]
  BY LenProperties
<1>2. QED  BY <1>1

(* The second patterns of two candidates that make the same sequence end   *)
(* with the same item, and begin with the tail of the same first one.      *)
LEMMA ExtensionsDiffer ==
  ASSUME CountsInv, level >= 2, LevelOf(patterns, level - 1),
         NEW c \in Candidates, NEW d \in Candidates, Extension(c) = Extension(d)
  PROVE  c = d
<1>1. /\ c[1] \in 1 .. Len(patterns) /\ c[2] \in 1 .. Len(patterns) /\ c = <<c[1], c[2]>>
      /\ IsCandidate(patterns[c[1]], patterns[c[2]])
      /\ \A k \in 1 .. level - 1 : Extension(c)[k] = patterns[c[1]].items[k]
      /\ Extension(c)[level] = patterns[c[2]].items[level - 1]
  BY CandidateExtension
<1>2. /\ d[1] \in 1 .. Len(patterns) /\ d[2] \in 1 .. Len(patterns) /\ d = <<d[1], d[2]>>
      /\ IsCandidate(patterns[d[1]], patterns[d[2]])
      /\ \A k \in 1 .. level - 1 : Extension(d)[k] = patterns[d[1]].items[k]
      /\ Extension(d)[level] = patterns[d[2]].items[level - 1]
  BY CandidateExtension
<1>3. level \in Nat
  BY DEF CountsInv
<1>4. \A i \in 1 .. Len(patterns) : patterns[i].items \in Seq(Items) /\ Len(patterns[i].items) = level - 1
  BY DEF LevelOf, OfLength
<1>5. \A i, j \in 1 .. Len(patterns) :
        (\A k \in 1 .. level - 1 : patterns[i].items[k] = patterns[j].items[k]) => i = j
  <2>1. ASSUME NEW i \in 1 .. Len(patterns), NEW j \in 1 .. Len(patterns),
               \A k \in 1 .. level - 1 : patterns[i].items[k] = patterns[j].items[k]
        PROVE  i = j
    <3>1. /\ level - 1 \in Nat
          /\ patterns[i].items \in Seq(Items) /\ Len(patterns[i].items) = level - 1
          /\ patterns[j].items \in Seq(Items) /\ Len(patterns[j].items) = level - 1
      BY <1>3, <1>4
    <3>2. patterns[i].items = patterns[j].items
      BY <2>1, <3>1, SameItems
    <3>3. QED  BY <3>2 DEF LevelOf, Distinct
  <2>2. QED  BY <2>1
<1>6. c[1] = d[1]
  BY <1>1, <1>2, <1>5
<1>7. \A k \in 1 .. level - 2 : patterns[c[2]].items[k] = patterns[d[2]].items[k]
  <2>1. CASE level = 2
    BY <2>1
  <2>2. CASE level # 2
    <3>1. patterns[c[2]].ids[1] = patterns[d[2]].ids[1]
      BY <1>1, <1>2, <1>6, <2>2 DEF IsCandidate
    <3>2. SameFront(patterns[c[2]], patterns[d[2]], level - 1)
      BY <1>1, <1>2, <3>1 DEF LevelOf
    <3>3. QED  BY <1>3, <3>2 DEF SameFront
  <2>3. QED  BY <2>1, <2>2
<1>8. \A k \in 1 .. level - 1 : k \in 1 .. level - 2 \/ k = level - 1
  BY <1>3
<1>9. patterns[c[2]].items[level - 1] = patterns[d[2]].items[level - 1]
  BY <1>1, <1>2
<1>10. c[2] = d[2]
  BY <1>1, <1>2, <1>5, <1>7, <1>8, <1>9
<1>11. QED  BY <1>1, <1>2, <1>6, <1>10

LEMMA NewLevel ==
  ASSUME CountsInv, PatternsInv, CandidatesInv, phase = "pairs"
  PROVE  LevelOf(new, level)
<1>1. level >= 2 /\ LevelOf(patterns, level - 1)
  BY DEF CountsInv, PatternsInv
<1>2. \A k \in 1 .. Len(new) : new[k].ids \in Candidates /\ new[k].items = Extension(new[k].ids)
  BY DEF CandidatesInv
<1>3. OfLength(new, level)
  BY <1>1, <1>2, CandidateExtension DEF OfLength
<1>4. Distinct(new)
  <2>1. ASSUME NEW k \in 1 .. Len(new), NEW l \in 1 .. Len(new), new[k].items = new[l].items
        PROVE  k = l
    <3>1. new[k].ids = new[l].ids
      BY <1>1, <1>2, <2>1, ExtensionsDiffer
    <3>2. QED  BY <3>1 DEF CandidatesInv
  <2>2. QED  BY <2>1 DEF Distinct
<1>5. ASSUME NEW k \in 1 .. Len(new), NEW l \in 1 .. Len(new), new[k].ids[1] = new[l].ids[1]
      PROVE  SameFront(new[k], new[l], level)
  <2>1. \A i \in 1 .. level - 1 :
          /\ Extension(new[k].ids)[i] = patterns[new[k].ids[1]].items[i]
          /\ Extension(new[l].ids)[i] = patterns[new[l].ids[1]].items[i]
    BY <1>1, <1>2, CandidateExtension
  <2>2. QED  BY <1>2, <1>5, <2>1 DEF SameFront
<1>6. QED  BY <1>3, <1>4, <1>5 DEF LevelOf, CandidatesInv

-----------------------------------------------------------------------------
(* The candidates of a level.                                              *)

LEMMA ListedOnce ==
  ASSUME NEW S \in SUBSET (Nat \X Nat), IsFiniteSet(S)
  PROVE  IsList(Listed[S]) /\ AllOf(Listed[S]) \subseteq S /\ Differ(Listed[S])
<1> DEFINE q == Listed[S]
<1>1. /\ Size(S) \in Nat /\ q \in [1 .. Size(S) -> S]
      /\ \A k, l \in 1 .. Size(S) : k < l => q[k] # q[l]
  BY ListedProperties
<1> HIDE DEF q
<1>2. q = [k \in 1 .. Size(S) |-> q[k]]
  BY <1>1
<1>3. IsList(q) /\ Len(q) = Size(S)
  BY <1>1, <1>2, ListOf
<1>4. ASSUME NEW k \in 1 .. Len(q), NEW l \in 1 .. Len(q), q[k] = q[l]  PROVE k = l
  <2>1. ~(k < l) /\ ~(l < k)
    BY <1>1, <1>3, <1>4
  <2>2. QED  BY <1>1, <1>3, <2>1
<1>5. AllOf(q) \subseteq S
  BY <1>1, <1>3 DEF AllOf
<1>6. QED  BY <1>3, <1>4, <1>5 DEF Differ, q

LEMMA ReadOnce ==
  ASSUME NEW q, IsList(q), Differ(q), q # <<>>
  PROVE  /\ IsList(Tail(q)) /\ Differ(Tail(q)) /\ AllOf(Tail(q)) \subseteq AllOf(q)
         /\ Head(q) \in AllOf(q) \ AllOf(Tail(q))
<1> DEFINE members == {q[k] : k \in DOMAIN q}
           rest == Tail(q)
<1>1. /\ 1 \in 1 .. Len(q) /\ Head(q) = q[1] /\ IsList(rest)
  BY ListTail
<1>2. q \in Seq(members) /\ Len(q) \in Nat
  BY ListDomain DEF IsList
<1> HIDE DEF members
<1>3. Len(rest) = Len(q) - 1 /\ \A k \in 1 .. Len(rest) : rest[k] = q[k + 1]
  BY <1>2, HeadTailProperties
<1> HIDE DEF rest
<1>4. \A k \in 1 .. Len(rest) : k + 1 \in 1 .. Len(q) /\ k + 1 # 1
  BY <1>2, <1>3
<1>5. Differ(rest)
  <2>1. ASSUME NEW k \in 1 .. Len(rest), NEW l \in 1 .. Len(rest), rest[k] = rest[l]  PROVE k = l
    <3>1. k + 1 = l + 1
      BY <1>3, <1>4, <2>1 DEF Differ
    <3>2. QED  BY <1>2, <1>3, <3>1
  <2>2. QED  BY <2>1 DEF Differ
<1>6. AllOf(rest) \subseteq AllOf(q)
  BY <1>3, <1>4 DEF AllOf
<1>7. q[1] \in AllOf(q) /\ q[1] \notin AllOf(rest)
  BY <1>1, <1>3, <1>4 DEF AllOf, Differ
<1>8. QED  BY <1>1, <1>5, <1>6, <1>7 DEF rest

LEMMA OneAppended ==
  ASSUME NEW q, IsList(q), NEW x
  PROVE  /\ IsList(Append(q, x)) /\ Len(Append(q, x)) = Len(q) + 1 /\ Len(q) \in Nat
         /\ \A k \in 1 .. Len(q) : Append(q, x)[k] = q[k]
         /\ Append(q, x)[Len(q) + 1] = x
<1> DEFINE members == {q[k] : k \in DOMAIN q} \cup {x}
           longer == Append(q, x)
<1>1. q \in Seq(members) /\ x \in members /\ Len(q) \in Nat
  BY SeqMonotonic, ListDomain DEF IsList
<1> HIDE DEF members
<1>2. /\ longer \in Seq(members) /\ Len(longer) = Len(q) + 1
      /\ \A k \in 1 .. Len(q) : longer[k] = q[k]
      /\ longer[Len(q) + 1] = x
  BY <1>1, AppendProperties
<1> HIDE DEF longer
<1>3. longer = [k \in 1 .. Len(longer) |-> longer[k]] /\ Len(longer) \in Nat
  BY <1>1, <1>2, LenProperties
<1>4. IsList(longer)
  BY <1>3, ListOf
<1>5. QED  BY <1>1, <1>2, <1>4 DEF longer

-----------------------------------------------------------------------------
(* The steps from level to level.                                          *)

LEMMA SingletonsLevel == LevelOf(Singletons, 1)
<1> DEFINE S == {i \in Items : GroupsWith(i) # {} /\ Frequent(Size(GroupsWith(i)))}
           items == Pruning1Seq
           ps == Singletons
<1>1. S \in SUBSET Items /\ S \in SUBSET Nat /\ IsFiniteSet(S)
  <2>1. S \in SUBSET Items
    OBVIOUS
  <2> HIDE DEF S
  <2>2. QED  BY <2>1, FS_Subset, SourceAssumption
<1>2. items = InOrder(S)
  BY DEF Pruning1Seq
<1> HIDE DEF S, items
<1>3. /\ Size(S) \in Nat /\ items \in [1 .. Size(S) -> S]
      /\ \A k \in 1 .. Size(S) : Size(Upto(S, items[k])) = k
  BY <1>1, <1>2, InOrderProperties
<1>4. ps = [k \in 1 .. Size(S) |-> Singleton(items[k])]
  BY <1>3 DEF Singletons, items
<1> HIDE DEF ps
<1>5. \A k \in 1 .. Size(S) : ps[k].items = <<items[k]>> /\ items[k] \in Items
  <2>1. \A i : Singleton(i).items = <<i>>
    BY DEF Singleton
  <2>2. \A k \in 1 .. Size(S) : ps[k] = Singleton(items[k]) /\ items[k] \in Items
    BY <1>1, <1>3, <1>4
  <2>3. QED  BY <2>1, <2>2
<1>6. IsList(ps) /\ Len(ps) = Size(S)
  <2>1. ps = [k \in 1 .. Size(S) |-> ps[k]]
    BY <1>4
  <2>2. QED  BY <1>3, <2>1, ListOf
<1>7. \A i \in Items : <<i>> \in Seq(Items) /\ Len(<<i>>) = 1 /\ <<i>>[1] = i
  OBVIOUS
<1>8. OfLength(ps, 1)
  BY <1>5, <1>6, <1>7 DEF OfLength
<1>9. Distinct(ps)
  <2>1. ASSUME NEW k \in 1 .. Size(S), NEW l \in 1 .. Size(S), ps[k].items = ps[l].items
        PROVE  k = l
    <3>1. items[k] = items[l]
      BY <1>5, <1>7, <2>1
    <3>2. QED  BY <1>3, <3>1
  <2>2. QED  BY <1>6, <2>1 DEF Distinct
<1>10. \A k, l \in 1 .. Len(ps) : SameFront(ps[k], ps[l], 1)
  BY DEF SameFront
<1>11. QED  BY <1>6, <1>8, <1>9, <1>10 DEF LevelOf, ps

LEMMA PatternsStep ==
  ASSUME CountsInv, PatternsInv, CandidatesInv, [Next]_vars
  PROVE  PatternsInv'
<1>1. CASE ExtractSingletons
  <2>1. CASE phase' = "level"
    <3>1. patterns' = Singletons /\ level' = 2
      BY <1>1, <2>1 DEF ExtractSingletons
    <3>2. LevelOf(patterns', level' - 1)
      BY <3>1, SingletonsLevel
    <3>3. QED  BY <3>2 DEF PatternsInv
  <2>2. CASE phase' # "level"
    BY <1>1, <2>2 DEF ExtractSingletons, PatternsInv
  <2>3. QED  BY <2>1, <2>2
<1>2. CASE EndLevel
  <2>1. CASE phase' = "level"
    <3>1. phase = "pairs" /\ patterns' = new /\ level' = level + 1
      BY <1>2, <2>1 DEF EndLevel
    <3>2. LevelOf(new, level)
      BY <3>1, NewLevel
    <3>3. level' - 1 = level
      BY <3>1 DEF CountsInv
    <3>4. QED  BY <3>1, <3>2, <3>3 DEF PatternsInv
  <2>2. CASE phase' # "level"
    BY <1>2, <2>2 DEF EndLevel, PatternsInv
  <2>3. QED  BY <2>1, <2>2
<1>3. CASE StartLevel \/ ReadCandidate
  BY <1>3 DEF StartLevel, ReadCandidate, PatternsInv
<1>4. CASE UNCHANGED vars
  BY <1>4 DEF vars, memory, PatternsInv
<1>5. CASE Start \/ CreateSource \/ CreateNumbers \/ DropNumbers \/ FailSource \/ Finish \/ Again \/ Kill
  <2>1. phase' \notin {"level", "pairs"}
    BY <1>5 DEF Start, CreateSource, CreateNumbers, DropNumbers, FailSource, Fail, Finish, Again, Kill
  <2>2. QED  BY <2>1 DEF PatternsInv
<1>6. QED  BY <1>1, <1>2, <1>3, <1>4, <1>5 DEF Next, Mine

LEMMA CandidatesFinite ==
  ASSUME IsList(patterns)
  PROVE  Candidates \in SUBSET (Nat \X Nat) /\ IsFiniteSet(Candidates)
<1> DEFINE D == 1 .. Len(patterns)
<1>1. DOMAIN patterns = D /\ Len(patterns) \in Nat
  BY ListDomain
<1>2. IsFiniteSet(D)
  BY <1>1, FS_Interval
<1>3. D \subseteq Nat
  BY <1>1
<1> HIDE DEF D
<1>4. IsFiniteSet(D \X D)
  BY <1>2, FS_Product
<1>5. Candidates \subseteq D \X D
  BY <1>1 DEF Candidates
<1>6. QED  BY <1>3, <1>4, <1>5, FS_Subset

LEMMA StartLevelCandidates ==
  ASSUME PatternsInv, StartLevel
  PROVE  CandidatesInv'
<1>1. /\ phase = "level" /\ todo' = Listed[Candidates] /\ closed' = 1 .. Len(patterns) /\ new' = <<>>
      /\ patterns' = patterns /\ source' = source /\ level' = level /\ job' = job
  BY DEF StartLevel
<1>2. Candidates' = Candidates
  BY <1>1 DEF Candidates, IsCandidate, Following, Gap, At
<1>3. IsList(todo') /\ AllOf(todo') \subseteq Candidates /\ Differ(todo')
  BY <1>1, CandidatesFinite, ListedOnce DEF PatternsInv, LevelOf
<1>4. IsList(new') /\ Len(new') = 0
  <2>1. new' = [k \in 1 .. 0 |-> new'[k]]
    BY <1>1
  <2>2. QED  BY <2>1, ListOf
<1>5. closed' \subseteq 1 .. Len(patterns')
  BY <1>1
<1>6. QED  BY <1>2, <1>3, <1>4, <1>5 DEF CandidatesInv

LEMMA ReadCandidates ==
  ASSUME PatternsInv, CandidatesInv, ReadCandidate
  PROVE  CandidatesInv'
<1> DEFINE c == Head(todo)
           p == Extended(patterns[c[1]], patterns[c[2]], c)
<1>1. /\ phase = "pairs" /\ todo # <<>> /\ todo' = Tail(todo) /\ phase' = phase
      /\ new' = new \/ new' = Append(new, p)
      /\ closed' \subseteq closed
      /\ patterns' = patterns /\ source' = source /\ level' = level /\ job' = job
  BY DEF ReadCandidate
<1>2. /\ IsList(todo) /\ AllOf(todo) \subseteq Candidates /\ Differ(todo)
      /\ IsList(new) /\ closed \subseteq 1 .. Len(patterns)
      /\ \A k \in 1 .. Len(new) :
           new[k].ids \in Candidates \ AllOf(todo) /\ new[k].items = Extension(new[k].ids)
      /\ \A k, l \in 1 .. Len(new) : new[k].ids = new[l].ids => k = l
  BY <1>1 DEF CandidatesInv
<1>3. p.ids = c /\ p.items = Extension(c)
  BY DEF Extended, Extension, LastItem
<1>4. /\ Candidates' = Candidates /\ \A d : Extension(d)' = Extension(d)
  BY <1>1 DEF Candidates, IsCandidate, Following, Gap, At, Extension, LastItem
<1> HIDE DEF p, c
<1>5. /\ IsList(todo') /\ Differ(todo') /\ AllOf(todo') \subseteq AllOf(todo)
      /\ c \in AllOf(todo) \ AllOf(todo')
  BY <1>1, <1>2, ReadOnce DEF c
<1>6. /\ IsList(new')
      /\ \A k \in 1 .. Len(new') :
           new'[k].ids \in Candidates \ AllOf(todo') /\ new'[k].items = Extension(new'[k].ids)
      /\ \A k, l \in 1 .. Len(new') : new'[k].ids = new'[l].ids => k = l
  <2>1. CASE new' = new
    BY <1>2, <1>5, <2>1
  <2>2. CASE new' = Append(new, p)
    <3>1. /\ IsList(new') /\ Len(new') = Len(new) + 1 /\ Len(new) \in Nat
          /\ \A k \in 1 .. Len(new) : new'[k] = new[k]
          /\ new'[Len(new) + 1] = p
      BY <1>2, <2>2, OneAppended
    <3>2. \A k \in 1 .. Len(new') : k \in 1 .. Len(new) \/ k = Len(new) + 1
      BY <3>1
    <3>3. \A k \in 1 .. Len(new) : new'[k].ids # c
      BY <1>2, <1>5, <3>1
    <3>4. \A k \in 1 .. Len(new') :
            new'[k].ids \in Candidates \ AllOf(todo') /\ new'[k].items = Extension(new'[k].ids)
      BY <1>2, <1>3, <1>5, <3>1, <3>2
    <3>5. \A k, l \in 1 .. Len(new') : new'[k].ids = new'[l].ids => k = l
      BY <1>2, <1>3, <3>1, <3>2, <3>3
    <3>6. QED  BY <3>1, <3>4, <3>5
  <2>3. QED  BY <1>1, <2>1, <2>2
<1>7. closed' \subseteq 1 .. Len(patterns')
  BY <1>1, <1>2
<1>8. QED  BY <1>2, <1>4, <1>5, <1>6, <1>7 DEF CandidatesInv

LEMMA CandidatesStep ==
  ASSUME PatternsInv, CandidatesInv, [Next]_vars
  PROVE  CandidatesInv'
<1>1. CASE StartLevel
  BY <1>1, StartLevelCandidates
<1>2. CASE ReadCandidate
  BY <1>2, ReadCandidates
<1>3. CASE UNCHANGED vars
  <2>1. Candidates' = Candidates /\ \A d : Extension(d)' = Extension(d)
    BY <1>3 DEF vars, memory, Candidates, IsCandidate, Following, Gap, At, Extension, LastItem
  <2>2. QED  BY <1>3, <2>1 DEF vars, memory, CandidatesInv
<1>4. CASE \/ Start \/ CreateSource \/ CreateNumbers \/ DropNumbers \/ FailSource
           \/ ExtractSingletons \/ EndLevel \/ Finish \/ Again \/ Kill
  <2>1. phase' # "pairs"
    BY <1>4 DEF Start, CreateSource, CreateNumbers, DropNumbers, FailSource, Fail, ExtractSingletons,
         EndLevel, Finish, Again, Kill
  <2>2. QED  BY <2>1 DEF CandidatesInv
<1>5. QED  BY <1>1, <1>2, <1>3, <1>4 DEF Next, Mine

-----------------------------------------------------------------------------
(* What is written.                                                        *)

Written(q, n) ==
  IsList(q) /\ Distinct(q) /\ \A i \in 1 .. Len(q) : Len(q[i].items) = n

LEMMA NothingWritten ==
  /\ IsList(<<>>) /\ Distinct(<<>>)
  /\ \A n : Shorter(<<>>, n) /\ Written(<<>>, n)
<1>1. Len(<<>>) = 0
  OBVIOUS
<1>2. IsList(<<>>)
  <2>1. <<>> = [k \in 1 .. 0 |-> <<>>[k]]
    OBVIOUS
  <2>2. QED  BY <2>1, ListOf
<1>3. QED  BY <1>1, <1>2 DEF Distinct, Shorter, Written

LEMMA LevelWritten ==
  ASSUME NEW n, NEW ps, LevelOf(ps, n), NEW S \in SUBSET (1 .. Len(ps))
  PROVE  Written(SaveAll(ps, S), n)
<1> DEFINE T == {i \in S : Frequent(Size(ps[i].groups))}
           at == InOrder(T)
           q == SaveAll(ps, S)
<1>1. Len(ps) \in Nat
  BY ListDomain DEF LevelOf
<1>2. T \subseteq 1 .. Len(ps)
  OBVIOUS
<1> HIDE DEF T
<1>3. T \in SUBSET Nat /\ IsFiniteSet(T)
  <2>1. IsFiniteSet(1 .. Len(ps))
    BY <1>1, FS_Interval
  <2>2. IsFiniteSet(T)
    BY <1>2, <2>1, FS_Subset
  <2>3. QED  BY <1>1, <1>2, <2>2
<1>4. /\ Size(T) \in Nat /\ at \in [1 .. Size(T) -> T]
      /\ \A k \in 1 .. Size(T) : Size(Upto(T, at[k])) = k
  BY <1>3, InOrderProperties
<1>5. q = [k \in DOMAIN at |-> AsSaved(ps[at[k]])]
  BY DEF SaveAll, T
<1> HIDE DEF at
<1>6. q = [k \in 1 .. Size(T) |-> AsSaved(ps[at[k]])]
  BY <1>4, <1>5
<1> HIDE DEF q
<1>7. IsList(q) /\ Len(q) = Size(T)
  <2>1. q = [k \in 1 .. Size(T) |-> q[k]]
    BY <1>6
  <2>2. QED  BY <1>4, <2>1, ListOf
<1>8. \A k \in 1 .. Size(T) : q[k].items = ps[at[k]].items /\ at[k] \in 1 .. Len(ps)
  <2>1. \A k \in 1 .. Size(T) : q[k] = AsSaved(ps[at[k]]) /\ at[k] \in T
    BY <1>4, <1>6
  <2>2. \A p : AsSaved(p).items = p.items
    BY DEF AsSaved
  <2>3. QED  BY <1>2, <2>1, <2>2
<1>9. ASSUME NEW k \in 1 .. Size(T), NEW l \in 1 .. Size(T), q[k].items = q[l].items
      PROVE  k = l
  <2>1. at[k] = at[l]
    BY <1>8, <1>9 DEF LevelOf, Distinct
  <2>2. QED  BY <1>4, <2>1
<1>10. \A k \in 1 .. Len(q) : Len(q[k].items) = n
  BY <1>7, <1>8 DEF LevelOf, OfLength
<1>11. Distinct(q)
  BY <1>7, <1>9 DEF Distinct
<1>12. QED  BY <1>7, <1>10, <1>11 DEF Written, q

(* Longer sequences are written behind shorter ones.                       *)
LEMMA WrittenBehind ==
  ASSUME NEW n \in Nat, NEW p, IsList(p), Distinct(p), Shorter(p, n), NEW q, Written(q, n)
  PROVE  IsList(p \o q) /\ Distinct(p \o q) /\ Shorter(p \o q, n + 1)
<1> DEFINE members == {p[k] : k \in DOMAIN p} \cup {q[k] : k \in DOMAIN q}
           r == p \o q
<1>1. IsList(r) /\ From(r, p, q)
  BY ListConcat DEF Written
<1>2. p \in Seq(members) /\ q \in Seq(members) /\ Len(p) \in Nat /\ Len(q) \in Nat
  BY SeqMonotonic, ListDomain DEF IsList, Written
<1> HIDE DEF members
<1>3. /\ Len(r) = Len(p) + Len(q)
      /\ \A k \in 1 .. Len(p) + Len(q) : r[k] = IF k <= Len(p) THEN p[k] ELSE q[k - Len(p)]
  BY <1>2, ConcatProperties
<1> HIDE DEF r
<1>4. \A k \in 1 .. Len(r) :
        \/ k \in 1 .. Len(p) /\ r[k] = p[k]
        \/ k - Len(p) \in 1 .. Len(q) /\ r[k] = q[k - Len(p)] /\ k \in Int
  BY <1>2, <1>3
<1>5. /\ \A k \in 1 .. Len(p) : Len(p[k].items) \in 0 .. n - 1
      /\ \A k \in 1 .. Len(q) : Len(q[k].items) = n
  BY DEF Shorter, Written
<1>6. \A k \in 1 .. Len(p) : \A l \in 1 .. Len(q) : p[k].items # q[l].items
  <2>1. n \notin 0 .. n - 1
    OBVIOUS
  <2>2. QED  BY <1>5, <2>1
<1>7. ASSUME NEW k \in 1 .. Len(r), NEW l \in 1 .. Len(r), r[k].items = r[l].items
      PROVE  k = l
  <2>1. CASE k \in 1 .. Len(p) /\ r[k] = p[k]
    <3>1. l \in 1 .. Len(p) /\ r[l] = p[l]
      BY <1>4, <1>6, <1>7, <2>1
    <3>2. QED  BY <1>7, <2>1, <3>1 DEF Distinct
  <2>2. CASE k - Len(p) \in 1 .. Len(q) /\ r[k] = q[k - Len(p)] /\ k \in Int
    <3>1. l - Len(p) \in 1 .. Len(q) /\ r[l] = q[l - Len(p)] /\ l \in Int
      BY <1>4, <1>6, <1>7, <2>2
    <3>2. k - Len(p) = l - Len(p)
      BY <1>7, <2>2, <3>1 DEF Distinct, Written
    <3>3. QED  BY <1>2, <2>2, <3>1, <3>2
  <2>3. QED  BY <1>4, <2>1, <2>2
<1>8. Distinct(r)
  BY <1>7 DEF Distinct
<1>9. Shorter(r, n + 1)
  <2>1. n \in 0 .. (n + 1) - 1 /\ \A m \in 0 .. n - 1 : m \in 0 .. (n + 1) - 1
    OBVIOUS
  <2>2. \A k \in 1 .. Len(r) : Len(r[k].items) \in 0 .. (n + 1) - 1
    BY <1>4, <1>5, <2>1
  <2>3. QED  BY <2>2 DEF Shorter
<1>10. QED  BY <1>1, <1>8, <1>9 DEF r

LEMMA SingletonsWritten ==
  ASSUME WrittenInv, ExtractSingletons
  PROVE  WrittenInv'
<1>1. /\ phase = "singletons" /\ phase' \in {"level", "finish"}
      /\ job' = job /\ kills' = kills /\ patterns' = Singletons
      /\ phase' = "level" => saved' = saved /\ level' = 2
      /\ saved' = saved \/ saved' = saved \o SaveAll(patterns', 1 .. Len(patterns'))
  BY DEF ExtractSingletons
<1>2. Written(SaveAll(Singletons, 1 .. Len(Singletons)), 1)
  BY SingletonsLevel, LevelWritten
<1>3. Fresh' => Fresh
  BY <1>1 DEF Fresh
<1>4. ASSUME Fresh  PROVE saved = <<>>
  BY <1>1, <1>4 DEF WrittenInv, Fresh
<1>5. ASSUME Fresh
      PROVE  /\ IsList(saved') /\ Distinct(saved')
             /\ phase' = "level" => Shorter(saved', level' - 1)
  <2>1. CASE saved' = saved
    BY <1>4, <1>5, <2>1, NothingWritten
  <2>2. CASE saved' = saved \o SaveAll(Singletons, 1 .. Len(Singletons))
    <3>1. IsList(saved') /\ Distinct(saved')
      BY <1>2, <1>4, <1>5, <2>2, NothingWritten, WrittenBehind
    <3>2. phase' = "level" => Shorter(saved', level' - 1)
      BY <1>1, <1>4, <1>5, NothingWritten
    <3>3. QED  BY <3>1, <3>2
  <2>3. QED  BY <1>1, <2>1, <2>2
<1>6. QED  BY <1>1, <1>3, <1>5 DEF WrittenInv

LEMMA LevelEnds ==
  ASSUME CountsInv, PatternsInv, CandidatesInv, WrittenInv, EndLevel
  PROVE  WrittenInv'
<1> DEFINE below == IF SavesBelow THEN SaveAll(patterns, closed) ELSE <<>>
           top == IF GoesOn /\ Last /\ job.length[1] <= level
                  THEN SaveAll(new, 1 .. Len(new)) ELSE <<>>
           both == saved \o below
<1>1. /\ phase = "pairs" /\ phase' \in {"level", "finish"}
      /\ job' = job /\ kills' = kills /\ saved' = both \o top
      /\ phase' = "level" => level' = level + 1 /\ ~(GoesOn /\ Last)
  BY DEF EndLevel
<1>2. level \in Nat /\ level >= 2 /\ level - 1 \in Nat /\ level - 1 + 1 = level
  BY <1>1 DEF CountsInv
<1>3. LevelOf(patterns, level - 1) /\ LevelOf(new, level) /\ closed \in SUBSET (1 .. Len(patterns))
  BY <1>1, NewLevel DEF PatternsInv, CandidatesInv
<1>4. Written(below, level - 1)
  BY <1>3, LevelWritten, NothingWritten
<1>5. Written(top, level)
  BY <1>3, LevelWritten, NothingWritten
<1>6. phase' = "level" => top = <<>>
  BY <1>1
<1> HIDE DEF below, top
<1>7. Fresh' => Fresh
  BY <1>1 DEF Fresh
<1>8. ASSUME Fresh
      PROVE  /\ IsList(saved') /\ Distinct(saved')
             /\ phase' = "level" => Shorter(saved', level' - 1)
  <2>1. IsList(saved) /\ Distinct(saved) /\ Shorter(saved, level - 1)
    BY <1>1, <1>8 DEF WrittenInv
  <2>2. IsList(both) /\ Distinct(both) /\ Shorter(both, level - 1 + 1)
    BY <1>2, <1>4, <2>1, WrittenBehind
  <2>3. Shorter(both, level)
    BY <1>2, <2>2
  <2> HIDE DEF both
  <2>4. IsList(saved') /\ Distinct(saved')
    BY <1>1, <1>2, <1>5, <2>2, <2>3, WrittenBehind
  <2>5. CASE phase' = "level"
    <3>1. both \o <<>> = both
      BY <2>2, ConcatEmptySeq DEF IsList
    <3>2. saved' = both
      BY <1>1, <1>6, <2>5, <3>1
    <3>3. level' - 1 = level
      BY <1>1, <1>2, <2>5
    <3>4. QED  BY <2>3, <2>4, <3>2, <3>3
  <2>6. QED  BY <2>4, <2>5
<1>9. QED  BY <1>1, <1>7, <1>8 DEF WrittenInv

(* A run begins with empty result tables, or is not the first.             *)
LEMMA RunStarts ==
  ASSUME WrittenInv, Start
  PROVE  WrittenInv'
<1>1. /\ phase = "start" /\ phase' = "source" /\ job' = job /\ kills' = kills
      /\ saved' = IF job.overwrite THEN <<>> ELSE saved
  BY DEF Start, CreateResultTables
<1>2. Fresh' => saved' = <<>>
  BY <1>1 DEF Fresh, WrittenInv
<1>3. IsList(<<>>) /\ Distinct(<<>>)
  BY NothingWritten
<1>4. kills' = 0 \/ job'.overwrite => Fresh'
  BY DEF Fresh
<1>5. QED  BY <1>1, <1>2, <1>3, <1>4 DEF WrittenInv

LEMMA WrittenStep ==
  ASSUME CountsInv, PatternsInv, CandidatesInv, WrittenInv, [Next]_vars
  PROVE  WrittenInv'
<1>1. CASE Start
  BY <1>1, RunStarts
<1>2. CASE ExtractSingletons
  BY <1>2, SingletonsWritten
<1>3. CASE EndLevel
  BY <1>3, LevelEnds
<1>4. CASE FailSource
  <2>1. saved' = <<>> /\ phase' = "failed"
    BY <1>4 DEF FailSource, Fail
  <2>2. QED  BY <2>1, NothingWritten DEF WrittenInv
<1>5. CASE Kill
  <2>1. /\ phase' = "start" /\ saved' = saved /\ job' = job /\ kills' = kills + 1
    BY <1>5 DEF Kill
  <2>2. kills' # 0
    BY <2>1 DEF CountsInv
  <2>3. Fresh' => Fresh
    BY <2>1, <2>2 DEF Fresh
  <2>4. QED  BY <2>1, <2>2, <2>3 DEF WrittenInv
<1>6. CASE CreateSource \/ CreateNumbers \/ DropNumbers \/ Again
  <2>1. /\ job' = job /\ kills' = kills /\ saved' = saved
        /\ \/ /\ phase \in {"source", "number", "numbered"}
              /\ phase' \in {"number", "numbered", "singletons", "finish"}
           \/ phase = "failed" /\ phase' = "start"
    BY <1>6 DEF CreateSource, CreateNumbers, DropNumbers, Again, memory
  <2>2. Fresh' => Fresh
    BY <2>1 DEF Fresh
  <2>3. QED  BY <2>1, <2>2 DEF WrittenInv
<1>7. CASE StartLevel \/ ReadCandidate \/ Finish \/ UNCHANGED vars
  <2>1. /\ job' = job /\ kills' = kills /\ saved' = saved /\ level' = level
        /\ \/ phase' = phase
           \/ phase = "level" /\ phase' = "pairs"
           \/ phase' = "done"
    BY <1>7 DEF StartLevel, ReadCandidate, Finish, vars, memory
  <2>2. Fresh' => Fresh
    BY <2>1 DEF Fresh
  <2>3. QED  BY <2>1, <2>2 DEF WrittenInv
<1>8. QED  BY <1>1, <1>2, <1>3, <1>4, <1>5, <1>6, <1>7 DEF Next, Mine

(* No sequence is in the result tables twice unless a killed run left rows *)
(* there, for any source table and minerule (STSMiner::pruningSeq2,        *)
(* pruningSeqK, saveSequences): a level writes patterns that differ, and   *)
(* are longer than all that earlier levels wrote.                          *)
THEOREM WritesOnce == Spec => []NoneTwice
<1>1. Init => CountsInv /\ PatternsInv /\ CandidatesInv /\ WrittenInv
  BY NothingWritten DEF Init, CountsInv, PatternsInv, CandidatesInv, WrittenInv
<1>2. CountsInv /\ PatternsInv /\ CandidatesInv /\ WrittenInv /\ [Next]_vars =>
        CountsInv' /\ PatternsInv' /\ CandidatesInv' /\ WrittenInv'
  BY CountsStep, PatternsStep, CandidatesStep, WrittenStep
<1>3. WrittenInv => NoneTwice
  BY ListDomain DEF WrittenInv, NoneTwice, Distinct
<1>4. QED  BY <1>1, <1>2, <1>3, PTL DEF Spec

-----------------------------------------------------------------------------
(* The rows of the source table.                                           *)

JobInv == job \in Jobs

EndOf(r) == [gid |-> r.gid, pos |-> r.pos, run |-> r.run]

LEMMA KeptNumbered ==
  ASSUME NEW t \in Seq(Element), NEW i \in DOMAIN t, NEW j \in DOMAIN t, t[i].kept, t[j].kept,
         Size({k \in 1 .. i : t[k].kept}) = Size({k \in 1 .. j : t[k].kept})
  PROVE  i = j
<1> DEFINE S == {k \in DOMAIN t : t[k].kept}
<1>1. DOMAIN t = 1 .. Len(t) /\ Len(t) \in Nat
  OBVIOUS
<1>2. i \in S /\ j \in S /\ S \subseteq 1 .. Len(t)
  BY <1>1
<1>3. Upto(S, i) = {k \in 1 .. i : t[k].kept} /\ Upto(S, j) = {k \in 1 .. j : t[k].kept}
  BY <1>1 DEF Upto
<1> HIDE DEF S
<1>4. IsFiniteSet(1 .. Len(t))
  BY <1>1, FS_Interval
<1>5. S \in SUBSET Nat /\ IsFiniteSet(S)
  <2>1. IsFiniteSet(S)
    BY <1>2, <1>4, FS_Subset
  <2>2. QED  BY <1>1, <1>2, <2>1
<1>6. Size(Upto(S, i)) = Size(Upto(S, j))
  BY <1>3
<1>7. QED  BY <1>2, <1>5, <1>6, UptoTaken

LEMMA InitialCount ==
  ASSUME NEW i \in Nat, NEW S, S \subseteq 1 .. i
  PROVE  Size(S) \in Nat
<1>1. IsFiniteSet(1 .. i)
  BY FS_Interval
<1>2. IsFiniteSet(S)
  BY <1>1, FS_Subset
<1>3. QED  BY <1>2, FS_CardinalityType DEF Size

LEMMA RowProperties ==
  ASSUME JobInv, NEW g \in Groups
  PROVE  /\ \A r \in RowsOf(g) : r.gid = g /\ r.pos \in Nat /\ r.run \in Nat
         /\ \A r, s \in RowsOf(g) : r.pos = s.pos => r = s
<1> DEFINE t == job.rows[g]
           pos(i) == Size({j \in 1 .. i : t[j].kept})
           run(i) == Size({j \in 1 .. i : j = 1 \/ t[j].item # t[j - 1].item})
           row(i) == [gid |-> g, item |-> t[i].item, pos |-> pos(i), run |-> run(i)]
<1>1. t \in Seq(Element)
  BY SequenceAssumption DEF JobInv, Job
<1>2. RowsOf(g) = {row(i) : i \in {j \in DOMAIN t : t[j].kept}}
  BY DEF RowsOf
<1> HIDE DEF t
<1>3. \A i \in DOMAIN t : pos(i) \in Nat /\ run(i) \in Nat
  <2>1. \A i \in DOMAIN t : i \in Nat
    BY <1>1
  <2>2. QED  BY <2>1, InitialCount
<1>4. \A i, j \in DOMAIN t : t[i].kept /\ t[j].kept /\ pos(i) = pos(j) => i = j
  BY <1>1, KeptNumbered
<1> HIDE DEF pos, run
<1>5. \A i : row(i).gid = g /\ row(i).pos = pos(i) /\ row(i).run = run(i)
  OBVIOUS
<1> HIDE DEF row
<1>6. QED  BY <1>2, <1>3, <1>4, <1>5

(* The rows of the groups that pass sourceFilter.                          *)
SourceRows == UNION {RowsOf(g) : g \in {h \in Groups : SourceFilter(h)}}
SourceInv ==
  phase \in {"number", "numbered", "singletons", "level", "pairs"} =>
    source = SourceRows /\ source # {}

LEMMA SourceProperties ==
  ASSUME JobInv, source = SourceRows
  PROVE  /\ \A r \in source : r.gid \in Groups /\ SourceFilter(r.gid) /\ r \in RowsOf(r.gid)
         /\ \A g \in Groups : SourceFilter(g) => RowsOf(g) \subseteq source
<1>1. ASSUME NEW r \in source
      PROVE  r.gid \in Groups /\ SourceFilter(r.gid) /\ r \in RowsOf(r.gid)
  <2>1. PICK g \in Groups : SourceFilter(g) /\ r \in RowsOf(g)
    BY DEF SourceRows
  <2>2. r.gid = g
    BY <2>1, RowProperties
  <2>3. QED  BY <2>1, <2>2
<1>2. QED  BY <1>1 DEF SourceRows

LEMMA JobKept ==
  ASSUME [Next]_vars
  PROVE  job' = job
BY DEF Next, Mine, vars, Start, CreateSource, CreateNumbers, DropNumbers, FailSource,
       ExtractSingletons, StartLevel, ReadCandidate, EndLevel, Finish, Kill, Again

LEMMA SourceStep ==
  ASSUME SourceInv, [Next]_vars
  PROVE  SourceInv'
<1>1. job' = job
  BY JobKept
<1>2. SourceRows' = SourceRows
  BY <1>1 DEF SourceRows, RowsOf, SourceFilter
<1>3. CASE CreateSource
  BY <1>2, <1>3 DEF CreateSource, SourceInv, SourceRows
<1>4. CASE CreateNumbers \/ DropNumbers \/ ExtractSingletons \/ StartLevel \/ ReadCandidate \/ EndLevel
           \/ UNCHANGED vars
  <2>1. source' = source
    BY <1>4 DEF CreateNumbers, DropNumbers, ExtractSingletons, StartLevel, ReadCandidate, EndLevel,
         vars, memory
  <2>2. phase' \in {"number", "numbered", "singletons", "level", "pairs"} =>
          phase \in {"number", "numbered", "singletons", "level", "pairs"}
    BY <1>4 DEF CreateNumbers, DropNumbers, ExtractSingletons, StartLevel, ReadCandidate, EndLevel, vars
  <2>3. QED  BY <1>2, <2>1, <2>2 DEF SourceInv
<1>5. CASE Start \/ FailSource \/ Finish \/ Kill \/ Again
  <2>1. phase' \in {"start", "source", "failed", "done"}
    BY <1>5 DEF Start, FailSource, Fail, Finish, Kill, Again
  <2>2. QED  BY <2>1 DEF SourceInv
<1>6. QED  BY <1>3, <1>4, <1>5 DEF Next, Mine

-----------------------------------------------------------------------------
(* The occurrences of a sequence.                                          *)

(* The ends of the occurrences of s, which is of length n, in the source.  *)
Ending(s, n) ==
  {e \in EndsOf(source) : \E f \in Occurrences(s, e.gid) : f[n].pos = e.pos}

LEMMA EndingMeaning ==
  ASSUME JobInv, source = SourceRows, NEW n \in Nat \ {0}, NEW s \in Seq(Items), Len(s) = n, NEW e
  PROVE  e \in Ending(s, n) <=>
           \E g \in Groups : SourceFilter(g) /\ \E f \in Occurrences(s, g) : e = EndOf(f[n])
<1>1. EndsOf(source) = {EndOf(r) : r \in source}
  BY DEF EndsOf, EndOf
<1>2. \A r : EndOf(r).gid = r.gid /\ EndOf(r).pos = r.pos
  BY DEF EndOf
<1>3. \A g : \A f \in Occurrences(s, g) : f[n] \in RowsOf(g)
  <2>1. n \in 1 .. n
    OBVIOUS
  <2>2. QED  BY <2>1 DEF Occurrences
<1>4. ASSUME e \in Ending(s, n)
      PROVE  \E g \in Groups : SourceFilter(g) /\ \E f \in Occurrences(s, g) : e = EndOf(f[n])
  <2>1. PICK r \in source : e = EndOf(r)
    BY <1>1, <1>4 DEF Ending
  <2>2. r.gid \in Groups /\ SourceFilter(r.gid) /\ r \in RowsOf(r.gid)
    BY SourceProperties
  <2>3. PICK f \in Occurrences(s, r.gid) : f[n].pos = r.pos
    BY <1>2, <1>4, <2>1 DEF Ending
  <2>4. f[n] = r
    BY <1>3, <2>2, <2>3, RowProperties
  <2>5. QED  BY <2>1, <2>2, <2>4
<1>5. ASSUME NEW g \in Groups, SourceFilter(g), NEW f \in Occurrences(s, g), e = EndOf(f[n])
      PROVE  e \in Ending(s, n)
  <2>1. f[n] \in source /\ f[n].gid = g
    BY <1>3, <1>5, SourceProperties, RowProperties
  <2>2. e \in EndsOf(source)
    BY <1>1, <1>5, <2>1
  <2>3. QED  BY <1>2, <1>5, <2>1, <2>2 DEF Ending
<1>6. QED  BY <1>4, <1>5

(* f is an occurrence: the items, and the gaps between neighbours.         *)
LEMMA OccurrenceMeaning ==
  ASSUME NEW n \in Nat, NEW s \in Seq(Items), Len(s) = n, NEW g, NEW f
  PROVE  f \in Occurrences(s, g) <=>
           /\ f \in [1 .. n -> RowsOf(g)]
           /\ \A k \in 1 .. n : f[k].item = s[k]
           /\ \A k \in 1 .. n - 1 : Gap(f[k], f[k + 1])
<1>1. DOMAIN s = 1 .. n
  OBVIOUS
<1>2. f \in Occurrences(s, g) <=>
        /\ f \in [1 .. n -> RowsOf(g)]
        /\ \A k \in 1 .. n : f[k].item = s[k] /\ (k > 1 => Gap(f[k - 1], f[k]))
  BY <1>1 DEF Occurrences, Occurs
<1>3. (\A k \in 1 .. n : k > 1 => Gap(f[k - 1], f[k])) <=> \A k \in 1 .. n - 1 : Gap(f[k], f[k + 1])
  <2>1. ASSUME \A k \in 1 .. n : k > 1 => Gap(f[k - 1], f[k]), NEW k \in 1 .. n - 1
        PROVE  Gap(f[k], f[k + 1])
    <3>1. k + 1 \in 1 .. n /\ k + 1 > 1 /\ k + 1 - 1 = k
      OBVIOUS
    <3>2. Gap(f[k + 1 - 1], f[k + 1])
      BY <2>1, <3>1
    <3>3. QED  BY <3>1, <3>2
  <2>2. ASSUME \A k \in 1 .. n - 1 : Gap(f[k], f[k + 1]), NEW k \in 1 .. n, k > 1
        PROVE  Gap(f[k - 1], f[k])
    <3>1. k - 1 \in 1 .. n - 1 /\ k - 1 + 1 = k
      BY <2>2
    <3>2. Gap(f[k - 1], f[k - 1 + 1])
      BY <2>2, <3>1
    <3>3. QED  BY <3>1, <3>2
  <2>3. QED  BY <2>1, <2>2
<1>4. QED  BY <1>2, <1>3

(* An occurrence of s, of length m, is one of p, of length n, and a row.   *)
Prolongs(s, p, n, m, g) ==
  /\ \A f \in Occurrences(p, g), r \in RowsOf(g) :
       r.item = s[m] /\ Gap(f[n], r) => \E h \in Occurrences(s, g) : h[m] = r
  /\ \A h \in Occurrences(s, g) :
       /\ \E f \in Occurrences(p, g) : f[n] = h[n]
       /\ h[n] \in RowsOf(g) /\ h[m] \in RowsOf(g)
       /\ h[m].item = s[m] /\ Gap(h[n], h[m])

LEMMA OccurrenceExtended ==
  ASSUME NEW n \in Nat \ {0}, NEW m, m = n + 1, NEW p \in Seq(Items), Len(p) = n,
         NEW s \in Seq(Items), Len(s) = m, \A k \in 1 .. n : s[k] = p[k], NEW g
  PROVE  Prolongs(s, p, n, m, g)
<1>1. ASSUME NEW f \in Occurrences(p, g), NEW r \in RowsOf(g), r.item = s[n + 1], Gap(f[n], r)
      PROVE  \E h \in Occurrences(s, g) : h[n + 1] = r
  <2> DEFINE h == [k \in 1 .. n + 1 |-> IF k = n + 1 THEN r ELSE f[k]]
  <2>1. /\ f \in [1 .. n -> RowsOf(g)]
        /\ \A k \in 1 .. n : f[k].item = p[k]
        /\ \A k \in 1 .. n - 1 : Gap(f[k], f[k + 1])
    BY OccurrenceMeaning
  <2>2. h[n + 1] = r /\ \A k \in 1 .. n : h[k] = f[k] /\ f[k] \in RowsOf(g)
    BY <2>1
  <2>3. \A k \in 1 .. n + 1 : k = n + 1 \/ k \in 1 .. n
    OBVIOUS
  <2>4. h \in [1 .. n + 1 -> RowsOf(g)]
    BY <2>2, <2>3
  <2> HIDE DEF h
  <2>5. \A k \in 1 .. n + 1 : h[k].item = s[k]
    BY <1>1, <2>1, <2>2, <2>3
  <2>6. \A k \in 1 .. n : Gap(h[k], h[k + 1])
    <3>1. \A k \in 1 .. n - 1 : k \in 1 .. n /\ k + 1 \in 1 .. n
      OBVIOUS
    <3>2. \A k \in 1 .. n - 1 : Gap(h[k], h[k + 1])
      BY <2>1, <2>2, <3>1
    <3>3. \A k \in 1 .. n : k = n \/ k \in 1 .. n - 1
      OBVIOUS
    <3>4. n \in 1 .. n
      OBVIOUS
    <3>5. Gap(h[n], h[n + 1])
      BY <1>1, <2>2, <3>4
    <3>6. QED  BY <3>2, <3>3, <3>5
  <2>7. n + 1 \in Nat /\ n + 1 - 1 = n
    OBVIOUS
  <2>8. h \in Occurrences(s, g)
    BY <2>4, <2>5, <2>6, <2>7, OccurrenceMeaning
  <2>9. QED  BY <2>2, <2>8
<1>2. ASSUME NEW h \in Occurrences(s, g)
      PROVE  /\ \E f \in Occurrences(p, g) : f[n] = h[n]
             /\ h[n] \in RowsOf(g) /\ h[n + 1] \in RowsOf(g)
             /\ h[n + 1].item = s[n + 1] /\ Gap(h[n], h[n + 1])
  <2> DEFINE f == [k \in 1 .. n |-> h[k]]
  <2>1. n + 1 \in Nat /\ n + 1 - 1 = n
    OBVIOUS
  <2>2. /\ h \in [1 .. n + 1 -> RowsOf(g)]
        /\ \A k \in 1 .. n + 1 : h[k].item = s[k]
        /\ \A k \in 1 .. n : Gap(h[k], h[k + 1])
    BY <2>1, OccurrenceMeaning
  <2>3. n \in 1 .. n /\ n + 1 \in 1 .. n + 1 /\ \A k \in 1 .. n : k \in 1 .. n + 1
    OBVIOUS
  <2>4. f \in [1 .. n -> RowsOf(g)] /\ \A k \in 1 .. n : f[k] = h[k]
    BY <2>2, <2>3
  <2> HIDE DEF f
  <2>5. \A k \in 1 .. n : f[k].item = p[k]
    BY <2>2, <2>3, <2>4
  <2>6. \A k \in 1 .. n - 1 : Gap(f[k], f[k + 1])
    <3>1. \A k \in 1 .. n - 1 : k \in 1 .. n /\ k + 1 \in 1 .. n
      OBVIOUS
    <3>2. QED  BY <2>2, <2>4, <3>1
  <2>7. f \in Occurrences(p, g)
    BY <2>4, <2>5, <2>6, OccurrenceMeaning
  <2>8. QED  BY <2>2, <2>3, <2>4, <2>7
<1>3. QED  BY <1>1, <1>2 DEF Prolongs

LEMMA TailOccurs ==
  ASSUME NEW n \in Nat \ {0}, NEW m, m = n + 1, NEW q \in Seq(Items), Len(q) = n,
         NEW s \in Seq(Items), Len(s) = m, \A k \in 1 .. n : s[k + 1] = q[k],
         NEW g, NEW h \in Occurrences(s, g)
  PROVE  \E f \in Occurrences(q, g) : f[n] = h[m]
<1> DEFINE f == [k \in 1 .. n |-> h[k + 1]]
<1>1. n + 1 \in Nat /\ n + 1 - 1 = n
  OBVIOUS
<1>2. /\ h \in [1 .. n + 1 -> RowsOf(g)]
      /\ \A k \in 1 .. n + 1 : h[k].item = s[k]
      /\ \A k \in 1 .. n : Gap(h[k], h[k + 1])
  BY <1>1, OccurrenceMeaning
<1>3. n \in 1 .. n /\ \A k \in 1 .. n : k + 1 \in 1 .. n + 1
  OBVIOUS
<1>4. f \in [1 .. n -> RowsOf(g)] /\ \A k \in 1 .. n : f[k] = h[k + 1]
  BY <1>2, <1>3
<1> HIDE DEF f
<1>5. \A k \in 1 .. n : f[k].item = q[k]
  BY <1>2, <1>3, <1>4
<1>6. \A k \in 1 .. n - 1 : Gap(f[k], f[k + 1])
  <2>1. \A k \in 1 .. n - 1 : k \in 1 .. n /\ k + 1 \in 1 .. n
    OBVIOUS
  <2>2. QED  BY <1>2, <1>4, <2>1
<1>7. f \in Occurrences(q, g)
  BY <1>4, <1>5, <1>6, OccurrenceMeaning
<1>8. QED  BY <1>3, <1>4, <1>7

-----------------------------------------------------------------------------
(* The ends of a pattern are those of its occurrences.                     *)

(* An end stays if some end of the other pattern is within the gaps: of    *)
(* those not too far away, the first one is the furthest.                  *)
LEMMA CheckedEnds ==
  ASSUME JobInv, NEW p, NEW q, \A f \in p.ends \cup q.ends : At(f) \in Nat, NEW e
  PROVE  e \in CheckPosLists(p, q) <=>
           e \in q.ends /\ \E f \in p.ends : f.gid = e.gid /\ Gap(f, e)
<1> DEFINE near == {f \in p.ends : f.gid = e.gid /\ At(f) + job.gaps[2] + 1 >= At(e)}
           first == CHOOSE f \in near : \A h \in near : At(f) <= At(h)
<1>1. job.gaps[1] \in Nat /\ job.gaps[2] \in Nat
  BY SequenceAssumption DEF JobInv, Job
<1>2. e \in CheckPosLists(p, q) <=> e \in q.ends /\ near # {} /\ Gap(first, e)
  BY DEF CheckPosLists
<1>3. \A f \in near : f \in p.ends /\ f.gid = e.gid /\ At(f) \in Nat
  OBVIOUS
<1>4. ASSUME near # {}  PROVE first \in near /\ \A h \in near : At(first) <= At(h)
  <2> DEFINE T == {At(h) : h \in near}
  <2>1. T \in SUBSET Nat /\ T # {}
    BY <1>3, <1>4
  <2>2. Least(T) \in T /\ \A j \in T : Least(T) <= j
    BY <2>1, LeastProperties
  <2>3. \E h \in near : \A i \in near : At(h) <= At(i)
    BY <2>2
  <2>4. QED  BY <2>3
<1>5. ASSUME e \in q.ends, NEW f \in p.ends, f.gid = e.gid, Gap(f, e)
      PROVE  near # {} /\ Gap(first, e)
  <2>1. At(e) \in Nat /\ At(f) \in Nat
    BY <1>5
  <2>2. At(f) < At(e) /\ At(e) - At(f) - 1 >= job.gaps[1] /\ At(e) - At(f) - 1 <= job.gaps[2]
    BY <1>1, <1>5, <2>1 DEF Gap
  <2>3. f \in near
    BY <1>1, <1>5, <2>1, <2>2
  <2>4. first \in near /\ \A h \in near : At(first) <= At(h)
    BY <1>4, <2>3
  <2>5. At(first) \in Nat /\ At(first) <= At(f) /\ At(first) + job.gaps[2] + 1 >= At(e)
    BY <1>3, <2>3, <2>4
  <2> HIDE DEF first, near
  <2>6. At(first) < At(e) /\ At(e) - At(first) - 1 \in job.gaps[1] .. job.gaps[2]
    BY <1>1, <2>1, <2>2, <2>5
  <2>7. QED  BY <2>3, <2>6 DEF Gap
<1>6. ASSUME near # {}, Gap(first, e)
      PROVE  \E f \in p.ends : f.gid = e.gid /\ Gap(f, e)
  <2>1. first \in p.ends /\ first.gid = e.gid
    BY <1>3, <1>4, <1>6
  <2>2. QED  BY <1>6, <2>1
<1> HIDE DEF near, first
<1>7. QED  BY <1>2, <1>5, <1>6

(* The tail of a pattern is the front of those with its second id.         *)
Overlaps(ps, n) ==
  \A i, j \in 1 .. Len(ps) :
    ps[i].ids[2] = ps[j].ids[1] => \A k \in 1 .. n - 1 : ps[i].items[k + 1] = ps[j].items[k]
EndsKnown(ps, n) ==
  \A i \in 1 .. Len(ps) : n > 1 => ps[i].ends = Ending(ps[i].items, n)

EndsInv ==
  /\ phase \in {"level", "pairs"} =>
       Overlaps(patterns, level - 1) /\ EndsKnown(patterns, level - 1)
  /\ phase = "pairs" => EndsKnown(new, level)

LEMMA CandidateTail ==
  ASSUME CountsInv, level >= 2, LevelOf(patterns, level - 1), Overlaps(patterns, level - 1),
         NEW c \in Candidates, NEW k \in 1 .. level - 1
  PROVE  Extension(c)[k + 1] = patterns[c[2]].items[k]
<1>1. /\ c[1] \in 1 .. Len(patterns) /\ c[2] \in 1 .. Len(patterns)
      /\ IsCandidate(patterns[c[1]], patterns[c[2]])
      /\ \A i \in 1 .. level - 1 : Extension(c)[i] = patterns[c[1]].items[i]
      /\ Extension(c)[level] = patterns[c[2]].items[level - 1]
  BY CandidateExtension
<1>2. level \in Nat
  BY DEF CountsInv
<1>3. CASE k = level - 1
  <2>1. k + 1 = level
    BY <1>2, <1>3
  <2>2. QED  BY <1>1, <1>3, <2>1
<1>4. CASE k # level - 1
  <2>1. k \in 1 .. level - 1 - 1 /\ k + 1 \in 1 .. level - 1 /\ level # 2
    BY <1>2, <1>4
  <2>2. patterns[c[1]].ids[2] = patterns[c[2]].ids[1]
    BY <1>1, <2>1 DEF IsCandidate
  <2>3. patterns[c[1]].items[k + 1] = patterns[c[2]].items[k]
    BY <1>1, <2>1, <2>2 DEF Overlaps
  <2>4. QED  BY <1>1, <2>1, <2>3
<1>5. QED  BY <1>3, <1>4

LEMMA EndPosition ==
  \A r, h : /\ EndOf(r).gid = r.gid /\ At(EndOf(r)) = At(r)
            /\ Gap(EndOf(r), EndOf(h)) <=> Gap(r, h)
<1>1. \A r : EndOf(r).gid = r.gid /\ At(EndOf(r)) = At(r)
  BY DEF EndOf, At
<1>2. QED  BY <1>1 DEF Gap

LEMMA SingleOccurs ==
  ASSUME NEW p \in Seq(Items), Len(p) = 1, NEW g, NEW r \in RowsOf(g), r.item = p[1]
  PROVE  \E f \in Occurrences(p, g) : f[1] = r
<1> DEFINE f == [k \in 1 .. 1 |-> r]
<1>1. f \in [1 .. 1 -> RowsOf(g)] /\ f[1] = r
  OBVIOUS
<1> HIDE DEF f
<1>2. \A k \in 1 .. 1 : f[k].item = p[k]
  BY <1>1
<1>3. \A k \in 1 .. 1 - 1 : Gap(f[k], f[k + 1])
  OBVIOUS
<1>4. f \in Occurrences(p, g)
  BY <1>1, <1>2, <1>3, OccurrenceMeaning
<1>5. QED  BY <1>1, <1>4

(* extract2Sequences finds the ends of a pair of items in the source table. *)
LEMMA PairEnds ==
  ASSUME JobInv, source = SourceRows, NEW p \in Seq(Items), Len(p) = 1,
         NEW s \in Seq(Items), Len(s) = 2, s[1] = p[1]
  PROVE  EndsOf(Following(p[1], s[2])) = Ending(s, 2)
<1>1. EndsOf(Following(p[1], s[2])) = {EndOf(r) : r \in Following(p[1], s[2])}
  BY DEF EndsOf, EndOf
<1>2. 1 \in Nat \ {0} /\ 2 \in Nat \ {0} /\ 2 = 1 + 1 /\ \A k \in 1 .. 1 : s[k] = p[k]
  OBVIOUS
<1>3. \A g : Prolongs(s, p, 1, 2, g)
  BY <1>2, OccurrenceExtended
<1>4. ASSUME NEW r \in Following(p[1], s[2])  PROVE EndOf(r) \in Ending(s, 2)
  <2>1. PICK q \in source : q.item = p[1] /\ q.gid = r.gid /\ Gap(q, r)
    BY DEF Following
  <2>2. r \in source /\ r.item = s[2]
    BY DEF Following
  <2>3. r.gid \in Groups /\ SourceFilter(r.gid) /\ r \in RowsOf(r.gid) /\ q \in RowsOf(r.gid)
    BY <2>1, <2>2, SourceProperties
  <2>4. PICK f \in Occurrences(p, r.gid) : f[1] = q
    BY <2>1, <2>3, SingleOccurs
  <2>5. PICK h \in Occurrences(s, r.gid) : h[2] = r
    BY <1>3, <2>1, <2>2, <2>3, <2>4 DEF Prolongs
  <2>6. QED  BY <1>2, <2>3, <2>5, EndingMeaning
<1>5. ASSUME NEW e \in Ending(s, 2)  PROVE \E r \in Following(p[1], s[2]) : e = EndOf(r)
  <2>1. PICK g \in Groups : SourceFilter(g) /\ \E h \in Occurrences(s, g) : e = EndOf(h[2])
    <3>1. s \in Seq(Items) /\ 2 \in Nat \ {0}
      OBVIOUS
    <3>2. QED  BY <1>5, <3>1, EndingMeaning
  <2>2. PICK h \in Occurrences(s, g) : e = EndOf(h[2])
    BY <2>1
  <2>3. /\ h[1] \in RowsOf(g) /\ h[2] \in RowsOf(g) /\ h[2].item = s[2] /\ Gap(h[1], h[2])
    BY <1>3 DEF Prolongs
  <2>4. h[1].item = p[1]
    <3>1. 1 \in 1 .. 2
      OBVIOUS
    <3>2. QED  BY <3>1, OccurrenceMeaning
  <2>5. h[1] \in source /\ h[2] \in source /\ h[1].gid = h[2].gid
    BY <2>1, <2>3, SourceProperties, RowProperties
  <2>6. h[2] \in Following(p[1], s[2])
    BY <2>3, <2>4, <2>5 DEF Following
  <2>7. QED  BY <2>2, <2>6
<1>6. QED  BY <1>1, <1>4, <1>5

(* check_pos_lists_with_gap finds those of a longer one among the ends of  *)
(* its two parts.                                                          *)
LEMMA LongerEnds ==
  ASSUME JobInv, source = SourceRows, NEW n \in Nat \ {0}, NEW m \in Nat \ {0}, m = n + 1,
         NEW p, p.items \in Seq(Items), Len(p.items) = n, p.ends = Ending(p.items, n),
         NEW q, q.items \in Seq(Items), Len(q.items) = n, q.ends = Ending(q.items, n),
         NEW s \in Seq(Items), Len(s) = m,
         \A k \in 1 .. n : s[k] = p.items[k], \A k \in 1 .. n : s[k + 1] = q.items[k]
  PROVE  CheckPosLists(p, q) = Ending(s, m)
<1>1. \A g : Prolongs(s, p.items, n, m, g)
  BY OccurrenceExtended
<1>2. \A g : \A h \in Occurrences(s, g) : \E f \in Occurrences(q.items, g) : f[n] = h[m]
  BY TailOccurs
<1>3. \A e : e \in p.ends <=>
        \E g \in Groups : SourceFilter(g) /\ \E f \in Occurrences(p.items, g) : e = EndOf(f[n])
  BY EndingMeaning
<1>4. \A e : e \in q.ends <=>
        \E g \in Groups : SourceFilter(g) /\ \E f \in Occurrences(q.items, g) : e = EndOf(f[n])
  BY EndingMeaning
<1>5. \A e : e \in Ending(s, m) <=>
        \E g \in Groups : SourceFilter(g) /\ \E f \in Occurrences(s, g) : e = EndOf(f[m])
  BY EndingMeaning
<1>6. /\ \A g : \A f \in Occurrences(p.items, g) : f[n] \in RowsOf(g)
      /\ \A g : \A f \in Occurrences(q.items, g) : f[n] \in RowsOf(g) /\ f[n].item = q.items[n]
  <2>1. n \in 1 .. n
    OBVIOUS
  <2>2. QED  BY <2>1, OccurrenceMeaning
<1>7. \A g \in Groups : \A r \in RowsOf(g) : At(EndOf(r)) \in Nat /\ EndOf(r).gid = g
  BY RowProperties, EndPosition DEF At
<1>8. \A f \in p.ends \cup q.ends : At(f) \in Nat
  BY <1>3, <1>4, <1>6, <1>7
<1>9. q.items[n] = s[m]
  <2>1. n \in 1 .. n
    OBVIOUS
  <2>2. QED  BY <2>1
<1>10. ASSUME NEW e \in CheckPosLists(p, q)  PROVE e \in Ending(s, m)
  <2>1. e \in q.ends /\ \E b \in p.ends : b.gid = e.gid /\ Gap(b, e)
    BY <1>8, CheckedEnds
  <2>2. PICK g \in Groups : SourceFilter(g) /\ \E h \in Occurrences(q.items, g) : e = EndOf(h[n])
    BY <1>4, <2>1
  <2>3. PICK h \in Occurrences(q.items, g) : e = EndOf(h[n])
    BY <2>2
  <2>4. PICK b \in p.ends : b.gid = e.gid /\ Gap(b, e)
    BY <2>1
  <2>5. PICK i \in Groups : \E f \in Occurrences(p.items, i) : b = EndOf(f[n])
    BY <1>3
  <2>6. PICK f \in Occurrences(p.items, i) : b = EndOf(f[n])
    BY <2>5
  <2>7. i = g
    BY <1>6, <1>7, <2>3, <2>4, <2>6
  <2>8. Gap(f[n], h[n]) /\ h[n] \in RowsOf(g) /\ h[n].item = s[m]
    BY <1>6, <1>9, <2>3, <2>4, <2>6, EndPosition
  <2>9. \E t \in Occurrences(s, g) : t[m] = h[n]
    BY <1>1, <2>7, <2>8 DEF Prolongs
  <2>10. QED  BY <1>5, <2>2, <2>3, <2>9
<1>11. ASSUME NEW e \in Ending(s, m)  PROVE e \in CheckPosLists(p, q)
  <2>1. PICK g \in Groups : SourceFilter(g) /\ \E h \in Occurrences(s, g) : e = EndOf(h[m])
    BY <1>5
  <2>2. PICK h \in Occurrences(s, g) : e = EndOf(h[m])
    BY <2>1
  <2>3. /\ \E f \in Occurrences(p.items, g) : f[n] = h[n]
        /\ h[n] \in RowsOf(g) /\ h[m] \in RowsOf(g) /\ Gap(h[n], h[m])
    BY <1>1 DEF Prolongs
  <2>4. EndOf(h[n]) \in p.ends
    BY <1>3, <2>1, <2>3
  <2>5. e \in q.ends
    BY <1>2, <1>4, <2>1, <2>2
  <2>6. EndOf(h[n]).gid = e.gid /\ Gap(EndOf(h[n]), e)
    BY <1>7, <2>2, <2>3, EndPosition
  <2>7. QED  BY <1>8, <2>4, <2>5, <2>6, CheckedEnds
<1>12. QED  BY <1>10, <1>11

LEMMA CandidateEnds ==
  ASSUME JobInv, CountsInv, source = SourceRows, level >= 2, LevelOf(patterns, level - 1),
         Overlaps(patterns, level - 1), EndsKnown(patterns, level - 1), NEW c \in Candidates
  PROVE  Extended(patterns[c[1]], patterns[c[2]], c).ends = Ending(Extension(c), level)
<1> DEFINE p == patterns[c[1]]
           q == patterns[c[2]]
           s == Extension(c)
<1>1. /\ c[1] \in 1 .. Len(patterns) /\ c[2] \in 1 .. Len(patterns)
      /\ s \in Seq(Items) /\ Len(s) = level
      /\ \A k \in 1 .. level - 1 : s[k] = p.items[k]
      /\ s[level] = q.items[level - 1]
  BY CandidateExtension
<1>2. \A k \in 1 .. level - 1 : s[k + 1] = q.items[k]
  BY CandidateTail
<1>3. /\ p.items \in Seq(Items) /\ Len(p.items) = level - 1
      /\ q.items \in Seq(Items) /\ Len(q.items) = level - 1
  BY <1>1 DEF LevelOf, OfLength
<1>4. level \in Nat \ {0} /\ level - 1 \in Nat \ {0} /\ level = (level - 1) + 1
  BY DEF CountsInv
<1>5. Extended(p, q, c).ends =
        IF level = 2 THEN EndsOf(Following(p.items[1], q.items[1])) ELSE CheckPosLists(p, q)
  BY DEF Extended
<1>6. CASE level = 2
  <2>1. 1 \in 1 .. level - 1
    BY <1>6
  <2>2. s[1] = p.items[1] /\ s[2] = q.items[1] /\ Len(p.items) = 1 /\ Len(s) = 2
    BY <1>1, <1>3, <1>6, <2>1
  <2> HIDE DEF p, q, s
  <2>3. EndsOf(Following(p.items[1], s[2])) = Ending(s, 2)
    BY <1>1, <1>3, <2>2, PairEnds
  <2>4. Extended(p, q, c).ends = Ending(s, 2)
    BY <1>5, <1>6, <2>2, <2>3
  <2>5. QED  BY <1>6, <2>4 DEF p, q, s
<1>7. CASE level # 2
  <2>1. p.ends = Ending(p.items, level - 1) /\ q.ends = Ending(q.items, level - 1)
    BY <1>1, <1>4, <1>7 DEF EndsKnown
  <2> DEFINE n == level - 1
  <2> HIDE DEF p, q, s
  <2>2. /\ n \in Nat \ {0} /\ level \in Nat \ {0} /\ level = n + 1
        /\ p.items \in Seq(Items) /\ Len(p.items) = n /\ p.ends = Ending(p.items, n)
        /\ q.items \in Seq(Items) /\ Len(q.items) = n /\ q.ends = Ending(q.items, n)
        /\ \A k \in 1 .. n : s[k] = p.items[k]
        /\ \A k \in 1 .. n : s[k + 1] = q.items[k]
    BY <1>1, <1>2, <1>3, <1>4, <2>1
  <2> HIDE DEF n
  <2>3. CheckPosLists(p, q) = Ending(s, level)
    BY <1>1, <2>2, LongerEnds
  <2>4. Extended(p, q, c).ends = Ending(s, level)
    BY <1>5, <1>7, <2>3
  <2>5. QED  BY <2>4 DEF p, q, s
<1>8. QED  BY <1>6, <1>7

LEMMA NewOverlaps ==
  ASSUME CountsInv, PatternsInv, CandidatesInv, EndsInv, phase = "pairs"
  PROVE  Overlaps(new, level)
<1>1. /\ level >= 2 /\ level \in Nat /\ LevelOf(patterns, level - 1) /\ Overlaps(patterns, level - 1)
      /\ \A k \in 1 .. Len(new) : new[k].ids \in Candidates /\ new[k].items = Extension(new[k].ids)
  BY DEF CountsInv, PatternsInv, CandidatesInv, EndsInv
<1>2. ASSUME NEW i \in 1 .. Len(new), NEW j \in 1 .. Len(new), new[i].ids[2] = new[j].ids[1],
             NEW k \in 1 .. level - 1
      PROVE  new[i].items[k + 1] = new[j].items[k]
  <2>1. new[i].items[k + 1] = patterns[new[i].ids[2]].items[k]
    BY <1>1, CandidateTail
  <2>2. new[j].items[k] = patterns[new[j].ids[1]].items[k]
    BY <1>1, CandidateExtension
  <2>3. QED  BY <1>2, <2>1, <2>2
<1>3. QED  BY <1>2 DEF Overlaps

LEMMA EndsStep ==
  ASSUME JobInv, SourceInv, CountsInv, PatternsInv, CandidatesInv, EndsInv, [Next]_vars
  PROVE  EndsInv'
<1>1. ASSUME source' = source
      PROVE  /\ \A s, n : Ending(s, n)' = Ending(s, n)
             /\ \A ps, n : EndsKnown(ps, n)' <=> EndsKnown(ps, n)
  <2>1. \A s, n : Ending(s, n)' = Ending(s, n)
    <3>1. job' = job
      BY JobKept
    <3>2. \A g : RowsOf(g)' = RowsOf(g)
      BY <3>1 DEF RowsOf
    <3>3. \A p, q : Gap(p, q)' <=> Gap(p, q)
      BY <3>1 DEF Gap, At
    <3>4. \A s, g, f : Occurs(s, g, f)' <=> Occurs(s, g, f)
      BY <3>3 DEF Occurs
    <3>5. \A s, g : Occurrences(s, g)' = Occurrences(s, g)
      BY <3>2, <3>4 DEF Occurrences
    <3>6. QED  BY <1>1, <3>5 DEF Ending, EndsOf
  <2>2. QED  BY <2>1 DEF EndsKnown
<1>2. CASE ExtractSingletons
  <2>1. CASE phase' = "level"
    <3>1. level' - 1 = 1
      BY <1>2, <2>1 DEF ExtractSingletons
    <3>2. ~(1 > 1) /\ 1 .. 1 - 1 = {}
      OBVIOUS
    <3>3. QED  BY <2>1, <3>1, <3>2 DEF EndsInv, EndsKnown, Overlaps
  <2>2. CASE phase' # "level"
    BY <1>2, <2>2 DEF ExtractSingletons, EndsInv
  <2>3. QED  BY <2>1, <2>2
<1>3. CASE StartLevel
  <2>1. /\ phase = "level" /\ patterns' = patterns /\ level' = level /\ source' = source /\ new' = <<>>
    BY <1>3 DEF StartLevel
  <2>2. Overlaps(patterns, level - 1) /\ EndsKnown(patterns, level - 1)
    BY <2>1 DEF EndsInv
  <2>3. EndsKnown(<<>>, level)
    BY DEF EndsKnown
  <2>4. QED  BY <1>1, <2>1, <2>2, <2>3 DEF EndsInv, EndsKnown
<1>4. CASE ReadCandidate
  <2> DEFINE c == Head(todo)
             p == Extended(patterns[c[1]], patterns[c[2]], c)
  <2>1. /\ phase = "pairs" /\ todo # <<>> /\ phase' = phase
        /\ patterns' = patterns /\ level' = level /\ source' = source
        /\ new' = new \/ new' = Append(new, p)
    BY <1>4 DEF ReadCandidate
  <2>2. /\ Overlaps(patterns, level - 1) /\ EndsKnown(patterns, level - 1)
        /\ level >= 2 /\ LevelOf(patterns, level - 1) /\ source = SourceRows
    BY <2>1 DEF EndsInv, PatternsInv, CountsInv, SourceInv
  <2>3. c \in Candidates
    BY <2>1, ReadOnce DEF CandidatesInv
  <2>4. p.ends = Ending(p.items, level)
    <3>1. p.items = Extension(c)
      BY DEF Extended, Extension, LastItem
    <3> HIDE DEF c
    <3>2. QED  BY <2>2, <2>3, <3>1, CandidateEnds
  <2> HIDE DEF p, c
  <2>5. \A k \in 1 .. Len(new') : new'[k].ends = Ending(new'[k].items, level)
    <3>1. \A k \in 1 .. Len(new) : new[k].ends = Ending(new[k].items, level)
      BY <2>1, <2>2 DEF EndsInv, EndsKnown, CountsInv
    <3>2. CASE new' = new
      BY <3>1, <3>2
    <3>3. CASE new' = Append(new, p)
      <4>1. /\ Len(new') = Len(new) + 1 /\ Len(new) \in Nat
            /\ \A k \in 1 .. Len(new) : new'[k] = new[k]
            /\ new'[Len(new) + 1] = p
        BY <2>1, <3>3, OneAppended DEF CandidatesInv
      <4>2. \A k \in 1 .. Len(new') : k \in 1 .. Len(new) \/ k = Len(new) + 1
        BY <4>1
      <4>3. QED  BY <2>4, <3>1, <4>1, <4>2
    <3>4. QED  BY <2>1, <3>2, <3>3
  <2>6. QED  BY <1>1, <2>1, <2>2, <2>5 DEF EndsInv, EndsKnown
<1>5. CASE EndLevel
  <2>1. CASE phase' = "level"
    <3>1. phase = "pairs" /\ patterns' = new /\ level' = level + 1 /\ source' = source
      BY <1>5, <2>1 DEF EndLevel
    <3>2. level' - 1 = level
      BY <3>1 DEF CountsInv
    <3>3. Overlaps(new, level) /\ EndsKnown(new, level)
      BY <3>1, NewOverlaps DEF EndsInv
    <3>4. QED  BY <1>1, <2>1, <3>1, <3>2, <3>3 DEF EndsInv, EndsKnown
  <2>2. CASE phase' # "level"
    BY <1>5, <2>2 DEF EndLevel, EndsInv
  <2>3. QED  BY <2>1, <2>2
<1>6. CASE UNCHANGED vars
  BY <1>1, <1>6 DEF vars, memory, EndsInv, EndsKnown
<1>7. CASE Start \/ CreateSource \/ CreateNumbers \/ DropNumbers \/ FailSource \/ Finish \/ Again \/ Kill
  <2>1. phase' \notin {"level", "pairs"}
    BY <1>7 DEF Start, CreateSource, CreateNumbers, DropNumbers, FailSource, Fail, Finish, Again, Kill
  <2>2. QED  BY <2>1 DEF EndsInv
<1>8. QED  BY <1>2, <1>3, <1>4, <1>5, <1>6, <1>7 DEF Next, Mine

LEMMA JobStep ==
  ASSUME JobInv, [Next]_vars
  PROVE  JobInv'
BY JobKept DEF JobInv

(* Each pattern found is kept with the last positions of all of its        *)
(* occurrences in the groups that are left, and no others, however many    *)
(* levels made it (STSMiner::extract2Sequences, check_pos_lists_with_gap): *)
(* the next level may look for occurrences there only.                     *)
THEOREM PositionsExact == Spec => []EndsExact
<1>1. Init => /\ JobInv /\ SourceInv /\ CountsInv /\ PatternsInv /\ CandidatesInv /\ EndsInv
  BY DEF Init, JobInv, SourceInv, CountsInv, PatternsInv, CandidatesInv, EndsInv
<1>2. JobInv /\ SourceInv /\ CountsInv /\ PatternsInv /\ CandidatesInv /\ EndsInv /\ [Next]_vars =>
        JobInv' /\ SourceInv' /\ CountsInv' /\ PatternsInv' /\ CandidatesInv' /\ EndsInv'
  BY JobStep, SourceStep, CountsStep, PatternsStep, CandidatesStep, EndsStep
<1>3. CountsInv /\ CandidatesInv /\ EndsInv => EndsExact
  <2>1. ASSUME CountsInv, CandidatesInv, EndsInv, phase = "pairs", NEW i \in DOMAIN new
        PROVE  new[i].ends =
                 {e \in EndsOf(source) : \E f \in Occurrences(new[i].items, e.gid) : f[level].pos = e.pos}
    <3>1. i \in 1 .. Len(new) /\ level > 1
      BY <2>1, ListDomain DEF CandidatesInv, CountsInv
    <3>2. QED  BY <2>1, <3>1 DEF EndsInv, EndsKnown, Ending
  <2>2. QED  BY <2>1 DEF EndsExact
<1>4. QED  BY <1>1, <1>2, <1>3, PTL DEF Spec

-----------------------------------------------------------------------------
(* What is known of the conditions that a pattern satisfies.               *)

Meets(j, s, n) ==
  /\ job.bem[j].type = "BEGIN" => s[1] \in job.bem[j].items
  /\ job.bem[j].type = "END" => s[n] \in job.bem[j].items
  /\ job.bem[j].type = "MID" => \E k \in 1 .. n : s[k] \in job.bem[j].items

Places(j, s, n) == {k \in 1 .. n : s[k] \in job.bem[j].items}
One(j, i) == IF i \in job.bem[j].items THEN 1 ELSE 0

BitsKnown(p, n) ==
  p.bits \subseteq DOMAIN job.bem /\ \A j \in DOMAIN job.bem : j \in p.bits <=> Meets(j, p.items, n)
CountsKnown(p, n) ==
  n > 1 => \A j \in Mids : /\ p.counts[j][1] + p.counts[j][2] = Size(Places(j, p.items, n))
                           /\ p.counts[j][2] = One(j, p.items[n])
GroupsKnown(p, n) ==
  p.groups = IF IF n = 1 THEN p.bits = DOMAIN job.bem ELSE Holds(p.bits, p.counts)
             THEN {e.gid : e \in Ending(p.items, n)} ELSE {}
Known(p, n) == BitsKnown(p, n) /\ CountsKnown(p, n) /\ GroupsKnown(p, n)
AllKnown(ps, n) == \A i \in 1 .. Len(ps) : Known(ps[i], n)

KnownInv ==
  /\ phase \in {"level", "pairs"} => AllKnown(patterns, level - 1)
  /\ phase = "pairs" => AllKnown(new, level)

LEMMA PlacesCounted ==
  ASSUME NEW n \in Nat, NEW s, NEW j
  PROVE  Size(Places(j, s, n)) \in Nat /\ Size(Places(j, s, n)) <= n
<1>1. IsFiniteSet(1 .. n) /\ Cardinality(1 .. n) = n
  BY FS_Interval
<1>2. Places(j, s, n) \in SUBSET (1 .. n)
  BY DEF Places
<1>3. IsFiniteSet(Places(j, s, n)) /\ Cardinality(Places(j, s, n)) <= n
  BY <1>1, <1>2, FS_Subset
<1>4. QED  BY <1>3, FS_CardinalityType DEF Size

LEMMA OnePlace ==
  ASSUME NEW n \in Nat, NEW m, m = n + 1, NEW j, NEW p, NEW s, \A k \in 1 .. n : s[k] = p[k]
  PROVE  Size(Places(j, s, m)) = Size(Places(j, p, n)) + One(j, s[m])
<1> DEFINE P == Places(j, p, n)
<1>1. IsFiniteSet(1 .. n)
  BY FS_Interval
<1>2. P \subseteq 1 .. n
  BY DEF Places
<1>3. Places(j, s, m) = IF s[m] \in job.bem[j].items THEN P \cup {m} ELSE P
  <2>1. \A k : k \in 1 .. m <=> k \in 1 .. n \/ k = m
    OBVIOUS
  <2>2. m \notin 1 .. n
    OBVIOUS
  <2>3. QED  BY <2>1, <2>2 DEF Places
<1>4. m \notin P
  BY <1>2
<1> HIDE DEF P
<1>5. IsFiniteSet(P) /\ Cardinality(P) \in Nat
  BY <1>1, <1>2, FS_Subset, FS_CardinalityType
<1>6. Cardinality(P \cup {m}) = Cardinality(P) + 1
  BY <1>4, <1>5, FS_AddElement
<1>7. QED  BY <1>3, <1>5, <1>6 DEF Size, One, P

LEMMA NoPlace ==
  ASSUME NEW j, NEW s
  PROVE  Size(Places(j, s, 1)) = One(j, s[1])
<1>1. Places(j, s, 0) = {}
  BY DEF Places
<1>2. Size(Places(j, s, 0)) = 0
  BY <1>1, FS_EmptySet DEF Size
<1>3. 0 \in Nat /\ 1 = 0 + 1 /\ \A k \in 1 .. 0 : s[k] = s[k]
  OBVIOUS
<1>4. Size(Places(j, s, 1)) = Size(Places(j, s, 0)) + One(j, s[1])
  BY <1>3, OnePlace
<1>5. QED  BY <1>2, <1>4 DEF One

LEMMA BemTypes ==
  ASSUME JobInv
  PROVE  /\ \A j \in DOMAIN job.bem : job.bem[j].type \in {"BEGIN", "MID", "END"}
         /\ \A j \in DOMAIN job.bem : job.bem[j].min \in Nat /\ job.bem[j].max \in Nat
         /\ Mids \subseteq DOMAIN job.bem
<1>1. job.bem \in Seq(Bem)
  BY SequenceAssumption DEF JobInv, Job
<1>2. \A j \in DOMAIN job.bem : job.bem[j] \in Bem
  BY <1>1
<1>3. QED  BY <1>2 DEF Bem, Mids

(* The groups that are left and have an occurrence.  Those of an item are  *)
(* the groups of its rows.                                                 *)
Reached(t) == {e.gid : e \in Ending(t, Len(t))}

LEMMA GroupsFound ==
  ASSUME JobInv, source = SourceRows, NEW t \in Seq(Items), Len(t) = 1
  PROVE  GroupsWith(t[1]) = Reached(t)
<1>1. 1 \in Nat \ {0} /\ Reached(t) = {e.gid : e \in Ending(t, 1)}
  BY DEF Reached
<1>2. \A e : e \in Ending(t, 1) <=>
        \E g \in Groups : SourceFilter(g) /\ \E f \in Occurrences(t, g) : e = EndOf(f[1])
  BY <1>1, EndingMeaning
<1>3. ASSUME NEW r \in source, r.item = t[1]  PROVE r.gid \in Reached(t)
  <2>1. r.gid \in Groups /\ SourceFilter(r.gid) /\ r \in RowsOf(r.gid)
    BY SourceProperties
  <2>2. PICK f \in Occurrences(t, r.gid) : f[1] = r
    BY <1>3, <2>1, SingleOccurs
  <2>3. EndOf(r) \in Ending(t, 1)
    BY <1>2, <2>1, <2>2
  <2>4. QED  BY <1>1, <2>3, EndPosition
<1>4. ASSUME NEW e \in Ending(t, 1)  PROVE \E r \in source : r.item = t[1] /\ e.gid = r.gid
  <2>1. PICK g \in Groups : SourceFilter(g) /\ \E f \in Occurrences(t, g) : e = EndOf(f[1])
    BY <1>2
  <2>2. PICK f \in Occurrences(t, g) : e = EndOf(f[1])
    BY <2>1
  <2>3. f[1] \in RowsOf(g) /\ f[1].item = t[1]
    <3>1. 1 \in 1 .. 1
      OBVIOUS
    <3>2. QED  BY <3>1, OccurrenceMeaning
  <2>4. QED  BY <2>1, <2>2, <2>3, SourceProperties, EndPosition
<1>5. QED  BY <1>1, <1>3, <1>4 DEF GroupsWith

LEMMA SingletonKnown ==
  ASSUME JobInv, source = SourceRows, NEW i \in Items
  PROVE  Known(Singleton(i), 1)
<1> DEFINE p == Singleton(i)
           s == <<i>>
<1>1. /\ p.items = s /\ p.bits = Bits(i)
      /\ p.groups = IF Bits(i) = DOMAIN job.bem THEN GroupsWith(i) ELSE {}
  BY DEF Singleton
<1>2. s \in Seq(Items) /\ Len(s) = 1 /\ s[1] = i /\ 1 \in Nat \ {0}
  OBVIOUS
<1> HIDE DEF p, s
<1>3. BitsKnown(p, 1)
  <2>1. \A j \in DOMAIN job.bem : i \in job.bem[j].items <=> Meets(j, s, 1)
    BY <1>2, BemTypes DEF Meets
  <2>2. QED  BY <1>1, <2>1 DEF BitsKnown, Bits
<1>4. GroupsWith(i) = {e.gid : e \in Ending(s, 1)}
  BY <1>2, GroupsFound DEF Reached
<1>5. GroupsKnown(p, 1)
  BY <1>1, <1>4 DEF GroupsKnown
<1>6. CountsKnown(p, 1)
  BY DEF CountsKnown
<1>7. QED  BY <1>3, <1>5, <1>6 DEF Known, p

LEMMA SingletonsKnown ==
  ASSUME JobInv, source = SourceRows
  PROVE  AllKnown(Singletons, 1)
<1> DEFINE S == {i \in Items : GroupsWith(i) # {} /\ Frequent(Size(GroupsWith(i)))}
           items == Pruning1Seq
           ps == Singletons
<1>1. S \in SUBSET Items /\ S \in SUBSET Nat /\ IsFiniteSet(S)
  <2>1. S \in SUBSET Items
    OBVIOUS
  <2> HIDE DEF S
  <2>2. QED  BY <2>1, FS_Subset, SourceAssumption
<1>2. items = InOrder(S)
  BY DEF Pruning1Seq
<1> HIDE DEF S
<1>3. items \in [1 .. Size(S) -> S]
  BY <1>1, <1>2, InOrderProperties
<1>4. ps = [k \in DOMAIN items |-> Singleton(items[k])]
  BY DEF Singletons
<1> HIDE DEF ps, items
<1>5. LevelOf(ps, 1)
  BY SingletonsLevel DEF ps
<1>6. DOMAIN ps = 1 .. Len(ps)
  BY <1>5, ListDomain DEF LevelOf
<1>7. \A k \in 1 .. Len(ps) : ps[k] = Singleton(items[k]) /\ items[k] \in Items
  BY <1>1, <1>3, <1>4, <1>6
<1>8. \A k \in 1 .. Len(ps) : Known(ps[k], 1)
  BY <1>7, SingletonKnown
<1>9. QED  BY <1>8 DEF AllKnown, ps

(* What init_bem_bit_vector infers from the two parts is true of the whole. *)
LEMMA CandidateKnown ==
  ASSUME JobInv, CountsInv, source = SourceRows, level >= 2, LevelOf(patterns, level - 1),
         Overlaps(patterns, level - 1), EndsKnown(patterns, level - 1),
         AllKnown(patterns, level - 1), NEW c \in Candidates
  PROVE  Known(Extended(patterns[c[1]], patterns[c[2]], c), level)
<1> DEFINE p == patterns[c[1]]
           q == patterns[c[2]]
           s == Extension(c)
           n == level - 1
           x == Extended(p, q, c)
<1>1. /\ c[1] \in 1 .. Len(patterns) /\ c[2] \in 1 .. Len(patterns)
      /\ \A k \in 1 .. n : s[k] = p.items[k]
      /\ s[level] = q.items[n]
  BY CandidateExtension
<1>2. \A k \in 1 .. n : s[k + 1] = q.items[k]
  BY CandidateTail
<1>3. /\ BitsKnown(p, n) /\ CountsKnown(p, n)
      /\ BitsKnown(q, n) /\ CountsKnown(q, n)
  BY <1>1 DEF AllKnown, Known
<1>4. n \in Nat \ {0} /\ level \in Nat /\ level = n + 1 /\ (level = 2 <=> n = 1) /\ level # 1
  BY DEF CountsInv
<1>5. x.ends = Ending(s, level)
  BY CandidateEnds
<1>6. /\ x.items = s /\ x.bits = InferBits(p, q) /\ x.counts = InferCounts(p, q)
      /\ x.groups = IF Holds(InferBits(p, q), InferCounts(p, q)) THEN {e.gid : e \in x.ends} ELSE {}
  BY DEF Extended, Extension, LastItem
<1> HIDE DEF p, q, s, n, x
<1>7. 1 \in 1 .. n /\ n \in 1 .. n /\ level \in 1 .. level
      /\ \A k : k \in 1 .. level <=> k \in 1 .. n \/ k = level
  BY <1>4
<1>8. BitsKnown(x, level)
  <2>1. \A j \in DOMAIN job.bem :
          /\ j \in p.bits <=> Meets(j, p.items, n)
          /\ j \in q.bits <=> Meets(j, q.items, n)
    BY <1>3 DEF BitsKnown
  <2>2. p.bits \subseteq DOMAIN job.bem /\ q.bits \subseteq DOMAIN job.bem
    BY <1>3 DEF BitsKnown
  <2>3. ASSUME NEW j \in DOMAIN job.bem, job.bem[j].type = "BEGIN"
        PROVE  j \in x.bits <=> Meets(j, s, level)
    <3>1. j \in x.bits <=> j \in p.bits
      BY <1>6, <2>3 DEF InferBits, Mids
    <3>2. s[1] = p.items[1]
      BY <1>1, <1>7
    <3>3. QED  BY <2>1, <2>3, <3>1, <3>2 DEF Meets
  <2>4. ASSUME NEW j \in DOMAIN job.bem, job.bem[j].type = "END"
        PROVE  j \in x.bits <=> Meets(j, s, level)
    <3>1. j \in x.bits <=> j \in q.bits
      BY <1>6, <2>4 DEF InferBits, Mids
    <3>2. QED  BY <1>1, <2>1, <2>4, <3>1 DEF Meets
  <2>5. ASSUME NEW j \in DOMAIN job.bem, job.bem[j].type = "MID"
        PROVE  j \in x.bits <=> Meets(j, s, level)
    <3>1. j \in x.bits <=> j \in p.bits \/ j \in q.bits
      BY <1>6, <2>5 DEF InferBits, Mids
    <3>2. j \in p.bits <=> \E k \in 1 .. n : s[k] \in job.bem[j].items
      BY <1>1, <2>1, <2>5 DEF Meets
    <3>3. j \in q.bits <=> \E k \in 1 .. n : s[k + 1] \in job.bem[j].items
      BY <1>2, <2>1, <2>5 DEF Meets
    <3>4. Meets(j, s, level) <=> \E k \in 1 .. level : s[k] \in job.bem[j].items
      BY <2>5 DEF Meets
    <3>5. s[n + 1] = s[level] /\ \A k \in 1 .. n : k \in 1 .. level /\ k + 1 \in 1 .. level
      BY <1>4
    <3>6. QED  BY <1>7, <3>1, <3>2, <3>3, <3>4, <3>5
  <2>6. x.bits \subseteq DOMAIN job.bem
    BY <1>6, <2>2 DEF InferBits
  <2>7. QED  BY <1>6, <2>3, <2>4, <2>5, <2>6, BemTypes DEF BitsKnown
<1>9. CountsKnown(x, level)
  <2>1. ASSUME NEW j \in Mids
        PROVE  /\ x.counts[j][1] + x.counts[j][2] = Size(Places(j, s, level))
               /\ x.counts[j][2] = One(j, s[level])
    <3>1. j \in DOMAIN job.bem /\ job.bem[j].type = "MID"
      BY DEF Mids
    <3>2. Size(Places(j, s, level)) = Size(Places(j, p.items, n)) + One(j, s[level])
      BY <1>1, <1>4, OnePlace
    <3>3. CASE level = 2
      <4>1. n = 1 /\ s[level] = q.items[1]
        BY <1>1, <1>4, <3>3
      <4>2. /\ j \in p.bits <=> p.items[1] \in job.bem[j].items
            /\ j \in q.bits <=> q.items[1] \in job.bem[j].items
        <5>1. \A k : k \in 1 .. 1 <=> k = 1
          OBVIOUS
        <5>2. QED  BY <1>3, <3>1, <4>1, <5>1 DEF BitsKnown, Meets
      <4>3. x.counts[j] = <<IF j \in Mids \cap p.bits THEN 1 ELSE 0,
                            IF j \in Mids \cap q.bits THEN 1 ELSE 0>>
        BY <1>6, <3>1, <3>3 DEF InferCounts
      <4>4. x.counts[j][1] = One(j, p.items[1]) /\ x.counts[j][2] = One(j, q.items[1])
        BY <4>2, <4>3 DEF One
      <4>5. Size(Places(j, p.items, n)) = One(j, p.items[1])
        BY <4>1, NoPlace
      <4>6. QED  BY <3>2, <4>1, <4>4, <4>5
    <3>4. CASE level # 2
      <4>1. n > 1
        BY <1>4, <3>4
      <4>2. /\ p.counts[j][1] + p.counts[j][2] = Size(Places(j, p.items, n))
            /\ q.counts[j][2] = One(j, q.items[n])
        BY <1>3, <4>1 DEF CountsKnown
      <4>3. x.counts[j] = <<p.counts[j][1] + p.counts[j][2], q.counts[j][2]>>
        BY <1>6, <3>1, <3>4 DEF InferCounts
      <4>4. x.counts[j][1] = Size(Places(j, p.items, n)) /\ x.counts[j][2] = One(j, s[level])
        BY <1>1, <4>2, <4>3
      <4>5. QED  BY <3>2, <4>4
    <3>5. QED  BY <3>3, <3>4
  <2>2. QED  BY <1>6, <2>1 DEF CountsKnown
<1>10. GroupsKnown(x, level)
  BY <1>4, <1>5, <1>6 DEF GroupsKnown
<1>11. QED  BY <1>8, <1>9, <1>10 DEF Known, x, p, q

LEMMA KnownStep ==
  ASSUME JobInv, SourceInv, CountsInv, PatternsInv, CandidatesInv, EndsInv, KnownInv, [Next]_vars
  PROVE  KnownInv'
<1>1. ASSUME source' = source
      PROVE  \A ps, n : AllKnown(ps, n)' <=> AllKnown(ps, n)
  <2>1. job' = job
    BY JobKept
  <2>2. \A g : RowsOf(g)' = RowsOf(g)
    BY <2>1 DEF RowsOf
  <2>3. \A p, q : Gap(p, q)' <=> Gap(p, q)
    BY <2>1 DEF Gap, At
  <2>4. \A s, g, f : Occurs(s, g, f)' <=> Occurs(s, g, f)
    BY <2>3 DEF Occurs
  <2>5. \A s, g : Occurrences(s, g)' = Occurrences(s, g)
    BY <2>2, <2>4 DEF Occurrences
  <2>6. \A s, n : Ending(s, n)' = Ending(s, n)
    BY <1>1, <2>5 DEF Ending, EndsOf
  <2>7. Mids' = Mids /\ \A j : AtLeast(j)' = AtLeast(j)
    BY <2>1 DEF Mids, AtLeast
  <2>8. active_count' <=> active_count
    BY <2>1, <2>7 DEF active_count
  <2>9. \A bits, counts : Holds(bits, counts)' <=> Holds(bits, counts)
    BY <2>1, <2>7, <2>8 DEF Holds
  <2>10. \A p, n : GroupsKnown(p, n)' <=> GroupsKnown(p, n)
    BY <2>1, <2>6, <2>9 DEF GroupsKnown
  <2>11. \A p, n : BitsKnown(p, n)' <=> BitsKnown(p, n)
    BY <2>1 DEF BitsKnown, Meets
  <2>12. \A p, n : CountsKnown(p, n)' <=> CountsKnown(p, n)
    BY <2>1, <2>7 DEF CountsKnown, Places, One
  <2>13. \A p, n : Known(p, n)' <=> Known(p, n)
    BY <2>10, <2>11, <2>12 DEF Known
  <2>14. QED  BY <2>13 DEF AllKnown
<1>2. CASE ExtractSingletons
  <2>1. CASE phase' = "level"
    <3>1. /\ phase = "singletons" /\ patterns' = Singletons /\ source' = source /\ level' - 1 = 1
      BY <1>2, <2>1 DEF ExtractSingletons
    <3>2. AllKnown(Singletons, 1)
      BY <3>1, SingletonsKnown DEF SourceInv
    <3>3. \A ps : AllKnown(ps, 1)' <=> AllKnown(ps, 1)
      BY <1>1, <3>1
    <3>4. QED  BY <2>1, <3>1, <3>2, <3>3 DEF KnownInv, AllKnown
  <2>2. CASE phase' # "level"
    BY <1>2, <2>2 DEF ExtractSingletons, KnownInv
  <2>3. QED  BY <2>1, <2>2
<1>3. CASE StartLevel
  <2>1. /\ phase = "level" /\ patterns' = patterns /\ level' = level /\ source' = source /\ new' = <<>>
    BY <1>3 DEF StartLevel
  <2>2. AllKnown(patterns, level - 1)
    BY <2>1 DEF KnownInv
  <2>3. AllKnown(<<>>, level)
    BY DEF AllKnown
  <2>4. QED  BY <1>1, <2>1, <2>2, <2>3 DEF KnownInv, AllKnown
<1>4. CASE ReadCandidate
  <2> DEFINE c == Head(todo)
             p == Extended(patterns[c[1]], patterns[c[2]], c)
  <2>1. /\ phase = "pairs" /\ todo # <<>> /\ phase' = phase
        /\ patterns' = patterns /\ level' = level /\ source' = source
        /\ new' = new \/ new' = Append(new, p)
    BY <1>4 DEF ReadCandidate
  <2>2. /\ Overlaps(patterns, level - 1) /\ EndsKnown(patterns, level - 1)
        /\ level >= 2 /\ LevelOf(patterns, level - 1) /\ source = SourceRows
        /\ AllKnown(patterns, level - 1) /\ AllKnown(new, level)
    BY <2>1 DEF EndsInv, PatternsInv, CountsInv, SourceInv, KnownInv
  <2>3. c \in Candidates
    BY <2>1, ReadOnce DEF CandidatesInv
  <2>4. Known(p, level)
    <3> HIDE DEF c
    <3>1. QED  BY <2>2, <2>3, CandidateKnown
  <2> HIDE DEF p, c
  <2>5. AllKnown(new', level)
    <3>1. CASE new' = new
      BY <2>2, <3>1
    <3>2. CASE new' = Append(new, p)
      <4>1. /\ Len(new') = Len(new) + 1 /\ Len(new) \in Nat
            /\ \A k \in 1 .. Len(new) : new'[k] = new[k]
            /\ new'[Len(new) + 1] = p
        BY <2>1, <3>2, OneAppended DEF CandidatesInv
      <4>2. \A k \in 1 .. Len(new') : k \in 1 .. Len(new) \/ k = Len(new) + 1
        BY <4>1
      <4>3. QED  BY <2>2, <2>4, <4>1, <4>2 DEF AllKnown
    <3>3. QED  BY <2>1, <3>1, <3>2
  <2>6. QED  BY <1>1, <2>1, <2>2, <2>5 DEF KnownInv, AllKnown
<1>5. CASE EndLevel
  <2>1. CASE phase' = "level"
    <3>1. phase = "pairs" /\ patterns' = new /\ level' = level + 1 /\ source' = source
      BY <1>5, <2>1 DEF EndLevel
    <3>2. level' - 1 = level /\ AllKnown(new, level)
      BY <3>1 DEF CountsInv, KnownInv
    <3>3. QED  BY <1>1, <2>1, <3>1, <3>2 DEF KnownInv, AllKnown
  <2>2. CASE phase' # "level"
    BY <1>5, <2>2 DEF EndLevel, KnownInv
  <2>3. QED  BY <2>1, <2>2
<1>6. CASE UNCHANGED vars
  BY <1>1, <1>6 DEF vars, memory, KnownInv, AllKnown
<1>7. CASE Start \/ CreateSource \/ CreateNumbers \/ DropNumbers \/ FailSource \/ Finish \/ Again \/ Kill
  <2>1. phase' \notin {"level", "pairs"}
    BY <1>7 DEF Start, CreateSource, CreateNumbers, DropNumbers, FailSource, Fail, Finish, Again, Kill
  <2>2. QED  BY <2>1 DEF KnownInv
<1>8. QED  BY <1>2, <1>3, <1>4, <1>5, <1>6, <1>7 DEF Next, Mine

(* No level is longer than the sequences asked for.                        *)
LengthInv == phase \in {"level", "pairs"} => level <= job.length[2]

LEMMA LengthStep ==
  ASSUME JobInv, CountsInv, LengthInv, [Next]_vars
  PROVE  LengthInv'
<1>1. job' = job /\ job.length[2] \in Nat
  BY JobKept, SequenceAssumption DEF JobInv, Job
<1>2. CASE ExtractSingletons
  BY <1>1, <1>2 DEF ExtractSingletons, LengthInv
<1>3. CASE EndLevel
  <2>1. CASE phase' = "level"
    <3>1. phase = "pairs" /\ level' = level + 1 /\ level # job.length[2]
      BY <1>3, <2>1 DEF EndLevel, Last
    <3>2. QED  BY <1>1, <3>1 DEF LengthInv, CountsInv
  <2>2. CASE phase' # "level"
    BY <1>3, <2>2 DEF EndLevel, LengthInv
  <2>3. QED  BY <2>1, <2>2
<1>4. CASE StartLevel \/ ReadCandidate \/ UNCHANGED vars
  BY <1>1, <1>4 DEF StartLevel, ReadCandidate, vars, memory, LengthInv
<1>5. CASE Start \/ CreateSource \/ CreateNumbers \/ DropNumbers \/ FailSource \/ Finish \/ Again \/ Kill
  <2>1. phase' \notin {"level", "pairs"}
    BY <1>5 DEF Start, CreateSource, CreateNumbers, DropNumbers, FailSource, Fail, Finish, Again, Kill
  <2>2. QED  BY <2>1 DEF LengthInv
<1>6. QED  BY <1>2, <1>3, <1>4, <1>5 DEF Next, Mine

-----------------------------------------------------------------------------
(* What is written is what the minerule asks for.                          *)

Right(s) ==
  /\ Len(s.items) \in job.length[1] .. job.length[2] /\ Satisfies(s.items)
  /\ s.groups = SupportOf(s.items) /\ Frequent(Size(s.groups))

AllRight(q) == \A i \in 1 .. Len(q) : Right(q[i])
RightInv == Fresh => AllRight(saved)

LEMMA Positive ==
  ASSUME NEW a \in Nat \ {0}, NEW b \in Nat \ {0}
  PROVE  a * b > 0
OBVIOUS

(* Nothing is frequent that is in no group.                                *)
LEMMA NotEmpty ==
  ASSUME JobInv, source = SourceRows, source # {}, NEW G, Frequent(Size(G))
  PROVE  G # {}
<1> DEFINE C == {g \in Groups : job.rows[g] # <<>>}
<1>1. IsFiniteSet(C)
  BY FS_Subset, SequenceAssumption
<1>2. C # {}
  <2>1. PICK r \in source : TRUE
    OBVIOUS
  <2>2. r.gid \in Groups /\ r \in RowsOf(r.gid)
    BY <2>1, SourceProperties
  <2>3. DOMAIN job.rows[r.gid] # {}
    BY <2>2 DEF RowsOf
  <2>4. QED  BY <2>2, <2>3
<1>3. grpId_count \in Nat \ {0}
  <2>1. grpId_count = Cardinality(C)
    BY DEF grpId_count, Size
  <2> HIDE DEF C
  <2>2. QED  BY <1>1, <1>2, <2>1, FS_CardinalityType, FS_EmptySet
<1>4. job.num \in Nat \ {0} /\ job.den \in Nat \ {0}
  BY SequenceAssumption DEF JobInv, Job
<1>5. job.num * grpId_count > 0 /\ 0 * job.den = 0
  BY <1>3, <1>4, Positive
<1>6. ASSUME G = {}  PROVE FALSE
  <2>1. Size(G) = 0
    BY <1>6, FS_EmptySet DEF Size
  <2>2. 0 * job.den >= job.num * grpId_count
    BY <2>1 DEF Frequent
  <2>3. job.num * grpId_count \in Nat
    BY <1>3, <1>4
  <2>4. QED  BY <1>5, <2>2, <2>3
<1>7. QED  BY <1>6

(* The element that a condition needs is in every group of the support.    *)
LEMMA SupportFiltered ==
  ASSUME JobInv, NEW n \in Nat \ {0}, NEW s \in Seq(Items), Len(s) = n,
         \A j \in DOMAIN job.bem : Meets(j, s, n),
         NEW g \in Groups, NEW f \in Occurrences(s, g)
  PROVE  SourceFilter(g)
<1>1. f \in [1 .. n -> RowsOf(g)] /\ \A k \in 1 .. n : f[k].item = s[k]
  BY OccurrenceMeaning
<1>2. \A r \in RowsOf(g) : \E i \in DOMAIN job.rows[g] : job.rows[g][i].item = r.item
  <2> DEFINE t == job.rows[g]
             pos(i) == Size({j \in 1 .. i : t[j].kept})
             run(i) == Size({j \in 1 .. i : j = 1 \/ t[j].item # t[j - 1].item})
             row(i) == [gid |-> g, item |-> t[i].item, pos |-> pos(i), run |-> run(i)]
  <2>1. RowsOf(g) = {row(i) : i \in {j \in DOMAIN t : t[j].kept}}
    BY DEF RowsOf
  <2> HIDE DEF pos, run
  <2>2. \A i : row(i).item = t[i].item
    OBVIOUS
  <2> HIDE DEF row, t
  <2>3. \A r \in RowsOf(g) : \E i \in DOMAIN t : t[i].item = r.item
    BY <2>1, <2>2
  <2>4. QED  BY <2>3 DEF t
<1>3. \A j \in DOMAIN job.bem : \E k \in 1 .. n : s[k] \in job.bem[j].items
  <2>1. 1 \in 1 .. n /\ n \in 1 .. n
    OBVIOUS
  <2>2. QED  BY <2>1, BemTypes DEF Meets
<1>4. \A k \in 1 .. n : \E i \in DOMAIN job.rows[g] : job.rows[g][i].item = s[k]
  BY <1>1, <1>2
<1>5. QED  BY <1>3, <1>4 DEF SourceFilter

LEMMA RightPattern ==
  ASSUME JobInv, OneIsAllowed, source = SourceRows, source # {},
         NEW n \in Nat \ {0}, n \in job.length[1] .. job.length[2], n = 1 => ~max_MIN_COUNT,
         NEW p, p.items \in Seq(Items), Len(p.items) = n, Known(p, n), Frequent(Size(p.groups))
  PROVE  Right(AsSaved(p))
<1> DEFINE s == p.items
<1>1. p.groups # {}
  BY NotEmpty
<1>2. /\ p.bits = DOMAIN job.bem
      /\ n > 1 => Holds(p.bits, p.counts)
      /\ p.groups = {e.gid : e \in Ending(s, n)}
  <2>1. /\ IF n = 1 THEN p.bits = DOMAIN job.bem ELSE Holds(p.bits, p.counts)
        /\ p.groups = {e.gid : e \in Ending(s, n)}
    BY <1>1 DEF Known, GroupsKnown
  <2>2. Holds(p.bits, p.counts) => p.bits = DOMAIN job.bem
    BY DEF Holds
  <2>3. QED  BY <2>1, <2>2
<1>3. /\ \A j \in DOMAIN job.bem : Meets(j, s, n)
      /\ n > 1 => \A j \in Mids : p.counts[j][1] + p.counts[j][2] = Size(Places(j, s, n))
  <2>1. \A j \in DOMAIN job.bem : Meets(j, s, n)
    <3> HIDE DEF s
    <3>1. \A j \in DOMAIN job.bem : j \in p.bits <=> Meets(j, p.items, n)
      BY DEF Known, BitsKnown
    <3>2. QED  BY <1>2, <3>1 DEF s
  <2>2. n > 1 => \A j \in Mids : p.counts[j][1] + p.counts[j][2] = Size(Places(j, s, n))
    BY DEF Known, CountsKnown
  <2>3. QED  BY <2>1, <2>2
<1>4. DOMAIN s = 1 .. n /\ n <= job.length[2] /\ job.length[2] <= Unbounded /\ Unbounded \in Nat
      /\ job.length[2] \in Nat
  BY SequenceAssumption DEF JobInv, Job
<1>5. ASSUME NEW j \in Mids
      PROVE  Size({k \in DOMAIN s : s[k] \in job.bem[j].items}) \in AtLeast(j) .. job.bem[j].max
  <2>1. j \in DOMAIN job.bem /\ job.bem[j].type = "MID"
    BY DEF Mids
  <2>2. AtLeast(j) \in Nat \ {0} /\ job.bem[j].max \in Nat /\ job.bem[j].max >= 1
    BY <2>1, BemTypes DEF AtLeast, OneIsAllowed, JobInv
  <2>3. Size({k \in DOMAIN s : s[k] \in job.bem[j].items}) = Size(Places(j, s, n))
    BY <1>4 DEF Places
  <2>4. Size(Places(j, s, n)) \in Nat /\ Size(Places(j, s, n)) <= n
    BY PlacesCounted
  <2>5. CASE n = 1
    <3>1. AtLeast(j) = 1
      BY <2>2, <2>5 DEF max_MIN_COUNT
    <3>2. s[1] \in job.bem[j].items
      <4>1. \A k : k \in 1 .. 1 <=> k = 1
        OBVIOUS
      <4>2. QED  BY <1>3, <2>1, <2>5, <4>1 DEF Meets
    <3>3. Size(Places(j, s, n)) = 1
      BY <2>5, <3>2, NoPlace DEF One
    <3>4. QED  BY <2>2, <2>3, <3>1, <3>3
  <2>6. CASE n > 1 /\ active_count
    <3>1. p.counts[j][1] + p.counts[j][2] \in AtLeast(j) .. job.bem[j].max
      <4>1. Holds(p.bits, p.counts)
        BY <1>2, <2>6
      <4>2. \A k \in Mids : p.counts[k][1] + p.counts[k][2] \in AtLeast(k) .. job.bem[k].max
        BY <2>6, <4>1, Zenon DEF Holds
      <4>3. QED  BY <4>2
    <3>2. QED  BY <1>3, <2>3, <2>6, <3>1
  <2>7. CASE n > 1 /\ ~active_count
    <3>1. AtLeast(j) = 1 /\ job.bem[j].max = Unbounded
      BY <2>7 DEF active_count
    <3>2. Places(j, s, n) # {}
      BY <1>3, <2>1 DEF Meets, Places
    <3>3. IsFiniteSet(Places(j, s, n))
      <4>1. IsFiniteSet(1 .. n)
        BY FS_Interval
      <4>2. QED  BY <4>1, FS_Subset DEF Places
    <3>4. Size(Places(j, s, n)) # 0
      BY <3>2, <3>3, FS_EmptySet DEF Size
    <3>5. QED  BY <1>4, <2>3, <2>4, <3>1, <3>4
  <2>8. QED  BY <2>5, <2>6, <2>7
<1>6. Satisfies(s)
  <2>1. ASSUME NEW j \in DOMAIN job.bem, job.bem[j].type = "BEGIN"  PROVE s[1] \in job.bem[j].items
    BY <1>3, <2>1 DEF Meets
  <2>2. ASSUME NEW j \in DOMAIN job.bem, job.bem[j].type = "END"  PROVE s[Len(s)] \in job.bem[j].items
    BY <1>3, <2>2 DEF Meets
  <2>3. \A j \in DOMAIN job.bem : job.bem[j].type = "MID" => j \in Mids
    BY DEF Mids
  <2> HIDE DEF s
  <2>4. QED  BY <1>5, <2>1, <2>2, <2>3, BemTypes DEF Satisfies
<1>7. SupportOf(s) = p.groups
  <2>1. ASSUME NEW g \in Groups, NEW f \in Occurrences(s, g)  PROVE g \in p.groups
    <3>1. SourceFilter(g)
      BY <1>3, SupportFiltered
    <3>2. EndOf(f[n]) \in Ending(s, n)
      BY <3>1, EndingMeaning
    <3>3. f[n] \in RowsOf(g)
      BY OccurrenceMeaning
    <3>4. EndOf(f[n]).gid = g
      BY <3>3, RowProperties, EndPosition
    <3>5. QED  BY <1>2, <3>2, <3>4
  <2>2. ASSUME NEW e \in Ending(s, n)  PROVE e.gid \in SupportOf(s)
    <3>1. PICK g \in Groups : SourceFilter(g) /\ \E f \in Occurrences(s, g) : e = EndOf(f[n])
      BY EndingMeaning
    <3>2. PICK f \in Occurrences(s, g) : e = EndOf(f[n])
      BY <3>1
    <3>3. f[n] \in RowsOf(g)
      BY OccurrenceMeaning
    <3>4. e.gid = g
      BY <3>2, <3>3, RowProperties, EndPosition
    <3>5. QED  BY <3>2, <3>4 DEF SupportOf
  <2>3. QED  BY <1>2, <2>1, <2>2 DEF SupportOf
<1>8. AsSaved(p).items = s /\ AsSaved(p).groups = p.groups
  BY DEF AsSaved
<1>9. QED  BY <1>6, <1>7, <1>8 DEF Right

LEMMA RightLevel ==
  ASSUME JobInv, OneIsAllowed, source = SourceRows, source # {},
         NEW n \in Nat \ {0}, n \in job.length[1] .. job.length[2], n = 1 => ~max_MIN_COUNT,
         NEW ps, LevelOf(ps, n), AllKnown(ps, n), NEW S \in SUBSET (1 .. Len(ps))
  PROVE  AllRight(SaveAll(ps, S))
<1> DEFINE T == {i \in S : Frequent(Size(ps[i].groups))}
           at == InOrder(T)
           q == SaveAll(ps, S)
<1>1. Len(ps) \in Nat
  BY ListDomain DEF LevelOf
<1>2. T \subseteq 1 .. Len(ps) /\ \A i \in T : Frequent(Size(ps[i].groups))
  OBVIOUS
<1> HIDE DEF T
<1>3. T \in SUBSET Nat /\ IsFiniteSet(T)
  <2>1. IsFiniteSet(1 .. Len(ps))
    BY <1>1, FS_Interval
  <2>2. IsFiniteSet(T)
    BY <1>2, <2>1, FS_Subset
  <2>3. QED  BY <1>1, <1>2, <2>2
<1>4. at \in [1 .. Size(T) -> T]
  BY <1>3, InOrderProperties
<1>5. q = [k \in DOMAIN at |-> AsSaved(ps[at[k]])]
  BY DEF SaveAll, T
<1>6. Written(q, n)
  BY LevelWritten
<1>7. DOMAIN q = 1 .. Len(q)
  BY <1>6, ListDomain DEF Written
<1> HIDE DEF at, q
<1>8. ASSUME NEW k \in 1 .. Len(q)  PROVE Right(q[k])
  <2>1. q[k] = AsSaved(ps[at[k]]) /\ at[k] \in T
    BY <1>4, <1>5, <1>7
  <2>2. at[k] \in 1 .. Len(ps) /\ Frequent(Size(ps[at[k]].groups))
    BY <1>2, <2>1
  <2>3. ps[at[k]].items \in Seq(Items) /\ Len(ps[at[k]].items) = n
    BY <2>2 DEF LevelOf, OfLength
  <2>4. Known(ps[at[k]], n)
    BY <2>2 DEF AllKnown
  <2>5. QED  BY <2>1, <2>2, <2>3, <2>4, RightPattern
<1>9. QED  BY <1>8 DEF AllRight, q

LEMMA NoneWrong == AllRight(<<>>)
<1>1. Len(<<>>) = 0
  OBVIOUS
<1>2. QED  BY <1>1 DEF AllRight

LEMMA RightBehind ==
  ASSUME NEW p, IsList(p), AllRight(p), NEW q, IsList(q), AllRight(q)
  PROVE  IsList(p \o q) /\ AllRight(p \o q)
BY ListConcat DEF From, AllRight

LEMMA RightAtEnd ==
  ASSUME JobInv, OneIsAllowed, SourceInv, CountsInv, PatternsInv, CandidatesInv, WrittenInv,
         KnownInv, LengthInv, RightInv, Fresh, EndLevel
  PROVE  AllRight(saved')
<1> DEFINE below == IF SavesBelow THEN SaveAll(patterns, closed) ELSE <<>>
           top == IF GoesOn /\ Last /\ job.length[1] <= level
                  THEN SaveAll(new, 1 .. Len(new)) ELSE <<>>
<1>1. phase = "pairs" /\ saved' = (saved \o below) \o top
  BY DEF EndLevel
<1>2. /\ level \in Nat \ {0} /\ level - 1 \in Nat \ {0} /\ level - 1 <= level
      /\ level - 1 = 1 <=> level = 2
      /\ level # 1
  BY <1>1 DEF CountsInv
<1>3. job.length[1] \in Nat \ {0} /\ job.length[2] \in Nat /\ level <= job.length[2]
  BY <1>1, SequenceAssumption DEF JobInv, Job, LengthInv
<1>4. /\ LevelOf(patterns, level - 1) /\ LevelOf(new, level) /\ closed \in SUBSET (1 .. Len(patterns))
      /\ AllKnown(patterns, level - 1) /\ AllKnown(new, level)
  BY <1>1, NewLevel DEF PatternsInv, CandidatesInv, KnownInv
<1>5. source = SourceRows /\ source # {}
  BY <1>1 DEF SourceInv
<1>6. IsList(below) /\ AllRight(below)
  <2>1. CASE SavesBelow
    <3>1. IsList(SaveAll(patterns, closed))
      BY <1>4, LevelWritten DEF Written
    <3>2. level - 1 \in job.length[1] .. job.length[2] /\ (level - 1 = 1 => ~max_MIN_COUNT)
      <4>1. CASE level = 2
        BY <1>2, <1>3, <2>1, <4>1 DEF SavesBelow, SavesSingletons
      <4>2. CASE level # 2
        <5>1. job.length[1] < level
          BY <2>1, <4>2 DEF SavesBelow
        <5>2. QED  BY <1>2, <1>3, <4>2, <5>1
      <4>3. QED  BY <4>1, <4>2
    <3>3. AllRight(SaveAll(patterns, closed))
      BY <1>2, <1>4, <1>5, <3>2, RightLevel
    <3>4. QED  BY <2>1, <3>1, <3>3
  <2>2. CASE ~SavesBelow
    BY <2>2, NothingWritten, NoneWrong
  <2>3. QED  BY <2>1, <2>2
<1>7. IsList(top) /\ AllRight(top)
  <2>1. CASE job.length[1] <= level
    <3>1. 1 .. Len(new) \in SUBSET (1 .. Len(new))
      OBVIOUS
    <3>2. IsList(SaveAll(new, 1 .. Len(new)))
      BY <1>4, <3>1, LevelWritten DEF Written
    <3>3. level \in job.length[1] .. job.length[2] /\ (level = 1 => ~max_MIN_COUNT)
      BY <1>2, <1>3, <2>1
    <3>4. AllRight(SaveAll(new, 1 .. Len(new)))
      BY <1>2, <1>4, <1>5, <3>1, <3>3, RightLevel
    <3>5. QED  BY <3>2, <3>4, NothingWritten, NoneWrong
  <2>2. CASE ~(job.length[1] <= level)
    BY <2>2, NothingWritten, NoneWrong
  <2>3. QED  BY <2>1, <2>2
<1> HIDE DEF below, top
<1>8. IsList(saved) /\ AllRight(saved)
  BY DEF WrittenInv, RightInv
<1>9. IsList(saved \o below) /\ AllRight(saved \o below)
  BY <1>6, <1>8, RightBehind
<1>10. QED  BY <1>1, <1>7, <1>9, RightBehind

LEMMA RightSingletons ==
  ASSUME JobInv, OneIsAllowed, SourceInv, WrittenInv, RightInv, Fresh, ExtractSingletons
  PROVE  AllRight(saved')
<1>1. /\ phase = "singletons"
      /\ \/ saved' = saved
         \/ saved' = saved \o SaveAll(Singletons, 1 .. Len(Singletons)) /\ SavesSingletons
  BY DEF ExtractSingletons
<1>2. CASE saved' = saved
  BY <1>2 DEF RightInv
<1>3. CASE saved' = saved \o SaveAll(Singletons, 1 .. Len(Singletons)) /\ SavesSingletons
  <2> DEFINE S == 1 .. Len(Singletons)
  <2>1. LevelOf(Singletons, 1) /\ AllKnown(Singletons, 1)
    BY <1>1, SingletonsLevel, SingletonsKnown DEF SourceInv
  <2>2. 1 \in Nat \ {0} /\ S \in SUBSET S
    OBVIOUS
  <2>3. 1 \in job.length[1] .. job.length[2] /\ ~max_MIN_COUNT
    BY <1>3, SequenceAssumption DEF SavesSingletons, JobInv, OneIsAllowed, Job
  <2>4. source = SourceRows /\ source # {}
    BY <1>1 DEF SourceInv
  <2>5. AllRight(SaveAll(Singletons, S))
    BY <2>1, <2>2, <2>3, <2>4, RightLevel
  <2>6. IsList(SaveAll(Singletons, S))
    BY <2>1, <2>2, LevelWritten DEF Written
  <2>7. IsList(saved) /\ AllRight(saved)
    BY DEF WrittenInv, RightInv
  <2>8. QED  BY <1>3, <2>5, <2>6, <2>7, RightBehind
<1>4. QED  BY <1>1, <1>2, <1>3

LEMMA RightStep ==
  ASSUME JobInv, OneIsAllowed, SourceInv, CountsInv, PatternsInv, CandidatesInv, WrittenInv,
         KnownInv, LengthInv, RightInv, [Next]_vars
  PROVE  RightInv'
<1>1. job' = job
  BY JobKept
<1>2. \A s : Right(s)' <=> Right(s)
  <2>1. \A g : RowsOf(g)' = RowsOf(g)
    BY <1>1 DEF RowsOf
  <2>2. \A p, q : Gap(p, q)' <=> Gap(p, q)
    BY <1>1 DEF Gap, At
  <2>3. \A s, g, f : Occurs(s, g, f)' <=> Occurs(s, g, f)
    BY <2>2 DEF Occurs
  <2>4. \A s, g : Occurrences(s, g)' = Occurrences(s, g)
    BY <2>1, <2>3 DEF Occurrences
  <2>5. \A s : SupportOf(s)' = SupportOf(s)
    BY <2>4 DEF SupportOf
  <2>6. \A j : AtLeast(j)' = AtLeast(j)
    BY <1>1 DEF AtLeast
  <2>7. \A s : Satisfies(s)' <=> Satisfies(s)
    BY <1>1, <2>6 DEF Satisfies
  <2>8. grpId_count' = grpId_count
    BY <1>1 DEF grpId_count
  <2>9. \A k : Frequent(k)' <=> Frequent(k)
    BY <1>1, <2>8 DEF Frequent
  <2>10. QED  BY <1>1, <2>5, <2>7, <2>9 DEF Right
<1>3. ASSUME Fresh'  PROVE AllRight(saved')
  <2>1. CASE Start
    <3>1. /\ phase = "start" /\ kills' = kills
          /\ saved' = IF job.overwrite THEN <<>> ELSE saved
      BY <2>1 DEF Start, CreateResultTables
    <3>2. saved' = <<>>
      BY <1>1, <1>3, <3>1 DEF Fresh, WrittenInv
    <3>3. QED  BY <3>2, NoneWrong
  <2>2. CASE ExtractSingletons
    <3>1. Fresh
      BY <1>1, <1>3, <2>2 DEF Fresh, ExtractSingletons
    <3>2. QED  BY <2>2, <3>1, RightSingletons
  <2>3. CASE EndLevel
    <3>1. Fresh
      BY <1>1, <1>3, <2>3 DEF Fresh, EndLevel
    <3>2. QED  BY <2>3, <3>1, RightAtEnd
  <2>4. CASE FailSource
    BY <2>4, NoneWrong DEF FailSource, Fail
  <2>5. CASE Kill
    <3>1. saved' = saved /\ kills' # 0
      BY <2>5 DEF Kill, CountsInv
    <3>2. QED  BY <1>1, <1>3, <3>1 DEF Fresh, RightInv
  <2>6. CASE \/ CreateSource \/ CreateNumbers \/ DropNumbers \/ Again
             \/ StartLevel \/ ReadCandidate \/ Finish \/ UNCHANGED vars
    <3>1. saved' = saved /\ kills' = kills
      BY <2>6 DEF CreateSource, CreateNumbers, DropNumbers, Again, StartLevel, ReadCandidate,
                  Finish, vars
    <3>2. QED  BY <1>1, <1>3, <3>1 DEF Fresh, RightInv
  <2>7. QED  BY <2>1, <2>2, <2>3, <2>4, <2>5, <2>6 DEF Next, Mine
<1>4. QED  BY <1>2, <1>3 DEF RightInv, AllRight

(* What a run leaves in the result tables has the length and the           *)
(* conditions asked for, exactly the groups it occurs in, and enough of    *)
(* them, for any source table and any minerule that allows a length of 1   *)
(* and one element that meets a MID condition (STSMiner::saveSequences and *)
(* all that comes before it).  Both are needed: LENGTH 0 .. 0 and a MID    *)
(* cardinality of 0 .. 0 pass the parser, and items are written anyway.    *)
THEOREM WrittenRight == OneIsAllowed => (Spec => []Exact)
<1> SUFFICES ASSUME OneIsAllowed PROVE Spec => []Exact
  OBVIOUS
<1> DEFINE Inv == /\ JobInv /\ SourceInv /\ CountsInv /\ PatternsInv /\ CandidatesInv /\ WrittenInv
                  /\ EndsInv /\ KnownInv /\ LengthInv /\ RightInv
<1>1. Init => Inv
  BY NothingWritten, NoneWrong
  DEF Init, JobInv, SourceInv, CountsInv, PatternsInv, CandidatesInv, WrittenInv, EndsInv,
      KnownInv, LengthInv, RightInv
<1>2. Inv /\ [Next]_vars => Inv'
  BY JobStep, SourceStep, CountsStep, PatternsStep, CandidatesStep, WrittenStep, EndsStep,
     KnownStep, LengthStep, RightStep
<1>3. Inv => Exact
  <2>1. ASSUME WrittenInv, RightInv, Fresh, NEW i \in DOMAIN saved  PROVE Right(saved[i])
    BY <2>1, ListDomain DEF WrittenInv, RightInv, AllRight
  <2>2. QED  BY <2>1 DEF Right, Exact
<1>4. QED  BY <1>1, <1>2, <1>3, PTL DEF Spec

-----------------------------------------------------------------------------
(* More groups, and more rows.                                             *)

LEMMA TimesGrows ==
  ASSUME NEW a \in Nat, NEW b \in Nat, NEW c \in Nat, a <= b
  PROVE  a * c <= b * c
<1> DEFINE d == b - a
<1>1. d \in Nat /\ b = a + d
  OBVIOUS
<1> HIDE DEF d
<1>2. b * c = a * c + d * c
  BY <1>1
<1>3. d * c >= 0 /\ a * c \in Nat /\ d * c \in Nat
  BY <1>1
<1>4. QED  BY <1>2, <1>3

(* What is in more groups is frequent too.                                 *)
LEMMA FrequentGrows ==
  ASSUME JobInv, NEW m \in Nat, NEW n \in Nat, m <= n, Frequent(m)
  PROVE  Frequent(n)
<1>1. job.den \in Nat /\ job.num \in Nat
  BY SequenceAssumption DEF JobInv, Job
<1>2. grpId_count \in Nat
  BY FS_Subset, FS_CardinalityType, SequenceAssumption DEF grpId_count, Size
<1>3. m * job.den <= n * job.den
  BY <1>1, TimesGrows
<1>4. m * job.den \in Nat /\ n * job.den \in Nat /\ job.num * grpId_count \in Nat
  BY <1>1, <1>2
<1>5. QED  BY <1>3, <1>4 DEF Frequent

LEMMA ImageFinite ==
  ASSUME NEW S, IsFiniteSet(S), NEW f, DOMAIN f = S, f = [x \in S |-> f[x]]
  PROVE  IsFiniteSet({f[x] : x \in S}) /\ Size({f[x] : x \in S}) <= Size(S)
<1> DEFINE T == {f[x] : x \in S}
<1>1. f \in [S -> T]
  OBVIOUS
<1>2. \A t \in T : \E x \in S : f[x] = t
  OBVIOUS
<1> HIDE DEF T
<1>3. f \in Surjection(S, T)
  BY <1>1, <1>2 DEF Surjection
<1>4. IsFiniteSet(T) /\ Cardinality(T) <= Cardinality(S)
  BY <1>3, FS_Surjection
<1>5. QED  BY <1>4 DEF T, Size

(* A set that is mapped into another one without two members meeting.      *)
LEMMA InjectedSmaller ==
  ASSUME NEW S, NEW T, IsFiniteSet(T), NEW f \in [S -> T], \A a, b \in S : f[a] = f[b] => a = b
  PROVE  IsFiniteSet(S) /\ Size(S) <= Size(T)
<1>1. f \in Injection(S, T)
  <2>1. DOMAIN f = S
    OBVIOUS
  <2>2. QED  BY <2>1 DEF Injection, IsInjective
<1>2. QED  BY <1>1, FS_Injection DEF Size

LEMMA SourceFinite ==
  ASSUME JobInv
  PROVE  IsFiniteSet(SourceRows)
<1> DEFINE H == {h \in Groups : SourceFilter(h)}
           f == [g \in H |-> RowsOf(g)]
           Rows == {f[g] : g \in H}
<1>1. IsFiniteSet(H)
  BY FS_Subset, SequenceAssumption
<1>2. ASSUME NEW g \in Groups  PROVE IsFiniteSet(RowsOf(g))
  <2> DEFINE t == job.rows[g]
             D == {i \in DOMAIN t : t[i].kept}
             row(i) == [gid |-> g, item |-> t[i].item, pos |-> Size({j \in 1 .. i : t[j].kept}),
                        run |-> Size({j \in 1 .. i : j = 1 \/ t[j].item # t[j - 1].item})]
             r == [i \in D |-> row(i)]
  <2>1. t \in Seq(Element)
    BY SequenceAssumption DEF JobInv, Job
  <2>2. RowsOf(g) = {row(i) : i \in D}
    BY DEF RowsOf
  <2> HIDE DEF row
  <2>3. IsFiniteSet(D)
    <3>1. DOMAIN t = 1 .. Len(t) /\ Len(t) \in Nat
      BY <2>1
    <3>2. IsFiniteSet(1 .. Len(t))
      BY <3>1, FS_Interval
    <3>3. D \subseteq 1 .. Len(t)
      BY <3>1
    <3> HIDE DEF D
    <3>4. QED  BY <3>2, <3>3, FS_Subset
  <2> HIDE DEF t, D
  <2>4. DOMAIN r = D /\ \A i \in D : r[i] = row(i)
    OBVIOUS
  <2>5. r = [i \in D |-> r[i]]
    OBVIOUS
  <2> HIDE DEF r
  <2>6. IsFiniteSet({r[i] : i \in D})
    BY <2>3, <2>4, <2>5, ImageFinite
  <2>7. {r[i] : i \in D} = RowsOf(g)
    BY <2>2, <2>4
  <2>8. QED  BY <2>6, <2>7
<1>3. \A g \in H : f[g] = RowsOf(g) /\ IsFiniteSet(f[g])
  BY <1>2
<1>4. DOMAIN f = H /\ f = [g \in H |-> f[g]]
  OBVIOUS
<1>5. SourceRows = UNION Rows
  BY DEF SourceRows
<1> HIDE DEF f, H
<1>6. IsFiniteSet(Rows)
  BY <1>1, <1>4, ImageFinite
<1>7. \A T \in Rows : IsFiniteSet(T)
  BY <1>3
<1> HIDE DEF Rows
<1>8. IsFiniteSet(UNION Rows)
  BY <1>6, <1>7, FS_UNION
<1>9. QED  BY <1>5, <1>8

(* pruningSeq2 counts ends, and there are no fewer of them than groups.    *)
LEMMA GroupsFewer ==
  ASSUME JobInv, source = SourceRows, NEW E, E \subseteq EndsOf(source)
  PROVE  /\ IsFiniteSet(E) /\ Size(E) \in Nat
         /\ Size({e.gid : e \in E}) \in Nat /\ Size({e.gid : e \in E}) <= Size(E)
<1> DEFINE r == [s \in source |-> EndOf(s)]
           f == [e \in E |-> e.gid]
<1>1. DOMAIN r = source /\ r = [s \in source |-> r[s]] /\ \A s \in source : r[s] = EndOf(s)
  OBVIOUS
<1>2. EndsOf(source) = {r[s] : s \in source}
  BY <1>1 DEF EndsOf, EndOf
<1> HIDE DEF r
<1>3. IsFiniteSet(EndsOf(source))
  BY <1>1, <1>2, SourceFinite, ImageFinite
<1>4. IsFiniteSet(E)
  BY <1>3, FS_Subset
<1>5. DOMAIN f = E /\ f = [e \in E |-> f[e]] /\ \A e \in E : f[e] = e.gid
  OBVIOUS
<1> HIDE DEF f
<1>6. IsFiniteSet({f[e] : e \in E}) /\ Size({f[e] : e \in E}) <= Size(E)
  BY <1>4, <1>5, ImageFinite
<1>7. {f[e] : e \in E} = {e.gid : e \in E}
  BY <1>5
<1>8. QED  BY <1>4, <1>6, <1>7, FS_CardinalityType DEF Size

-----------------------------------------------------------------------------
(* The groups of a sequence, and of its parts.                             *)

(* The part of length n that o items come before.                          *)
Window(s, o, n) == [k \in 1 .. n |-> s[k + o]]

LEMMA ReachedMeaning ==
  ASSUME JobInv, source = SourceRows, NEW t \in Seq(Items), Len(t) \in Nat \ {0}
  PROVE  /\ Reached(t) = {g \in Groups : SourceFilter(g) /\ Occurrences(t, g) # {}}
         /\ IsFiniteSet(Reached(t)) /\ Size(Reached(t)) \in Nat
<1> DEFINE n == Len(t)
<1>1. \A e : e \in Ending(t, n) <=>
        \E g \in Groups : SourceFilter(g) /\ \E f \in Occurrences(t, g) : e = EndOf(f[n])
  BY EndingMeaning
<1>2. \A g \in Groups : \A f \in Occurrences(t, g) : EndOf(f[n]).gid = g
  <2>1. n \in 1 .. n
    OBVIOUS
  <2>2. \A g : \A f \in Occurrences(t, g) : f[n] \in RowsOf(g)
    BY <2>1, OccurrenceMeaning
  <2>3. QED  BY <2>2, RowProperties, EndPosition
<1>3. ASSUME NEW g \in Reached(t)  PROVE g \in Groups /\ SourceFilter(g) /\ Occurrences(t, g) # {}
  <2>1. PICK e \in Ending(t, n) : g = e.gid
    BY DEF Reached
  <2>2. PICK h \in Groups : SourceFilter(h) /\ \E f \in Occurrences(t, h) : e = EndOf(f[n])
    BY <1>1
  <2>3. PICK f \in Occurrences(t, h) : e = EndOf(f[n])
    BY <2>2
  <2>4. g = h
    BY <1>2, <2>1, <2>3
  <2>5. QED  BY <2>2, <2>4
<1>4. ASSUME NEW g \in Groups, SourceFilter(g), Occurrences(t, g) # {}  PROVE g \in Reached(t)
  <2>1. PICK f \in Occurrences(t, g) : TRUE
    BY <1>4
  <2>2. EndOf(f[n]) \in Ending(t, n)
    BY <1>1, <1>4
  <2>3. EndOf(f[n]).gid = g
    BY <1>2
  <2>4. QED  BY <2>2, <2>3 DEF Reached
<1>5. Reached(t) \subseteq Groups
  BY <1>3
<1>6. IsFiniteSet(Reached(t))
  BY <1>5, FS_Subset, SequenceAssumption
<1>7. QED  BY <1>3, <1>4, <1>6, FS_CardinalityType DEF Size

LEMMA WindowIn ==
  ASSUME NEW s \in Seq(Items), NEW n \in Nat, NEW o \in Nat, o + n <= Len(s)
  PROVE  /\ Window(s, o, n) \in Seq(Items) /\ Len(Window(s, o, n)) = n
         /\ \A k \in 1 .. n : Window(s, o, n)[k] = s[k + o] /\ k + o \in 1 .. Len(s)
<1> DEFINE w == Window(s, o, n)
<1>1. \A k \in 1 .. n : k + o \in 1 .. Len(s)
  OBVIOUS
<1>2. \A k \in 1 .. n : s[k + o] \in Items
  BY <1>1, ElementOfSeq
<1>3. w = [k \in 1 .. n |-> s[k + o]]
  BY DEF Window
<1> HIDE DEF w
<1>4. w \in [1 .. n -> Items] /\ \A k \in 1 .. n : w[k] = s[k + o]
  BY <1>2, <1>3
<1>5. w \in Seq(Items) /\ Len(w) = n
  BY <1>4
<1>6. QED  BY <1>1, <1>4, <1>5 DEF w

(* Where a sequence occurs, its parts do.                                  *)
LEMMA WindowOccurs ==
  ASSUME NEW s \in Seq(Items), NEW n \in Nat, NEW o \in Nat, o + n <= Len(s),
         NEW g, NEW f \in Occurrences(s, g)
  PROVE  Occurrences(Window(s, o, n), g) # {}
<1> DEFINE m == Len(s)
           w == Window(s, o, n)
           h == [k \in 1 .. n |-> f[k + o]]
<1>1. w \in Seq(Items) /\ Len(w) = n /\ \A k \in 1 .. n : w[k] = s[k + o] /\ k + o \in 1 .. m
  BY WindowIn
<1>2. m \in Nat
  OBVIOUS
<1>3. /\ f \in [1 .. m -> RowsOf(g)]
      /\ \A k \in 1 .. m : f[k].item = s[k]
      /\ \A k \in 1 .. m - 1 : Gap(f[k], f[k + 1])
  BY OccurrenceMeaning
<1> HIDE DEF w, m
<1>4. h \in [1 .. n -> RowsOf(g)] /\ \A k \in 1 .. n : h[k] = f[k + o]
  BY <1>1, <1>3
<1> HIDE DEF h
<1>5. \A k \in 1 .. n : h[k].item = w[k]
  BY <1>1, <1>3, <1>4
<1>6. ASSUME NEW k \in 1 .. n - 1  PROVE Gap(h[k], h[k + 1])
  <2>1. k \in 1 .. n /\ k + 1 \in 1 .. n /\ k + o + 1 = (k + 1) + o
    OBVIOUS
  <2>2. k + o \in 1 .. m - 1
    BY <1>2 DEF m
  <2>3. Gap(f[k + o], f[k + o + 1])
    BY <1>3, <2>2
  <2>4. f[k + o + 1] = f[(k + 1) + o]
    BY <2>1
  <2>5. QED  BY <1>4, <2>1, <2>3, <2>4
<1>7. h \in Occurrences(w, g)
  BY <1>1, <1>4, <1>5, <1>6, OccurrenceMeaning
<1>8. QED  BY <1>7 DEF w

(* Its parts are in the groups of a sequence, and perhaps in others.       *)
LEMMA WindowReached ==
  ASSUME JobInv, source = SourceRows, NEW s \in Seq(Items), NEW n \in Nat \ {0}, NEW o \in Nat,
         o + n <= Len(s)
  PROVE  /\ Reached(s) \subseteq Reached(Window(s, o, n))
         /\ Size(Reached(s)) <= Size(Reached(Window(s, o, n)))
<1> DEFINE w == Window(s, o, n)
<1>1. w \in Seq(Items) /\ Len(w) = n /\ Len(s) \in Nat \ {0}
  BY WindowIn
<1>2. \A g \in Groups : Occurrences(s, g) # {} => Occurrences(w, g) # {}
  BY WindowOccurs
<1> HIDE DEF w
<1>3. Reached(s) = {g \in Groups : SourceFilter(g) /\ Occurrences(s, g) # {}}
  BY <1>1, ReachedMeaning
<1>4. Reached(w) = {g \in Groups : SourceFilter(g) /\ Occurrences(w, g) # {}} /\ IsFiniteSet(Reached(w))
  BY <1>1, ReachedMeaning
<1>5. Reached(s) \subseteq Reached(w)
  BY <1>2, <1>3, <1>4
<1>6. QED  BY <1>4, <1>5, FS_Subset DEF Size, w

-----------------------------------------------------------------------------
(* The sequences the minerule asks for.                                    *)

Wanted(s) ==
  /\ s \in Seq(Items) /\ Len(s) \in job.length[1] .. job.length[2]
  /\ Satisfies(s) /\ SupportOf(s) # {} /\ Frequent(Size(SupportOf(s)))

LEMMA WantedMeets ==
  ASSUME JobInv, NEW s, Wanted(s)
  PROVE  /\ Len(s) \in Nat \ {0}
         /\ \A j \in DOMAIN job.bem : Meets(j, s, Len(s))
         /\ \A j \in Mids : Size(Places(j, s, Len(s))) \in AtLeast(j) .. job.bem[j].max
<1> DEFINE n == Len(s)
<1>1. job.length[1] \in Nat \ {0} /\ job.length[2] \in Nat
  BY SequenceAssumption DEF JobInv, Job
<1>2. s \in Seq(Items) /\ n \in Nat \ {0} /\ DOMAIN s = 1 .. n /\ Satisfies(s)
  BY <1>1 DEF Wanted
<1> HIDE DEF n
<1>3. ASSUME NEW j \in Mids
      PROVE  Size(Places(j, s, n)) \in AtLeast(j) .. job.bem[j].max
  <2>1. j \in DOMAIN job.bem /\ job.bem[j].type = "MID"
    BY DEF Mids
  <2>2. Size({k \in DOMAIN s : s[k] \in job.bem[j].items}) \in AtLeast(j) .. job.bem[j].max
    BY <1>2, <2>1 DEF Satisfies
  <2>3. QED  BY <1>2, <2>2 DEF Places
<1>4. ASSUME NEW j \in DOMAIN job.bem  PROVE Meets(j, s, n)
  <2>1. job.bem[j].type = "BEGIN" => s[1] \in job.bem[j].items
    BY <1>2 DEF Satisfies
  <2>2. job.bem[j].type = "END" => s[n] \in job.bem[j].items
    BY <1>2 DEF Satisfies, n
  <2>3. ASSUME job.bem[j].type = "MID"  PROVE \E k \in 1 .. n : s[k] \in job.bem[j].items
    <3>1. j \in Mids
      BY <2>3 DEF Mids
    <3>2. AtLeast(j) \in Nat \ {0} /\ job.bem[j].max \in Nat
      BY BemTypes DEF AtLeast
    <3>3. Size(Places(j, s, n)) # 0
      BY <1>3, <3>1, <3>2
    <3>4. Places(j, s, n) # {}
      BY <3>3, FS_EmptySet DEF Size
    <3>5. QED  BY <3>4 DEF Places
  <2>4. QED  BY <2>1, <2>2, <2>3 DEF Meets
<1>5. QED  BY <1>2, <1>3, <1>4 DEF n

(* sourceFilter drops no group that counts.                                *)
LEMMA WantedReached ==
  ASSUME JobInv, source = SourceRows, NEW s, Wanted(s)
  PROVE  s \in Seq(Items) /\ SupportOf(s) = Reached(s) /\ Reached(s) # {} /\ Frequent(Size(Reached(s)))
<1>1. s \in Seq(Items) /\ Len(s) \in Nat \ {0} /\ \A j \in DOMAIN job.bem : Meets(j, s, Len(s))
  BY WantedMeets DEF Wanted
<1>2. Reached(s) = {g \in Groups : SourceFilter(g) /\ Occurrences(s, g) # {}}
  BY <1>1, ReachedMeaning
<1>3. \A g \in Groups : Occurrences(s, g) # {} => SourceFilter(g)
  <2>1. ASSUME NEW g \in Groups, Occurrences(s, g) # {}  PROVE SourceFilter(g)
    <3>1. PICK f \in Occurrences(s, g) : TRUE
      BY <2>1
    <3>2. QED  BY <1>1, SupportFiltered
  <2>2. QED  BY <2>1
<1>4. SupportOf(s) = Reached(s)
  BY <1>2, <1>3 DEF SupportOf
<1>5. QED  BY <1>1, <1>4 DEF Wanted

-----------------------------------------------------------------------------
(* Each level finds all that is frequent, whatever the conditions say: the *)
(* two parts of a frequent sequence that are shorter by one are frequent,  *)
(* the level below has found them, and they are joined.                    *)

(* A sequence of length n that is frequent among the groups that are left. *)
Often(t, n) == t \in Seq(Items) /\ Len(t) = n /\ Frequent(Size(Reached(t)))
AllFound(ps, n) == \A t \in Seq(Items) : Often(t, n) => \E i \in 1 .. Len(ps) : ps[i].items = t

(* A pattern is joined with all those whose front is its tail.             *)
TailsJoin(ps, n) ==
  \A i, j \in 1 .. Len(ps) :
    n > 1 /\ (\A k \in 1 .. n - 1 : ps[i].items[k + 1] = ps[j].items[k]) => ps[i].ids[2] = ps[j].ids[1]

(* The frequent items begin it.                                            *)
LEMMA SingletonsFound ==
  ASSUME JobInv, source = SourceRows, source # {}
  PROVE  AllFound(Singletons, 1)
<1> DEFINE S == {i \in Items : GroupsWith(i) # {} /\ Frequent(Size(GroupsWith(i)))}
           items == Pruning1Seq
           ps == Singletons
<1>1. S \in SUBSET Items /\ S \in SUBSET Nat /\ IsFiniteSet(S)
  <2>1. S \in SUBSET Items
    OBVIOUS
  <2> HIDE DEF S
  <2>2. QED  BY <2>1, FS_Subset, SourceAssumption
<1>2. items = InOrder(S)
  BY DEF Pruning1Seq
<1>3. ASSUME NEW t \in Seq(Items), Often(t, 1)  PROVE \E i \in 1 .. Len(ps) : ps[i].items = t
  <2>1. Len(t) = 1 /\ t[1] \in Items /\ Frequent(Size(Reached(t)))
    <3>1. Len(t) = 1 /\ 1 \in 1 .. 1
      BY <1>3 DEF Often
    <3>2. QED  BY <1>3, <3>1, ElementOfSeq DEF Often
  <2>2. GroupsWith(t[1]) = Reached(t) /\ Reached(t) # {}
    BY <2>1, GroupsFound, NotEmpty
  <2>3. t[1] \in S
    BY <2>1, <2>2
  <2> HIDE DEF S, items
  <2>4. items \in [1 .. Size(S) -> S] /\ \E k \in 1 .. Size(S) : items[k] = t[1]
    <3>1. items \in [1 .. Size(S) -> S]
      BY <1>1, <1>2, InOrderProperties
    <3>2. Size(Upto(S, t[1])) \in 1 .. Size(S) /\ items[Size(Upto(S, t[1]))] = t[1]
      BY <1>1, <1>2, <2>3, InOrderProperties
    <3>3. QED  BY <3>1, <3>2
  <2>5. PICK k \in 1 .. Size(S) : items[k] = t[1]
    BY <2>4
  <2>6. ps = [l \in DOMAIN items |-> Singleton(items[l])]
    BY DEF Singletons, items
  <2>7. DOMAIN ps = 1 .. Len(ps)
    BY SingletonsLevel, ListDomain DEF LevelOf
  <2> HIDE DEF ps
  <2>8. k \in 1 .. Len(ps) /\ ps[k] = Singleton(t[1])
    BY <2>4, <2>5, <2>6, <2>7
  <2>9. ps[k].items = <<t[1]>>
    BY <2>8 DEF Singleton
  <2>10. <<t[1]>> = t
    <3>1. 1 \in Nat /\ <<t[1]>> \in Seq(Items) /\ Len(<<t[1]>>) = 1 /\ <<t[1]>>[1] = t[1]
          /\ \A l \in 1 .. 1 : l = 1
      BY <2>1
    <3>2. \A l \in 1 .. 1 : <<t[1]>>[l] = t[l]
      BY <3>1
    <3>3. QED  BY <2>1, <3>1, <3>2, SameItems
  <2>11. QED  BY <2>8, <2>9, <2>10
<1>4. QED  BY <1>3 DEF AllFound

(* The ids of a new pattern are where the tails and fronts are.            *)
LEMMA NewJoins ==
  ASSUME CountsInv, PatternsInv, CandidatesInv, EndsInv, phase = "pairs"
  PROVE  TailsJoin(new, level)
<1>1. /\ level >= 2 /\ level \in Nat /\ LevelOf(patterns, level - 1) /\ Overlaps(patterns, level - 1)
      /\ \A k \in 1 .. Len(new) : new[k].ids \in Candidates /\ new[k].items = Extension(new[k].ids)
  BY DEF CountsInv, PatternsInv, CandidatesInv, EndsInv
<1>2. ASSUME NEW i \in 1 .. Len(new), NEW j \in 1 .. Len(new),
             \A k \in 1 .. level - 1 : new[i].items[k + 1] = new[j].items[k]
      PROVE  new[i].ids[2] = new[j].ids[1]
  <2> DEFINE a == new[i].ids[2]
             b == new[j].ids[1]
  <2>1. /\ a \in 1 .. Len(patterns) /\ b \in 1 .. Len(patterns)
        /\ \A k \in 1 .. level - 1 : new[i].items[k + 1] = patterns[a].items[k]
        /\ \A k \in 1 .. level - 1 : new[j].items[k] = patterns[b].items[k]
    <3>1. new[i].ids \in Candidates /\ new[i].items = Extension(new[i].ids)
      BY <1>1
    <3>2. new[j].ids \in Candidates /\ new[j].items = Extension(new[j].ids)
      BY <1>1
    <3>3. a \in 1 .. Len(patterns) /\ b \in 1 .. Len(patterns)
      BY <1>1, <3>1, <3>2, CandidateExtension
    <3>4. \A k \in 1 .. level - 1 : new[i].items[k + 1] = patterns[a].items[k]
      BY <1>1, <3>1, CandidateTail
    <3>5. \A k \in 1 .. level - 1 : new[j].items[k] = patterns[b].items[k]
      BY <1>1, <3>2, CandidateExtension
    <3>6. QED  BY <3>3, <3>4, <3>5
  <2> HIDE DEF a, b
  <2>2. \A k \in 1 .. level - 1 : patterns[a].items[k] = patterns[b].items[k]
    BY <1>2, <2>1
  <2>3. /\ level - 1 \in Nat
        /\ patterns[a].items \in Seq(Items) /\ Len(patterns[a].items) = level - 1
        /\ patterns[b].items \in Seq(Items) /\ Len(patterns[b].items) = level - 1
    BY <1>1, <2>1 DEF LevelOf, OfLength
  <2>4. patterns[a].items = patterns[b].items
    BY <2>2, <2>3, SameItems
  <2>5. a = b
    BY <1>1, <2>1, <2>4 DEF LevelOf, Distinct
  <2>6. QED  BY <2>5 DEF a, b
<1>3. QED  BY <1>2 DEF TailsJoin

LEMMA OftenParts ==
  ASSUME JobInv, source = SourceRows, NEW s \in Seq(Items), Frequent(Size(Reached(s))),
         NEW n \in Nat \ {0}, NEW o \in Nat, o + n <= Len(s)
  PROVE  Often(Window(s, o, n), n)
<1> DEFINE w == Window(s, o, n)
<1>1. w \in Seq(Items) /\ Len(w) = n /\ Len(s) \in Nat \ {0}
  BY WindowIn
<1>2. Size(Reached(s)) \in Nat /\ Size(Reached(w)) \in Nat
  BY <1>1, ReachedMeaning
<1>3. Size(Reached(s)) <= Size(Reached(w))
  BY WindowReached
<1> HIDE DEF w
<1>4. Frequent(Size(Reached(w)))
  BY <1>2, <1>3, FrequentGrows
<1>5. QED  BY <1>1, <1>4 DEF Often, w

(* The two parts of a frequent sequence are candidates, and are kept.      *)
LEMMA CandidateFound ==
  ASSUME JobInv, CountsInv, source = SourceRows, source # {}, level >= 2,
         LevelOf(patterns, level - 1), Overlaps(patterns, level - 1), EndsKnown(patterns, level - 1),
         TailsJoin(patterns, level - 1), AllFound(patterns, level - 1),
         NEW t \in Seq(Items), Often(t, level)
  PROVE  \E c \in Candidates :
           Extension(c) = t /\ Kept(Extended(patterns[c[1]], patterns[c[2]], c))
<1> DEFINE n == level - 1
           u == Window(t, 0, n)
           v == Window(t, 1, n)
<1>1. level \in Nat \ {0} /\ n \in Nat \ {0} /\ level = n + 1 /\ Len(t) = level
      /\ Frequent(Size(Reached(t))) /\ Reached(t) # {}
  BY NotEmpty DEF CountsInv, Often
<1>2. /\ u \in Seq(Items) /\ Len(u) = n /\ \A k \in 1 .. n : u[k] = t[k + 0]
      /\ v \in Seq(Items) /\ Len(v) = n /\ \A k \in 1 .. n : v[k] = t[k + 1]
  <2>1. n \in Nat /\ 0 \in Nat /\ 1 \in Nat /\ 0 + n <= Len(t) /\ 1 + n <= Len(t)
    BY <1>1
  <2> HIDE DEF n
  <2>2. u \in Seq(Items) /\ Len(u) = n /\ \A k \in 1 .. n : u[k] = t[k + 0]
    BY <2>1, WindowIn
  <2>3. v \in Seq(Items) /\ Len(v) = n /\ \A k \in 1 .. n : v[k] = t[k + 1]
    BY <2>1, WindowIn
  <2>4. QED  BY <2>2, <2>3
<1>3. \A k \in 1 .. n : u[k] = t[k]
  <2>1. \A k \in 1 .. n : k + 0 = k
    OBVIOUS
  <2>2. QED  BY <1>2, <2>1
<1>4. Often(u, n) /\ Often(v, n)
  BY <1>1, OftenParts
<1> HIDE DEF u, v, n
<1>5. PICK i \in 1 .. Len(patterns) : patterns[i].items = u
  BY <1>2, <1>4 DEF AllFound, n
<1>6. PICK j \in 1 .. Len(patterns) : patterns[j].items = v
  BY <1>2, <1>4 DEF AllFound, n
<1> DEFINE c == <<i, j>>
<1>7. c[1] = i /\ c[2] = j
  OBVIOUS
<1>8. \A e \in Ending(t, level) : e \in EndsOf(source)
  BY DEF Ending
<1>9. IsCandidate(patterns[i], patterns[j])
  <2>1. CASE level = 2
    <3>1. n = 1 /\ 1 \in 1 .. n
      BY <1>1, <2>1
    <3>2. t[1] = u[1] /\ v[1] = t[2] /\ Len(u) = 1 /\ Len(t) = 2
      <4>1. v[1] = t[1 + 1]
        BY <1>2, <3>1
      <4>2. QED  BY <1>1, <1>2, <1>3, <2>1, <3>1, <4>1
    <3>3. EndsOf(Following(u[1], t[2])) = Ending(t, 2)
      BY <1>2, <3>2, PairEnds
    <3>4. Ending(t, 2) # {}
      BY <1>1, <3>2 DEF Reached
    <3>5. EndsOf({}) = {}
      BY DEF EndsOf
    <3>6. Following(u[1], v[1]) # {}
      BY <3>2, <3>3, <3>4, <3>5
    <3>7. QED  BY <1>5, <1>6, <2>1, <3>6 DEF IsCandidate
  <2>2. CASE level # 2
    <3>1. n > 1
      BY <1>1, <2>2
    <3>2. \A k \in 1 .. n - 1 : u[k + 1] = v[k]
      <4>1. \A k \in 1 .. n - 1 : k \in 1 .. n /\ k + 1 \in 1 .. n
        BY <1>1
      <4>2. QED  BY <1>2, <1>3, <4>1
    <3>3. patterns[i].ids[2] = patterns[j].ids[1]
      BY <1>5, <1>6, <3>1, <3>2 DEF TailsJoin, n
    <3>4. QED  BY <2>2, <3>3 DEF IsCandidate
  <2>3. QED  BY <2>1, <2>2
<1>10. c \in Candidates
  <2>1. DOMAIN patterns = 1 .. Len(patterns)
    BY ListDomain DEF LevelOf
  <2>2. QED  BY <1>7, <1>9, <2>1 DEF Candidates
<1> HIDE DEF c
<1>11. Extension(c) = t
  <2>1. /\ Extension(c) \in Seq(Items) /\ Len(Extension(c)) = level
        /\ \A k \in 1 .. level - 1 : Extension(c)[k] = patterns[c[1]].items[k]
        /\ Extension(c)[level] = patterns[c[2]].items[level - 1]
    BY <1>10, CandidateExtension
  <2>2. \A k \in 1 .. level : k \in 1 .. n \/ (k = level /\ n \in 1 .. n /\ n + 1 = level)
    BY <1>1
  <2>3. \A k \in 1 .. n : Extension(c)[k] = t[k]
    BY <1>3, <1>5, <1>7, <2>1 DEF n
  <2>4. Extension(c)[level] = t[level]
    <3>1. n \in 1 .. n /\ n + 1 = level
      BY <1>1
    <3>2. v[n] = t[level]
      BY <1>2, <3>1
    <3>3. QED  BY <1>6, <1>7, <2>1, <3>2 DEF n
  <2>5. \A k \in 1 .. level : Extension(c)[k] = t[k]
    BY <2>2, <2>3, <2>4
  <2>6. QED  BY <1>1, <2>1, <2>5, SameItems
<1> DEFINE x == Extended(patterns[c[1]], patterns[c[2]], c)
<1>12. x.ends = Ending(t, level)
  BY <1>10, <1>11, CandidateEnds
<1> HIDE DEF x
<1>13. Kept(x)
  <2>1. {e.gid : e \in x.ends} = Reached(t)
    BY <1>1, <1>12 DEF Reached
  <2>2. /\ Size(x.ends) \in Nat /\ Size({e.gid : e \in x.ends}) \in Nat
        /\ Size({e.gid : e \in x.ends}) <= Size(x.ends)
    BY <1>8, <1>12, GroupsFewer
  <2>3. Frequent(Size({e.gid : e \in x.ends})) /\ Frequent(Size(x.ends))
    BY <1>1, <2>1, <2>2, FrequentGrows
  <2>4. QED  BY <2>3 DEF Kept
<1>14. QED  BY <1>10, <1>11, <1>13 DEF x

-----------------------------------------------------------------------------
(* What a sequence is part of.                                             *)

(* s is the part of t that k items come before.                            *)
PartAt(s, t, k) == \A j \in 1 .. Len(s) : s[j] = t[k + j]

LEMMA PartMeaning ==
  ASSUME NEW s \in Seq(Items), NEW t \in Seq(Items)
  PROVE  Part(s, t) <=> \E k \in 0 .. Len(t) - Len(s) : PartAt(s, t, k)
<1>1. Len(s) \in Nat /\ Len(t) \in Nat
  OBVIOUS
<1>2. ASSUME NEW k \in 0 .. Len(t) - Len(s)
      PROVE  SubSeq(t, k + 1, k + Len(s)) = s <=> PartAt(s, t, k)
  <2> DEFINE u == SubSeq(t, k + 1, k + Len(s))
  <2>1. k + 1 \in Int /\ k + Len(s) \in Int /\ \A i \in k + 1 .. k + Len(s) : t[i] \in Items
    <3>1. \A i \in k + 1 .. k + Len(s) : i \in 1 .. Len(t)
      BY <1>1
    <3>2. QED  BY <1>1, <3>1, ElementOfSeq
  <2>2. /\ u \in Seq(Items) /\ Len(u) = Len(s)
        /\ \A j \in 1 .. Len(s) : u[j] = t[k + j]
    <3>1. /\ u \in Seq(Items)
          /\ Len(u) = IF k + 1 <= k + Len(s) THEN k + Len(s) - (k + 1) + 1 ELSE 0
          /\ \A i \in 1 .. k + Len(s) - (k + 1) + 1 : u[i] = t[k + 1 + i - 1]
      BY <2>1, SubSeqProperties
    <3> HIDE DEF u
    <3>2. k + Len(s) - (k + 1) + 1 = Len(s) /\ \A j \in 1 .. Len(s) : k + 1 + j - 1 = k + j
      BY <1>1
    <3>3. Len(u) = Len(s)
      BY <1>1, <3>1, <3>2
    <3>4. \A j \in 1 .. Len(s) : u[j] = t[k + j]
      BY <3>1, <3>2
    <3>5. QED  BY <3>1, <3>3, <3>4
  <2> HIDE DEF u
  <2>3. (\A j \in 1 .. Len(s) : u[j] = s[j]) => u = s
    BY <1>1, <2>2, SameItems
  <2>4. QED  BY <2>2, <2>3 DEF PartAt, u
<1>3. QED  BY <1>2 DEF Part

LEMMA PartSelf ==
  ASSUME NEW s \in Seq(Items)
  PROVE  Part(s, s)
<1>1. 0 \in 0 .. Len(s) - Len(s) /\ \A j \in 1 .. Len(s) : 0 + j = j
  OBVIOUS
<1>2. PartAt(s, s, 0)
  BY <1>1 DEF PartAt
<1>3. QED  BY <1>1, <1>2, PartMeaning

(* p is the front of t, or its tail.                                       *)
LEMMA PartThrough ==
  ASSUME NEW s \in Seq(Items), NEW p \in Seq(Items), Part(s, p), NEW t \in Seq(Items),
         Len(t) = Len(p) + 1, NEW o \in {0, 1}, \A k \in 1 .. Len(p) : t[k + o] = p[k]
  PROVE  Part(s, t)
<1>1. PICK k \in 0 .. Len(p) - Len(s) : PartAt(s, p, k)
  BY PartMeaning
<1>2. Len(s) \in Nat /\ Len(p) \in Nat
  OBVIOUS
<1>3. k + o \in 0 .. Len(t) - Len(s)
  BY <1>2
<1>4. \A j \in 1 .. Len(s) : k + j \in 1 .. Len(p) /\ k + j + o = k + o + j
  BY <1>2
<1>5. \A j \in 1 .. Len(s) : s[j] = t[k + o + j]
  <2>1. \A j \in 1 .. Len(s) : t[k + j + o] = p[k + j]
    BY <1>4
  <2>2. QED  BY <1>1, <1>4, <2>1 DEF PartAt
<1>6. PartAt(s, t, k + o)
  BY <1>5 DEF PartAt
<1>7. QED  BY <1>3, <1>6, PartMeaning

(* What Complete asks: s is part of a sequence of q, in as many groups.    *)
Covered(s, q) ==
  \E i \in 1 .. Len(q) : Part(s, q[i].items) /\ Size(q[i].groups) = Size(SupportOf(s))

LEMMA CoveredLonger ==
  ASSUME NEW s, NEW p, IsList(p), NEW q, IsList(q)
  PROVE  /\ IsList(p \o q) /\ (Covered(s, p) => Covered(s, p \o q))
         /\ Covered(s, q) => Covered(s, p \o q)
<1> DEFINE members == {p[k] : k \in DOMAIN p} \cup {q[k] : k \in DOMAIN q}
           r == p \o q
<1>1. IsList(r)
  BY ListConcat
<1>2. p \in Seq(members) /\ q \in Seq(members) /\ Len(p) \in Nat /\ Len(q) \in Nat
  BY SeqMonotonic, ListDomain DEF IsList
<1> HIDE DEF members
<1>3. /\ Len(r) = Len(p) + Len(q)
      /\ \A k \in 1 .. Len(p) + Len(q) : r[k] = IF k <= Len(p) THEN p[k] ELSE q[k - Len(p)]
  BY <1>2, ConcatProperties
<1> HIDE DEF r
<1>4. \A i \in 1 .. Len(p) : i \in 1 .. Len(r) /\ r[i] = p[i]
  BY <1>2, <1>3
<1>5. ASSUME NEW i \in 1 .. Len(q)  PROVE i + Len(p) \in 1 .. Len(r) /\ r[i + Len(p)] = q[i]
  <2>1. i + Len(p) \in 1 .. Len(p) + Len(q) /\ ~(i + Len(p) <= Len(p)) /\ i + Len(p) - Len(p) = i
    BY <1>2
  <2>2. r[i + Len(p)] = q[i + Len(p) - Len(p)]
    BY <1>3, <2>1
  <2>3. QED  BY <1>3, <2>1, <2>2
<1>6. Covered(s, p) => Covered(s, r)
  BY <1>4 DEF Covered
<1>7. Covered(s, q) => Covered(s, r)
  BY <1>5 DEF Covered
<1>8. QED  BY <1>1, <1>6, <1>7 DEF r

(* What is frequent enough is written.                                     *)
LEMMA CoveredSaved ==
  ASSUME NEW n, NEW ps, LevelOf(ps, n), NEW S \in SUBSET (1 .. Len(ps)), NEW s,
         Frequent(Size(SupportOf(s))), NEW i \in S,
         Part(s, ps[i].items), Size(ps[i].groups) = Size(SupportOf(s))
  PROVE  Covered(s, SaveAll(ps, S))
<1> DEFINE T == {j \in S : Frequent(Size(ps[j].groups))}
           at == InOrder(T)
           q == SaveAll(ps, S)
<1>1. Len(ps) \in Nat
  BY ListDomain DEF LevelOf
<1>2. T \subseteq 1 .. Len(ps) /\ i \in T
  OBVIOUS
<1> HIDE DEF T
<1>3. T \in SUBSET Nat /\ IsFiniteSet(T)
  <2>1. IsFiniteSet(1 .. Len(ps))
    BY <1>1, FS_Interval
  <2>2. IsFiniteSet(T)
    BY <1>2, <2>1, FS_Subset
  <2>3. QED  BY <1>1, <1>2, <2>2
<1>4. at \in [1 .. Size(T) -> T]
  BY <1>3, InOrderProperties
<1>5. Size(Upto(T, i)) \in 1 .. Size(T) /\ at[Size(Upto(T, i))] = i
  BY <1>2, <1>3, InOrderProperties
<1>6. PICK k \in 1 .. Size(T) : at[k] = i
  BY <1>5
<1>7. q = [l \in DOMAIN at |-> AsSaved(ps[at[l]])]
  BY DEF SaveAll, T
<1>8. DOMAIN q = 1 .. Len(q)
  BY LevelWritten, ListDomain DEF Written
<1> HIDE DEF at, q
<1>9. k \in 1 .. Len(q) /\ q[k] = AsSaved(ps[i])
  BY <1>4, <1>6, <1>7, <1>8
<1>10. q[k].items = ps[i].items /\ q[k].groups = ps[i].groups
  BY <1>9 DEF AsSaved
<1>11. QED  BY <1>9, <1>10 DEF Covered, q

(* A sequence asked for has the groups it occurs in when it is found.      *)
LEMMA WantedGroups ==
  ASSUME JobInv, source = SourceRows, NEW s, Wanted(s), NEW p, p.items = s, Known(p, Len(s))
  PROVE  p.groups = SupportOf(s)
<1> DEFINE n == Len(s)
<1>1. /\ n \in Nat \ {0} /\ \A j \in DOMAIN job.bem : Meets(j, s, n)
      /\ \A j \in Mids : Size(Places(j, s, n)) \in AtLeast(j) .. job.bem[j].max
  BY WantedMeets
<1>2. SupportOf(s) = {e.gid : e \in Ending(s, n)}
  BY WantedReached DEF Reached
<1>3. BitsKnown(p, n) /\ CountsKnown(p, n) /\ GroupsKnown(p, n)
  BY DEF Known
<1> HIDE DEF n
<1>4. p.bits = DOMAIN job.bem
  BY <1>1, <1>3 DEF BitsKnown
<1>5. CASE n = 1
  BY <1>2, <1>3, <1>4, <1>5 DEF GroupsKnown
<1>6. CASE n # 1
  <2>1. \A j \in Mids : p.counts[j][1] + p.counts[j][2] = Size(Places(j, s, n))
    BY <1>1, <1>3, <1>6 DEF CountsKnown
  <2>2. \A j \in Mids : p.counts[j][1] + p.counts[j][2] \in AtLeast(j) .. job.bem[j].max
    BY <1>1, <2>1
  <2>3. Holds(p.bits, p.counts)
    BY <1>4, <2>2, Zenon DEF Holds
  <2>4. QED  BY <1>2, <1>3, <1>6, <2>3 DEF GroupsKnown
<1>7. QED  BY <1>5, <1>6

(* Items are written if one may be asked for.                              *)
LEMMA WantedSingleton ==
  ASSUME JobInv, NEW s, Wanted(s), Len(s) = 1
  PROVE  SavesSingletons
<1>1. job.length[1] \in Nat /\ job.length[1] <= 1
  BY SequenceAssumption DEF JobInv, Job, Wanted
<1>2. ASSUME NEW j \in Mids  PROVE AtLeast(j) <= 1
  <2>1. Size(Places(j, s, 1)) \in AtLeast(j) .. job.bem[j].max
    BY WantedMeets
  <2>2. Size(Places(j, s, 1)) \in Nat /\ Size(Places(j, s, 1)) <= 1
    BY PlacesCounted
  <2>3. AtLeast(j) \in Nat /\ job.bem[j].max \in Nat
    BY BemTypes DEF AtLeast, Mids
  <2>4. QED  BY <2>1, <2>2, <2>3
<1>3. ~max_MIN_COUNT
  <2>1. \A j \in Mids : AtLeast(j) \in Nat
    BY BemTypes DEF AtLeast, Mids
  <2>2. QED  BY <1>2, <2>1 DEF max_MIN_COUNT
<1>4. QED  BY <1>1, <1>3 DEF SavesSingletons

(* A part of a sequence has no more elements that meet a condition.        *)
LEMMA WindowPlaces ==
  ASSUME NEW s \in Seq(Items), NEW n \in Nat, NEW o \in Nat, o + n <= Len(s), NEW j
  PROVE  /\ Size(Places(j, Window(s, o, n), n)) <= Size(Places(j, s, Len(s)))
         /\ Size(Places(j, Window(s, o, n), n)) \in Nat /\ Size(Places(j, s, Len(s))) \in Nat
<1> DEFINE w == Window(s, o, n)
           P == Places(j, w, n)
           Q == Places(j, s, Len(s))
           f == [k \in P |-> k + o]
<1>1. \A k \in 1 .. n : w[k] = s[k + o] /\ k + o \in 1 .. Len(s)
  BY WindowIn
<1>2. P \subseteq 1 .. n /\ \A k \in P : k + o \in Q
  BY <1>1 DEF Places
<1>3. IsFiniteSet(Q)
  <2>1. IsFiniteSet(1 .. Len(s))
    BY FS_Interval
  <2>2. Q \subseteq 1 .. Len(s)
    BY DEF Places
  <2>3. QED  BY <2>1, <2>2, FS_Subset
<1>4. Size(P) \in Nat /\ Size(Q) \in Nat
  BY PlacesCounted
<1> HIDE DEF P, Q
<1>5. f \in [P -> Q] /\ \A a, b \in P : f[a] = f[b] => a = b
  BY <1>2
<1> HIDE DEF f
<1>6. Size(P) <= Size(Q)
  BY <1>3, <1>5, InjectedSmaller
<1>7. QED  BY <1>4, <1>6 DEF P, Q, w

-----------------------------------------------------------------------------
(* What holds on the way to the end.                                       *)

(* The level below has found all that is frequent, and its ids join it.    *)
FoundInv ==
  phase \in {"level", "pairs"} => AllFound(patterns, level - 1) /\ TailsJoin(patterns, level - 1)

(* The candidates read are among the patterns if they are kept, and a      *)
(* pattern that is not closed is part of a longer one in as many groups.   *)
ReadInv ==
  phase = "pairs" =>
    /\ bemCf \subseteq DOMAIN job.bem
    /\ \A c \in Candidates \ AllOf(todo) :
         Kept(Extended(patterns[c[1]], patterns[c[2]], c)) =>
           \E k \in 1 .. Len(new) : new[k].items = Extension(c)
    /\ \A k \in 1 .. Len(new) : StillPossible(new[k].bits, new[k].counts) \subseteq bemCf
    /\ \A i \in (1 .. Len(patterns)) \ closed : \E k \in 1 .. Len(new) :
         i \in {new[k].ids[1], new[k].ids[2]} /\ Size(new[k].groups) = Size(patterns[i].groups)

(* The sequences asked for that are shorter than the patterns in hand are  *)
(* part of what is written, or of one of these patterns.                   *)
CoverInv ==
  /\ IsList(saved)
  /\ phase \in {"level", "pairs"} =>
       \A s \in AllSequences : Wanted(s) /\ Len(s) < level => Covered(s, saved) \/ Covered(s, patterns)
  /\ phase \in {"finish", "done"} /\ (job.length[2] = 1 \/ Len(Pruning1Seq) # 1) =>
       \A s \in AllSequences : Wanted(s) => Covered(s, saved)

LEMMA JobFrame ==
  ASSUME job' = job
  PROVE  /\ AllSequences' = AllSequences
         /\ \A s : (Wanted(s)' <=> Wanted(s)) /\ SupportOf(s)' = SupportOf(s)
         /\ \A s, q : Covered(s, q)' <=> Covered(s, q)
         /\ \A b, c : StillPossible(b, c)' = StillPossible(b, c)
         /\ \A n : Frequent(n)' <=> Frequent(n)
<1>1. \A g : RowsOf(g)' = RowsOf(g)
  BY DEF RowsOf
<1>2. \A p, q : Gap(p, q)' <=> Gap(p, q)
  BY DEF Gap, At
<1>3. \A s, g, f : Occurs(s, g, f)' <=> Occurs(s, g, f)
  BY <1>2 DEF Occurs
<1>4. \A s, g : Occurrences(s, g)' = Occurrences(s, g)
  BY <1>1, <1>3 DEF Occurrences
<1>5. \A s : SupportOf(s)' = SupportOf(s)
  BY <1>4 DEF SupportOf
<1>6. Mids' = Mids /\ \A j : AtLeast(j)' = AtLeast(j)
  BY DEF Mids, AtLeast
<1>7. \A s : Satisfies(s)' <=> Satisfies(s)
  BY <1>6 DEF Satisfies
<1>8. \A n : Frequent(n)' <=> Frequent(n)
  BY DEF Frequent, grpId_count
<1>9. AllSequences' = AllSequences
  BY DEF AllSequences
<1>10. \A s : Wanted(s)' <=> Wanted(s)
  BY <1>5, <1>7, <1>8 DEF Wanted
<1>11. \A s, q : Covered(s, q)' <=> Covered(s, q)
  BY <1>5 DEF Covered
<1>12. active_count' <=> active_count
  BY <1>6 DEF active_count
<1>13. \A b, c : StillPossible(b, c)' = StillPossible(b, c)
  BY <1>6, <1>12 DEF StillPossible
<1>14. QED  BY <1>5, <1>8, <1>9, <1>10, <1>11, <1>13

LEMMA FoundFrame ==
  ASSUME job' = job, source' = source
  PROVE  /\ \A t, n : Often(t, n)' <=> Often(t, n)
         /\ Pruning1Seq' = Pruning1Seq
<1>1. \A g : RowsOf(g)' = RowsOf(g)
  BY DEF RowsOf
<1>2. \A p, q : Gap(p, q)' <=> Gap(p, q)
  BY DEF Gap, At
<1>3. \A s, g, f : Occurs(s, g, f)' <=> Occurs(s, g, f)
  BY <1>2 DEF Occurs
<1>4. \A s, g : Occurrences(s, g)' = Occurrences(s, g)
  BY <1>1, <1>3 DEF Occurrences
<1>5. \A s, n : Ending(s, n)' = Ending(s, n)
  BY <1>4 DEF Ending, EndsOf
<1>6. \A t : Reached(t)' = Reached(t)
  BY <1>5 DEF Reached
<1>7. \A n : Frequent(n)' <=> Frequent(n)
  BY JobFrame
<1>8. \A t, n : Often(t, n)' <=> Often(t, n)
  BY <1>6, <1>7 DEF Often
<1>9. \A i : GroupsWith(i)' = GroupsWith(i)
  BY DEF GroupsWith
<1>10. Pruning1Seq' = Pruning1Seq
  BY <1>7, <1>9 DEF Pruning1Seq
<1>11. QED  BY <1>8, <1>10

LEMMA CandidateFrame ==
  ASSUME job' = job, source' = source, level' = level, patterns' = patterns
  PROVE  /\ Candidates' = Candidates
         /\ \A c : Extension(c)' = Extension(c)
         /\ \A p, q, c : Extended(p, q, c)' = Extended(p, q, c)
         /\ \A p : Kept(p)' <=> Kept(p)
<1>1. \A p, q : Gap(p, q)' <=> Gap(p, q)
  BY DEF Gap, At
<1>2. \A i, j : Following(i, j)' = Following(i, j)
  BY <1>1 DEF Following
<1>3. Candidates' = Candidates
  BY <1>2 DEF Candidates, IsCandidate
<1>4. Mids' = Mids /\ \A j : AtLeast(j)' = AtLeast(j)
  BY DEF Mids, AtLeast
<1>5. active_count' <=> active_count
  BY <1>4 DEF active_count
<1>6. \A b, c : Holds(b, c)' <=> Holds(b, c)
  BY <1>4, <1>5 DEF Holds
<1>7. \A p, q : /\ CheckPosLists(p, q)' = CheckPosLists(p, q) /\ InferBits(p, q)' = InferBits(p, q)
                /\ InferCounts(p, q)' = InferCounts(p, q)
  BY <1>1, <1>4 DEF CheckPosLists, InferBits, InferCounts, At
<1>8. \A p, q, c : Extended(p, q, c)' = Extended(p, q, c)
  <2> TAKE p, q, c
  <2>1. /\ InferBits(p, q)' = InferBits(p, q) /\ InferCounts(p, q)' = InferCounts(p, q)
        /\ CheckPosLists(p, q)' = CheckPosLists(p, q)
        /\ Following(p.items[1], q.items[1])' = Following(p.items[1], q.items[1])
    BY <1>2, <1>7
  <2>2. Holds(InferBits(p, q), InferCounts(p, q))' <=> Holds(InferBits(p, q), InferCounts(p, q))
    BY <1>6, <2>1
  <2>3. EndsOf(Following(p.items[1], q.items[1]))' = EndsOf(Following(p.items[1], q.items[1]))
    BY <2>1 DEF EndsOf
  <2>4. QED  BY <2>1, <2>2, <2>3 DEF Extended
<1>9. \A p : Kept(p)' <=> Kept(p)
  <2>1. \A n : Frequent(n)' <=> Frequent(n)
    BY JobFrame
  <2>2. QED  BY <2>1 DEF Kept
<1>10. \A c : Extension(c)' = Extension(c)
  BY DEF Extension, LastItem
<1>11. QED  BY <1>3, <1>8, <1>9, <1>10

LEMMA HeadOrTail ==
  ASSUME NEW q, IsList(q), q # <<>>
  PROVE  AllOf(q) \subseteq AllOf(Tail(q)) \cup {Head(q)}
<1> DEFINE members == {q[k] : k \in DOMAIN q}
           rest == Tail(q)
<1>1. Head(q) = q[1]
  BY ListTail
<1>2. q \in Seq(members) /\ Len(q) \in Nat
  BY ListDomain DEF IsList
<1> HIDE DEF members
<1>3. Len(rest) = Len(q) - 1 /\ \A k \in 1 .. Len(rest) : rest[k] = q[k + 1]
  BY <1>2, HeadTailProperties
<1> HIDE DEF rest
<1>4. ASSUME NEW k \in 1 .. Len(q), k # 1  PROVE q[k] \in AllOf(rest)
  <2>1. k - 1 \in 1 .. Len(rest) /\ k - 1 + 1 = k
    BY <1>2, <1>3, <1>4
  <2>2. rest[k - 1] = q[k]
    BY <1>3, <2>1
  <2>3. QED  BY <2>1, <2>2 DEF AllOf
<1>5. QED  BY <1>1, <1>4 DEF AllOf, rest

LEMMA AllListed ==
  ASSUME NEW S \in SUBSET (Nat \X Nat), IsFiniteSet(S)
  PROVE  S \subseteq AllOf(Listed[S])
<1> DEFINE q == Listed[S]
<1>1. /\ Size(S) \in Nat /\ q \in [1 .. Size(S) -> S]
      /\ \A p \in S : \E k \in 1 .. Size(S) : q[k] = p
  BY ListedProperties
<1> HIDE DEF q
<1>2. q = [k \in 1 .. Size(S) |-> q[k]]
  BY <1>1
<1>3. Len(q) = Size(S)
  BY <1>1, <1>2, ListOf
<1>4. QED  BY <1>1, <1>3 DEF AllOf, q

-----------------------------------------------------------------------------
(* The steps, which find, read and cover what is asked for.                *)

(* A level that is read to its end has found all that is frequent.         *)
LEMMA LevelFound ==
  ASSUME JobInv, SourceInv, CountsInv, PatternsInv, EndsInv, FoundInv, ReadInv,
         phase = "pairs", todo = <<>>
  PROVE  AllFound(new, level)
<1>1. /\ level >= 2 /\ LevelOf(patterns, level - 1) /\ source = SourceRows /\ source # {}
      /\ Overlaps(patterns, level - 1) /\ EndsKnown(patterns, level - 1)
      /\ AllFound(patterns, level - 1) /\ TailsJoin(patterns, level - 1)
  BY DEF CountsInv, PatternsInv, SourceInv, EndsInv, FoundInv
<1>2. AllOf(todo) = {}
  BY DEF AllOf
<1>3. ASSUME NEW t \in Seq(Items), Often(t, level)  PROVE \E k \in 1 .. Len(new) : new[k].items = t
  <2>1. PICK c \in Candidates : Extension(c) = t /\ Kept(Extended(patterns[c[1]], patterns[c[2]], c))
    BY <1>1, <1>3, CandidateFound
  <2>2. c \in Candidates \ AllOf(todo)
    BY <1>2
  <2>3. QED  BY <2>1, <2>2 DEF ReadInv
<1>4. QED  BY <1>3 DEF AllFound

LEMMA FoundStep ==
  ASSUME JobInv, SourceInv, CountsInv, PatternsInv, CandidatesInv, EndsInv, FoundInv, ReadInv,
         [Next]_vars
  PROVE  FoundInv'
<1>1. job' = job
  BY JobKept
<1>2. ASSUME source' = source  PROVE \A t, n : Often(t, n)' <=> Often(t, n)
  BY <1>1, <1>2, FoundFrame
<1>3. CASE ExtractSingletons
  <2>1. CASE phase' = "level"
    <3>1. /\ phase = "singletons" /\ patterns' = Singletons /\ source' = source /\ level' - 1 = 1
      BY <1>3, <2>1 DEF ExtractSingletons
    <3>2. AllFound(Singletons, 1)
      BY <3>1, SingletonsFound DEF SourceInv
    <3>3. TailsJoin(Singletons, 1)
      BY DEF TailsJoin
    <3>4. QED  BY <1>2, <2>1, <3>1, <3>2, <3>3 DEF FoundInv, AllFound, TailsJoin
  <2>2. CASE phase' # "level"
    BY <1>3, <2>2 DEF ExtractSingletons, FoundInv
  <2>3. QED  BY <2>1, <2>2
<1>4. CASE EndLevel
  <2>1. CASE phase' = "level"
    <3>1. phase = "pairs" /\ todo = <<>> /\ patterns' = new /\ level' = level + 1 /\ source' = source
      BY <1>4, <2>1 DEF EndLevel
    <3>2. level' - 1 = level
      BY <3>1 DEF CountsInv
    <3>3. AllFound(new, level) /\ TailsJoin(new, level)
      BY <3>1, LevelFound, NewJoins
    <3>4. QED  BY <1>2, <2>1, <3>1, <3>2, <3>3 DEF FoundInv, AllFound, TailsJoin
  <2>2. CASE phase' # "level"
    BY <1>4, <2>2 DEF EndLevel, FoundInv
  <2>3. QED  BY <2>1, <2>2
<1>5. CASE StartLevel \/ ReadCandidate \/ UNCHANGED vars
  <2>1. /\ patterns' = patterns /\ level' = level /\ source' = source
        /\ phase' \in {"level", "pairs"} => phase \in {"level", "pairs"}
    BY <1>5 DEF StartLevel, ReadCandidate, vars, memory
  <2>2. CASE phase \in {"level", "pairs"}
    <3>1. AllFound(patterns, level - 1) /\ TailsJoin(patterns, level - 1)
      BY <2>2 DEF FoundInv
    <3>2. QED  BY <1>2, <2>1, <3>1 DEF FoundInv, AllFound, TailsJoin
  <2>3. QED  BY <2>1, <2>2 DEF FoundInv
<1>6. CASE Start \/ CreateSource \/ CreateNumbers \/ DropNumbers \/ FailSource \/ Finish \/ Again \/ Kill
  <2>1. phase' \notin {"level", "pairs"}
    BY <1>6 DEF Start, CreateSource, CreateNumbers, DropNumbers, FailSource, Fail, Finish, Again, Kill
  <2>2. QED  BY <2>1 DEF FoundInv
<1>7. QED  BY <1>3, <1>4, <1>5, <1>6 DEF Next, Mine

LEMMA ReadStep ==
  ASSUME JobInv, SourceInv, CountsInv, PatternsInv, CandidatesInv, EndsInv, KnownInv, ReadInv,
         [Next]_vars
  PROVE  ReadInv'
<1>1. job' = job
  BY JobKept
<1>2. CASE StartLevel
  <2>1. /\ phase = "level" /\ todo' = Listed[Candidates] /\ closed' = 1 .. Len(patterns) /\ new' = <<>>
        /\ bemCf' = {} /\ patterns' = patterns /\ source' = source /\ level' = level
    BY <1>2 DEF StartLevel
  <2>2. Candidates' = Candidates
    BY <1>1, <2>1, CandidateFrame
  <2>3. Candidates \subseteq AllOf(todo')
    BY <2>1, CandidatesFinite, AllListed DEF PatternsInv, LevelOf
  <2>4. Len(new') = 0 /\ 1 .. 0 = {}
    BY <2>1
  <2>5. (1 .. Len(patterns')) \ closed' = {}
    BY <2>1
  <2>6. Candidates' \ AllOf(todo') = {}
    BY <2>2, <2>3
  <2>7. AllOf(todo)' = AllOf(todo')
    BY DEF AllOf
  <2>8. QED  BY <2>1, <2>4, <2>5, <2>6, <2>7 DEF ReadInv
<1>3. CASE ReadCandidate
  <2> DEFINE c == Head(todo)
             p == Extended(patterns[c[1]], patterns[c[2]], c)
  <2>1. /\ phase = "pairs" /\ todo # <<>> /\ phase' = phase /\ todo' = Tail(todo)
        /\ patterns' = patterns /\ level' = level /\ source' = source
        /\ bemCf' = bemCf \cup StillPossible(p.bits, p.counts)
        /\ Kept(p) => new' = Append(new, p) /\ closed' = closed \ NoLongerClosed(p, c)
        /\ ~Kept(p) => new' = new /\ closed' = closed
    BY <1>3 DEF ReadCandidate
  <2>2. /\ Overlaps(patterns, level - 1) /\ EndsKnown(patterns, level - 1)
        /\ level >= 2 /\ LevelOf(patterns, level - 1) /\ source = SourceRows
        /\ AllKnown(patterns, level - 1)
        /\ IsList(todo) /\ IsList(new) /\ AllOf(todo) \subseteq Candidates /\ Differ(todo)
    BY <2>1 DEF EndsInv, PatternsInv, CountsInv, SourceInv, KnownInv, CandidatesInv
  <2>3. c \in Candidates
    BY <2>1, <2>2, ReadOnce
  <2>4. AllOf(todo) \subseteq AllOf(todo') \cup {c}
    BY <2>1, <2>2, HeadOrTail
  <2>5. /\ Candidates' = Candidates
        /\ \A d : Extension(d)' = Extension(d)
        /\ \A x, q, d : Extended(x, q, d)' = Extended(x, q, d)
        /\ \A x : Kept(x)' <=> Kept(x)
    BY <1>1, <2>1, CandidateFrame
  <2>6. \A b, d : StillPossible(b, d)' = StillPossible(b, d)
    BY <1>1, JobFrame
  <2>7. p.ids = c /\ p.items = Extension(c)
    BY DEF Extended, Extension, LastItem
  <2>8. p.bits \subseteq DOMAIN job.bem
    <3> HIDE DEF c
    <3>1. Known(Extended(patterns[c[1]], patterns[c[2]], c), level)
      BY <2>2, <2>3, CandidateKnown
    <3>2. QED  BY <3>1 DEF Known, BitsKnown
  <2>9. /\ bemCf \subseteq DOMAIN job.bem
        /\ \A d \in Candidates \ AllOf(todo) :
             Kept(Extended(patterns[d[1]], patterns[d[2]], d)) =>
               \E k \in 1 .. Len(new) : new[k].items = Extension(d)
        /\ \A k \in 1 .. Len(new) : StillPossible(new[k].bits, new[k].counts) \subseteq bemCf
        /\ \A i \in (1 .. Len(patterns)) \ closed : \E k \in 1 .. Len(new) :
             i \in {new[k].ids[1], new[k].ids[2]} /\ Size(new[k].groups) = Size(patterns[i].groups)
    BY <2>1 DEF ReadInv
  <2>10. NoLongerClosed(p, c) \subseteq {i \in {c[1], c[2]} : Size(patterns[i].groups) = Size(p.groups)}
    BY DEF NoLongerClosed
  <2>11. /\ \A k \in 1 .. Len(new) : k \in 1 .. Len(new') /\ new'[k] = new[k]
         /\ Kept(p) => \E k \in 1 .. Len(new') : new'[k] = p
         /\ \A k \in 1 .. Len(new') : k \in 1 .. Len(new) \/ (Kept(p) /\ new'[k] = p)
    <3>1. CASE Kept(p)
      <4>1. new' = Append(new, p)
        BY <2>1, <3>1
      <4> HIDE DEF p
      <4>2. /\ Len(new') = Len(new) + 1 /\ Len(new) \in Nat
            /\ \A k \in 1 .. Len(new) : new'[k] = new[k]
            /\ new'[Len(new) + 1] = p
        BY <2>2, <4>1, OneAppended
      <4>3. \A k \in 1 .. Len(new') : k \in 1 .. Len(new) \/ k = Len(new) + 1
        BY <4>2
      <4>4. Len(new) + 1 \in 1 .. Len(new') /\ \A k \in 1 .. Len(new) : k \in 1 .. Len(new')
        BY <4>2
      <4>5. QED  BY <3>1, <4>2, <4>3, <4>4
    <3>2. CASE ~Kept(p)
      <4>1. new' = new
        BY <2>1, <3>2
      <4> HIDE DEF p
      <4>2. QED  BY <3>2, <4>1
    <3>3. QED  BY <3>1, <3>2
  <2> HIDE DEF p
  <2>12. \A i \in (1 .. Len(patterns)) \ closed' :
           \/ i \notin closed
           \/ Kept(p) /\ i \in {c[1], c[2]} /\ Size(patterns[i].groups) = Size(p.groups)
    BY <2>1, <2>10
  <2>13. \A d \in Candidates \ AllOf(todo') : d \in Candidates \ AllOf(todo) \/ d = c
    BY <2>4
  <2>14. bemCf' \subseteq DOMAIN job.bem
    BY <2>1, <2>8, <2>9 DEF StillPossible
  <2>15. \A d \in Candidates \ AllOf(todo') :
           Kept(Extended(patterns[d[1]], patterns[d[2]], d)) =>
             \E k \in 1 .. Len(new') : new'[k].items = Extension(d)
    <3>1. ASSUME NEW d \in Candidates \ AllOf(todo), Kept(Extended(patterns[d[1]], patterns[d[2]], d))
          PROVE  \E k \in 1 .. Len(new') : new'[k].items = Extension(d)
      <4>1. PICK k \in 1 .. Len(new) : new[k].items = Extension(d)
        BY <2>9, <3>1
      <4>2. QED  BY <2>11, <4>1
    <3>2. ASSUME Kept(p)  PROVE \E k \in 1 .. Len(new') : new'[k].items = Extension(c)
      BY <2>7, <2>11, <3>2
    <3>3. Extended(patterns[c[1]], patterns[c[2]], c) = p
      BY DEF p
    <3>4. QED  BY <2>13, <3>1, <3>2, <3>3
  <2>16. \A k \in 1 .. Len(new') : StillPossible(new'[k].bits, new'[k].counts) \subseteq bemCf'
    <3>1. ASSUME NEW k \in 1 .. Len(new)
          PROVE  StillPossible(new'[k].bits, new'[k].counts) \subseteq bemCf'
      BY <2>1, <2>9, <2>11, <3>1
    <3>2. QED  BY <2>1, <2>11, <3>1
  <2>17. \A i \in (1 .. Len(patterns)) \ closed' : \E k \in 1 .. Len(new') :
           i \in {new'[k].ids[1], new'[k].ids[2]} /\ Size(new'[k].groups) = Size(patterns[i].groups)
    <3>1. ASSUME NEW i \in (1 .. Len(patterns)) \ closed
          PROVE  \E k \in 1 .. Len(new') :
                   i \in {new'[k].ids[1], new'[k].ids[2]} /\ Size(new'[k].groups) = Size(patterns[i].groups)
      <4>1. PICK k \in 1 .. Len(new) :
              i \in {new[k].ids[1], new[k].ids[2]} /\ Size(new[k].groups) = Size(patterns[i].groups)
        BY <2>9
      <4>2. QED  BY <2>11, <4>1
    <3>2. ASSUME Kept(p), NEW i \in {c[1], c[2]}, Size(patterns[i].groups) = Size(p.groups)
          PROVE  \E k \in 1 .. Len(new') :
                   i \in {new'[k].ids[1], new'[k].ids[2]} /\ Size(new'[k].groups) = Size(patterns[i].groups)
      BY <2>7, <2>11, <3>2
    <3>3. QED  BY <2>12, <3>1, <3>2
  <2> HIDE DEF c
  <2>18. QED  BY <1>1, <2>1, <2>5, <2>6, <2>14, <2>15, <2>16, <2>17 DEF ReadInv, AllOf
<1>4. CASE UNCHANGED vars
  <2>1. /\ job' = job /\ source' = source /\ level' = level /\ patterns' = patterns /\ phase' = phase
        /\ todo' = todo /\ new' = new /\ closed' = closed /\ bemCf' = bemCf
    BY <1>4 DEF vars, memory
  <2>2. /\ Candidates' = Candidates
        /\ \A d : Extension(d)' = Extension(d)
        /\ \A x, q, d : Extended(x, q, d)' = Extended(x, q, d)
        /\ \A x : Kept(x)' <=> Kept(x)
    BY <2>1, CandidateFrame
  <2>3. \A b, d : StillPossible(b, d)' = StillPossible(b, d)
    BY <1>1, JobFrame
  <2>4. QED  BY <2>1, <2>2, <2>3 DEF ReadInv, AllOf
<1>5. CASE \/ Start \/ CreateSource \/ CreateNumbers \/ DropNumbers \/ FailSource
           \/ ExtractSingletons \/ EndLevel \/ Finish \/ Again \/ Kill
  <2>1. phase' # "pairs"
    BY <1>5 DEF Start, CreateSource, CreateNumbers, DropNumbers, FailSource, Fail, ExtractSingletons,
         EndLevel, Finish, Again, Kill
  <2>2. QED  BY <2>1 DEF ReadInv
<1>6. QED  BY <1>2, <1>3, <1>4, <1>5 DEF Next, Mine

(* A condition is met by the part of a sequence that has the element.      *)
LEMMA PartMeets ==
  ASSUME JobInv, NEW s \in Seq(Items), NEW n \in Nat \ {0}, n <= Len(s),
         NEW j \in DOMAIN job.bem, Meets(j, s, Len(s))
  PROVE  \E o \in Nat : o + n <= Len(s) /\ Meets(j, Window(s, o, n), n)
<1> DEFINE m == Len(s)
<1>1. m \in Nat /\ job.bem[j].type \in {"BEGIN", "MID", "END"}
  BY BemTypes
<1>2. CASE job.bem[j].type = "BEGIN"
  <2>1. 0 \in Nat /\ n \in Nat /\ 0 + n <= m /\ 1 \in 1 .. n /\ 1 + 0 = 1
    BY <1>1
  <2>2. \A k \in 1 .. n : Window(s, 0, n)[k] = s[k + 0]
    BY <2>1, WindowIn
  <2>3. s[1] \in job.bem[j].items
    BY <1>2 DEF Meets
  <2>4. Meets(j, Window(s, 0, n), n)
    BY <1>2, <2>1, <2>2, <2>3 DEF Meets
  <2>5. QED  BY <2>1, <2>4
<1>3. CASE job.bem[j].type = "END"
  <2> DEFINE o == m - n
  <2>1. o \in Nat /\ o + n <= m /\ n \in 1 .. n /\ n + o = m
    BY <1>1
  <2> HIDE DEF o
  <2>2. Window(s, o, n)[n] = s[n + o]
    BY <2>1, WindowIn
  <2>3. s[m] \in job.bem[j].items
    BY <1>3 DEF Meets
  <2>4. Meets(j, Window(s, o, n), n)
    BY <1>3, <2>1, <2>2, <2>3 DEF Meets
  <2>5. QED  BY <2>1, <2>4
<1>4. CASE job.bem[j].type = "MID"
  <2>1. PICK k \in 1 .. m : s[k] \in job.bem[j].items
    BY <1>4 DEF Meets
  <2> DEFINE o == IF k <= n THEN 0 ELSE k - n
  <2>2. o \in Nat /\ o + n <= m /\ k - o \in 1 .. n /\ (k - o) + o = k
    BY <1>1
  <2> HIDE DEF o
  <2>3. Window(s, o, n)[k - o] = s[(k - o) + o]
    BY <2>2, WindowIn
  <2>4. Window(s, o, n)[k - o] \in job.bem[j].items
    BY <2>1, <2>2, <2>3
  <2>5. Meets(j, Window(s, o, n), n)
    BY <1>4, <2>2, <2>4 DEF Meets
  <2>6. QED  BY <2>2, <2>5
<1>5. QED  BY <1>1, <1>2, <1>3, <1>4

(* The levels go on while a sequence asked for is as long.                 *)
LEMMA GoesOnWanted ==
  ASSUME JobInv, SourceInv, CountsInv, PatternsInv, CandidatesInv, EndsInv, KnownInv, FoundInv,
         ReadInv, phase = "pairs", todo = <<>>, NEW s, Wanted(s), Len(s) >= level
  PROVE  GoesOn
<1>1. /\ s \in Seq(Items) /\ Len(s) \in Nat \ {0}
      /\ \A j \in DOMAIN job.bem : Meets(j, s, Len(s))
      /\ \A j \in Mids : Size(Places(j, s, Len(s))) \in AtLeast(j) .. job.bem[j].max
  BY WantedMeets DEF Wanted
<1>2. level \in Nat \ {0} /\ level > 1 /\ source = SourceRows /\ AllKnown(new, level)
  BY DEF CountsInv, SourceInv, KnownInv
<1>3. Frequent(Size(Reached(s)))
  BY <1>2, WantedReached
<1>4. AllFound(new, level)
  BY LevelFound
<1>5. ASSUME NEW o \in Nat, o + level <= Len(s)
      PROVE  \E k \in 1 .. Len(new) : new[k].items = Window(s, o, level) /\ Known(new[k], level)
  <2>1. Often(Window(s, o, level), level)
    BY <1>1, <1>2, <1>3, <1>5, OftenParts
  <2>2. PICK k \in 1 .. Len(new) : new[k].items = Window(s, o, level)
    BY <1>4, <2>1 DEF AllFound, Often
  <2>3. QED  BY <1>2, <2>2 DEF AllKnown
<1>6. new # <<>>
  <2>1. 0 + level <= Len(s)
    BY <1>2
  <2>2. PICK k \in 1 .. Len(new) : TRUE
    BY <1>5, <2>1
  <2>3. Len(<<>>) = 0 /\ 1 .. 0 = {}
    OBVIOUS
  <2>4. QED  BY <2>2, <2>3
<1>7. ASSUME NEW j \in DOMAIN job.bem  PROVE j \in bemCf
  <2>1. PICK o \in Nat : o + level <= Len(s) /\ Meets(j, Window(s, o, level), level)
    BY <1>1, <1>2, PartMeets
  <2> DEFINE w == Window(s, o, level)
  <2>2. PICK k \in 1 .. Len(new) : new[k].items = w /\ Known(new[k], level)
    BY <1>5, <2>1
  <2>3. /\ Size(Places(j, w, level)) <= Size(Places(j, s, Len(s)))
        /\ Size(Places(j, w, level)) \in Nat /\ Size(Places(j, s, Len(s))) \in Nat
    BY <1>1, <1>2, <2>1, WindowPlaces
  <2> HIDE DEF w
  <2>4. j \in new[k].bits
    BY <2>1, <2>2 DEF Known, BitsKnown, w
  <2>5. ASSUME j \in Mids  PROVE new[k].counts[j][1] + new[k].counts[j][2] <= job.bem[j].max
    <3>1. new[k].counts[j][1] + new[k].counts[j][2] = Size(Places(j, w, level))
      BY <1>2, <2>2, <2>5 DEF Known, CountsKnown
    <3>2. AtLeast(j) \in Nat /\ job.bem[j].max \in Nat
      BY BemTypes DEF AtLeast
    <3>3. Size(Places(j, s, Len(s))) <= job.bem[j].max
      BY <1>1, <2>3, <2>5, <3>2
    <3>4. QED  BY <2>3, <3>1, <3>2, <3>3
  <2>6. j \in StillPossible(new[k].bits, new[k].counts)
    BY <2>4, <2>5, Zenon DEF StillPossible
  <2>7. QED  BY <2>6 DEF ReadInv
<1>8. bemCf = DOMAIN job.bem
  BY <1>7 DEF ReadInv
<1>9. QED  BY <1>6, <1>8 DEF GoesOn

(* What a pattern that is not closed covers, a longer one does.            *)
LEMMA LongerCovers ==
  ASSUME JobInv, SourceInv, CountsInv, PatternsInv, CandidatesInv, EndsInv, KnownInv,
         ReadInv, phase = "pairs", NEW s, Wanted(s),
         NEW i \in (1 .. Len(patterns)) \ closed, Part(s, patterns[i].items),
         Size(patterns[i].groups) = Size(SupportOf(s))
  PROVE  Covered(s, new) /\ GoesOn
<1>1. /\ level \in Nat \ {0} /\ level > 1 /\ level # 1 /\ source = SourceRows /\ AllKnown(new, level)
      /\ LevelOf(patterns, level - 1) /\ Overlaps(patterns, level - 1)
  BY DEF CountsInv, SourceInv, KnownInv, PatternsInv, EndsInv
<1>2. PICK k \in 1 .. Len(new) :
        i \in {new[k].ids[1], new[k].ids[2]} /\ Size(new[k].groups) = Size(patterns[i].groups)
  BY DEF ReadInv
<1> DEFINE c == new[k].ids
           p == patterns[i].items
           t == new[k].items
<1>3. c \in Candidates /\ t = Extension(c)
  BY DEF CandidatesInv
<1>4. s \in Seq(Items) /\ p \in Seq(Items) /\ Len(p) = level - 1
  BY <1>1 DEF Wanted, LevelOf, OfLength
<1>5. /\ Extension(c) \in Seq(Items) /\ Len(Extension(c)) = level
      /\ \A l \in 1 .. level - 1 : Extension(c)[l] = patterns[c[1]].items[l]
  BY <1>1, <1>3, CandidateExtension
<1>6. \A l \in 1 .. level - 1 : Extension(c)[l + 1] = patterns[c[2]].items[l]
  BY <1>1, <1>3, CandidateTail
<1>7. \E o \in {0, 1} : \A l \in 1 .. level - 1 : t[l + o] = p[l]
  <2>1. CASE i = c[1]
    <3>1. \A l \in 1 .. level - 1 : l + 0 = l
      BY <1>1
    <3>2. \A l \in 1 .. level - 1 : t[l + 0] = p[l]
      BY <1>3, <1>5, <2>1, <3>1
    <3>3. QED  BY <3>2
  <2>2. CASE i = c[2]
    <3>1. \A l \in 1 .. level - 1 : t[l + 1] = p[l]
      BY <1>3, <1>6, <2>2
    <3>2. QED  BY <3>1
  <2>3. QED  BY <1>2, <2>1, <2>2
<1>8. Part(s, t)
  <2>1. PICK o \in {0, 1} : \A l \in 1 .. level - 1 : t[l + o] = p[l]
    BY <1>7
  <2>2. t \in Seq(Items) /\ Len(t) = Len(p) + 1 /\ \A l \in 1 .. Len(p) : t[l + o] = p[l]
    BY <1>1, <1>3, <1>4, <1>5, <2>1
  <2> HIDE DEF t, p
  <2>3. Part(s, p)
    BY DEF p
  <2>4. QED  BY <1>4, <2>2, <2>3, PartThrough
<1>9. Covered(s, new)
  <2>1. Size(new[k].groups) = Size(SupportOf(s))
    BY <1>2
  <2>2. QED  BY <1>8, <2>1 DEF Covered
<1>10. new[k].groups # {}
  <2>1. SupportOf(s) # {} /\ IsFiniteSet(SupportOf(s))
    <3>1. SupportOf(s) \subseteq Groups
      BY DEF SupportOf
    <3>2. IsFiniteSet(SupportOf(s))
      BY <3>1, FS_Subset, SequenceAssumption
    <3>3. QED  BY <3>2 DEF Wanted
  <2>2. Size(SupportOf(s)) # 0
    BY <2>1, FS_EmptySet DEF Size
  <2>3. Size({}) = 0
    BY FS_EmptySet DEF Size
  <2>4. QED  BY <1>2, <2>2, <2>3
<1>11. Holds(new[k].bits, new[k].counts)
  <2>1. Known(new[k], level)
    BY <1>1 DEF AllKnown
  <2>2. QED  BY <1>1, <1>10, <2>1 DEF Known, GroupsKnown
<1>12. new # <<>>
  <2>1. Len(<<>>) = 0 /\ 1 .. 0 = {}
    OBVIOUS
  <2>2. QED  BY <2>1
<1>13. CountsKnown(new[k], level)
  BY <1>1 DEF AllKnown, Known
<1>14. ASSUME NEW j \in Mids, active_count
       PROVE  new[k].counts[j][1] + new[k].counts[j][2] <= job.bem[j].max
  <2>1. new[k].counts[j][1] + new[k].counts[j][2] \in AtLeast(j) .. job.bem[j].max
    BY <1>11, <1>14 DEF Holds
  <2>2. AtLeast(j) \in Nat /\ job.bem[j].max \in Nat
    BY BemTypes DEF AtLeast
  <2>3. QED  BY <2>1, <2>2
<1>15. DOMAIN job.bem \subseteq StillPossible(new[k].bits, new[k].counts)
  <2>1. new[k].bits = DOMAIN job.bem
    BY <1>11 DEF Holds
  <2>2. QED  BY <1>14, <2>1, Zenon DEF StillPossible
<1>16. bemCf = DOMAIN job.bem
  BY <1>15 DEF ReadInv
<1>17. QED  BY <1>9, <1>12, <1>16 DEF GoesOn

(* Where the sequences asked for are at the end of a level.                *)
LEMMA LevelCovers ==
  ASSUME JobInv, SourceInv, CountsInv, PatternsInv, CandidatesInv, EndsInv, KnownInv, FoundInv,
         ReadInv, CoverInv, phase = "pairs", todo = <<>>,
         NEW s \in AllSequences, Wanted(s), Len(s) <= level
  PROVE  \/ Covered(s, saved)
         \/ SavesBelow /\ Covered(s, SaveAll(patterns, closed))
         \/ Covered(s, new) /\ GoesOn
<1>1. /\ level \in Nat \ {0} /\ level >= 2 /\ source = SourceRows /\ AllKnown(new, level)
      /\ LevelOf(patterns, level - 1) /\ closed \subseteq 1 .. Len(patterns)
  BY DEF CountsInv, SourceInv, KnownInv, PatternsInv, CandidatesInv
<1>2. s \in Seq(Items) /\ Len(s) \in Nat \ {0} /\ Frequent(Size(SupportOf(s)))
  BY WantedMeets DEF Wanted
<1>3. CASE Len(s) = level
  <2>1. GoesOn
    BY <1>1, <1>2, <1>3, GoesOnWanted
  <2>2. Often(s, level)
    BY <1>1, <1>2, <1>3, WantedReached DEF Often
  <2>3. PICK k \in 1 .. Len(new) : new[k].items = s
    BY <1>2, <2>2, LevelFound DEF AllFound
  <2>4. Known(new[k], Len(s))
    BY <1>1, <1>3 DEF AllKnown
  <2>5. new[k].groups = SupportOf(s)
    BY <1>1, <2>3, <2>4, WantedGroups
  <2>6. Part(s, new[k].items)
    BY <1>2, <2>3, PartSelf
  <2>7. Covered(s, new)
    BY <2>5, <2>6 DEF Covered
  <2>8. QED  BY <2>1, <2>7
<1>4. CASE Len(s) < level /\ ~Covered(s, saved)
  <2>1. Covered(s, patterns)
    BY <1>4 DEF CoverInv
  <2>2. PICK i \in 1 .. Len(patterns) :
          Part(s, patterns[i].items) /\ Size(patterns[i].groups) = Size(SupportOf(s))
    BY <2>1 DEF Covered
  <2>3. CASE i \in closed
    <3>1. SavesBelow
      <4>1. CASE level = 2
        <5>1. Len(s) < 2
          BY <1>4, <4>1
        <5>2. \A n \in Nat \ {0} : n < 2 => n = 1
          OBVIOUS
        <5>3. Len(s) = 1
          BY <1>2, <5>1, <5>2
        <5>4. QED  BY <4>1, <5>3, WantedSingleton DEF SavesBelow
      <4>2. CASE level # 2
        <5>1. job.length[1] \in Nat /\ job.length[1] <= Len(s)
          BY SequenceAssumption DEF JobInv, Job, Wanted
        <5>2. job.length[1] < level
          BY <1>1, <1>2, <1>4, <5>1
        <5>3. QED  BY <4>2, <5>2 DEF SavesBelow
      <4>3. QED  BY <4>1, <4>2
    <3>2. Covered(s, SaveAll(patterns, closed))
      BY <1>1, <1>2, <2>2, <2>3, CoveredSaved
    <3>3. QED  BY <3>1, <3>2
  <2>4. CASE i \notin closed
    BY <2>2, <2>4, LongerCovers
  <2>5. QED  BY <2>3, <2>4
<1>5. QED  BY <1>1, <1>2, <1>3, <1>4

LEMMA EndLevelCovers ==
  ASSUME JobInv, SourceInv, CountsInv, PatternsInv, CandidatesInv, EndsInv, KnownInv, LengthInv,
         FoundInv, ReadInv, CoverInv, EndLevel
  PROVE  CoverInv'
<1> DEFINE below == IF SavesBelow THEN SaveAll(patterns, closed) ELSE <<>>
           top == IF GoesOn /\ Last /\ job.length[1] <= level
                  THEN SaveAll(new, 1 .. Len(new)) ELSE <<>>
           both == saved \o below
<1>1. /\ phase = "pairs" /\ todo = <<>> /\ job' = job
      /\ saved' = both \o top
      /\ \/ phase' = "level" /\ level' = level + 1 /\ patterns' = new
         \/ phase' = "finish" /\ (GoesOn => Last)
  BY DEF EndLevel
<1>2. /\ level \in Nat \ {0} /\ LevelOf(patterns, level - 1) /\ LevelOf(new, level)
      /\ closed \in SUBSET (1 .. Len(patterns)) /\ IsList(saved)
  BY <1>1, NewLevel DEF CountsInv, PatternsInv, CandidatesInv, CoverInv
<1>3. IsList(below)
  BY <1>2, LevelWritten, NothingWritten DEF Written
<1>4. IsList(top)
  BY <1>2, LevelWritten, NothingWritten DEF Written
<1>5. \A s : SavesBelow /\ Covered(s, SaveAll(patterns, closed)) => Covered(s, below)
  OBVIOUS
<1>6. GoesOn /\ Last /\ job.length[1] <= level => top = SaveAll(new, 1 .. Len(new))
  OBVIOUS
<1> HIDE DEF below, top
<1>7. IsList(both) /\ \A s : Covered(s, saved) \/ Covered(s, below) => Covered(s, both)
  BY <1>2, <1>3, CoveredLonger
<1> HIDE DEF both
<1>8. IsList(saved') /\ \A s : Covered(s, both) \/ Covered(s, top) => Covered(s, saved')
  BY <1>1, <1>4, <1>7, CoveredLonger
<1>9. ASSUME NEW s \in AllSequences, Wanted(s), Len(s) <= level
      PROVE  Covered(s, saved') \/ (Covered(s, new) /\ GoesOn)
  BY <1>1, <1>5, <1>7, <1>8, <1>9, LevelCovers
<1>10. \A s : Wanted(s) => Len(s) \in Nat /\ job.length[1] <= Len(s) /\ Len(s) <= job.length[2]
  BY SequenceAssumption DEF JobInv, Job, Wanted
<1>11. job.length[1] \in Nat /\ job.length[2] \in Nat
  BY SequenceAssumption DEF JobInv, Job
<1>12. ASSUME phase' = "finish", NEW s \in AllSequences, Wanted(s)  PROVE Covered(s, saved')
  <2>1. Len(s) <= level
    <3>1. ASSUME Len(s) > level  PROVE FALSE
      <4>1. Len(s) >= level
        BY <1>2, <1>10, <1>12, <3>1
      <4>2. GoesOn /\ Last
        BY <1>1, <1>12, <4>1, GoesOnWanted
      <4>3. QED  BY <1>2, <1>10, <1>11, <1>12, <3>1, <4>2 DEF Last
    <3>2. QED  BY <1>2, <1>10, <1>12, <3>1
  <2>2. CASE Covered(s, new) /\ GoesOn
    <3>1. GoesOn /\ Last /\ job.length[1] <= level
      BY <1>1, <1>2, <1>10, <1>11, <1>12, <2>1, <2>2
    <3>2. PICK i \in 1 .. Len(new) :
            Part(s, new[i].items) /\ Size(new[i].groups) = Size(SupportOf(s))
      BY <2>2 DEF Covered
    <3>3. Covered(s, SaveAll(new, 1 .. Len(new)))
      <4>1. 1 .. Len(new) \in SUBSET (1 .. Len(new)) /\ Frequent(Size(SupportOf(s)))
        BY <1>12 DEF Wanted
      <4>2. QED  BY <1>2, <3>2, <4>1, CoveredSaved
    <3>4. QED  BY <1>6, <1>8, <3>1, <3>3
  <2>3. QED  BY <1>9, <1>12, <2>1, <2>2
<1>13. /\ AllSequences' = AllSequences
       /\ \A s : Wanted(s)' <=> Wanted(s)
       /\ \A s, q : Covered(s, q)' <=> Covered(s, q)
  BY <1>1, JobFrame
<1>14. CASE phase' = "level"
  <2>1. level' = level + 1 /\ patterns' = new
    BY <1>1, <1>14
  <2>2. \A s : Wanted(s) /\ Len(s) < level + 1 => Len(s) <= level
    BY <1>2, <1>10
  <2>3. ASSUME NEW s \in AllSequences, Wanted(s), Len(s) < level'
        PROVE  Covered(s, saved') \/ Covered(s, patterns')
    BY <1>9, <2>1, <2>2, <2>3
  <2>4. QED  BY <1>8, <1>13, <1>14, <2>3 DEF CoverInv, Covered
<1>15. CASE phase' = "finish"
  BY <1>8, <1>12, <1>13, <1>15 DEF CoverInv, Covered
<1>16. QED  BY <1>1, <1>14, <1>15

LEMMA AsManySingletons ==
  Len(Singletons) = Len(Pruning1Seq) /\ Len(Singletons) \in Nat
<1> DEFINE S == {i \in Items : GroupsWith(i) # {} /\ Frequent(Size(GroupsWith(i)))}
           items == Pruning1Seq
           ps == Singletons
<1>1. S \in SUBSET Nat /\ IsFiniteSet(S)
  <2>1. S \in SUBSET Items
    OBVIOUS
  <2> HIDE DEF S
  <2>2. QED  BY <2>1, FS_Subset, SourceAssumption
<1>2. items = InOrder(S)
  BY DEF Pruning1Seq
<1> HIDE DEF S
<1>3. items \in [1 .. Size(S) -> S] /\ Size(S) \in Nat
  BY <1>1, <1>2, InOrderProperties
<1>4. ps = [k \in DOMAIN items |-> Singleton(items[k])]
  BY DEF Singletons
<1> HIDE DEF ps, items
<1>5. items = [k \in 1 .. Size(S) |-> items[k]] /\ ps = [k \in 1 .. Size(S) |-> ps[k]]
  BY <1>3, <1>4
<1>6. Len(items) = Size(S) /\ Len(ps) = Size(S)
  BY <1>3, <1>5, ListOf
<1>7. QED  BY <1>3, <1>6 DEF ps, items

(* An item asked for is among the first patterns.                          *)
LEMMA SingletonsCover ==
  ASSUME JobInv, source = SourceRows, source # {}, NEW s, Wanted(s)
  PROVE  /\ Len(Singletons) # 0
         /\ Len(s) = 1 => \E k \in 1 .. Len(Singletons) :
              Part(s, Singletons[k].items) /\ Size(Singletons[k].groups) = Size(SupportOf(s))
<1>1. s \in Seq(Items) /\ Len(s) \in Nat \ {0} /\ Frequent(Size(Reached(s)))
  BY WantedMeets, WantedReached
<1>2. AllFound(Singletons, 1) /\ AllKnown(Singletons, 1)
  BY SingletonsFound, SingletonsKnown
<1>3. Len(Singletons) # 0
  <2>1. 1 \in Nat \ {0} /\ 0 \in Nat /\ 0 + 1 <= Len(s)
    BY <1>1
  <2>2. Often(Window(s, 0, 1), 1)
    BY <1>1, <2>1, OftenParts
  <2>3. PICK k \in 1 .. Len(Singletons) : TRUE
    BY <1>2, <2>2 DEF AllFound, Often
  <2>4. 1 .. 0 = {}
    OBVIOUS
  <2>5. QED  BY <2>3, <2>4
<1>4. ASSUME Len(s) = 1
      PROVE  \E k \in 1 .. Len(Singletons) :
               Part(s, Singletons[k].items) /\ Size(Singletons[k].groups) = Size(SupportOf(s))
  <2>1. Often(s, 1)
    BY <1>1, <1>4 DEF Often
  <2>2. PICK k \in 1 .. Len(Singletons) : Singletons[k].items = s
    BY <1>1, <1>2, <2>1 DEF AllFound
  <2>3. Known(Singletons[k], Len(s))
    BY <1>2, <1>4 DEF AllKnown
  <2>4. Singletons[k].groups = SupportOf(s)
    BY <2>2, <2>3, WantedGroups
  <2>5. Part(s, Singletons[k].items)
    BY <1>1, <2>2, PartSelf
  <2>6. QED  BY <2>4, <2>5
<1>5. QED  BY <1>3, <1>4

LEMMA ExtractCovers ==
  ASSUME JobInv, SourceInv, CoverInv, ExtractSingletons
  PROVE  CoverInv'
<1> DEFINE n == Len(Singletons)
           deeper == n > 1 /\ job.length[2] > 1
<1>1. /\ phase = "singletons" /\ patterns' = Singletons /\ job' = job /\ source' = source
      /\ deeper => phase' = "level" /\ level' = 2 /\ saved' = saved
      /\ ~deeper => phase' = "finish"
      /\ ~deeper /\ SavesSingletons => saved' = saved \o SaveAll(Singletons, 1 .. n)
      /\ saved' = saved \/ saved' = saved \o SaveAll(Singletons, 1 .. n)
  BY DEF ExtractSingletons
<1>2. source = SourceRows /\ source # {} /\ IsList(saved)
  BY <1>1 DEF SourceInv, CoverInv
<1>3. n = Len(Pruning1Seq) /\ n \in Nat
  BY AsManySingletons
<1>4. LevelOf(Singletons, 1) /\ 1 .. n \in SUBSET (1 .. n)
  BY SingletonsLevel
<1> HIDE DEF n
<1>5. IsList(SaveAll(Singletons, 1 .. n))
  BY <1>4, LevelWritten DEF Written, n
<1>6. /\ IsList(saved')
      /\ \A s : ~deeper /\ SavesSingletons /\ Covered(s, SaveAll(Singletons, 1 .. n)) => Covered(s, saved')
  <2>1. IsList(saved \o SaveAll(Singletons, 1 .. n))
    BY <1>2, <1>5, CoveredLonger
  <2>2. \A s : Covered(s, SaveAll(Singletons, 1 .. n)) =>
                 Covered(s, saved \o SaveAll(Singletons, 1 .. n))
    BY <1>2, <1>5, CoveredLonger
  <2>3. QED  BY <1>1, <1>2, <2>1, <2>2
<1>7. job.length[1] \in Nat /\ job.length[2] \in Nat
  BY SequenceAssumption DEF JobInv, Job
<1>8. ASSUME NEW s, Wanted(s)
      PROVE  /\ Len(s) \in Nat \ {0} /\ Len(s) <= job.length[2] /\ n # 0
             /\ Len(s) = 1 => SavesSingletons /\ \E k \in 1 .. n :
                  Part(s, Singletons[k].items) /\ Size(Singletons[k].groups) = Size(SupportOf(s))
  <2>1. Len(s) \in Nat \ {0} /\ Len(s) <= job.length[2]
    BY <1>7, <1>8, WantedMeets DEF Wanted
  <2>2. /\ n # 0
        /\ Len(s) = 1 => \E k \in 1 .. n :
             Part(s, Singletons[k].items) /\ Size(Singletons[k].groups) = Size(SupportOf(s))
    BY <1>2, <1>8, SingletonsCover DEF n
  <2>3. Len(s) = 1 => SavesSingletons
    BY <1>8, WantedSingleton
  <2>4. QED  BY <2>1, <2>2, <2>3
<1>9. /\ AllSequences' = AllSequences
      /\ \A s : Wanted(s)' <=> Wanted(s)
      /\ \A s, q : Covered(s, q)' <=> Covered(s, q)
      /\ Pruning1Seq' = Pruning1Seq
  BY <1>1, JobFrame, FoundFrame
<1>10. CASE deeper
  <2>1. \A l \in Nat \ {0} : l < 2 => l = 1
    OBVIOUS
  <2>2. ASSUME NEW s, Wanted(s), Len(s) < 2  PROVE Covered(s, Singletons)
    <3>1. Len(s) = 1
      BY <1>8, <2>1, <2>2
    <3>2. QED  BY <1>8, <2>2, <3>1 DEF Covered, n
  <2>3. phase' = "level" /\ level' = 2
    BY <1>1, <1>10
  <2> HIDE DEF deeper
  <2>4. \A s : Covered(s, Singletons) => Covered(s, patterns')
    BY <1>1
  <2>5. \A s \in AllSequences : Wanted(s) /\ Len(s) < level' => Covered(s, patterns')
    BY <2>2, <2>3, <2>4
  <2>6. QED  BY <1>6, <1>9, <2>3, <2>5 DEF CoverInv, Covered
<1>11. CASE ~deeper
  <2>1. ASSUME job.length[2] = 1 \/ n # 1, NEW s, Wanted(s)  PROVE Covered(s, saved')
    <3>1. Len(s) = 1
      <4>1. Len(s) \in Nat \ {0} /\ Len(s) <= job.length[2] /\ n # 0
        BY <1>8, <2>1
      <4>2. job.length[2] = 1
        BY <1>3, <1>7, <1>11, <2>1, <4>1
      <4>3. \A l \in Nat \ {0} : l <= 1 => l = 1
        OBVIOUS
      <4>4. QED  BY <4>1, <4>2, <4>3
    <3>2. PICK k \in 1 .. n :
            Part(s, Singletons[k].items) /\ Size(Singletons[k].groups) = Size(SupportOf(s))
      BY <1>8, <2>1, <3>1
    <3>3. Covered(s, SaveAll(Singletons, 1 .. n))
      <4>1. Frequent(Size(SupportOf(s)))
        BY <2>1 DEF Wanted
      <4>2. QED  BY <1>4, <3>2, <4>1, CoveredSaved DEF n
    <3>4. SavesSingletons
      BY <1>8, <2>1, <3>1
    <3>5. QED  BY <1>6, <1>11, <3>3, <3>4
  <2>2. phase' = "finish"
    BY <1>1, <1>11
  <2> HIDE DEF deeper
  <2>3. job'.length[2] = 1 \/ Len(Pruning1Seq') # 1 => \A s \in AllSequences : Wanted(s) => Covered(s, saved')
    BY <1>1, <1>3, <1>9, <2>1
  <2>4. QED  BY <1>6, <1>9, <2>2, <2>3 DEF CoverInv, Covered
<1>12. QED  BY <1>10, <1>11

(* Without rows nothing is asked for.                                      *)
LEMMA NoRowsNothingWanted ==
  ASSUME JobInv, SourceRows = {}, NEW s, Wanted(s)
  PROVE  FALSE
<1>1. /\ s \in Seq(Items) /\ Len(s) \in Nat \ {0}
      /\ \A j \in DOMAIN job.bem : Meets(j, s, Len(s))
  BY WantedMeets DEF Wanted
<1>2. PICK g \in Groups : Occurrences(s, g) # {}
  BY DEF Wanted, SupportOf
<1>3. PICK f \in Occurrences(s, g) : TRUE
  BY <1>2
<1>4. SourceFilter(g)
  BY <1>1, <1>3, SupportFiltered
<1>5. 1 \in 1 .. Len(s)
  BY <1>1
<1>6. f[1] \in RowsOf(g)
  BY <1>1, <1>5, OccurrenceMeaning
<1>7. QED  BY <1>4, <1>6 DEF SourceRows

LEMMA CoverStep ==
  ASSUME JobInv, SourceInv, CountsInv, PatternsInv, CandidatesInv, EndsInv, KnownInv, LengthInv,
         FoundInv, ReadInv, CoverInv, [Next]_vars
  PROVE  CoverInv'
<1>1. /\ job' = job /\ IsList(saved)
      /\ AllSequences' = AllSequences
      /\ \A s : Wanted(s)' <=> Wanted(s)
      /\ \A s, q : Covered(s, q)' <=> Covered(s, q)
  BY JobKept, JobFrame DEF CoverInv
<1>2. CASE ExtractSingletons
  BY <1>2, ExtractCovers
<1>3. CASE EndLevel
  BY <1>3, EndLevelCovers
<1>4. CASE CreateSource
  <2>1. saved' = saved /\ source' = SourceRows /\ phase' = IF source' = {} THEN "finish" ELSE "number"
    BY <1>4 DEF CreateSource, SourceRows
  <2>2. phase' = "finish" => \A s : ~Wanted(s)
    BY <2>1, NoRowsNothingWanted
  <2>3. phase' \in {"finish", "number"}
    BY <2>1
  <2>4. QED  BY <1>1, <2>1, <2>2, <2>3 DEF CoverInv
<1>5. CASE StartLevel \/ ReadCandidate \/ Finish \/ UNCHANGED vars
  <2>1. /\ saved' = saved /\ source' = source /\ level' = level /\ patterns' = patterns
        /\ phase' \in {"level", "pairs"} => phase \in {"level", "pairs"}
        /\ phase' \in {"finish", "done"} => phase \in {"finish", "done"}
    BY <1>5 DEF StartLevel, ReadCandidate, Finish, vars, memory
  <2>2. Pruning1Seq' = Pruning1Seq
    BY <1>1, <2>1, FoundFrame
  <2>3. QED  BY <1>1, <2>1, <2>2 DEF CoverInv, Covered
<1>6. CASE Start \/ FailSource \/ Kill \/ Again \/ CreateNumbers \/ DropNumbers
  <2>1. /\ phase' \notin {"level", "pairs", "finish", "done"}
        /\ saved' = saved \/ saved' = <<>>
    BY <1>6 DEF Start, CreateResultTables, FailSource, Fail, Kill, Again, CreateNumbers, DropNumbers
  <2>2. IsList(saved')
    BY <1>1, <2>1, NothingWritten
  <2>3. QED  BY <2>1, <2>2 DEF CoverInv
<1>7. QED  BY <1>2, <1>3, <1>4, <1>5, <1>6 DEF Next, Mine

(* Every sequence the minerule asks for is part of one that is written     *)
(* with as many groups, for any source table and minerule of which not     *)
(* just one item is frequent: no level loses a frequent sequence, the      *)
(* count of the conditions that are still possible never ends the levels   *)
(* before the last one that has a sequence asked for, and a pattern is     *)
(* only kept back if a longer one with as many groups takes its place      *)
(* (STSMiner::mineRules, pruningSeqK, saveSequenceData).                   *)
THEOREM WritesAll == Spec => []Complete
<1> DEFINE Inv == /\ JobInv /\ SourceInv /\ CountsInv /\ PatternsInv /\ CandidatesInv /\ EndsInv
                  /\ KnownInv /\ LengthInv /\ FoundInv /\ ReadInv /\ CoverInv
<1>1. Init => Inv
  BY NothingWritten
  DEF Init, JobInv, SourceInv, CountsInv, PatternsInv, CandidatesInv, EndsInv, KnownInv, LengthInv,
      FoundInv, ReadInv, CoverInv
<1>2. Inv /\ [Next]_vars => Inv'
  BY JobStep, SourceStep, CountsStep, PatternsStep, CandidatesStep, EndsStep, KnownStep, LengthStep,
     FoundStep, ReadStep, CoverStep
<1>3. Inv => Complete
  <2>1. ASSUME JobInv, CoverInv, phase = "done", job.length[2] = 1 \/ Len(Pruning1Seq) # 1,
               NEW s \in AllSequences,
               Satisfies(s), SupportOf(s) # {}, Frequent(Size(SupportOf(s)))
        PROVE  \E i \in DOMAIN saved :
                 Part(s, saved[i].items) /\ Size(saved[i].groups) = Size(SupportOf(s))
    <3>1. s \in Seq(Items) /\ Len(s) \in job.length[1] .. job.length[2]
      <4>1. PICK n \in job.length[1] .. job.length[2] : s \in [1 .. n -> Items]
        BY <2>1 DEF AllSequences
      <4>2. n \in Nat
        BY <2>1, <4>1, SequenceAssumption DEF JobInv, Job
      <4>3. s \in Seq(Items) /\ Len(s) = n
        BY <4>1, <4>2
      <4>4. QED  BY <4>1, <4>3
    <3>2. Wanted(s)
      BY <2>1, <3>1 DEF Wanted
    <3>3. Covered(s, saved)
      BY <2>1, <3>2 DEF CoverInv
    <3>4. DOMAIN saved = 1 .. Len(saved)
      BY <2>1, ListDomain DEF CoverInv
    <3>5. QED  BY <3>3, <3>4 DEF Covered
  <2>2. QED  BY <2>1 DEF Complete
<1>4. QED  BY <1>1, <1>2, <1>3, PTL DEF Spec

-----------------------------------------------------------------------------
(* What a run leaves, its successors find: the steps of a run are a        *)
(* function of the source table and the minerule.  The operators of        *)
(* SequenceMining, for the source rows and the patterns ps of level n - 1. *)
Mining == {"singletons", "level", "pairs"}

GroupsOf(i) == {r.gid : r \in {s \in SourceRows : s.item = i}}
FirstItems == InOrder({i \in Items : GroupsOf(i) # {} /\ Frequent(Size(GroupsOf(i)))})
FirstPattern(i) ==
  [items |-> <<i>>, ids |-> <<0, 0>>, ends |-> {}, bits |-> Bits(i),
   groups |-> IF Bits(i) = DOMAIN job.bem THEN GroupsOf(i) ELSE {},
   counts |-> [j \in DOMAIN job.bem |-> IF j \in Bits(i) \cap Mids THEN <<1, 1>> ELSE <<0, 0>>]]
FirstPatterns == [k \in DOMAIN FirstItems |-> FirstPattern(FirstItems[k])]

RowsFollowing(i, j) ==
  {r \in SourceRows : r.item = j /\ \E s \in SourceRows : s.item = i /\ s.gid = r.gid /\ Gap(s, r)}
PairsOf(n, ps) ==
  {c \in (DOMAIN ps) \X (DOMAIN ps) :
     IF n = 2 THEN RowsFollowing(ps[c[1]].items[1], ps[c[2]].items[1]) # {}
     ELSE ps[c[1]].ids[2] = ps[c[2]].ids[1]}
CountsOf(n, p, q) ==
  [j \in DOMAIN job.bem |->
     IF n = 2 THEN <<IF j \in Mids \cap p.bits THEN 1 ELSE 0, IF j \in Mids \cap q.bits THEN 1 ELSE 0>>
     ELSE <<p.counts[j][1] + p.counts[j][2], q.counts[j][2]>>]
PatternOf(n, p, q, c) ==
  LET ends == IF n = 2 THEN EndsOf(RowsFollowing(p.items[1], q.items[1])) ELSE CheckPosLists(p, q)
      bits == InferBits(p, q)
      counts == CountsOf(n, p, q)
  IN [items |-> Append(p.items, q.items[Len(q.items)]), ids |-> c, ends |-> ends, bits |-> bits,
      groups |-> IF Holds(bits, counts) THEN {e.gid : e \in ends} ELSE {}, counts |-> counts]
KeptAt(n, p) == Frequent(IF n = 2 THEN Size(p.ends) ELSE Size({e.gid : e \in p.ends}))

(* Where a run is, and where it goes next.                                 *)
Point(ph, n, ps, qs, cs, b) ==
  [phase |-> ph, level |-> n, patterns |-> ps, new |-> qs, todo |-> cs, bemCf |-> b]
Here == Point(phase, level, patterns, new, todo, bemCf)
Begun(ph) == Point(ph, 1, <<>>, <<>>, <<>>, {})
First == Begun("singletons")

AfterSingletons(u) ==
  LET deeper == Len(FirstPatterns) > 1 /\ job.length[2] > 1
  IN Point(IF deeper THEN "level" ELSE "finish", IF deeper THEN 2 ELSE 1, FirstPatterns,
           u.new, u.todo, u.bemCf)
AfterStart(u) == Point("pairs", u.level, u.patterns, <<>>, Listed[PairsOf(u.level, u.patterns)], {})
AfterCandidate(u) ==
  LET c == Head(u.todo)
      p == PatternOf(u.level, u.patterns[c[1]], u.patterns[c[2]], c)
  IN Point("pairs", u.level, u.patterns, IF KeptAt(u.level, p) THEN Append(u.new, p) ELSE u.new,
           Tail(u.todo), u.bemCf \cup StillPossible(p.bits, p.counts))
AfterLevel(u) ==
  LET goesOn == u.new # <<>> /\ u.bemCf = DOMAIN job.bem
      last == goesOn /\ u.level = job.length[2]
  IN Point(IF goesOn /\ ~last THEN "level" ELSE "finish", IF goesOn /\ ~last THEN u.level + 1 ELSE u.level,
           IF last THEN <<>> ELSE u.new, <<>>, u.todo, u.bemCf)
After(u) ==
  IF u.phase = "singletons" THEN AfterSingletons(u)
  ELSE IF u.phase = "level" THEN AfterStart(u)
  ELSE IF u.todo # <<>> THEN AfterCandidate(u) ELSE AfterLevel(u)

(* A run that is at u comes to v.                                          *)
ClosedUnder(S) == \A u \in S : u.phase \in Mining => After(u) \in S
Leads(u, v) == \A S : u \in S /\ ClosedUnder(S) => v \in S

LEMMA PointFields ==
  ASSUME NEW ph, NEW n, NEW ps, NEW qs, NEW cs, NEW b
  PROVE  /\ Point(ph, n, ps, qs, cs, b).phase = ph /\ Point(ph, n, ps, qs, cs, b).level = n
         /\ Point(ph, n, ps, qs, cs, b).patterns = ps /\ Point(ph, n, ps, qs, cs, b).new = qs
         /\ Point(ph, n, ps, qs, cs, b).todo = cs /\ Point(ph, n, ps, qs, cs, b).bemCf = b
BY DEF Point

LEMMA LeadsSelf ==
  ASSUME NEW u
  PROVE  Leads(u, u)
BY DEF Leads

LEMMA LeadsFurther ==
  ASSUME NEW u, NEW v, Leads(u, v), v.phase \in Mining
  PROVE  Leads(u, After(v))
BY DEF Leads, ClosedUnder

(* There is one way only.                                                  *)
LEMMA LeadsThrough ==
  ASSUME NEW u, NEW v, Leads(u, v), u # v, u.phase \in Mining
  PROVE  Leads(After(u), v)
<1>1. ASSUME NEW S, After(u) \in S, ClosedUnder(S)
      PROVE  v \in S
  <2>1. u \in S \cup {u} /\ ClosedUnder(S \cup {u})
    BY <1>1 DEF ClosedUnder
  <2>2. v \in S \cup {u}
    BY <2>1 DEF Leads
  <2>3. QED  BY <2>2
<1>2. QED  BY <1>1 DEF Leads

LEMMA LeadsNowhere ==
  ASSUME NEW u, NEW v, Leads(u, v), u.phase \notin Mining
  PROVE  v = u
<1>1. u \in {u} /\ ClosedUnder({u})
  BY DEF ClosedUnder
<1>2. v \in {u}
  BY <1>1 DEF Leads
<1>3. QED  BY <1>2
LEMMA WayKept ==
  ASSUME job' = job
  PROVE  \A u, v : Leads(u, v)' <=> Leads(u, v)
<1>1. SourceRows' = SourceRows
  BY DEF SourceRows, RowsOf, SourceFilter
<1>2. \A i : GroupsOf(i)' = GroupsOf(i)
  BY <1>1 DEF GroupsOf
<1>3. \A n : Frequent(n)' <=> Frequent(n)
  BY DEF Frequent, grpId_count
<1>4. \A i : Bits(i)' = Bits(i)
  BY DEF Bits
<1>5. Mids' = Mids /\ \A j : AtLeast(j)' = AtLeast(j)
  BY DEF Mids, AtLeast
<1>6. active_count' <=> active_count
  BY <1>5 DEF active_count
<1>7. \A b, c : /\ Holds(b, c)' <=> Holds(b, c)
                /\ StillPossible(b, c)' = StillPossible(b, c)
  BY <1>5, <1>6 DEF Holds, StillPossible
<1>8. \A p, q : Gap(p, q)' <=> Gap(p, q)
  BY DEF Gap, At
<1>9. FirstPatterns' = FirstPatterns
  <2>1. FirstItems' = FirstItems
    BY <1>2, <1>3 DEF FirstItems
  <2>2. \A i : FirstPattern(i)' = FirstPattern(i)
    BY <1>2, <1>4, <1>5 DEF FirstPattern
  <2>3. QED  BY <2>1, <2>2 DEF FirstPatterns
<1>10. \A i, j : RowsFollowing(i, j)' = RowsFollowing(i, j)
  BY <1>1, <1>8 DEF RowsFollowing
<1>11. \A n, ps : PairsOf(n, ps)' = PairsOf(n, ps)
  BY <1>10 DEF PairsOf
<1>12. \A n, p, q : CountsOf(n, p, q)' = CountsOf(n, p, q)
  BY <1>5 DEF CountsOf
<1>13. \A p, q : CheckPosLists(p, q)' = CheckPosLists(p, q) /\ InferBits(p, q)' = InferBits(p, q)
  BY <1>5, <1>8 DEF CheckPosLists, InferBits, At
<1>14. \A n, p, q, c : PatternOf(n, p, q, c)' = PatternOf(n, p, q, c)
  <2> TAKE n, p, q, c
  <2>1. /\ InferBits(p, q)' = InferBits(p, q) /\ CountsOf(n, p, q)' = CountsOf(n, p, q)
        /\ CheckPosLists(p, q)' = CheckPosLists(p, q)
        /\ RowsFollowing(p.items[1], q.items[1])' = RowsFollowing(p.items[1], q.items[1])
    BY <1>10, <1>12, <1>13
  <2>2. Holds(InferBits(p, q), CountsOf(n, p, q))' <=> Holds(InferBits(p, q), CountsOf(n, p, q))
    BY <1>7, <2>1
  <2>3. EndsOf(RowsFollowing(p.items[1], q.items[1]))' = EndsOf(RowsFollowing(p.items[1], q.items[1]))
    BY <2>1 DEF EndsOf
  <2>4. QED  BY <2>1, <2>2, <2>3 DEF PatternOf
<1>15. \A n, p : KeptAt(n, p)' <=> KeptAt(n, p)
  BY <1>3 DEF KeptAt
<1>16. \A u : AfterSingletons(u)' = AfterSingletons(u)
  BY <1>9 DEF AfterSingletons, Point
<1>17. \A u : AfterStart(u)' = AfterStart(u)
  BY <1>11 DEF AfterStart, Point
<1>18. \A u : AfterCandidate(u)' = AfterCandidate(u)
  BY <1>7, <1>14, <1>15 DEF AfterCandidate, Point
<1>19. \A u : AfterLevel(u)' = AfterLevel(u)
  BY DEF AfterLevel, Point
<1>20. \A u : After(u)' = After(u)
  BY <1>16, <1>17, <1>18, <1>19 DEF After
<1>21. \A S : ClosedUnder(S)' <=> ClosedUnder(S)
  BY <1>20 DEF ClosedUnder
<1>22. QED  BY <1>21 DEF Leads

(* The steps of the run go that way.                                       *)
LEMMA StepsAfter ==
  ASSUME CountsInv, SourceInv, ExtractSingletons \/ StartLevel \/ ReadCandidate \/ EndLevel
  PROVE  phase \in Mining /\ Here' = After(Here)
<1>1. source = SourceRows /\ phase \in Mining
  BY DEF SourceInv, Mining, ExtractSingletons, StartLevel, ReadCandidate, EndLevel
<1>2. \A i : GroupsWith(i) = GroupsOf(i)
  BY <1>1 DEF GroupsWith, GroupsOf
<1>3. CASE ExtractSingletons
  <2>1. Singletons = FirstPatterns
    <3>1. Pruning1Seq = FirstItems
      BY <1>2 DEF Pruning1Seq, FirstItems
    <3>2. \A i : Singleton(i) = FirstPattern(i)
      BY <1>2 DEF Singleton, FirstPattern
    <3>3. QED  BY <3>1, <3>2 DEF Singletons, FirstPatterns
  <2>2. /\ phase = "singletons" /\ patterns' = FirstPatterns /\ new' = new /\ todo' = todo /\ bemCf' = bemCf
        /\ phase' = IF Len(FirstPatterns) > 1 /\ job.length[2] > 1 THEN "level" ELSE "finish"
        /\ level' = IF Len(FirstPatterns) > 1 /\ job.length[2] > 1 THEN 2 ELSE 1
    BY <1>3, <2>1 DEF ExtractSingletons
  <2>3. QED  BY <1>1, <2>2 DEF Here, After, AfterSingletons, Point
<1>4. \A i, j : Following(i, j) = RowsFollowing(i, j)
  BY <1>1 DEF Following, RowsFollowing
<1>5. CASE StartLevel
  <2>1. Candidates = PairsOf(level, patterns)
    BY <1>4 DEF Candidates, IsCandidate, PairsOf
  <2>2. /\ phase = "level" /\ todo' = Listed[PairsOf(level, patterns)] /\ new' = <<>> /\ bemCf' = {}
        /\ phase' = "pairs" /\ level' = level /\ patterns' = patterns
    BY <1>5, <2>1 DEF StartLevel
  <2>3. QED  BY <1>1, <2>2 DEF Here, After, AfterStart, Point
<1>6. CASE ReadCandidate
  <2>1. \A p, q, c : Extended(p, q, c) = PatternOf(level, p, q, c)
    BY <1>4 DEF Extended, PatternOf, InferCounts, CountsOf
  <2>2. \A p : Kept(p) <=> KeptAt(level, p)
    BY DEF Kept, KeptAt
  <2> DEFINE c == Head(todo)
             p == PatternOf(level, patterns[c[1]], patterns[c[2]], c)
  <2>3. /\ phase = "pairs" /\ todo # <<>> /\ todo' = Tail(todo)
        /\ bemCf' = bemCf \cup StillPossible(p.bits, p.counts)
        /\ new' = IF KeptAt(level, p) THEN Append(new, p) ELSE new
        /\ phase' = phase /\ level' = level /\ patterns' = patterns
    BY <1>6, <2>1, <2>2 DEF ReadCandidate
  <2>4. QED  BY <1>1, <2>3 DEF Here, After, AfterCandidate, Point
<1>7. CASE EndLevel
  <2>1. /\ phase = "pairs" /\ todo = <<>> /\ todo' = todo /\ bemCf' = bemCf /\ new' = <<>>
        /\ patterns' = IF GoesOn /\ Last THEN <<>> ELSE new
        /\ IF GoesOn /\ ~(GoesOn /\ Last) THEN level' = level + 1 /\ phase' = "level"
           ELSE level' = level /\ phase' = "finish"
    BY <1>7 DEF EndLevel
  <2>2. QED  BY <1>1, <2>1 DEF Here, After, AfterLevel, Point, GoesOn, Last
<1>8. QED  BY <1>1, <1>3, <1>5, <1>6, <1>7
(* A run comes to create the table _Seqk.                                  *)
Will(u, k) == \E v : Leads(u, v) /\ v.phase = "level" /\ v.level = k

(* Every table there is can be made by a run, and one that was left is     *)
(* still ahead of the run at hand.                                         *)
Beginning == {"start", "source", "failed"}
RunInv ==
  /\ phase \in Beginning \cup {"number", "numbered", "singletons"} => Here = Begun(phase)
  /\ phase \in Mining => Leads(First, Here)
MadeInv ==
  \A k \in tables :
    /\ k # SourceTable => SourceRows # {}
    /\ k \notin {SourceTable, GroupNumbers} => Will(First, k)
AheadInv ==
  \A k \in LeftTables :
    \/ phase \in Beginning
    \/ phase = "number" /\ k # SourceTable
    \/ phase = "numbered" /\ k \notin {SourceTable, GroupNumbers}
    \/ phase \in Mining /\ k \notin {SourceTable, GroupNumbers} /\ Will(Here, k)

LEMMA RunStep ==
  ASSUME CountsInv, SourceInv, RunInv, [Next]_vars
  PROVE  RunInv'
<1> USE DEF Beginning, Mining
<1>1. /\ job' = job
      /\ \A u, v : Leads(u, v)' <=> Leads(u, v)
      /\ First' = First
  BY JobKept, WayKept DEF First, Begun, Point
<1>2. CASE UNCHANGED vars
  BY <1>1, <1>2 DEF vars, memory, RunInv, Here, Point
<1>3. CASE Start \/ CreateNumbers \/ Again
  BY <1>1, <1>3 DEF Start, CreateNumbers, Again, memory, RunInv, Here, First, Begun, Point
<1>4. CASE CreateSource
  BY <1>1, <1>4 DEF CreateSource, RunInv, Here, First, Begun, Point
<1>5. CASE DropNumbers
  <2>1. Here' = First' /\ phase' = "singletons"
    BY <1>1, <1>5 DEF DropNumbers, memory, RunInv, Here, First, Begun, Point
  <2>2. QED  BY <1>1, <2>1, LeadsSelf DEF RunInv, First, Begun, Point
<1>6. CASE FailSource \/ Kill
  <2>1. /\ phase' \in {"failed", "start"} /\ level' = 1 /\ patterns' = <<>> /\ new' = <<>>
        /\ todo' = <<>> /\ bemCf' = {}
    BY <1>6 DEF FailSource, Fail, Kill, Forget
  <2>2. Here' = Begun(phase')
    BY <2>1 DEF Here, First, Begun, Point
  <2>3. QED  BY <1>1, <2>1, <2>2 DEF RunInv
<1>7. CASE ExtractSingletons \/ StartLevel \/ ReadCandidate \/ EndLevel
  <2>1. phase \in Mining /\ Here' = After(Here) /\ Here.phase = phase
    BY <1>7, StepsAfter DEF Here, Point
  <2>2. Leads(First, Here')
    BY <2>1, LeadsFurther DEF RunInv
  <2>3. phase' \in {"level", "pairs", "finish"}
    BY <1>7 DEF ExtractSingletons, StartLevel, ReadCandidate, EndLevel
  <2>4. QED  BY <1>1, <2>2, <2>3 DEF RunInv
<1>8. CASE Finish
  BY <1>1, <1>8 DEF Finish, RunInv
<1>9. QED  BY <1>2, <1>3, <1>4, <1>5, <1>6, <1>7, <1>8 DEF Next, Mine

LEMMA MadeStep ==
  ASSUME CountsInv, SourceInv, RunInv, MadeInv, [Next]_vars
  PROVE  MadeInv'
<1>1. /\ SourceRows' = SourceRows
      /\ \A u, k : Will(u, k)' <=> Will(u, k)
      /\ First' = First
  <2>1. job' = job /\ \A u, v : Leads(u, v)' <=> Leads(u, v)
    BY JobKept, WayKept
  <2>2. SourceRows' = SourceRows
    BY <2>1 DEF SourceRows, RowsOf, SourceFilter
  <2>3. \A u, k : Will(u, k)' <=> Will(u, k)
    BY <2>1 DEF Will
  <2>4. QED  BY <2>2, <2>3 DEF First, Begun, Point
<1>2. CASE tables' \subseteq tables
  BY <1>1, <1>2 DEF MadeInv
<1>3. CASE CreateSource
  BY <1>1, <1>3 DEF CreateSource, MadeInv
<1>4. CASE CreateNumbers
  BY <1>1, <1>4 DEF CreateNumbers, MadeInv, SourceInv
<1>5. CASE StartLevel
  <2>1. phase = "level" /\ tables' = tables \cup {level}
    BY <1>5 DEF StartLevel
  <2>2. Will(First, level)
    BY <2>1 DEF Will, RunInv, Here, Point, Mining
  <2>3. SourceRows # {}
    BY <2>1 DEF SourceInv
  <2>4. QED  BY <1>1, <2>1, <2>2, <2>3 DEF MadeInv
<1>6. CASE ~(CreateSource \/ CreateNumbers \/ StartLevel)
  <2>1. tables' \subseteq tables
    BY <1>6 DEF Next, Mine, vars, Start, DropNumbers, FailSource, Fail, DropResultsTables, ExtractSingletons,
       ReadCandidate, EndLevel, Finish, Kill, Again
  <2>2. QED  BY <1>2, <2>1
<1>7. QED  BY <1>3, <1>4, <1>5, <1>6

LEMMA AheadStep ==
  ASSUME CountsInv, SourceInv, RunInv, MadeInv, AheadInv, [Next]_vars
  PROVE  AheadInv'
<1>1. CASE FailSource \/ Kill
  <2>1. phase' \in Beginning
    BY <1>1 DEF FailSource, Fail, Kill, Beginning
  <2>2. QED  BY <2>1 DEF AheadInv
<1>2. CASE ~FailSource /\ ~Kill
  <2>1. LeftTables' \subseteq LeftTables
    BY <1>2, NoneLeft
  <2>2. \A u, v : Leads(u, v)' <=> Leads(u, v)
    BY JobKept, WayKept
  <2> USE DEF Beginning, Mining
  <2>3. CASE UNCHANGED vars
    <3>1. phase' = phase /\ Here' = Here
      BY <2>3 DEF vars, memory, Here, Point
    <3>2. QED  BY <2>1, <2>2, <3>1 DEF AheadInv, Will
  <2>4. CASE Start \/ Again
    BY <2>4 DEF Start, Again, AheadInv
  <2>5. CASE CreateSource
    <3>1. /\ phase' = IF SourceRows = {} THEN "finish" ELSE "number"
          /\ SourceTable \notin tables
      BY <2>5 DEF CreateSource, SourceRows
    <3>2. \A k \in LeftTables : k \in tables /\ k # SourceTable /\ SourceRows # {}
      BY <3>1 DEF LeftTables, MadeInv
    <3>3. QED  BY <2>1, <3>1, <3>2 DEF AheadInv
  <2>6. CASE CreateNumbers
    <3>1. phase = "number" /\ phase' = "numbered" /\ GroupNumbers \notin LeftTables
      BY <2>6 DEF CreateNumbers, LeftTables
    <3>2. QED  BY <2>1, <3>1 DEF AheadInv
  <2>7. CASE DropNumbers
    <3>1. phase = "numbered" /\ phase' = "singletons" /\ Here' = First
      BY <2>7 DEF DropNumbers, memory, RunInv, Here, First, Begun, Point
    <3>2. \A k \in LeftTables : k \in tables /\ k \notin {SourceTable, GroupNumbers}
      BY <3>1 DEF AheadInv, LeftTables
    <3>3. \A k \in LeftTables : Will(First, k)
      BY <3>2 DEF MadeInv
    <3>4. QED  BY <2>1, <2>2, <3>1, <3>2, <3>3 DEF AheadInv, Will
  <2>8. CASE ExtractSingletons \/ StartLevel \/ ReadCandidate \/ EndLevel
    <3>1. phase \in Mining /\ Here' = After(Here) /\ Here.phase = phase /\ Here.level = level
          /\ Here'.phase = phase'
      BY <2>8, StepsAfter DEF Here, Point
    <3>2. ASSUME NEW k \in LeftTables'
          PROVE  k \notin {SourceTable, GroupNumbers} /\ Will(Here', k) /\ phase' \in Mining
      <4>1. k \in LeftTables /\ k \in tables
        BY <2>1 DEF LeftTables
      <4>2. k \notin {SourceTable, GroupNumbers} /\ Will(Here, k)
        BY <3>1, <4>1 DEF AheadInv
      <4>3. PICK v : Leads(Here, v) /\ v.phase = "level" /\ v.level = k
        BY <4>2 DEF Will
      <4>4. v # Here
        <5>1. ASSUME v = Here  PROVE FALSE
          <6>1. phase = "level" /\ level = k
            BY <3>1, <4>3, <5>1
          <6>2. StartLevel
            BY <2>8, <6>1 DEF ExtractSingletons, ReadCandidate, EndLevel
          <6>3. QED  BY <4>1, <6>1, <6>2 DEF StartLevel
        <5>2. QED  BY <5>1
      <4>5. Leads(Here', v)
        BY <3>1, <4>3, <4>4, LeadsThrough
      <4>6. phase' \in Mining
        BY <3>1, <4>3, <4>5, LeadsNowhere
      <4>7. QED  BY <4>2, <4>3, <4>5, <4>6 DEF Will
    <3>3. QED  BY <2>2, <3>2 DEF AheadInv, Will
  <2>9. CASE Finish
    BY <2>1, <2>9 DEF Finish, AheadInv
  <2>10. QED  BY <1>2, <2>3, <2>4, <2>5, <2>6, <2>7, <2>8, <2>9 DEF Next, Mine
<1>3. QED  BY <1>1, <1>2

(* A run that gets to its end leaves no table behind, and has dropped or   *)
(* failed on all that killed runs left: each of those it would have made   *)
(* itself (STSMiner::mineRules).                                           *)
THEOREM LeavesNothing == Spec => []NothingLeft
<1> DEFINE Inv == CountsInv /\ SourceInv /\ RunInv /\ MadeInv /\ AheadInv
<1>1. Init => Inv
  <2>1. ASSUME Init  PROVE Inv
    <3>1. phase = "start" /\ tables = {} /\ CountsInv /\ SourceInv
      BY <2>1 DEF Init, CountsInv, SourceInv
    <3>2. RunInv
      BY <2>1 DEF Init, RunInv, Here, First, Begun, Point, Mining
    <3>3. MadeInv /\ AheadInv
      BY <3>1 DEF MadeInv, AheadInv, LeftTables
    <3>4. QED  BY <3>1, <3>2, <3>3
  <2>2. QED  BY <2>1
<1>2. Inv /\ [Next]_vars => Inv'
  BY CountsStep, SourceStep, RunStep, MadeStep, AheadStep
<1>3. Inv => NothingLeft
  <2>1. ASSUME Inv, phase = "done"  PROVE tables = {}
    <3>1. LeftTables = tables
      BY <2>1 DEF LeftTables, OwnTables
    <3>2. LeftTables = {}
      BY <2>1 DEF AheadInv, Beginning, Mining
    <3>3. QED  BY <3>1, <3>2
  <2>2. QED  BY <2>1 DEF NothingLeft
<1>4. QED  BY <1>1, <1>2, <1>3, PTL DEF Spec
=============================================================================
