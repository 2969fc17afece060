---------------------------- MODULE QueryNormalizer ----------------------------
(***************************************************************************)
(* QueryNormalizer, which rewrites a MINE RULE before it is compared with  *)
(* the past ones: attributes that are a key equivalent to a reference key  *)
(* give way to that key, in the attribute lists and in the conditions;     *)
(* then redundant predicates are removed and strict comparisons relaxed.   *)
(*                                                                         *)
(* The equivalences come from mr_eq_keys.  Columns are of a string type,   *)
(* and a value is the rank of a string; 0 is the empty string, which       *)
(* PQgetvalue makes of a NULL.                                             *)
(***************************************************************************)
EXTENDS Ordering, SequencesExt

CONSTANTS
  Columns,  \* numbers, in the order of the names
  Jobs      \* a table, the rows of mr_eq_keys about it, and a minerule

Ops == {"<", "<=", "=", ">=", ">", "<>"}
Sides == {"BODY", "HEAD", ""}
Attribute == [prefix : Sides, col : Columns]
Pred == [attr : Attribute, op : Ops \cup {""}, value : Nat, other : Seq(Attribute)]
TextPred == [attr : Attribute, op : Ops, value : Nat, other : Seq(Attribute), left : BOOLEAN]
Condition == Seq(Seq(Pred))   \* <<>> is no condition
Mapping == [cols : SUBSET Columns, ref : SUBSET Columns, order : {"Equal", "Reversed", "None"}]
Job == [rows : SUBSET [Columns -> Nat],
        keys : Seq([col : Columns, ref : Nat, order : {"Equal", "Reversed", "None"}]),
        refs : Seq(SUBSET Columns),
        lists : Seq(SUBSET Columns), conditions : Seq(Seq(Seq(TextPred)))]

ASSUME JobsAssumption ==
  /\ Jobs \subseteq Job /\ Columns \subseteq Nat /\ IsFiniteSet(Columns)
  /\ \A j \in Jobs : IsFiniteSet(j.rows) /\ \A i \in DOMAIN j.keys : j.keys[i].ref \in DOMAIN j.refs

VARIABLES
  job, phase,
  mappings,     \* the entry of the table in the catalogue of equivalent keys
  lists,        \* ga, ca, ra, ba and ha
  conditions,   \* mc, gc and cc
  work,         \* the places of the AND lists that are still to be rewritten
  prefixes,     \* the prefixes left for the first one
  x, y,         \* the predicates compactPredicates is looking at
  freed,        \* whether Xattr and Xvalue point to strings it has deleted
  misread       \* whether such an Xattr was ever taken for that of another predicate

reads == <<freed, misread>>
vars == <<job, phase, mappings, lists, conditions, work, prefixes, x, y, reads>>

TypeOK ==
  /\ phase \in {"start", "lists", "substitute", "compact", "relax", "clean",
                "done", "failed", "aborted"}
  /\ mappings \in Seq(Mapping) /\ lists \in Seq(SUBSET Columns)
  /\ conditions \in Seq(Condition) /\ Len(conditions) = Len(job.conditions)
  /\ \A k \in DOMAIN work :
       work[k][1] \in DOMAIN conditions /\ work[k][2] \in DOMAIN conditions[work[k][1]]
  /\ prefixes \in Seq(Sides) /\ freed \in BOOLEAN /\ misread \in BOOLEAN
  /\ phase = "compact" =>
       LET l == conditions[work[1][1]][work[1][2]] IN x \in 1 .. Len(l) + 1 /\ y \in x + 1 .. Len(l) + 2

-----------------------------------------------------------------------------
Compare(u, op, v) ==
  CASE op = "<" -> u < v [] op = "<=" -> u <= v [] op = "=" -> u = v
    [] op = ">=" -> u >= v [] op = ">" -> u > v [] OTHER -> u # v

IsLiteral(p) == p.other = <<>>

(* initialize: consecutive rows with the same reference are one key.       *)
KeyStarts(keys) == {i \in 1 .. Len(keys) : i = 1 \/ keys[i].ref # keys[i - 1].ref}
LoadMappings(j) ==
  LET keys == j.keys
      starts == InOrder(KeyStarts(keys))
  IN [k \in DOMAIN starts |->
        [cols |-> {keys[i].col : i \in {n \in starts[k] .. Len(keys) :
                                          k = Len(starts) \/ n < starts[k + 1]}},
         ref |-> j.refs[keys[starts[k]].ref], order |-> keys[starts[k]].order]]

(* The parser turns predicates around that have their literal on the left. *)
Turned(p) ==
  CASE p.op = ">" -> IF p.attr.prefix = "" THEN "" ELSE "<"
    [] p.op = ">=" -> "<=" [] p.op = "<" -> ">" [] p.op = "<=" -> ">=" [] OTHER -> ""
Parsed(p) == [attr |-> p.attr, op |-> IF p.left THEN Turned(p) ELSE p.op, value |-> p.value, other |-> p.other]

OnPredicates(cs, F(_)) ==
  [c \in DOMAIN cs |-> [d \in DOMAIN cs[c] |-> [i \in DOMAIN cs[c][d] |-> F(cs[c][d][i])]]]

Init ==
  /\ job \in Jobs /\ phase = "start"
  /\ mappings = <<>> /\ lists = job.lists
  /\ conditions = OnPredicates(job.conditions, Parsed)
  /\ work = <<>> /\ prefixes = <<>> /\ x = 1 /\ y = 2 /\ freed = FALSE /\ misread = FALSE

(* A predicate that lost its operator is refused by PostgreSQL in the end. *)
Load ==
  /\ phase = "start"
  /\ mappings' = LoadMappings(job)
  /\ phase' = IF \E c \in DOMAIN conditions : \E d \in DOMAIN conditions[c] :
                   \E i \in DOMAIN conditions[c][d] : conditions[c][d][i].op = ""
              THEN "failed"
              ELSE IF mappings' = <<>> THEN "done" ELSE "lists"
  /\ UNCHANGED <<job, lists, conditions, work, prefixes, x, y, reads>>

-----------------------------------------------------------------------------
(* substituteInAttrList, which ignores a reference of several columns.     *)
AppliesToPart(m, l) == m.cols \cap l # {}
Applies(m, l) == m.cols \subseteq l
SubstituteInAttrList(l) ==
  LET ms == {m \in ToSet(mappings) : Cardinality(m.ref) = 1 /\ Applies(m, l)}
  IN (l \ UNION {m.cols : m \in ms}) \cup UNION {m.ref : m \in ms}

BodyOnly == <<"BODY", "">>
AllPrefixes == <<"BODY", "HEAD", "">>
Places ==
  Listed[UNION {{<<c, d>> : d \in DOMAIN conditions[c]} : c \in DOMAIN conditions}]

SubstituteInLists ==
  /\ phase = "lists"
  /\ lists' = [k \in DOMAIN lists |-> SubstituteInAttrList(lists[k])]
  /\ work' = Places /\ prefixes' = AllPrefixes
  /\ phase' = IF work' = <<>> THEN "clean" ELSE "substitute"
  /\ UNCHANGED <<job, mappings, conditions, x, y, reads>>

-----------------------------------------------------------------------------
(* findSubstitutions: the predicates on columns of the key, if all of them *)
(* occur; without an order between the keys only equalities will do.       *)
PredicatesOn(list, m, prefix) ==
  LET ps == {i \in DOMAIN list :
               /\ IsLiteral(list[i]) /\ list[i].attr.prefix = prefix /\ list[i].attr.col \in m.cols
               /\ m.order = "None" => list[i].op = "="}
  IN IF {list[i].attr.col : i \in ps} = m.cols THEN ps ELSE {}

(* addNewCondition: the bounds of the reference among the rows that        *)
(* satisfy the predicates, without those that exclude no row.              *)
NewConditions(ref, ps, prefix) ==
  LET a == [prefix |-> prefix, col |-> ref]
      S == {r[ref] : r \in {s \in job.rows : \A p \in ps : Compare(s[p.attr.col], p.op, p.value)}}
      all == {r[ref] : r \in job.rows}
      Bound(op, v) == <<[attr |-> a, op |-> op, value |-> v, other |-> <<>>]>>
  IN IF S = {} THEN Bound("=", 0)
     ELSE IF Least(S) = Greatest(S) THEN Bound("=", Least(S))
     ELSE (IF Least(S) # Least(all) THEN Bound(">=", Least(S)) ELSE <<>>)
          \o (IF Greatest(S) # Greatest(all) THEN Bound("<=", Greatest(S)) ELSE <<>>)

(* The keys in the order of the multimap: the first one to have found      *)
(* predicates for a reference is the one that is used.                     *)
SortedMappings ==
  LET at == OrderedBy(DOMAIN mappings, [k \in DOMAIN mappings |-> Least(mappings[k].cols)])
  IN [k \in DOMAIN at |-> mappings[at[k]]]
FoundBy(list, prefix) ==
  {k \in DOMAIN SortedMappings : PredicatesOn(list, SortedMappings[k], prefix) # {}}

(* The references by name, and what each of them adds.                     *)
NewFor(ref, list, prefix) ==
  LET first == Least({k \in FoundBy(list, prefix) : ref \in SortedMappings[k].ref})
  IN NewConditions(ref, {list[i] : i \in PredicatesOn(list, SortedMappings[first], prefix)}, prefix)
Added(list, prefix) ==
  LET refs == UNION {SortedMappings[k].ref : k \in FoundBy(list, prefix)}
      at == Listed[UNION {{<<r, i>> : i \in DOMAIN NewFor(r, list, prefix)} : r \in refs}]
  IN [k \in DOMAIN at |-> NewFor(at[k][1], list, prefix)[at[k][2]]]

(* Each new condition is put in front.                                     *)
Replaced(list, prefix) == UNION {PredicatesOn(list, SortedMappings[k], prefix) : k \in FoundBy(list, prefix)}
SubstitutedList(list, prefix) ==
  Reverse(Added(list, prefix)) \o Selected(list, DOMAIN list \ Replaced(list, prefix))

Current == conditions[work[1][1]][work[1][2]]
Rewritten(list) == [conditions EXCEPT ![work[1][1]][work[1][2]] = list]

SubstituteInAndList ==
  /\ phase = "substitute"
  /\ \A k \in FoundBy(Current, Head(prefixes)) : Cardinality(SortedMappings[k].ref) = 1
  /\ conditions' = Rewritten(SubstitutedList(Current, Head(prefixes)))
  /\ prefixes' = Tail(prefixes)
  /\ phase' = IF prefixes' = <<>> THEN "compact" ELSE "substitute"
  /\ x' = 1 /\ y' = 2
  /\ UNCHANGED <<job, mappings, lists, work, reads>>

(* addNewConditions asserts that a reference is a single column.           *)
AbortOnReference ==
  /\ phase = "substitute"
  /\ \E k \in FoundBy(Current, Head(prefixes)) : Cardinality(SortedMappings[k].ref) # 1
  /\ phase' = "aborted"
  /\ UNCHANGED <<job, mappings, lists, conditions, work, prefixes, x, y, reads>>

-----------------------------------------------------------------------------
(* opRelationTable: for x above, equal to and below y, which predicate     *)
(* makes the other one redundant (l: that of y, r: that of x, b: both),    *)
(* whether they exclude each other (!), or make one with another operator. *)
OpIndex == [op \in Ops |-> CASE op = "<" -> 1 [] op = "<=" -> 2 [] op = "=" -> 3
                             [] op = ">=" -> 4 [] op = ">" -> 5 [] OTHER -> 6]
Above ==
  << <<"l", "l", "l", "/", "/", "/">>, <<"l", "l", "l", "/", "/", "/">>,
     <<"!", "!", "!", "r", "r", "r">>, <<"!", "!", "!", "r", "r", "r">>,
     <<"!", "!", "!", "r", "r", "r">>, <<"l", "l", "l", "/", "/", "/">> >>
Same ==
  << <<"b", "r", "!", "!", "!", "r">>, <<"l", "b", "l", "=", "!", "<">>,
     <<"!", "r", "b", "r", "!", "!">>, <<"!", "=", "l", "b", "l", ">">>,
     <<"!", "!", "!", "r", "b", "r">>, <<"l", "<", "!", ">", "l", "b">> >>
Below ==
  << <<"r", "r", "!", "!", "!", "r">>, <<"r", "r", "!", "!", "!", "r">>,
     <<"r", "r", "!", "!", "!", "r">>, <<"/", "/", "l", "l", "l", "/">>,
     <<"/", "/", "l", "l", "l", "/">>, <<"/", "/", "l", "l", "l", "/">> >>

OfEqualValues(p, q) == Same[OpIndex[p.op]][OpIndex[q.op]]
Relation(p, q) ==
  LET table == IF p.value > q.value THEN Above ELSE IF p.value = q.value THEN Same ELSE Below
  IN table[OpIndex[p.op]][OpIndex[q.op]]

RelationOf(p, q) == IF IsLiteral(p) /\ IsLiteral(q) /\ p.attr = q.attr THEN Relation(p, q) ELSE "/"

(* The attribute and the value of x are read once, before the inner loop.  *)
(* After l they are strings that removeNode has deleted: they compare in   *)
(* any way with those of y, or do not match them.                          *)
OfDeleted(p, q) == {"/"} \cup {table[OpIndex[p.op]][OpIndex[q.op]] : table \in {Above, Same, Below}}
RelationsOf(p, q) == IF freed /\ IsLiteral(q) THEN OfDeleted(p, q) ELSE {RelationOf(p, q)}

(* One turn of the inner loop of compactPredicates.                        *)
Turn(l, m, n, r) ==
  CASE r = "/" -> l
    [] r = "!" -> <<>>
    [] r \in {"=", "<", ">"} -> RemoveAt([l EXCEPT ![m] = [l[m] EXCEPT !.op = r]], n)
    [] r = "l" -> RemoveAt([l EXCEPT ![m] = l[n]], n)
    [] OTHER -> RemoveAt(l, n)

ComparePair ==
  /\ phase = "compact" /\ y <= Len(Current)
  /\ \E r \in RelationsOf(Current[x], Current[y]) :
       /\ conditions' = Rewritten(Turn(Current, x, y, r))
       /\ x' = IF r = "!" THEN 1 ELSE x
       /\ y' = IF r = "!" THEN 2 ELSE IF r = "/" THEN y + 1 ELSE y
       /\ freed' = (freed \/ r = "l")
       /\ misread' = (misread \/ (freed /\ r # "/"))
  /\ UNCHANGED <<job, phase, mappings, lists, work, prefixes>>

Following(k) == k + 1
NextPredicate ==
  /\ phase = "compact" /\ y > Len(Current) /\ x < Len(Current)
  /\ x' = Following(x) /\ y' = x' + 1 /\ freed' = FALSE
  /\ UNCHANGED <<job, phase, mappings, lists, conditions, work, prefixes, misread>>

NextList ==
  /\ phase = "compact" /\ y > Len(Current) /\ x >= Len(Current)
  /\ work' = Tail(work) /\ prefixes' = AllPrefixes
  /\ phase' = IF work' = <<>> THEN "relax" ELSE "substitute"
  /\ x' = 1 /\ y' = 2 /\ freed' = FALSE
  /\ UNCHANGED <<job, mappings, lists, conditions, misread>>

-----------------------------------------------------------------------------
(* relaxOperatorInPred: the last value below, or the first one above.      *)
Relaxed(p) ==
  LET S == {r[p.attr.col] : r \in {s \in job.rows : Compare(s[p.attr.col], p.op, p.value)}} IN
  IF ~IsLiteral(p) THEN p
  ELSE CASE p.op = "<" -> [p EXCEPT !.op = "<=", !.value = IF S = {} THEN 0 ELSE Greatest(S)]
         [] p.op = ">" -> [p EXCEPT !.op = ">=", !.value = IF S = {} THEN 0 ELSE Least(S)]
         [] OTHER -> p

RelaxOperators ==
  /\ phase = "relax"
  /\ conditions' = OnPredicates(conditions, Relaxed)
  /\ phase' = "clean"
  /\ UNCHANGED <<job, mappings, lists, work, prefixes, x, y, reads>>

(* cleanPredicate drops the disjuncts that have no predicates left.        *)
CleanPredicates ==
  /\ phase = "clean"
  /\ conditions' = [c \in DOMAIN conditions |->
                     Selected(conditions[c], {d \in DOMAIN conditions[c] : conditions[c][d] # <<>>})]
  /\ phase' = "done"
  /\ UNCHANGED <<job, mappings, lists, work, prefixes, x, y, reads>>

Next ==
  \/ Load \/ SubstituteInLists \/ SubstituteInAndList \/ AbortOnReference
  \/ ComparePair \/ NextPredicate \/ NextList \/ RelaxOperators \/ CleanPredicates

Spec == Init /\ [][Next]_vars

-----------------------------------------------------------------------------
ValueOf(a, b, h) == IF a.prefix = "HEAD" THEN h[a.col] ELSE b[a.col]
Holds(p, op, b, h) ==
  Compare(ValueOf(p.attr, b, h), op, IF IsLiteral(p) THEN p.value ELSE ValueOf(p.other[1], b, h))

(* What the user wrote, and what the minerule says now.                    *)
Asked(p) == IF p.left THEN CASE p.op = "<" -> ">" [] p.op = "<=" -> ">=" [] p.op = ">" -> "<"
                             [] p.op = ">=" -> "<=" [] OTHER -> p.op
            ELSE p.op
AsksFor(list, b, h) == \A i \in DOMAIN list : Holds(list[i], Asked(list[i]), b, h)
Before(c, b, h) == c = <<>> \/ \E d \in DOMAIN c : AsksFor(c[d], b, h)
After(c, b, h) == c = <<>> \/ \E d \in DOMAIN c : \A i \in DOMAIN c[d] : Holds(c[d][i], c[d][i].op, b, h)

(* Normalization "maintains the same semantics": a condition accepts the   *)
(* pairs of rows it accepted before.                                       *)
SameSemantics ==
  phase = "done" =>
    \A c \in DOMAIN conditions : \A b, h \in job.rows :
      Before(job.conditions[c], b, h) <=> After(conditions[c], b, h)

(* What it takes: no two entries of the catalogue share a reference; "<>"  *)
(* is not used on an ordered key; every predicate holds for some row, and  *)
(* every condition for some pair; no disjunct of several always holds; and *)
(* one that never holds does without "<>", in a table without empty values. *)
OrderedColumns == UNION {m.cols : m \in {n \in ToSet(mappings) : n.order # "None"}}
Careful ==
  /\ \A i, j \in DOMAIN mappings : mappings[i].ref = mappings[j].ref => i = j
  /\ \A c \in DOMAIN job.conditions :
       LET dnf == job.conditions[c] IN
       /\ \E b, h \in job.rows : Before(dnf, b, h)
       /\ \A d \in DOMAIN dnf :
            /\ Len(dnf) > 1 => \E b, h \in job.rows : ~AsksFor(dnf[d], b, h)
            /\ \A i \in DOMAIN dnf[d] :
                 /\ dnf[d][i].op # "<>" \/ dnf[d][i].attr.col \notin OrderedColumns
                 /\ \E b, h \in job.rows : Holds(dnf[d][i], Asked(dnf[d][i]), b, h)
            /\ \/ \E b, h \in job.rows : AsksFor(dnf[d], b, h)
               \/ /\ \A i \in DOMAIN dnf[d] : dnf[d][i].op # "<>"
                  /\ \A r \in job.rows : \A k \in Columns : r[k] # 0

(* Careful conditions keep their rows, unless a deleted attribute has been *)
(* taken for that of another predicate.                                    *)
SameRows == Careful /\ ~misread => SameSemantics

Agree(r, s, l) == \A c \in l : r[c] = s[c]

(* The lists of a normalized minerule group the rows as its lists did.     *)
Groups(l) == {{r \in job.rows : Agree(r, s, l)} : s \in job.rows}
SameGroups ==
  phase \notin {"start", "lists"} => \A k \in DOMAIN lists : Groups(lists[k]) = Groups(job.lists[k])

(* The catalogue of equivalent keys is true of the table.                  *)
EquivalentKeys ==
  \A j \in Jobs : \A m \in ToSet(LoadMappings(j)) : \A r, s \in j.rows :
    Agree(r, s, m.cols) <=> Agree(r, s, m.ref)

(* Each column of a key that it calls ordered ascends or descends with the *)
(* reference.                                                              *)
Follows(c, ref, rows) ==
  \/ \A r, s \in rows : r[ref] <= s[ref] => r[c] <= s[c]
  \/ \A r, s \in rows : r[ref] <= s[ref] => s[c] <= r[c]
OrderedKeys ==
  \A j \in Jobs : \A m \in ToSet(LoadMappings(j)) :
    m.order # "None" /\ Cardinality(m.ref) = 1 => \A c \in m.cols, ref \in m.ref : Follows(c, ref, j.rows)

(* No reference key has a reference of its own.                            *)
ReferencesLast ==
  \A j \in Jobs : \A m, n \in ToSet(LoadMappings(j)) : m.order # "None" => m.cols # n.ref

(* What is left of a condition is about the reference keys: no strict      *)
(* comparison with a literal, nor one of an attribute that is a key alone. *)
Normal ==
  phase = "done" /\ mappings # <<>> =>
    \A c \in DOMAIN conditions : \A d \in DOMAIN conditions[c] : \A i \in DOMAIN conditions[c][d] :
      LET p == conditions[c][d][i] IN
      IsLiteral(p) =>
        /\ p.op \notin {"<", ">"}
        /\ \A m \in ToSet(mappings) : m.order # "None" => m.cols # {p.attr.col}
=============================================================================
