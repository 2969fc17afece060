------------------------ MODULE QueryNormalizerProofs ------------------------
(***************************************************************************)
(* What the normalization of a minerule preserves, for any table, any      *)
(* minerule and any catalogue of equivalent keys that is true of the table. *)
(***************************************************************************)
EXTENDS QueryNormalizer, SourceDataProofs

(* A set that is an interval is finite.                                    *)
LEMMA IntervalFinite ==
  ASSUME NEW S, NEW n \in Nat, S = 1 .. n  PROVE IsFiniteSet(S)
<1>1. IsFiniteSet(1 .. n)
  BY FS_Interval
<1>2. QED  BY <1>1

SubstitutedLists == [k \in DOMAIN job.lists |-> SubstituteInAttrList(job.lists[k])]

ListsInv ==
  /\ job \in Jobs
  /\ phase # "start" => mappings = LoadMappings(job)
  /\ phase \in {"start", "lists"} => lists = job.lists
  /\ lists = job.lists \/ lists = SubstitutedLists

LEMMA ListsStep ==
  ASSUME ListsInv, [Next]_vars
  PROVE  ListsInv'
<1> USE DEF ListsInv
<1>1. CASE UNCHANGED vars
  BY <1>1 DEF vars, SubstitutedLists, SubstituteInAttrList, Applies
<1>2. CASE Load
  BY <1>2 DEF Load
<1>3. CASE SubstituteInLists
  <2>1. lists' = SubstitutedLists
    BY <1>3 DEF SubstituteInLists, SubstitutedLists
  <2>2. job' = job /\ mappings' = mappings /\ phase # "start" /\ phase' \notin {"start", "lists"}
    BY <1>3 DEF SubstituteInLists
  <2>3. SubstitutedLists' = SubstitutedLists
    BY <2>2 DEF SubstitutedLists, SubstituteInAttrList, Applies
  <2>4. QED  BY <2>1, <2>2, <2>3
<1>4. CASE ~Load /\ ~SubstituteInLists /\ Next
  <2>1. /\ job' = job /\ mappings' = mappings /\ lists' = lists
        /\ phase \notin {"start", "lists"} /\ phase' \notin {"start", "lists"}
    BY <1>4 DEF Next, SubstituteInAndList, AbortOnReference, ComparePair, NextPredicate, NextList,
         RelaxOperators, CleanPredicates
  <2>2. SubstitutedLists' = SubstitutedLists
    BY <2>1 DEF SubstitutedLists, SubstituteInAttrList, Applies
  <2>3. QED  BY <2>1, <2>2
<1>5. QED  BY <1>1, <1>2, <1>3, <1>4

(* Rows that agree on a list agree on the list rewritten, and the other    *)
(* way round.                                                              *)
LEMMA SameAgreement ==
  ASSUME EquivalentKeys, job \in Jobs, mappings = LoadMappings(job), NEW l,
         NEW r \in job.rows, NEW s \in job.rows
  PROVE  Agree(r, s, l) <=> Agree(r, s, SubstituteInAttrList(l))
<1> DEFINE ms == {m \in ToSet(mappings) : Cardinality(m.ref) = 1 /\ Applies(m, l)}
<1>1. SubstituteInAttrList(l) = (l \ UNION {m.cols : m \in ms}) \cup UNION {m.ref : m \in ms}
  BY DEF SubstituteInAttrList
<1>2. \A m \in ms : m.cols \subseteq l /\ (Agree(r, s, m.cols) <=> Agree(r, s, m.ref))
  BY DEF EquivalentKeys, Applies
<1> HIDE DEF ms
<1>3. ASSUME Agree(r, s, l), NEW c \in SubstituteInAttrList(l)  PROVE r[c] = s[c]
  <2>1. CASE c \in l
    BY <1>3, <2>1 DEF Agree
  <2>2. CASE c \notin l
    <3>1. PICK m \in ms : c \in m.ref
      BY <1>1, <1>3, <2>2
    <3>2. QED  BY <1>2, <1>3, <3>1 DEF Agree
  <2>3. QED  BY <2>1, <2>2
<1>4. ASSUME Agree(r, s, SubstituteInAttrList(l)), NEW c \in l  PROVE r[c] = s[c]
  <2>1. CASE c \in SubstituteInAttrList(l)
    BY <1>4, <2>1 DEF Agree
  <2>2. CASE c \notin SubstituteInAttrList(l)
    <3>1. PICK m \in ms : c \in m.cols
      BY <1>1, <1>4, <2>2
    <3>2. m.ref \subseteq SubstituteInAttrList(l)
      BY <1>1
    <3>3. QED  BY <1>2, <1>4, <3>1, <3>2 DEF Agree
  <2>3. QED  BY <2>1, <2>2
<1>5. QED  BY <1>3, <1>4 DEF Agree

LEMMA SameGrouping ==
  ASSUME EquivalentKeys, job \in Jobs, mappings = LoadMappings(job), NEW l
  PROVE  Groups(SubstituteInAttrList(l)) = Groups(l)
<1>1. \A s \in job.rows : {r \in job.rows : Agree(r, s, SubstituteInAttrList(l))}
                            = {r \in job.rows : Agree(r, s, l)}
  BY SameAgreement
<1>2. QED  BY <1>1 DEF Groups

(* The attribute lists of a normalized minerule group the rows of the      *)
(* table as those the user wrote, if mr_eq_keys is right about the table   *)
(* (QueryNormalizer::substituteInAttrList).                                *)
THEOREM GroupsKept == EquivalentKeys => (Spec => []SameGroups)
<1> SUFFICES ASSUME EquivalentKeys  PROVE Spec => []SameGroups
  OBVIOUS
<1>1. Init => ListsInv
  BY DEF Init, ListsInv
<1>2. ListsInv /\ [Next]_vars => ListsInv'
  BY ListsStep
<1>3. ASSUME ListsInv  PROVE SameGroups
  <2>1. CASE lists = job.lists
    BY <2>1 DEF SameGroups
  <2>2. CASE lists = SubstitutedLists
    BY <1>3, <2>2, SameGrouping DEF SameGroups, ListsInv, SubstitutedLists
  <2>3. QED  BY <1>3, <2>1, <2>2 DEF ListsInv
<1>4. QED  BY <1>1, <1>2, <1>3, PTL DEF Spec

-----------------------------------------------------------------------------
(* Rows and predicates.                                                    *)

(* Sequences of one or two members put together.                           *)
LEMMA Small ==
  ASSUME NEW p, NEW q
  PROVE  /\ <<p>> \o <<q>> = <<p, q>>
         /\ <<p>> \o <<>> = <<p>>
         /\ <<>> \o <<p>> = <<p>>
         /\ <<>> \o <<>> = <<>>
<1>1. <<p>> \o <<q>> = <<p, q>>
  <2> DEFINE r == <<p>> \o <<q>>
             s == <<p, q>>
             S == {p, q}
  <2>1. <<p>> \in Seq(S) /\ <<q>> \in Seq(S) /\ Len(<<p>>) = 1 /\ Len(<<q>>) = 1
    OBVIOUS
  <2>2. r \in Seq(S) /\ Len(r) = 2 /\ r[1] = p /\ r[2] = q
    BY <2>1, ConcatProperties
  <2>3. s \in Seq(S) /\ Len(s) = 2 /\ s[1] = p /\ s[2] = q
    OBVIOUS
  <2> HIDE DEF r, s
  <2>4. \A k \in 1 .. 2 : r[k] = s[k]
    BY <2>2, <2>3
  <2>5. QED  BY <2>2, <2>3, <2>4, SeqEqual DEF r, s
<1>2. <<p>> \o <<>> = <<p>>
  OBVIOUS
<1>3. <<>> \o <<p>> = <<p>>
  OBVIOUS
<1>4. <<>> \o <<>> = <<>>
  OBVIOUS
<1>5. QED  BY <1>1, <1>2, <1>3, <1>4

LEMMA OneOrTwo ==
  ASSUME NEW N, NEW p, NEW q, N = <<p, q>> \/ N = <<p>> \/ N = <<q>> \/ N = <<>>
  PROVE  /\ Len(N) \in 0 .. 2 /\ N = [k \in 1 .. Len(N) |-> N[k]]
         /\ \A k \in 1 .. Len(N) : N[k] = p \/ N[k] = q
<1>1. CASE N = <<p, q>>
  <2>1. Len(N) = 2 /\ N[1] = p /\ N[2] = q /\ N = [k \in 1 .. 2 |-> N[k]]
    BY <1>1
  <2>2. QED  BY <2>1
<1>2. CASE N = <<p>>
  BY <1>2
<1>3. CASE N = <<q>>
  BY <1>3
<1>4. CASE N = <<>>
  BY <1>4
<1>5. QED  BY <1>1, <1>2, <1>3, <1>4

LEMMA GreatestProperties ==
  ASSUME NEW S \in SUBSET Nat, IsFiniteSet(S), S # {}
  PROVE  Greatest(S) \in S /\ \A i \in S : i <= Greatest(S)
<1>1. Size(S) \in Nat /\ Size(S) # 0
  BY FS_CardinalityType, FS_EmptySet DEF Size
<1>2. PICK i \in S : Size(Upto(S, i)) = Size(S)
  BY <1>1, UptoTaken
<1>3. Upto(S, i) = S
  <2>1. Upto(S, i) \subseteq S
    BY DEF Upto
  <2>2. QED  BY <1>2, <2>1, FS_Subset DEF Size
<1>4. \A j \in S : j <= i
  BY <1>3 DEF Upto
<1>5. QED  BY <1>4 DEF Greatest

Row == [Columns -> Nat]

LEMMA JobRows ==
  ASSUME NEW j \in Jobs
  PROVE  /\ IsFiniteSet(j.rows) /\ j.rows \in SUBSET Row
         /\ \A c \in Columns : /\ {r[c] : r \in j.rows} \in SUBSET Nat
                               /\ IsFiniteSet({r[c] : r \in j.rows})
<1>1. IsFiniteSet(j.rows) /\ j.rows \in SUBSET Row
  BY JobsAssumption DEF Job, Row
<1>2. ASSUME NEW c \in Columns  PROVE IsFiniteSet({r[c] : r \in j.rows})
  <2> DEFINE values == {r[c] : r \in j.rows}
             value == [r \in j.rows |-> r[c]]
  <2>1. value \in Surjection(j.rows, values)
    BY DEF Surjection
  <2>2. QED  BY <1>1, <2>1, FS_Surjection
<1>3. QED  BY <1>1, <1>2 DEF Row

LEMMA Comparisons ==
  ASSUME NEW u, NEW v
  PROVE  /\ Compare(u, "=", v) <=> u = v
         /\ Compare(u, "<=", v) <=> u <= v
         /\ Compare(u, ">=", v) <=> u >= v
         /\ Compare(u, "<", v) <=> u < v
         /\ Compare(u, ">", v) <=> u > v
         /\ Compare(u, "<>", v) <=> u # v
BY DEF Compare

(* What a comparison other than "<>" accepts has no gaps.                  *)
LEMMA NoGaps ==
  ASSUME NEW op \in Ops, op # "<>", NEW u \in Nat, NEW v \in Nat, NEW w \in Nat, NEW x0 \in Nat,
         (u <= v /\ v <= w) \/ (w <= v /\ v <= u), Compare(u, op, x0), Compare(w, op, x0)
  PROVE  Compare(v, op, x0)
BY DEF Ops, Compare

(* A catalogue entry about a table.                                        *)
Key(m) == m.cols \in SUBSET Columns /\ m.cols # {} /\ m.ref \in SUBSET Columns
KeyOf(m, rows) ==
  /\ Key(m)
  /\ \A r, s \in rows : Agree(r, s, m.cols) <=> Agree(r, s, m.ref)
  /\ m.order # "None" /\ Cardinality(m.ref) = 1 => \A c \in m.cols, ref \in m.ref : Follows(c, ref, rows)

LoadedOf(keys, refs, k, from, upto) ==
  [cols |-> {keys[i].col : i \in {n \in from .. Len(keys) : k \/ n < upto}},
   ref |-> refs[keys[from].ref], order |-> keys[from].order]

LEMMA LoadedKeys ==
  ASSUME NEW j \in Jobs
  PROVE  /\ IsList(LoadMappings(j))
         /\ \A k \in 1 .. Len(LoadMappings(j)) : Key(LoadMappings(j)[k])
<1> DEFINE keys == j.keys
           ms == LoadMappings(j)
           starts == InOrder(KeyStarts(keys))
           n == Size(KeyStarts(keys))
<1>1. /\ Len(keys) \in Nat /\ DOMAIN keys = 1 .. Len(keys)
      /\ \A i \in 1 .. Len(keys) : /\ keys[i].col \in Columns
                                   /\ keys[i].ref \in DOMAIN j.refs
      /\ \A i \in DOMAIN j.refs : j.refs[i] \in SUBSET Columns
  <2>1. j \in Job /\ \A i \in DOMAIN j.keys : j.keys[i].ref \in DOMAIN j.refs
    BY JobsAssumption
  <2> DEFINE KeyRow == [col : Columns, ref : Nat, order : {"Equal", "Reversed", "None"}]
  <2>2. j.keys \in Seq(KeyRow) /\ j.refs \in Seq(SUBSET Columns)
    BY <2>1 DEF Job
  <2> HIDE DEF KeyRow
  <2>3. /\ Len(keys) \in Nat /\ DOMAIN keys = 1 .. Len(keys)
        /\ \A i \in 1 .. Len(keys) : keys[i].col \in Columns
    <3>1. Len(keys) \in Nat /\ DOMAIN keys = 1 .. Len(keys)
      BY <2>2, LenProperties
    <3>2. \A i \in 1 .. Len(keys) : keys[i] \in KeyRow
      BY <2>2, ElementOfSeq
    <3>3. QED  BY <3>1, <3>2 DEF KeyRow
  <2>4. DOMAIN j.refs = 1 .. Len(j.refs)
    BY <2>2, LenProperties
  <2>5. \A i \in 1 .. Len(j.refs) : j.refs[i] \in SUBSET Columns
    BY <2>2, ElementOfSeq
  <2>6. QED  BY <2>1, <2>3, <2>4, <2>5
<1>2. KeyStarts(keys) \in SUBSET (1 .. Len(keys)) /\ IsFiniteSet(KeyStarts(keys))
  <2>1. KeyStarts(keys) \in SUBSET (1 .. Len(keys))
    BY DEF KeyStarts
  <2>2. IsFiniteSet(1 .. Len(keys))
    BY <1>1, IntervalFinite
  <2>3. QED  BY <2>1, <2>2, FS_Subset
<1>3. n \in Nat /\ starts \in [1 .. n -> KeyStarts(keys)]
      /\ \A k, l \in 1 .. n : k < l => starts[k] < starts[l]
  <2>1. KeyStarts(keys) \in SUBSET Nat
    BY <1>1, <1>2
  <2>2. n \in Nat /\ starts \in [1 .. n -> KeyStarts(keys)]
    BY <1>2, <2>1, InOrderProperties
  <2>3. ASSUME NEW k \in 1 .. n, NEW l \in 1 .. n, k < l, ~(starts[k] < starts[l])
        PROVE  FALSE
    <3>1. Size(Upto(KeyStarts(keys), starts[k])) = k /\ Size(Upto(KeyStarts(keys), starts[l])) = l
      BY <1>2, <2>1, InOrderProperties
    <3>2. starts[k] \in KeyStarts(keys) /\ starts[l] \in KeyStarts(keys)
      BY <2>2
    <3>3. starts[l] < starts[k] \/ starts[l] = starts[k]
      BY <2>1, <2>3, <3>2
    <3>4. CASE starts[l] = starts[k]
      BY <2>3, <3>1, <3>4
    <3>5. CASE starts[l] < starts[k]
      <4>1. l < k
        BY <1>2, <2>1, <3>1, <3>2, <3>5, UptoGrows
      <4>2. QED  BY <2>2, <2>3, <4>1
    <3>6. QED  BY <3>3, <3>4, <3>5
  <2>4. QED  BY <2>2, <2>3
<1>4. ms = [k \in 1 .. n |-> LoadedOf(keys, j.refs, k = n, starts[k], starts[k + 1])]
  <2>1. DOMAIN starts = 1 .. n /\ Len(starts) = n
    BY <1>3
  <2>2. QED  BY <2>1 DEF LoadMappings, LoadedOf
<1>5. ms = [k \in 1 .. n |-> ms[k]]
  BY <1>4
<1>6. IsList(ms) /\ Len(ms) = n
  BY <1>3, <1>5, ListOf
<1>7. ASSUME NEW k \in 1 .. n
      PROVE  Key(ms[k])
  <2>1. ms[k] = LoadedOf(keys, j.refs, k = n, starts[k], starts[k + 1]) /\ starts[k] \in 1 .. Len(keys)
    BY <1>2, <1>3, <1>4
  <2>2. k = n \/ starts[k] < starts[k + 1]
    BY <1>3
  <2>3. ms[k].cols # {} /\ ms[k].cols \in SUBSET Columns /\ ms[k].ref \in SUBSET Columns
    <3>1. \A i \in starts[k] .. Len(keys) : i \in 1 .. Len(keys)
      BY <1>1, <2>1
    <3>2. starts[k] \in starts[k] .. Len(keys)
      BY <1>1, <2>1
    <3>3. QED  BY <1>1, <2>1, <2>2, <3>1, <3>2 DEF LoadedOf
  <2>4. QED  BY <2>3 DEF Key
<1>8. QED  BY <1>6, <1>7

LEMMA TrueKeys ==
  ASSUME EquivalentKeys, OrderedKeys, NEW j \in Jobs
  PROVE  \A k \in 1 .. Len(LoadMappings(j)) : KeyOf(LoadMappings(j)[k], j.rows)
<1> DEFINE ms == LoadMappings(j)
<1>1. DOMAIN ms = 1 .. Len(ms) /\ \A k \in 1 .. Len(ms) : Key(ms[k])
  BY LoadedKeys, ListDomain
<1>2. ASSUME NEW k \in 1 .. Len(ms)  PROVE KeyOf(ms[k], j.rows)
  <2>1. ms[k] \in ToSet(ms)
    BY <1>1 DEF ToSet
  <2>2. QED  BY <1>1, <2>1 DEF KeyOf, EquivalentKeys, OrderedKeys
<1>3. QED  BY <1>2

-----------------------------------------------------------------------------
(* What addNewCondition makes of the predicates on a key.                  *)

Meets(r, p) == Compare(r[p.attr.col], p.op, p.value)

(* The predicates ps are on the columns of the key m, and can be replaced. *)
OnKey(ps, m) ==
  /\ \A p \in ps : p.op \in Ops /\ p.value \in Nat
  /\ {p.attr.col : p \in ps} = m.cols
  /\ \A p \in ps : IF m.order = "None" THEN p.op = "=" ELSE p.op # "<>"

LEMMA BetweenSatisfying ==
  ASSUME job \in Jobs, NEW m, KeyOf(m, job.rows), NEW ref, m.ref = {ref}, NEW ps, OnKey(ps, m),
         NEW r \in job.rows, NEW s \in job.rows, NEW t \in job.rows,
         \A p \in ps : Meets(s, p) /\ Meets(t, p),
         s[ref] <= r[ref], r[ref] <= t[ref]
  PROVE  \A p \in ps : Meets(r, p)
<1>1. /\ ref \in Columns /\ m.cols \in SUBSET Columns
      /\ \A u \in job.rows : u \in Row
      /\ Cardinality(m.ref) = 1
  BY JobRows, FS_Singleton DEF KeyOf, Key
<1>2. CASE m.order = "None"
  <2>1. \A c \in m.cols : s[c] = t[c]
    <3>1. ASSUME NEW c \in m.cols  PROVE s[c] = t[c]
      <4>1. PICK p \in ps : p.attr.col = c
        BY DEF OnKey
      <4>2. p.op = "=" /\ Meets(s, p) /\ Meets(t, p)
        BY <1>2 DEF OnKey
      <4>3. QED  BY <4>1, <4>2 DEF Meets, Compare
    <3>2. QED  BY <3>1
  <2>2. s[ref] = t[ref]
    BY <2>1 DEF KeyOf, Agree
  <2>3. r[ref] = s[ref]
    BY <1>1, <2>2 DEF Row
  <2>4. \A c \in m.cols : r[c] = s[c]
    BY <2>3 DEF KeyOf, Agree
  <2>5. \A p \in ps : p.attr.col \in m.cols
    BY DEF OnKey
  <2>6. QED  BY <2>4, <2>5 DEF Meets
<1>3. CASE m.order # "None"
  <2>1. ASSUME NEW p \in ps  PROVE Meets(r, p)
    <3> DEFINE c == p.attr.col
    <3>1. c \in m.cols /\ p.op \in Ops /\ p.op # "<>" /\ p.value \in Nat
      BY <1>3 DEF OnKey
    <3>2. Follows(c, ref, job.rows)
      <4>1. c \in m.cols /\ ref \in m.ref
        BY <3>1
      <4> HIDE DEF c
      <4>2. QED  BY <1>1, <1>3, <4>1 DEF KeyOf
    <3>3. (s[c] <= r[c] /\ r[c] <= t[c]) \/ (t[c] <= r[c] /\ r[c] <= s[c])
      <4> HIDE DEF c
      <4>1. CASE \A u, v \in job.rows : u[ref] <= v[ref] => u[c] <= v[c]
        BY <4>1
      <4>2. CASE \A u, v \in job.rows : u[ref] <= v[ref] => v[c] <= u[c]
        BY <4>2
      <4>3. QED  BY <3>2, <4>1, <4>2 DEF Follows
    <3>4. s[c] \in Nat /\ r[c] \in Nat /\ t[c] \in Nat
      BY <1>1, <3>1 DEF Row
    <3>5. Compare(s[c], p.op, p.value) /\ Compare(t[c], p.op, p.value)
      BY DEF Meets
    <3> HIDE DEF c
    <3>6. Compare(r[c], p.op, p.value)
      BY <3>1, <3>3, <3>4, <3>5, NoGaps
    <3>7. QED  BY <3>6 DEF Meets, c
  <2>2. QED  BY <2>1
<1>4. QED  BY <1>2, <1>3

Bound(prefix, ref, op, v) ==
  [attr |-> [prefix |-> prefix, col |-> ref], op |-> op, value |-> v, other |-> <<>>]

LEMMA BoundFields ==
  ASSUME NEW prefix, NEW ref, NEW op, NEW v
  PROVE  /\ Bound(prefix, ref, op, v).attr = [prefix |-> prefix, col |-> ref]
         /\ Bound(prefix, ref, op, v).attr.col = ref
         /\ Bound(prefix, ref, op, v).other = <<>>
         /\ Bound(prefix, ref, op, v).op = op /\ Bound(prefix, ref, op, v).value = v
BY DEF Bound

LEMMA BoundMeaning ==
  ASSUME NEW prefix, NEW ref, NEW v, NEW r
  PROVE  /\ Meets(r, Bound(prefix, ref, "=", v)) <=> r[ref] = v
         /\ Meets(r, Bound(prefix, ref, "<=", v)) <=> r[ref] <= v
         /\ Meets(r, Bound(prefix, ref, ">=", v)) <=> r[ref] >= v
<1>1. \A op : Meets(r, Bound(prefix, ref, op, v)) <=> Compare(r[ref], op, v)
  <2>1. ASSUME NEW op  PROVE Meets(r, Bound(prefix, ref, op, v)) <=> Compare(r[ref], op, v)
    <3>1. /\ Bound(prefix, ref, op, v).attr.col = ref
          /\ Bound(prefix, ref, op, v).op = op /\ Bound(prefix, ref, op, v).value = v
      BY DEF Bound
    <3>2. QED  BY <3>1 DEF Meets
  <2>2. QED  BY <2>1
<1>2. QED  BY <1>1, Comparisons

Bounds(N, ref, prefix) ==
  /\ IsList(N) /\ Len(N) <= 2
  /\ \A i \in 1 .. Len(N) :
       \E op \in {"=", "<=", ">="}, v \in Nat : N[i] = Bound(prefix, ref, op, v)

LEMMA NewConditionsBound ==
  ASSUME job \in Jobs, NEW ref \in Columns, NEW ps, NEW prefix
  PROVE  Bounds(NewConditions(ref, ps, prefix), ref, prefix)
<1> DEFINE N == NewConditions(ref, ps, prefix)
           S == {r[ref] : r \in {s \in job.rows : \A p \in ps : Meets(s, p)}}
           all == {r[ref] : r \in job.rows}
           lo == Least(S)
           hi == Greatest(S)
           none == Bound(prefix, ref, "=", 0)
           one == Bound(prefix, ref, "=", lo)
           lower == Bound(prefix, ref, ">=", lo)
           upper == Bound(prefix, ref, "<=", hi)
<1>1. all \in SUBSET Nat /\ IsFiniteSet(all) /\ S \in SUBSET all
  BY JobRows
<1>2. S \in SUBSET Nat /\ IsFiniteSet(S)
  BY <1>1, FS_Subset
<1>3. S # {} => lo \in Nat /\ hi \in Nat
  BY <1>2, LeastProperties, GreatestProperties
<1>4. /\ S = {} => N = <<none>>
      /\ S # {} => N = <<one>> \/ N = <<lower, upper>> \/ N = <<lower>> \/ N = <<upper>> \/ N = <<>>
  <2>1. N = IF S = {} THEN <<none>> ELSE IF lo = hi THEN <<one>>
            ELSE (IF lo # Least(all) THEN <<lower>> ELSE <<>>)
                 \o (IF hi # Greatest(all) THEN <<upper>> ELSE <<>>)
    BY DEF NewConditions, Meets, Bound
  <2> HIDE DEF N, S, all, lo, hi, none, one, lower, upper
  <2>2. QED  BY <2>1, Small
<1> DEFINE Fits(p) == \E op \in {"=", "<=", ">="}, v \in Nat : p = Bound(prefix, ref, op, v)
<1>6. Fits(none) /\ (S # {} => Fits(one) /\ Fits(lower) /\ Fits(upper))
  BY <1>3
<1> HIDE DEF N, S, lo, hi, none, one, lower, upper, Fits
<1>7. \E p, q : Fits(p) /\ Fits(q) /\ (N = <<p, q>> \/ N = <<p>> \/ N = <<q>> \/ N = <<>>)
  BY <1>4, <1>6
<1>8. PICK p, q : Fits(p) /\ Fits(q) /\ (N = <<p, q>> \/ N = <<p>> \/ N = <<q>> \/ N = <<>>)
  BY <1>7
<1>9. Len(N) \in 0 .. 2 /\ N = [k \in 1 .. Len(N) |-> N[k]] /\ \A k \in 1 .. Len(N) : N[k] = p \/ N[k] = q
  BY <1>8, OneOrTwo
<1>10. IsList(N)
  BY <1>9, ListOf
<1>11. \A k \in 1 .. Len(N) : Fits(N[k])
  BY <1>8, <1>9
<1>12. Bounds(N, ref, prefix)
  BY <1>9, <1>10, <1>11 DEF Bounds, Fits
<1>13. QED  BY <1>12 DEF N

LEMMA NewConditionsExact ==
  ASSUME job \in Jobs, NEW m, KeyOf(m, job.rows), NEW ref, m.ref = {ref}, NEW ps, OnKey(ps, m),
         NEW prefix,
         \/ \E s \in job.rows : \A p \in ps : Meets(s, p)
         \/ \A s \in job.rows : s[ref] # 0
  PROVE  \A r \in job.rows :
           (\A p \in ps : Meets(r, p))
             <=> \A i \in 1 .. Len(NewConditions(ref, ps, prefix)) : Meets(r, NewConditions(ref, ps, prefix)[i])
<1> DEFINE N == NewConditions(ref, ps, prefix)
           S == {r[ref] : r \in {s \in job.rows : \A p \in ps : Meets(s, p)}}
           all == {r[ref] : r \in job.rows}
           lo == Least(S)
           hi == Greatest(S)
<1>1. ref \in Columns /\ all \in SUBSET Nat /\ IsFiniteSet(all) /\ \A r \in job.rows : r[ref] \in all
  BY JobRows DEF KeyOf, Key
<1>2. S \in SUBSET all
  OBVIOUS
<1>3. S \in SUBSET Nat /\ IsFiniteSet(S)
  BY <1>1, <1>2, FS_Subset
<1>4. N = IF S = {} THEN <<Bound(prefix, ref, "=", 0)>>
          ELSE IF lo = hi THEN <<Bound(prefix, ref, "=", lo)>>
          ELSE (IF lo # Least(all) THEN <<Bound(prefix, ref, ">=", lo)>> ELSE <<>>)
               \o (IF hi # Greatest(all) THEN <<Bound(prefix, ref, "<=", hi)>> ELSE <<>>)
  BY DEF NewConditions, Meets, Bound
<1>5. \A r \in job.rows : (\A p \in ps : Meets(r, p)) => r[ref] \in S
  OBVIOUS
<1> HIDE DEF N
<1>7. CASE S = {}
  <2>1. N = <<Bound(prefix, ref, "=", 0)>>
    BY <1>4, <1>7
  <2>2. Len(N) = 1 /\ N[1] = Bound(prefix, ref, "=", 0)
    BY <2>1
  <2>6. \A r \in job.rows : ~(\A p \in ps : Meets(r, p)) /\ r[ref] # 0
    BY <1>5, <1>7
  <2>7. \A r \in job.rows : ~Meets(r, N[1])
    <3>1. ASSUME NEW r \in job.rows  PROVE ~Meets(r, Bound(prefix, ref, "=", 0))
      BY <2>6, BoundMeaning
    <3>2. QED  BY <2>2, <3>1
  <2>8. QED  BY <2>2, <2>6, <2>7 DEF N
<1>8. CASE S # {}
  <2>1. /\ lo \in S /\ hi \in S /\ \A v \in S : lo <= v /\ v <= hi
        /\ lo \in Nat /\ hi \in Nat
    BY <1>3, <1>8, LeastProperties, GreatestProperties
  <2>2. ASSUME NEW r \in job.rows
        PROVE  /\ (\A p \in ps : Meets(r, p)) <=> lo <= r[ref] /\ r[ref] <= hi
               /\ Least(all) <= r[ref] /\ r[ref] <= Greatest(all)
    <3>1. PICK s \in job.rows : s[ref] = lo /\ \A p \in ps : Meets(s, p)
      BY <2>1
    <3>2. PICK t \in job.rows : t[ref] = hi /\ \A p \in ps : Meets(t, p)
      BY <2>1
    <3>3. lo <= r[ref] /\ r[ref] <= hi => \A p \in ps : Meets(r, p)
      BY <3>1, <3>2, BetweenSatisfying
    <3>4. (\A p \in ps : Meets(r, p)) => lo <= r[ref] /\ r[ref] <= hi
      BY <1>5, <2>1
    <3>5. Least(all) <= r[ref] /\ r[ref] <= Greatest(all)
      BY <1>1, LeastProperties, GreatestProperties
    <3>6. QED  BY <3>3, <3>4, <3>5
  <2> HIDE DEF S, all, lo, hi
  <2>3. \A r \in job.rows : r[ref] \in Nat
    BY <1>1
  <2>4. CASE lo = hi
    <3>1. N = <<Bound(prefix, ref, "=", lo)>>
      BY <1>4, <1>8, <2>4
    <3>2. Len(N) = 1 /\ N[1] = Bound(prefix, ref, "=", lo)
      BY <3>1
    <3>6. \A r \in job.rows : Meets(r, N[1]) <=> r[ref] = lo
      <4>1. ASSUME NEW r \in job.rows  PROVE Meets(r, Bound(prefix, ref, "=", lo)) <=> r[ref] = lo
        BY BoundMeaning
      <4>2. QED  BY <3>2, <4>1
    <3>7. \A r \in job.rows : (\A p \in ps : Meets(r, p)) <=> r[ref] = lo
      BY <2>1, <2>2, <2>3, <2>4
    <3>8. QED  BY <3>2, <3>6, <3>7 DEF N
  <2>5. CASE lo # hi
    <3> DEFINE below == lo # Least(all)
               above == hi # Greatest(all)
               lower == Bound(prefix, ref, ">=", lo)
               upper == Bound(prefix, ref, "<=", hi)
    <3>1. /\ below /\ above => N = <<lower, upper>>
          /\ below /\ ~above => N = <<lower>>
          /\ ~below /\ above => N = <<upper>>
          /\ ~below /\ ~above => N = <<>>
      BY <1>4, <1>8, <2>5, Small
    <3>2. /\ \A r : Meets(r, lower) <=> r[ref] >= lo
          /\ \A r : Meets(r, upper) <=> r[ref] <= hi
      BY BoundMeaning
    <3> HIDE DEF lower, upper
    <3>3. \A r \in job.rows : (~below => lo <= r[ref]) /\ (~above => r[ref] <= hi)
      BY <2>2
    <3> HIDE DEF below, above
    <3>4. Len(N) \in 0 .. 2 /\ N = [k \in 1 .. Len(N) |-> N[k]]
          /\ \A k \in 1 .. Len(N) : N[k] = lower \/ N[k] = upper
      <4>1. N = <<lower, upper>> \/ N = <<lower>> \/ N = <<upper>> \/ N = <<>>
        BY <3>1
      <4>2. QED  BY <4>1, OneOrTwo
    <3>5. /\ below => \E k \in 1 .. Len(N) : N[k] = lower
          /\ above => \E k \in 1 .. Len(N) : N[k] = upper
      <4>1. CASE below /\ above
        <5>1. Len(N) = 2 /\ N[1] = lower /\ N[2] = upper
          BY <3>1, <4>1
        <5>2. 1 \in 1 .. Len(N) /\ 2 \in 1 .. Len(N)
          BY <5>1
        <5>3. QED  BY <5>1, <5>2
      <4>2. CASE below /\ ~above
        <5>1. Len(N) = 1 /\ N[1] = lower
          BY <3>1, <4>2
        <5>2. 1 \in 1 .. Len(N)
          BY <5>1
        <5>3. QED  BY <4>2, <5>1, <5>2
      <4>3. CASE ~below /\ above
        <5>1. Len(N) = 1 /\ N[1] = upper
          BY <3>1, <4>3
        <5>2. 1 \in 1 .. Len(N)
          BY <5>1
        <5>3. QED  BY <4>3, <5>1, <5>2
      <4>4. QED  BY <4>1, <4>2, <4>3
    <3>8. ASSUME NEW r \in job.rows
          PROVE  (\A p \in ps : Meets(r, p)) <=> \A k \in 1 .. Len(N) : Meets(r, N[k])
      <4>1. (\A k \in 1 .. Len(N) : Meets(r, N[k])) => lo <= r[ref] /\ r[ref] <= hi
        BY <2>1, <2>3, <3>2, <3>3, <3>5
      <4>2. lo <= r[ref] /\ r[ref] <= hi => \A k \in 1 .. Len(N) : Meets(r, N[k])
        BY <2>1, <2>3, <3>2, <3>4
      <4>3. QED  BY <2>2, <4>1, <4>2
    <3>9. QED  BY <3>8 DEF N
  <2>6. QED  BY <2>4, <2>5
<1>9. QED  BY <1>7, <1>8

-----------------------------------------------------------------------------
(* AND lists, seen as the set of their predicates.                         *)

Predicate == [attr : Attribute, op : Ops, value : Nat, other : Seq(Attribute)]

LEMMA ConcatMembers ==
  ASSUME NEW S, NEW p \in Seq(S), NEW q \in Seq(S)
  PROVE  p \o q \in Seq(S) /\ ToSet(p \o q) = ToSet(p) \cup ToSet(q)
<1> DEFINE r == p \o q
<1>1. Len(p) \in Nat /\ Len(q) \in Nat /\ DOMAIN p = 1 .. Len(p) /\ DOMAIN q = 1 .. Len(q)
  BY LenProperties
<1>2. /\ r \in Seq(S) /\ Len(r) = Len(p) + Len(q)
      /\ \A i \in 1 .. Len(p) + Len(q) : r[i] = IF i <= Len(p) THEN p[i] ELSE q[i - Len(p)]
  BY ConcatProperties
<1>3. DOMAIN r = 1 .. Len(p) + Len(q)
  BY <1>2, LenProperties
<1> HIDE DEF r
<1>4. ASSUME NEW i \in DOMAIN r  PROVE r[i] \in ToSet(p) \cup ToSet(q)
  <2>1. CASE i <= Len(p)
    <3>1. i \in DOMAIN p /\ r[i] = p[i]
      BY <1>1, <1>2, <1>3, <2>1
    <3>2. QED  BY <3>1 DEF ToSet
  <2>2. CASE ~(i <= Len(p))
    <3>1. i - Len(p) \in DOMAIN q /\ r[i] = q[i - Len(p)]
      BY <1>1, <1>2, <1>3, <2>2
    <3>2. QED  BY <3>1 DEF ToSet
  <2>3. QED  BY <2>1, <2>2
<1>5. ASSUME NEW i \in DOMAIN p  PROVE \E k \in DOMAIN r : r[k] = p[i]
  BY <1>1, <1>2, <1>3
<1>6. ASSUME NEW i \in DOMAIN q  PROVE \E k \in DOMAIN r : r[k] = q[i]
  <2>1. Len(p) + i \in DOMAIN r /\ r[Len(p) + i] = q[(Len(p) + i) - Len(p)] /\ (Len(p) + i) - Len(p) = i
    BY <1>1, <1>2, <1>3
  <2>2. QED  BY <2>1
<1>7. ToSet(r) = ToSet(p) \cup ToSet(q)
  BY <1>4, <1>5, <1>6 DEF ToSet
<1>8. QED  BY <1>2, <1>7 DEF r

LEMMA ReverseMembers ==
  ASSUME NEW S, NEW q \in Seq(S)
  PROVE  Reverse(q) \in Seq(S) /\ ToSet(Reverse(q)) = ToSet(q)
<1> DEFINE n == Len(q)
           r == Reverse(q)
<1>1. n \in Nat /\ DOMAIN q = 1 .. n /\ \A i \in 1 .. n : q[i] \in S
  BY LenProperties, ElementOfSeq
<1>2. r = [i \in 1 .. n |-> q[(n - i) + 1]]
  BY DEF Reverse
<1> HIDE DEF n, r
<1>3. \A i \in 1 .. n : (n - i) + 1 \in 1 .. n /\ (n - ((n - i) + 1)) + 1 = i
  BY <1>1
<1>4. r \in [1 .. n -> S]
  BY <1>1, <1>2, <1>3
<1>5. r \in Seq(S)
  BY <1>1, <1>4
<1>6. ToSet(r) = ToSet(q)
  <2>1. \A i \in DOMAIN r : \E k \in DOMAIN q : r[i] = q[k]
    BY <1>1, <1>2, <1>3
  <2>2. ASSUME NEW k \in DOMAIN q  PROVE \E i \in DOMAIN r : r[i] = q[k]
    <3> DEFINE i == (n - k) + 1
    <3>1. i \in 1 .. n /\ (n - i) + 1 = k
      BY <1>1, <1>3
    <3>2. i \in DOMAIN r /\ r[i] = q[(n - i) + 1]
      BY <1>2, <3>1
    <3>3. QED  BY <3>1, <3>2
  <2>3. QED  BY <2>1, <2>2 DEF ToSet
<1>7. QED  BY <1>5, <1>6 DEF r

LEMMA SelectedMembers ==
  ASSUME NEW S, NEW q \in Seq(S), NEW T \in SUBSET DOMAIN q
  PROVE  Selected(q, T) \in Seq(S) /\ ToSet(Selected(q, T)) = {q[i] : i \in T}
<1> DEFINE r == Selected(q, T)
           at == InOrder(T)
<1>1. DOMAIN q = 1 .. Len(q) /\ Len(q) \in Nat /\ \A i \in 1 .. Len(q) : q[i] \in S
  BY LenProperties, ElementOfSeq
<1>2. T \in SUBSET Nat /\ IsFiniteSet(T)
  <2>1. IsFiniteSet(1 .. Len(q))
    BY <1>1, IntervalFinite
  <2>2. QED  BY <1>1, <2>1, FS_Subset
<1>3. Size(T) \in Nat /\ at \in [1 .. Size(T) -> T] /\ \A i \in T : \E k \in 1 .. Size(T) : at[k] = i
  <2>1. Size(T) \in Nat /\ at \in [1 .. Size(T) -> T]
    BY <1>2, InOrderProperties
  <2>2. \A i \in T : Size(Upto(T, i)) \in 1 .. Size(T) /\ at[Size(Upto(T, i))] = i
    BY <1>2, InOrderProperties
  <2>3. QED  BY <2>1, <2>2
<1>4. r = [k \in 1 .. Size(T) |-> q[at[k]]]
  BY <1>3 DEF Selected
<1> HIDE DEF r, at
<1>5. r \in [1 .. Size(T) -> S]
  BY <1>1, <1>3, <1>4
<1>6. r \in Seq(S)
  BY <1>3, <1>5
<1>7. ToSet(r) = {q[i] : i \in T}
  BY <1>3, <1>4 DEF ToSet
<1>8. QED  BY <1>6, <1>7 DEF r

LEMMA RemoveAtMembers ==
  ASSUME NEW S, NEW q \in Seq(S), NEW n \in DOMAIN q
  PROVE  RemoveAt(q, n) \in Seq(S) /\ ToSet(RemoveAt(q, n)) = {q[i] : i \in DOMAIN q \ {n}}
<1> DEFINE u == SubSeq(q, 1, n - 1)
           v == SubSeq(q, n + 1, Len(q))
<1>1. Len(q) \in Nat /\ DOMAIN q = 1 .. Len(q) /\ n \in 1 .. Len(q) /\ \A i \in 1 .. Len(q) : q[i] \in S
  BY LenProperties, ElementOfSeq
<1>2. /\ 1 \in Int /\ n - 1 \in Int /\ n + 1 \in Int /\ Len(q) \in Int
      /\ \A i \in 1 .. n - 1 : q[i] \in S
      /\ \A i \in n + 1 .. Len(q) : q[i] \in S
  BY <1>1
<1>3. /\ u \in Seq(S) /\ Len(u) = IF 1 <= n - 1 THEN (n - 1) - 1 + 1 ELSE 0
      /\ \A i \in 1 .. (n - 1) - 1 + 1 : u[i] = q[1 + i - 1]
  BY <1>2, SubSeqProperties
<1>4. /\ v \in Seq(S) /\ Len(v) = IF n + 1 <= Len(q) THEN Len(q) - (n + 1) + 1 ELSE 0
      /\ \A i \in 1 .. Len(q) - (n + 1) + 1 : v[i] = q[n + 1 + i - 1]
  BY <1>2, SubSeqProperties
<1> HIDE DEF u, v
<1>5. /\ DOMAIN u = 1 .. n - 1 /\ \A i \in 1 .. n - 1 : u[i] = q[i]
      /\ DOMAIN v = 1 .. Len(q) - n /\ \A i \in 1 .. Len(q) - n : v[i] = q[n + i]
  <2>1. DOMAIN u = 1 .. Len(u) /\ DOMAIN v = 1 .. Len(v)
    BY <1>3, <1>4, LenProperties
  <2>2. Len(u) = n - 1 /\ Len(v) = Len(q) - n
    BY <1>1, <1>3, <1>4
  <2>3. \A i \in 1 .. n - 1 : u[i] = q[i]
    BY <1>1, <1>3
  <2>4. \A i \in 1 .. Len(q) - n : n + 1 + i - 1 = n + i /\ Len(q) - (n + 1) + 1 = Len(q) - n
    BY <1>1
  <2>5. \A i \in 1 .. Len(q) - n : v[i] = q[n + i]
    BY <1>4, <2>4
  <2>6. QED  BY <2>1, <2>2, <2>3, <2>5
<1>6. ASSUME NEW e  PROVE e \in ToSet(u) \cup ToSet(v) <=> e \in {q[i] : i \in DOMAIN q \ {n}}
  <2>1. ASSUME NEW i \in 1 .. n - 1  PROVE i \in DOMAIN q \ {n}
    BY <1>1
  <2>2. ASSUME NEW i \in 1 .. Len(q) - n  PROVE n + i \in DOMAIN q \ {n}
    BY <1>1
  <2>3. ASSUME NEW i \in DOMAIN q \ {n}, i < n  PROVE i \in 1 .. n - 1
    BY <1>1, <2>3
  <2>4. ASSUME NEW i \in DOMAIN q \ {n}, ~(i < n)  PROVE i - n \in 1 .. Len(q) - n /\ n + (i - n) = i
    BY <1>1, <2>4
  <2>5. e \in ToSet(u) \cup ToSet(v) => e \in {q[i] : i \in DOMAIN q \ {n}}
    BY <1>5, <2>1, <2>2 DEF ToSet
  <2>6. ASSUME NEW i \in DOMAIN q \ {n}, e = q[i]  PROVE e \in ToSet(u) \cup ToSet(v)
    <3>1. CASE i < n
      <4>1. i \in DOMAIN u /\ u[i] = e
        BY <1>5, <2>3, <2>6, <3>1
      <4>2. QED  BY <4>1 DEF ToSet
    <3>2. CASE ~(i < n)
      <4>1. i - n \in DOMAIN v /\ v[i - n] = q[n + (i - n)] /\ n + (i - n) = i
        BY <1>5, <2>4, <3>2
      <4>2. QED  BY <2>6, <4>1 DEF ToSet
    <3>3. QED  BY <3>1, <3>2
  <2>7. QED  BY <2>5, <2>6
<1>7. QED
  <2>1. RemoveAt(q, n) = u \o v
    BY DEF RemoveAt, u, v
  <2>2. u \o v \in Seq(S) /\ ToSet(u \o v) = ToSet(u) \cup ToSet(v)
    BY <1>3, <1>4, ConcatMembers
  <2>3. QED  BY <1>6, <2>1, <2>2

-----------------------------------------------------------------------------
(* The table of relations between two predicates.                          *)

LEMMA OpIndices ==
  /\ OpIndex["<"] = 1 /\ OpIndex["<="] = 2 /\ OpIndex["="] = 3
  /\ OpIndex[">="] = 4 /\ OpIndex[">"] = 5 /\ OpIndex["<>"] = 6
BY DEF OpIndex, Ops

Relations == {"/", "l", "r", "b", "!", "=", "<", ">"}

(* What the relation of two predicates on a value u says of them.          *)
Says(r, u, op, v, oq, w) ==
  /\ r \in {"r", "b"} => (Compare(u, op, v) => Compare(u, oq, w))
  /\ r = "l" => (Compare(u, oq, w) => Compare(u, op, v))
  /\ r = "!" => ~(Compare(u, op, v) /\ Compare(u, oq, w))
  /\ r \in {"=", "<", ">"} => v = w /\ (Compare(u, op, v) /\ Compare(u, oq, w) <=> Compare(u, r, v))

LEMMA AboveExact ==
  ASSUME NEW op \in Ops, NEW oq \in Ops, NEW v \in Nat, NEW w \in Nat, v > w
  PROVE  LET r == Above[OpIndex[op]][OpIndex[oq]] IN
         /\ r \in Relations /\ \A u \in Nat : Says(r, u, op, v, oq, w)
         /\ r = ">" => "<>" \in {op, oq}
<1>1. CASE op = "<"
  BY <1>1, OpIndices, Comparisons DEF Above, Says, Relations, Ops
<1>2. CASE op = "<="
  BY <1>2, OpIndices, Comparisons DEF Above, Says, Relations, Ops
<1>3. CASE op = "="
  BY <1>3, OpIndices, Comparisons DEF Above, Says, Relations, Ops
<1>4. CASE op = ">="
  BY <1>4, OpIndices, Comparisons DEF Above, Says, Relations, Ops
<1>5. CASE op = ">"
  BY <1>5, OpIndices, Comparisons DEF Above, Says, Relations, Ops
<1>6. CASE op = "<>"
  BY <1>6, OpIndices, Comparisons DEF Above, Says, Relations, Ops
<1>7. QED  BY <1>1, <1>2, <1>3, <1>4, <1>5, <1>6 DEF Ops

LEMMA SameExact ==
  ASSUME NEW op \in Ops, NEW oq \in Ops, NEW v \in Nat, NEW w \in Nat, v = w
  PROVE  LET r == Same[OpIndex[op]][OpIndex[oq]] IN
         /\ r \in Relations /\ \A u \in Nat : Says(r, u, op, v, oq, w)
         /\ r = ">" => "<>" \in {op, oq}
<1>1. CASE op = "<"
  BY <1>1, OpIndices, Comparisons DEF Same, Says, Relations, Ops
<1>2. CASE op = "<="
  BY <1>2, OpIndices, Comparisons DEF Same, Says, Relations, Ops
<1>3. CASE op = "="
  BY <1>3, OpIndices, Comparisons DEF Same, Says, Relations, Ops
<1>4. CASE op = ">="
  BY <1>4, OpIndices, Comparisons DEF Same, Says, Relations, Ops
<1>5. CASE op = ">"
  BY <1>5, OpIndices, Comparisons DEF Same, Says, Relations, Ops
<1>6. CASE op = "<>"
  BY <1>6, OpIndices, Comparisons DEF Same, Says, Relations, Ops
<1>7. QED  BY <1>1, <1>2, <1>3, <1>4, <1>5, <1>6 DEF Ops

LEMMA BelowExact ==
  ASSUME NEW op \in Ops, NEW oq \in Ops, NEW v \in Nat, NEW w \in Nat, v < w
  PROVE  LET r == Below[OpIndex[op]][OpIndex[oq]] IN
         /\ r \in Relations /\ \A u \in Nat : Says(r, u, op, v, oq, w)
         /\ r = ">" => "<>" \in {op, oq}
<1>1. CASE op = "<"
  BY <1>1, OpIndices, Comparisons DEF Below, Says, Relations, Ops
<1>2. CASE op = "<="
  BY <1>2, OpIndices, Comparisons DEF Below, Says, Relations, Ops
<1>3. CASE op = "="
  BY <1>3, OpIndices, Comparisons DEF Below, Says, Relations, Ops
<1>4. CASE op = ">="
  BY <1>4, OpIndices, Comparisons DEF Below, Says, Relations, Ops
<1>5. CASE op = ">"
  BY <1>5, OpIndices, Comparisons DEF Below, Says, Relations, Ops
<1>6. CASE op = "<>"
  BY <1>6, OpIndices, Comparisons DEF Below, Says, Relations, Ops
<1>7. QED  BY <1>1, <1>2, <1>3, <1>4, <1>5, <1>6 DEF Ops

LEMMA RelationExact ==
  ASSUME NEW p \in Predicate, NEW q \in Predicate, NEW r, r = RelationOf(p, q), r # "/"
  PROVE  /\ IsLiteral(p) /\ IsLiteral(q) /\ p.attr = q.attr
         /\ r \in Relations /\ \A u \in Nat : Says(r, u, p.op, p.value, q.op, q.value)
         /\ r = ">" => "<>" \in {p.op, q.op}
<1>1. IsLiteral(p) /\ IsLiteral(q) /\ p.attr = q.attr /\ r = Relation(p, q)
  BY DEF RelationOf
<1>2. p.op \in Ops /\ q.op \in Ops /\ p.value \in Nat /\ q.value \in Nat
  BY DEF Predicate
<1> DEFINE v == p.value
           w == q.value
           op == p.op
           oq == q.op
<1>3. r = (IF v > w THEN Above ELSE IF v = w THEN Same ELSE Below)[OpIndex[op]][OpIndex[oq]]
  BY <1>1 DEF Relation
<1> HIDE DEF v, w, op, oq
<1>4. op \in Ops /\ oq \in Ops /\ v \in Nat /\ w \in Nat
  BY <1>2 DEF v, w, op, oq
<1>5. r \in Relations /\ (\A u \in Nat : Says(r, u, op, v, oq, w)) /\ (r = ">" => "<>" \in {op, oq})
  <2>1. CASE v > w
    <3>1. r = Above[OpIndex[op]][OpIndex[oq]]
      BY <1>3, <2>1
    <3>2. QED  BY <1>4, <2>1, <3>1, AboveExact
  <2>2. CASE v = w
    <3>1. ~(v > w)
      BY <1>4, <2>2
    <3>2. r = Same[OpIndex[op]][OpIndex[oq]]
      BY <1>3, <2>2, <3>1
    <3>3. QED  BY <1>4, <2>2, <3>2, SameExact
  <2>3. CASE v < w
    <3>1. ~(v > w) /\ v # w
      BY <1>4, <2>3
    <3>2. r = Below[OpIndex[op]][OpIndex[oq]]
      BY <1>3, <3>1
    <3>3. QED  BY <1>4, <2>3, <3>2, BelowExact
  <2>4. QED  BY <1>4, <2>1, <2>2, <2>3
<1>6. QED  BY <1>1, <1>5 DEF v, w, op, oq

(* Two members of a list replaced by one.                                  *)
Replacing(q, m, e) == [q EXCEPT ![m] = e]

LEMMA MergedMembers ==
  ASSUME NEW S, NEW q \in Seq(S), NEW m \in DOMAIN q, NEW n \in DOMAIN q, m # n, NEW e \in S
  PROVE  /\ RemoveAt(Replacing(q, m, e), n) \in Seq(S)
         /\ ToSet(RemoveAt(Replacing(q, m, e), n)) = {q[i] : i \in DOMAIN q \ {m, n}} \cup {e}
<1> DEFINE r == Replacing(q, m, e)
<1>1. r \in Seq(S) /\ DOMAIN r = DOMAIN q
  BY ExceptSeq, LenProperties DEF Replacing
<1>2. \A i \in DOMAIN q : r[i] = IF i = m THEN e ELSE q[i]
  BY DEF Replacing
<1> HIDE DEF r
<1>3. RemoveAt(r, n) \in Seq(S) /\ ToSet(RemoveAt(r, n)) = {r[i] : i \in DOMAIN r \ {n}}
  BY <1>1, RemoveAtMembers
<1>4. {r[i] : i \in DOMAIN r \ {n}} = {q[i] : i \in DOMAIN q \ {m, n}} \cup {e}
  BY <1>1, <1>2
<1>5. QED  BY <1>3, <1>4 DEF r

-----------------------------------------------------------------------------
(* What rewriting keeps of a disjunct, as a set of predicates.             *)

Hold(ps, b, h) == \A p \in ps : Holds(p, p.op, b, h)
Possible(orig) == \E b, h \in job.rows : AsksFor(orig, b, h)

(* While the disjunct can hold it has the same meaning; when it never does *)
(* it stays so or is empty, and is such that relaxing it changes nothing.  *)
KeptBy(ps, orig) ==
  /\ ps \in SUBSET Predicate
  /\ \A p \in ps : IsLiteral(p) /\ p.op = "<>" => p.attr.col \notin OrderedColumns
  /\ Possible(orig) => \A b, h \in job.rows : AsksFor(orig, b, h) <=> Hold(ps, b, h)
  /\ ~Possible(orig) =>
       /\ ps = {} \/ \A b, h \in job.rows : ~Hold(ps, b, h)
       /\ \A p \in ps : p.op # "<>"
       /\ \A p \in ps : IsLiteral(p) /\ p.op = ">" => \E b, h \in job.rows : Holds(p, ">", b, h)

LEMMA LiteralHolds ==
  ASSUME job \in Jobs, NEW p, IsLiteral(p), p.attr \in Attribute, NEW b \in job.rows, NEW h \in job.rows
  PROVE  /\ ValueOf(p.attr, b, h) \in Nat
         /\ \A op : Holds(p, op, b, h) <=> Compare(ValueOf(p.attr, b, h), op, p.value)
<1>1. b \in Row /\ h \in Row /\ p.attr.col \in Columns
  BY JobRows DEF Attribute
<1>2. b[p.attr.col] \in Nat /\ h[p.attr.col] \in Nat
  BY <1>1 DEF Row
<1>3. QED  BY <1>2 DEF Holds, ValueOf

(* Two predicates p and q of a disjunct give way to one, e.                *)
LEMMA MergeKept ==
  ASSUME job \in Jobs, NEW rest, NEW p, NEW q, NEW e, NEW orig, KeptBy(rest \cup {p, q}, orig),
         IsLiteral(p), IsLiteral(q), p.attr = q.attr, e \in Predicate, IsLiteral(e), e.attr = p.attr,
         \A u \in Nat : Compare(u, p.op, p.value) /\ Compare(u, q.op, q.value) <=> Compare(u, e.op, e.value),
         e = p \/ e = q \/ (e.op \in {"=", "<", ">"} /\ (e.op = ">" => "<>" \in {p.op, q.op}))
  PROVE  KeptBy(rest \cup {e}, orig)
<1> DEFINE old == rest \cup {p, q}
           new == rest \cup {e}
<1>1. p \in Predicate /\ q \in Predicate /\ p.attr \in Attribute
  BY DEF KeptBy, Predicate
<1>2. ASSUME NEW b \in job.rows, NEW h \in job.rows
      PROVE  Hold(new, b, h) <=> Hold(old, b, h)
  <2>1. ValueOf(p.attr, b, h) \in Nat
    BY <1>1, LiteralHolds
  <2>2. /\ Holds(p, p.op, b, h) <=> Compare(ValueOf(p.attr, b, h), p.op, p.value)
        /\ Holds(q, q.op, b, h) <=> Compare(ValueOf(p.attr, b, h), q.op, q.value)
        /\ Holds(e, e.op, b, h) <=> Compare(ValueOf(p.attr, b, h), e.op, e.value)
    BY <1>1, LiteralHolds
  <2>3. Holds(p, p.op, b, h) /\ Holds(q, q.op, b, h) <=> Holds(e, e.op, b, h)
    BY <2>1, <2>2
  <2>4. QED  BY <2>3 DEF Hold
<1>3. \A o \in new : o \in old \/ o = e
  OBVIOUS
<1>4. p \in old /\ q \in old
  OBVIOUS
<1> HIDE DEF old, new
<1>5. KeptBy(old, orig)
  BY DEF old
<1>6. new \in SUBSET Predicate
  BY <1>3, <1>5 DEF KeptBy
<1>7. ASSUME NEW o \in new, IsLiteral(o), o.op = "<>"  PROVE o.attr.col \notin OrderedColumns
  <2>1. o \in old
    BY <1>3, <1>4, <1>7
  <2>2. QED  BY <1>5, <1>7, <2>1 DEF KeptBy
<1>8. Possible(orig) => \A b, h \in job.rows : AsksFor(orig, b, h) <=> Hold(new, b, h)
  BY <1>2, <1>5 DEF KeptBy
<1>9. ASSUME ~Possible(orig)
      PROVE  /\ \A b, h \in job.rows : ~Hold(new, b, h)
             /\ \A o \in new : o.op # "<>"
             /\ \A o \in new : IsLiteral(o) /\ o.op = ">" => \E b, h \in job.rows : Holds(o, ">", b, h)
  <2>1. /\ \A b, h \in job.rows : ~Hold(old, b, h)
        /\ \A o \in old : o.op # "<>"
        /\ \A o \in old : IsLiteral(o) /\ o.op = ">" => \E b, h \in job.rows : Holds(o, ">", b, h)
    BY <1>4, <1>5, <1>9 DEF KeptBy
  <2>2. "<>" \notin {p.op, q.op}
    BY <1>4, <2>1
  <2>3. e \in old \/ e.op \in {"=", "<"}
    BY <1>4, <2>2
  <2>4. QED  BY <1>2, <1>3, <2>1, <2>3
<1>10. KeptBy(new, orig)
  BY <1>6, <1>7, <1>8, <1>9 DEF KeptBy
<1>11. QED  BY <1>10 DEF new

Kept(list, orig) == list \in Seq(Predicate) /\ KeptBy(ToSet(list), orig)

(* A turn of the inner loop of compactPredicates, whatever it has read.     *)
LEMMA TurnMembers ==
  ASSUME NEW l \in Seq(Predicate), NEW m \in DOMAIN l, NEW n \in DOMAIN l, m # n,
         NEW r
  PROVE  /\ Turn(l, m, n, r) \in Seq(Predicate)
         /\ \A e \in ToSet(Turn(l, m, n, r)) :
              \E o \in ToSet(l) : e.attr = o.attr /\ e.other = o.other
<1>1. l[m] \in Predicate /\ l[n] \in Predicate
  BY LenProperties, ElementOfSeq
<1>2. \A i \in DOMAIN l : l[i] \in ToSet(l)
  BY DEF ToSet
<1>3. CASE r = "!"
  BY <1>3 DEF Turn, ToSet
<1>4. CASE r \in {"=", "<", ">"}
  <2> DEFINE e == [l[m] EXCEPT !.op = r]
  <2>1. e \in Predicate /\ e.attr = l[m].attr /\ e.other = l[m].other
    BY <1>1, <1>4 DEF Predicate, Ops
  <2>2. Turn(l, m, n, r) = RemoveAt(Replacing(l, m, e), n)
    BY <1>4 DEF Turn, Replacing
  <2> HIDE DEF e
  <2>3. /\ RemoveAt(Replacing(l, m, e), n) \in Seq(Predicate)
        /\ ToSet(RemoveAt(Replacing(l, m, e), n)) = {l[i] : i \in DOMAIN l \ {m, n}} \cup {e}
    BY <2>1, MergedMembers
  <2>4. QED  BY <1>2, <2>1, <2>2, <2>3
<1>5. CASE r = "l"
  <2>1. Turn(l, m, n, r) = RemoveAt(Replacing(l, m, l[n]), n)
    BY <1>5 DEF Turn, Replacing
  <2>2. /\ RemoveAt(Replacing(l, m, l[n]), n) \in Seq(Predicate)
        /\ ToSet(RemoveAt(Replacing(l, m, l[n]), n)) = {l[i] : i \in DOMAIN l \ {m, n}} \cup {l[n]}
    BY <1>1, MergedMembers
  <2>3. QED  BY <1>2, <2>1, <2>2
<1>6. CASE r \notin {"/", "!", "=", "<", ">", "l"}
  <2>1. Turn(l, m, n, r) = RemoveAt(l, n)
    BY <1>6 DEF Turn
  <2>2. RemoveAt(l, n) \in Seq(Predicate) /\ ToSet(RemoveAt(l, n)) = {l[i] : i \in DOMAIN l \ {n}}
    BY RemoveAtMembers
  <2>3. QED  BY <1>2, <2>1, <2>2
<1>7. CASE r = "/"
  <2>1. Turn(l, m, n, r) = l
    BY <1>7 DEF Turn
  <2>2. QED  BY <2>1
<1>8. QED  BY <1>3, <1>4, <1>5, <1>6, <1>7

LEMMA TurnKept ==
  ASSUME job \in Jobs, NEW l, NEW orig, Kept(l, orig), NEW m \in DOMAIN l, NEW n \in DOMAIN l, m # n,
         NEW r, r = "/" \/ r = RelationOf(l[m], l[n])
  PROVE  Kept(Turn(l, m, n, r), orig)
<1> DEFINE p == l[m]
           q == l[n]
           rest == {l[i] : i \in DOMAIN l \ {m, n}}
<1>1. l \in Seq(Predicate) /\ p \in Predicate /\ q \in Predicate
  BY LenProperties, ElementOfSeq DEF Kept
<1>2. ToSet(l) = rest \cup {p, q}
  BY DEF ToSet
<1> HIDE DEF rest
<1>3. Turn(l, m, n, r) \in Seq(Predicate)
  BY <1>1, TurnMembers
<1>4. KeptBy(rest \cup {p, q}, orig)
  BY <1>2 DEF Kept
<1>5. p.op \in Ops /\ q.op \in Ops /\ p.value \in Nat /\ q.value \in Nat /\ p.attr \in Attribute
  BY <1>1 DEF Predicate
<1>6. r # "/" => /\ IsLiteral(p) /\ IsLiteral(q) /\ p.attr = q.attr
                 /\ r \in Relations /\ \A u \in Nat : Says(r, u, p.op, p.value, q.op, q.value)
                 /\ r = ">" => "<>" \in {p.op, q.op}
  BY <1>1, RelationExact
<1> HIDE DEF p, q
<1>7. CASE r = "!"
  <2>1. Turn(l, m, n, r) = <<>> /\ ToSet(<<>>) = {}
    BY <1>7 DEF Turn, ToSet
  <2>2. \A b, h \in job.rows : ~Hold(rest \cup {p, q}, b, h)
    <3>1. ASSUME NEW b \in job.rows, NEW h \in job.rows, Hold(rest \cup {p, q}, b, h)
          PROVE  FALSE
      <4>1. Holds(p, p.op, b, h) /\ Holds(q, q.op, b, h)
        BY <3>1 DEF Hold
      <4>2. ValueOf(p.attr, b, h) \in Nat /\ Compare(ValueOf(p.attr, b, h), p.op, p.value)
            /\ Compare(ValueOf(p.attr, b, h), q.op, q.value)
        BY <1>5, <1>6, <1>7, <4>1, LiteralHolds
      <4>3. QED  BY <1>6, <1>7, <4>2 DEF Says
    <3>2. QED  BY <3>1
  <2>3. ~Possible(orig)
    BY <1>4, <2>2 DEF KeptBy, Possible
  <2>4. KeptBy({}, orig)
    BY <2>3 DEF KeptBy
  <2>5. QED  BY <1>3, <2>1, <2>4 DEF Kept
<1>8. CASE r \in {"=", "<", ">"}
  <2> DEFINE e == [p EXCEPT !.op = r]
  <2>1. e \in Predicate /\ e.attr = p.attr /\ e.other = p.other /\ e.op = r /\ e.value = p.value
    BY <1>1, <1>8 DEF Predicate, Ops
  <2>2. Turn(l, m, n, r) = RemoveAt(Replacing(l, m, e), n)
    BY <1>8 DEF Turn, Replacing, p
  <2> HIDE DEF e
  <2>3. ToSet(Turn(l, m, n, r)) = rest \cup {e}
    BY <1>1, <2>1, <2>2, MergedMembers DEF rest
  <2>4. \A u \in Nat : Compare(u, p.op, p.value) /\ Compare(u, q.op, q.value) <=> Compare(u, e.op, e.value)
    BY <1>6, <1>8, <2>1 DEF Says
  <2>5. IsLiteral(e)
    BY <1>6, <1>8, <2>1 DEF IsLiteral
  <2>6. KeptBy(rest \cup {e}, orig)
    BY <1>4, <1>6, <1>8, <2>1, <2>4, <2>5, MergeKept
  <2>7. QED  BY <1>3, <2>3, <2>6 DEF Kept
<1>9. CASE r = "l"
  <2>1. Turn(l, m, n, r) = RemoveAt(Replacing(l, m, q), n)
    BY <1>9 DEF Turn, Replacing, q
  <2>2. ToSet(Turn(l, m, n, r)) = rest \cup {q}
    BY <1>1, <2>1, MergedMembers DEF rest
  <2>3. \A u \in Nat : Compare(u, p.op, p.value) /\ Compare(u, q.op, q.value) <=> Compare(u, q.op, q.value)
    BY <1>6, <1>9 DEF Says
  <2>4. KeptBy(rest \cup {q}, orig)
    BY <1>1, <1>4, <1>6, <1>9, <2>3, MergeKept
  <2>5. QED  BY <1>3, <2>2, <2>4 DEF Kept
<1>10. CASE r \in {"r", "b"}
  <2>1. Turn(l, m, n, r) = RemoveAt(l, n)
    BY <1>10 DEF Turn
  <2>2. ToSet(RemoveAt(l, n)) = {l[i] : i \in DOMAIN l \ {n}}
    BY <1>1, RemoveAtMembers
  <2>3. {l[i] : i \in DOMAIN l \ {n}} = rest \cup {p}
    BY DEF rest, p
  <2>4. \A u \in Nat : Compare(u, p.op, p.value) /\ Compare(u, q.op, q.value) <=> Compare(u, p.op, p.value)
    BY <1>6, <1>10 DEF Says
  <2>5. KeptBy(rest \cup {p}, orig)
    BY <1>1, <1>4, <1>6, <1>10, <2>4, MergeKept
  <2>6. QED  BY <1>3, <2>1, <2>2, <2>3, <2>5 DEF Kept
<1>11. CASE r = "/"
  <2>1. Turn(l, m, n, r) = l
    BY <1>11 DEF Turn
  <2>2. QED  BY <2>1
<1>12. QED  BY <1>6, <1>7, <1>8, <1>9, <1>10, <1>11 DEF Relations

-----------------------------------------------------------------------------
(* The substitution of the keys in an AND list.                            *)

(* The position in the catalogue of the keys in the order of the multimap. *)
SortedAt == OrderedBy(DOMAIN mappings, [k \in DOMAIN mappings |-> Least(mappings[k].cols)])

LEMMA SortedKeys ==
  ASSUME job \in Jobs, mappings = LoadMappings(job)
  PROVE  /\ DOMAIN SortedMappings \in SUBSET Nat
         /\ \A k \in DOMAIN SortedMappings : SortedAt[k] \in DOMAIN mappings /\ SortedMappings[k] = mappings[SortedAt[k]]
         /\ \A k, l \in DOMAIN SortedMappings : SortedAt[k] = SortedAt[l] => k = l
         /\ \A i \in DOMAIN mappings : \E k \in DOMAIN SortedMappings : SortedAt[k] = i
<1> DEFINE key == [k \in DOMAIN mappings |-> Least(mappings[k].cols)]
           S == {<<key[i], i>> : i \in DOMAIN mappings}
           n == Size(S)
           listed == Listed[S]
<1>1. Len(mappings) \in Nat /\ DOMAIN mappings = 1 .. Len(mappings)
      /\ \A k \in DOMAIN mappings : Key(mappings[k])
  BY LoadedKeys, ListDomain
<1>2. \A k \in DOMAIN mappings : Least(mappings[k].cols) \in Nat
  <2>1. ASSUME NEW k \in DOMAIN mappings  PROVE Least(mappings[k].cols) \in Nat
    <3>1. mappings[k].cols \in SUBSET Nat /\ mappings[k].cols # {}
      BY <1>1, JobsAssumption DEF Key
    <3>2. QED  BY <3>1, LeastProperties
  <2>2. QED  BY <2>1
<1>3. \A k \in DOMAIN mappings : key[k] \in Nat
  BY <1>2
<1> HIDE DEF key
<1>4. S \in SUBSET (Nat \X Nat)
  BY <1>1, <1>3
<1>5. IsFiniteSet(S)
  <2> DEFINE f == [i \in DOMAIN mappings |-> <<key[i], i>>]
  <2>1. f \in Surjection(DOMAIN mappings, S)
    BY DEF Surjection
  <2>2. IsFiniteSet(DOMAIN mappings)
    BY <1>1, IntervalFinite
  <2>3. QED  BY <2>1, <2>2, FS_Surjection
<1>6. /\ n \in Nat /\ listed \in [1 .. n -> S]
      /\ \A p \in S : \E k \in 1 .. n : listed[k] = p
      /\ \A k, l \in 1 .. n : k < l => listed[k] # listed[l]
  <2> HIDE DEF S
  <2>1. QED  BY <1>4, <1>5, ListedProperties
<1>7. SortedAt = [k \in DOMAIN listed |-> listed[k][2]]
  BY DEF SortedAt, OrderedBy, key
<1>8. SortedMappings = [k \in DOMAIN SortedAt |-> mappings[SortedAt[k]]]
  BY DEF SortedMappings, SortedAt
<1>9. \A p \in S : p[2] \in DOMAIN mappings /\ p = <<key[p[2]], p[2]>>
  OBVIOUS
<1>10. \A i \in DOMAIN mappings : <<key[i], i>> \in S
  OBVIOUS
<1> HIDE DEF S, n, listed
<1>11. DOMAIN SortedAt = 1 .. n /\ DOMAIN SortedMappings = 1 .. n
  BY <1>6, <1>7, <1>8
<1>12. \A k \in 1 .. n : SortedAt[k] = listed[k][2] /\ listed[k] \in S
  BY <1>6, <1>7
<1>13. \A k \in 1 .. n : SortedAt[k] \in DOMAIN mappings /\ listed[k] = <<key[SortedAt[k]], SortedAt[k]>>
  BY <1>9, <1>12
<1>14. ASSUME NEW k \in 1 .. n, NEW l \in 1 .. n, SortedAt[k] = SortedAt[l]  PROVE k = l
  <2>1. listed[k] = listed[l]
    BY <1>13, <1>14
  <2>2. ~(k < l) /\ ~(l < k)
    BY <1>6, <2>1
  <2>3. QED  BY <1>6, <2>2
<1>15. ASSUME NEW i \in DOMAIN mappings  PROVE \E k \in 1 .. n : SortedAt[k] = i
  <2>1. PICK k \in 1 .. n : listed[k] = <<key[i], i>>
    BY <1>6, <1>10
  <2>2. SortedAt[k] = i
    BY <1>12, <2>1
  <2>3. QED  BY <2>2
<1>16. QED  BY <1>6, <1>8, <1>11, <1>13, <1>14, <1>15

(* The references that the keys found in a list have.                      *)
RefsOf(list, prefix) == UNION {SortedMappings[k].ref : k \in FoundBy(list, prefix)}
Single(list, prefix) == \A k \in FoundBy(list, prefix) : Cardinality(SortedMappings[k].ref) = 1

LEMMA NewForBound ==
  ASSUME job \in Jobs, mappings = LoadMappings(job), NEW list, NEW prefix \in Sides,
         NEW ref \in RefsOf(list, prefix)
  PROVE  /\ ref \in Columns /\ Bounds(NewFor(ref, list, prefix), ref, prefix)
         /\ NewFor(ref, list, prefix) \in Seq(Predicate)
         /\ DOMAIN NewFor(ref, list, prefix) \subseteq 1 .. 2
<1> DEFINE N == NewFor(ref, list, prefix)
           first == Least({k \in FoundBy(list, prefix) : ref \in SortedMappings[k].ref})
           ps == {list[i] : i \in PredicatesOn(list, SortedMappings[first], prefix)}
<1>1. ref \in Columns
  <2>1. PICK k \in FoundBy(list, prefix) : ref \in SortedMappings[k].ref
    BY DEF RefsOf
  <2>2. k \in DOMAIN SortedMappings
    BY DEF FoundBy
  <2>3. SortedAt[k] \in DOMAIN mappings /\ SortedMappings[k] = mappings[SortedAt[k]]
    BY <2>2, SortedKeys
  <2>4. Key(SortedMappings[k])
    BY <2>3, LoadedKeys, ListDomain
  <2>5. QED  BY <2>1, <2>4 DEF Key
<1>2. N = NewConditions(ref, ps, prefix)
  BY DEF NewFor
<1> HIDE DEF N, ps
<1>3. Bounds(N, ref, prefix)
  BY <1>1, <1>2, NewConditionsBound
<1>4. Len(N) \in 0 .. 2 /\ DOMAIN N = 1 .. Len(N)
  <2>1. IsList(N) /\ Len(N) <= 2
    BY <1>3 DEF Bounds
  <2>2. Len(N) \in Nat /\ DOMAIN N = 1 .. Len(N)
    BY <2>1, ListDomain
  <2>3. QED  BY <2>1, <2>2
<1>5. ASSUME NEW i \in 1 .. Len(N)  PROVE N[i] \in Predicate
  <2>1. \E op \in Ops, v \in Nat : N[i] = Bound(prefix, ref, op, v)
    BY <1>3 DEF Bounds, Ops
  <2>2. PICK op \in Ops, v \in Nat : N[i] = Bound(prefix, ref, op, v)
    BY <2>1
  <2>3. [prefix |-> prefix, col |-> ref] \in Attribute /\ <<>> \in Seq(Attribute)
    BY <1>1 DEF Attribute
  <2>4. QED  BY <2>2, <2>3 DEF Bound, Predicate
<1>6. N \in Seq(Predicate)
  BY <1>3, <1>5, ListInSet DEF Bounds
<1>7. QED  BY <1>1, <1>3, <1>4, <1>6 DEF N

LEMMA AddedMembers ==
  ASSUME job \in Jobs, mappings = LoadMappings(job), NEW list, NEW prefix \in Sides
  PROVE  /\ Added(list, prefix) \in Seq(Predicate)
         /\ ToSet(Added(list, prefix)) = UNION {ToSet(NewFor(r, list, prefix)) : r \in RefsOf(list, prefix)}
<1> DEFINE refs == RefsOf(list, prefix)
           new(r) == NewFor(r, list, prefix)
           A == UNION {{<<r, i>> : i \in DOMAIN new(r)} : r \in refs}
           n == Size(A)
           at == Listed[A]
           added == Added(list, prefix)
<1>1. \A r \in refs : r \in Columns /\ new(r) \in Seq(Predicate) /\ DOMAIN new(r) \subseteq 1 .. 2
  BY NewForBound
<1>2. added = [k \in DOMAIN at |-> new(at[k][1])[at[k][2]]]
  BY DEF Added, RefsOf
<1> HIDE DEF refs, new, added
<1>3. \A p \in A : p[1] \in refs /\ p[2] \in DOMAIN new(p[1])
  OBVIOUS
<1>4. \A r \in refs : \A i \in DOMAIN new(r) : <<r, i>> \in A
  OBVIOUS
<1>5. A \in SUBSET (Nat \X Nat) /\ IsFiniteSet(A)
  <2>1. A \in SUBSET (Columns \X (1 .. 2))
    BY <1>1
  <2>2. IsFiniteSet(Columns \X (1 .. 2))
    <3>1. IsFiniteSet(1 .. 2) /\ IsFiniteSet(Columns)
      <4>1. \A n2 \in Nat : IsFiniteSet(1 .. n2)
        BY FS_Interval
      <4>2. QED  BY <4>1, JobsAssumption
    <3>2. QED  BY <3>1, FS_Product
  <2>3. A \in SUBSET (Nat \X Nat)
    <3>1. \A c \in Columns : c \in Nat
      BY JobsAssumption
    <3>2. \A i \in 1 .. 2 : i \in Nat
      OBVIOUS
    <3>3. \A r \in refs : \A i \in DOMAIN new(r) : r \in Nat /\ i \in Nat
      BY <1>1, <3>1, <3>2
    <3>4. QED  BY <3>3
  <2> HIDE DEF A
  <2>4. QED  BY <2>1, <2>2, <2>3, FS_Subset
<1> HIDE DEF A
<1>6. n \in Nat /\ at \in [1 .. n -> A] /\ \A p \in A : \E k \in 1 .. n : at[k] = p
  BY <1>5, ListedProperties
<1> HIDE DEF n, at
<1>7. \A k \in 1 .. n : added[k] = new(at[k][1])[at[k][2]] /\ at[k][1] \in refs /\ at[k][2] \in DOMAIN new(at[k][1])
  BY <1>2, <1>3, <1>6
<1>8. \A r \in refs : \A i \in DOMAIN new(r) : new(r)[i] \in Predicate
  BY <1>1, LenProperties, ElementOfSeq
<1>9. added \in [1 .. n -> Predicate]
  BY <1>2, <1>6, <1>7, <1>8
<1>10. added \in Seq(Predicate)
  BY <1>6, <1>9
<1>11. ASSUME NEW e  PROVE e \in ToSet(added) <=> \E r \in refs : e \in ToSet(new(r))
  <2>1. e \in ToSet(added) <=> \E k \in 1 .. n : e = added[k]
    BY <1>9 DEF ToSet
  <2>2. (\E r \in refs : e \in ToSet(new(r))) <=> \E r \in refs : \E i \in DOMAIN new(r) : e = new(r)[i]
    BY DEF ToSet
  <2>3. ASSUME NEW r \in refs, NEW i \in DOMAIN new(r)  PROVE \E k \in 1 .. n : added[k] = new(r)[i]
    <3>1. PICK k \in 1 .. n : at[k] = <<r, i>>
      BY <1>4, <1>6
    <3>2. QED  BY <1>7, <3>1
  <2>4. QED  BY <1>7, <2>1, <2>2, <2>3
<1>12. QED  BY <1>10, <1>11 DEF added, refs, new

LEMMA SubstitutedMembers ==
  ASSUME job \in Jobs, mappings = LoadMappings(job), NEW list \in Seq(Predicate), NEW prefix \in Sides
  PROVE  /\ SubstitutedList(list, prefix) \in Seq(Predicate)
         /\ ToSet(SubstitutedList(list, prefix))
              = (UNION {ToSet(NewFor(r, list, prefix)) : r \in RefsOf(list, prefix)})
                \cup {list[i] : i \in DOMAIN list \ Replaced(list, prefix)}
<1> DEFINE added == Added(list, prefix)
           kept == Selected(list, DOMAIN list \ Replaced(list, prefix))
           new == UNION {ToSet(NewFor(r, list, prefix)) : r \in RefsOf(list, prefix)}
           old == {list[i] : i \in DOMAIN list \ Replaced(list, prefix)}
<1>1. added \in Seq(Predicate)
      /\ ToSet(added) = new
  BY AddedMembers
<1>2. Reverse(added) \in Seq(Predicate) /\ ToSet(Reverse(added)) = ToSet(added)
  BY <1>1, ReverseMembers
<1>3. kept \in Seq(Predicate) /\ ToSet(kept) = old
  BY SelectedMembers
<1>4. SubstitutedList(list, prefix) = Reverse(added) \o kept
  BY DEF SubstitutedList
<1> HIDE DEF added, kept, new, old
<1>5. /\ Reverse(added) \o kept \in Seq(Predicate)
      /\ ToSet(Reverse(added) \o kept) = ToSet(Reverse(added)) \cup ToSet(kept)
  BY <1>2, <1>3, ConcatMembers
<1>6. ToSet(SubstitutedList(list, prefix)) = ToSet(added) \cup ToSet(kept)
  BY <1>2, <1>4, <1>5
<1>7. SubstitutedList(list, prefix) \in Seq(Predicate)
  BY <1>4, <1>5
<1>8. ToSet(SubstitutedList(list, prefix)) = new \cup old
  BY <1>1, <1>3, <1>6
<1>9. QED  BY <1>7, <1>8 DEF new, old

(* No two entries of the catalogue share a reference.                      *)
OwnReferences == \A i, j \in DOMAIN mappings : mappings[i].ref = mappings[j].ref => i = j

LEMMA NewForKey ==
  ASSUME job \in Jobs, mappings = LoadMappings(job), OwnReferences, NEW list, NEW prefix, Single(list, prefix),
         NEW k \in FoundBy(list, prefix), NEW ref \in SortedMappings[k].ref
  PROVE  /\ SortedMappings[k].ref = {ref}
         /\ NewFor(ref, list, prefix)
              = NewConditions(ref, {list[i] : i \in PredicatesOn(list, SortedMappings[k], prefix)}, prefix)
<1> DEFINE found == {l \in FoundBy(list, prefix) : ref \in SortedMappings[l].ref}
<1>1. \A l \in FoundBy(list, prefix) : l \in DOMAIN SortedMappings
  BY DEF FoundBy
<1>2. \A l \in FoundBy(list, prefix) : IsFiniteSet(SortedMappings[l].ref)
  <2>1. ASSUME NEW l \in FoundBy(list, prefix)  PROVE IsFiniteSet(SortedMappings[l].ref)
    <3>1. SortedAt[l] \in DOMAIN mappings /\ SortedMappings[l] = mappings[SortedAt[l]]
      BY <1>1, SortedKeys
    <3>2. SortedMappings[l].ref \in SUBSET Columns
      BY <3>1, LoadedKeys, ListDomain DEF Key
    <3>3. QED  BY <3>2, JobsAssumption, FS_Subset
  <2>2. QED  BY <2>1
<1>3. \A l \in FoundBy(list, prefix) : \E r : SortedMappings[l].ref = {r}
  BY <1>2, FS_Singleton DEF Single
<1>4. \A l \in found : SortedMappings[l].ref = {ref}
  BY <1>3
<1>5. \A l \in found : l = k
  <2>1. ASSUME NEW l \in found  PROVE l = k
    <3>1. SortedMappings[l].ref = SortedMappings[k].ref
      BY <1>4
    <3>2. /\ SortedAt[l] \in DOMAIN mappings /\ SortedMappings[l] = mappings[SortedAt[l]]
          /\ SortedAt[k] \in DOMAIN mappings /\ SortedMappings[k] = mappings[SortedAt[k]]
      BY <1>1, SortedKeys
    <3>3. SortedAt[l] = SortedAt[k]
      BY <3>1, <3>2 DEF OwnReferences
    <3>4. QED  BY <1>1, <3>3, SortedKeys
  <2>2. QED  BY <2>1
<1>6. found = {k} /\ k \in Nat
  BY <1>1, <1>5, SortedKeys
<1>7. Least(found) = k
  <2>1. Least(found) \in found
    BY <1>6, LeastProperties
  <2>2. QED  BY <1>5, <2>1
<1>8. QED  BY <1>4, <1>6, <1>7 DEF NewFor

(* The row that an attribute with a prefix is about.                       *)
Side(prefix, b, h) == IF prefix = "HEAD" THEN h ELSE b

LEMMA SideHolds ==
  ASSUME NEW p, IsLiteral(p), NEW b, NEW h
  PROVE  Holds(p, p.op, b, h) <=> Meets(Side(p.attr.prefix, b, h), p)
BY DEF Holds, Meets, Side, ValueOf

OnSide(list, k, prefix) == {list[i] : i \in PredicatesOn(list, SortedMappings[k], prefix)}
KeysHold == \A k \in DOMAIN mappings : KeyOf(mappings[k], job.rows)

LEMMA FoundOnKey ==
  ASSUME job \in Jobs, mappings = LoadMappings(job), KeysHold, NEW list \in Seq(Predicate),
         \A p \in ToSet(list) : IsLiteral(p) /\ p.op = "<>" => p.attr.col \notin OrderedColumns,
         NEW prefix, NEW k \in FoundBy(list, prefix)
  PROVE  /\ KeyOf(SortedMappings[k], job.rows) /\ OnKey(OnSide(list, k, prefix), SortedMappings[k])
         /\ OnSide(list, k, prefix) # {}
         /\ \A p \in OnSide(list, k, prefix) : p \in ToSet(list) /\ IsLiteral(p) /\ p.attr.prefix = prefix
<1> DEFINE m == SortedMappings[k]
           at == {i \in DOMAIN list :
                    /\ IsLiteral(list[i]) /\ list[i].attr.prefix = prefix /\ list[i].attr.col \in m.cols
                    /\ m.order = "None" => list[i].op = "="}
<1>1. k \in DOMAIN SortedMappings /\ PredicatesOn(list, m, prefix) # {}
  BY DEF FoundBy
<1>2. SortedAt[k] \in DOMAIN mappings /\ m = mappings[SortedAt[k]]
  BY <1>1, SortedKeys
<1>3. KeyOf(m, job.rows)
  BY <1>2 DEF KeysHold
<1>4. m \in ToSet(mappings)
  BY <1>2 DEF ToSet
<1>5. PredicatesOn(list, m, prefix) = at /\ at # {} /\ {list[i].attr.col : i \in at} = m.cols
  BY <1>1 DEF PredicatesOn
<1>6. OnSide(list, k, prefix) = {list[i] : i \in at}
  BY <1>5 DEF OnSide
<1>7. m.order # "None" => m.cols \subseteq OrderedColumns
  BY <1>4 DEF OrderedColumns
<1>8. \A i \in DOMAIN list : list[i] \in Predicate /\ list[i] \in ToSet(list)
  BY LenProperties, ElementOfSeq DEF ToSet
<1>9. \A i \in at : /\ i \in DOMAIN list /\ IsLiteral(list[i]) /\ list[i].attr.prefix = prefix
                    /\ list[i].attr.col \in m.cols /\ (m.order = "None" => list[i].op = "=")
  OBVIOUS
<1> HIDE DEF m, at
<1>10. \A i \in at : list[i].op \in Ops /\ list[i].value \in Nat
  BY <1>8, <1>9 DEF Predicate
<1>11. \A i \in at : m.order # "None" => list[i].op # "<>"
  BY <1>7, <1>8, <1>9
<1>12. OnKey({list[i] : i \in at}, m)
  <2>1. {p.attr.col : p \in {list[i] : i \in at}} = m.cols
    BY <1>5
  <2>2. \A p \in {list[i] : i \in at} : IF m.order = "None" THEN p.op = "=" ELSE p.op # "<>"
    BY <1>9, <1>11
  <2>3. \A p \in {list[i] : i \in at} : p.op \in Ops /\ p.value \in Nat
    BY <1>10
  <2>4. QED  BY <2>1, <2>2, <2>3 DEF OnKey
<1>13. QED  BY <1>3, <1>5, <1>6, <1>8, <1>9, <1>12 DEF m

(* What a key is replaced with means the same.                             *)
LEMMA KeySubstituted ==
  ASSUME job \in Jobs, mappings = LoadMappings(job), KeysHold, OwnReferences, NEW list \in Seq(Predicate),
         \A p \in ToSet(list) : IsLiteral(p) /\ p.op = "<>" => p.attr.col \notin OrderedColumns,
         NEW prefix \in Sides, Single(list, prefix), NEW k \in FoundBy(list, prefix),
         NEW ref \in SortedMappings[k].ref,
         \/ \E b, h \in job.rows : Hold(ToSet(list), b, h)
         \/ \A r \in job.rows : \A c \in Columns : r[c] # 0,
         NEW b \in job.rows, NEW h \in job.rows
  PROVE  Hold(OnSide(list, k, prefix), b, h) <=> Hold(ToSet(NewFor(ref, list, prefix)), b, h)
<1> DEFINE ps == OnSide(list, k, prefix)
           N == NewFor(ref, list, prefix)
           m == SortedMappings[k]
<1>1. m.ref = {ref} /\ N = NewConditions(ref, ps, prefix)
  BY NewForKey DEF OnSide
<1>2. KeyOf(m, job.rows) /\ OnKey(ps, m)
      /\ \A p \in ps : p \in ToSet(list) /\ IsLiteral(p) /\ p.attr.prefix = prefix
  BY FoundOnKey
<1>3. ref \in Columns
  BY <1>2 DEF KeyOf, Key
<1> HIDE DEF ps, N, m
<1>4. \A c, d \in job.rows : Hold(ps, c, d) <=> \A p \in ps : Meets(Side(prefix, c, d), p)
  BY <1>2, SideHolds DEF Hold
<1>5. \A c, d \in job.rows : Side(prefix, c, d) \in job.rows
  BY DEF Side
<1>6. \/ \E s \in job.rows : \A p \in ps : Meets(s, p)
      \/ \A s \in job.rows : s[ref] # 0
  <2>1. ASSUME NEW c \in job.rows, NEW d \in job.rows, Hold(ToSet(list), c, d)
        PROVE  \E s \in job.rows : \A p \in ps : Meets(s, p)
    <3>1. Hold(ps, c, d)
      BY <1>2, <2>1 DEF Hold
    <3>2. QED  BY <1>4, <1>5, <3>1
  <2>2. QED  BY <1>3, <2>1
<1>7. \A r \in job.rows : (\A p \in ps : Meets(r, p)) <=> \A i \in 1 .. Len(N) : Meets(r, N[i])
  <2> DEFINE M == NewConditions(ref, ps, prefix)
  <2>1. m.ref = {ref} /\ KeyOf(m, job.rows) /\ OnKey(ps, m)
    BY <1>1, <1>2
  <2>2. \A r \in job.rows : (\A p \in ps : Meets(r, p)) <=> \A i \in 1 .. Len(M) : Meets(r, M[i])
    BY <1>6, <2>1, NewConditionsExact
  <2>3. N = M
    BY <1>1
  <2> HIDE DEF M
  <2>4. QED  BY <2>2, <2>3
<1>8. IsList(N) /\ \A i \in 1 .. Len(N) : \E op \in {"=", "<=", ">="}, v \in Nat : N[i] = Bound(prefix, ref, op, v)
  BY <1>1, <1>3, NewConditionsBound DEF Bounds
<1>9. DOMAIN N = 1 .. Len(N)
  BY <1>8, ListDomain
<1>10. \A i \in 1 .. Len(N) : IsLiteral(N[i]) /\ N[i].attr.prefix = prefix
  <2>1. ASSUME NEW i \in 1 .. Len(N)  PROVE IsLiteral(N[i]) /\ N[i].attr.prefix = prefix
    <3>1. PICK op \in {"=", "<=", ">="}, v \in Nat : N[i] = Bound(prefix, ref, op, v)
      BY <1>8
    <3>2. Bound(prefix, ref, op, v).other = <<>> /\ Bound(prefix, ref, op, v).attr.prefix = prefix
      BY DEF Bound
    <3>3. QED  BY <3>1, <3>2 DEF IsLiteral
  <2>2. QED  BY <2>1
<1>11. Hold(ToSet(N), b, h) <=> \A i \in 1 .. Len(N) : Meets(Side(prefix, b, h), N[i])
  <2>1. Hold(ToSet(N), b, h) <=> \A i \in 1 .. Len(N) : Holds(N[i], N[i].op, b, h)
    BY <1>9 DEF Hold, ToSet
  <2>2. \A i \in 1 .. Len(N) : Holds(N[i], N[i].op, b, h) <=> Meets(Side(prefix, b, h), N[i])
    BY <1>10, SideHolds
  <2>3. QED  BY <2>1, <2>2
<1>12. Hold(ps, b, h) <=> Hold(ToSet(N), b, h)
  BY <1>4, <1>5, <1>7, <1>11
<1>13. QED  BY <1>12 DEF ps, N

LEMMA SubstitutedKept ==
  ASSUME job \in Jobs, mappings = LoadMappings(job), KeysHold, OwnReferences, NEW list, NEW orig, Kept(list, orig),
         Possible(orig) \/ \A r \in job.rows : \A c \in Columns : r[c] # 0,
         NEW prefix \in Sides, Single(list, prefix)
  PROVE  Kept(SubstitutedList(list, prefix), orig)
<1> DEFINE new == SubstitutedList(list, prefix)
           refs == RefsOf(list, prefix)
           found == FoundBy(list, prefix)
           rest == {list[i] : i \in DOMAIN list \ Replaced(list, prefix)}
           N(r) == ToSet(NewFor(r, list, prefix))
           P(k) == OnSide(list, k, prefix)
<1>1. list \in Seq(Predicate) /\ KeptBy(ToSet(list), orig)
  BY DEF Kept
<1>2. new \in Seq(Predicate) /\ ToSet(new) = (UNION {N(r) : r \in refs}) \cup rest
  BY <1>1, SubstitutedMembers
<1>3. \A p \in ToSet(list) : IsLiteral(p) /\ p.op = "<>" => p.attr.col \notin OrderedColumns
  BY <1>1 DEF KeptBy
<1>4. \/ \E b, h \in job.rows : Hold(ToSet(list), b, h)
      \/ \A r \in job.rows : \A c \in Columns : r[c] # 0
  BY <1>1 DEF KeptBy, Possible
<1>5. \A r \in refs : \E k \in found : r \in SortedMappings[k].ref
  BY DEF RefsOf
<1>6. ASSUME NEW k \in found
      PROVE  /\ \E r \in refs : r \in SortedMappings[k].ref
             /\ P(k) # {} /\ P(k) \subseteq ToSet(list)
  <2>1. P(k) # {} /\ P(k) \subseteq ToSet(list)
    BY <1>1, <1>3, FoundOnKey
  <2>2. Cardinality(SortedMappings[k].ref) = 1
    BY DEF Single
  <2>3. SortedMappings[k].ref # {}
    BY <2>2, FS_EmptySet
  <2>4. QED  BY <2>1, <2>3 DEF RefsOf
<1>7. ASSUME NEW k \in found, NEW r \in SortedMappings[k].ref, NEW b \in job.rows, NEW h \in job.rows
      PROVE  Hold(P(k), b, h) <=> Hold(N(r), b, h)
  BY <1>1, <1>3, <1>4, KeySubstituted
<1>8. ToSet(list) = (UNION {P(k) : k \in found}) \cup rest
  <2>1. \A i \in Replaced(list, prefix) : \E k \in found : list[i] \in P(k)
    BY DEF Replaced, OnSide
  <2>2. ToSet(list) \subseteq (UNION {P(k) : k \in found}) \cup rest
    BY <2>1 DEF ToSet
  <2>3. rest \subseteq ToSet(list)
    BY DEF ToSet
  <2>4. QED  BY <1>6, <2>2, <2>3
<1>9. ASSUME NEW r \in refs, NEW p \in N(r)
      PROVE  p \in Predicate /\ p.op \in {"=", "<=", ">="}
  <2> DEFINE M == NewFor(r, list, prefix)
  <2>1. Bounds(M, r, prefix) /\ M \in Seq(Predicate)
    BY NewForBound
  <2>2. DOMAIN M = 1 .. Len(M) /\ \A i \in 1 .. Len(M) : M[i] \in Predicate
    BY <2>1, LenProperties, ElementOfSeq
  <2>3. PICK i \in 1 .. Len(M) : p = M[i]
    BY <2>2 DEF ToSet
  <2>4. PICK op \in {"=", "<=", ">="}, v \in Nat : p = Bound(prefix, r, op, v)
    BY <2>1, <2>3 DEF Bounds
  <2>5. p.op = op
    BY <2>4 DEF Bound
  <2>6. QED  BY <2>2, <2>3, <2>5
<1> HIDE DEF new, refs, found, rest, N, P
<1>10. ASSUME NEW b \in job.rows, NEW h \in job.rows
       PROVE  Hold(ToSet(new), b, h) <=> Hold(ToSet(list), b, h)
  <2>1. Hold(ToSet(new), b, h) <=> (\A r \in refs : Hold(N(r), b, h)) /\ Hold(rest, b, h)
    BY <1>2 DEF Hold
  <2>2. Hold(ToSet(list), b, h) <=> (\A k \in found : Hold(P(k), b, h)) /\ Hold(rest, b, h)
    BY <1>8 DEF Hold
  <2>3. (\A r \in refs : Hold(N(r), b, h)) <=> (\A k \in found : Hold(P(k), b, h))
    BY <1>5, <1>6, <1>7
  <2>4. QED  BY <2>1, <2>2, <2>3
<1>11. \A p \in ToSet(new) : (\E r \in refs : p \in N(r)) \/ p \in ToSet(list)
  BY <1>2, <1>8
<1>12. ToSet(list) = {} => ToSet(new) = {}
  BY <1>2, <1>5, <1>6, <1>8
<1>13. KeptBy(ToSet(new), orig)
  <2>1. ToSet(new) \in SUBSET Predicate
    BY <1>1, <1>9, <1>11 DEF KeptBy
  <2>2. \A p \in ToSet(new) : IsLiteral(p) /\ p.op = "<>" => p.attr.col \notin OrderedColumns
    BY <1>3, <1>9, <1>11
  <2>3. Possible(orig) => \A b, h \in job.rows : AsksFor(orig, b, h) <=> Hold(ToSet(new), b, h)
    BY <1>1, <1>10 DEF KeptBy
  <2>4. ASSUME ~Possible(orig)
        PROVE  /\ ToSet(new) = {} \/ \A b, h \in job.rows : ~Hold(ToSet(new), b, h)
               /\ \A p \in ToSet(new) : p.op # "<>"
               /\ \A p \in ToSet(new) : IsLiteral(p) /\ p.op = ">" => \E b, h \in job.rows : Holds(p, ">", b, h)
    <3>1. /\ ToSet(list) = {} \/ \A b, h \in job.rows : ~Hold(ToSet(list), b, h)
          /\ \A p \in ToSet(list) : p.op # "<>"
          /\ \A p \in ToSet(list) : IsLiteral(p) /\ p.op = ">" => \E b, h \in job.rows : Holds(p, ">", b, h)
      BY <1>1, <2>4 DEF KeptBy
    <3>2. ToSet(new) = {} \/ \A b, h \in job.rows : ~Hold(ToSet(new), b, h)
      BY <1>10, <1>12, <3>1
    <3>3. QED  BY <1>9, <1>11, <3>1, <3>2
  <2>5. QED  BY <2>1, <2>2, <2>3, <2>4 DEF KeptBy
<1>14. QED  BY <1>2, <1>13 DEF Kept, new

-----------------------------------------------------------------------------
(* Relaxing the operators, and dropping the empty disjuncts.               *)

Means(ps, orig) ==
  /\ Possible(orig) => \A b, h \in job.rows : AsksFor(orig, b, h) <=> Hold(ps, b, h)
  /\ ~Possible(orig) => ps = {} \/ \A b, h \in job.rows : ~Hold(ps, b, h)

LEMMA RelaxedHolds ==
  ASSUME job \in Jobs, NEW p \in Predicate,
         IsLiteral(p) /\ p.op \in {"<", ">"} =>
           \/ \E r \in job.rows : Meets(r, p)
           \/ p.op = "<" /\ \A r \in job.rows : r[p.attr.col] # 0
  PROVE  \A b, h \in job.rows : Holds(Relaxed(p), Relaxed(p).op, b, h) <=> Holds(p, p.op, b, h)
<1> DEFINE c == p.attr.col
           S == {r[c] : r \in {s \in job.rows : Meets(s, p)}}
           all == {r[c] : r \in job.rows}
<1>1. p.attr \in Attribute /\ c \in Columns /\ p.value \in Nat
  BY DEF Predicate, Attribute
<1>2. all \in SUBSET Nat /\ IsFiniteSet(all) /\ S \in SUBSET all
  BY <1>1, JobRows
<1>3. S \in SUBSET Nat /\ IsFiniteSet(S)
  BY <1>2, FS_Subset
<1>4. Relaxed(p) = IF ~IsLiteral(p) THEN p
                   ELSE CASE p.op = "<" -> [p EXCEPT !.op = "<=", !.value = IF S = {} THEN 0 ELSE Greatest(S)]
                          [] p.op = ">" -> [p EXCEPT !.op = ">=", !.value = IF S = {} THEN 0 ELSE Least(S)]
                          [] OTHER -> p
  BY DEF Relaxed, Meets
<1>5. \A r \in job.rows : r[c] \in all /\ (Meets(r, p) <=> r[c] \in S)
  BY DEF Meets
<1>6. \A v \in S : \E r \in job.rows : v = r[c] /\ Meets(r, p)
  OBVIOUS
<1>7. S # {} => /\ Greatest(S) \in S /\ Least(S) \in S
                /\ \A v \in S : Least(S) <= v /\ v <= Greatest(S)
  BY <1>3, LeastProperties, GreatestProperties
<1> HIDE DEF S, all
<1>8. CASE ~IsLiteral(p) \/ p.op \notin {"<", ">"}
  BY <1>4, <1>8
<1>9. CASE IsLiteral(p) /\ p.op = "<"
  <2> DEFINE w == IF S = {} THEN 0 ELSE Greatest(S)
             e == [p EXCEPT !.op = "<=", !.value = w]
  <2>1. Relaxed(p) = e
    BY <1>4, <1>9
  <2>2. e.attr = p.attr /\ e.other = p.other /\ e.op = "<=" /\ e.value = w
    BY DEF Predicate
  <2>3. \A r \in job.rows : Meets(r, p) <=> r[c] < p.value
    BY <1>9, Comparisons DEF Meets
  <2>4. ASSUME NEW r \in job.rows  PROVE Meets(r, p) <=> r[c] <= w
    <3>1. r[c] \in Nat
      BY <1>2, <1>5
    <3>2. CASE S = {}
      <4>1. ~Meets(r, p) /\ w = 0 /\ r[c] # 0
        BY <1>5, <1>6, <1>9, <3>2
      <4>2. QED  BY <3>1, <4>1
    <3>3. CASE S # {}
      <4>1. w = Greatest(S) /\ w \in S /\ w \in Nat
        BY <1>3, <1>7, <3>3
      <4>2. PICK s \in job.rows : w = s[c] /\ Meets(s, p)
        BY <1>6, <4>1
      <4>3. w < p.value
        BY <2>3, <4>2
      <4>4. Meets(r, p) => r[c] <= w
        BY <1>5, <1>7, <3>3, <4>1
      <4>5. r[c] <= w => r[c] < p.value
        BY <1>1, <3>1, <4>1, <4>3
      <4>6. QED  BY <2>3, <4>4, <4>5
    <3>4. QED  BY <3>2, <3>3
  <2> HIDE DEF w, e
  <2>5. ASSUME NEW b \in job.rows, NEW h \in job.rows
        PROVE  Holds(e, e.op, b, h) <=> Holds(p, p.op, b, h)
    <3> DEFINE r == Side(p.attr.prefix, b, h)
    <3>1. r \in job.rows
      BY DEF Side
    <3>2. Holds(e, e.op, b, h) <=> Meets(r, e)
      BY <1>9, <2>2, SideHolds DEF IsLiteral
    <3>3. Holds(p, p.op, b, h) <=> Meets(r, p)
      BY <1>9, SideHolds
    <3> HIDE DEF r
    <3>4. Meets(r, e) <=> r[c] <= w
      BY <2>2, Comparisons DEF Meets
    <3>5. QED  BY <2>4, <3>1, <3>2, <3>3, <3>4
  <2>6. QED  BY <2>1, <2>5
<1>10. CASE IsLiteral(p) /\ p.op = ">"
  <2> DEFINE w == Least(S)
             e == [p EXCEPT !.op = ">=", !.value = w]
  <2>1. S # {}
    BY <1>5, <1>10
  <2>2. Relaxed(p) = e
    BY <1>4, <1>10, <2>1
  <2>3. e.attr = p.attr /\ e.other = p.other /\ e.op = ">=" /\ e.value = w
    BY DEF Predicate
  <2>4. \A r \in job.rows : Meets(r, p) <=> r[c] > p.value
    BY <1>10, Comparisons DEF Meets
  <2>5. ASSUME NEW r \in job.rows  PROVE Meets(r, p) <=> r[c] >= w
    <3>1. r[c] \in Nat
      BY <1>2, <1>5
    <3>2. w \in S /\ w \in Nat
      BY <1>3, <1>7, <2>1
    <3>3. PICK s \in job.rows : w = s[c] /\ Meets(s, p)
      BY <1>6, <3>2
    <3>4. w > p.value
      BY <2>4, <3>3
    <3>5. Meets(r, p) => w <= r[c]
      BY <1>5, <1>7, <2>1
    <3>6. r[c] >= w => r[c] > p.value
      BY <1>1, <3>1, <3>2, <3>4
    <3>7. QED  BY <2>4, <3>1, <3>2, <3>5, <3>6
  <2> HIDE DEF w, e
  <2>6. ASSUME NEW b \in job.rows, NEW h \in job.rows
        PROVE  Holds(e, e.op, b, h) <=> Holds(p, p.op, b, h)
    <3> DEFINE r == Side(p.attr.prefix, b, h)
    <3>1. r \in job.rows
      BY DEF Side
    <3>2. Holds(e, e.op, b, h) <=> Meets(r, e)
      BY <1>10, <2>3, SideHolds DEF IsLiteral
    <3>3. Holds(p, p.op, b, h) <=> Meets(r, p)
      BY <1>10, SideHolds
    <3> HIDE DEF r
    <3>4. Meets(r, e) <=> r[c] >= w
      BY <2>3, Comparisons DEF Meets
    <3>5. QED  BY <2>5, <3>1, <3>2, <3>3, <3>4
  <2>7. QED  BY <2>2, <2>6
<1>11. QED  BY <1>8, <1>9, <1>10

LEMMA RelaxedMeans ==
  ASSUME job \in Jobs, NEW list, NEW orig, Kept(list, orig),
         Possible(orig) \/ \A r \in job.rows : \A c \in Columns : r[c] # 0
  PROVE  Means({Relaxed(list[i]) : i \in DOMAIN list}, orig)
<1> DEFINE ps == ToSet(list)
           qs == {Relaxed(list[i]) : i \in DOMAIN list}
<1>1. KeptBy(ps, orig) /\ ps = {list[i] : i \in DOMAIN list}
  BY DEF Kept, ToSet
<1>2. qs = {Relaxed(p) : p \in ps}
  BY <1>1
<1> HIDE DEF ps, qs
<1>3. ASSUME NEW p \in ps
      PROVE  \A b, h \in job.rows : Holds(Relaxed(p), Relaxed(p).op, b, h) <=> Holds(p, p.op, b, h)
  <2>1. p \in Predicate /\ p.attr.col \in Columns
    BY <1>1 DEF KeptBy, Predicate, Attribute
  <2>2. ASSUME IsLiteral(p), NEW b \in job.rows, NEW h \in job.rows, Holds(p, p.op, b, h)
        PROVE  \E r \in job.rows : Meets(r, p)
    <3>1. Side(p.attr.prefix, b, h) \in job.rows /\ Meets(Side(p.attr.prefix, b, h), p)
      BY <2>2, SideHolds DEF Side
    <3>2. QED  BY <3>1
  <2>3. CASE Possible(orig)
    <3>1. \E b, h \in job.rows : Hold(ps, b, h)
      BY <1>1, <2>3 DEF KeptBy, Possible
    <3>2. \E b, h \in job.rows : Holds(p, p.op, b, h)
      BY <3>1 DEF Hold
    <3>3. QED  BY <2>1, <2>2, <3>2, RelaxedHolds
  <2>4. CASE ~Possible(orig)
    <3>1. \A r \in job.rows : r[p.attr.col] # 0
      BY <2>1, <2>4
    <3>2. IsLiteral(p) /\ p.op = ">" => \E b, h \in job.rows : Holds(p, p.op, b, h)
      BY <1>1, <2>4 DEF KeptBy
    <3>3. IsLiteral(p) /\ p.op = ">" => \E r \in job.rows : Meets(r, p)
      BY <2>2, <3>2
    <3>4. QED  BY <2>1, <3>1, <3>3, RelaxedHolds
  <2>5. QED  BY <2>3, <2>4
<1>4. \A b, h \in job.rows : Hold(qs, b, h) <=> Hold(ps, b, h)
  BY <1>2, <1>3 DEF Hold
<1>5. qs = {} <=> ps = {}
  BY <1>2
<1>6. Means(qs, orig)
  BY <1>1, <1>4, <1>5 DEF Means, KeptBy
<1>7. QED  BY <1>6 DEF qs

LEMMA EmptyInterval ==
  ASSUME NEW n \in Nat
  PROVE  1 .. n = {} <=> n = 0
<1>1. n # 0 => 1 \in 1 .. n
  OBVIOUS
<1>2. QED  BY <1>1

(* A condition before, and after its empty disjuncts are dropped.          *)
LEMMA CleanMeans ==
  ASSUME job \in Jobs, NEW dnf \in Seq(Seq(TextPred)), NEW cs, NEW S,
         DOMAIN cs = DOMAIN dnf, cs \in Seq(S),
         \A d \in DOMAIN dnf : cs[d] \in Seq(Predicate) /\ Means(ToSet(cs[d]), dnf[d]),
         \E b, h \in job.rows : Before(dnf, b, h),
         \A d \in DOMAIN dnf : Len(dnf) > 1 => \E b, h \in job.rows : ~AsksFor(dnf[d], b, h),
         NEW b \in job.rows, NEW h \in job.rows
  PROVE  Before(dnf, b, h) <=> After(Selected(cs, {d \in DOMAIN cs : cs[d] # <<>>}), b, h)
<1> DEFINE T == {d \in DOMAIN cs : cs[d] # <<>>}
           new == Selected(cs, T)
<1>1. new \in Seq(S) /\ ToSet(new) = {cs[d] : d \in T}
  BY SelectedMembers
<1>2. \A d \in DOMAIN dnf : cs[d] = <<>> <=> ToSet(cs[d]) = {}
  <2>1. ASSUME NEW d \in DOMAIN dnf  PROVE cs[d] = <<>> <=> ToSet(cs[d]) = {}
    <3>1. cs[d] = <<>> <=> DOMAIN cs[d] = {}
      <4>1. DOMAIN cs[d] = 1 .. Len(cs[d]) /\ Len(cs[d]) \in Nat
        BY LenProperties
      <4>2. cs[d] = <<>> <=> Len(cs[d]) = 0
        BY EmptySeq
      <4>3. QED  BY <4>1, <4>2, EmptyInterval
    <3>2. QED  BY <3>1 DEF ToSet
  <2>2. QED  BY <2>1
<1>3. new = <<>> <=> T = {}
  <2>1. DOMAIN new = 1 .. Len(new) /\ Len(new) \in Nat /\ (new = <<>> <=> Len(new) = 0)
    BY <1>1, LenProperties, EmptySeq
  <2> HIDE DEF new, T
  <2>2. new = <<>> <=> DOMAIN new = {}
    BY <2>1, EmptyInterval
  <2>3. ToSet(new) = {} <=> DOMAIN new = {}
    BY DEF ToSet
  <2>4. QED  BY <1>1, <2>2, <2>3
<1>4. After(new, b, h) <=> new = <<>> \/ \E d \in T : Hold(ToSet(cs[d]), b, h)
  <2>1. \A l : (\A i \in DOMAIN l : Holds(l[i], l[i].op, b, h)) <=> Hold(ToSet(l), b, h)
    BY DEF Hold, ToSet
  <2>2. (\E k \in DOMAIN new : Hold(ToSet(new[k]), b, h)) <=> \E l \in ToSet(new) : Hold(ToSet(l), b, h)
    BY DEF ToSet
  <2> HIDE DEF new, T
  <2>3. After(new, b, h) <=> new = <<>> \/ \E k \in DOMAIN new : Hold(ToSet(new[k]), b, h)
    BY <2>1 DEF After
  <2>4. (\E l \in ToSet(new) : Hold(ToSet(l), b, h)) <=> \E d \in T : Hold(ToSet(cs[d]), b, h)
    BY <1>1
  <2>5. QED  BY <2>2, <2>3, <2>4
<1>5. \A d \in T : d \in DOMAIN dnf /\ ToSet(cs[d]) # {}
  BY <1>2
<1>6. \A d \in DOMAIN dnf : d \notin T => ToSet(cs[d]) = {}
  BY <1>2
<1> HIDE DEF new, T
<1>7. ASSUME NEW d \in DOMAIN dnf, NEW c \in job.rows, NEW e \in job.rows, AsksFor(dnf[d], c, e), d \notin T
      PROVE  \A r, s \in job.rows : AsksFor(dnf[d], r, s)
  <2>1. Possible(dnf[d])
    BY <1>7 DEF Possible
  <2>2. Means({}, dnf[d])
    BY <1>6, <1>7
  <2>3. QED  BY <2>1, <2>2 DEF Means, Hold
<1>8. CASE new = <<>>
  <2>1. T = {}
    BY <1>3, <1>8
  <2>2. PICK c \in job.rows, e \in job.rows : Before(dnf, c, e)
    OBVIOUS
  <2>3. CASE dnf = <<>>
    BY <1>4, <1>8, <2>3 DEF Before, new, T
  <2>4. CASE dnf # <<>>
    <3>1. PICK d \in DOMAIN dnf : AsksFor(dnf[d], c, e)
      BY <2>2, <2>4 DEF Before
    <3>2. AsksFor(dnf[d], b, h)
      BY <1>7, <2>1, <3>1
    <3>3. QED  BY <1>4, <1>8, <3>2 DEF Before, new, T
  <2>5. QED  BY <2>3, <2>4
<1>9. CASE new # <<>>
  <2>1. PICK z \in T : TRUE
    BY <1>3, <1>9
  <2>2. ASSUME NEW d \in T, Hold(ToSet(cs[d]), b, h)  PROVE Before(dnf, b, h)
    <3>1. Means(ToSet(cs[d]), dnf[d]) /\ d \in DOMAIN dnf
      BY <1>5
    <3>2. Possible(dnf[d])
      BY <1>5, <2>2, <3>1 DEF Means
    <3>3. QED  BY <2>2, <3>1, <3>2 DEF Means, Before
  <2>3. ASSUME Before(dnf, b, h)  PROVE \E d \in T : Hold(ToSet(cs[d]), b, h)
    <3>1. dnf # <<>>
      BY <1>5, <2>1
    <3>2. PICK d \in DOMAIN dnf : AsksFor(dnf[d], b, h)
      BY <2>3, <3>1 DEF Before
    <3>3. CASE d \in T
      <4>1. Means(ToSet(cs[d]), dnf[d]) /\ Possible(dnf[d])
        BY <3>2 DEF Possible
      <4>2. QED  BY <3>2, <3>3, <4>1 DEF Means
    <3>4. CASE d \notin T
      <4>1. \A r, s \in job.rows : AsksFor(dnf[d], r, s)
        BY <1>7, <3>2, <3>4
      <4>2. ~(Len(dnf) > 1)
        BY <4>1
      <4>3. DOMAIN dnf = 1 .. Len(dnf) /\ Len(dnf) \in Nat
        BY LenProperties
      <4>4. z = d
        BY <1>5, <2>1, <4>2, <4>3
      <4>5. QED  BY <2>1, <3>4, <4>4
    <3>5. QED  BY <3>3, <3>4
  <2>4. QED  BY <1>4, <1>9, <2>2, <2>3 DEF new, T
<1>10. QED  BY <1>8, <1>9

-----------------------------------------------------------------------------
(* What holds of the conditions in each phase.                             *)

Rewriting == {"lists", "substitute", "compact", "relax"}
Spots == UNION {{<<c, d>> : d \in DOMAIN job.conditions[c]} : c \in DOMAIN job.conditions}

(* The same disjuncts of the same conditions.                              *)
LikeIn(cs, form) ==
  /\ cs = [c \in DOMAIN form |-> cs[c]]
  /\ \A c \in DOMAIN form : cs[c] = [d \in DOMAIN form[c] |-> cs[c][d]]

ParsedConditions(j) == OnPredicates(j.conditions, Parsed)

TypedInv ==
  /\ job \in Jobs
  /\ phase # "start" => mappings = LoadMappings(job)
  /\ phase = "start" => conditions = ParsedConditions(job)
  /\ phase \in Rewriting \cup {"clean"} =>
       LikeIn(conditions, job.conditions) /\ \A s \in Spots : conditions[s[1]][s[2]] \in Seq(Predicate)
  /\ phase \in {"substitute", "compact"} => work \in Seq(Spots) /\ work # <<>>
  /\ phase = "substitute" => prefixes \in Seq(Sides) /\ prefixes # <<>>
  /\ phase = "compact" => x \in Nat \ {0} /\ y \in Nat /\ x < y

LEMMA JobConditions ==
  ASSUME NEW j \in Jobs
  PROVE  /\ j.conditions \in Seq(Seq(Seq(TextPred)))
         /\ DOMAIN j.conditions = 1 .. Len(j.conditions) /\ Len(j.conditions) \in Nat
         /\ \A c \in DOMAIN j.conditions :
              /\ j.conditions[c] \in Seq(Seq(TextPred))
              /\ DOMAIN j.conditions[c] = 1 .. Len(j.conditions[c]) /\ Len(j.conditions[c]) \in Nat
              /\ \A d \in DOMAIN j.conditions[c] :
                   /\ j.conditions[c][d] \in Seq(TextPred)
                   /\ DOMAIN j.conditions[c][d] = 1 .. Len(j.conditions[c][d])
                   /\ Len(j.conditions[c][d]) \in Nat
                   /\ \A i \in DOMAIN j.conditions[c][d] : j.conditions[c][d][i] \in TextPred
<1>1. j.conditions \in Seq(Seq(Seq(TextPred)))
  BY JobsAssumption DEF Job
<1>2. DOMAIN j.conditions = 1 .. Len(j.conditions) /\ Len(j.conditions) \in Nat
  BY <1>1, LenProperties
<1>3. ASSUME NEW c \in DOMAIN j.conditions
      PROVE  /\ j.conditions[c] \in Seq(Seq(TextPred))
             /\ DOMAIN j.conditions[c] = 1 .. Len(j.conditions[c]) /\ Len(j.conditions[c]) \in Nat
  <2>1. j.conditions[c] \in Seq(Seq(TextPred))
    BY <1>1, <1>2, ElementOfSeq
  <2>2. QED  BY <2>1, LenProperties
<1>4. ASSUME NEW c \in DOMAIN j.conditions, NEW d \in DOMAIN j.conditions[c]
      PROVE  /\ j.conditions[c][d] \in Seq(TextPred)
             /\ DOMAIN j.conditions[c][d] = 1 .. Len(j.conditions[c][d])
             /\ Len(j.conditions[c][d]) \in Nat
             /\ \A i \in DOMAIN j.conditions[c][d] : j.conditions[c][d][i] \in TextPred
  <2>1. j.conditions[c][d] \in Seq(TextPred)
    BY <1>3, ElementOfSeq
  <2>2. DOMAIN j.conditions[c][d] = 1 .. Len(j.conditions[c][d]) /\ Len(j.conditions[c][d]) \in Nat
    BY <2>1, LenProperties
  <2>3. \A i \in DOMAIN j.conditions[c][d] : j.conditions[c][d][i] \in TextPred
    BY <2>1, <2>2, ElementOfSeq
  <2>4. QED  BY <2>1, <2>2, <2>3
<1>5. QED  BY <1>1, <1>2, <1>3, <1>4

(* What the parser makes of a predicate, unless it loses the operator.     *)
LEMMA ParsedPredicate ==
  ASSUME NEW p \in TextPred, Parsed(p).op # ""
  PROVE  /\ Parsed(p) \in Predicate /\ Parsed(p).op = Asked(p)
         /\ Parsed(p).attr = p.attr /\ Parsed(p).value = p.value /\ Parsed(p).other = p.other
         /\ Parsed(p).op = "<>" <=> p.op = "<>"
<1>1. /\ Parsed(p).op = IF p.left THEN Turned(p) ELSE p.op
      /\ Parsed(p).attr = p.attr /\ Parsed(p).value = p.value /\ Parsed(p).other = p.other
      /\ Parsed(p) = [attr |-> p.attr, op |-> Parsed(p).op, value |-> p.value, other |-> p.other]
  BY DEF Parsed
<1>2. p.op \in Ops /\ p.attr \in Attribute /\ p.value \in Nat /\ p.other \in Seq(Attribute)
  BY DEF TextPred
<1>3. Parsed(p).op = Asked(p) /\ Parsed(p).op \in Ops /\ (Parsed(p).op = "<>" <=> p.op = "<>")
  <2>1. CASE ~p.left
    BY <1>1, <1>2, <2>1 DEF Asked
  <2>2. CASE p.left
    <3>1. Turned(p) # "" /\ Parsed(p).op = Turned(p)
      BY <1>1, <2>2
    <3>2. CASE p.op = ">"
      BY <2>2, <3>1, <3>2 DEF Turned, Asked, Ops
    <3>3. CASE p.op = ">="
      BY <2>2, <3>1, <3>3 DEF Turned, Asked, Ops
    <3>4. CASE p.op = "<"
      BY <2>2, <3>1, <3>4 DEF Turned, Asked, Ops
    <3>5. CASE p.op = "<="
      BY <2>2, <3>1, <3>5 DEF Turned, Asked, Ops
    <3>6. CASE p.op \in {"=", "<>"}
      BY <3>1, <3>6 DEF Turned
    <3>7. QED  BY <1>2, <3>2, <3>3, <3>4, <3>5, <3>6 DEF Ops
  <2>3. QED  BY <2>1, <2>2
<1>4. Parsed(p) \in Predicate
  BY <1>1, <1>2, <1>3 DEF Predicate
<1>5. QED  BY <1>1, <1>3, <1>4

LEMMA ParsedLists ==
  ASSUME NEW j \in Jobs, NEW cs, cs = ParsedConditions(j)
  PROVE  /\ DOMAIN cs = DOMAIN j.conditions
         /\ \A c \in DOMAIN j.conditions :
              /\ DOMAIN cs[c] = DOMAIN j.conditions[c]
              /\ \A d \in DOMAIN j.conditions[c] :
                   /\ DOMAIN cs[c][d] = DOMAIN j.conditions[c][d]
                   /\ \A i \in DOMAIN j.conditions[c][d] : cs[c][d][i] = Parsed(j.conditions[c][d][i])
         /\ LikeIn(cs, j.conditions)
BY DEF ParsedConditions, OnPredicates, LikeIn

Alike(list, orig) == list = [i \in DOMAIN orig |-> list[i]]
ParsedFrom(list, orig) ==
  Alike(list, orig) /\ \A i \in DOMAIN orig : list[i] = Parsed(orig[i]) /\ list[i].op # ""
ComesFrom(p, orig) ==
  \E i \in DOMAIN orig :
    p = Parsed(orig[i]) /\ p \in Predicate /\ p.op = Asked(orig[i])
    /\ (p.op = "<>" <=> orig[i].op = "<>") /\ p.attr = orig[i].attr
    /\ \A b, h, op : Holds(p, op, b, h) <=> Holds(orig[i], op, b, h)

LEMMA ParsedDisjunct ==
  ASSUME NEW orig \in Seq(TextPred), NEW list, ParsedFrom(list, orig)
  PROVE  /\ list \in Seq(Predicate)
         /\ \A p \in ToSet(list) : ComesFrom(p, orig)
         /\ \A b, h : AsksFor(orig, b, h) <=> Hold(ToSet(list), b, h)
<1>0. Alike(list, orig) /\ \A i \in DOMAIN orig : list[i] = Parsed(orig[i]) /\ list[i].op # ""
  BY DEF ParsedFrom
<1>1. DOMAIN orig = 1 .. Len(orig) /\ Len(orig) \in Nat /\ \A i \in DOMAIN orig : orig[i] \in TextPred
  BY LenProperties, ElementOfSeq
<1>2. \A i \in DOMAIN orig :
        /\ list[i] \in Predicate /\ list[i].op = Asked(orig[i])
        /\ list[i].attr = orig[i].attr /\ list[i].value = orig[i].value /\ list[i].other = orig[i].other
        /\ list[i].op = "<>" <=> orig[i].op = "<>"
  BY <1>0, <1>1, ParsedPredicate
<1>3. list \in Seq(Predicate) /\ DOMAIN list = DOMAIN orig
  <2>1. list = [i \in 1 .. Len(orig) |-> list[i]] /\ DOMAIN list = 1 .. Len(orig)
    BY <1>0, <1>1 DEF Alike
  <2>2. IsList(list) /\ Len(list) = Len(orig)
    BY <1>1, <2>1, ListOf
  <2>3. \A i \in 1 .. Len(list) : list[i] \in Predicate
    BY <1>1, <1>2, <2>2
  <2>4. QED  BY <1>1, <2>1, <2>2, <2>3, ListInSet
<1>4. ASSUME NEW i \in DOMAIN orig, NEW b, NEW h, NEW op
      PROVE  Holds(list[i], op, b, h) <=> Holds(orig[i], op, b, h)
  BY <1>2 DEF Holds, IsLiteral
<1>5. \A b, h : AsksFor(orig, b, h) <=> Hold(ToSet(list), b, h)
  <2>1. ASSUME NEW b, NEW h  PROVE AsksFor(orig, b, h) <=> Hold(ToSet(list), b, h)
    <3>1. AsksFor(orig, b, h) <=> \A i \in DOMAIN orig : Holds(list[i], list[i].op, b, h)
      BY <1>2, <1>4 DEF AsksFor
    <3>2. QED  BY <1>3, <3>1 DEF Hold, ToSet
  <2>2. QED  BY <2>1
<1>6. ASSUME NEW p \in ToSet(list)
      PROVE  ComesFrom(p, orig)
  <2>1. PICK i \in DOMAIN orig : p = list[i]
    BY <1>3 DEF ToSet
  <2>2. \A b, h, op : Holds(p, op, b, h) <=> Holds(orig[i], op, b, h)
    BY <1>4, <2>1
  <2>3. p = Parsed(orig[i]) /\ p \in Predicate
    BY <1>0, <1>2, <2>1
  <2>4. QED  BY <1>2, <2>1, <2>2, <2>3 DEF ComesFrom
<1>7. QED  BY <1>3, <1>5, <1>6

PutAt(cs, c, d, list) == [cs EXCEPT ![c][d] = list]

LEMMA LikeRewritten ==
  ASSUME NEW form, NEW cs, LikeIn(cs, form), NEW c \in DOMAIN form, NEW d \in DOMAIN form[c], NEW list,
         NEW new, new = PutAt(cs, c, d, list)
  PROVE  /\ LikeIn(new, form)
         /\ \A k \in DOMAIN form : \A n \in DOMAIN form[k] :
              new[k][n] = IF k = c /\ n = d THEN list ELSE cs[k][n]
<1>1. DOMAIN cs = DOMAIN form /\ \A k \in DOMAIN form : DOMAIN cs[k] = DOMAIN form[k]
  BY DEF LikeIn
<1>2. new = [cs EXCEPT ![c] = [cs[c] EXCEPT ![d] = list]]
  BY DEF PutAt
<1>3. DOMAIN new = DOMAIN form /\ new[c] = [cs[c] EXCEPT ![d] = list]
      /\ \A k \in DOMAIN form : k # c => new[k] = cs[k]
  BY <1>1, <1>2
<1>4. new = [k \in DOMAIN form |-> new[k]]
  BY <1>1, <1>2
<1>5. \A k \in DOMAIN form : new[k] = [n \in DOMAIN form[k] |-> new[k][n]]
  <2>1. ASSUME NEW k \in DOMAIN form  PROVE new[k] = [n \in DOMAIN form[k] |-> new[k][n]]
    <3>1. CASE k = c
      BY <1>1, <1>3, <3>1
    <3>2. CASE k # c
      BY <1>3, <3>2 DEF LikeIn
    <3>3. QED  BY <3>1, <3>2
  <2>2. QED  BY <2>1
<1>6. \A k \in DOMAIN form : \A n \in DOMAIN form[k] :
        new[k][n] = IF k = c /\ n = d THEN list ELSE cs[k][n]
  BY <1>1, <1>3
<1>7. QED  BY <1>4, <1>5, <1>6 DEF LikeIn

LEMMA SpotsListed ==
  ASSUME job \in Jobs
  PROVE  Spots \in SUBSET (Nat \X Nat) /\ IsFiniteSet(Spots)
<1> DEFINE cs == job.conditions
           spots(c) == {<<c, d>> : d \in DOMAIN cs[c]}
<1>1. /\ DOMAIN cs = 1 .. Len(cs) /\ Len(cs) \in Nat
      /\ \A c \in DOMAIN cs : DOMAIN cs[c] = 1 .. Len(cs[c]) /\ Len(cs[c]) \in Nat
  BY JobConditions
<1>2. Spots \in SUBSET (Nat \X Nat)
  BY <1>1 DEF Spots
<1>3. \A c \in DOMAIN cs : IsFiniteSet(spots(c))
  <2>1. ASSUME NEW c \in DOMAIN cs  PROVE IsFiniteSet(spots(c))
    <3> DEFINE f == [d \in DOMAIN cs[c] |-> <<c, d>>]
    <3>1. f \in Surjection(DOMAIN cs[c], spots(c))
      BY DEF Surjection
    <3>2. IsFiniteSet(DOMAIN cs[c])
      <4>1. DOMAIN cs[c] = 1 .. Len(cs[c]) /\ Len(cs[c]) \in Nat
        BY <1>1
      <4> HIDE DEF cs
      <4>2. QED  BY <4>1, IntervalFinite
    <3>3. QED  BY <3>1, <3>2, FS_Surjection
  <2>2. QED  BY <2>1
<1>4. IsFiniteSet({spots(c) : c \in DOMAIN cs})
  <2> DEFINE f == [c \in DOMAIN cs |-> spots(c)]
  <2>1. f \in Surjection(DOMAIN cs, {spots(c) : c \in DOMAIN cs})
    BY DEF Surjection
  <2>2. IsFiniteSet(DOMAIN cs)
    <3> HIDE DEF cs
    <3>1. QED  BY <1>1, IntervalFinite
  <2>3. QED  BY <2>1, <2>2, FS_Surjection
<1>5. IsFiniteSet(UNION {spots(c) : c \in DOMAIN cs})
  <2>1. \A T \in {spots(c) : c \in DOMAIN cs} : IsFiniteSet(T)
    BY <1>3
  <2> HIDE DEF spots
  <2>2. QED  BY <1>4, <2>1, FS_UNION
<1>6. QED  BY <1>2, <1>5 DEF Spots

LEMMA PlacesProperties ==
  ASSUME job \in Jobs, LikeIn(conditions, job.conditions)
  PROVE  Places \in Seq(Spots) /\ \A s \in Spots : \E k \in DOMAIN Places : Places[k] = s
<1>1. UNION {{<<c, d>> : d \in DOMAIN conditions[c]} : c \in DOMAIN conditions} = Spots
  <2>1. DOMAIN conditions = DOMAIN job.conditions
        /\ \A c \in DOMAIN job.conditions : DOMAIN conditions[c] = DOMAIN job.conditions[c]
    BY DEF LikeIn
  <2>2. QED  BY <2>1 DEF Spots
<1>2. Places = Listed[Spots]
  BY <1>1 DEF Places
<1>3. /\ Size(Spots) \in Nat /\ Listed[Spots] \in [1 .. Size(Spots) -> Spots]
      /\ \A p \in Spots : \E k \in 1 .. Size(Spots) : Listed[Spots][k] = p
  BY SpotsListed, ListedProperties
<1>4. QED  BY <1>2, <1>3

-----------------------------------------------------------------------------
(* The steps keep the lists well formed.                                   *)

LEMMA CurrentSpot ==
  ASSUME TypedInv, phase \in {"substitute", "compact"}
  PROVE  /\ work[1] \in Spots /\ work[1] = <<work[1][1], work[1][2]>>
         /\ work[1][1] \in DOMAIN job.conditions /\ work[1][2] \in DOMAIN job.conditions[work[1][1]]
         /\ Current \in Seq(Predicate) /\ LikeIn(conditions, job.conditions)
         /\ Tail(work) \in Seq(Spots)
         /\ \A k \in DOMAIN work : k = 1 \/ \E l \in DOMAIN Tail(work) : Tail(work)[l] = work[k]
<1>1. work \in Seq(Spots) /\ work # <<>>
  BY DEF TypedInv
<1>2. DOMAIN work = 1 .. Len(work) /\ Len(work) \in Nat /\ Len(work) # 0
  BY <1>1, LenProperties, EmptySeq
<1>3. work[1] \in Spots
  BY <1>1, <1>2, ElementOfSeq
<1>4. Tail(work) \in Seq(Spots) /\ Len(Tail(work)) = Len(work) - 1
      /\ \A l \in 1 .. Len(Tail(work)) : Tail(work)[l] = work[l + 1]
  BY <1>1, HeadTailProperties
<1>5. DOMAIN Tail(work) = 1 .. Len(Tail(work))
  BY <1>4, LenProperties
<1>6. \A k \in DOMAIN work : k = 1 \/ \E l \in DOMAIN Tail(work) : Tail(work)[l] = work[k]
  <2>1. ASSUME NEW k \in DOMAIN work, k # 1  PROVE \E l \in DOMAIN Tail(work) : Tail(work)[l] = work[k]
    <3>1. k - 1 \in DOMAIN Tail(work) /\ (k - 1) + 1 = k
      BY <1>2, <1>4, <1>5, <2>1
    <3>2. Tail(work)[k - 1] = work[(k - 1) + 1]
      BY <1>4, <1>5, <3>1
    <3>3. QED  BY <3>1, <3>2
  <2>2. QED  BY <2>1
<1>7. LikeIn(conditions, job.conditions) /\ \A s \in Spots : conditions[s[1]][s[2]] \in Seq(Predicate)
  BY DEF TypedInv, Rewriting
<1>8. QED  BY <1>3, <1>4, <1>6, <1>7 DEF Spots, Current

LEMMA PrefixProperties ==
  ASSUME NEW q \in Seq(Sides), q # <<>>
  PROVE  Head(q) \in Sides /\ Tail(q) \in Seq(Sides)
BY HeadTailProperties

LEMMA RelaxedPredicate ==
  ASSUME job \in Jobs, NEW p \in Predicate
  PROVE  Relaxed(p) \in Predicate /\ Relaxed(p).attr = p.attr /\ Relaxed(p).other = p.other
         /\ (IsLiteral(p) => Relaxed(p).op \notin {"<", ">"})
<1> DEFINE c == p.attr.col
           S == {r[c] : r \in {s \in job.rows : Compare(s[c], p.op, p.value)}}
           all == {r[c] : r \in job.rows}
<1>1. c \in Columns /\ p \in [attr : Attribute, op : Ops, value : Nat, other : Seq(Attribute)]
  BY DEF Predicate, Attribute
<1>2. all \in SUBSET Nat /\ IsFiniteSet(all) /\ S \in SUBSET all
  BY <1>1, JobRows
<1>3. S \in SUBSET Nat /\ IsFiniteSet(S)
  BY <1>2, FS_Subset
<1>4. Relaxed(p) = IF ~IsLiteral(p) THEN p
                   ELSE CASE p.op = "<" -> [p EXCEPT !.op = "<=", !.value = IF S = {} THEN 0 ELSE Greatest(S)]
                          [] p.op = ">" -> [p EXCEPT !.op = ">=", !.value = IF S = {} THEN 0 ELSE Least(S)]
                          [] OTHER -> p
  BY DEF Relaxed
<1>5. (IF S = {} THEN 0 ELSE Greatest(S)) \in Nat /\ (IF S = {} THEN 0 ELSE Least(S)) \in Nat
  BY <1>3, LeastProperties, GreatestProperties
<1> DEFINE hi == IF S = {} THEN 0 ELSE Greatest(S)
           lo == IF S = {} THEN 0 ELSE Least(S)
<1> HIDE DEF S, all, c
<1> DEFINE with(op, v) == [p EXCEPT !.op = op, !.value = v]
<1>6. \A v \in Nat, op \in Ops :
        /\ with(op, v) \in Predicate /\ with(op, v).attr = p.attr /\ with(op, v).other = p.other
        /\ with(op, v).op = op
  BY <1>1 DEF Predicate
<1>7. Relaxed(p) = IF ~IsLiteral(p) THEN p
                    ELSE CASE p.op = "<" -> with("<=", hi)
                           [] p.op = ">" -> with(">=", lo)
                           [] OTHER -> p
  BY <1>4
<1>8. hi \in Nat /\ lo \in Nat
  BY <1>5
<1> HIDE DEF hi, lo, with
<1>9. CASE IsLiteral(p) /\ p.op = "<"
  BY <1>6, <1>9, <1>7, <1>8 DEF Ops
<1>10. CASE IsLiteral(p) /\ p.op = ">"
  BY <1>6, <1>10, <1>7, <1>8 DEF Ops
<1>11. CASE ~IsLiteral(p) \/ p.op \notin {"<", ">"}
  BY <1>11, <1>7
<1>12. QED  BY <1>9, <1>10, <1>11

LEMMA RelaxedLists ==
  ASSUME job \in Jobs, LikeIn(conditions, job.conditions),
         \A s \in Spots : conditions[s[1]][s[2]] \in Seq(Predicate),
         NEW new, new = OnPredicates(conditions, Relaxed)
  PROVE  /\ LikeIn(new, job.conditions)
         /\ \A s \in Spots :
              /\ new[s[1]][s[2]] \in Seq(Predicate)
              /\ ToSet(new[s[1]][s[2]])
                   = {Relaxed(conditions[s[1]][s[2]][i]) : i \in DOMAIN conditions[s[1]][s[2]]}
<1>1. DOMAIN conditions = DOMAIN job.conditions
      /\ \A c \in DOMAIN job.conditions : DOMAIN conditions[c] = DOMAIN job.conditions[c]
  BY DEF LikeIn
<1>2. new = [c \in DOMAIN job.conditions |-> [d \in DOMAIN job.conditions[c] |->
               [i \in DOMAIN conditions[c][d] |-> Relaxed(conditions[c][d][i])]]]
  BY <1>1 DEF OnPredicates
<1>3. LikeIn(new, job.conditions)
  BY <1>2 DEF LikeIn
<1>4. ASSUME NEW s \in Spots
      PROVE  /\ new[s[1]][s[2]] \in Seq(Predicate)
             /\ ToSet(new[s[1]][s[2]])
                  = {Relaxed(conditions[s[1]][s[2]][i]) : i \in DOMAIN conditions[s[1]][s[2]]}
  <2> DEFINE list == conditions[s[1]][s[2]]
             r == [i \in DOMAIN list |-> Relaxed(list[i])]
  <2>1. s[1] \in DOMAIN job.conditions /\ s[2] \in DOMAIN job.conditions[s[1]]
    BY DEF Spots
  <2>2. new[s[1]][s[2]] = r
    BY <1>2, <2>1
  <2>3. list \in Seq(Predicate)
    OBVIOUS
  <2> HIDE DEF list
  <2>4. DOMAIN list = 1 .. Len(list) /\ Len(list) \in Nat /\ \A i \in DOMAIN list : list[i] \in Predicate
    BY <2>3, LenProperties, ElementOfSeq
  <2>5. \A i \in DOMAIN list : Relaxed(list[i]) \in Predicate
    BY <2>4, RelaxedPredicate
  <2>6. r \in [1 .. Len(list) -> Predicate]
    BY <2>4, <2>5
  <2>7. r \in Seq(Predicate)
    BY <2>4, <2>6, SeqDef
  <2>8. ToSet(r) = {Relaxed(list[i]) : i \in DOMAIN list}
    BY DEF ToSet
  <2>9. QED  BY <2>2, <2>7, <2>8 DEF list
<1>5. QED  BY <1>3, <1>4

(* The lists after one of them is rewritten.                               *)
LEMMA SpotRewritten ==
  ASSUME TypedInv, phase \in {"substitute", "compact"}, NEW list, conditions' = Rewritten(list), job' = job
  PROVE  /\ LikeIn(conditions', job.conditions)
         /\ \A s \in Spots : conditions'[s[1]][s[2]] = IF s = work[1] THEN list ELSE conditions[s[1]][s[2]]
<1> DEFINE c == work[1][1]
           d == work[1][2]
           new == conditions'
           form == job.conditions
<1>1. LikeIn(conditions, form) /\ c \in DOMAIN form /\ d \in DOMAIN form[c] /\ work[1] = <<c, d>>
  BY CurrentSpot
<1>2. new = PutAt(conditions, c, d, list)
  BY DEF Rewritten, PutAt
<1> HIDE DEF c, d, new, form
<1>3. /\ LikeIn(new, form)
      /\ \A k \in DOMAIN form : \A n \in DOMAIN form[k] :
           new[k][n] = IF k = c /\ n = d THEN list ELSE conditions[k][n]
  BY <1>1, <1>2, LikeRewritten
<1>4. \A s \in Spots : /\ s[1] \in DOMAIN form /\ s[2] \in DOMAIN form[s[1]]
                       /\ s = work[1] <=> s[1] = c /\ s[2] = d
  BY <1>1 DEF Spots, form
<1>5. \A s \in Spots : new[s[1]][s[2]] = IF s = work[1] THEN list ELSE conditions[s[1]][s[2]]
  BY <1>3, <1>4
<1>6. QED  BY <1>3, <1>5 DEF new, form

(* As long as nothing is misread the relation is that of the predicates.   *)
TurnTaken(r) ==
  /\ conditions' = Rewritten(Turn(Current, x, y, r))
  /\ ~misread' => r = "/" \/ r = RelationOf(Current[x], Current[y])

LEMMA ComparePairTurn ==
  ASSUME TypedInv, ComparePair
  PROVE  /\ x \in DOMAIN Current /\ y \in DOMAIN Current /\ x # y
         /\ \E r : TurnTaken(r)
         /\ x' \in Nat \ {0} /\ y' \in Nat /\ x' < y'
<1>1. phase = "compact" /\ y <= Len(Current) /\ x \in Nat \ {0} /\ y \in Nat /\ x < y
  BY DEF ComparePair, TypedInv
<1>2. Current \in Seq(Predicate)
  BY <1>1, CurrentSpot
<1>3. DOMAIN Current = 1 .. Len(Current) /\ Len(Current) \in Nat
  BY <1>2, LenProperties
<1>4. x \in DOMAIN Current /\ y \in DOMAIN Current /\ x # y
  BY <1>1, <1>3
<1>5. PICK r \in RelationsOf(Current[x], Current[y]) :
        /\ conditions' = Rewritten(Turn(Current, x, y, r))
        /\ x' = IF r = "!" THEN 1 ELSE x
        /\ y' = IF r = "!" THEN 2 ELSE IF r = "/" THEN y + 1 ELSE y
        /\ misread' = (misread \/ (freed /\ r # "/"))
  BY DEF ComparePair
<1>6. x' \in Nat \ {0} /\ y' \in Nat /\ x' < y'
  BY <1>1, <1>5
<1>7. ~freed => r = RelationOf(Current[x], Current[y])
  BY DEF RelationsOf
<1>8. TurnTaken(r)
  BY <1>5, <1>7 DEF TurnTaken
<1>9. QED  BY <1>4, <1>6, <1>8

(* The list that the parser makes of a disjunct that keeps its operators.  *)
LEMMA LoadedList ==
  ASSUME NEW j \in Jobs, NEW cs, cs = ParsedConditions(j),
         \A k \in DOMAIN cs : \A n \in DOMAIN cs[k] : \A i \in DOMAIN cs[k][n] : cs[k][n][i].op # "",
         NEW c \in DOMAIN j.conditions, NEW d \in DOMAIN j.conditions[c]
  PROVE  /\ cs[c][d] \in Seq(Predicate)
         /\ \A i \in DOMAIN j.conditions[c][d] :
              cs[c][d][i] = Parsed(j.conditions[c][d][i]) /\ cs[c][d][i].op # ""
<1> DEFINE orig == j.conditions[c][d]
           list == cs[c][d]
<1>1. Alike(list, orig)
  BY DEF ParsedConditions, OnPredicates, Alike
<1>2. \A i \in DOMAIN orig : list[i] = Parsed(orig[i]) /\ list[i].op # ""
  <2>1. c \in DOMAIN cs /\ d \in DOMAIN cs[c] /\ DOMAIN list = DOMAIN orig
        /\ \A i \in DOMAIN orig : list[i] = Parsed(orig[i])
    BY DEF ParsedConditions, OnPredicates
  <2>2. \A i \in DOMAIN list : list[i].op # ""
    BY <2>1
  <2> HIDE DEF list, orig
  <2>3. QED  BY <2>1, <2>2
<1>3. orig \in Seq(TextPred)
  BY JobConditions
<1> HIDE DEF list, orig
<1>4. list \in Seq(Predicate)
  BY <1>1, <1>2, <1>3, ParsedDisjunct DEF ParsedFrom
<1>5. QED  BY <1>2, <1>4 DEF list, orig

LEMMA TypedStep ==
  ASSUME TypedInv, [Next]_vars
  PROVE  TypedInv'
<1>1. CASE UNCHANGED vars
  BY <1>1 DEF TypedInv, vars, Spots
<1>2. CASE Load
  <2>1. /\ phase = "start" /\ job' = job /\ conditions' = conditions /\ job \in Jobs
        /\ conditions = ParsedConditions(job) /\ mappings' = LoadMappings(job)
        /\ phase' \in {"failed", "done", "lists"}
    BY <1>2 DEF Load, TypedInv
  <2>2. /\ DOMAIN conditions = DOMAIN job.conditions
        /\ \A c \in DOMAIN job.conditions :
              /\ DOMAIN conditions[c] = DOMAIN job.conditions[c]
              /\ \A d \in DOMAIN job.conditions[c] :
                   /\ DOMAIN conditions[c][d] = DOMAIN job.conditions[c][d]
                   /\ \A i \in DOMAIN job.conditions[c][d] : conditions[c][d][i] = Parsed(job.conditions[c][d][i])
        /\ LikeIn(conditions, job.conditions)
    <3>1. job \in Jobs /\ conditions = ParsedConditions(job)
      BY <2>1
    <3>2. QED  BY <3>1, ParsedLists
  <2>3. ASSUME phase' = "lists", NEW s \in Spots
        PROVE  conditions[s[1]][s[2]] \in Seq(Predicate)
    <3> DEFINE c == s[1]
               d == s[2]
    <3>1. c \in DOMAIN job.conditions /\ d \in DOMAIN job.conditions[c]
      BY DEF Spots
    <3>2. \A k \in DOMAIN conditions : \A n \in DOMAIN conditions[k] :
            \A i \in DOMAIN conditions[k][n] : conditions[k][n][i].op # ""
      BY <1>2, <2>3 DEF Load
    <3>3. job \in Jobs /\ conditions = ParsedConditions(job)
      BY <2>1
    <3> HIDE DEF c, d
    <3>4. conditions[c][d] \in Seq(Predicate)
      BY <3>1, <3>2, <3>3, LoadedList
    <3>5. QED  BY <3>4 DEF c, d
  <2>4. Spots' = Spots
    <3>1. job' = job
      BY <2>1
    <3>2. QED  BY <3>1 DEF Spots
  <2>5. QED  BY <2>1, <2>2, <2>3, <2>4 DEF TypedInv, Rewriting
<1>3. CASE SubstituteInLists
  <2>1. /\ phase = "lists" /\ job' = job /\ mappings' = mappings /\ conditions' = conditions
        /\ work' = Places /\ prefixes' = AllPrefixes
        /\ phase' = IF work' = <<>> THEN "clean" ELSE "substitute"
    BY <1>3 DEF SubstituteInLists
  <2>2. /\ job \in Jobs /\ mappings = LoadMappings(job) /\ LikeIn(conditions, job.conditions)
        /\ \A s \in Spots : conditions[s[1]][s[2]] \in Seq(Predicate)
    BY <2>1 DEF TypedInv, Rewriting
  <2>3. Places \in Seq(Spots)
    BY <2>2, PlacesProperties
  <2>4. AllPrefixes \in Seq(Sides) /\ AllPrefixes # <<>>
    BY DEF AllPrefixes, Sides
  <2>5. Spots' = Spots
    BY <2>1 DEF Spots
  <2>6. QED  BY <2>1, <2>2, <2>3, <2>4, <2>5 DEF TypedInv, Rewriting
<1>4. CASE SubstituteInAndList
  <2> DEFINE list == SubstitutedList(Current, Head(prefixes))
  <2>1. /\ phase = "substitute" /\ job' = job /\ mappings' = mappings /\ work' = work
        /\ conditions' = Rewritten(list)
        /\ prefixes' = Tail(prefixes) /\ x' = 1 /\ y' = 2
        /\ phase' = IF prefixes' = <<>> THEN "compact" ELSE "substitute"
    BY <1>4 DEF SubstituteInAndList
  <2>2. /\ job \in Jobs /\ mappings = LoadMappings(job) /\ work \in Seq(Spots) /\ work # <<>>
        /\ prefixes \in Seq(Sides) /\ prefixes # <<>>
        /\ \A s \in Spots : conditions[s[1]][s[2]] \in Seq(Predicate)
    BY <2>1 DEF TypedInv, Rewriting
  <2>3. Head(prefixes) \in Sides /\ Tail(prefixes) \in Seq(Sides)
    BY <2>2, PrefixProperties
  <2>4. Current \in Seq(Predicate)
    BY <2>1, CurrentSpot
  <2>5. list \in Seq(Predicate)
    BY <2>2, <2>3, <2>4, SubstitutedMembers
  <2> HIDE DEF list
  <2>6. /\ LikeIn(conditions', job.conditions)
        /\ \A s \in Spots : conditions'[s[1]][s[2]] = IF s = work[1] THEN list ELSE conditions[s[1]][s[2]]
    BY <2>1, SpotRewritten
  <2>7. \A s \in Spots : conditions'[s[1]][s[2]] \in Seq(Predicate)
    BY <2>2, <2>5, <2>6
  <2>8. Spots' = Spots
    BY <2>1 DEF Spots
  <2>9. QED  BY <2>1, <2>2, <2>3, <2>6, <2>7, <2>8 DEF TypedInv, Rewriting
<1>5. CASE AbortOnReference
  BY <1>5 DEF AbortOnReference, TypedInv, Rewriting
<1>6. CASE ComparePair
  <2>1. phase = "compact" /\ phase' = "compact" /\ job' = job /\ mappings' = mappings /\ work' = work
    BY <1>6 DEF ComparePair
  <2>2. /\ job \in Jobs /\ mappings = LoadMappings(job) /\ work \in Seq(Spots) /\ work # <<>>
        /\ \A s \in Spots : conditions[s[1]][s[2]] \in Seq(Predicate)
    BY <2>1 DEF TypedInv, Rewriting
  <2>3. /\ x \in DOMAIN Current /\ y \in DOMAIN Current /\ x # y
        /\ x' \in Nat \ {0} /\ y' \in Nat /\ x' < y'
    BY <1>6, ComparePairTurn
  <2>4. PICK r : TurnTaken(r)
    BY <1>6, ComparePairTurn
  <2> DEFINE list == Turn(Current, x, y, r)
  <2>5. Current \in Seq(Predicate)
    BY <2>1, CurrentSpot
  <2>6. list \in Seq(Predicate)
    BY <2>3, <2>5, TurnMembers
  <2> HIDE DEF list
  <2>7. /\ LikeIn(conditions', job.conditions)
        /\ \A s \in Spots : conditions'[s[1]][s[2]] = IF s = work[1] THEN list ELSE conditions[s[1]][s[2]]
    BY <2>1, <2>4, SpotRewritten DEF list, TurnTaken
  <2>8. \A s \in Spots : conditions'[s[1]][s[2]] \in Seq(Predicate)
    BY <2>2, <2>6, <2>7
  <2>9. Spots' = Spots
    BY <2>1 DEF Spots
  <2>10. QED  BY <2>1, <2>2, <2>3, <2>7, <2>8, <2>9 DEF TypedInv, Rewriting
<1>7. CASE NextPredicate
  <2>1. x' \in Nat \ {0} /\ y' \in Nat /\ x' < y'
    BY <1>7 DEF NextPredicate, Following, TypedInv
  <2>2. Spots' = Spots
    BY <1>7 DEF NextPredicate, Spots
  <2>3. QED  BY <1>7, <2>1, <2>2 DEF NextPredicate, TypedInv
<1>8. CASE NextList
  <2>1. /\ phase = "compact" /\ job' = job /\ mappings' = mappings /\ conditions' = conditions
        /\ work' = Tail(work) /\ prefixes' = AllPrefixes
        /\ phase' = IF work' = <<>> THEN "relax" ELSE "substitute"
    BY <1>8 DEF NextList
  <2>2. Tail(work) \in Seq(Spots)
    BY <2>1, CurrentSpot
  <2>3. AllPrefixes \in Seq(Sides) /\ AllPrefixes # <<>>
    BY DEF AllPrefixes, Sides
  <2>4. Spots' = Spots
    BY <2>1 DEF Spots
  <2>5. /\ job \in Jobs /\ mappings = LoadMappings(job) /\ LikeIn(conditions, job.conditions)
        /\ \A s \in Spots : conditions[s[1]][s[2]] \in Seq(Predicate)
    BY <2>1 DEF TypedInv, Rewriting
  <2>6. QED  BY <2>1, <2>2, <2>3, <2>4, <2>5 DEF TypedInv, Rewriting
<1>9. CASE RelaxOperators
  <2>1. /\ phase = "relax" /\ phase' = "clean" /\ job' = job /\ mappings' = mappings
        /\ conditions' = OnPredicates(conditions, Relaxed)
    BY <1>9 DEF RelaxOperators
  <2>2. /\ job \in Jobs /\ mappings = LoadMappings(job) /\ LikeIn(conditions, job.conditions)
        /\ \A s \in Spots : conditions[s[1]][s[2]] \in Seq(Predicate)
    BY <2>1 DEF TypedInv, Rewriting
  <2>3. /\ LikeIn(conditions', job.conditions)
        /\ \A s \in Spots : conditions'[s[1]][s[2]] \in Seq(Predicate)
    BY <2>1, <2>2, RelaxedLists
  <2>4. Spots' = Spots
    BY <2>1 DEF Spots
  <2>5. QED  BY <2>1, <2>2, <2>3, <2>4 DEF TypedInv, Rewriting
<1>10. CASE CleanPredicates
  BY <1>10 DEF CleanPredicates, TypedInv, Rewriting
<1>11. QED
  BY <1>1, <1>2, <1>3, <1>4, <1>5, <1>6, <1>7, <1>8, <1>9, <1>10 DEF Next

-----------------------------------------------------------------------------
(* The steps keep what the conditions mean.  The same notions, of a job:   *)
(* it does not change, and from Load on its keys are the mappings.         *)

OrderedOf(ms) == UNION {m.cols : m \in {n \in ToSet(ms) : n.order # "None"}}
PossibleIn(orig, j) == \E b, h \in j.rows : AsksFor(orig, b, h)
KeptIn(ps, orig, j) ==
  /\ ps \in SUBSET Predicate
  /\ \A p \in ps : IsLiteral(p) /\ p.op = "<>" => p.attr.col \notin OrderedOf(LoadMappings(j))
  /\ PossibleIn(orig, j) => \A b, h \in j.rows : AsksFor(orig, b, h) <=> Hold(ps, b, h)
  /\ ~PossibleIn(orig, j) =>
       /\ ps = {} \/ \A b, h \in j.rows : ~Hold(ps, b, h)
       /\ \A p \in ps : p.op # "<>"
       /\ \A p \in ps : IsLiteral(p) /\ p.op = ">" => \E b, h \in j.rows : Holds(p, ">", b, h)
MeansIn(ps, orig, j) ==
  /\ PossibleIn(orig, j) => \A b, h \in j.rows : AsksFor(orig, b, h) <=> Hold(ps, b, h)
  /\ ~PossibleIn(orig, j) => ps = {} \/ \A b, h \in j.rows : ~Hold(ps, b, h)

CarefulOf(j, ms) ==
  /\ \A i, k \in DOMAIN ms : ms[i].ref = ms[k].ref => i = k
  /\ \A c \in DOMAIN j.conditions :
       LET dnf == j.conditions[c] IN
       /\ \E b, h \in j.rows : Before(dnf, b, h)
       /\ \A d \in DOMAIN dnf :
            /\ Len(dnf) > 1 => \E b, h \in j.rows : ~AsksFor(dnf[d], b, h)
            /\ \A i \in DOMAIN dnf[d] :
                 /\ dnf[d][i].op # "<>" \/ dnf[d][i].attr.col \notin OrderedOf(ms)
                 /\ \E b, h \in j.rows : Holds(dnf[d][i], Asked(dnf[d][i]), b, h)
            /\ \/ \E b, h \in j.rows : AsksFor(dnf[d], b, h)
               \/ /\ \A i \in DOMAIN dnf[d] : dnf[d][i].op # "<>"
                  /\ \A r \in j.rows : \A k \in Columns : r[k] # 0

LEMMA CarefulDisjunct ==
  ASSUME NEW j, NEW ms, CarefulOf(j, ms), NEW c \in DOMAIN j.conditions, NEW d \in DOMAIN j.conditions[c]
  PROVE  /\ Len(j.conditions[c]) > 1 => \E b, h \in j.rows : ~AsksFor(j.conditions[c][d], b, h)
         /\ PossibleIn(j.conditions[c][d], j) \/ \A r \in j.rows : \A k \in Columns : r[k] # 0
BY DEF CarefulOf, PossibleIn

LEMMA CarefulPredicate ==
  ASSUME NEW j, NEW ms, CarefulOf(j, ms), NEW c \in DOMAIN j.conditions, NEW d \in DOMAIN j.conditions[c],
         NEW i \in DOMAIN j.conditions[c][d]
  PROVE  /\ PossibleIn(j.conditions[c][d], j) \/ j.conditions[c][d][i].op # "<>"
         /\ j.conditions[c][d][i].op # "<>" \/ j.conditions[c][d][i].attr.col \notin OrderedOf(ms)
         /\ \E b, h \in j.rows : Holds(j.conditions[c][d][i], Asked(j.conditions[c][d][i]), b, h)
BY DEF CarefulOf, PossibleIn

LEMMA CarefulIs ==
  ASSUME mappings = LoadMappings(job)
  PROVE  Careful <=> CarefulOf(job, LoadMappings(job))
BY DEF Careful, CarefulOf, OrderedColumns, OrderedOf

LEMMA KeptIs ==
  ASSUME mappings = LoadMappings(job)
  PROVE  /\ \A ps, orig : KeptIn(ps, orig, job) <=> KeptBy(ps, orig)
         /\ \A ps, orig : MeansIn(ps, orig, job) <=> Means(ps, orig)
         /\ \A orig : PossibleIn(orig, job) <=> Possible(orig)
<1>1. OrderedColumns = OrderedOf(LoadMappings(job))
  BY DEF OrderedColumns, OrderedOf
<1>2. \A orig : PossibleIn(orig, job) <=> Possible(orig)
  BY DEF PossibleIn, Possible
<1>3. \A ps, orig : KeptIn(ps, orig, job) <=> KeptBy(ps, orig)
  BY <1>1, <1>2 DEF KeptIn, KeptBy
<1>4. \A ps, orig : MeansIn(ps, orig, job) <=> Means(ps, orig)
  BY <1>2 DEF MeansIn, Means
<1>5. QED  BY <1>2, <1>3, <1>4

(* What the parser makes of a disjunct is kept by definition, as long as   *)
(* its predicates keep their operators.                                    *)
LEMMA LoadedKept ==
  ASSUME NEW j \in Jobs, CarefulOf(j, LoadMappings(j)), NEW c \in DOMAIN j.conditions, NEW d \in DOMAIN j.conditions[c],
         NEW list, ParsedFrom(list, j.conditions[c][d])
  PROVE  KeptIn(ToSet(list), j.conditions[c][d], j)
<1> DEFINE orig == j.conditions[c][d]
           ps == ToSet(list)
           os == OrderedOf(LoadMappings(j))
<1>1. orig \in Seq(TextPred)
  BY JobConditions
<1>2. ASSUME NEW i \in DOMAIN orig
      PROVE  /\ PossibleIn(orig, j) \/ orig[i].op # "<>"
             /\ orig[i].op # "<>" \/ orig[i].attr.col \notin os
             /\ \E b, h \in j.rows : Holds(orig[i], Asked(orig[i]), b, h)
  BY CarefulPredicate
<1>3. ParsedFrom(list, orig)
  OBVIOUS
<1> HIDE DEF orig, os
<1>4. (\A p \in ToSet(list) : ComesFrom(p, orig)) /\ \A b, h : AsksFor(orig, b, h) <=> Hold(ToSet(list), b, h)
  BY <1>1, <1>3, ParsedDisjunct
<1> HIDE DEF ps
<1>5. ASSUME NEW p \in ps
      PROVE  /\ p \in Predicate
             /\ p.op = "<>" => p.attr.col \notin os
             /\ PossibleIn(orig, j) \/ p.op # "<>"
             /\ p.op = ">" => \E b, h \in j.rows : Holds(p, ">", b, h)
  <2>1. PICK i \in DOMAIN orig :
           p = Parsed(orig[i]) /\ p \in Predicate /\ p.op = Asked(orig[i])
           /\ (p.op = "<>" <=> orig[i].op = "<>") /\ p.attr = orig[i].attr
           /\ \A b, h, op : Holds(p, op, b, h) <=> Holds(orig[i], op, b, h)
    BY <1>4 DEF ps, ComesFrom
  <2>2. \E b, h \in j.rows : Holds(orig[i], Asked(orig[i]), b, h)
    BY <1>2
  <2>3. \E b, h \in j.rows : Holds(p, p.op, b, h)
    BY <2>1, <2>2
  <2>4. QED  BY <1>2, <2>1, <2>3
<1>6. \A b, h : AsksFor(orig, b, h) <=> Hold(ps, b, h)
  BY <1>4 DEF ps
<1>7. ~PossibleIn(orig, j) => \A b, h \in j.rows : ~Hold(ps, b, h)
  BY <1>6 DEF PossibleIn
<1>8. KeptIn(ps, orig, j)
  BY <1>5, <1>6, <1>7 DEF KeptIn, os
<1>9. QED  BY <1>8 DEF ps, orig

(* A condition as it was parsed accepts what the one of the user accepts.  *)
LEMMA ParsedSame ==
  ASSUME NEW j \in Jobs, NEW cs, cs = ParsedConditions(j), NEW c \in DOMAIN j.conditions,
         \A d \in DOMAIN cs[c] : \A i \in DOMAIN cs[c][d] : cs[c][d][i].op # "",
         NEW b, NEW h
  PROVE  Before(j.conditions[c], b, h) <=> After(cs[c], b, h)
<1> DEFINE dnf == j.conditions[c]
           new == cs[c]
<1>1. /\ DOMAIN new = DOMAIN dnf /\ Alike(new, dnf)
      /\ \A d \in DOMAIN dnf : /\ DOMAIN new[d] = DOMAIN dnf[d] /\ Alike(new[d], dnf[d])
                               /\ \A i \in DOMAIN dnf[d] : new[d][i] = Parsed(dnf[d][i])
  BY DEF ParsedConditions, OnPredicates, Alike
<1>2. /\ DOMAIN dnf = 1 .. Len(dnf) /\ Len(dnf) \in Nat /\ dnf \in Seq(Seq(TextPred))
      /\ \A d \in DOMAIN dnf : dnf[d] \in Seq(TextPred)
  BY JobConditions
<1>3. \A d \in DOMAIN new : \A i \in DOMAIN new[d] : new[d][i].op # ""
  OBVIOUS
<1> HIDE DEF dnf, new
<1>4. ASSUME NEW d \in DOMAIN dnf
      PROVE  AsksFor(dnf[d], b, h) <=> \A i \in DOMAIN new[d] : Holds(new[d][i], new[d][i].op, b, h)
  <2> DEFINE orig == dnf[d]
             list == new[d]
  <2>1. orig \in Seq(TextPred) /\ ParsedFrom(list, orig)
    BY <1>1, <1>2, <1>3 DEF ParsedFrom
  <2> HIDE DEF orig, list
  <2>2. AsksFor(orig, b, h) <=> Hold(ToSet(list), b, h)
    BY <2>1, ParsedDisjunct
  <2>3. Hold(ToSet(list), b, h) <=> \A i \in DOMAIN list : Holds(list[i], list[i].op, b, h)
    BY DEF Hold, ToSet
  <2>4. QED  BY <2>2, <2>3 DEF orig, list
<1>5. new = <<>> <=> dnf = <<>>
  <2>1. new = [d \in 1 .. Len(dnf) |-> new[d]]
    BY <1>1, <1>2 DEF Alike
  <2>2. IsList(new) /\ Len(new) = Len(dnf)
    BY <1>2, <2>1, ListOf
  <2>3. Len(new) = 0 <=> new = <<>>
    <3> DEFINE S == {new[k] : k \in DOMAIN new}
    <3>1. new \in Seq(S)
      BY <2>2 DEF IsList
    <3> HIDE DEF S
    <3>2. QED  BY <3>1, EmptySeq
  <2>4. Len(dnf) = 0 <=> dnf = <<>>
    BY <1>2, EmptySeq
  <2>5. QED  BY <2>2, <2>3, <2>4
<1>6. Before(dnf, b, h) <=> After(new, b, h)
  BY <1>1, <1>4, <1>5 DEF Before, After
<1>7. QED  BY <1>6 DEF dnf, new

JobCareful == CarefulOf(job, LoadMappings(job))
KeptLists(cs) == \A s \in Spots : KeptIn(ToSet(cs[s[1]][s[2]]), job.conditions[s[1]][s[2]], job)
MeantLists(cs) == \A s \in Spots : MeansIn(ToSet(cs[s[1]][s[2]]), job.conditions[s[1]][s[2]], job)

LEMMA KeysOfJob ==
  ASSUME EquivalentKeys, OrderedKeys, job \in Jobs, mappings = LoadMappings(job)
  PROVE  KeysHold
<1>1. DOMAIN mappings = 1 .. Len(mappings)
  BY LoadedKeys, ListDomain
<1>2. QED  BY <1>1, TrueKeys DEF KeysHold

LEMMA CarefulSpot ==
  ASSUME JobCareful, mappings = LoadMappings(job), NEW s \in Spots
  PROVE  /\ OwnReferences
         /\ Possible(job.conditions[s[1]][s[2]]) \/ \A r \in job.rows : \A k \in Columns : r[k] # 0
<1>1. s[1] \in DOMAIN job.conditions /\ s[2] \in DOMAIN job.conditions[s[1]]
  BY DEF Spots
<1>2. OwnReferences
  BY DEF OwnReferences, JobCareful, CarefulOf
<1>3. PossibleIn(job.conditions[s[1]][s[2]], job) \/ \A r \in job.rows : \A k \in Columns : r[k] # 0
  BY <1>1, CarefulDisjunct DEF JobCareful
<1>4. QED  BY <1>2, <1>3, KeptIs

LEMMA LoadKept ==
  ASSUME TypedInv, Load
  PROVE  /\ phase' = "lists" /\ JobCareful => KeptLists(conditions)
         /\ phase' = "done" => \A c \in DOMAIN conditions : \A b, h \in job.rows :
              Before(job.conditions[c], b, h) <=> After(conditions[c], b, h)
<1>1. job \in Jobs /\ conditions = ParsedConditions(job)
  BY DEF Load, TypedInv
<1>2. phase' \in {"lists", "done"} =>
        \A k \in DOMAIN conditions : \A n \in DOMAIN conditions[k] :
          \A i \in DOMAIN conditions[k][n] : conditions[k][n][i].op # ""
  BY DEF Load
<1>3. ASSUME phase' = "lists", JobCareful, NEW s \in Spots
      PROVE  KeptIn(ToSet(conditions[s[1]][s[2]]), job.conditions[s[1]][s[2]], job)
  <2> DEFINE c == s[1]
             d == s[2]
  <2>1. c \in DOMAIN job.conditions /\ d \in DOMAIN job.conditions[c]
    BY DEF Spots
  <2>2. CarefulOf(job, LoadMappings(job))
    BY <1>3 DEF JobCareful
  <2> HIDE DEF c, d
  <2>3. \A i \in DOMAIN job.conditions[c][d] :
          conditions[c][d][i] = Parsed(job.conditions[c][d][i]) /\ conditions[c][d][i].op # ""
    BY <1>1, <1>2, <1>3, <2>1, LoadedList
  <2>4. Alike(conditions[c][d], job.conditions[c][d])
    BY <1>1, <2>1 DEF ParsedConditions, OnPredicates, Alike
  <2>5. ParsedFrom(conditions[c][d], job.conditions[c][d])
    BY <2>3, <2>4 DEF ParsedFrom
  <2>6. QED  BY <1>1, <2>1, <2>2, <2>5, LoadedKept DEF c, d
<1>4. ASSUME phase' = "done", NEW c \in DOMAIN conditions, NEW b \in job.rows, NEW h \in job.rows
      PROVE  Before(job.conditions[c], b, h) <=> After(conditions[c], b, h)
  <2>1. c \in DOMAIN job.conditions
    BY <1>1, ParsedLists
  <2>2. \A d \in DOMAIN conditions[c] : \A i \in DOMAIN conditions[c][d] : conditions[c][d][i].op # ""
    BY <1>2, <1>4
  <2>3. QED  BY <1>1, <2>1, <2>2, ParsedSame
<1>5. QED  BY <1>3, <1>4 DEF KeptLists

(* One list rewritten: what is left to see is that list.                   *)
LEMMA RewrittenKept ==
  ASSUME TypedInv, phase \in {"substitute", "compact"}, KeptLists(conditions),
         NEW list, conditions' = Rewritten(list), job' = job,
         KeptIn(ToSet(list), job.conditions[work[1][1]][work[1][2]], job)
  PROVE  KeptLists(conditions')
<1>1. \A s \in Spots : conditions'[s[1]][s[2]] = IF s = work[1] THEN list ELSE conditions[s[1]][s[2]]
  BY SpotRewritten
<1>2. ASSUME NEW s \in Spots
      PROVE  KeptIn(ToSet(conditions'[s[1]][s[2]]), job.conditions[s[1]][s[2]], job)
  <2>1. CASE s = work[1]
    <3>1. conditions'[s[1]][s[2]] = list
      BY <1>1, <2>1
    <3>2. QED  BY <2>1, <3>1
  <2>2. CASE s # work[1]
    <3>1. conditions'[s[1]][s[2]] = conditions[s[1]][s[2]]
      BY <1>1, <2>2
    <3>2. KeptIn(ToSet(conditions[s[1]][s[2]]), job.conditions[s[1]][s[2]], job)
      BY DEF KeptLists
    <3>3. QED  BY <3>1, <3>2
  <2>3. QED  BY <2>1, <2>2
<1>3. QED  BY <1>2 DEF KeptLists

LEMMA CurrentKept ==
  ASSUME TypedInv, phase \in {"substitute", "compact"}, KeptLists(conditions)
  PROVE  Kept(Current, job.conditions[work[1][1]][work[1][2]]) /\ job \in Jobs /\ mappings = LoadMappings(job)
<1>1. work[1] \in Spots /\ Current \in Seq(Predicate)
  BY CurrentSpot
<1>2. KeptIn(ToSet(Current), job.conditions[work[1][1]][work[1][2]], job)
  BY <1>1 DEF KeptLists, Current
<1>3. job \in Jobs /\ mappings = LoadMappings(job)
  BY DEF TypedInv
<1>4. QED  BY <1>1, <1>2, <1>3, KeptIs DEF Kept

LEMMA SubstituteKept ==
  ASSUME EquivalentKeys, OrderedKeys, TypedInv, JobCareful, KeptLists(conditions), SubstituteInAndList
  PROVE  KeptLists(conditions')
<1> DEFINE prefix == Head(prefixes)
           list == SubstitutedList(Current, prefix)
           orig == job.conditions[work[1][1]][work[1][2]]
<1>1. phase = "substitute" /\ conditions' = Rewritten(list) /\ job' = job /\ Single(Current, prefix)
  BY DEF SubstituteInAndList, Single
<1>2. prefix \in Sides
  <2>1. prefixes \in Seq(Sides) /\ prefixes # <<>>
    BY <1>1 DEF TypedInv
  <2>2. QED  BY <2>1, PrefixProperties
<1>3. Kept(Current, orig) /\ job \in Jobs /\ mappings = LoadMappings(job)
  BY <1>1, CurrentKept
<1>4. KeysHold
  BY <1>3, KeysOfJob
<1>5. work[1] \in Spots
  BY <1>1, CurrentSpot
<1>6. OwnReferences /\ (Possible(orig) \/ \A r \in job.rows : \A k \in Columns : r[k] # 0)
  BY <1>3, <1>5, CarefulSpot
<1> HIDE DEF prefix, orig
<1>7. Kept(list, orig)
  BY <1>1, <1>2, <1>3, <1>4, <1>6, SubstitutedKept
<1> HIDE DEF list
<1>8. KeptIn(ToSet(list), orig, job)
  BY <1>3, <1>7, KeptIs DEF Kept
<1>9. QED  BY <1>1, <1>8, RewrittenKept DEF orig

LEMMA CompareKept ==
  ASSUME TypedInv, KeptLists(conditions), ComparePair, ~misread'
  PROVE  KeptLists(conditions')
<1> DEFINE orig == job.conditions[work[1][1]][work[1][2]]
<1>1. phase = "compact" /\ job' = job
  BY DEF ComparePair
<1>2. x \in DOMAIN Current /\ y \in DOMAIN Current /\ x # y
  BY ComparePairTurn
<1>3. PICK r : TurnTaken(r)
  BY ComparePairTurn
<1> DEFINE list == Turn(Current, x, y, r)
<1>4. Kept(Current, orig) /\ job \in Jobs /\ mappings = LoadMappings(job)
  BY <1>1, CurrentKept
<1> HIDE DEF orig
<1>5. Kept(list, orig)
  BY <1>2, <1>3, <1>4, TurnKept DEF TurnTaken
<1>6. conditions' = Rewritten(list)
  BY <1>3 DEF TurnTaken
<1> HIDE DEF list
<1>7. KeptIn(ToSet(list), orig, job)
  BY <1>4, <1>5, KeptIs DEF Kept
<1>8. QED  BY <1>1, <1>6, <1>7, RewrittenKept DEF orig

LEMMA RelaxKept ==
  ASSUME TypedInv, JobCareful, KeptLists(conditions), RelaxOperators
  PROVE  MeantLists(conditions')
<1>1. phase = "relax" /\ conditions' = OnPredicates(conditions, Relaxed)
  BY DEF RelaxOperators
<1>2. /\ job \in Jobs /\ mappings = LoadMappings(job) /\ LikeIn(conditions, job.conditions)
      /\ \A s \in Spots : conditions[s[1]][s[2]] \in Seq(Predicate)
  BY <1>1 DEF TypedInv, Rewriting
<1>3. ASSUME NEW s \in Spots
      PROVE  MeansIn(ToSet(conditions'[s[1]][s[2]]), job.conditions[s[1]][s[2]], job)
  <2> DEFINE list == conditions[s[1]][s[2]]
             orig == job.conditions[s[1]][s[2]]
  <2>1. ToSet(conditions'[s[1]][s[2]]) = {Relaxed(list[i]) : i \in DOMAIN list}
    BY <1>1, <1>2, RelaxedLists
  <2>2. KeptIn(ToSet(list), orig, job) /\ list \in Seq(Predicate)
    BY <1>2 DEF KeptLists
  <2>3. Possible(orig) \/ \A r \in job.rows : \A k \in Columns : r[k] # 0
    BY <1>2, CarefulSpot
  <2> HIDE DEF list, orig
  <2>4. Kept(list, orig)
    BY <1>2, <2>2, KeptIs DEF Kept
  <2>5. Means({Relaxed(list[i]) : i \in DOMAIN list}, orig)
    BY <1>2, <2>3, <2>4, RelaxedMeans
  <2>6. MeansIn({Relaxed(list[i]) : i \in DOMAIN list}, orig, job)
    BY <1>2, <2>5, KeptIs
  <2>7. QED  BY <2>1, <2>6 DEF orig
<1>4. QED  BY <1>3 DEF MeantLists

LEMMA CleanKept ==
  ASSUME TypedInv, JobCareful, MeantLists(conditions), CleanPredicates
  PROVE  \A c \in DOMAIN conditions' : \A b, h \in job.rows :
           Before(job.conditions[c], b, h) <=> After(conditions'[c], b, h)
<1>1. phase = "clean"
      /\ conditions' = [c \in DOMAIN conditions |->
                         Selected(conditions[c], {d \in DOMAIN conditions[c] : conditions[c][d] # <<>>})]
  BY DEF CleanPredicates
<1>2. /\ job \in Jobs /\ mappings = LoadMappings(job) /\ LikeIn(conditions, job.conditions)
      /\ \A s \in Spots : conditions[s[1]][s[2]] \in Seq(Predicate)
  BY <1>1 DEF TypedInv
<1>3. ASSUME NEW c \in DOMAIN conditions', NEW b \in job.rows, NEW h \in job.rows
      PROVE  Before(job.conditions[c], b, h) <=> After(conditions'[c], b, h)
  <2> DEFINE dnf == job.conditions[c]
             cs == conditions[c]
             S == Seq(Predicate)
  <2>1. c \in DOMAIN conditions /\ conditions'[c] = Selected(cs, {d \in DOMAIN cs : cs[d] # <<>>})
    BY <1>1
  <2>2. c \in DOMAIN job.conditions /\ DOMAIN cs = DOMAIN dnf /\ Alike(cs, dnf)
    BY <1>2, <2>1 DEF LikeIn, Alike
  <2>3. /\ dnf \in Seq(Seq(TextPred)) /\ DOMAIN dnf = 1 .. Len(dnf) /\ Len(dnf) \in Nat
    BY <1>2, <2>2, JobConditions
  <2>4. ASSUME NEW d \in DOMAIN dnf
        PROVE  /\ cs[d] \in S /\ Means(ToSet(cs[d]), dnf[d])
               /\ Len(dnf) > 1 => \E u, v \in job.rows : ~AsksFor(dnf[d], u, v)
    <3> DEFINE s == <<c, d>>
    <3>1. s \in Spots /\ s[1] = c /\ s[2] = d
      BY <2>2 DEF Spots
    <3>2. conditions[c][d] \in Seq(Predicate) /\ MeansIn(ToSet(conditions[c][d]), job.conditions[c][d], job)
      BY <1>2, <3>1 DEF MeantLists
    <3>3. Means(ToSet(cs[d]), dnf[d])
      BY <1>2, <3>2, KeptIs
    <3>4. Len(dnf) > 1 => \E u, v \in job.rows : ~AsksFor(dnf[d], u, v)
      BY <2>2, CarefulDisjunct DEF JobCareful
    <3>5. QED  BY <3>2, <3>3, <3>4
  <2>5. \E u, v \in job.rows : Before(dnf, u, v)
    BY <2>2 DEF JobCareful, CarefulOf
  <2> HIDE DEF S, dnf, cs
  <2>6. cs \in Seq(S)
    <3>1. cs = [d \in 1 .. Len(dnf) |-> cs[d]]
      BY <2>2, <2>3 DEF Alike
    <3>2. IsList(cs) /\ Len(cs) = Len(dnf)
      BY <2>3, <3>1, ListOf
    <3>3. \A d \in 1 .. Len(cs) : cs[d] \in S
      BY <2>3, <2>4, <3>2
    <3>4. QED  BY <3>2, <3>3, ListInSet
  <2>7. Before(dnf, b, h) <=> After(Selected(cs, {d \in DOMAIN cs : cs[d] # <<>>}), b, h)
    BY <1>2, <2>2, <2>3, <2>4, <2>5, <2>6, CleanMeans DEF S
  <2>8. QED  BY <2>1, <2>7 DEF dnf
<1>4. QED  BY <1>3

(* No deleted attribute has been taken for that of another predicate.      *)
KeptInv ==
  JobCareful /\ ~misread =>
    /\ phase \in Rewriting => KeptLists(conditions)
    /\ phase = "clean" => MeantLists(conditions)
    /\ SameSemantics

LEMMA JobFrame ==
  ASSUME job' = job
  PROVE  /\ JobCareful' <=> JobCareful
         /\ KeptLists(conditions)' <=> KeptLists(conditions')
         /\ MeantLists(conditions)' <=> MeantLists(conditions')
<1>1. Spots' = Spots
  BY DEF Spots
<1>2. JobCareful' <=> JobCareful
  BY DEF JobCareful
<1>3. KeptLists(conditions)' <=> KeptLists(conditions')
  BY <1>1 DEF KeptLists
<1>4. MeantLists(conditions)' <=> MeantLists(conditions')
  BY <1>1 DEF MeantLists
<1>5. QED  BY <1>2, <1>3, <1>4

LEMMA KeptStep ==
  ASSUME EquivalentKeys, OrderedKeys, TypedInv, TypedInv', KeptInv, [Next]_vars
  PROVE  KeptInv'
<1>1. job' = job
  BY DEF Next, vars, Load, SubstituteInLists, SubstituteInAndList, AbortOnReference, ComparePair, NextPredicate,
         NextList, RelaxOperators, CleanPredicates
<1>2. SUFFICES ASSUME JobCareful, ~misread'
               PROVE  /\ phase' \in Rewriting => KeptLists(conditions')
                      /\ phase' = "clean" => MeantLists(conditions')
                      /\ SameSemantics'
  BY <1>1, JobFrame DEF KeptInv
<1>3. /\ phase \in Rewriting => KeptLists(conditions)
      /\ phase = "clean" => MeantLists(conditions)
      /\ SameSemantics
  <2>1. ~misread
    BY <1>2 DEF Next, vars, reads, Load, SubstituteInLists, SubstituteInAndList, AbortOnReference, ComparePair,
       NextPredicate, NextList, RelaxOperators, CleanPredicates
  <2>2. QED  BY <1>2, <2>1 DEF KeptInv
<1>4. ASSUME phase' # "done"  PROVE SameSemantics'
  BY <1>4 DEF SameSemantics
<1>5. CASE UNCHANGED vars
  <2>1. conditions' = conditions /\ phase' = phase
    BY <1>5 DEF vars
  <2>2. SameSemantics' <=> SameSemantics
    BY <1>1, <2>1 DEF SameSemantics
  <2>3. QED  BY <1>3, <2>1, <2>2
<1>6. CASE Load
  <2>1. phase' \in {"failed", "done", "lists"} /\ conditions' = conditions
    BY <1>6 DEF Load
  <2>2. /\ phase' = "lists" => KeptLists(conditions)
        /\ phase' = "done" => \A c \in DOMAIN conditions : \A b, h \in job.rows :
              Before(job.conditions[c], b, h) <=> After(conditions[c], b, h)
    BY <1>2, <1>6, LoadKept
  <2>3. SameSemantics'
    BY <1>1, <2>1, <2>2 DEF SameSemantics
  <2>4. QED  BY <2>1, <2>2, <2>3 DEF Rewriting
<1>7. CASE SubstituteInLists
  <2>1. /\ phase = "lists" /\ phase' \in {"clean", "substitute"} /\ conditions' = conditions /\ work' = Places
        /\ phase' = "clean" => work' = <<>>
    BY <1>7 DEF SubstituteInLists
  <2>2. KeptLists(conditions')
    BY <1>3, <2>1 DEF Rewriting
  <2>3. phase' = "clean" => Spots = {}
    <3>1. job \in Jobs /\ LikeIn(conditions, job.conditions)
      BY <2>1 DEF TypedInv, Rewriting
    <3>2. \A s \in Spots : \E k \in DOMAIN Places : Places[k] = s
      BY <3>1, PlacesProperties
    <3>3. DOMAIN << >> = {}
      OBVIOUS
    <3>4. QED  BY <2>1, <3>2, <3>3
  <2>4. phase' = "clean" => MeantLists(conditions')
    BY <2>3 DEF MeantLists
  <2>5. QED  BY <1>4, <2>1, <2>2, <2>4
<1>8. CASE SubstituteInAndList
  <2>1. phase = "substitute" /\ phase' \in {"compact", "substitute"}
    BY <1>8 DEF SubstituteInAndList
  <2>2. KeptLists(conditions')
    BY <1>2, <1>3, <1>8, <2>1, SubstituteKept DEF Rewriting
  <2>3. QED  BY <1>4, <2>1, <2>2
<1>9. CASE AbortOnReference
  <2>1. phase' = "aborted"
    BY <1>9 DEF AbortOnReference
  <2>2. QED  BY <1>4, <2>1 DEF Rewriting
<1>10. CASE ComparePair
  <2>1. phase = "compact" /\ phase' = "compact"
    BY <1>10 DEF ComparePair
  <2>2. KeptLists(conditions')
    BY <1>2, <1>3, <1>10, <2>1, CompareKept DEF Rewriting
  <2>3. QED  BY <1>4, <2>1, <2>2
<1>11. CASE NextPredicate \/ NextList
  <2>1. phase = "compact" /\ phase' \in {"compact", "relax", "substitute"} /\ conditions' = conditions
    BY <1>11 DEF NextPredicate, NextList
  <2>2. QED  BY <1>3, <1>4, <2>1 DEF Rewriting
<1>12. CASE RelaxOperators
  <2>1. phase = "relax" /\ phase' = "clean"
    BY <1>12 DEF RelaxOperators
  <2>2. MeantLists(conditions')
    BY <1>2, <1>3, <1>12, <2>1, RelaxKept DEF Rewriting
  <2>3. QED  BY <1>4, <2>1, <2>2 DEF Rewriting
<1>13. CASE CleanPredicates
  <2>1. phase = "clean" /\ phase' = "done"
    BY <1>13 DEF CleanPredicates
  <2>2. \A c \in DOMAIN conditions' : \A b, h \in job.rows :
          Before(job.conditions[c], b, h) <=> After(conditions'[c], b, h)
    BY <1>2, <1>3, <1>13, <2>1, CleanKept
  <2>3. SameSemantics'
    BY <1>1, <2>2 DEF SameSemantics
  <2>4. QED  BY <2>1, <2>3 DEF Rewriting
<1>14. QED
  BY <1>5, <1>6, <1>7, <1>8, <1>9, <1>10, <1>11, <1>12, <1>13 DEF Next

(* QueryNormalizer "maintains the same semantics", with any keys that are  *)
(* true of the table: every condition of a careful minerule accepts the    *)
(* pairs of rows it accepted before its predicates were substituted,       *)
(* compacted, relaxed and cleaned, unless compactPredicates has taken the  *)
(* attribute of a predicate it deleted for that of another one.            *)
THEOREM RowsKept == EquivalentKeys /\ OrderedKeys => (Spec => []SameRows)
<1> SUFFICES ASSUME EquivalentKeys, OrderedKeys  PROVE Spec => []SameRows
  OBVIOUS
<1>1. Init => TypedInv /\ KeptInv
  <2> SUFFICES ASSUME Init  PROVE TypedInv /\ KeptInv
    OBVIOUS
  <2>1. job \in Jobs /\ phase = "start" /\ conditions = OnPredicates(job.conditions, Parsed)
    BY DEF Init
  <2>2. TypedInv
    BY <2>1 DEF TypedInv, ParsedConditions, Rewriting
  <2>3. KeptInv
    BY <2>1 DEF KeptInv, Rewriting, SameSemantics
  <2>4. QED  BY <2>2, <2>3
<1>2. TypedInv /\ KeptInv /\ [Next]_vars => TypedInv' /\ KeptInv'
  BY TypedStep, KeptStep
<1>3. TypedInv /\ KeptInv => SameRows
  <2> SUFFICES ASSUME TypedInv, KeptInv, Careful, ~misread  PROVE SameSemantics
    BY DEF SameRows
  <2>1. CASE phase # "done"
    BY <2>1 DEF SameSemantics
  <2>2. CASE phase = "done"
    <3>1. mappings = LoadMappings(job)
      BY <2>2 DEF TypedInv
    <3>2. JobCareful
      BY <3>1, CarefulIs DEF JobCareful
    <3>3. QED  BY <3>2 DEF KeptInv
  <2>3. QED  BY <2>1, <2>2
<1>4. QED  BY <1>1, <1>2, <1>3, PTL DEF Spec

-----------------------------------------------------------------------------
(* What is left in the end: Normal.                                        *)

(* A comparison with a literal of an attribute that is an ordered key.     *)
OnKeyAlone(p, j) ==
  IsLiteral(p) /\ \E m \in ToSet(LoadMappings(j)) : m.order # "None" /\ m.cols = {p.attr.col}

NormalInv ==
  /\ phase \in {"substitute", "compact"} => \A s \in Spots : \A p \in ToSet(conditions[s[1]][s[2]]) :
       OnKeyAlone(p, job) => \E k \in DOMAIN work : work[k] = s /\ (k = 1 => p.attr.prefix \in ToSet(prefixes))
  /\ phase = "compact" => prefixes = <<>>
  /\ phase \in {"relax", "clean"} => \A s \in Spots : \A p \in ToSet(conditions[s[1]][s[2]]) : ~OnKeyAlone(p, job)
  /\ phase = "clean" => \A s \in Spots : \A p \in ToSet(conditions[s[1]][s[2]]) :
       IsLiteral(p) => p.op \notin {"<", ">"}
  /\ Normal

LEMMA KeyOfSorted ==
  ASSUME job \in Jobs, mappings = LoadMappings(job)
  PROVE  /\ \A m \in ToSet(LoadMappings(job)) : \E k \in DOMAIN SortedMappings : SortedMappings[k] = m
         /\ \A k \in DOMAIN SortedMappings : SortedMappings[k] \in ToSet(LoadMappings(job))
<1>1. /\ \A k \in DOMAIN SortedMappings : SortedAt[k] \in DOMAIN mappings /\ SortedMappings[k] = mappings[SortedAt[k]]
      /\ \A i \in DOMAIN mappings : \E k \in DOMAIN SortedMappings : SortedAt[k] = i
  BY SortedKeys
<1>2. ASSUME NEW m \in ToSet(mappings)  PROVE \E k \in DOMAIN SortedMappings : SortedMappings[k] = m
  <2>1. PICK i \in DOMAIN mappings : mappings[i] = m
    BY DEF ToSet
  <2>2. PICK k \in DOMAIN SortedMappings : SortedAt[k] = i
    BY <1>1
  <2>3. SortedMappings[k] = m
    BY <1>1, <2>1, <2>2
  <2>4. QED  BY <2>3
<1>3. ASSUME NEW k \in DOMAIN SortedMappings  PROVE SortedMappings[k] \in ToSet(mappings)
  BY <1>1 DEF ToSet
<1>4. QED  BY <1>2, <1>3

(* A predicate on such an attribute is found, and replaced.                *)
LEMMA AloneReplaced ==
  ASSUME job \in Jobs, mappings = LoadMappings(job), NEW list, NEW i \in DOMAIN list, OnKeyAlone(list[i], job)
  PROVE  i \in Replaced(list, list[i].attr.prefix)
<1> DEFINE p == list[i]
           prefix == list[i].attr.prefix
<1>1. PICK m \in ToSet(LoadMappings(job)) : m.order # "None" /\ m.cols = {p.attr.col}
  BY DEF OnKeyAlone
<1>2. PICK k \in DOMAIN SortedMappings : SortedMappings[k] = m
  BY KeyOfSorted
<1> DEFINE ps == {n \in DOMAIN list :
                    /\ IsLiteral(list[n]) /\ list[n].attr.prefix = prefix /\ list[n].attr.col \in m.cols
                    /\ m.order = "None" => list[n].op = "="}
<1>3. i \in ps
  BY <1>1 DEF OnKeyAlone
<1>4. {list[n].attr.col : n \in ps} = m.cols
  <2>1. \A n \in ps : list[n].attr.col = p.attr.col
    BY <1>1
  <2>2. p.attr.col \in {list[n].attr.col : n \in ps}
    BY <1>3
  <2>3. QED  BY <1>1, <2>1, <2>2
<1>5. PredicatesOn(list, m, prefix) = ps
  BY <1>4 DEF PredicatesOn
<1> HIDE DEF ps, prefix
<1>6. k \in FoundBy(list, prefix)
  BY <1>2, <1>3, <1>5 DEF FoundBy
<1>7. i \in Replaced(list, prefix)
  BY <1>2, <1>3, <1>5, <1>6 DEF Replaced
<1>8. QED  BY <1>7 DEF prefix

LEMMA AddedOnReference ==
  ASSUME ReferencesLast, job \in Jobs, mappings = LoadMappings(job), NEW list, NEW prefix \in Sides,
         Single(list, prefix), NEW ref \in RefsOf(list, prefix), NEW p \in ToSet(NewFor(ref, list, prefix))
  PROVE  ~OnKeyAlone(p, job)
<1>1. Bounds(NewFor(ref, list, prefix), ref, prefix) /\ ref \in Columns
  BY NewForBound
<1>2. p.attr.col = ref
  <2> DEFINE N == NewFor(ref, list, prefix)
  <2>1. PICK i \in DOMAIN N : p = N[i]
    BY DEF ToSet
  <2> HIDE DEF N
  <2>2. IsList(N) /\ \A n \in 1 .. Len(N) :
          \E op \in {"=", "<=", ">="}, v \in Nat : N[n] = Bound(prefix, ref, op, v)
    BY <1>1 DEF Bounds, N
  <2>3. i \in 1 .. Len(N)
    BY <2>1, <2>2, ListDomain
  <2>4. PICK op \in {"=", "<=", ">="}, v \in Nat : N[i] = Bound(prefix, ref, op, v)
    BY <2>2, <2>3
  <2>5. Bound(prefix, ref, op, v).attr.col = ref
    BY DEF Bound
  <2>6. QED  BY <2>1, <2>4, <2>5
<1>3. PICK k \in FoundBy(list, prefix) : ref \in SortedMappings[k].ref
  BY DEF RefsOf
<1>4. k \in DOMAIN SortedMappings
  BY DEF FoundBy
<1>5. SortedMappings[k] \in ToSet(LoadMappings(job))
  BY <1>4, KeyOfSorted
<1>6. SortedMappings[k].ref = {ref}
  <2>1. Cardinality(SortedMappings[k].ref) = 1
    BY DEF Single
  <2>2. IsFiniteSet(SortedMappings[k].ref)
    <3>1. PICK i \in DOMAIN mappings : SortedMappings[k] = mappings[i]
      BY <1>5 DEF ToSet
    <3>2. i \in 1 .. Len(LoadMappings(job))
      BY LoadedKeys, ListDomain
    <3>3. Key(LoadMappings(job)[i])
      BY <3>2, LoadedKeys
    <3>4. SortedMappings[k].ref \in SUBSET Columns /\ IsFiniteSet(Columns)
      BY <3>1, <3>3, JobsAssumption DEF Key
    <3>5. QED  BY <3>4, FS_Subset
  <2>3. PICK e : SortedMappings[k].ref = {e}
    BY <2>1, <2>2, FS_Singleton
  <2>4. QED  BY <1>3, <2>3
<1>7. \A m \in ToSet(LoadMappings(job)) : m.order # "None" => m.cols # {ref}
  BY <1>5, <1>6 DEF ReferencesLast
<1>8. QED  BY <1>2, <1>7 DEF OnKeyAlone

(* After a prefix no predicate of that prefix is on a key alone, and those *)
(* of the other prefixes are the ones there were.                          *)
LEMMA SubstitutedNormal ==
  ASSUME ReferencesLast, job \in Jobs, mappings = LoadMappings(job), NEW list \in Seq(Predicate),
         NEW prefix \in Sides, Single(list, prefix),
         NEW p \in ToSet(SubstitutedList(list, prefix)), OnKeyAlone(p, job)
  PROVE  p \in ToSet(list) /\ p.attr.prefix # prefix
<1>1. \/ \E r \in RefsOf(list, prefix) : p \in ToSet(NewFor(r, list, prefix))
      \/ \E i \in DOMAIN list \ Replaced(list, prefix) : p = list[i]
  BY SubstitutedMembers
<1>2. PICK i \in DOMAIN list \ Replaced(list, prefix) : p = list[i]
  BY <1>1, AddedOnReference
<1>3. i \in Replaced(list, p.attr.prefix)
  BY <1>2, AloneReplaced
<1>4. QED  BY <1>2, <1>3 DEF ToSet

LEMMA PrefixMembers ==
  ASSUME NEW q \in Seq(Sides), q # <<>>, NEW e \in ToSet(q), e # Head(q)
  PROVE  e \in ToSet(Tail(q))
<1>1. DOMAIN q = 1 .. Len(q) /\ Len(q) \in Nat /\ Head(q) = q[1]
  BY LenProperties, HeadTailProperties
<1>2. /\ Tail(q) \in Seq(Sides) /\ Len(Tail(q)) = Len(q) - 1
      /\ \A l \in 1 .. Len(Tail(q)) : Tail(q)[l] = q[l + 1]
  BY HeadTailProperties
<1>3. DOMAIN Tail(q) = 1 .. Len(Tail(q))
  BY <1>2, LenProperties
<1>4. PICK k \in DOMAIN q : q[k] = e
  BY DEF ToSet
<1>5. k - 1 \in DOMAIN Tail(q) /\ (k - 1) + 1 = k
  BY <1>1, <1>2, <1>3, <1>4
<1>6. Tail(q)[k - 1] = q[(k - 1) + 1]
  BY <1>2, <1>3, <1>5
<1>7. QED  BY <1>4, <1>5, <1>6 DEF ToSet

LEMMA NormalFrame ==
  ASSUME phase' # "done"
  PROVE  Normal'
BY DEF Normal

LEMMA SubstituteNormal ==
  ASSUME ReferencesLast, TypedInv, NormalInv, SubstituteInAndList
  PROVE  \A s \in Spots : \A p \in ToSet(conditions'[s[1]][s[2]]) :
           OnKeyAlone(p, job) =>
             \E k \in DOMAIN work : work[k] = s /\ (k = 1 => p.attr.prefix \in ToSet(Tail(prefixes)))
<1> DEFINE prefix == Head(prefixes)
           list == SubstitutedList(Current, prefix)
<1>1. phase = "substitute" /\ conditions' = Rewritten(list) /\ job' = job /\ Single(Current, prefix)
  BY DEF SubstituteInAndList, Single
<1>2. /\ job \in Jobs /\ mappings = LoadMappings(job) /\ prefixes \in Seq(Sides) /\ prefixes # <<>>
      /\ work \in Seq(Spots) /\ work # <<>>
  BY <1>1 DEF TypedInv
<1>3. prefix \in Sides
  BY <1>2, PrefixProperties
<1>4. Current \in Seq(Predicate) /\ Current = conditions[work[1][1]][work[1][2]] /\ work[1] \in Spots
  BY <1>1, CurrentSpot DEF Current
<1>5. \A s \in Spots : conditions'[s[1]][s[2]] = IF s = work[1] THEN list ELSE conditions[s[1]][s[2]]
  BY <1>1, SpotRewritten
<1>6. \A s \in Spots : \A p \in ToSet(conditions[s[1]][s[2]]) :
        OnKeyAlone(p, job) => \E k \in DOMAIN work : work[k] = s /\ (k = 1 => p.attr.prefix \in ToSet(prefixes))
  BY <1>1 DEF NormalInv
<1>7. ASSUME NEW s \in Spots, NEW p \in ToSet(conditions'[s[1]][s[2]]), OnKeyAlone(p, job)
      PROVE  \E k \in DOMAIN work : work[k] = s /\ (k = 1 => p.attr.prefix \in ToSet(Tail(prefixes)))
  <2>1. CASE s = work[1]
    <3>1. p \in ToSet(SubstitutedList(Current, prefix))
      BY <1>5, <1>7, <2>1
    <3> HIDE DEF prefix
    <3>2. p \in ToSet(Current) /\ p.attr.prefix # prefix
      BY <1>1, <1>2, <1>3, <1>4, <1>7, <3>1, SubstitutedNormal
    <3>3. PICK k \in DOMAIN work : work[k] = s /\ (k = 1 => p.attr.prefix \in ToSet(prefixes))
      BY <1>4, <1>6, <1>7, <2>1, <3>2
    <3>4. p.attr.prefix \in ToSet(prefixes) => p.attr.prefix \in ToSet(Tail(prefixes))
      BY <1>2, <3>2, PrefixMembers DEF prefix
    <3>5. QED  BY <3>3, <3>4
  <2>2. CASE s # work[1]
    <3>1. p \in ToSet(conditions[s[1]][s[2]])
      BY <1>5, <1>7, <2>2
    <3>2. PICK k \in DOMAIN work : work[k] = s
      BY <1>6, <1>7, <3>1
    <3>3. k # 1
      BY <2>2, <3>2
    <3>4. QED  BY <3>2, <3>3
  <2>3. QED  BY <2>1, <2>2
<1>8. QED  BY <1>7

LEMMA CompareNormal ==
  ASSUME TypedInv, NormalInv, ComparePair
  PROVE  \A s \in Spots : \A p \in ToSet(conditions'[s[1]][s[2]]) :
           OnKeyAlone(p, job) =>
             \E k \in DOMAIN work : work[k] = s /\ (k = 1 => p.attr.prefix \in ToSet(prefixes))
<1>1. phase = "compact" /\ job' = job
  BY DEF ComparePair
<1>2. x \in DOMAIN Current /\ y \in DOMAIN Current /\ x # y
  BY ComparePairTurn
<1>3. PICK r : TurnTaken(r)
  BY ComparePairTurn
<1> DEFINE list == Turn(Current, x, y, r)
<1>4. \A s \in Spots : \A p \in ToSet(conditions[s[1]][s[2]]) :
        OnKeyAlone(p, job) => \E k \in DOMAIN work : work[k] = s /\ (k = 1 => p.attr.prefix \in ToSet(prefixes))
  BY <1>1 DEF NormalInv
<1>5. Current \in Seq(Predicate) /\ Current = conditions[work[1][1]][work[1][2]] /\ work[1] \in Spots
  BY <1>1, CurrentSpot DEF Current
<1>6. \A e \in ToSet(list) : \E o \in ToSet(Current) : e.attr = o.attr /\ e.other = o.other
  BY <1>2, <1>5, TurnMembers
<1> HIDE DEF list
<1>7. \A s \in Spots : conditions'[s[1]][s[2]] = IF s = work[1] THEN list ELSE conditions[s[1]][s[2]]
  BY <1>1, <1>3, SpotRewritten DEF list, TurnTaken
<1>8. ASSUME NEW s \in Spots, NEW p \in ToSet(conditions'[s[1]][s[2]]), OnKeyAlone(p, job)
      PROVE  \E k \in DOMAIN work : work[k] = s /\ (k = 1 => p.attr.prefix \in ToSet(prefixes))
  <2>1. CASE s = work[1]
    <3>1. PICK o \in ToSet(Current) : p.attr = o.attr /\ p.other = o.other
      BY <1>6, <1>7, <1>8, <2>1
    <3>2. OnKeyAlone(o, job)
      BY <1>8, <3>1 DEF OnKeyAlone, IsLiteral
    <3>3. \E k \in DOMAIN work : work[k] = s /\ (k = 1 => o.attr.prefix \in ToSet(prefixes))
      BY <1>4, <1>5, <2>1, <3>2
    <3>4. QED  BY <3>1, <3>3
  <2>2. CASE s # work[1]
    <3>1. p \in ToSet(conditions[s[1]][s[2]])
      BY <1>7, <1>8, <2>2
    <3>2. QED  BY <1>4, <1>8, <3>1
  <2>3. QED  BY <2>1, <2>2
<1>9. QED  BY <1>8

LEMMA RelaxNormal ==
  ASSUME TypedInv, NormalInv, RelaxOperators
  PROVE  \A s \in Spots : \A p \in ToSet(conditions'[s[1]][s[2]]) :
           ~OnKeyAlone(p, job) /\ (IsLiteral(p) => p.op \notin {"<", ">"})
<1>1. phase = "relax" /\ conditions' = OnPredicates(conditions, Relaxed)
  BY DEF RelaxOperators
<1>2. /\ job \in Jobs /\ LikeIn(conditions, job.conditions)
      /\ \A s \in Spots : conditions[s[1]][s[2]] \in Seq(Predicate)
  BY <1>1 DEF TypedInv, Rewriting
<1>3. ASSUME NEW s \in Spots, NEW p \in ToSet(conditions'[s[1]][s[2]])
      PROVE  ~OnKeyAlone(p, job) /\ (IsLiteral(p) => p.op \notin {"<", ">"})
  <2> DEFINE list == conditions[s[1]][s[2]]
  <2>1. ToSet(conditions'[s[1]][s[2]]) = {Relaxed(list[i]) : i \in DOMAIN list}
    BY <1>1, <1>2, RelaxedLists
  <2>2. list \in Seq(Predicate) /\ \A q \in ToSet(list) : ~OnKeyAlone(q, job)
    BY <1>1, <1>2 DEF NormalInv
  <2> HIDE DEF list
  <2>3. PICK i \in DOMAIN list : p = Relaxed(list[i])
    BY <1>3, <2>1
  <2>4. list[i] \in Predicate /\ list[i] \in ToSet(list)
    BY <2>2, LenProperties, ElementOfSeq DEF ToSet
  <2>5. /\ Relaxed(list[i]).attr = list[i].attr /\ Relaxed(list[i]).other = list[i].other
        /\ IsLiteral(list[i]) => Relaxed(list[i]).op \notin {"<", ">"}
    BY <1>2, <2>4, RelaxedPredicate
  <2>6. IsLiteral(p) <=> IsLiteral(list[i])
    BY <2>3, <2>5 DEF IsLiteral
  <2>7. ~OnKeyAlone(p, job)
    BY <2>2, <2>3, <2>4, <2>5, <2>6 DEF OnKeyAlone
  <2>8. QED  BY <2>3, <2>5, <2>6, <2>7
<1>4. QED  BY <1>3

LEMMA CleanNormal ==
  ASSUME TypedInv, NormalInv, CleanPredicates,
         NEW c \in DOMAIN conditions', NEW d \in DOMAIN conditions'[c], NEW i \in DOMAIN conditions'[c][d]
  PROVE  ~OnKeyAlone(conditions'[c][d][i], job)
         /\ (IsLiteral(conditions'[c][d][i]) => conditions'[c][d][i].op \notin {"<", ">"})
<1> DEFINE cs == conditions[c]
           T == {n \in DOMAIN cs : cs[n] # <<>>}
           S == Seq(Predicate)
<1>1. phase = "clean" /\ c \in DOMAIN conditions /\ conditions'[c] = Selected(cs, T)
  BY DEF CleanPredicates
<1>2. /\ job \in Jobs /\ LikeIn(conditions, job.conditions)
      /\ \A s \in Spots : conditions[s[1]][s[2]] \in Seq(Predicate)
      /\ \A s \in Spots : \A p \in ToSet(conditions[s[1]][s[2]]) :
           ~OnKeyAlone(p, job) /\ (IsLiteral(p) => p.op \notin {"<", ">"})
  BY <1>1 DEF TypedInv, NormalInv
<1>3. c \in DOMAIN job.conditions /\ DOMAIN cs = DOMAIN job.conditions[c] /\ Alike(cs, job.conditions[c])
  BY <1>1, <1>2 DEF LikeIn, Alike
<1>4. DOMAIN job.conditions[c] = 1 .. Len(job.conditions[c]) /\ Len(job.conditions[c]) \in Nat
  BY <1>2, <1>3, JobConditions
<1>5. ASSUME NEW n \in DOMAIN cs
      PROVE  /\ cs[n] \in S
             /\ \A p \in ToSet(cs[n]) : ~OnKeyAlone(p, job) /\ (IsLiteral(p) => p.op \notin {"<", ">"})
  <2> DEFINE s == <<c, n>>
  <2>1. s \in Spots /\ s[1] = c /\ s[2] = n
    BY <1>3 DEF Spots
  <2>2. QED  BY <1>2, <2>1
<1> HIDE DEF S, cs
<1>6. cs \in Seq(S)
  <2>1. cs = [n \in 1 .. Len(job.conditions[c]) |-> cs[n]]
    BY <1>3, <1>4 DEF Alike
  <2>2. IsList(cs) /\ Len(cs) = Len(job.conditions[c])
    BY <1>4, <2>1, ListOf
  <2>3. \A n \in 1 .. Len(cs) : cs[n] \in S
    BY <1>3, <1>4, <1>5, <2>2
  <2>4. QED  BY <2>2, <2>3, ListInSet
<1>7. T \in SUBSET DOMAIN cs
  OBVIOUS
<1> HIDE DEF T
<1>8. ToSet(Selected(cs, T)) = {cs[n] : n \in T}
  BY <1>6, <1>7, SelectedMembers
<1>9. conditions'[c][d] \in ToSet(Selected(cs, T))
  BY <1>1 DEF ToSet
<1>10. PICK n \in T : conditions'[c][d] = cs[n]
  BY <1>8, <1>9
<1>11. conditions'[c][d][i] \in ToSet(cs[n])
  BY <1>10 DEF ToSet
<1>12. QED  BY <1>5, <1>7, <1>10, <1>11

LEMMA EachPrefix == \A e \in Sides : e \in ToSet(AllPrefixes)
<1>1. DOMAIN AllPrefixes = 1 .. 3 /\ AllPrefixes[1] = "BODY" /\ AllPrefixes[2] = "HEAD" /\ AllPrefixes[3] = ""
  BY DEF AllPrefixes
<1>2. 1 \in 1 .. 3 /\ 2 \in 1 .. 3 /\ 3 \in 1 .. 3
  OBVIOUS
<1>3. "BODY" \in ToSet(AllPrefixes) /\ "HEAD" \in ToSet(AllPrefixes) /\ "" \in ToSet(AllPrefixes)
  BY <1>1, <1>2 DEF ToSet
<1>4. QED  BY <1>3 DEF Sides

LEMMA NormalStep ==
  ASSUME ReferencesLast, TypedInv, NormalInv, [Next]_vars
  PROVE  NormalInv'
<1>1. job' = job /\ Spots' = Spots
  <2>1. job' = job
    BY DEF Next, vars, Load, SubstituteInLists, SubstituteInAndList, AbortOnReference, ComparePair,
           NextPredicate, NextList, RelaxOperators, CleanPredicates
  <2>2. QED  BY <2>1 DEF Spots
<1>2. CASE UNCHANGED vars
  <2>1. phase' = phase /\ conditions' = conditions /\ work' = work /\ prefixes' = prefixes /\ mappings' = mappings
    BY <1>2 DEF vars
  <2>2. Normal' <=> Normal
    BY <2>1 DEF Normal
  <2>3. QED  BY <1>1, <2>1, <2>2 DEF NormalInv
<1>3. CASE Load
  <2>1. phase' \in {"failed", "done", "lists"} /\ (phase' = "done" => mappings' = <<>>)
    BY <1>3 DEF Load
  <2>2. Normal'
    BY <2>1 DEF Normal
  <2>3. QED  BY <2>1, <2>2 DEF NormalInv
<1>4. CASE SubstituteInLists
  <2>1. /\ phase = "lists" /\ phase' \in {"clean", "substitute"} /\ conditions' = conditions
        /\ work' = Places /\ prefixes' = AllPrefixes /\ (phase' = "clean" => work' = <<>>)
    BY <1>4 DEF SubstituteInLists
  <2>2. /\ job \in Jobs /\ LikeIn(conditions, job.conditions)
        /\ \A s \in Spots : conditions[s[1]][s[2]] \in Seq(Predicate)
    BY <2>1 DEF TypedInv, Rewriting
  <2>3. \A s \in Spots : \E k \in DOMAIN Places : Places[k] = s
    BY <2>2, PlacesProperties
  <2>4. phase' = "clean" => Spots = {}
    <3>1. DOMAIN << >> = {}
      OBVIOUS
    <3>2. QED  BY <2>1, <2>3, <3>1
  <2>5. ASSUME NEW s \in Spots, NEW p \in ToSet(conditions[s[1]][s[2]])
        PROVE  p.attr.prefix \in ToSet(AllPrefixes)
    <3>1. p \in Predicate
      BY <2>2, LenProperties, ElementOfSeq DEF ToSet
    <3>2. p.attr.prefix \in Sides
      BY <3>1 DEF Predicate, Attribute
    <3>3. QED  BY <3>2, EachPrefix
  <2>6. \A s \in Spots : \A p \in ToSet(conditions'[s[1]][s[2]]) :
          \E k \in DOMAIN work' : work'[k] = s /\ p.attr.prefix \in ToSet(prefixes')
    BY <2>1, <2>3, <2>5
  <2>7. Normal'
    BY <2>1, NormalFrame
  <2>8. QED  BY <1>1, <2>1, <2>4, <2>6, <2>7 DEF NormalInv
<1>5. CASE SubstituteInAndList
  <2>1. /\ phase = "substitute" /\ work' = work /\ prefixes' = Tail(prefixes)
        /\ phase' = IF prefixes' = <<>> THEN "compact" ELSE "substitute"
    BY <1>5 DEF SubstituteInAndList
  <2>2. \A s \in Spots : \A p \in ToSet(conditions'[s[1]][s[2]]) :
          OnKeyAlone(p, job) =>
            \E k \in DOMAIN work : work[k] = s /\ (k = 1 => p.attr.prefix \in ToSet(Tail(prefixes)))
    BY <1>5, SubstituteNormal
  <2>3. Normal'
    BY <2>1, NormalFrame
  <2>4. QED  BY <1>1, <2>1, <2>2, <2>3 DEF NormalInv
<1>6. CASE AbortOnReference
  <2>1. phase' = "aborted"
    BY <1>6 DEF AbortOnReference
  <2>2. QED  BY <2>1, NormalFrame DEF NormalInv
<1>7. CASE ComparePair
  <2>1. phase = "compact" /\ phase' = "compact" /\ work' = work /\ prefixes' = prefixes
    BY <1>7 DEF ComparePair
  <2>2. \A s \in Spots : \A p \in ToSet(conditions'[s[1]][s[2]]) :
          OnKeyAlone(p, job) =>
            \E k \in DOMAIN work : work[k] = s /\ (k = 1 => p.attr.prefix \in ToSet(prefixes))
    BY <1>7, CompareNormal
  <2>3. prefixes = <<>>
    BY <2>1 DEF NormalInv
  <2>4. QED  BY <1>1, <2>1, <2>2, <2>3, NormalFrame DEF NormalInv
<1>8. CASE NextPredicate
  <2>1. /\ phase = "compact" /\ phase' = "compact" /\ work' = work /\ prefixes' = prefixes
        /\ conditions' = conditions
    BY <1>8 DEF NextPredicate
  <2>2. QED  BY <1>1, <2>1, NormalFrame DEF NormalInv
<1>9. CASE NextList
  <2>1. /\ phase = "compact" /\ work' = Tail(work) /\ prefixes' = AllPrefixes /\ conditions' = conditions
        /\ phase' = IF work' = <<>> THEN "relax" ELSE "substitute"
    BY <1>9 DEF NextList
  <2>2. \A s \in Spots : \A p \in ToSet(conditions[s[1]][s[2]]) :
          OnKeyAlone(p, job) => \E k \in DOMAIN work : work[k] = s /\ (k = 1 => p.attr.prefix \in ToSet(prefixes))
    BY <2>1 DEF NormalInv
  <2>3. ToSet(prefixes) = {}
    <3>1. prefixes = <<>>
      BY <2>1 DEF NormalInv
    <3>2. QED  BY <3>1 DEF ToSet
  <2>4. \A k \in DOMAIN work : k = 1 \/ \E l \in DOMAIN Tail(work) : Tail(work)[l] = work[k]
    BY <2>1, CurrentSpot
  <2>5. \A s \in Spots : conditions[s[1]][s[2]] \in Seq(Predicate)
    BY <2>1 DEF TypedInv, Rewriting
  <2>6. ASSUME NEW s \in Spots, NEW p \in ToSet(conditions[s[1]][s[2]]), OnKeyAlone(p, job)
        PROVE  \E l \in DOMAIN Tail(work) : Tail(work)[l] = s /\ p.attr.prefix \in ToSet(AllPrefixes)
    <3>1. PICK k \in DOMAIN work : work[k] = s /\ k # 1
      BY <2>2, <2>3, <2>6
    <3>2. PICK l \in DOMAIN Tail(work) : Tail(work)[l] = s
      BY <2>4, <3>1
    <3>3. p \in Predicate
      BY <2>5, LenProperties, ElementOfSeq DEF ToSet
    <3>4. p.attr.prefix \in Sides
      BY <3>3 DEF Predicate, Attribute
    <3>5. p.attr.prefix \in ToSet(AllPrefixes)
      BY <3>4, EachPrefix
    <3>6. QED  BY <3>2, <3>5
  <2>7. DOMAIN << >> = {}
    OBVIOUS
  <2>8. \A s \in Spots : \A p \in ToSet(conditions'[s[1]][s[2]]) :
          OnKeyAlone(p, job) => \E l \in DOMAIN work' : work'[l] = s /\ p.attr.prefix \in ToSet(prefixes')
    BY <2>1, <2>6
  <2>9. phase' = "relax" => \A s \in Spots : \A p \in ToSet(conditions'[s[1]][s[2]]) : ~OnKeyAlone(p, job)
    BY <2>1, <2>7, <2>8
  <2>10. phase' # "done" /\ phase' \in {"relax", "substitute"}
    BY <2>1
  <2>11. Normal'
    BY <2>10, NormalFrame
  <2>12. QED  BY <1>1, <2>8, <2>9, <2>10, <2>11 DEF NormalInv
<1>10. CASE RelaxOperators
  <2>1. phase' = "clean"
    BY <1>10 DEF RelaxOperators
  <2>2. \A s \in Spots : \A p \in ToSet(conditions'[s[1]][s[2]]) :
          ~OnKeyAlone(p, job) /\ (IsLiteral(p) => p.op \notin {"<", ">"})
    BY <1>10, RelaxNormal
  <2>3. Normal'
    BY <2>1, NormalFrame
  <2>4. QED  BY <1>1, <2>1, <2>2, <2>3 DEF NormalInv
<1>11. CASE CleanPredicates
  <2>1. phase = "clean" /\ phase' = "done" /\ mappings' = mappings
    BY <1>11 DEF CleanPredicates
  <2>2. mappings = LoadMappings(job)
    BY <2>1 DEF TypedInv
  <2>3. ASSUME NEW c \in DOMAIN conditions', NEW d \in DOMAIN conditions'[c], NEW i \in DOMAIN conditions'[c][d],
               IsLiteral(conditions'[c][d][i])
        PROVE  /\ conditions'[c][d][i].op \notin {"<", ">"}
               /\ \A m \in ToSet(mappings') : m.order # "None" => m.cols # {conditions'[c][d][i].attr.col}
    <3>1. ~OnKeyAlone(conditions'[c][d][i], job) /\ conditions'[c][d][i].op \notin {"<", ">"}
      BY <1>11, <2>3, CleanNormal
    <3>2. QED  BY <2>1, <2>2, <2>3, <3>1 DEF OnKeyAlone
  <2>4. Normal'
    BY <2>3 DEF Normal
  <2>5. QED  BY <2>1, <2>4 DEF NormalInv
<1>12. QED
  BY <1>2, <1>3, <1>4, <1>5, <1>6, <1>7, <1>8, <1>9, <1>10, <1>11 DEF Next

(* When the normalization ends, no condition compares a literal strictly,  *)
(* nor with an attribute that is by itself a key with an order, as long as *)
(* no reference key has a reference of its own.                            *)
THEOREM EndsNormal == ReferencesLast => (Spec => []Normal)
<1> SUFFICES ASSUME ReferencesLast  PROVE Spec => []Normal
  OBVIOUS
<1>1. Init => TypedInv /\ NormalInv
  <2> SUFFICES ASSUME Init  PROVE TypedInv /\ NormalInv
    OBVIOUS
  <2>1. job \in Jobs /\ phase = "start" /\ conditions = OnPredicates(job.conditions, Parsed)
    BY DEF Init
  <2>2. TypedInv
    BY <2>1 DEF TypedInv, ParsedConditions, Rewriting
  <2>3. NormalInv
    BY <2>1 DEF NormalInv, Normal
  <2>4. QED  BY <2>2, <2>3
<1>2. TypedInv /\ NormalInv /\ [Next]_vars => TypedInv' /\ NormalInv'
  BY TypedStep, NormalStep
<1>3. NormalInv => Normal
  BY DEF NormalInv
<1>4. QED  BY <1>1, <1>2, <1>3, PTL DEF Spec
=============================================================================
