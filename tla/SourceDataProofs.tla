-------------------------- MODULE SourceDataProofs --------------------------
(***************************************************************************)
(* What the queries over a source table return, in which order, and what   *)
(* the cursors over them skip and load.                                    *)
(***************************************************************************)
EXTENDS SourceData, FiniteSetTheorems, SequenceTheorems, WellFoundedInduction, TLAPS

LEMMA LeastProperties ==
  ASSUME NEW S \in SUBSET Nat, S # {}
  PROVE  Least(S) \in S /\ \A j \in S : Least(S) <= j
<1> DEFINE smaller == {p \in Nat \X Nat : p[1] < p[2]}
<1>1. IsWellFoundedOn(smaller, Nat)
  BY NatLessThanWellFounded DEF OpToRel
<1> HIDE DEF smaller
<1>2. PICK x \in S : \A y \in S : <<y, x>> \notin smaller
  BY <1>1, WFMin
<1>3. \A y \in S : x <= y
  <2>1. ASSUME NEW y \in S, y < x  PROVE FALSE
    <3>1. <<y, x>> \in smaller
      BY <2>1 DEF smaller
    <3>2. QED  BY <1>2, <3>1
  <2>2. QED  BY <2>1
<1>4. QED  BY <1>3 DEF Least

-----------------------------------------------------------------------------
(* The members of a set in their order.                                    *)

Ranked(S, p) == {q \in S : Precedes(q, p)}

LEMMA PrecedesIsOrder ==
  \A p, q, r \in Nat \X Nat :
    /\ Precedes(p, p)
    /\ Precedes(p, q) \/ Precedes(q, p)
    /\ Precedes(p, q) /\ Precedes(q, p) => p = q
    /\ Precedes(p, q) /\ Precedes(q, r) => Precedes(p, r)
BY DEF Precedes

LEMMA RankGrows ==
  ASSUME NEW S \in SUBSET (Nat \X Nat), IsFiniteSet(S), NEW p \in S, NEW q \in S,
         Precedes(p, q), p # q
  PROVE  Size(Ranked(S, p)) < Size(Ranked(S, q))
<1>1. Ranked(S, p) \subseteq Ranked(S, q)
  BY PrecedesIsOrder DEF Ranked
<1>2. q \in Ranked(S, q) /\ q \notin Ranked(S, p)
  BY PrecedesIsOrder DEF Ranked
<1>3. IsFiniteSet(Ranked(S, q)) /\ IsFiniteSet(Ranked(S, p))
  BY FS_Subset DEF Ranked
<1>4. QED  BY <1>1, <1>2, <1>3, FS_Subset, FS_CardinalityType DEF Size

LEMMA RankType ==
  ASSUME NEW S \in SUBSET (Nat \X Nat), IsFiniteSet(S), NEW p \in S
  PROVE  Size(Ranked(S, p)) \in 1 .. Size(S)
<1>1. p \in Ranked(S, p) /\ Ranked(S, p) \in SUBSET S
  BY PrecedesIsOrder DEF Ranked
<1>2. IsFiniteSet(Ranked(S, p)) /\ Size(Ranked(S, p)) <= Size(S)
  BY <1>1, FS_Subset DEF Size
<1>3. Size(Ranked(S, p)) \in Nat /\ Size(S) \in Nat /\ Size(Ranked(S, p)) # 0
  BY <1>1, <1>2, FS_CardinalityType, FS_EmptySet DEF Size
<1>4. QED  BY <1>2, <1>3

(* Every rank is taken by one member.                                      *)
LEMMA RankTaken ==
  ASSUME NEW S \in SUBSET (Nat \X Nat), IsFiniteSet(S), NEW k \in 1 .. Size(S)
  PROVE  \E p \in S : Size(Ranked(S, p)) = k
<1> DEFINE rank == [p \in S |-> Size(Ranked(S, p))]
<1>1. rank \in [S -> 1 .. Size(S)]
  BY RankType
<1>2. \A p, q \in S : rank[p] = rank[q] => p = q
  <2>1. ASSUME NEW p \in S, NEW q \in S, p # q  PROVE rank[p] # rank[q]
    <3>1. rank[p] < rank[q] \/ rank[q] < rank[p]
      BY <2>1, PrecedesIsOrder, RankGrows
    <3>2. rank[p] \in Int /\ rank[q] \in Int
      BY <1>1
    <3>3. QED  BY <3>1, <3>2
  <2>2. QED  BY <2>1
<1> HIDE DEF rank
<1>3. rank \in Injection(S, 1 .. Size(S))
  BY <1>1, <1>2 DEF Injection, IsInjective
<1>4. IsFiniteSet(1 .. Size(S)) /\ Cardinality(1 .. Size(S)) = Cardinality(S)
  BY FS_Interval, FS_CardinalityType DEF Size
<1>5. rank \in Surjection(S, 1 .. Size(S))
  BY <1>3, <1>4, FS_Injection
<1>6. QED  BY <1>5 DEF Surjection, rank

LEMMA ListedProperties ==
  ASSUME NEW S \in SUBSET (Nat \X Nat), IsFiniteSet(S)
  PROVE  /\ Size(S) \in Nat /\ Listed[S] \in [1 .. Size(S) -> S]
         /\ \A p \in S : \E k \in 1 .. Size(S) : Listed[S][k] = p
         /\ \A k, l \in 1 .. Size(S) :
              k < l => Precedes(Listed[S][k], Listed[S][l]) /\ Listed[S][k] # Listed[S][l]
<1> DEFINE at(k) == CHOOSE p \in S : Size(Ranked(S, p)) = k
<1>1. Size(S) \in Nat
  BY FS_CardinalityType DEF Size
<1>2. Listed[S] = [k \in 1 .. Size(S) |-> at(k)]
  BY DEF Listed, Ranked
<1>3. \A k \in 1 .. Size(S) : at(k) \in S /\ Size(Ranked(S, at(k))) = k
  BY RankTaken
<1> HIDE DEF at
<1>4. ASSUME NEW p \in S  PROVE at(Size(Ranked(S, p))) = p
  <2>1. Size(Ranked(S, p)) \in 1 .. Size(S)
    BY RankType
  <2> DEFINE q == at(Size(Ranked(S, p)))
  <2>2. q \in S /\ Size(Ranked(S, q)) = Size(Ranked(S, p))
    BY <1>3, <2>1
  <2> HIDE DEF q
  <2>3. q = p
    BY <2>1, <2>2, PrecedesIsOrder, RankGrows
  <2>4. QED  BY <2>3 DEF q
<1>5. ASSUME NEW k \in 1 .. Size(S), NEW l \in 1 .. Size(S), k < l
      PROVE  Precedes(at(k), at(l)) /\ at(k) # at(l)
  <2>1. at(k) # at(l)
    BY <1>1, <1>3, <1>5
  <2>2. CASE Precedes(at(l), at(k))
    BY <1>1, <1>3, <1>5, <2>1, <2>2, RankGrows
  <2>3. QED  BY <1>3, <2>1, <2>2, PrecedesIsOrder
<1>6. QED  BY <1>1, <1>2, <1>3, <1>4, <1>5, RankType

-----------------------------------------------------------------------------
(* The numbers of a set in their order.                                    *)

Upto(S, i) == {j \in S : j <= i}

LEMMA UptoGrows ==
  ASSUME NEW S \in SUBSET Nat, IsFiniteSet(S), NEW i \in S, NEW j \in S, i < j
  PROVE  Size(Upto(S, i)) < Size(Upto(S, j))
<1>1. Upto(S, i) \subseteq Upto(S, j) /\ j \in Upto(S, j) /\ j \notin Upto(S, i)
  <2>1. i \in Nat /\ j \in Nat /\ \A k \in S : k \in Nat
    OBVIOUS
  <2>2. j <= j /\ ~(j <= i) /\ \A k \in S : k <= i => k <= j
    BY <2>1
  <2>3. QED  BY <2>2 DEF Upto
<1>2. IsFiniteSet(Upto(S, i)) /\ IsFiniteSet(Upto(S, j))
  BY FS_Subset DEF Upto
<1>3. QED  BY <1>1, <1>2, FS_Subset, FS_CardinalityType DEF Size

LEMMA UptoTaken ==
  ASSUME NEW S \in SUBSET Nat, IsFiniteSet(S)
  PROVE  /\ Size(S) \in Nat
         /\ \A i \in S : Size(Upto(S, i)) \in 1 .. Size(S)
         /\ \A i, j \in S : Size(Upto(S, i)) = Size(Upto(S, j)) => i = j
         /\ \A k \in 1 .. Size(S) : \E i \in S : Size(Upto(S, i)) = k
<1> DEFINE rank == [i \in S |-> Size(Upto(S, i))]
<1>1. Size(S) \in Nat
  BY FS_CardinalityType DEF Size
<1>2. ASSUME NEW i \in S  PROVE Size(Upto(S, i)) \in 1 .. Size(S)
  <2>1. i \in Upto(S, i) /\ Upto(S, i) \in SUBSET S
    BY DEF Upto
  <2>2. IsFiniteSet(Upto(S, i)) /\ Size(Upto(S, i)) <= Size(S)
    BY <2>1, FS_Subset DEF Size
  <2>3. Size(Upto(S, i)) \in Nat /\ Size(Upto(S, i)) # 0
    BY <2>1, <2>2, FS_CardinalityType, FS_EmptySet DEF Size
  <2>4. QED  BY <1>1, <2>2, <2>3
<1>3. ASSUME NEW i \in S, NEW j \in S, i # j  PROVE Size(Upto(S, i)) # Size(Upto(S, j))
  <2>1. i < j \/ j < i
    BY <1>3
  <2>2. Size(Upto(S, i)) < Size(Upto(S, j)) \/ Size(Upto(S, j)) < Size(Upto(S, i))
    BY <2>1, UptoGrows
  <2>3. Size(Upto(S, i)) \in Int /\ Size(Upto(S, j)) \in Int
    BY <1>1, <1>2
  <2>4. QED  BY <2>2, <2>3
<1>4. rank \in [S -> 1 .. Size(S)] /\ \A i, j \in S : rank[i] = rank[j] => i = j
  BY <1>2, <1>3
<1> HIDE DEF rank
<1>5. rank \in Injection(S, 1 .. Size(S))
  BY <1>4 DEF Injection, IsInjective
<1>6. IsFiniteSet(1 .. Size(S)) /\ Cardinality(1 .. Size(S)) = Cardinality(S)
  BY <1>1, FS_Interval DEF Size
<1>7. rank \in Surjection(S, 1 .. Size(S))
  BY <1>5, <1>6, FS_Injection
<1>8. \A k \in 1 .. Size(S) : \E i \in S : rank[i] = k
  BY <1>7 DEF Surjection
<1>9. QED  BY <1>1, <1>2, <1>3, <1>8 DEF rank

(* Each number stands where its rank says.                                 *)
LEMMA InOrderProperties ==
  ASSUME NEW S \in SUBSET Nat, IsFiniteSet(S)
  PROVE  /\ Size(S) \in Nat /\ InOrder(S) \in [1 .. Size(S) -> S]
         /\ InOrder(S) \in Seq(S) /\ Len(InOrder(S)) = Size(S)
         /\ \A k \in 1 .. Size(S) : Size(Upto(S, InOrder(S)[k])) = k
         /\ \A i \in S : /\ Size(Upto(S, i)) \in 1 .. Size(S)
                         /\ InOrder(S)[Size(Upto(S, i))] = i
<1> DEFINE at(k) == CHOOSE i \in S : Size(Upto(S, i)) = k
<1>1. Size(S) \in Nat
  BY UptoTaken
<1>2. InOrder(S) = [k \in 1 .. Size(S) |-> at(k)]
  BY DEF InOrder, Upto
<1>3. \A k \in 1 .. Size(S) : at(k) \in S /\ Size(Upto(S, at(k))) = k
  BY UptoTaken
<1> HIDE DEF at
<1>4. InOrder(S) \in [1 .. Size(S) -> S]
  BY <1>2, <1>3
<1>5. InOrder(S) \in Seq(S) /\ Len(InOrder(S)) = Size(S)
  BY <1>1, <1>4
<1>6. ASSUME NEW i \in S
      PROVE  Size(Upto(S, i)) \in 1 .. Size(S) /\ at(Size(Upto(S, i))) = i
  <2>1. Size(Upto(S, i)) \in 1 .. Size(S)
    BY UptoTaken
  <2> DEFINE j == at(Size(Upto(S, i)))
  <2>2. j \in S /\ Size(Upto(S, j)) = Size(Upto(S, i))
    BY <1>3, <2>1
  <2> HIDE DEF j
  <2>3. i = j
    BY <2>2, UptoTaken
  <2>4. QED  BY <2>1, <2>3 DEF j
<1>7. QED  BY <1>1, <1>2, <1>3, <1>4, <1>5, <1>6

(* The smaller numbers of a set come first.                                *)
LEMMA InOrderInitial ==
  ASSUME NEW S \in SUBSET Nat, IsFiniteSet(S), NEW T \in SUBSET S,
         \A i \in T : \A j \in S : j <= i => j \in T
  PROVE  /\ IsFiniteSet(T) /\ Size(T) <= Size(S)
         /\ \A k \in 1 .. Size(T) : InOrder(T)[k] = InOrder(S)[k]
<1>1. IsFiniteSet(T) /\ Size(T) <= Size(S)
  BY FS_Subset DEF Size
<1>2. \A i \in T : Upto(T, i) = Upto(S, i)
  BY DEF Upto
<1>3. ASSUME NEW k \in 1 .. Size(T)  PROVE InOrder(T)[k] = InOrder(S)[k]
  <2>1. InOrder(T)[k] \in T /\ Size(Upto(T, InOrder(T)[k])) = k
    BY <1>1, InOrderProperties
  <2>2. InOrder(S)[Size(Upto(S, InOrder(T)[k]))] = InOrder(T)[k]
    BY <2>1, InOrderProperties
  <2>3. QED  BY <1>2, <2>1, <2>2
<1>4. QED  BY <1>1, <1>3

LEMMA InOrderAppend ==
  ASSUME NEW S \in SUBSET Nat, IsFiniteSet(S), NEW g \in Nat, \A i \in S : i < g
  PROVE  InOrder(S \cup {g}) = Append(InOrder(S), g)
<1> DEFINE T == S \cup {g}
<1>1. IsFiniteSet(T) /\ T \in SUBSET Nat /\ g \notin S
  BY FS_AddElement
<1>2. Size(T) = Size(S) + 1 /\ Size(S) \in Nat
  BY <1>1, FS_AddElement, FS_CardinalityType DEF Size
<1>3. \A k \in 1 .. Size(S) : InOrder(S)[k] = InOrder(T)[k]
  <2>1. S \in SUBSET T /\ \A i \in S : \A j \in T : j <= i => j \in S
    OBVIOUS
  <2>2. QED  BY <1>1, <2>1, InOrderInitial
<1>4. InOrder(T)[Size(T)] = g
  <2>1. g \in T /\ \A i \in T : i <= g
    OBVIOUS
  <2> HIDE DEF T
  <2>2. Upto(T, g) = T
    BY <2>1 DEF Upto
  <2>3. QED  BY <1>1, <2>1, <2>2, InOrderProperties
<1>5. /\ InOrder(T) \in [1 .. Size(T) -> T] /\ Len(InOrder(T)) = Size(T)
      /\ InOrder(S) \in Seq(S) /\ Len(InOrder(S)) = Size(S)
  BY <1>1, InOrderProperties
<1> HIDE DEF T
<1>6. /\ Len(Append(InOrder(S), g)) = Size(S) + 1
      /\ \A k \in 1 .. Size(S) : Append(InOrder(S), g)[k] = InOrder(S)[k]
      /\ Append(InOrder(S), g)[Size(S) + 1] = g
      /\ Append(InOrder(S), g) = [k \in 1 .. Size(S) + 1 |-> Append(InOrder(S), g)[k]]
  <2> DEFINE longer == Append(InOrder(S), g)
  <2>1. InOrder(S) \in Seq(Nat) /\ Len(InOrder(S)) = Size(S)
    BY <1>5, SeqMonotonic
  <2>2. /\ longer \in Seq(Nat) /\ Len(longer) = Size(S) + 1
        /\ \A k \in 1 .. Size(S) : longer[k] = InOrder(S)[k]
        /\ longer[Size(S) + 1] = g
    BY <2>1, AppendProperties
  <2> HIDE DEF longer
  <2>3. longer = [k \in 1 .. Size(S) + 1 |-> longer[k]]
    BY <2>2, LenProperties
  <2>4. QED  BY <2>2, <2>3 DEF longer
<1>7. \A k \in 1 .. Size(S) + 1 : k \in 1 .. Size(S) \/ k = Size(S) + 1
  BY <1>2
<1>8. \A k \in 1 .. Size(S) + 1 : InOrder(T)[k] = Append(InOrder(S), g)[k]
  BY <1>2, <1>3, <1>4, <1>6, <1>7
<1>9. InOrder(T) = [k \in 1 .. Size(S) + 1 |-> InOrder(T)[k]]
  BY <1>2, <1>5
<1>10. QED  BY <1>6, <1>8, <1>9 DEF T

-----------------------------------------------------------------------------
(* Lists.                                                                  *)

IsList(q) == q \in Seq({q[k] : k \in DOMAIN q})

LEMMA ListDomain ==
  ASSUME NEW q, IsList(q)
  PROVE  Len(q) \in Nat /\ DOMAIN q = 1 .. Len(q)
BY LenProperties DEF IsList

LEMMA ListOf ==
  ASSUME NEW n \in Nat, NEW q, q = [k \in 1 .. n |-> q[k]]
  PROVE  IsList(q) /\ Len(q) = n
<1> DEFINE members == {q[k] : k \in DOMAIN q}
<1>1. DOMAIN q = 1 .. n
  OBVIOUS
<1>2. \A k \in 1 .. n : q[k] \in members
  BY <1>1
<1> HIDE DEF members
<1>3. q \in [1 .. n -> members]
  BY <1>2
<1>4. q \in Seq(members) /\ Len(q) = n
  BY <1>3
<1>5. QED  BY <1>4 DEF IsList, members

LEMMA ListInSet ==
  ASSUME NEW q, IsList(q), NEW S, \A k \in 1 .. Len(q) : q[k] \in S
  PROVE  q \in Seq(S)
<1>1. Len(q) \in Nat /\ q = [k \in 1 .. Len(q) |-> q[k]]
  BY LenProperties DEF IsList
<1>2. q \in [1 .. Len(q) -> S]
  BY <1>1
<1>3. QED  BY <1>1, <1>2, SeqDef

(* What is selected from q are its members at the positions in S.          *)
SelectedFrom(r, q, S) ==
  /\ IsList(r) /\ Len(r) = Size(S)
  /\ \A k \in 1 .. Len(r) : \E i \in S : r[k] = q[i]

LEMMA SelectedProperties ==
  ASSUME NEW q, NEW S \in SUBSET Nat, IsFiniteSet(S)
  PROVE  SelectedFrom(Selected(q, S), q, S)
<1> DEFINE r == Selected(q, S)
<1>1. Size(S) \in Nat /\ InOrder(S) \in [1 .. Size(S) -> S]
  BY InOrderProperties
<1>2. r = [k \in 1 .. Size(S) |-> q[InOrder(S)[k]]]
  BY <1>1 DEF Selected
<1> HIDE DEF r
<1>3. \A k \in 1 .. Size(S) : \E i \in S : r[k] = q[i]
  BY <1>1, <1>2
<1>4. r = [k \in 1 .. Size(S) |-> r[k]]
  BY <1>2
<1>5. IsList(r) /\ Len(r) = Size(S)
  BY <1>1, <1>4, ListOf
<1>6. QED  BY <1>3, <1>5 DEF SelectedFrom, r

(* The members of r are some of those of p and q.                          *)
From(r, p, q) ==
  \A k \in 1 .. Len(r) :
    \/ \E l \in 1 .. Len(p) : r[k] = p[l]
    \/ \E l \in 1 .. Len(q) : r[k] = q[l]

LEMMA ListConcat ==
  ASSUME NEW p, NEW q, IsList(p), IsList(q)
  PROVE  IsList(p \o q) /\ From(p \o q, p, q)
<1> DEFINE members == {p[k] : k \in DOMAIN p} \cup {q[k] : k \in DOMAIN q}
           joined == p \o q
<1>1. p \in Seq(members) /\ q \in Seq(members)
  BY SeqMonotonic DEF IsList
<1>2. Len(p) \in Nat /\ Len(q) \in Nat
  BY ListDomain
<1> HIDE DEF members
<1>3. /\ joined \in Seq(members) /\ Len(joined) = Len(p) + Len(q)
      /\ \A k \in 1 .. Len(p) + Len(q) :
           joined[k] = IF k <= Len(p) THEN p[k] ELSE q[k - Len(p)]
  BY <1>1, ConcatProperties
<1> HIDE DEF joined
<1>4. ASSUME NEW k \in 1 .. Len(joined)
      PROVE  \/ \E l \in 1 .. Len(p) : joined[k] = p[l]
             \/ \E l \in 1 .. Len(q) : joined[k] = q[l]
  <2>1. CASE k <= Len(p)
    BY <1>2, <1>3, <2>1
  <2>2. CASE ~(k <= Len(p))
    <3>1. k - Len(p) \in 1 .. Len(q) /\ joined[k] = q[k - Len(p)]
      BY <1>2, <1>3, <2>2
    <3>2. QED  BY <3>1
  <2>3. QED  BY <2>1, <2>2
<1>5. joined = [k \in 1 .. Len(joined) |-> joined[k]] /\ Len(joined) \in Nat
  BY <1>3, LenProperties
<1>6. IsList(joined)
  BY <1>5, ListOf
<1>7. QED  BY <1>4, <1>6 DEF joined, From

LEMMA ListTail ==
  ASSUME NEW q, IsList(q), q # <<>>
  PROVE  /\ 1 \in 1 .. Len(q) /\ Head(q) = q[1]
         /\ IsList(Tail(q)) /\ From(Tail(q), q, q)
<1> DEFINE members == {q[k] : k \in DOMAIN q}
           rest == Tail(q)
<1>1. q \in Seq(members)
  BY DEF IsList
<1> HIDE DEF members
<1>2. Len(q) \in Nat /\ Len(q) # 0
  BY <1>1, EmptySeq, LenProperties
<1>3. Head(q) = q[1]
  BY <1>1
<1>4. rest \in Seq(members) /\ Len(rest) = Len(q) - 1
      /\ \A k \in 1 .. Len(rest) : rest[k] = q[k + 1]
  BY <1>1, HeadTailProperties
<1> HIDE DEF rest
<1>5. \A k \in 1 .. Len(rest) : k + 1 \in 1 .. Len(q)
  BY <1>2, <1>4
<1>6. rest = [k \in 1 .. Len(rest) |-> rest[k]] /\ Len(rest) \in Nat
  BY <1>4, LenProperties
<1>7. IsList(rest)
  BY <1>6, ListOf
<1>8. QED  BY <1>2, <1>3, <1>4, <1>5, <1>7 DEF rest, From

-----------------------------------------------------------------------------
(* The rows of a query.                                                    *)

(* A table that can be queried: its rows have a group.                     *)
Table(t) == t \in Seq({t[k] : k \in DOMAIN t}) /\ \A k \in DOMAIN t : t[k].gid \in Nat

LEMMA OrderedProperties ==
  ASSUME NEW t, Table(t), NEW rows \in SUBSET DOMAIN t, NEW sorted \in BOOLEAN
  PROVE  LET q == Ordered(t, rows, sorted) IN
         /\ q \in Seq({t[k] : k \in rows})
         /\ \A k \in rows : \E i \in 1 .. Len(q) : q[i] = t[k]
         /\ sorted \/ ByGid(t) => ByGid(q)
<1> DEFINE key(k) == IF sorted THEN t[k].gid ELSE 0
           S == {<<key(k), k>> : k \in rows}
           at == Listed[S]
           q == Ordered(t, rows, sorted)
<1>1. DOMAIN t = 1 .. Len(t) /\ Len(t) \in Nat
  BY DEF Table
<1>2. \A k \in rows : k \in Nat /\ key(k) \in Nat /\ t[k].gid \in Nat
  BY <1>1 DEF Table
<1>3. S \in SUBSET (Nat \X Nat)
  BY <1>2
<1>4. IsFiniteSet(S)
  <2> DEFINE f == [k \in rows |-> <<key(k), k>>]
  <2>1. f \in Surjection(rows, S)
    BY DEF Surjection
  <2>2. IsFiniteSet(1 .. Len(t))
    BY <1>1, FS_Interval
  <2>3. IsFiniteSet(rows)
    BY <1>1, <2>2, FS_Subset
  <2>4. QED  BY <2>1, <2>3, FS_Surjection
<1>5. /\ Size(S) \in Nat /\ at \in [1 .. Size(S) -> S]
      /\ \A p \in S : \E k \in 1 .. Size(S) : at[k] = p
      /\ \A k, l \in 1 .. Size(S) : k < l => Precedes(at[k], at[l])
  BY <1>3, <1>4, ListedProperties
<1>6. q = [k \in 1 .. Size(S) |-> t[at[k][2]]]
  BY <1>5 DEF Ordered
<1> HIDE DEF at, q
<1>7. ASSUME NEW k \in 1 .. Size(S)
      PROVE  at[k][2] \in rows /\ at[k][1] = key(at[k][2])
  <2>1. at[k] \in S
    BY <1>5
  <2>2. PICK r \in rows : at[k] = <<key(r), r>>
    BY <2>1
  <2> HIDE DEF key, S
  <2>3. QED  BY <2>2
<1>8. q \in [1 .. Size(S) -> {t[k] : k \in rows}]
  BY <1>6, <1>7
<1>9. q \in Seq({t[k] : k \in rows}) /\ Len(q) = Size(S)
  <2> HIDE DEF S
  <2>1. QED  BY <1>5, <1>8
<1>10. ASSUME NEW k \in rows  PROVE \E i \in 1 .. Len(q) : q[i] = t[k]
  <2>1. <<key(k), k>> \in S
    OBVIOUS
  <2>2. PICK i \in 1 .. Size(S) : at[i] = <<key(k), k>>
    BY <1>5, <2>1
  <2> HIDE DEF key, S
  <2>3. at[i][2] = k
    BY <2>2
  <2>4. i \in 1 .. Len(q)
    BY <1>9
  <2>5. q[i] = t[k]
    BY <1>6, <2>3
  <2>6. QED  BY <2>4, <2>5
<1>11. ASSUME sorted \/ ByGid(t), NEW i \in 1 .. Len(q), NEW j \in 1 .. Len(q), i < j
       PROVE  q[i].gid <= q[j].gid
  <2> DEFINE k == at[i][2]
             l == at[j][2]
  <2>1. k \in rows /\ l \in rows /\ q[i] = t[k] /\ q[j] = t[l]
    BY <1>6, <1>7, <1>9
  <2>2. at[i][1] = key(k) /\ at[j][1] = key(l)
    BY <1>7, <1>9
  <2>3. key(k) < key(l) \/ (key(k) = key(l) /\ k <= l)
    BY <1>5, <1>9, <1>11, <2>2 DEF Precedes
  <2> HIDE DEF k, l, at, q
  <2>4. CASE sorted
    BY <1>2, <2>1, <2>3, <2>4
  <2>5. CASE ~sorted /\ ByGid(t)
    BY <1>1, <1>2, <2>1, <2>3, <2>5 DEF ByGid
  <2>6. QED  BY <1>11, <2>4, <2>5
<1>12. QED  BY <1>9, <1>10, <1>11 DEF ByGid, q

-----------------------------------------------------------------------------
(* The cursors.                                                            *)

(* A query result: its rows have a group.                                  *)
Result(q) == Len(q) \in Nat /\ \A i \in 1 .. Len(q) : q[i].gid \in Nat

LEMMA LoadEndProperties ==
  ASSUME NEW q, Result(q), NEW gid, NEW at \in 1 .. Len(q) + 1
  PROVE  /\ LoadEnd(q, gid, at) \in at .. Len(q) + 1
         /\ \A i \in at .. LoadEnd(q, gid, at) - 1 : q[i].gid = gid
         /\ LoadEnd(q, gid, at) <= Len(q) => q[LoadEnd(q, gid, at)].gid # gid
<1> DEFINE S == {i \in at .. Len(q) + 1 : AfterLast(q, i) \/ q[i].gid # gid}
           e == Least(S)
<1>1. Len(q) + 1 \in S /\ S \in SUBSET Nat
  BY DEF Result, AfterLast
<1>2. e \in S /\ \A j \in S : e <= j
  <2> HIDE DEF S
  <2>1. QED  BY <1>1, LeastProperties
<1>3. e = LoadEnd(q, gid, at)
  BY DEF LoadEnd
<1> HIDE DEF e
<1>4. e \in at .. Len(q) + 1 /\ (e <= Len(q) => q[e].gid # gid)
  BY <1>2 DEF Result, AfterLast
<1>5. ASSUME NEW i \in at .. e - 1  PROVE q[i].gid = gid
  <2>1. i \notin S /\ i \in at .. Len(q) + 1
    BY <1>2, <1>4 DEF Result
  <2>2. QED  BY <2>1
<1>6. QED  BY <1>3, <1>4, <1>5

LEMMA FindGidProperties ==
  ASSUME NEW q, Result(q), NEW gid \in Nat, NEW at \in 1 .. Len(q) + 1
  PROVE  /\ FindGid(q, gid, at) \in at .. Len(q) + 1
         /\ \A i \in at .. FindGid(q, gid, at) - 1 : q[i].gid < gid
         /\ FindGid(q, gid, at) <= Len(q) => q[FindGid(q, gid, at)].gid >= gid
<1> DEFINE S == {i \in at .. Len(q) + 1 : AfterLast(q, i) \/ ~(gid > q[i].gid)}
           e == Least(S)
<1>1. Len(q) + 1 \in S /\ S \in SUBSET Nat
  BY DEF Result, AfterLast
<1>2. e \in S /\ \A j \in S : e <= j
  <2> HIDE DEF S
  <2>1. QED  BY <1>1, LeastProperties
<1>3. e = FindGid(q, gid, at)
  BY DEF FindGid
<1> HIDE DEF e
<1>4. e \in at .. Len(q) + 1 /\ (e <= Len(q) => q[e].gid >= gid)
  BY <1>2 DEF Result, AfterLast
<1>5. ASSUME NEW i \in at .. e - 1  PROVE q[i].gid < gid
  <2>1. i \notin S /\ i \in at .. Len(q) + 1 /\ i \in 1 .. Len(q)
    BY <1>2, <1>4 DEF Result
  <2>2. gid > q[i].gid
    BY <2>1
  <2>3. QED  BY <2>2
<1>6. QED  BY <1>3, <1>4, <1>5

(* The rows of a group in a query result, and those of a table.            *)
GroupRows(q, g) == {q[i] : i \in {k \in 1 .. Len(q) : q[k].gid = g}}
GroupRowsOf(t, rows, g) == {t[k] : k \in {j \in rows : t[j].gid = g}}

(* A query returns the rows of a group that the table has for it.          *)
LEMMA OrderedGroups ==
  ASSUME NEW t, Table(t), NEW rows \in SUBSET DOMAIN t, NEW sorted \in BOOLEAN,
         NEW q, q = Ordered(t, rows, sorted)
  PROVE  /\ Result(q)
         /\ \A g : GroupRows(q, g) = GroupRowsOf(t, rows, g)
<1>1. /\ q \in Seq({t[k] : k \in rows})
      /\ \A k \in rows : \E i \in 1 .. Len(q) : q[i] = t[k]
  BY OrderedProperties
<1>2. Len(q) \in Nat /\ \A i \in 1 .. Len(q) : \E k \in rows : q[i] = t[k]
  BY <1>1
<1>3. Result(q)
  BY <1>2 DEF Result, Table
<1>4. ASSUME NEW g
      PROVE  GroupRows(q, g) = GroupRowsOf(t, rows, g)
  <2>1. ASSUME NEW i \in 1 .. Len(q), q[i].gid = g
        PROVE  q[i] \in GroupRowsOf(t, rows, g)
    <3>1. PICK k \in rows : q[i] = t[k]
      BY <1>2
    <3>2. QED  BY <2>1, <3>1 DEF GroupRowsOf
  <2>2. ASSUME NEW k \in rows, t[k].gid = g
        PROVE  t[k] \in GroupRows(q, g)
    <3>1. PICK i \in 1 .. Len(q) : q[i] = t[k]
      BY <1>1
    <3>2. QED  BY <2>2, <3>1 DEF GroupRows
  <2>3. QED  BY <2>1, <2>2 DEF GroupRows, GroupRowsOf
<1>5. QED  BY <1>3, <1>4

LEMMA GidsFinite ==
  ASSUME NEW q, Result(q), NEW at \in 1 .. Len(q) + 1
  PROVE  IsFiniteSet({q[i].gid : i \in 1 .. at - 1})
<1> DEFINE G == {q[i].gid : i \in 1 .. at - 1}
           f == [i \in 1 .. at - 1 |-> q[i].gid]
<1>1. f \in Surjection(1 .. at - 1, G)
  BY DEF Surjection
<1>2. IsFiniteSet(1 .. at - 1)
  <2>1. 1 \in Int /\ at - 1 \in Int
    BY DEF Result
  <2>2. QED  BY <2>1, FS_Interval
<1> HIDE DEF f
<1>3. QED  BY <1>1, <1>2, FS_Surjection

(* The cursor stands between the groups smaller than gid and the others.   *)
GroupAhead(q, gid, at) ==
  /\ at \in 1 .. Len(q) + 1
  /\ \A i \in 1 .. at - 1 : q[i].gid < gid
  /\ \A i \in at .. Len(q) : q[i].gid >= gid

(* It stands after the groups up to gid.                                   *)
Behind(q, gid, at) ==
  /\ at \in 1 .. Len(q) + 1
  /\ \A i \in 1 .. at - 1 : q[i].gid <= gid
  /\ \A i \in at .. Len(q) : q[i].gid > gid

(* findGid reaches the group, loadBody and loadHead read all of its rows   *)
(* and no other.                                                           *)
LEMMA FindsGroup ==
  ASSUME NEW q, Result(q), ByGid(q), NEW gid \in Nat, NEW at \in 1 .. Len(q) + 1,
         \A i \in 1 .. at - 1 : q[i].gid < gid
  PROVE  GroupAhead(q, gid, FindGid(q, gid, at))
<1> DEFINE e == FindGid(q, gid, at)
<1>1. /\ e \in at .. Len(q) + 1
      /\ \A i \in at .. e - 1 : q[i].gid < gid
      /\ e <= Len(q) => q[e].gid >= gid
  BY FindGidProperties
<1> HIDE DEF e
<1>2. \A i \in 1 .. e - 1 : q[i].gid < gid
  BY <1>1 DEF Result
<1>3. ASSUME NEW i \in e .. Len(q)  PROVE q[i].gid >= gid
  BY <1>1, <1>3 DEF Result, ByGid
<1>4. QED  BY <1>1, <1>2, <1>3 DEF GroupAhead, Result, e

LEMMA LoadsGroup ==
  ASSUME NEW q, Result(q), ByGid(q), NEW gid \in Nat, NEW at, GroupAhead(q, gid, at)
  PROVE  /\ Behind(q, gid, LoadEnd(q, gid, at))
         /\ Loaded(q, gid, at) = GroupRows(q, gid)
         /\ Found(q, gid, at) <=> \E k \in 1 .. Len(q) : q[k].gid = gid
<1> DEFINE e == LoadEnd(q, gid, at)
<1>1. at \in 1 .. Len(q) + 1
  BY DEF GroupAhead
<1>2. /\ e \in at .. Len(q) + 1
      /\ \A i \in at .. e - 1 : q[i].gid = gid
      /\ e <= Len(q) => q[e].gid # gid
  BY <1>1, LoadEndProperties
<1>3. Loaded(q, gid, at) = {q[i] : i \in at .. e - 1}
  BY DEF Loaded
<1> HIDE DEF e
<1>4. ASSUME NEW i \in 1 .. e - 1  PROVE q[i].gid <= gid
  BY <1>1, <1>2 DEF GroupAhead, Result
<1>5. ASSUME NEW i \in e .. Len(q)  PROVE q[i].gid > gid
  <2>1. e \in 1 .. Len(q) /\ e \in at .. Len(q) /\ i \in 1 .. Len(q)
    BY <1>1, <1>2 DEF Result
  <2>2. q[e].gid > gid
    BY <1>2, <2>1 DEF GroupAhead, Result
  <2>3. q[i].gid >= q[e].gid
    BY <2>1 DEF ByGid, Result
  <2>4. QED  BY <2>1, <2>2, <2>3 DEF Result
<1>6. Behind(q, gid, e)
  BY <1>1, <1>2, <1>4, <1>5 DEF Behind, Result
<1>7. at .. e - 1 = {k \in 1 .. Len(q) : q[k].gid = gid}
  <2>1. ASSUME NEW k \in 1 .. Len(q), q[k].gid = gid  PROVE k \in at .. e - 1
    BY <1>1, <1>2, <1>5, <2>1 DEF GroupAhead, Result
  <2>2. QED  BY <1>1, <1>2, <2>1 DEF Result
<1>8. Found(q, gid, at) <=> \E k \in 1 .. Len(q) : q[k].gid = gid
  <2>1. Found(q, gid, at) <=> at <= Len(q) /\ q[at].gid = gid
    BY <1>1 DEF Found, AfterLast, Result
  <2>2. ASSUME NEW k \in 1 .. Len(q), q[k].gid = gid  PROVE at <= Len(q) /\ q[at].gid = gid
    BY <1>1, <1>2, <1>7, <2>2 DEF Result
  <2>3. QED  BY <1>1, <2>1, <2>2 DEF Result
<1>9. QED  BY <1>3, <1>6, <1>7, <1>8 DEF e, GroupRows
-----------------------------------------------------------------------------
(* A loop over the groups of a query: between two groups, the rows read    *)
(* are of smaller groups than the rows to come.                            *)

BetweenGroups(q, at) ==
  /\ at \in 1 .. Len(q) + 1
  /\ \A i \in 1 .. at - 1 : \A j \in at .. Len(q) : q[i].gid < q[j].gid

GidsBefore(q, at) == {q[i].gid : i \in 1 .. at - 1}

LEMMA NextGroup ==
  ASSUME NEW q, Result(q), ByGid(q), NEW at, BetweenGroups(q, at), ~AfterLast(q, at),
         NEW gid, gid = q[at].gid
  PROVE  /\ gid \in Nat /\ \A g \in GidsBefore(q, at) : g \in Nat /\ g < gid
         /\ IsFiniteSet(GidsBefore(q, at))
         /\ Loaded(q, gid, at) = GroupRows(q, gid)
         /\ Behind(q, gid, LoadEnd(q, gid, at)) /\ BetweenGroups(q, LoadEnd(q, gid, at))
         /\ GidsBefore(q, LoadEnd(q, gid, at)) = GidsBefore(q, at) \cup {gid}
         /\ {k \in 1 .. Len(q) : q[k].gid < gid} = 1 .. at - 1
<1> DEFINE e == LoadEnd(q, gid, at)
<1>1. Len(q) \in Nat /\ at \in 1 .. Len(q) /\ \A i \in 1 .. Len(q) : q[i].gid \in Nat
  BY DEF BetweenGroups, AfterLast, Result
<1>2. gid \in Nat
  BY <1>1
<1>3. \A i \in 1 .. at - 1 : q[i].gid \in Nat /\ q[i].gid < gid
  <2>1. at \in at .. Len(q) /\ \A i \in 1 .. at - 1 : i \in 1 .. Len(q)
    BY <1>1
  <2>2. QED  BY <1>1, <2>1 DEF BetweenGroups
<1>4. \A i \in at .. Len(q) : q[i].gid >= gid
  BY <1>1 DEF ByGid
<1>5. GroupAhead(q, gid, at)
  BY <1>1, <1>3, <1>4 DEF GroupAhead
<1>6. Behind(q, gid, e) /\ Loaded(q, gid, at) = GroupRows(q, gid)
  BY <1>2, <1>5, LoadsGroup
<1>7. e \in at .. Len(q) + 1 /\ \A i \in at .. e - 1 : q[i].gid = gid
  BY <1>1, LoadEndProperties
<1> HIDE DEF e
<1>8. BetweenGroups(q, e)
  <2>1. e \in 1 .. Len(q) + 1
    BY <1>6 DEF Behind
  <2>2. ASSUME NEW i \in 1 .. e - 1, NEW j \in e .. Len(q)  PROVE q[i].gid < q[j].gid
    <3>1. q[i].gid <= gid /\ q[j].gid > gid
      BY <1>6 DEF Behind
    <3>2. i \in 1 .. Len(q) /\ j \in 1 .. Len(q)
      BY <1>1, <2>1
    <3>3. q[i].gid \in Nat /\ q[j].gid \in Nat
      BY <1>1, <3>2
    <3>4. QED  BY <1>2, <3>1, <3>3
  <2>3. QED  BY <2>1, <2>2 DEF BetweenGroups
<1>9. GidsBefore(q, e) = GidsBefore(q, at) \cup {gid}
  <2>1. at \in Nat /\ e \in Nat /\ at < e
    BY <1>1, <1>6, <1>7 DEF Behind
  <2>2. ASSUME NEW i \in 1 .. e - 1  PROVE q[i].gid \in GidsBefore(q, at) \cup {gid}
    <3>1. CASE i < at
      BY <2>1, <3>1 DEF GidsBefore
    <3>2. CASE ~(i < at)
      BY <1>7, <2>1, <3>2
    <3>3. QED  BY <3>1, <3>2
  <2>3. ASSUME NEW g \in GidsBefore(q, at)  PROVE \E i \in 1 .. e - 1 : q[i].gid = g
    BY <2>1 DEF GidsBefore
  <2>4. at \in 1 .. e - 1
    BY <1>1, <2>1
  <2>5. \E i \in 1 .. e - 1 : q[i].gid = gid
    BY <2>4
  <2>6. QED  BY <2>2, <2>3, <2>5 DEF GidsBefore
<1>10. IsFiniteSet(GidsBefore(q, at))
  <2>1. at \in 1 .. Len(q) + 1
    BY <1>1
  <2>2. QED  BY <2>1, GidsFinite DEF GidsBefore
<1>11. \A g \in GidsBefore(q, at) : g \in Nat /\ g < gid
  BY <1>3 DEF GidsBefore
<1>12. {k \in 1 .. Len(q) : q[k].gid < gid} = 1 .. at - 1
  <2>1. \A k \in 1 .. Len(q) : q[k].gid < gid => k \in 1 .. at - 1
    BY <1>1, <1>2, <1>4
  <2>2. \A k \in 1 .. at - 1 : k \in 1 .. Len(q) /\ q[k].gid < gid
    BY <1>1, <1>3
  <2>3. QED  BY <2>1, <2>2
<1>13. QED  BY <1>2, <1>6, <1>8, <1>9, <1>10, <1>11, <1>12 DEF e

(* The other cursor, over the heads, never goes beyond the group read.     *)
NotBeyond(q, at, G) ==
  at \in 1 .. Len(q) + 1 /\ \A i \in 1 .. at - 1 : \E g \in G : q[i].gid <= g

LEMMA NextHeads ==
  ASSUME NEW q, Result(q), ByGid(q), NEW at, NEW G, NotBeyond(q, at, G),
         NEW gid \in Nat, \A g \in G : g \in Nat /\ g < gid
  PROVE  LET found == FindGid(q, gid, at) IN
         /\ NotBeyond(q, found, G \cup {gid})
         /\ NotBeyond(q, LoadEnd(q, gid, found), G \cup {gid})
         /\ Loaded(q, gid, found) = GroupRows(q, gid)
         /\ Found(q, gid, found) <=> GroupRows(q, gid) # {}
<1> DEFINE found == FindGid(q, gid, at)
           e == LoadEnd(q, gid, found)
<1>1. \A i \in 1 .. at - 1 : q[i].gid < gid
  <2>1. ASSUME NEW i \in 1 .. at - 1  PROVE q[i].gid < gid
    <3>1. PICK g \in G : q[i].gid <= g
      BY DEF NotBeyond
    <3>2. i \in 1 .. Len(q)
      BY DEF NotBeyond, Result
    <3>3. q[i].gid \in Nat
      BY <3>2 DEF Result
    <3>4. g \in Nat /\ g < gid
      OBVIOUS
    <3>5. QED  BY <3>1, <3>3, <3>4
  <2>2. QED  BY <2>1
<1>2. GroupAhead(q, gid, found)
  BY <1>1, FindsGroup DEF NotBeyond
<1> HIDE DEF found
<1>3. /\ Behind(q, gid, e)
      /\ Loaded(q, gid, found) = GroupRows(q, gid)
      /\ Found(q, gid, found) <=> \E k \in 1 .. Len(q) : q[k].gid = gid
  BY <1>2, LoadsGroup
<1> HIDE DEF e
<1>4. NotBeyond(q, found, G \cup {gid})
  <2>1. \A i \in 1 .. found - 1 : q[i].gid < gid /\ q[i].gid \in Nat
    <3>1. \A i \in 1 .. found - 1 : i \in 1 .. Len(q)
      BY <1>2 DEF GroupAhead, Result
    <3>2. QED  BY <1>2, <3>1 DEF GroupAhead, Result
  <2>2. \A i \in 1 .. found - 1 : q[i].gid <= gid
    BY <2>1
  <2>3. QED  BY <1>2, <2>2 DEF GroupAhead, NotBeyond
<1>5. NotBeyond(q, e, G \cup {gid})
  BY <1>3 DEF Behind, NotBeyond
<1>6. GroupRows(q, gid) # {} <=> \E k \in 1 .. Len(q) : q[k].gid = gid
  BY DEF GroupRows
<1>7. QED  BY <1>3, <1>4, <1>5, <1>6 DEF e, found

-----------------------------------------------------------------------------
(* The table joined with itself.                                           *)

LEMMA PositionInProduct ==
  ASSUME NEW n \in Nat, NEW k \in 1 .. n * n
  PROVE  ((k - 1) \div n) + 1 \in 1 .. n /\ ((k - 1) % n) + 1 \in 1 .. n
<1> DEFINE d == (k - 1) \div n
<1>1. n > 0 /\ n * n \in Nat /\ k \in Nat /\ k <= n * n
  OBVIOUS
<1>2. (k - 1) % n \in 0 .. n - 1
  BY <1>1
<1>3. d \in Nat /\ d * n <= k - 1
  BY <1>1
<1>4. d < n
  BY <1>1, <1>3
<1>5. QED  BY <1>2, <1>3, <1>4

LEMMA PairInProduct ==
  ASSUME NEW n \in Nat, NEW i \in 1 .. n, NEW j \in 1 .. n
  PROVE  \E k \in 1 .. n * n : ((k - 1) \div n) + 1 = i /\ ((k - 1) % n) + 1 = j
<1> DEFINE k == (i - 1) * n + j
<1>1. k \in Int /\ k >= 1
  OBVIOUS
<1>2. (i - 1) * n <= (n - 1) * n
  OBVIOUS
<1>3. k <= n * n
  BY <1>2
<1>4. k - 1 = (i - 1) * n + (j - 1) /\ j - 1 \in 0 .. n - 1
  OBVIOUS
<1>5. (k - 1) % n = j - 1
  BY <1>4
<1>6. (k - 1) \div n = i - 1
  BY <1>4
<1>7. k \in 1 .. n * n
  BY <1>1, <1>3
<1> HIDE DEF k
<1>8. ((k - 1) \div n) + 1 = i /\ ((k - 1) % n) + 1 = j
  BY <1>5, <1>6
<1>9. QED  BY <1>7, <1>8

(* Rows i and j of the table are joined.                                   *)
JoinsAt(t, i, j, same, cross) == Joins([body |-> t[i], head |-> t[j]], same, cross)
PairAt(t, i, j) == [gid |-> t[i].gid, body |-> t[i].item, head |-> t[j].item]
JoinedOf(t, same, cross, g) ==
  {r \in {PairAt(t, i, j) : i, j \in DOMAIN t} :
     \E i, j \in DOMAIN t :
       JoinsAt(t, i, j, same, cross) /\ t[i].gid = g /\ r = PairAt(t, i, j)}

LEMMA JoinedGroups ==
  ASSUME NEW t, Table(t), NEW same, NEW cross,
         NEW q, q = Ordered(Pairs(t), JoinedRows(t, same, cross), TRUE)
  PROVE  /\ Result(q) /\ ByGid(q) /\ DOMAIN q = 1 .. Len(q)
         /\ \A g : GroupRows(q, g) = JoinedOf(t, same, cross, g)
<1> DEFINE n == Len(t)
           u == Pairs(t)
           rows == JoinedRows(t, same, cross)
           left(k) == ((k - 1) \div n) + 1
           right(k) == ((k - 1) % n) + 1
<1>1. n \in Nat /\ DOMAIN t = 1 .. n
  BY DEF Table
<1>2. n * n \in Nat
  BY <1>1
<1>3. \A k \in 1 .. n * n : left(k) \in 1 .. n /\ right(k) \in 1 .. n
  BY <1>1, PositionInProduct
<1>4. \A i, j \in 1 .. n : \E k \in 1 .. n * n : left(k) = i /\ right(k) = j
  BY <1>1, PairInProduct
<1>5. Product(t) = [k \in 1 .. n * n |-> [body |-> t[left(k)], head |-> t[right(k)]]]
  BY DEF Product
<1> HIDE DEF n, left, right
<1>6. u = [k \in 1 .. n * n |-> PairAt(t, left(k), right(k))]
  BY <1>5 DEF Pairs, PairAt
<1>7. rows = {k \in 1 .. n * n : JoinsAt(t, left(k), right(k), same, cross)}
  BY <1>5 DEF JoinedRows, JoinsAt
<1> HIDE DEF u, rows
<1>8. Table(u)
  <2>1. u = [k \in 1 .. n * n |-> u[k]]
    BY <1>6
  <2>2. IsList(u)
    BY <1>2, <2>1, ListOf
  <2>3. \A k \in 1 .. n * n : u[k].gid \in Nat
    <3>1. \A i \in 1 .. n : t[i].gid \in Nat
      BY <1>1 DEF Table
    <3>2. QED  BY <1>3, <1>6, <3>1 DEF PairAt
  <2>4. DOMAIN u = 1 .. n * n
    BY <1>6
  <2>5. QED  BY <2>2, <2>3, <2>4 DEF Table, IsList
<1>9. rows \in SUBSET DOMAIN u
  BY <1>6, <1>7
<1>10. Result(q) /\ \A g : GroupRows(q, g) = GroupRowsOf(u, rows, g)
  BY <1>8, <1>9, OrderedGroups DEF u, rows
<1>11. ByGid(q) /\ DOMAIN q = 1 .. Len(q)
  <2>1. /\ Ordered(u, rows, TRUE) \in Seq({u[k] : k \in rows})
        /\ ByGid(Ordered(u, rows, TRUE))
    BY <1>8, <1>9, OrderedProperties
  <2>2. QED  BY <2>1, LenProperties DEF u, rows
<1>12. ASSUME NEW g
       PROVE  GroupRowsOf(u, rows, g) = JoinedOf(t, same, cross, g)
  <2>1. ASSUME NEW k \in rows, u[k].gid = g
        PROVE  \E i, j \in DOMAIN t :
                 JoinsAt(t, i, j, same, cross) /\ t[i].gid = g /\ u[k] = PairAt(t, i, j)
    <3>1. k \in 1 .. n * n /\ JoinsAt(t, left(k), right(k), same, cross)
      BY <1>7
    <3>2. u[k] = PairAt(t, left(k), right(k)) /\ left(k) \in DOMAIN t /\ right(k) \in DOMAIN t
      BY <1>1, <1>3, <1>6, <3>1
    <3>3. t[left(k)].gid = g
      BY <2>1, <3>2 DEF PairAt
    <3>4. QED  BY <3>1, <3>2, <3>3
  <2>2. ASSUME NEW i \in DOMAIN t, NEW j \in DOMAIN t, JoinsAt(t, i, j, same, cross), t[i].gid = g
        PROVE  \E k \in rows : u[k].gid = g /\ u[k] = PairAt(t, i, j)
    <3>1. PICK k \in 1 .. n * n : left(k) = i /\ right(k) = j
      BY <1>1, <1>4
    <3>2. k \in rows /\ u[k] = PairAt(t, i, j)
      BY <1>6, <1>7, <2>2, <3>1
    <3>3. QED  BY <2>2, <3>2 DEF PairAt
  <2>3. QED  BY <2>1, <2>2 DEF GroupRowsOf, JoinedOf
<1>13. QED  BY <1>10, <1>11, <1>12
=============================================================================
