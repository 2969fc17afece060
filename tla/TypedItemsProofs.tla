--------------------------- MODULE TypedItemsProofs ---------------------------
(***************************************************************************)
(* The items between the database and the program, for any columns, rows   *)
(* and width of an int: their order is a strict total order where the      *)
(* numbers fit, the map of the miners has each item once with its groups,  *)
(* groups come in the program's order, and results are read as written.    *)
(***************************************************************************)
EXTENDS TypedItems, FiniteSetTheorems, SequenceTheorems, WellFoundedInduction, TLAPS

LEMMA WrapFits ==
  /\ \A n \in Int : Wrap(n) \in -Half .. Half - 1
  /\ \A n \in -Half .. Half - 1 : Wrap(n) = n
<1>1. Half \in Nat \ {0}
  BY TypedItemsAssumption
<1>2. QED  BY <1>1 DEF Wrap

-----------------------------------------------------------------------------
(* The order of the items.                                                 *)

(* Column by column, the elements of E are compared as by a total order.   *)
Comparable(types, E) ==
  /\ types \in Seq(Types)
  /\ \A e \in E : e = [c \in DOMAIN types |-> e[c]]
  /\ \A c \in DOMAIN types : \A e, f, g \in E :
       /\ CompareTo(types[c], e[c], f[c]) \in Int
       /\ CompareTo(types[c], e[c], f[c]) < 0 <=> CompareTo(types[c], f[c], e[c]) > 0
       /\ CompareTo(types[c], e[c], f[c]) = 0 <=> e[c] = f[c]
       /\ CompareTo(types[c], e[c], f[c]) < 0 /\ CompareTo(types[c], f[c], g[c]) < 0
            => CompareTo(types[c], e[c], g[c]) < 0

LEMMA LeastColumn ==
  ASSUME NEW S \in SUBSET Nat, S # {}
  PROVE  \E c \in S : \A b \in S : c <= b
<1> DEFINE smaller == {p \in Nat \X Nat : p[1] < p[2]}
<1>1. IsWellFoundedOn(smaller, Nat)
  BY NatLessThanWellFounded DEF OpToRel
<1> HIDE DEF smaller
<1>2. PICK c \in S : \A b \in S : <<b, c>> \notin smaller
  BY <1>1, WFMin
<1>3. ASSUME NEW b \in S, b < c  PROVE FALSE
  <2>1. <<b, c>> \in smaller
    BY <1>3 DEF smaller
  <2>2. QED  BY <1>2, <2>1
<1>4. QED  BY <1>3

(* Different elements differ first in some column.                         *)
LEMMA FirstDifference ==
  ASSUME NEW types, NEW E, Comparable(types, E), NEW e \in E, NEW f \in E, e # f
  PROVE  \E c \in DOMAIN types : e[c] # f[c] /\ \A b \in 1 .. c - 1 : b \in DOMAIN types /\ e[b] = f[b]
<1> DEFINE S == {c \in DOMAIN types : e[c] # f[c]}
<1>1. DOMAIN types = 1 .. Len(types) /\ Len(types) \in Nat
  BY DEF Comparable
<1>2. S # {} /\ S \in SUBSET Nat
  BY <1>1 DEF Comparable
<1>3. PICK c \in S : \A b \in S : c <= b
  BY <1>2, LeastColumn
<1>4. \A b \in 1 .. c - 1 : b \in DOMAIN types /\ b \notin S
  BY <1>1, <1>3
<1>5. QED  BY <1>3, <1>4

LEMMA LessIsTotal ==
  ASSUME NEW types, NEW E, Comparable(types, E), NEW e \in E, NEW f \in E
  PROVE  LessItem(types, e, f) \/ e = f \/ LessItem(types, f, e)
<1>1. CASE e # f
  <2>1. PICK c \in DOMAIN types :
          e[c] # f[c] /\ \A b \in 1 .. c - 1 : b \in DOMAIN types /\ e[b] = f[b]
    BY <1>1, FirstDifference
  <2>2. \A b \in 1 .. c - 1 : CompareTo(types[b], e[b], f[b]) = 0 /\ CompareTo(types[b], f[b], e[b]) = 0
    BY <2>1 DEF Comparable
  <2>3. CompareTo(types[c], e[c], f[c]) < 0 \/ CompareTo(types[c], f[c], e[c]) < 0
    BY <2>1 DEF Comparable
  <2>4. QED  BY <2>2, <2>3 DEF LessItem
<1>2. QED  BY <1>1

LEMMA LessMeans ==
  ASSUME NEW types, NEW E, Comparable(types, E), NEW e \in E, NEW f \in E, LessItem(types, e, f)
  PROVE  \E c \in 1 .. Len(types) :
           CompareTo(types[c], e[c], f[c]) < 0 /\ \A b \in 1 .. c - 1 : e[b] = f[b]
<1>1. DOMAIN types = 1 .. Len(types) /\ Len(types) \in Nat
  BY DEF Comparable
<1>2. PICK c \in DOMAIN types : /\ CompareTo(types[c], e[c], f[c]) < 0
                                /\ \A b \in 1 .. c - 1 : CompareTo(types[b], e[b], f[b]) = 0
  BY DEF LessItem
<1>3. \A b \in 1 .. c - 1 : b \in DOMAIN types
  BY <1>1
<1>4. \A b \in 1 .. c - 1 : e[b] = f[b]
  BY <1>2, <1>3 DEF Comparable
<1>5. QED  BY <1>1, <1>2, <1>4

LEMMA LessIfLess ==
  ASSUME NEW types, NEW E, Comparable(types, E), NEW e \in E, NEW f \in E,
         NEW c \in 1 .. Len(types), CompareTo(types[c], e[c], f[c]) < 0,
         \A b \in 1 .. c - 1 : e[b] = f[b]
  PROVE  LessItem(types, e, f)
<1>1. DOMAIN types = 1 .. Len(types) /\ Len(types) \in Nat
  BY DEF Comparable
<1>2. \A b \in 1 .. c - 1 : b \in DOMAIN types
  BY <1>1
<1>3. \A b \in 1 .. c - 1 : CompareTo(types[b], e[b], f[b]) = 0
  BY <1>2 DEF Comparable
<1>4. QED  BY <1>1, <1>3 DEF LessItem

LEMMA LessIsStrict ==
  ASSUME NEW types, NEW E, Comparable(types, E), NEW e \in E, NEW f \in E,
         LessItem(types, e, f), LessItem(types, f, e)
  PROVE  FALSE
<1>1. DOMAIN types = 1 .. Len(types)
  BY DEF Comparable
<1>2. PICK c \in 1 .. Len(types) :
        CompareTo(types[c], e[c], f[c]) < 0 /\ \A b \in 1 .. c - 1 : e[b] = f[b]
  BY LessMeans
<1>3. PICK d \in 1 .. Len(types) :
        CompareTo(types[d], f[d], e[d]) < 0 /\ \A b \in 1 .. d - 1 : f[b] = e[b]
  BY LessMeans
<1>4. e[c] # f[c] /\ e[d] # f[d]
  BY <1>1, <1>2, <1>3 DEF Comparable
<1>5. c = d
  BY <1>2, <1>3, <1>4
<1>6. QED  BY <1>1, <1>2, <1>3, <1>5 DEF Comparable

LEMMA LessIsTransitive ==
  ASSUME NEW types, NEW E, Comparable(types, E), NEW e \in E, NEW f \in E, NEW g \in E,
         LessItem(types, e, f), LessItem(types, f, g)
  PROVE  LessItem(types, e, g)
<1>1. DOMAIN types = 1 .. Len(types)
  BY DEF Comparable
<1>2. PICK c \in 1 .. Len(types) :
        CompareTo(types[c], e[c], f[c]) < 0 /\ \A b \in 1 .. c - 1 : e[b] = f[b]
  BY LessMeans
<1>3. PICK d \in 1 .. Len(types) :
        CompareTo(types[d], f[d], g[d]) < 0 /\ \A b \in 1 .. d - 1 : f[b] = g[b]
  BY LessMeans
<1>4. CASE c < d
  <2>1. f[c] = g[c] /\ \A b \in 1 .. c - 1 : e[b] = g[b]
    BY <1>2, <1>3, <1>4
  <2>2. CompareTo(types[c], e[c], g[c]) < 0
    BY <1>2, <2>1
  <2>3. QED  BY <2>1, <2>2, LessIfLess
<1>5. CASE d < c
  <2>1. e[d] = f[d] /\ \A b \in 1 .. d - 1 : e[b] = g[b]
    BY <1>2, <1>3, <1>5
  <2>2. CompareTo(types[d], e[d], g[d]) < 0
    BY <1>3, <2>1
  <2>3. QED  BY <2>1, <2>2, LessIfLess
<1>6. CASE c = d
  <2>1. CompareTo(types[c], e[c], g[c]) < 0
    BY <1>1, <1>2, <1>3, <1>6 DEF Comparable
  <2>2. \A b \in 1 .. c - 1 : e[b] = g[b]
    BY <1>2, <1>3, <1>6
  <2>3. QED  BY <2>1, <2>2, LessIfLess
<1>7. QED  BY <1>4, <1>5, <1>6

LEMMA SameIsEqual ==
  ASSUME NEW types, NEW E, Comparable(types, E), NEW e \in E, NEW f \in E
  PROVE  SameItem(types, e, f) <=> e = f
<1>1. CASE e # f
  BY <1>1, FirstDifference DEF Comparable, SameItem
<1>2. CASE e = f
  BY <1>2 DEF Comparable, SameItem
<1>3. QED  BY <1>1, <1>2

-----------------------------------------------------------------------------
(* The values of the columns, where they fit.                              *)

LEMMA DigitsOrder ==
  \A m, n \in 0 .. 99 :
    /\ Digits(m) \in Int /\ (Digits(m) = Digits(n) => m = n)
    /\ m < n /\ (m < 10 <=> n < 10) => Digits(m) < Digits(n)
BY DEF Digits

LEMMA ConstantsDiffer ==
  /\ Null # Empty /\ Null # Failure /\ Empty # Failure
  /\ \A v \in Int \cup Texts : v # Null /\ v # Empty /\ v # Failure
  /\ \A x \in Texts : x[1] \in Nat \ {0} /\ x[2] \in Nat /\ x = <<x[1], x[2]>>
<1>1. Null # Empty /\ Null # Failure /\ Empty # Failure
  BY TypedItemsAssumption
<1>2. {Null, Empty, Failure} \cap (Int \cup Texts) = {}
  BY TypedItemsAssumption
<1>3. Texts \subseteq (Nat \ {0}) \X Nat
  BY TypedItemsAssumption
<1>4. \A x \in Texts : x[1] \in Nat \ {0} /\ x[2] \in Nat /\ x = <<x[1], x[2]>>
  BY <1>3
<1>5. \A v \in Int \cup Texts : v # Null /\ v # Empty /\ v # Failure
  BY <1>2
<1>6. QED  BY <1>1, <1>4, <1>5

LEMMA NumbersCompare ==
  ASSUME NEW type \in {"int4", "int8"}, NEW v \in Int, NEW w \in Int,
         v - w \in -Half .. Half - 1
  PROVE  CompareTo(type, v, w) = v - w
BY WrapFits DEF CompareTo, IsNumeric

LEMMA BytesDiffer ==
  ASSUME NEW type \in {"int2", "text"}, NEW v \in ColumnValues(type) \ {Null},
         NEW w \in ColumnValues(type) \ {Null}
  PROVE  /\ Bytes(type, v) \in Int \X Int
         /\ Bytes(type, v) = Bytes(type, w) => v = w
         /\ CompareTo(type, v, w) =
              IF Bytes(type, v)[1] # Bytes(type, w)[1]
                THEN Bytes(type, v)[1] - Bytes(type, w)[1] ELSE Bytes(type, v)[2] - Bytes(type, w)[2]
<1>1. CASE type = "int2"
  <2>1. v \in 0 .. 99 /\ w \in 0 .. 99 /\ v # Empty /\ w # Empty
    BY <1>1, ConstantsDiffer DEF ColumnValues
  <2>2. Bytes(type, v) = <<Digits(v), 0>> /\ Bytes(type, w) = <<Digits(w), 0>>
    BY <1>1, <2>1 DEF Bytes
  <2>3. Digits(v) \in Int /\ Digits(w) \in Int /\ (Digits(v) = Digits(w) => v = w)
    BY <2>1, DigitsOrder
  <2>4. Bytes(type, v) \in Int \X Int /\ (Bytes(type, v) = Bytes(type, w) => v = w)
    BY <2>2, <2>3
  <2>5. QED  BY <1>1, <2>4 DEF CompareTo, IsNumeric
<1>2. CASE type = "text"
  <2>1. v \in Texts \cup {Empty} /\ w \in Texts \cup {Empty}
    BY <1>2 DEF ColumnValues
  <2>2. Bytes(type, v) = IF v = Empty THEN <<-1, 0>> ELSE v
    BY <1>2 DEF Bytes
  <2>3. Bytes(type, w) = IF w = Empty THEN <<-1, 0>> ELSE w
    BY <1>2 DEF Bytes
  <2>4. Bytes(type, v) \in Int \X Int
    BY <2>1, <2>2, ConstantsDiffer
  <2>5. Bytes(type, v) = Bytes(type, w) => v = w
    BY <2>1, <2>2, <2>3, ConstantsDiffer
  <2>6. QED  BY <1>2, <2>4, <2>5 DEF CompareTo, IsNumeric
<1>3. QED  BY <1>1, <1>2

(* The elements of one side of the rows, and the types of their columns.   *)
Elements(part) == {job.rows[i][part] : i \in DOMAIN job.rows}
HasTypes(types, part) ==
  /\ types \in Seq(Types)
  /\ \A i \in DOMAIN job.rows : HasColumns(types, job.rows[i][part])

LEMMA JobTypes ==
  ASSUME job \in Jobs
  PROVE  /\ HasTypes(job.groupTypes, "group") /\ HasTypes(job.itemTypes, "item")
         /\ DOMAIN job.rows = 1 .. Len(job.rows) /\ Len(job.rows) \in Nat
<1>1. job.rows \in Seq({job.rows[i] : i \in DOMAIN job.rows})
  BY TypedItemsAssumption
<1>2. job.groupTypes \in Seq(Types) /\ job.itemTypes \in Seq(Types)
  BY TypedItemsAssumption
<1>3. \A i \in DOMAIN job.rows :
        HasColumns(job.groupTypes, job.rows[i].group) /\ HasColumns(job.itemTypes, job.rows[i].item)
  BY TypedItemsAssumption
<1>4. QED  BY <1>1, <1>2, <1>3 DEF HasTypes

LEMMA ValuesFit ==
  ASSUME NEW types, NEW part, HasTypes(types, part), FitsInt(types, part),
         NEW c \in DOMAIN types, NEW e \in Elements(part), NEW f \in Elements(part)
  PROVE  /\ types[c] \in Types /\ e[c] \in ColumnValues(types[c]) \ {Null}
         /\ types[c] \in {"int4", "int8"} =>
              e[c] \in -Half .. Half - 1 /\ e[c] - f[c] \in -Half .. Half - 1
<1>1. e[c] \in Column(part, c) /\ f[c] \in Column(part, c)
  BY DEF Elements, Column
<1>2. types[c] \in Types /\ e[c] \in ColumnValues(types[c])
  <2>1. PICK i \in DOMAIN job.rows : e = job.rows[i][part]
    BY DEF Elements
  <2>2. HasColumns(types, e) /\ types \in Seq(Types)
    BY <2>1 DEF HasTypes
  <2>3. e[c] \in ColumnValues(types[c])
    BY <2>2 DEF HasColumns
  <2>4. QED  BY <2>2, <2>3
<1>3. QED  BY <1>1, <1>2 DEF FitsInt

LEMMA ColumnsCompare ==
  ASSUME NEW types, NEW part, HasTypes(types, part), FitsInt(types, part), NEW c \in DOMAIN types,
         NEW e \in Elements(part), NEW f \in Elements(part), NEW g \in Elements(part)
  PROVE  /\ CompareTo(types[c], e[c], f[c]) \in Int
         /\ CompareTo(types[c], e[c], f[c]) < 0 <=> CompareTo(types[c], f[c], e[c]) > 0
         /\ CompareTo(types[c], e[c], f[c]) = 0 <=> e[c] = f[c]
         /\ CompareTo(types[c], e[c], f[c]) < 0 /\ CompareTo(types[c], f[c], g[c]) < 0
              => CompareTo(types[c], e[c], g[c]) < 0
<1>1. types[c] \in Types /\ \A x \in Elements(part) : x[c] \in ColumnValues(types[c]) \ {Null}
  BY ValuesFit
<1>2. CASE types[c] \in {"int4", "int8"}
  <2>1. \A x, y \in Elements(part) : x[c] \in -Half .. Half - 1 /\ x[c] - y[c] \in -Half .. Half - 1
    BY <1>2, ValuesFit
  <2>2. \A x \in Elements(part) : x[c] \in Int
    BY <2>1, TypedItemsAssumption
  <2>3. \A x, y \in Elements(part) : CompareTo(types[c], x[c], y[c]) = x[c] - y[c]
    BY <1>2, <2>1, <2>2, NumbersCompare
  <2>4. QED  BY <2>2, <2>3
<1>3. CASE types[c] \in {"int2", "text"}
  <2> DEFINE B(x) == Bytes(types[c], x[c])
  <2>1. \A x, y \in Elements(part) :
          /\ B(x) \in Int \X Int /\ (B(x) = B(y) => x[c] = y[c])
          /\ CompareTo(types[c], x[c], y[c]) =
               IF B(x)[1] # B(y)[1] THEN B(x)[1] - B(y)[1] ELSE B(x)[2] - B(y)[2]
    BY <1>1, <1>3, BytesDiffer
  <2>2. e[c] = f[c] => B(e) = B(f)
    OBVIOUS
  <2> HIDE DEF B
  <2>3. B(e) = B(f) <=> B(e)[1] = B(f)[1] /\ B(e)[2] = B(f)[2]
    BY <2>1
  <2>4. \A x \in Elements(part) : B(x)[1] \in Int /\ B(x)[2] \in Int
    BY <2>1
  <2>5. QED  BY <2>1, <2>2, <2>3, <2>4
<1>4. QED  BY <1>1, <1>2, <1>3 DEF Types

LEMMA ElementsComparable ==
  ASSUME NEW types, NEW part, HasTypes(types, part), FitsInt(types, part)
  PROVE  Comparable(types, Elements(part))
<1>1. \A e \in Elements(part) : e = [c \in DOMAIN types |-> e[c]]
  BY DEF Elements, HasTypes, HasColumns
<1>2. QED  BY <1>1, ColumnsCompare DEF Comparable, HasTypes

(* What the program makes of an element is the element.                    *)
LEMMA ElementsCreated ==
  ASSUME NEW types, NEW part, HasTypes(types, part), FitsInt(types, part), NEW e \in Elements(part)
  PROVE  CreateElement(types, e) = e
<1>1. ASSUME NEW c \in DOMAIN types  PROVE CreateAttribute(types[c], e[c]) = e[c]
  <2>1. types[c] \in Types /\ e[c] # Null
    BY ValuesFit
  <2>2. CASE IsNumeric(types[c])
    <3>1. e[c] \in -Half .. Half - 1
      BY <2>2, ValuesFit DEF IsNumeric
    <3>2. QED  BY <2>1, <2>2, <3>1, WrapFits DEF CreateAttribute
  <2>3. CASE ~IsNumeric(types[c])
    BY <2>1, <2>3 DEF CreateAttribute
  <2>4. QED  BY <2>2, <2>3
<1>2. e = [c \in DOMAIN types |-> e[c]]
  BY DEF Elements, HasTypes, HasColumns
<1>3. QED  BY <1>1, <1>2 DEF CreateElement

-----------------------------------------------------------------------------
(* The order of the database.                                              *)

LEMMA CollatedDiffers ==
  /\ \A x \in Texts : Collated[x[1]] \in Nat
  /\ \A x, y \in Texts : Collated[x[1]] = Collated[y[1]] => x[1] = y[1]
<1>1. Collated \in [{x[1] : x \in Texts} -> Nat]
  BY TypedItemsAssumption
<1>2. \A v, w \in DOMAIN Collated : Collated[v] = Collated[w] => v = w
  BY TypedItemsAssumption
<1>3. \A x \in Texts : x[1] \in DOMAIN Collated
  BY <1>1
<1>4. QED  BY <1>1, <1>2, <1>3

LEMMA RankDiffers ==
  ASSUME NEW type \in Types, NEW v \in ColumnValues(type) \ {Null}, NEW w \in ColumnValues(type) \ {Null}
  PROVE  Rank(type, v) \in Int \X Int /\ (Rank(type, v) = Rank(type, w) => v = w)
<1>1. CASE type # "text"
  <2>1. v \in Int /\ w \in Int /\ v # Empty /\ w # Empty
    BY <1>1, ConstantsDiffer DEF ColumnValues, Types
  <2>2. Rank(type, v) = <<v, 0>> /\ Rank(type, w) = <<w, 0>>
    BY <1>1, <2>1 DEF Rank
  <2>3. QED  BY <2>1, <2>2
<1>2. CASE type = "text"
  <2>1. v \in Texts \cup {Empty} /\ w \in Texts \cup {Empty}
    BY <1>2 DEF ColumnValues
  <2>2. /\ Rank(type, v) = IF v = Empty THEN <<-1, 0>> ELSE <<Collated[v[1]], v[2]>>
        /\ Rank(type, w) = IF w = Empty THEN <<-1, 0>> ELSE <<Collated[w[1]], w[2]>>
    BY <1>2 DEF Rank
  <2>4. \A x \in Texts : Collated[x[1]] \in Nat
    BY CollatedDiffers
  <2>5. \A x, y \in Texts : Collated[x[1]] = Collated[y[1]] => x[1] = y[1]
    BY CollatedDiffers
  <2>6. Rank(type, v) \in Int \X Int
    BY <2>1, <2>2, <2>4, ConstantsDiffer
  <2>7. ASSUME Rank(type, v) = Rank(type, w)  PROVE v = w
    BY <2>1, <2>2, <2>4, <2>5, <2>7, ConstantsDiffer
  <2>8. QED  BY <2>6, <2>7
<1>3. QED  BY <1>1, <1>2

LEMMA DatabaseCompares ==
  ASSUME NEW type \in Types, NEW v \in ColumnValues(type) \ {Null}, NEW w \in ColumnValues(type) \ {Null}
  PROVE  Precedes(type, v, w) \/ v = w \/ Precedes(type, w, v)
<1> DEFINE a == Rank(type, v)
           b == Rank(type, w)
<1>1. a \in Int \X Int /\ b \in Int \X Int /\ (a = b => v = w)
  BY RankDiffers
<1>2. /\ Precedes(type, v, w) <=> a[1] < b[1] \/ (a[1] = b[1] /\ a[2] < b[2])
      /\ Precedes(type, w, v) <=> b[1] < a[1] \/ (b[1] = a[1] /\ b[2] < a[2])
  BY DEF Precedes
<1> HIDE DEF a, b
<1>3. a[1] = b[1] /\ a[2] = b[2] => a = b
  BY <1>1
<1>4. QED  BY <1>1, <1>2, <1>3

LEMMA DatabaseTotal ==
  ASSUME NEW types, NEW part, HasTypes(types, part), FitsInt(types, part),
         NEW e \in Elements(part), NEW f \in Elements(part)
  PROVE  GroupPrecedes(types, e, f) \/ e = f \/ GroupPrecedes(types, f, e)
<1>1. CASE e # f
  <2>1. PICK c \in DOMAIN types :
          e[c] # f[c] /\ \A b \in 1 .. c - 1 : b \in DOMAIN types /\ e[b] = f[b]
    BY <1>1, ElementsComparable, FirstDifference
  <2>2. Precedes(types[c], e[c], f[c]) \/ Precedes(types[c], f[c], e[c])
    BY <2>1, ValuesFit, DatabaseCompares
  <2>3. QED  BY <2>1, <2>2 DEF GroupPrecedes
<1>2. QED  BY <1>1

(* Where the program orders the values of the groups as the database does, *)
(* it orders the groups as the database does.                              *)
LEMMA ValuesAlike ==
  ASSUME HasTypes(job.groupTypes, "group"), FitsInt(job.groupTypes, "group"), OrderedAlike,
         NEW c \in DOMAIN job.groupTypes, NEW e \in Elements("group"), NEW f \in Elements("group"),
         Precedes(job.groupTypes[c], e[c], f[c])
  PROVE  CompareTo(job.groupTypes[c], e[c], f[c]) < 0
<1> DEFINE type == job.groupTypes[c]
           a == Rank(type, e[c])
           b == Rank(type, f[c])
<1>1. type \in Types /\ e[c] \in ColumnValues(type) \ {Null} /\ f[c] \in ColumnValues(type) \ {Null}
  BY ValuesFit
<1>2. e[c] \in Column("group", c) /\ f[c] \in Column("group", c)
  BY DEF Elements, Column
<1>3. a[1] < b[1] \/ (a[1] = b[1] /\ a[2] < b[2])
  BY <1>1 DEF Precedes
<1>4. CASE type \in {"int4", "int8"}
  <2>1. e[c] \in Int /\ f[c] \in Int /\ e[c] - f[c] \in -Half .. Half - 1
    BY <1>1, <1>4, ValuesFit, ConstantsDiffer DEF ColumnValues
  <2>2. a = <<e[c], 0>> /\ b = <<f[c], 0>>
    BY <1>4, <2>1, ConstantsDiffer DEF Rank
  <2>3. e[c] < f[c]
    BY <1>3, <2>1, <2>2
  <2>4. QED  BY <1>4, <2>1, <2>3, NumbersCompare
<1>5. CASE type = "int2"
  <2>1. e[c] \in 0 .. 99 /\ f[c] \in 0 .. 99 /\ e[c] # Empty /\ f[c] # Empty
    BY <1>1, <1>5, ConstantsDiffer DEF ColumnValues
  <2>2. a = <<e[c], 0>> /\ b = <<f[c], 0>>
    BY <1>5, <2>1 DEF Rank
  <2>3. e[c] < f[c]
    BY <1>3, <2>1, <2>2
  <2>4. e[c] < 10 <=> f[c] < 10
    BY <1>2, <1>5 DEF OrderedAlike
  <2>5. Digits(e[c]) < Digits(f[c]) /\ Digits(e[c]) \in Int /\ Digits(f[c]) \in Int
    BY <2>1, <2>3, <2>4, DigitsOrder
  <2>6. Bytes(type, e[c]) = <<Digits(e[c]), 0>> /\ Bytes(type, f[c]) = <<Digits(f[c]), 0>>
    BY <1>5, <2>1 DEF Bytes
  <2>7. CompareTo(type, e[c], f[c]) = Digits(e[c]) - Digits(f[c])
    BY <1>1, <1>5, <2>5, <2>6, BytesDiffer
  <2>8. QED  BY <2>5, <2>7
<1>6. CASE type = "text"
  <2>1. e[c] \in Texts \cup {Empty} /\ f[c] \in Texts \cup {Empty}
    BY <1>1, <1>6 DEF ColumnValues
  <2>2. /\ a = IF e[c] = Empty THEN <<-1, 0>> ELSE <<Collated[e[c][1]], e[c][2]>>
        /\ b = IF f[c] = Empty THEN <<-1, 0>> ELSE <<Collated[f[c][1]], f[c][2]>>
    BY <1>6 DEF Rank
  <2>3. /\ Bytes(type, e[c]) = IF e[c] = Empty THEN <<-1, 0>> ELSE e[c]
        /\ Bytes(type, f[c]) = IF f[c] = Empty THEN <<-1, 0>> ELSE f[c]
    BY <1>6 DEF Bytes
  <2>5. \A x \in Texts : Collated[x[1]] \in Nat
    BY CollatedDiffers
  <2>6. \A x, y \in Texts : Collated[x[1]] = Collated[y[1]] => x[1] = y[1]
    BY CollatedDiffers
  <2>7. e[c] # Empty /\ f[c] # Empty /\ f[c][1] < e[c][1] => Collated[f[c][1]] < Collated[e[c][1]]
    BY <1>2, <1>6 DEF OrderedAlike
  <2> HIDE DEF a, b, type
  <2>8. CompareTo(type, e[c], f[c]) =
          IF Bytes(type, e[c])[1] # Bytes(type, f[c])[1]
            THEN Bytes(type, e[c])[1] - Bytes(type, f[c])[1]
            ELSE Bytes(type, e[c])[2] - Bytes(type, f[c])[2]
    BY <1>1, <1>6, BytesDiffer
  <2>9. CASE e[c] = Empty
    <3>1. f[c] \in Texts
      BY <1>3, <2>1, <2>2, <2>9
    <3>2. QED  BY <2>3, <2>8, <2>9, <3>1, ConstantsDiffer DEF type
  <2>10. CASE e[c] # Empty
    <3>1. f[c] \in Texts /\ e[c] \in Texts
      BY <1>3, <2>1, <2>2, <2>5, <2>10
    <3>2. f[c] # Empty
      BY <3>1, ConstantsDiffer
    <3>3. /\ e[c][1] \in Nat /\ f[c][1] \in Nat /\ e[c][2] \in Nat /\ f[c][2] \in Nat
          /\ Collated[e[c][1]] \in Nat /\ Collated[f[c][1]] \in Nat
      BY <2>5, <3>1, ConstantsDiffer
    <3>4. \/ Collated[e[c][1]] < Collated[f[c][1]]
          \/ Collated[e[c][1]] = Collated[f[c][1]] /\ e[c][2] < f[c][2]
      BY <1>3, <2>2, <2>10, <3>2
    <3>5. \/ e[c][1] < f[c][1]
          \/ e[c][1] = f[c][1] /\ e[c][2] < f[c][2]
      BY <2>6, <2>7, <2>10, <3>1, <3>2, <3>3, <3>4
    <3>6. QED  BY <2>3, <2>8, <2>10, <3>2, <3>3, <3>5 DEF type
  <2>11. QED  BY <2>9, <2>10 DEF type
<1>7. QED  BY <1>1, <1>4, <1>5, <1>6 DEF Types

LEMMA GroupsAlike ==
  ASSUME HasTypes(job.groupTypes, "group"), FitsInt(job.groupTypes, "group"), OrderedAlike,
         NEW e \in Elements("group"), NEW f \in Elements("group"),
         GroupPrecedes(job.groupTypes, e, f)
  PROVE  LessItem(job.groupTypes, e, f)
<1>1. PICK c \in DOMAIN job.groupTypes :
        /\ Precedes(job.groupTypes[c], e[c], f[c])
        /\ \A b \in 1 .. c - 1 : e[b] = f[b]
  BY DEF GroupPrecedes
<1>2. CompareTo(job.groupTypes[c], e[c], f[c]) < 0
  BY <1>1, ValuesAlike
<1>3. Comparable(job.groupTypes, Elements("group"))
  BY ElementsComparable
<1>4. c \in 1 .. Len(job.groupTypes)
  BY DEF HasTypes
<1>5. QED  BY <1>1, <1>2, <1>3, <1>4, LessIfLess

-----------------------------------------------------------------------------
(* The groups: gs are those of the first n rows, in their order.           *)
GroupsOf(gs, n) ==
  /\ gs \in Seq(Elements("group"))
  /\ Len(gs) = 0 <=> n = 0
  /\ n > 0 => gs[Len(gs)] = job.rows[n].group
  /\ \A k \in 1 .. Len(gs) : \E i \in 1 .. n : gs[k] = job.rows[i].group
  /\ \A i \in 1 .. n : \E k \in 1 .. Len(gs) : gs[k] = job.rows[i].group
  /\ \A k, l \in 1 .. Len(gs) :
       k < l => gs[k] # gs[l] /\ GroupPrecedes(job.groupTypes, gs[k], gs[l])

LEMMA GroupAdded ==
  ASSUME HasTypes(job.groupTypes, "group"), FitsInt(job.groupTypes, "group"), OrderedByGroup(job),
         DOMAIN job.rows = 1 .. Len(job.rows), Len(job.rows) \in Nat,
         at \in Nat, at < Len(job.rows), GroupsOf(groups, at)
  PROVE  GroupsOf(GroupOf(job.rows[at + 1].group), at + 1)
<1> DEFINE g == job.rows[at + 1].group
<1>1. g \in Elements("group") /\ \A i \in 1 .. at : job.rows[i].group \in Elements("group")
  BY DEF Elements
<1>2. groups \in Seq(Elements("group")) /\ Len(groups) \in Nat
  BY DEF GroupsOf
<1>3. groups # <<>> => Len(groups) \in 1 .. Len(groups) /\ groups[Len(groups)] \in Elements("group")
  BY <1>2
<1>4. groups # <<>> => (SameItem(job.groupTypes, groups[Len(groups)], g) <=> groups[Len(groups)] = g)
  BY <1>1, <1>3, ElementsComparable, SameIsEqual
<1>5. groups = <<>> <=> at = 0
  BY <1>2 DEF GroupsOf
<1>6. CASE groups # <<>> /\ groups[Len(groups)] = g
  <2>1. GroupOf(g) = groups
    BY <1>4, <1>6 DEF GroupOf
  <2>2. \A i \in 1 .. at + 1 : i \in 1 .. at \/ i = at + 1
    OBVIOUS
  <2>3. \A i \in 1 .. at : i \in 1 .. at + 1
    OBVIOUS
  <2>4. ASSUME NEW k \in 1 .. Len(groups)
        PROVE  \E i \in 1 .. at + 1 : groups[k] = job.rows[i].group
    BY <2>3 DEF GroupsOf
  <2>5. ASSUME NEW i \in 1 .. at + 1
        PROVE  \E k \in 1 .. Len(groups) : groups[k] = job.rows[i].group
    BY <1>3, <1>6, <2>2 DEF GroupsOf
  <2>6. Len(groups) # 0 /\ at + 1 # 0
    BY <1>2, <1>6
  <2>7. QED  BY <1>2, <1>6, <2>1, <2>4, <2>5, <2>6 DEF GroupsOf
<1>7. CASE ~(groups # <<>> /\ groups[Len(groups)] = g)
  <2> DEFINE gs == Append(groups, g)
  <2>1. GroupOf(g) = gs
    BY <1>4, <1>7 DEF GroupOf
  <2>2. ASSUME NEW i \in 1 .. at
        PROVE  job.rows[i].group # g /\ GroupPrecedes(job.groupTypes, job.rows[i].group, g)
    <3>1. ~GroupPrecedes(job.groupTypes, g, job.rows[i].group)
      <4>1. i \in DOMAIN job.rows /\ at + 1 \in DOMAIN job.rows /\ i < at + 1
        OBVIOUS
      <4>2. QED  BY <4>1 DEF OrderedByGroup
    <3>2. job.rows[at].group # g /\ job.rows[at].group \in Elements("group")
      BY <1>1, <1>5, <1>7 DEF GroupsOf
    <3>3. GroupPrecedes(job.groupTypes, job.rows[at].group, g)
      <4>1. ~GroupPrecedes(job.groupTypes, g, job.rows[at].group)
        BY DEF OrderedByGroup
      <4>2. QED  BY <1>1, <3>2, <4>1, DatabaseTotal
    <3>4. ASSUME job.rows[i].group = g  PROVE FALSE
      <4>1. i < at
        BY <3>2, <3>4
      <4>2. ~GroupPrecedes(job.groupTypes, job.rows[at].group, job.rows[i].group)
        BY <4>1 DEF OrderedByGroup
      <4>3. QED  BY <3>3, <3>4, <4>2
    <3>5. QED  BY <1>1, <3>1, <3>4, DatabaseTotal
  <2>3. /\ gs \in Seq(Elements("group")) /\ Len(gs) = Len(groups) + 1
        /\ gs[Len(groups) + 1] = g /\ \A k \in 1 .. Len(groups) : gs[k] = groups[k]
    BY <1>1, <1>2
  <2> HIDE DEF gs
  <2>4. /\ \A k \in 1 .. Len(gs) : k \in 1 .. Len(groups) \/ k = Len(groups) + 1
        /\ \A k \in 1 .. Len(groups) : k \in 1 .. Len(gs)
        /\ Len(groups) + 1 \in 1 .. Len(gs)
        /\ \A i \in 1 .. at + 1 : i \in 1 .. at \/ i = at + 1
        /\ \A i \in 1 .. at : i \in 1 .. at + 1
    BY <1>2, <2>3
  <2>5. ASSUME NEW k \in 1 .. Len(gs)  PROVE \E i \in 1 .. at + 1 : gs[k] = job.rows[i].group
    <3>1. CASE k = Len(groups) + 1
      BY <2>3, <3>1
    <3>2. CASE k \in 1 .. Len(groups)
      <4>1. PICK i \in 1 .. at : groups[k] = job.rows[i].group
        BY <3>2 DEF GroupsOf
      <4>2. QED  BY <2>3, <2>4, <3>2, <4>1
    <3>3. QED  BY <2>4, <3>1, <3>2
  <2>6. ASSUME NEW i \in 1 .. at + 1  PROVE \E k \in 1 .. Len(gs) : gs[k] = job.rows[i].group
    <3>1. CASE i = at + 1
      BY <2>3, <2>4, <3>1
    <3>2. CASE i \in 1 .. at
      <4>1. PICK k \in 1 .. Len(groups) : groups[k] = job.rows[i].group
        BY <3>2 DEF GroupsOf
      <4>2. QED  BY <2>3, <2>4, <4>1
    <3>3. QED  BY <2>4, <3>1, <3>2
  <2>7. ASSUME NEW k \in 1 .. Len(gs), NEW l \in 1 .. Len(gs), k < l
        PROVE  gs[k] # gs[l] /\ GroupPrecedes(job.groupTypes, gs[k], gs[l])
    <3>1. k \in 1 .. Len(groups) /\ gs[k] = groups[k]
      BY <1>2, <2>3, <2>7
    <3>2. CASE l \in 1 .. Len(groups)
      BY <2>3, <2>7, <3>1, <3>2 DEF GroupsOf
    <3>3. CASE l = Len(groups) + 1
      <4>1. PICK i \in 1 .. at : groups[k] = job.rows[i].group
        BY <3>1 DEF GroupsOf
      <4>2. QED  BY <2>2, <2>3, <3>1, <3>3, <4>1
    <3>4. QED  BY <2>4, <3>2, <3>3
  <2>8. Len(gs) # 0 /\ at + 1 # 0 /\ gs[Len(gs)] = g
    BY <1>2, <2>3
  <2>9. QED  BY <2>1, <2>3, <2>5, <2>6, <2>7, <2>8 DEF GroupsOf
<1>8. QED  BY <1>6, <1>7

(* The gid of a group is its number.                                       *)
LEMMA GroupsCounted ==
  ASSUME NEW n \in Nat, NEW gs, GroupsOf(gs, n)
  PROVE  GidOf(n) = Len(gs)
<1> DEFINE G == {job.rows[k].group : k \in 1 .. n}
<1>1. gs \in Seq(Elements("group")) /\ Len(gs) \in Nat
  BY DEF GroupsOf
<1>2. gs \in [1 .. Len(gs) -> G]
  <2>1. ASSUME NEW k \in 1 .. Len(gs)  PROVE gs[k] \in G
    BY DEF GroupsOf
  <2>2. gs = [k \in 1 .. Len(gs) |-> gs[k]]
    BY <1>1
  <2> HIDE DEF G
  <2>3. QED  BY <2>1, <2>2
<1>3. \A x \in G : \E k \in 1 .. Len(gs) : gs[k] = x
  <2>1. ASSUME NEW i \in 1 .. n  PROVE \E k \in 1 .. Len(gs) : gs[k] = job.rows[i].group
    BY DEF GroupsOf
  <2>2. QED  BY <2>1
<1>4. ASSUME NEW k \in 1 .. Len(gs), NEW l \in 1 .. Len(gs), gs[k] = gs[l]  PROVE k = l
  <2>1. ~(k < l) /\ ~(l < k)
    BY <1>4 DEF GroupsOf
  <2>2. QED  BY <1>1, <2>1
<1> HIDE DEF G
<1>5. gs \in Bijection(1 .. Len(gs), G)
  BY <1>2, <1>3, <1>4 DEF Bijection, Injection, Surjection, IsInjective
<1>6. 1 \in Int /\ Len(gs) \in Int
  BY <1>1
<1>7. IsFiniteSet(1 .. Len(gs)) /\ Cardinality(1 .. Len(gs)) = Len(gs)
  <2>1. /\ IsFiniteSet(1 .. Len(gs))
        /\ Cardinality(1 .. Len(gs)) = IF 1 > Len(gs) THEN 0 ELSE Len(gs) - 1 + 1
    BY <1>6, FS_Interval
  <2>2. QED  BY <1>1, <2>1
<1>8. Cardinality(G) = Len(gs)
  BY <1>5, <1>7, FS_Bijection DEF ExistsBijection
<1>9. QED  BY <1>8 DEF G, GidOf

-----------------------------------------------------------------------------
(* The map of the miners.                                                  *)
NodesOf(I) == Seq([item : I, gids : SUBSET Nat])

Between(m, p, node) == SubSeq(m, 1, p) \o <<node>> \o SubSeq(m, p + 1, Len(m))
WithGid(m, p, gid) == [m EXCEPT ![p].gids = @ \cup {gid}]

IsBetween(t, m, n, p, node) ==
  /\ Len(t) = n + 1
  /\ \A k \in 1 .. p : t[k] = m[k]
  /\ t[p + 1] = node
  /\ \A k \in p + 1 .. n : t[k + 1] = m[k]

LEMMA NodeAdded ==
  ASSUME NEW S, NEW m \in Seq(S), NEW node \in S, NEW p \in 0 .. Len(m),
         NEW t, t = Between(m, p, node)
  PROVE  t \in Seq(S) /\ IsBetween(t, m, Len(m), p, node)
<1> DEFINE a == SubSeq(m, 1, p)
           b == SubSeq(m, p + 1, Len(m))
<1>1. Len(m) \in Nat /\ p \in Nat
  OBVIOUS
<1>2. a \in Seq(S) /\ Len(a) = p /\ \A k \in 1 .. p : a[k] = m[k]
  BY <1>1
<1>3. b \in Seq(S) /\ Len(b) = Len(m) - p /\ \A k \in 1 .. Len(m) - p : b[k] = m[p + k]
  BY <1>1
<1> DEFINE c == a \o <<node>>
<1>4. t = c \o b
  BY DEF Between
<1> HIDE DEF a, b
<1>5. /\ c \in Seq(S) /\ Len(c) = p + 1
      /\ c[p + 1] = node /\ \A k \in 1 .. p : c[k] = m[k]
  BY <1>1, <1>2
<1> HIDE DEF c
<1>6. /\ t \in Seq(S) /\ Len(t) = p + 1 + (Len(m) - p)
      /\ \A k \in 1 .. p + 1 : t[k] = c[k]
      /\ \A k \in 1 .. Len(m) - p : t[p + 1 + k] = b[k]
  <2>1. Len(b) = Len(m) - p
    BY <1>3
  <2>2. /\ c \o b \in Seq(S) /\ Len(c \o b) = Len(c) + Len(b)
        /\ \A i \in 1 .. Len(c) + Len(b) : (c \o b)[i] = IF i <= Len(c) THEN c[i] ELSE b[i - Len(c)]
    BY <1>3, <1>5, ConcatProperties
  <2>3. ASSUME NEW k \in 1 .. p + 1  PROVE t[k] = c[k]
    <3>1. k \in 1 .. (p + 1) + (Len(m) - p) /\ k <= p + 1
      BY <1>1
    <3>2. QED  BY <1>4, <1>5, <2>1, <2>2, <3>1
  <2>4. ASSUME NEW k \in 1 .. Len(m) - p  PROVE t[p + 1 + k] = b[k]
    <3>1. /\ p + 1 + k \in 1 .. (p + 1) + (Len(m) - p) /\ ~(p + 1 + k <= p + 1)
          /\ (p + 1 + k) - (p + 1) = k
      BY <1>1
    <3>2. (c \o b)[p + 1 + k] = b[(p + 1 + k) - (p + 1)]
      BY <1>5, <2>1, <2>2, <3>1
    <3>3. QED  BY <1>4, <3>1, <3>2
  <2>5. QED  BY <1>4, <1>5, <2>1, <2>2, <2>3, <2>4
<1>7. ASSUME NEW k \in p + 1 .. Len(m)  PROVE t[k + 1] = m[k]
  <2>1. k - p \in 1 .. Len(m) - p /\ p + 1 + (k - p) = k + 1 /\ p + (k - p) = k
    BY <1>1
  <2>2. t[p + 1 + (k - p)] = b[k - p] /\ b[k - p] = m[p + (k - p)]
    BY <1>3, <1>6, <2>1
  <2>3. QED  BY <2>1, <2>2
<1>8. t[p + 1] = node /\ \A k \in 1 .. p : t[k] = m[k]
  <2>1. p + 1 \in 1 .. p + 1 /\ \A k \in 1 .. p : k \in 1 .. p + 1
    BY <1>1
  <2>2. QED  BY <1>5, <1>6, <2>1
<1>9. p + 1 + (Len(m) - p) = Len(m) + 1
  BY <1>1
<1>10. QED  BY <1>6, <1>7, <1>8, <1>9 DEF IsBetween

LEMMA NodeChanged ==
  ASSUME NEW I, NEW m \in NodesOf(I), NEW p \in 1 .. Len(m), NEW gid \in Nat,
         NEW t, t = WithGid(m, p, gid)
  PROVE  /\ t \in NodesOf(I) /\ Len(t) = Len(m)
         /\ \A k \in 1 .. Len(m) : t[k].item = m[k].item
         /\ t[p].gids = m[p].gids \cup {gid}
         /\ \A k \in 1 .. Len(m) : k # p => t[k].gids = m[k].gids
<1> DEFINE node == [m[p] EXCEPT !.gids = @ \cup {gid}]
<1>1. t = [m EXCEPT ![p] = node]
  BY DEF WithGid
<1>2. m \in Seq([item : I, gids : SUBSET Nat])
  BY DEF NodesOf
<1>3. m[p] \in [item : I, gids : SUBSET Nat]
  BY <1>2, ElementOfSeq
<1>4. /\ node \in [item : I, gids : SUBSET Nat]
      /\ node.item = m[p].item /\ node.gids = m[p].gids \cup {gid}
  BY <1>3
<1> HIDE DEF node
<1>5. /\ t \in Seq([item : I, gids : SUBSET Nat]) /\ Len(t) = Len(m)
      /\ t[p] = node /\ \A k \in 1 .. Len(m) : k # p => t[k] = m[k]
  BY <1>1, <1>2, <1>4
<1>6. QED  BY <1>4, <1>5 DEF NodesOf

LEMMA NodeTypes ==
  ASSUME NEW I, NEW m \in NodesOf(I)
  PROVE  /\ Len(m) \in Nat
         /\ \A k \in 1 .. Len(m) : m[k].item \in I /\ m[k].gids \in SUBSET Nat
<1>1. m \in Seq([item : I, gids : SUBSET Nat])
  BY DEF NodesOf
<1>2. \A k \in 1 .. Len(m) : m[k] \in [item : I, gids : SUBSET Nat]
  BY <1>1, ElementOfSeq
<1>3. Len(m) \in Nat
  BY <1>1
<1>4. QED  BY <1>2, <1>3

(* The gids of the groups in which an item occurs in the first n rows.     *)
GidsOf(item, n) == {GidOf(i) : i \in {k \in 1 .. n : job.rows[k].item = item}}

LEMMA GidsGrow ==
  ASSUME NEW n \in Nat, NEW x
  PROVE  /\ job.rows[n + 1].item = x => GidsOf(x, n + 1) = GidsOf(x, n) \cup {GidOf(n + 1)}
         /\ job.rows[n + 1].item # x => GidsOf(x, n + 1) = GidsOf(x, n)
         /\ (\A i \in 1 .. n : job.rows[i].item # x) => GidsOf(x, n) = {}
<1>1. \A i \in 1 .. n + 1 : i \in 1 .. n \/ i = n + 1
  OBVIOUS
<1>2. \A i \in 1 .. n : i \in 1 .. n + 1
  OBVIOUS
<1>3. n + 1 \in 1 .. n + 1
  OBVIOUS
<1>4. QED  BY <1>1, <1>2, <1>3 DEF GidsOf

(* m is the map of the first n rows.                                       *)
MapOf(m, n) ==
  /\ m \in NodesOf(Elements("item"))
  /\ \A k \in 1 .. Len(m) : \E i \in 1 .. n : job.rows[i].item = m[k].item
  /\ \A i \in 1 .. n : \E k \in 1 .. Len(m) : m[k].item = job.rows[i].item
  /\ \A k, l \in 1 .. Len(m) : k < l => LessItem(job.itemTypes, m[k].item, m[l].item)
  /\ \A k \in 1 .. Len(m) : m[k].gids = GidsOf(m[k].item, n)

LEMMA ItemFound ==
  ASSUME Comparable(job.itemTypes, Elements("item")), at \in Nat,
         job.rows[at + 1].item \in Elements("item"), MapOf(map, at), GidOf(at + 1) \in Nat,
         NEW n \in Nat, Len(map) = n, NEW p \in 1 .. n, map[p].item = job.rows[at + 1].item
  PROVE  MapOf(WithGid(map, p, GidOf(at + 1)), at + 1)
<1> DEFINE x == job.rows[at + 1].item
           m == WithGid(map, p, GidOf(at + 1))
<1>1. map \in NodesOf(Elements("item")) /\ \A k \in 1 .. n : map[k].item \in Elements("item")
  BY NodeTypes DEF MapOf
<1>2. /\ m \in NodesOf(Elements("item")) /\ Len(m) = n
      /\ \A k \in 1 .. n : m[k].item = map[k].item
      /\ m[p].gids = map[p].gids \cup {GidOf(at + 1)}
      /\ \A k \in 1 .. n : k # p => m[k].gids = map[k].gids
  <2> DEFINE gid == GidOf(at + 1)
  <2>1. gid \in Nat
    OBVIOUS
  <2>2. m = WithGid(map, p, gid)
    OBVIOUS
  <2> HIDE DEF m, gid
  <2>3. /\ m \in NodesOf(Elements("item")) /\ Len(m) = n
        /\ \A k \in 1 .. n : m[k].item = map[k].item
        /\ m[p].gids = map[p].gids \cup {gid}
        /\ \A k \in 1 .. n : k # p => m[k].gids = map[k].gids
    <3>1. p \in 1 .. Len(map)
      OBVIOUS
    <3>2. /\ m \in NodesOf(Elements("item")) /\ Len(m) = Len(map)
          /\ \A k \in 1 .. Len(map) : m[k].item = map[k].item
          /\ m[p].gids = map[p].gids \cup {gid}
          /\ \A k \in 1 .. Len(map) : k # p => m[k].gids = map[k].gids
      BY <1>1, <2>1, <2>2, <3>1, NodeChanged
    <3>3. QED  BY <3>2
  <2>4. QED  BY <2>3 DEF gid
<1> HIDE DEF m, x
<1>3. ASSUME NEW k \in 1 .. n  PROVE \E i \in 1 .. at + 1 : job.rows[i].item = m[k].item
  <2>1. PICK i \in 1 .. at : job.rows[i].item = map[k].item
    BY DEF MapOf
  <2>2. i \in 1 .. at + 1
    OBVIOUS
  <2>3. QED  BY <1>2, <2>1, <2>2
<1>4. ASSUME NEW i \in 1 .. at + 1  PROVE \E k \in 1 .. n : m[k].item = job.rows[i].item
  <2>1. CASE i = at + 1
    BY <1>2, <2>1
  <2>2. CASE i \in 1 .. at
    <3>1. PICK k \in 1 .. n : map[k].item = job.rows[i].item
      BY <2>2 DEF MapOf
    <3>2. QED  BY <1>2, <3>1
  <2>3. QED  BY <2>1, <2>2
<1>5. ASSUME NEW k \in 1 .. n, NEW l \in 1 .. n, k < l
      PROVE  LessItem(job.itemTypes, m[k].item, m[l].item)
  <2>1. LessItem(job.itemTypes, map[k].item, map[l].item)
    BY <1>5 DEF MapOf
  <2>2. QED  BY <1>2, <2>1
<1>6. ASSUME NEW k \in 1 .. n  PROVE m[k].gids = GidsOf(m[k].item, at + 1)
  <2>1. map[k].gids = GidsOf(map[k].item, at)
    BY DEF MapOf
  <2>2. CASE k = p
    <3>1. GidsOf(map[p].item, at + 1) = GidsOf(map[p].item, at) \cup {GidOf(at + 1)}
      BY GidsGrow
    <3>2. QED  BY <1>2, <2>1, <2>2, <3>1
  <2>3. CASE k # p
    <3>1. LessItem(job.itemTypes, map[k].item, map[p].item) \/ LessItem(job.itemTypes, map[p].item, map[k].item)
      <4>1. k < p \/ p < k
        BY <2>3
      <4>2. QED  BY <4>1 DEF MapOf
    <3>2. map[k].item # map[p].item
      BY <1>1, <3>1, LessIsStrict
    <3>3. GidsOf(map[k].item, at + 1) = GidsOf(map[k].item, at)
      BY <3>2, GidsGrow
    <3>4. QED  BY <1>2, <2>1, <2>3, <3>3
  <2>4. QED  BY <2>2, <2>3
<1>7. MapOf(m, at + 1)
  BY <1>2, <1>3, <1>4, <1>5, <1>6 DEF MapOf
<1>8. QED  BY <1>7 DEF m

LEMMA ItemAdded ==
  ASSUME Comparable(job.itemTypes, Elements("item")), at \in Nat,
         job.rows[at + 1].item \in Elements("item"), MapOf(map, at), GidOf(at + 1) \in Nat,
         NEW n \in Nat, Len(map) = n, NEW p \in 0 .. n,
         p > 0 => LessItem(job.itemTypes, map[p].item, job.rows[at + 1].item),
         p < n => LessItem(job.itemTypes, job.rows[at + 1].item, map[p + 1].item),
         NEW m, m = Between(map, p, [item |-> job.rows[at + 1].item, gids |-> {GidOf(at + 1)}])
  PROVE  MapOf(m, at + 1)
<1> DEFINE x == job.rows[at + 1].item
           node == [item |-> x, gids |-> {GidOf(at + 1)}]
<1>1. map \in NodesOf(Elements("item")) /\ \A k \in 1 .. n : map[k].item \in Elements("item")
  BY NodeTypes DEF MapOf
<1>2. node \in [item : Elements("item"), gids : SUBSET Nat]
  OBVIOUS
<1>3. /\ m \in NodesOf(Elements("item")) /\ Len(m) = n + 1
      /\ \A k \in 1 .. p : m[k] = map[k]
      /\ m[p + 1].item = x /\ m[p + 1].gids = {GidOf(at + 1)}
      /\ \A k \in p + 1 .. n : m[k + 1] = map[k]
  <2> HIDE DEF x
  <2>1. m = Between(map, p, node)
    BY DEF x
  <2> HIDE DEF node
  <2>2. map \in Seq([item : Elements("item"), gids : SUBSET Nat])
    BY <1>1 DEF NodesOf
  <2>3. /\ m \in NodesOf(Elements("item")) /\ Len(m) = n + 1
        /\ \A k \in 1 .. p : m[k] = map[k]
        /\ m[p + 1] = node
        /\ \A k \in p + 1 .. n : m[k + 1] = map[k]
    <3> DEFINE S == [item : Elements("item"), gids : SUBSET Nat]
    <3>1. map \in Seq(S) /\ node \in S
      BY <1>2, <2>2 DEF node, x
    <3> HIDE DEF S
    <3>2. m \in Seq(S) /\ IsBetween(m, map, Len(map), p, node)
      BY <2>1, <3>1, NodeAdded
    <3>3. QED  BY <3>2 DEF NodesOf, S, IsBetween
  <2>4. node.item = x /\ node.gids = {GidOf(at + 1)}
    BY DEF node
  <2>5. QED  BY <2>3, <2>4
<1>4. ASSUME NEW k \in 1 .. p  PROVE LessItem(job.itemTypes, map[k].item, x)
  <2>1. CASE k = p
    BY <2>1
  <2>2. CASE k # p
    <3>2. p > 0 /\ k \in 1 .. n /\ p \in 1 .. n /\ k < p
      BY <2>2
    <3>1. LessItem(job.itemTypes, map[k].item, map[p].item)
      BY <3>2 DEF MapOf
    <3>3. QED  BY <1>1, <3>1, <3>2, LessIsTransitive
  <2>3. QED  BY <2>1, <2>2
<1>5. ASSUME NEW k \in p + 1 .. n  PROVE LessItem(job.itemTypes, x, map[k].item)
  <2>1. p < n /\ k \in 1 .. n /\ p + 1 \in 1 .. n
    BY <1>1
  <2>2. CASE k = p + 1
    BY <2>1, <2>2
  <2>3. CASE k # p + 1
    <3>1. LessItem(job.itemTypes, map[p + 1].item, map[k].item)
      <4>1. p + 1 < k
        BY <2>3
      <4>2. QED  BY <2>1, <4>1 DEF MapOf
    <3>2. QED  BY <1>1, <2>1, <3>1, LessIsTransitive
  <2>4. QED  BY <2>2, <2>3
<1>6. ASSUME NEW k \in 1 .. n  PROVE map[k].item # x
  <2>1. LessItem(job.itemTypes, map[k].item, x) \/ LessItem(job.itemTypes, x, map[k].item)
    BY <1>1, <1>4, <1>5
  <2>2. QED  BY <1>1, <2>1, LessIsStrict
<1> HIDE DEF x
(* A node of m is the new one or one of the map, in the same order.        *)
<1>7. ASSUME NEW k \in 1 .. n + 1
      PROVE  \/ k \in 1 .. p /\ k \in 1 .. n /\ m[k] = map[k]
             \/ k = p + 1
             \/ k - 1 \in p + 1 .. n /\ k - 1 \in 1 .. n /\ m[k] = map[k - 1]
  <2>1. CASE k > p + 1
    <3>1. k - 1 \in p + 1 .. n /\ k - 1 + 1 = k /\ k - 1 \in 1 .. n
      BY <2>1
    <3>2. m[k - 1 + 1] = map[k - 1]
      BY <1>3, <3>1
    <3>3. QED  BY <3>1, <3>2
  <2>2. CASE k <= p
    <3>1. k \in 1 .. p /\ k \in 1 .. n
      BY <2>2
    <3>2. QED  BY <1>3, <3>1
  <2>3. QED  BY <1>1, <1>3, <2>1, <2>2
<1>8. /\ \A k \in 1 .. p : k \in 1 .. n + 1
      /\ p + 1 \in 1 .. n + 1
      /\ \A k \in p + 1 .. n : k + 1 \in 1 .. n + 1
      /\ \A k \in 1 .. n : k \in 1 .. p \/ k \in p + 1 .. n
      /\ \A i \in 1 .. at : i \in 1 .. at + 1
      /\ \A i \in 1 .. at + 1 : i \in 1 .. at \/ i = at + 1
      /\ at + 1 \in 1 .. at + 1
  OBVIOUS
<1>9. ASSUME NEW k \in 1 .. n + 1  PROVE \E i \in 1 .. at + 1 : job.rows[i].item = m[k].item
  <2>1. CASE k = p + 1
    BY <1>3, <1>8, <2>1 DEF x
  <2>2. ASSUME NEW l \in 1 .. n, m[k] = map[l]
        PROVE  \E i \in 1 .. at + 1 : job.rows[i].item = m[k].item
    <3>1. PICK i \in 1 .. at : job.rows[i].item = map[l].item
      BY DEF MapOf
    <3>2. QED  BY <1>8, <2>2, <3>1
  <2>3. QED  BY <1>7, <2>1, <2>2
<1>10. ASSUME NEW i \in 1 .. at + 1  PROVE \E k \in 1 .. n + 1 : m[k].item = job.rows[i].item
  <2>1. CASE i = at + 1
    BY <1>3, <1>8, <2>1 DEF x
  <2>2. CASE i \in 1 .. at
    <3>1. PICK k \in 1 .. n : map[k].item = job.rows[i].item
      BY <2>2 DEF MapOf
    <3>2. CASE k \in 1 .. p
      BY <1>3, <1>8, <3>1, <3>2
    <3>3. CASE k \in p + 1 .. n
      <4>1. k + 1 \in 1 .. n + 1 /\ m[k + 1] = map[k]
        BY <1>3, <1>8, <3>3
      <4>2. QED  BY <3>1, <4>1
    <3>4. QED  BY <1>8, <3>2, <3>3
  <2>3. QED  BY <1>8, <2>1, <2>2
<1>11. ASSUME NEW k \in 1 .. n + 1, NEW l \in 1 .. n + 1, k < l
       PROVE  LessItem(job.itemTypes, m[k].item, m[l].item)
  <2>1. CASE k = p + 1
    <3>1. l - 1 \in p + 1 .. n /\ m[l] = map[l - 1]
      <4>1. l # p + 1 /\ l \notin 1 .. p
        BY <1>11, <2>1
      <4>2. QED  BY <1>7, <4>1
    <3>2. QED  BY <1>3, <1>5, <2>1, <3>1 DEF x
  <2>2. CASE l = p + 1
    <3>1. k \in 1 .. p /\ m[k] = map[k]
      <4>1. k # p + 1 /\ k - 1 \notin p + 1 .. n
        BY <1>11, <2>2
      <4>2. QED  BY <1>7, <4>1
    <3>2. QED  BY <1>3, <1>4, <2>2, <3>1 DEF x
  <2>3. CASE k # p + 1 /\ l # p + 1
    <3>1. PICK a \in 1 .. n : m[k] = map[a] /\ ((k <= p /\ a = k) \/ (k > p + 1 /\ a = k - 1))
      <4>1. CASE k \in 1 .. p /\ k \in 1 .. n /\ m[k] = map[k]
        BY <4>1
      <4>2. CASE k - 1 \in p + 1 .. n /\ k - 1 \in 1 .. n /\ m[k] = map[k - 1]
        <5>1. k > p + 1
          BY <4>2
        <5>2. QED  BY <4>2, <5>1
      <4>3. QED  BY <1>7, <2>3, <4>1, <4>2
    <3>2. PICK b \in 1 .. n : m[l] = map[b] /\ ((l <= p /\ b = l) \/ (l > p + 1 /\ b = l - 1))
      <4>1. CASE l \in 1 .. p /\ l \in 1 .. n /\ m[l] = map[l]
        BY <4>1
      <4>2. CASE l - 1 \in p + 1 .. n /\ l - 1 \in 1 .. n /\ m[l] = map[l - 1]
        <5>1. l > p + 1
          BY <4>2
        <5>2. QED  BY <4>2, <5>1
      <4>3. QED  BY <1>7, <2>3, <4>1, <4>2
    <3>3. a < b
      BY <1>11, <3>1, <3>2
    <3>4. LessItem(job.itemTypes, map[a].item, map[b].item)
      BY <3>3 DEF MapOf
    <3>5. QED  BY <3>1, <3>2, <3>4
  <2>4. QED  BY <2>1, <2>2, <2>3
<1>12. ASSUME NEW k \in 1 .. n + 1  PROVE m[k].gids = GidsOf(m[k].item, at + 1)
  <2>1. CASE k = p + 1
    <3>1. \A i \in 1 .. at : job.rows[i].item # x
      <4>1. ASSUME NEW i \in 1 .. at, job.rows[i].item = x  PROVE FALSE
        <5>1. PICK l \in 1 .. n : map[l].item = job.rows[i].item
          BY DEF MapOf
        <5>2. QED  BY <1>6, <4>1, <5>1
      <4>2. QED  BY <4>1
    <3>2. GidsOf(x, at) = {} /\ GidsOf(x, at + 1) = GidsOf(x, at) \cup {GidOf(at + 1)}
      BY <3>1, GidsGrow DEF x
    <3>3. QED  BY <1>3, <2>1, <3>2
  <2>2. ASSUME NEW l \in 1 .. n, m[k] = map[l]  PROVE m[k].gids = GidsOf(m[k].item, at + 1)
    <3>1. map[l].gids = GidsOf(map[l].item, at) /\ job.rows[at + 1].item # map[l].item
      BY <1>6 DEF MapOf, x
    <3>2. QED  BY <2>2, <3>1, GidsGrow
  <2>3. CASE k \in 1 .. p /\ k \in 1 .. n /\ m[k] = map[k]
    BY <2>2, <2>3
  <2>4. CASE k - 1 \in p + 1 .. n /\ k - 1 \in 1 .. n /\ m[k] = map[k - 1]
    BY <2>2, <2>4
  <2>5. \/ k \in 1 .. p /\ k \in 1 .. n /\ m[k] = map[k]
        \/ k = p + 1
        \/ k - 1 \in p + 1 .. n /\ k - 1 \in 1 .. n /\ m[k] = map[k - 1]
    BY <1>7
  <2>6. QED  BY <2>1, <2>3, <2>4, <2>5
<1>13. QED  BY <1>3, <1>9, <1>10, <1>11, <1>12 DEF MapOf

(* Wherever the search ends, the item gets its place and its group.        *)
LEMMA ItemInserted ==
  ASSUME Comparable(job.itemTypes, Elements("item")), at \in Nat,
         job.rows[at + 1].item \in Elements("item"), MapOf(map, at), GidOf(at + 1) \in Nat,
         NEW p \in LowerBound(job.rows[at + 1].item)
  PROVE  MapOf(Inserted(job.rows[at + 1].item, GidOf(at + 1), p), at + 1)
<1> DEFINE x == job.rows[at + 1].item
           gid == GidOf(at + 1)
<1>1. map \in NodesOf(Elements("item"))
  BY DEF MapOf
<1>2. Len(map) \in Nat /\ \A k \in 1 .. Len(map) : map[k].item \in Elements("item")
  BY <1>1, NodeTypes
<1>3. /\ p \in 0 .. Len(map)
      /\ p > 0 => LessItem(job.itemTypes, map[p].item, x)
      /\ p < Len(map) => ~LessItem(job.itemTypes, map[p + 1].item, x)
  BY DEF LowerBound
<1>4. CASE p < Len(map) /\ ~LessItem(job.itemTypes, x, map[p + 1].item)
  <2>1. p + 1 \in 1 .. Len(map)
    BY <1>2, <1>3, <1>4
  <2>2. map[p + 1].item = x
    BY <1>2, <1>3, <1>4, <2>1, LessIsTotal
  <2>3. Inserted(x, gid, p) = WithGid(map, p + 1, gid)
    BY <1>4 DEF Inserted, WithGid
  <2>4. MapOf(WithGid(map, p + 1, gid), at + 1)
    BY <1>2, <2>1, <2>2, ItemFound
  <2>5. QED  BY <2>3, <2>4
<1>5. CASE ~(p < Len(map) /\ ~LessItem(job.itemTypes, x, map[p + 1].item))
  <2> DEFINE node == [item |-> x, gids |-> {gid}]
  <2>1. Inserted(x, gid, p) = Between(map, p, node)
    BY <1>5 DEF Inserted, Between
  <2>2. MapOf(Between(map, p, node), at + 1)
    BY <1>2, <1>3, <1>5, ItemAdded
  <2>3. QED  BY <2>1, <2>2
<1>6. QED  BY <1>4, <1>5

-----------------------------------------------------------------------------
(* While rows are read, whatever the columns hold, job and place fit; where *)
(* the numbers fit, the groups and the map are those of the rows.          *)
JobInv ==
  job \in Jobs /\ OrderedByGroup(job) /\ at \in 0 .. Len(job.rows)

GroupsInv == FitsInt(job.groupTypes, "group") => GroupsOf(groups, at)

MapInv ==
  FitsInt(job.itemTypes, "item") /\ FitsInt(job.groupTypes, "group") => MapOf(map, at)

RowsInv == JobInv /\ GroupsInv /\ MapInv

LEMMA RowsInit == Init => RowsInv
<1> SUFFICES ASSUME Init  PROVE RowsInv
  OBVIOUS
<1>1. job \in Jobs /\ OrderedByGroup(job) /\ at = 0 /\ groups = <<>> /\ map = <<>>
  BY DEF Init
<1>2. Len(job.rows) \in Nat
  BY <1>1, JobTypes
<1>3. JobInv
  BY <1>1, <1>2 DEF JobInv
<1>4. GroupsOf(groups, at)
  BY <1>1 DEF GroupsOf
<1>5. MapOf(map, at)
  BY <1>1 DEF MapOf, NodesOf
<1>6. QED  BY <1>3, <1>4, <1>5 DEF RowsInv, GroupsInv, MapInv

LEMMA FitsKept ==
  job' = job =>
    /\ FitsInt(job.groupTypes, "group")' <=> FitsInt(job.groupTypes, "group")
    /\ FitsInt(job.itemTypes, "item")' <=> FitsInt(job.itemTypes, "item")
BY DEF FitsInt, Column

LEMMA RowsReadRow == RowsInv /\ ReadRow => RowsInv'
<1> SUFFICES ASSUME RowsInv, ReadRow  PROVE RowsInv'
  OBVIOUS
<1>1. job \in Jobs /\ OrderedByGroup(job) /\ at \in 0 .. Len(job.rows)
  BY DEF RowsInv, JobInv
<1>2. /\ HasTypes(job.groupTypes, "group") /\ HasTypes(job.itemTypes, "item")
      /\ DOMAIN job.rows = 1 .. Len(job.rows) /\ Len(job.rows) \in Nat
  BY <1>1, JobTypes
<1>3. at < Len(job.rows) /\ at' = at + 1 /\ job' = job
  BY DEF ReadRow
<1>4. at \in Nat /\ at + 1 \in DOMAIN job.rows
  BY <1>1, <1>2, <1>3
<1>5. job.rows[at + 1].group \in Elements("group") /\ job.rows[at + 1].item \in Elements("item")
  BY <1>4 DEF Elements
<1>6. JobInv'
  BY <1>1, <1>2, <1>3 DEF JobInv
<1> DEFINE g == CreateElement(job.groupTypes, job.rows[at + 1].group)
           x == CreateElement(job.itemTypes, job.rows[at + 1].item)
<1>7. groups' = GroupOf(g) /\ \E p \in LowerBound(x) : map' = Inserted(x, Len(groups'), p)
  BY DEF ReadRow, Row
<1>8. ASSUME FitsInt(job.groupTypes, "group")  PROVE GroupsOf(groups', at + 1)
  <2>1. g = job.rows[at + 1].group
    BY <1>2, <1>5, <1>8, ElementsCreated
  <2>2. GroupsOf(groups, at)
    BY <1>8 DEF RowsInv, GroupsInv
  <2>3. GroupsOf(GroupOf(job.rows[at + 1].group), at + 1)
    BY <1>1, <1>2, <1>3, <1>4, <1>8, <2>2, GroupAdded
  <2>4. QED  BY <1>7, <2>1, <2>3
<1>9. ASSUME FitsInt(job.itemTypes, "item"), FitsInt(job.groupTypes, "group")
      PROVE  MapOf(map', at + 1)
  <2>1. x = job.rows[at + 1].item
    BY <1>2, <1>5, <1>9, ElementsCreated
  <2>2. MapOf(map, at)
    BY <1>9 DEF RowsInv, MapInv
  <2>3. GidOf(at + 1) = Len(groups') /\ Len(groups') \in Nat
    <3>1. GroupsOf(groups', at + 1) /\ at + 1 \in Nat
      BY <1>4, <1>8, <1>9
    <3>2. GidOf(at + 1) = Len(groups')
      BY <3>1, GroupsCounted
    <3>3. groups' \in Seq(Elements("group"))
      BY <3>1 DEF GroupsOf
    <3>4. Len(groups') \in Nat
      BY <3>3, LenProperties
    <3>5. QED  BY <3>2, <3>4
  <2>4. Comparable(job.itemTypes, Elements("item"))
    BY <1>2, <1>9, ElementsComparable
  <2>5. PICK p \in LowerBound(job.rows[at + 1].item) :
          map' = Inserted(job.rows[at + 1].item, GidOf(at + 1), p)
    BY <1>7, <2>1, <2>3
  <2>6. MapOf(Inserted(job.rows[at + 1].item, GidOf(at + 1), p), at + 1)
    BY <1>4, <1>5, <2>2, <2>3, <2>4, ItemInserted
  <2>7. QED  BY <2>5, <2>6
<1> HIDE DEF g, x
<1>10. GroupsInv'
  <2>1. FitsInt(job.groupTypes, "group")' <=> FitsInt(job.groupTypes, "group")
    BY <1>3, FitsKept
  <2>2. GroupsOf(groups, at)' <=> GroupsOf(groups', at + 1)
    BY <1>3 DEF GroupsOf, Elements
  <2>3. QED  BY <1>8, <2>1, <2>2 DEF GroupsInv
<1>11. MapInv'
  <2>1. /\ FitsInt(job.groupTypes, "group")' <=> FitsInt(job.groupTypes, "group")
        /\ FitsInt(job.itemTypes, "item")' <=> FitsInt(job.itemTypes, "item")
    BY <1>3, FitsKept
  <2>2. MapOf(map, at)' <=> MapOf(map', at + 1)
    BY <1>3 DEF MapOf, NodesOf, Elements, GidsOf, GidOf
  <2>3. QED  BY <1>9, <2>1, <2>2 DEF MapInv
<1>12. QED  BY <1>6, <1>10, <1>11 DEF RowsInv

LEMMA RowsKept ==
  RowsInv /\ UNCHANGED <<job, at, groups, map>> => RowsInv'
<1> SUFFICES ASSUME RowsInv, UNCHANGED <<job, at, groups, map>>  PROVE RowsInv'
  OBVIOUS
<1>1. JobInv'
  BY DEF RowsInv, JobInv
<1>2. /\ FitsInt(job.groupTypes, "group")' <=> FitsInt(job.groupTypes, "group")
      /\ FitsInt(job.itemTypes, "item")' <=> FitsInt(job.itemTypes, "item")
  BY FitsKept
<1>3. GroupsOf(groups, at)' <=> GroupsOf(groups, at)
  BY DEF GroupsOf, Elements
<1>4. MapOf(map, at)' <=> MapOf(map, at)
  BY DEF MapOf, NodesOf, Elements, GidsOf, GidOf
<1>5. QED  BY <1>1, <1>2, <1>3, <1>4 DEF RowsInv, GroupsInv, MapInv

LEMMA RowsStep == RowsInv /\ [Next]_vars => RowsInv'
<1> SUFFICES ASSUME RowsInv, [Next]_vars  PROVE RowsInv'
  OBVIOUS
<1>1. CASE ReadRow
  BY <1>1, RowsReadRow
<1>2. CASE ReadThrows \/ EndOfRows \/ InsertItem \/ InsertLine \/ Finalize \/ ReadElem \/ EndOfElems
  BY <1>2, RowsKept DEF ReadThrows, EndOfRows, InsertItem, InsertLine, Finalize, ReadElem, EndOfElems
<1>3. CASE UNCHANGED vars
  BY <1>3, RowsKept DEF vars
<1>4. QED  BY <1>1, <1>2, <1>3 DEF Next

LEMMA RowsAlways == Spec => []RowsInv
<1>1. QED  BY RowsInit, RowsStep, PTL DEF Spec

(* Where the database orders the values of the groups' columns as the      *)
(* program does, loadBody meets the groups in the program's order.         *)
THEOREM GroupsOrdered == Spec => []GroupsAscend
<1>1. RowsInv => GroupsAscend
  <2> SUFFICES ASSUME RowsInv, FitsInt(job.groupTypes, "group"), OrderedAlike,
                      NEW k \in DOMAIN groups, NEW l \in DOMAIN groups, k < l
               PROVE  LessItem(job.groupTypes, groups[k], groups[l])
    BY DEF GroupsAscend
  <2>1. HasTypes(job.groupTypes, "group")
    BY JobTypes DEF RowsInv, JobInv
  <2>2. GroupsOf(groups, at)
    BY DEF RowsInv, GroupsInv
  <2>3. k \in 1 .. Len(groups) /\ l \in 1 .. Len(groups) /\ groups \in Seq(Elements("group"))
    BY <2>2 DEF GroupsOf
  <2>4. GroupPrecedes(job.groupTypes, groups[k], groups[l])
    BY <2>2, <2>3 DEF GroupsOf
  <2>5. groups[k] \in Elements("group") /\ groups[l] \in Elements("group")
    BY <2>3, ElementOfSeq
  <2>6. QED  BY <2>1, <2>4, <2>5, GroupsAlike
<1>2. QED  BY <1>1, RowsAlways, PTL

(* The map of the miners is exact, whatever ends the searches in it have.  *)
THEOREM MapExact == Spec => []ItemsExact
<1>1. RowsInv => ItemsExact
  <2> SUFFICES ASSUME RowsInv, FitsInt(job.itemTypes, "item"), FitsInt(job.groupTypes, "group")
               PROVE  /\ {Keys[k] : k \in DOMAIN map} = {job.rows[i].item : i \in 1 .. at}
                      /\ \A k, l \in DOMAIN map : k < l => LessItem(job.itemTypes, Keys[k], Keys[l])
                      /\ \A k \in DOMAIN map :
                           map[k].gids = {GidOf(i) : i \in {m \in 1 .. at : job.rows[m].item = Keys[k]}}
    BY DEF ItemsExact
  <2>1. MapOf(map, at)
    BY DEF RowsInv, MapInv
  <2>2. DOMAIN map = 1 .. Len(map) /\ \A k \in DOMAIN map : Keys[k] = map[k].item
    BY <2>1 DEF MapOf, NodesOf, Keys
  <2>3. {Keys[k] : k \in DOMAIN map} = {job.rows[i].item : i \in 1 .. at}
    <3>1. ASSUME NEW k \in DOMAIN map  PROVE Keys[k] \in {job.rows[i].item : i \in 1 .. at}
      BY <2>1, <2>2 DEF MapOf
    <3>2. ASSUME NEW i \in 1 .. at  PROVE job.rows[i].item \in {Keys[k] : k \in DOMAIN map}
      <4>1. PICK k \in 1 .. Len(map) : map[k].item = job.rows[i].item
        BY <2>1 DEF MapOf
      <4>2. QED  BY <2>2, <4>1
    <3>3. QED  BY <3>1, <3>2
  <2>4. ASSUME NEW k \in DOMAIN map, NEW l \in DOMAIN map, k < l
        PROVE  LessItem(job.itemTypes, Keys[k], Keys[l])
    <3>1. LessItem(job.itemTypes, map[k].item, map[l].item)
      BY <2>1, <2>2, <2>4 DEF MapOf
    <3>2. QED  BY <2>2, <3>1
  <2>5. \A k \in DOMAIN map : map[k].gids = GidsOf(Keys[k], at)
    BY <2>1, <2>2 DEF MapOf
  <2>6. QED  BY <2>3, <2>4, <2>5 DEF GidsOf
<1>2. QED  BY <1>1, RowsAlways, PTL

-----------------------------------------------------------------------------
(* From the map to the result table and back.                              *)

(* A value that could be read, written and stored is read again.           *)
LEMMA ValueBack ==
  ASSUME NEW type \in Types, NEW v \in ColumnValues(type), CreateAttribute(type, v) # Failure
  PROVE  /\ (type = "text" => v \in {Empty, Null} \/ v[2] = 0) /\ SetParam(type, CreateAttribute(type, v)) # Failure
              => CreateAttribute(type, SetParam(type, CreateAttribute(type, v))) = CreateAttribute(type, v)
         /\ (type = "text" => v \in Texts /\ CopyReads[v] = v) /\ Copied(type, CreateAttribute(type, v)) # Failure
              => CreateAttribute(type, Copied(type, CreateAttribute(type, v))) = CreateAttribute(type, v)
<1> DEFINE a == CreateAttribute(type, v)
<1>1. CASE IsNumeric(type)
  <2>1. v \in Int /\ a = Wrap(v)
    BY <1>1 DEF IsNumeric, CreateAttribute, ColumnValues
  <2>2. Half \in Nat \ {0}
    BY TypedItemsAssumption
  <2>3. a \in -Half .. Half - 1
    BY <2>1, WrapFits
  <2>4. a \in Int /\ a # Null /\ a # Empty
    BY <2>2, <2>3, ConstantsDiffer
  <2>5. CreateAttribute(type, a) = a
    BY <1>1, <2>3, <2>4, WrapFits DEF CreateAttribute
  <2> HIDE DEF a
  <2>6. SetParam(type, a) = a /\ Copied(type, a) = a
    BY <1>1, <2>4 DEF IsNumeric, SetParam, Copied
  <2>7. QED  BY <2>5, <2>6 DEF a
<1>2. CASE type = "int2"
  <2>1. a = IF v = Null THEN Empty ELSE v
    BY <1>2 DEF IsNumeric, CreateAttribute
  <2>2. SetParam(type, Empty) = Failure /\ Copied(type, Empty) = Failure
    BY <1>2 DEF SetParam, Copied
  <2>3. v # Null => v # Empty
    BY <1>2, ConstantsDiffer DEF ColumnValues
  <2>4. v # Null => SetParam(type, v) = v /\ Copied(type, v) = v
    BY <1>2, <2>3 DEF SetParam, Copied
  <2> HIDE DEF a
  <2>5. (SetParam(type, a) # Failure => SetParam(type, a) = v /\ a = v)
        /\ (Copied(type, a) # Failure => Copied(type, a) = v /\ a = v)
    BY <2>1, <2>2, <2>4
  <2>6. QED  BY <2>5 DEF a
<1>3. CASE type = "text"
  <2>1. v \in Texts \cup {Empty, Null} /\ a = IF v = Null THEN Empty ELSE v
    BY <1>3 DEF IsNumeric, CreateAttribute, ColumnValues
  <2>2. \A x : x # Null => CreateAttribute(type, x) = x
    BY <1>3 DEF IsNumeric, CreateAttribute
  <2>3. SetParam(type, Empty) = Empty /\ Null # Empty
    BY <1>3, ConstantsDiffer DEF SetParam
  <2>4. v \in Texts =>
          /\ v # Null /\ v # Empty /\ v = <<v[1], v[2]>>
          /\ SetParam(type, v) = <<v[1], 0>> /\ Copied(type, v) = CopyReads[v]
    BY <1>3, ConstantsDiffer DEF SetParam, Copied, AsString
  <2> HIDE DEF a
  <2>5. CASE v \in {Empty, Null}
    <3>1. a = Empty
      BY <2>1, <2>5
    <3>2. v \notin Texts
      BY <2>4, <2>5
    <3>3. QED  BY <1>3, <2>2, <2>3, <3>1, <3>2 DEF a
  <2>6. CASE v \in Texts
    <3>1. a = v
      BY <2>1, <2>4, <2>6
    <3>2. CreateAttribute(type, v) = v
      BY <2>2, <2>4, <2>6
    <3>3. v[2] = 0 => SetParam(type, v) = v
      BY <2>4, <2>6
    <3>4. v \notin {Empty, Null}
      BY <2>4, <2>6
    <3>5. QED  BY <1>3, <2>4, <2>6, <3>1, <3>2, <3>3, <3>4 DEF a
  <2>7. QED  BY <2>1, <2>5, <2>6
<1>4. QED  BY <1>1, <1>2, <1>3 DEF IsNumeric, Types

(* The items that the program makes of the rows.                           *)
Made ==
  {e \in {CreateElement(job.itemTypes, job.rows[i].item) : i \in DOMAIN job.rows} : ~Throws(e)}

(* The row of an element in the result table.                              *)
RowOf(element) == IF job.cached THEN Columns(Copied, element) ELSE Columns(SetParam, element)

LEMMA ItemBack ==
  ASSUME job \in Jobs, Writable, NEW e \in Made, ~Throws(RowOf(e))
  PROVE  CreateElement(job.itemTypes, RowOf(e)) = e
<1> DEFINE T == job.itemTypes
<1>1. PICK i \in DOMAIN job.rows : e = CreateElement(T, job.rows[i].item)
  BY DEF Made
<1> DEFINE r == job.rows[i].item
<1>2. T \in Seq(Types) /\ HasColumns(T, r)
  BY JobTypes DEF HasTypes
<1>3. DOMAIN e = DOMAIN T /\ DOMAIN RowOf(e) = DOMAIN T
  BY <1>1 DEF CreateElement, RowOf, Columns
<1>4. ASSUME NEW c \in DOMAIN T  PROVE CreateAttribute(T[c], RowOf(e)[c]) = e[c]
  <2>1. T[c] \in Types /\ r[c] \in ColumnValues(T[c])
    <3>1. r[c] \in ColumnValues(T[c])
      BY <1>2 DEF HasColumns
    <3> HIDE DEF T, r
    <3>2. T[c] \in Types
      BY <1>2
    <3>3. QED  BY <3>1, <3>2
  <2>2. e[c] = CreateAttribute(T[c], r[c])
    BY <1>1 DEF CreateElement
  <2>3. e[c] # Failure /\ RowOf(e)[c] # Failure
    BY <1>3 DEF Made, Throws
  <2>4. RowOf(e)[c] = IF job.cached THEN Copied(T[c], e[c]) ELSE SetParam(T[c], e[c])
    BY <1>3 DEF RowOf, Columns
  <2>5. r[c] \in Column("item", c)
    BY DEF Column
  <2>6. T[c] = "text" => IF job.cached THEN r[c] \in Texts /\ CopyReads[r[c]] = r[c]
                         ELSE r[c] \in {Empty, Null} \/ r[c][2] = 0
    BY <2>5 DEF Writable
  <2> HIDE DEF T, r
  <2>7. QED  BY <2>1, <2>2, <2>3, <2>4, <2>6, ValueBack
<1>5. e = [c \in DOMAIN T |-> e[c]]
  BY <1>1 DEF CreateElement
<1>6. QED  BY <1>4, <1>5 DEF CreateElement

LEMMA MapTyped ==
  ASSUME NEW I, map \in NodesOf(I), NEW item \in I, NEW gid \in Nat, NEW p \in LowerBound(item)
  PROVE  Inserted(item, gid, p) \in NodesOf(I)
<1> DEFINE S == [item : I, gids : SUBSET Nat]
           node == [item |-> item, gids |-> {gid}]
<1>1. p \in 0 .. Len(map) /\ Len(map) \in Nat
  BY NodeTypes DEF LowerBound
<1>2. CASE p < Len(map) /\ ~LessItem(job.itemTypes, item, map[p + 1].item)
  <2>1. Inserted(item, gid, p) = WithGid(map, p + 1, gid) /\ p + 1 \in 1 .. Len(map)
    BY <1>1, <1>2 DEF Inserted, WithGid
  <2>2. WithGid(map, p + 1, gid) \in NodesOf(I)
    BY <2>1, NodeChanged
  <2>3. QED  BY <2>1, <2>2
<1>3. CASE ~(p < Len(map) /\ ~LessItem(job.itemTypes, item, map[p + 1].item))
  <2>1. Inserted(item, gid, p) = Between(map, p, node)
    BY <1>3 DEF Inserted, Between
  <2>2. map \in Seq(S) /\ node \in S
    BY DEF NodesOf
  <2> HIDE DEF S, node
  <2>3. Between(map, p, node) \in Seq(S)
    BY <1>1, <2>2, NodeAdded
  <2>4. QED  BY <2>1, <2>3 DEF NodesOf, S
<1>4. QED  BY <1>2, <1>3

GroupsMade == {CreateElement(job.groupTypes, job.rows[i].group) : i \in DOMAIN job.rows}

(* The first n items of the map are the rows of the result table.          *)
Holds(n) ==
  /\ stored = [i \in 1 .. n |-> RowOf(map[i].item)]
  /\ \A i \in 1 .. n : ~Throws(RowOf(map[i].item))

Kept ==
  /\ written \in 0 .. Len(map)
  /\ phase = "read" => written = 0 /\ stored = <<>> /\ loaded = <<>>
  /\ phase = "write" =>
       loaded = <<>> /\ (IF job.cached THEN stored = <<>> ELSE Holds(written))
  /\ phase \in {"load", "done"} =>
       /\ Holds(Len(map))
       /\ loaded = [i \in 1 .. Len(loaded) |-> CreateElement(job.itemTypes, stored[i])]
       /\ Len(loaded) \in 0 .. Len(map)
  /\ phase = "done" => Len(loaded) = Len(map)

StoredInv ==
  /\ job \in Jobs /\ at \in 0 .. Len(job.rows)
  /\ groups \in Seq(GroupsMade) /\ map \in NodesOf(Made)
  /\ Kept

LEMMA StoredInit == Init => StoredInv
<1> SUFFICES ASSUME Init  PROVE StoredInv
  OBVIOUS
<1>1. /\ job \in Jobs /\ at = 0 /\ groups = <<>> /\ map = <<>> /\ phase = "read"
      /\ written = 0 /\ stored = <<>> /\ loaded = <<>>
  BY DEF Init
<1>2. Len(job.rows) \in Nat
  BY <1>1, JobTypes
<1>3. groups \in Seq(GroupsMade) /\ map \in NodesOf(Made) /\ at \in 0 .. Len(job.rows)
  BY <1>1, <1>2 DEF NodesOf
<1>4. Kept
  BY <1>1 DEF Kept
<1>5. QED  BY <1>1, <1>3, <1>4 DEF StoredInv

LEMMA OneMore ==
  ASSUME NEW n \in Nat, NEW s, NEW x, s = [i \in 1 .. n |-> s[i]]
  PROVE  /\ Append(s, x) = [i \in 1 .. n + 1 |-> IF i = n + 1 THEN x ELSE s[i]]
         /\ Len(s) = n /\ Len(Append(s, x)) = n + 1
<1> DEFINE S == {s[i] : i \in 1 .. n} \cup {x}
<1>1. s \in [1 .. n -> S]
  OBVIOUS
<1> HIDE DEF S
<1>2. s \in Seq(S) /\ Len(s) = n
  BY <1>1
<1>3. x \in S
  BY DEF S
<1>4. /\ Append(s, x) \in Seq(S) /\ Len(Append(s, x)) = n + 1
      /\ \A i \in 1 .. n : Append(s, x)[i] = s[i] /\ Append(s, x)[n + 1] = x
  BY <1>2, <1>3, AppendProperties
<1>5. Append(s, x) = [i \in 1 .. n + 1 |-> Append(s, x)[i]]
  BY <1>4
<1>6. Append(s, x)[n + 1] = x
  BY <1>2, <1>3, AppendProperties
<1>7. ASSUME NEW i \in 1 .. n + 1  PROVE Append(s, x)[i] = IF i = n + 1 THEN x ELSE s[i]
  BY <1>4, <1>6
<1>8. QED  BY <1>2, <1>4, <1>5, <1>7

LEMMA StoredReadRow == StoredInv /\ ReadRow => StoredInv'
<1> SUFFICES ASSUME StoredInv, ReadRow  PROVE StoredInv'
  OBVIOUS
<1>1. /\ job \in Jobs /\ at \in 0 .. Len(job.rows)
      /\ groups \in Seq(GroupsMade) /\ map \in NodesOf(Made) /\ Kept
  BY DEF StoredInv
<1>2. DOMAIN job.rows = 1 .. Len(job.rows) /\ Len(job.rows) \in Nat
  BY <1>1, JobTypes
<1> DEFINE g == CreateElement(job.groupTypes, job.rows[at + 1].group)
           x == CreateElement(job.itemTypes, job.rows[at + 1].item)
<1>3. /\ phase = "read" /\ at < Len(job.rows) /\ at' = at + 1 /\ ~Throws(x)
      /\ groups' = GroupOf(g) /\ \E p \in LowerBound(x) : map' = Inserted(x, Len(groups'), p)
      /\ UNCHANGED <<job, phase, written, stored, loaded>>
  BY DEF ReadRow, Row
<1>4. at + 1 \in DOMAIN job.rows /\ at' \in 0 .. Len(job.rows)
  BY <1>1, <1>2, <1>3
<1>5. g \in GroupsMade /\ x \in Made
  BY <1>3, <1>4 DEF GroupsMade, Made
<1> HIDE DEF g, x
<1>6. groups' \in Seq(GroupsMade) /\ Len(groups') \in Nat
  BY <1>1, <1>3, <1>5 DEF GroupOf
<1>7. map' \in NodesOf(Made)
  <2>1. PICK p \in LowerBound(x) : map' = Inserted(x, Len(groups'), p)
    BY <1>3
  <2>2. QED  BY <1>1, <1>5, <1>6, <2>1, MapTyped
<1>8. Len(map') \in Nat
  BY <1>7, NodeTypes
<1>9. Kept'
  BY <1>1, <1>3, <1>8 DEF Kept
<1>10. Made' = Made /\ GroupsMade' = GroupsMade
  BY <1>3 DEF Made, GroupsMade
<1>11. QED  BY <1>1, <1>3, <1>4, <1>6, <1>7, <1>9, <1>10 DEF StoredInv, NodesOf

LEMMA StoredInsertItem == StoredInv /\ InsertItem => Kept'
<1> SUFFICES ASSUME StoredInv, InsertItem  PROVE Kept'
  OBVIOUS
<1>1. Len(map) \in Nat /\ Kept /\ written \in 0 .. Len(map)
  BY NodeTypes DEF StoredInv, Kept
<1> DEFINE row == Columns(SetParam, map[written + 1].item)
<1>2. /\ phase = "write" /\ ~job.cached /\ written < Len(map)
      /\ UNCHANGED <<job, map, loaded>>
      /\ \/ ~Throws(row) /\ stored' = Append(stored, row) /\ written' = written + 1 /\ phase' = phase
         \/ Throws(row) /\ phase' = "failed" /\ UNCHANGED <<stored, written>>
  BY DEF InsertItem
<1>3. row = RowOf(map[written + 1].item)
  BY <1>2 DEF RowOf
<1>4. Holds(written) /\ loaded = <<>>
  BY <1>1, <1>2 DEF Kept
<1> HIDE DEF row
<1>5. CASE ~Throws(row) /\ stored' = Append(stored, row) /\ written' = written + 1 /\ phase' = phase
  <2>1. stored = [i \in 1 .. written |-> RowOf(map[i].item)]
    BY <1>4 DEF Holds
  <2>2. stored = [i \in 1 .. written |-> stored[i]] /\ \A i \in 1 .. written : stored[i] = RowOf(map[i].item)
    BY <2>1
  <2>3. stored' = [i \in 1 .. written + 1 |-> IF i = written + 1 THEN row ELSE stored[i]]
    BY <1>1, <1>5, <2>2, OneMore
  <2>4. stored' = [i \in 1 .. written + 1 |-> RowOf(map[i].item)]
    <3>1. \A i \in 1 .. written + 1 : (IF i = written + 1 THEN row ELSE stored[i]) = RowOf(map[i].item)
      BY <1>1, <1>3, <2>2
    <3>2. QED  BY <2>3, <3>1
  <2>5. \A i \in 1 .. written + 1 : ~Throws(RowOf(map[i].item))
    <3>1. \A i \in 1 .. written : ~Throws(RowOf(map[i].item))
      BY <1>4 DEF Holds
    <3>2. \A i \in 1 .. written + 1 : i = written + 1 \/ i \in 1 .. written
      BY <1>1
    <3>3. QED  BY <1>3, <1>5, <3>1, <3>2
  <2>6. Holds(written)'
    BY <1>2, <1>5, <2>4, <2>5 DEF Holds, RowOf, Columns
  <2>7. QED  BY <1>1, <1>2, <1>4, <1>5, <2>6 DEF Kept
<1>6. CASE Throws(row) /\ phase' = "failed" /\ UNCHANGED <<stored, written>>
  BY <1>1, <1>2, <1>6 DEF Kept
<1>7. QED  BY <1>2, <1>5, <1>6

LEMMA StoredFinalize == StoredInv /\ Finalize => Kept'
<1> SUFFICES ASSUME StoredInv, Finalize  PROVE Kept'
  OBVIOUS
<1>1. Len(map) \in Nat /\ Kept /\ written \in 0 .. Len(map)
  BY NodeTypes DEF StoredInv, Kept
<1>2. /\ phase = "write" /\ written = Len(map) /\ loaded = <<>>
      /\ UNCHANGED <<job, map, written, loaded>>
  BY <1>1 DEF Finalize, Kept
<1>3. loaded' = [i \in 1 .. Len(loaded') |-> CreateElement(job.itemTypes, stored'[i])] /\ Len(loaded') = 0
  BY <1>2
<1>4. CASE ~job.cached /\ phase' = "load" /\ stored' = stored
  <2>1. Holds(Len(map))
    BY <1>1, <1>2, <1>4 DEF Kept
  <2>2. Holds(Len(map))'
    BY <1>2, <1>4, <2>1 DEF Holds, RowOf, Columns
  <2>3. QED  BY <1>1, <1>2, <1>3, <1>4, <2>2 DEF Kept
<1>5. CASE job.cached /\ (\A i \in DOMAIN Lines : ~Throws(Lines[i])) /\ phase' = "load" /\ stored' = Lines
  <2>1. Lines = [i \in 1 .. Len(map) |-> RowOf(map[i].item)]
    BY <1>2, <1>5 DEF Lines, RowOf
  <2>2. \A i \in 1 .. Len(map) : ~Throws(RowOf(map[i].item))
    <3>1. DOMAIN Lines = 1 .. Len(map) /\ \A i \in 1 .. Len(map) : Lines[i] = RowOf(map[i].item)
      BY <2>1
    <3>2. QED  BY <1>5, <3>1
  <2>3. Holds(Len(map))'
    BY <1>2, <1>5, <2>1, <2>2 DEF Holds, RowOf, Columns
  <2>4. QED  BY <1>1, <1>2, <1>3, <1>5, <2>3 DEF Kept
<1>6. CASE phase' = "failed"
  BY <1>1, <1>2, <1>6 DEF Kept
<1>7. QED  BY <1>4, <1>5, <1>6 DEF Finalize

LEMMA StoredReadElem == StoredInv /\ ReadElem => Kept'
<1> SUFFICES ASSUME StoredInv, ReadElem  PROVE Kept'
  OBVIOUS
<1>1. Len(map) \in Nat /\ Kept /\ written \in 0 .. Len(map)
  BY NodeTypes DEF StoredInv, Kept
<1> DEFINE e == CreateElement(job.itemTypes, stored[Len(loaded) + 1])
<1>2. /\ phase = "load" /\ Len(loaded) < Len(stored) /\ loaded' = Append(loaded, e)
      /\ UNCHANGED <<job, phase, map, written, stored>>
  BY DEF ReadElem
<1>3. /\ Holds(Len(map)) /\ Len(loaded) \in 0 .. Len(map)
      /\ loaded = [i \in 1 .. Len(loaded) |-> CreateElement(job.itemTypes, stored[i])]
  BY <1>1, <1>2 DEF Kept
<1>4. Len(stored) = Len(map)
  <2>1. stored = [i \in 1 .. Len(map) |-> stored[i]]
    BY <1>3 DEF Holds
  <2>2. QED  BY <1>1, <2>1, OneMore
<1>5. Holds(Len(map))'
  BY <1>2, <1>3 DEF Holds, RowOf, Columns
<1>6. /\ loaded = [i \in 1 .. Len(loaded) |-> loaded[i]] /\ Len(loaded) \in Nat
      /\ \A i \in 1 .. Len(loaded) : loaded[i] = CreateElement(job.itemTypes, stored[i])
  BY <1>3
<1> HIDE DEF e
<1>7. /\ loaded' = [i \in 1 .. Len(loaded) + 1 |-> IF i = Len(loaded) + 1 THEN e ELSE loaded[i]]
      /\ Len(loaded') = Len(loaded) + 1
  BY <1>2, <1>6, OneMore
<1>8. \A i \in 1 .. Len(loaded) + 1 :
        (IF i = Len(loaded) + 1 THEN e ELSE loaded[i]) = CreateElement(job.itemTypes, stored[i])
  BY <1>6 DEF e
<1>9. loaded' = [i \in 1 .. Len(loaded') |-> CreateElement(job.itemTypes, stored[i])]
  BY <1>7, <1>8
<1>10. Len(loaded') \in 0 .. Len(map)
  BY <1>1, <1>2, <1>3, <1>4, <1>7
<1>11. QED  BY <1>1, <1>2, <1>5, <1>9, <1>10 DEF Kept

LEMMA StoredStep == StoredInv /\ [Next]_vars => StoredInv'
<1> SUFFICES ASSUME StoredInv, [Next]_vars  PROVE StoredInv'
  OBVIOUS
<1>1. Len(map) \in Nat /\ Kept /\ written \in 0 .. Len(map)
  BY NodeTypes DEF StoredInv, Kept
<1>2. ASSUME UNCHANGED <<job, at, groups, map>>, Kept'  PROVE StoredInv'
  BY <1>2 DEF StoredInv, Made, GroupsMade, NodesOf
<1>3. CASE ReadRow
  BY <1>3, StoredReadRow
<1>4. CASE ReadThrows
  <2>1. Kept'
    BY <1>1, <1>4 DEF ReadThrows, Kept
  <2>2. QED  BY <1>2, <1>4, <2>1 DEF ReadThrows
<1>5. CASE EndOfRows
  <2>1. /\ phase = "read" /\ phase' = "write" /\ UNCHANGED <<job, at, groups, map, written, stored, loaded>>
    BY <1>5 DEF EndOfRows
  <2>2. written = 0 /\ stored = <<>> /\ loaded = <<>>
    BY <1>1, <2>1 DEF Kept
  <2>3. Holds(written)'
    BY <2>1, <2>2 DEF Holds
  <2>4. Kept'
    BY <1>1, <2>1, <2>2, <2>3 DEF Kept
  <2>5. QED  BY <1>2, <2>1, <2>4
<1>6. CASE InsertItem
  BY <1>2, <1>6, StoredInsertItem DEF InsertItem
<1>7. CASE InsertLine
  <2>1. Kept'
    BY <1>1, <1>7 DEF InsertLine, Kept
  <2>2. QED  BY <1>2, <1>7, <2>1 DEF InsertLine
<1>8. CASE Finalize
  BY <1>2, <1>8, StoredFinalize DEF Finalize
<1>9. CASE ReadElem
  BY <1>2, <1>9, StoredReadElem DEF ReadElem
<1>10. CASE EndOfElems
  <2>1. /\ phase = "load" /\ phase' = "done" /\ Len(loaded) = Len(stored)
        /\ UNCHANGED <<job, at, groups, map, written, stored, loaded>>
    BY <1>10 DEF EndOfElems
  <2>2. Holds(Len(map))
    BY <1>1, <2>1 DEF Kept
  <2>3. Len(stored) = Len(map)
    <3>1. stored = [i \in 1 .. Len(map) |-> stored[i]]
      BY <2>2 DEF Holds
    <3>2. QED  BY <1>1, <3>1, OneMore
  <2>4. Holds(Len(map))'
    BY <2>1, <2>2 DEF Holds, RowOf, Columns
  <2>5. Kept'
    BY <1>1, <2>1, <2>3, <2>4 DEF Kept
  <2>6. QED  BY <1>2, <2>1, <2>5
<1>11. CASE UNCHANGED vars
  <2>1. Kept'
    BY <1>1, <1>11 DEF vars, Kept, Holds, RowOf, Columns
  <2>2. QED  BY <1>2, <1>11, <2>1 DEF vars
<1>12. QED
  BY <1>3, <1>4, <1>5, <1>6, <1>7, <1>8, <1>9, <1>10, <1>11 DEF Next

(* What mr-print and the incremental algorithms read from a result table   *)
(* are the items of the map, where both inserters write what they got.     *)
THEOREM ResultsReadBack == Spec => []ReadBack
<1>1. StoredInv => ReadBack
  <2> SUFFICES ASSUME StoredInv, phase = "done", Writable  PROVE loaded = Keys
    BY DEF ReadBack
  <2>1. /\ job \in Jobs /\ map \in NodesOf(Made) /\ Holds(Len(map)) /\ Len(loaded) = Len(map)
        /\ loaded = [i \in 1 .. Len(loaded) |-> CreateElement(job.itemTypes, stored[i])]
    BY DEF StoredInv, Kept
  <2>2. \A i \in 1 .. Len(map) : map[i].item \in Made
    BY <2>1, NodeTypes
  <2>3. \A i \in 1 .. Len(map) : stored[i] = RowOf(map[i].item) /\ ~Throws(RowOf(map[i].item))
    BY <2>1 DEF Holds
  <2>4. \A i \in 1 .. Len(map) : CreateElement(job.itemTypes, stored[i]) = map[i].item
    BY <2>1, <2>2, <2>3, ItemBack
  <2>5. DOMAIN map = 1 .. Len(map)
    BY <2>1 DEF NodesOf
  <2>6. QED  BY <2>1, <2>4, <2>5 DEF Keys
<1>2. QED  BY <1>1, StoredInit, StoredStep, PTL DEF Spec
=============================================================================
