----------------------------- MODULE TypedItems -----------------------------
(***************************************************************************)
(* The items between the database and the program: columns of a row become *)
(* the attributes of an item, items are the keys of ordered maps, and the  *)
(* elements of the rules go into a result table and are read again by the  *)
(* incremental algorithms and by mr-print.                                 *)
(*                                                                         *)
(* A text that is not empty is a pair: the characters that setParam keeps, *)
(* and the rest.  Both are numbered in the order of their bytes.           *)
(***************************************************************************)
EXTENDS Integers, Sequences, FiniteSets

CONSTANTS
  Jobs,      \* the source tables, their types, and the option cacheWrites
  Texts,     \* the texts that occur in the columns
  Half,      \* an int is from -Half to Half - 1
  Null,      \* no value in a column
  Empty,     \* the empty text
  NotSet,    \* the text "(not set)"
  Collated,  \* the rank of a first component in the database's order
  CopyReads, \* the text COPY makes of the characters in a file, or Failure
  Failure

Types == {"int2", "int4", "int8", "text"}

(* The values of a column.  Those of an int2 column have two digits here.  *)
ColumnValues(type) ==
  CASE type = "text" -> Texts \cup {Empty, Null}
    [] type = "int2" -> 0 .. 99 \cup {Null}
    [] OTHER -> Int \cup {Null}

HasColumns(types, values) ==
  /\ values = [c \in DOMAIN types |-> values[c]]
  /\ \A c \in DOMAIN types : values[c] \in ColumnValues(types[c])

(* The database compares texts that its collation does not tell apart by   *)
(* their bytes.                                                            *)
ASSUME TypedItemsAssumption ==
  /\ Half \in Nat \ {0}
  /\ Null # Empty /\ Null # Failure /\ Empty # Failure
  /\ {Null, Empty, Failure} \cap (Int \cup Texts) = {}
  /\ Texts \subseteq (Nat \ {0}) \X Nat /\ NotSet \in Texts
  /\ \A x \in Texts : <<x[1], 0>> \in Texts
  /\ Collated \in [{x[1] : x \in Texts} -> Nat]
  /\ CopyReads \in [Texts -> Texts \cup {Failure}]
  /\ \A x, y \in DOMAIN Collated : Collated[x] = Collated[y] => x = y
  /\ \A j \in Jobs :
       /\ j.groupTypes \in Seq(Types) /\ j.itemTypes \in Seq(Types)
       /\ j.rows \in Seq({j.rows[i] : i \in DOMAIN j.rows})
       /\ \A i \in DOMAIN j.rows :
            HasColumns(j.groupTypes, j.rows[i].group) /\ HasColumns(j.itemTypes, j.rows[i].item)

VARIABLES
  job, phase,
  at,        \* the rows read from the cursor
  groups,    \* the groups in the order in which they were met
  map,       \* a std::map from items to gids: its nodes in order
  written,   \* the items that were inserted
  stored,    \* the rows of the result table
  loaded     \* the items read from it

vars == <<job, phase, at, groups, map, written, stored, loaded>>

-----------------------------------------------------------------------------
(* The values in the program.                                              *)
Wrap(n) == ((n + Half) % (2 * Half)) - Half

OnlyInt4(type) == type = "int4"
IsNumeric(type) == type \in {"int4", "int8"}

(* getInt reads a long and returns an int; stol throws on a NULL, which    *)
(* PQgetvalue gives as an empty text.                                      *)
CreateAttribute(type, value) ==
  IF IsNumeric(type)
  THEN IF value = Null THEN Failure ELSE Wrap(value)
  ELSE IF value = Null THEN Empty ELSE value

CreateElement(types, values) ==
  [c \in DOMAIN types |-> CreateAttribute(types[c], values[c])]

Throws(element) == \E c \in DOMAIN element : element[c] = Failure

(* A small number as text: "10" comes between "1" and "2".                 *)
Digits(n) == IF n < 10 THEN 11 * n ELSE 11 * (n \div 10) + (n % 10) + 1
Bytes(type, value) ==
  CASE value = Empty -> <<-1, 0>>
    [] value # Empty /\ type = "text" -> value
    [] OTHER -> <<Digits(value), 0>>

(* Negative, 0 or positive; the difference of two longs becomes an int.    *)
CompareTo(type, v, w) ==
  IF IsNumeric(type) THEN Wrap(v - w)
  ELSE LET a == Bytes(type, v)
           b == Bytes(type, w)
       IN  IF a[1] # b[1] THEN a[1] - b[1] ELSE a[2] - b[2]

SameItem(types, i, j) == \A c \in DOMAIN types : CompareTo(types[c], i[c], j[c]) = 0

LessSomewhere(types, i, j) ==
  \E c \in DOMAIN types : CompareTo(types[c], i[c], j[c]) < 0
LessItem(types, i, j) ==
  \E c \in DOMAIN types :
    /\ CompareTo(types[c], i[c], j[c]) < 0
    /\ \A b \in 1 .. c - 1 : CompareTo(types[b], i[b], j[b]) = 0

-----------------------------------------------------------------------------
(* The database: ORDER BY the columns of the group, NULLs last.            *)
Rank(type, value) ==
  CASE value = Empty -> <<-1, 0>>
    [] value # Empty /\ type = "text" -> <<Collated[value[1]], value[2]>>
    [] OTHER -> <<value, 0>>

Precedes(type, v, w) ==
  \/ v # Null /\ w = Null
  \/ /\ v # Null /\ w # Null
     /\ LET a == Rank(type, v)
            b == Rank(type, w)
        IN  a[1] < b[1] \/ (a[1] = b[1] /\ a[2] < b[2])

GroupPrecedes(types, g, h) ==
  \E c \in DOMAIN types : /\ Precedes(types[c], g[c], h[c])
                          /\ \A b \in 1 .. c - 1 : g[b] = h[b]

OrderedByGroup(j) ==
  \A i, k \in DOMAIN j.rows :
    i < k => ~GroupPrecedes(j.groupTypes, j.rows[k].group, j.rows[i].group)

Init ==
  /\ job \in {j \in Jobs : OrderedByGroup(j)}
  /\ phase = "read" /\ at = 0 /\ groups = <<>> /\ map = <<>>
  /\ written = 0 /\ stored = <<>> /\ loaded = <<>>

-----------------------------------------------------------------------------
(* loadBody: the rows of one group after the other.                        *)
Row == job.rows[at + 1]

GroupOf(element) ==
  IF groups # <<>> /\ SameItem(job.groupTypes, groups[Len(groups)], element)
  THEN groups ELSE Append(groups, element)

(* The search in a balanced tree ends between two neighbours, which it has *)
(* both compared with the item; which ones, if several pairs would do, is  *)
(* a matter of the tree's shape.                                           *)
LowerBound(item) ==
  {p \in 0 .. Len(map) :
     /\ p > 0 => LessItem(job.itemTypes, map[p].item, item)
     /\ p < Len(map) => ~LessItem(job.itemTypes, map[p + 1].item, item)}

Inserted(item, gid, p) ==
  IF p < Len(map) /\ ~LessItem(job.itemTypes, item, map[p + 1].item)
  THEN [map EXCEPT ![p + 1].gids = @ \cup {gid}]
  ELSE SubSeq(map, 1, p) \o <<[item |-> item, gids |-> {gid}]>>
         \o SubSeq(map, p + 1, Len(map))

ReadRow ==
  /\ phase = "read" /\ at < Len(job.rows)
  /\ LET group == CreateElement(job.groupTypes, Row.group)
         item  == CreateElement(job.itemTypes, Row.item)
     IN  /\ ~Throws(group) /\ ~Throws(item)
         /\ groups' = GroupOf(group)
         /\ \E p \in LowerBound(item) : map' = Inserted(item, Len(groups'), p)
  /\ at' = at + 1
  /\ UNCHANGED <<job, phase, written, stored, loaded>>

ReadThrows ==
  /\ phase = "read" /\ at < Len(job.rows)
  /\ \/ Throws(CreateElement(job.groupTypes, Row.group))
     \/ Throws(CreateElement(job.itemTypes, Row.item))
  /\ phase' = "failed"
  /\ UNCHANGED <<job, at, groups, map, written, stored, loaded>>

EndOfRows ==
  /\ phase = "read" /\ at = Len(job.rows) /\ phase' = "write"
  /\ UNCHANGED <<job, at, groups, map, written, stored, loaded>>

-----------------------------------------------------------------------------
(* What a column of the result table, of the type of the source, gets.     *)
SetParam(type, value) ==
  CASE value = Empty -> IF type = "text" THEN Empty ELSE Failure
    [] value # Empty /\ type = "text" -> <<value[1], 0>>
    [] OTHER -> value

AsString(type, value) ==
  IF value = Empty THEN NotSet ELSE value
Copied(type, value) ==
  CASE type = "text" -> CopyReads[AsString(type, value)]
    [] type # "text" /\ value = Empty -> Failure
    [] OTHER -> value

Columns(Convert(_, _), element) ==
  [c \in DOMAIN element |-> Convert(job.itemTypes[c], element[c])]

(* DirectDBInserter executes a statement for each item.                    *)
InsertItem ==
  /\ phase = "write" /\ ~job.cached /\ written < Len(map)
  /\ LET row == Columns(SetParam, map[written + 1].item) IN
       \/ ~Throws(row) /\ stored' = Append(stored, row) /\ written' = written + 1
            /\ phase' = phase
       \/ Throws(row) /\ phase' = "failed" /\ UNCHANGED <<stored, written>>
  /\ UNCHANGED <<job, at, groups, map, loaded>>

(* CachedDBInserter writes lines, and finalize() copies all or nothing.    *)
InsertLine ==
  /\ phase = "write" /\ job.cached /\ written < Len(map)
  /\ written' = written + 1
  /\ UNCHANGED <<job, phase, at, groups, map, stored, loaded>>

LinesUnflushed == [i \in 1 .. written - 1 |-> Columns(Copied, map[i].item)]
Lines == [i \in 1 .. written |-> Columns(Copied, map[i].item)]

Finalize ==
  /\ phase = "write" /\ written = Len(map)
  /\ \/ ~job.cached /\ phase' = "load" /\ stored' = stored
     \/ job.cached /\ (\A i \in DOMAIN Lines : ~Throws(Lines[i]))
          /\ phase' = "load" /\ stored' = Lines
     \/ job.cached /\ (\E i \in DOMAIN Lines : Throws(Lines[i]))
          /\ phase' = "failed" /\ stored' = stored
  /\ UNCHANGED <<job, at, groups, map, written, loaded>>

-----------------------------------------------------------------------------
(* readElems: the columns after the id become an item again.               *)
ReadElem ==
  /\ phase = "load" /\ Len(loaded) < Len(stored)
  /\ loaded' = Append(loaded, CreateElement(job.itemTypes, stored[Len(loaded) + 1]))
  /\ UNCHANGED <<job, phase, at, groups, map, written, stored>>

EndOfElems ==
  /\ phase = "load" /\ Len(loaded) = Len(stored) /\ phase' = "done"
  /\ UNCHANGED <<job, at, groups, map, written, stored, loaded>>

Next ==
  \/ ReadRow \/ ReadThrows \/ EndOfRows
  \/ InsertItem \/ InsertLine \/ Finalize
  \/ ReadElem \/ EndOfElems

Spec == Init /\ [][Next]_vars

-----------------------------------------------------------------------------
(* What the properties need of the source table.                           *)
Column(part, c) == {job.rows[i][part][c] : i \in DOMAIN job.rows}

(* No NULL, and the numbers of a column fit into an int, as their          *)
(* differences do.                                                         *)
FitsInt(types, part) ==
  \A c \in DOMAIN types :
    /\ Null \notin Column(part, c)
    /\ types[c] \in {"int4", "int8"} =>
         \A v, w \in Column(part, c) : v \in -Half .. Half - 1 /\ v - w \in -Half .. Half - 1

(* The database orders the groups as the program does: numbers as numbers, *)
(* and texts by their bytes.                                               *)
OrderedAlike ==
  \A c \in DOMAIN job.groupTypes :
    \A v, w \in Column("group", c) :
      CASE job.groupTypes[c] = "text" ->
             (Empty \notin {v, w} /\ v[1] < w[1]) => Collated[v[1]] < Collated[w[1]]
        [] job.groupTypes[c] = "int2" -> v < 10 <=> w < 10
        [] OTHER -> TRUE

(* Texts are short, or else not empty and nothing that COPY reads as other *)
(* than it is.                                                             *)
Writable ==
  \A c \in DOMAIN job.itemTypes :
    job.itemTypes[c] = "text" =>
      \A v \in Column("item", c) :
        IF job.cached THEN v \in Texts /\ CopyReads[v] = v
        ELSE v \in {Empty, Null} \/ v[2] = 0

Keys == [k \in DOMAIN map |-> map[k].item]
GidOf(i) == Cardinality({job.rows[k].group : k \in 1 .. i})

(* The map that the miners work on has each item of the rows once, with    *)
(* the groups in which it occurs, and in the order of the items.           *)
ItemsExact ==
  FitsInt(job.itemTypes, "item") /\ FitsInt(job.groupTypes, "group") =>
    /\ {Keys[k] : k \in DOMAIN map} = {job.rows[i].item : i \in 1 .. at}
    /\ \A k, l \in DOMAIN map : k < l => LessItem(job.itemTypes, Keys[k], Keys[l])
    /\ \A k \in DOMAIN map :
         map[k].gids = {GidOf(i) : i \in {m \in 1 .. at : job.rows[m].item = Keys[k]}}

(* Groups come in the order of the program, as findGid needs, which skips  *)
(* the groups of the other cursor that are less than its own.              *)
GroupsAscend ==
  FitsInt(job.groupTypes, "group") /\ OrderedAlike =>
    \A k, l \in DOMAIN groups :
      k < l => LessItem(job.groupTypes, groups[k], groups[l])

(* What is read from a result table are the items that were inserted.      *)
ReadBack == phase = "done" /\ Writable => loaded = Keys
=============================================================================
