-------------------------- MODULE MCQueryNormalizer --------------------------
(* Instances of QueryNormalizer for TLC.  Column 1 is the reference key,   *)
(* 2 and 3 make a key together, 4 and 5 are keys ordered as the reference  *)
(* is or the other way round, and 6 is no key.                             *)
EXTENDS QueryNormalizer

ASSUME KeysTrue == EquivalentKeys /\ OrderedKeys /\ ReferencesLast

Table == {<<1, 1, 1, 2, 4, 1>>, <<2, 1, 2, 3, 3, 2>>, <<4, 2, 1, 5, 2, 1>>, <<5, 2, 2, 6, 1, 2>>}
Rows == {[c \in Columns |-> r[c]] : r \in Table}

Key(col, ref, order) == [col |-> col, ref |-> ref, order |-> order]
Compound == <<Key(2, 1, "None"), Key(3, 1, "None")>>
SameOrder == <<Key(4, 1, "Equal")>>
Several == {Compound, SameOrder, <<Key(5, 1, "Reversed")>>, Compound \o SameOrder,
            SameOrder \o <<Key(5, 1, "Reversed")>>, <<>>}

Lit(prefix, col, op, v) ==
  [attr |-> [prefix |-> prefix, col |-> col], op |-> op, value |-> v, other |-> <<>>, left |-> FALSE]
Left(p) == [p EXCEPT !.left = TRUE]
Cross(col, op, col2) ==
  [attr |-> [prefix |-> "BODY", col |-> col], op |-> op, value |-> 0,
   other |-> <<[prefix |-> "HEAD", col |-> col2]>>, left |-> FALSE]

AskOf(keys, refs, ls, mc, gc) ==
  [rows |-> Rows, keys |-> keys, refs |-> refs, lists |-> ls, conditions |-> <<mc, gc, <<>>>>]
Ask(keys, mc, gc) == AskOf(keys, <<{1}>>, <<{6}, {}, {}, {2, 3}, {4}>>, mc, gc)

(* Two predicates about one attribute, or about a key and its reference.   *)
Alike(ops, cols) ==
  {<<Lit("BODY", c, o, 3), Lit("BODY", d, p, v)>> : c \in cols, d \in cols, o \in ops, p \in ops, v \in {2, 3, 5}}
Single == {Ask(k, <<l>>, <<>>) : k \in {SameOrder}, l \in Alike(Ops, {1, 4})}
SingleReversed == {Ask(k, <<l>>, <<>>) : k \in {<<Key(5, 1, "Reversed")>>}, l \in Alike(Ops, {5})}
NoKey == {Ask(Compound, <<l>>, <<>>) : l \in Alike(Ops, {6})}

(* Keys of two columns, both sides of the rule, and disjunctions.          *)
Both(v, w) == <<Lit("HEAD", 2, "=", v), Lit("BODY", 4, "<=", w), Lit("HEAD", 3, "=", w \div 2)>>
Disjunctions ==
  {Ask(k, <<Both(v, w), <<Lit("BODY", 4, ">", w), Cross(4, "<", 4)>>>>, <<<<Lit("", 4, o, 5)>>, <<Lit("", 6, "=", 2)>>>>) :
     k \in Several, v \in {1, 2}, w \in {2, 3, 5}, o \in {"<", "=", ">="}}
Longer ==
  {Ask(SameOrder, <<<<Lit("BODY", 1, "<>", 2), Lit("BODY", 4, ">=", u), Lit("BODY", 1, o, 2), Lit("BODY", 4, "<", v)>>>>, <<>>) :
     u \in {2, 3, 5}, v \in {3, 5, 6}, o \in Ops}

(* A third predicate, after one that may have been put in the place of the *)
(* first: A < 5 AND A < 2 AND A < 4 is one of them.                        *)
Thrice ==
  {Ask(Compound, <<<<Lit("BODY", 1, "<", 5), Lit("BODY", 1, o, v), Lit("BODY", c, p, w)>>>>, <<>>) :
     o \in Ops, v \in {2, 5}, c \in {1, 6}, p \in Ops, w \in {2, 4}}

(* A disjunct that may be a contradiction.                                 *)
Contradictions ==
  {Ask(SameOrder, <<l, <<Lit("BODY", 6, "=", 2)>>>>, <<>>) : l \in Alike({"<", "=", ">="}, {1, 4, 6})}

(* Literals on the left, lists with parts of keys, a compound reference.   *)
Turns == {Ask(SameOrder, <<<<Left(Lit("BODY", 4, o, 3)), Lit("HEAD", 4, ">", 2)>>>>, <<<<Left(Lit("", 4, p, 5))>>>>) :
            o \in Ops, p \in Ops}
PartsOfKeys == {AskOf(k, <<{1}, {1, 6}>>, <<{c, d}, {c}, {d, 6}, {2, 3, c}, {d}>>, <<>>, <<>>) :
             k \in Several, c \in Columns, d \in Columns}
CompoundReference == {AskOf(k, <<{1, 6}>>, <<{1}, {}, {}, {2}, {4}>>, <<Both(1, 2)>>, <<>>) : k \in Several}

SeveralJobs ==
  Single \cup SingleReversed \cup NoKey \cup Disjunctions \cup Longer \cup Thrice \cup Contradictions \cup Turns \cup PartsOfKeys \cup CompoundReference

(* A disjunct about a key that every row satisfies.                        *)
AlwaysTrue == {Ask(SameOrder, <<<<Lit("BODY", 4, ">=", 2)>>, <<Lit("BODY", 6, "=", 2)>>>>, <<>>)}
=============================================================================
