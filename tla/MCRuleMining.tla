---------------------------- MODULE MCRuleMining ----------------------------
(* Instances of RuleMining for TLC: every table of a few groups and items, *)
(* stored by group or by item, under several minerules.                    *)
EXTENDS RuleMatching

ASSUME TablesGrouped == GroupedTables
ASSUME CareTablesDisjoint == CareDisjoint

(* The rows of a table t, a set of items for each group, stored by group   *)
(* or by item.                                                             *)
Place(k, layout) ==
  LET c == IF layout = "by group" THEN Size(Items) ELSE Size(Groups)
      x == (k - 1) \div c
      y == (k - 1) % c
  IN IF layout = "by group" THEN <<x + 1, y + 1>> ELSE <<y + 1, x + 1>>

RowAt(p, body, head) ==
  [gid |-> p[1], item |-> p[2], body |-> p[2] \in body, head |-> p[2] \in head]

Instance(t, layout, m) ==
  [rows |-> SelectSeq([k \in 1 .. Size(Groups) * Size(Items) |->
                         RowAt(Place(k, layout), m.bodyItems, m.headItems)],
                      LAMBDA r : r.item \in t[r.gid]),
   same |-> m.same, cross |-> m.cross, task |-> m.task, preferred |-> m.preferred,
   crossing |-> m.crossing, clusters |-> m.clusters, disjunction |-> m.disjunction,
   num |-> m.num, den |-> m.den,
   minBody |-> m.cards[1], maxBody |-> m.cards[2],
   minHead |-> m.cards[3], maxHead |-> m.cards[4]]

Plain ==
  [bodyItems |-> Items, headItems |-> Items, same |-> TRUE, cross |-> Items \X Items,
   task |-> "rules", preferred |-> "None", crossing |-> FALSE, clusters |-> FALSE,
   disjunction |-> FALSE, num |-> 2, den |-> 3, cards |-> <<1, 2, 1, 2>>]

Increasing == {p \in Items \X Items : p[1] < p[2]}

AnyLayout == {"by group", "by item"}
(* Groups as large as the first, a smaller or a disjoint one, and any.     *)
SomeTables ==
  {t \in [Groups -> SUBSET Items] : t[1] \in {{1, 2, 3}, {1, 2}, {3}, {}} /\ 1 \in t[2] \cup t[3]}
Names == {"None", "NoCross", "AndCross", "Care", "Itemsets"}

(* Half of three groups is no whole number of groups: one and two thirds.  *)
Several ==
  {Plain,
   [Plain EXCEPT !.preferred = "AndCross"],
   [Plain EXCEPT !.preferred = "AndCross", !.num = 1, !.den = 2],
   [Plain EXCEPT !.crossing = TRUE, !.cross = Increasing, !.num = 1],
   [Plain EXCEPT !.crossing = TRUE, !.cross = Increasing, !.same = FALSE, !.preferred = "Care"],
   [Plain EXCEPT !.same = FALSE, !.cards = <<2, 2, 1, 1>>],
   [Plain EXCEPT !.bodyItems = {1, 2}, !.headItems = {2, 3}, !.num = 1],
   [Plain EXCEPT !.cards = <<1, 1, 2, 2>>, !.num = 1],
   [Plain EXCEPT !.task = "itemsets"],
   [Plain EXCEPT !.clusters = TRUE]}

(* CARE has its rows in group order only if the table has.                 *)
CareOnly ==
  {[Plain EXCEPT !.preferred = "Itemsets"],
   [Plain EXCEPT !.preferred = "Care", !.num = 1],
   [Plain EXCEPT !.preferred = "Care", !.num = 1, !.den = 2],
   [Plain EXCEPT !.preferred = "Care", !.num = 1, !.den = 2,
                 !.bodyItems = {1, 2}, !.headItems = {2, 3}],
   [Plain EXCEPT !.preferred = "Care", !.num = 1, !.den = 2, !.cards = <<2, 3, 1, 1>>]}

SeveralJobs ==
  {Instance(t, l, m) : t \in SomeTables, l \in AnyLayout, m \in Several}
  \cup {Instance(t, "by group", m) : t \in SomeTables, m \in CareOnly}

(* A table for mr-match -t, not stored by group, with bodies but no heads  *)
(* in group 2, and with items that are a body in one row and a head in     *)
(* another.                                                                *)
Shown(g, i, body, head) == [gid |-> g, item |-> i, body |-> body, head |-> head]
GapTable ==
  {<<Shown(3, 2, TRUE, TRUE), Shown(1, 1, TRUE, TRUE), Shown(2, 1, TRUE, FALSE), Shown(1, 2, TRUE, FALSE),
     Shown(3, 1, TRUE, TRUE), Shown(1, 3, FALSE, TRUE), Shown(3, 3, TRUE, TRUE), Shown(2, 2, TRUE, FALSE)>>}
=============================================================================
