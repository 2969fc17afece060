------------------------- MODULE MCIncrementalMining -------------------------
(* Instances of IncrementalMining for TLC.                                 *)
EXTENDS IncrementalMining

AnyItem == [body |-> Items, head |-> Items]
NoCondition == [clauses |-> <<AnyItem>>, written |-> FALSE, sides |-> {}]
OnSides(sides) == [clauses |-> <<AnyItem>>, written |-> TRUE, sides |-> sides]
OnItems(clauses) == [clauses |-> clauses, written |-> TRUE, sides |-> Sides]

Asking(condition, num, den) ==
  [condition |-> condition, num |-> num, den |-> den, conf |-> <<0, 1>>,
   body |-> <<1, 2>>, head |-> <<1, 2>>]

(* A cell of a table is absent, or its row satisfies the past condition    *)
(* only, or the new one as well, as a body and as a head.                  *)
Marks == {"absent", "past", "body", "head", "both"}

(* A cell with two rows, of which one satisfies the new condition.         *)
RowsOf(c, mark, sides) ==
  LET Row(b, h) == [gid |-> c[1], item |-> c[2], pastBody |-> TRUE, pastHead |-> TRUE,
                    body |-> b \/ "body" \notin sides, head |-> h \/ "head" \notin sides]
  IN CASE mark = "absent" -> <<>>
       [] mark = "past" -> <<Row(FALSE, FALSE)>>
       [] mark = "body" -> <<Row(TRUE, FALSE)>>
       [] mark = "head" -> <<Row(FALSE, TRUE)>>
       [] mark = "both" -> <<Row(TRUE, TRUE)>>
       [] mark = "twice" -> <<Row(TRUE, TRUE), Row(FALSE, FALSE)>>

Cells == {1, 2, 3} \X {1, 2}
Table(t, sides) ==
  RowsOf(<<1, 1>>, t[<<1, 1>>], sides) \o RowsOf(<<1, 2>>, t[<<1, 2>>], sides)
  \o RowsOf(<<2, 1>>, t[<<2, 1>>], sides) \o RowsOf(<<2, 2>>, t[<<2, 2>>], sides)
  \o RowsOf(<<3, 1>>, t[<<3, 1>>], sides) \o RowsOf(<<3, 2>>, t[<<3, 2>>], sides)

Tables ==
  {t \in [Cells -> Marks \cup {"twice"}] :
     /\ t[<<1, 1>>] \in {"past", "both", "twice"} /\ t[<<1, 2>>] \in {"both", "head"}
     /\ t[<<2, 1>>] \in Marks /\ t[<<2, 2>>] \in {"past", "both", "absent"}
     /\ t[<<3, 1>>] \in {"absent", "body", "both"} /\ t[<<3, 2>>] \in {"both", "head"}}

TreeJob(t, option, sides, past) ==
  [rows |-> Table(t, sides), itemDependent |-> FALSE, relationship |-> "Dominance",
   option |-> option, new |-> Asking(OnSides(sides), 1, 2), pasts |-> <<Asking(past, 1, 3)>>,
   formula |-> <<>>]

TreeJobs ==
  {TreeJob(t, option, Sides, past) :
     t \in Tables, option \in {"Constructive", "Destructive"}, past \in {NoCondition, OnSides(Sides)}}
  \cup {TreeJob(t, "Destructive", {"body"}, past) :
     t \in {u \in Tables : u[<<2, 1>>] = "both"}, past \in {NoCondition, OnSides({"body"})}}

(* A group that has no head, or no body, in the past minerule.             *)
Without(side, r) ==
  IF side = "head" THEN [r EXCEPT !.pastHead = FALSE, !.head = FALSE]
  ELSE [r EXCEPT !.pastBody = FALSE, !.body = FALSE]
OneSidedJobs ==
  {[j EXCEPT !.rows = [k \in DOMAIN @ |-> IF @[k].gid = g THEN Without(side, @[k]) ELSE @[k]]] :
     j \in {i \in TreeJobs : i.option = "Destructive"}, g \in {1, 3}, side \in Sides}

(* The filter: two clauses on three of four items, pasts with less support *)
(* or with more confidence, and narrower cardinalities.                    *)
Low == [body |-> {1, 2}, head |-> {3}]
High == [body |-> {3}, head |-> {1, 2}]
ItemTable ==
  LET Row(g, i) == [gid |-> g, item |-> i, body |-> TRUE, head |-> TRUE,
                    pastBody |-> TRUE, pastHead |-> TRUE]
  IN <<Row(1, 1), Row(1, 2), Row(1, 3), Row(2, 1), Row(2, 2), Row(2, 3),
       Row(3, 1), Row(3, 2), Row(3, 3)>>
Sparse ==
  {SelectSeq(ItemTable, LAMBDA r : r.item \in g[r.gid]) :
     g \in [{1, 2, 3} -> {{1, 2, 3}, {1, 2}, {1, 3}, {2, 3}, {3}}]}

IdJob(t, new, pasts, formula) ==
  [rows |-> t, itemDependent |-> TRUE,
   relationship |-> IF formula = <<>> THEN "Dominance" ELSE "Combination",
   option |-> "Autochoose", new |-> new, pasts |-> pasts, formula |-> formula]

Both == Asking(OnItems(<<Low, High>>), 1, 3)
FilterJobs ==
  {IdJob(t, new, <<past>>, <<>>) :
     t \in Sparse,
     new \in {Both, [Both EXCEPT !.body = <<1, 1>>], [Both EXCEPT !.conf = <<1, 2>>]},
     past \in {Asking(NoCondition, 1, 3), [Asking(NoCondition, 1, 3) EXCEPT !.conf = <<1, 2>>]}}

(* A minerule whose two clauses are the conditions of two pasts, and one   *)
(* that is the intersection of two others.                                 *)
Wide == [body |-> {1, 2, 3}, head |-> {3}]
Deep == [body |-> {1, 2}, head |-> {1, 2, 3}]
CombinatorJobs ==
  {IdJob(t, Both, <<Asking(OnItems(<<Wide>>), 1, 3), Asking(OnItems(<<Deep>>), 1, 3),
                    Asking(OnItems(<<High>>), 1, 3)>>, <<<<1, 2>>, <<3>>>>) : t \in Sparse}

NoneJobs ==
  {[IdJob(t, Both, <<Asking(NoCondition, 1, 3)>>, <<>>) EXCEPT !.itemDependent = FALSE] : t \in Sparse}

(* Past and new minerule look for heads of two items; group g loses one.   *)
TwoHeads == [Asking(OnSides(Sides), 1, 3) EXCEPT !.head = <<2, 2>>]
TwoHeadJobs ==
  {[rows |-> [k \in DOMAIN t |->
                IF t[k].gid = g /\ t[k].item = 1 THEN [t[k] EXCEPT !.body = FALSE, !.head = FALSE] ELSE t[k]],
    itemDependent |-> FALSE, relationship |-> "Dominance", option |-> option,
    new |-> TwoHeads, pasts |-> <<TwoHeads>>, formula |-> <<>>] :
     t \in Sparse, g \in {1, 3}, option \in {"Constructive", "Destructive"}}

SeveralJobs ==
  TreeJobs \cup OneSidedJobs \cup TwoHeadJobs \cup FilterJobs \cup CombinatorJobs \cup NoneJobs

(* The hypothesis of the proofs holds of the jobs checked.                 *)
ASSUME AnswerableJobs == JobsAnswerable
=============================================================================
