----------------------------- MODULE MCPastQueries -----------------------------
(* Instances of PastQueries for TLC. *)
EXTENDS PastQueries, FiniteSetsExt

\* Half units: the literals 1 and 2, and 1 and 1.5.
WholeNumbers == [l \in Literals |-> IF l = "1" THEN 2 ELSE 4]
Fractions == [l \in Literals |-> IF l = "1" THEN 2 ELSE 3]

Atom(l, op, r) == [left |-> l, op |-> op, right |-> r]

\* Sorted as texts. The first six are conditions on rules, the fifth compares two attributes;
\* the last two are conditions on groups.
EightAtoms ==
  << Atom("BODY.price", "<", "2"), Atom("BODY.price", "<=", "1"),
     Atom("BODY.price", "<>", "2"), Atom("BODY.price", ">=", "1"),
     Atom("BODY.price", ">", "HEAD.price"), Atom("HEAD.price", "=", "2"),
     Atom("day", "<", "2"), Atom("day", "<=", "1") >>

Always == {}

Query(mc, gc, cc, sup, conf, size) ==
  [form |-> "rules", sup |-> sup, conf |-> conf, body |-> <<1, 2>>, head |-> <<1, 1>>,
   conditions |-> <<mc, gc, cc>>, size |-> size]

OnRules(p) == Query(p, Always, Always, 1, 1, 1)

Conjunctions == kSubset(1, 1 .. 6) \cup {{1, 3}, {2, 3}, {2, 4}, {1, 5}, {4, 6}, {5, 6}}
Conditions ==
  {Always} \cup {{c} : c \in Conjunctions}
  \cup {{{1}, {4}}, {{2}, {3}}, {{2, 4}, {6}}, {{1, 3}, {2}}, {{3}, {5, 6}}}

\* Every condition against every other one.
Pairs == {<<OnRules(p), <<OnRules(q)>>>> : p, q \in Conditions}

\* Conditions of groups and clusters, thresholds, sizes, several past minerules.
Special == Query({{2}}, {{8}}, Always, 2, 2, 1)
General == Query({{1}}, Always, {{3}}, 1, 1, 3)
Clusters == Query({{2}}, {{8}}, {{2}}, 2, 2, 2)
Smaller == Query({{1}, {6}}, Always, Always, 1, 1, 2)
Strict == Query({{1}}, Always, Always, 2, 1, 1)
Larger == [OnRules({{1}}) EXCEPT !.size = 4, !.body = <<1, 3>>]
Other == [OnRules({{1}}) EXCEPT !.form = "itemsets"]

\* Conditions that are the union of others.
Left == OnRules({{2}})
Right == OnRules({{3, 4}})
Both == OnRules({{2}, {3}})
Nested == OnRules({{2}, {4, 6}})
Cross == OnRules({{2}, {5}})

\* An earlier minerule without a condition on rules, on other clusters.
Unconditional == Query(Always, Always, {{2}}, 1, 1, 3)

\* The same condition and none at all, on other clusters: unrelated to Here, but candidates.
Elsewhere == Query({{2}}, Always, {{6}}, 1, 1, 1)
Here == Query({{2}}, Always, {{2}}, 1, 1, 1)
Anything == Query(Always, Always, {{4}}, 1, 1, 1)

Several ==
  {<<t, <<p, q>>>> : t \in {Special, Clusters}, p, q \in {General, Smaller, Larger, Other, Special}}
  \cup {<<Both, <<Left, Right>>>>, <<Nested, <<Left, Other, OnRules({{4}}), OnRules({{6}})>>>>,
        <<Cross, <<Left, OnRules({{5}})>>>>, <<Left, <<OnRules({{6}}), Unconditional>>>>,
        <<Here, <<Elsewhere, Anything>>>>, <<General, <<Special>>>>, <<Special, <<>>>>, <<Left, <<Strict>>>>}

AllRequests == Pairs \cup Several

AllMinerules ==
  {r[1] : r \in AllRequests} \cup UNION {{r[2][i] : i \in DOMAIN r[2]} : r \in AllRequests}

\* The hypotheses of the proofs; fractions are there to violate them.
ASSUME LiteralsApart == NumberOf = WholeNumbers => Separated /\ Dense

=============================================================================
