----------------------------- MODULE SourceData -----------------------------
(***************************************************************************)
(* The source data as a mining algorithm reads it: the queries that        *)
(* PrepareDataUtils builds for a minerule, and the cursors over their      *)
(* results which a Transaction advances one group at a time.               *)
(*                                                                         *)
(* A source row has a group, an item, and says whether it satisfies the    *)
(* body and the head part of the mining condition; a condition that        *)
(* compares body and head attributes is a relation between items.  Groups  *)
(* and items stand for attribute lists, compared as their keys are.        *)
(***************************************************************************)
EXTENDS Ordering

(* The result of a query over table t: the given rows of it, a set of row  *)
(* numbers.  ORDER BY is added only for algorithms that require sorted     *)
(* gids.                                                                   *)
Ordered(t, rows, sorted) ==
  LET at == Listed[{<<IF sorted THEN t[k].gid ELSE 0, k>> : k \in rows}]
  IN  [k \in DOMAIN at |-> t[at[k][2]]]

(* The rows come by group.                                                 *)
ByGid(q) == \A i, j \in 1 .. Len(q) : i < j => q[i].gid <= q[j].gid

BodyRowsOfHeads(t) == {k \in DOMAIN t : t[k].body /\ t[k].head}
BodyRows(t) == {k \in DOMAIN t : t[k].body}
HeadRows(t) == {k \in DOMAIN t : t[k].head}

(* The table joined with itself on the group.  Pairs of an item with       *)
(* itself are left out when bodies and heads have the same attributes.     *)
Product(t) ==
  [k \in 1 .. Len(t) * Len(t) |->
     [body |-> t[((k - 1) \div Len(t)) + 1], head |-> t[((k - 1) % Len(t)) + 1]]]

JoinsItself(q, same, cross) ==
  /\ q.body.gid = q.head.gid
  /\ q.body.body /\ q.head.head
  /\ <<q.body.item, q.head.item>> \in cross

Joins(q, same, cross) ==
  /\ q.body.gid = q.head.gid
  /\ ~(same /\ q.body.item = q.head.item)
  /\ q.body.body /\ q.head.head
  /\ <<q.body.item, q.head.item>> \in cross

JoinedRows(t, same, cross) ==
  LET product == Product(t) IN {k \in DOMAIN product : Joins(product[k], same, cross)}
Pairs(t) ==
  [k \in DOMAIN Product(t) |->
     LET q == Product(t)[k] IN [gid |-> q.body.gid, body |-> q.body.item, head |-> q.head.item]]

(* getTotGroups counts the groups of the whole source table.               *)
TotGroups(t) == Cardinality({t[i].gid : i \in DOMAIN t})

(* A cursor over a query result q is the position of its row: it is after  *)
(* the last one at Len(q) + 1.                                             *)
AfterLast(q, at) == at > Len(q)

(* findGid skips the smaller groups and reports whether it found gid.      *)
FindGidStrict(q, gid, at) == at
FindGid(q, gid, at) ==
  Least({i \in at .. Len(q) + 1 : AfterLast(q, i) \/ ~(gid > q[i].gid)})
Found(q, gid, at) == ~AfterLast(q, at) /\ q[at].gid = gid

(* loadBody, loadHead and load read on as long as the group is gid.        *)
LoadEnd(q, gid, at) ==
  Least({i \in at .. Len(q) + 1 : AfterLast(q, i) \/ q[i].gid # gid})
Loaded(q, gid, at) == {q[i] : i \in at .. LoadEnd(q, gid, at) - 1}
=============================================================================
