----------------------------- MODULE RuleMining -----------------------------
(***************************************************************************)
(* One extraction of the rules of a minerule: the choice of the algorithm, *)
(* the reading of the source data group by group, and the three miners.    *)
(*                                                                         *)
(* BFSWithGidsNoCross and BFSWithGidsAndCross keep a queue of bodies which *)
(* grows while it is scanned, and extend the heads of each recursively;    *)
(* CARE extends bodies and heads by recursion over vectors of items.  The  *)
(* calls that are still to be made are the sequence work, and one step is  *)
(* the loop of one call.  Bodies and heads are sets: the order of the      *)
(* items in them is that of the insertions into the result tables.         *)
(***************************************************************************)
EXTENDS SourceData

CONSTANTS
  Groups,      \* the values of the group attributes
  Items,       \* the values of the body and of the head attributes
  Jobs,        \* the minerules, with their source table and the options
  Algorithms   \* ATBFSWithGidsNoCross, ATBFSWithGidsAndCross, ATCare, ...

ASSUME SourceAssumption ==
  Groups \subseteq Nat /\ Items \subseteq Nat /\ IsFiniteSet(Items)

SourceRow == [gid : Groups, item : Items, body : BOOLEAN, head : BOOLEAN]

(* support is num / den of the groups.  preferred is the algorithm of the  *)
(* options; crossing, clusters and disjunction are what the minerule needs *)
(* of an algorithm, and cross relates the items its condition compares.    *)
Job ==
  [rows : Seq(SourceRow), same : BOOLEAN, cross : SUBSET (Items \X Items),
   task : {"rules", "itemsets"}, preferred : Algorithms,
   crossing : BOOLEAN, clusters : BOOLEAN, disjunction : BOOLEAN,
   num : Nat \ {0}, den : Nat \ {0},
   minBody : Nat \ {0}, maxBody : Nat, minHead : Nat \ {0}, maxHead : Nat]

ASSUME JobsAssumption ==
  /\ \A j \in Jobs :
       /\ j \in Job
       /\ j.minBody <= j.maxBody /\ j.minHead <= j.maxHead
       /\ j.crossing \/ j.cross = Items \X Items
  /\ Algorithms = {"None", "NoCross", "AndCross", "Care", "Itemsets"}

VARIABLES
  job, algorithm, phase,
  bodies, heads,      \* the results of the body (or joined) and the head query
  bodyAt, headAt,     \* the cursors over them
  groups,             \* howManyGroups
  bodyMap, headMap,   \* the gids of each body, and of each head in CARE
  pairs,              \* the gids of each head of each body
  work,               \* the calls still to be made
  rules               \* the rules inserted so far

vars == <<job, algorithm, phase, bodies, heads, bodyAt, headAt, groups, bodyMap,
          headMap, pairs, work, rules>>

cursors == <<bodies, heads, bodyAt, headAt, groups>>
maps == <<bodyMap, headMap, pairs>>

Gids == Nat
HeadTable == [Items -> SUBSET Gids]
Call ==
  [call : {"body"}, body : SUBSET Items, gids : SUBSET Gids, last : Items, table : HeadTable]
  \cup [call : {"addHead"}, body : SUBSET Items, head : SUBSET Items, gids : SUBSET Gids,
        support : Nat, from : Nat, table : HeadTable]
  \cup [call : {"buildRules"}, body : SUBSET Items, gids : SUBSET Gids, vb : Seq(Items),
        vh : Seq(Items), max : Nat, at : Nat]
  \cup [call : {"buildHead"}, body : SUBSET Items, head : SUBSET Items, gids : SUBSET Gids,
        support : Nat, v : Seq(Items), max : Nat, at : Nat]
Rule == [body : SUBSET Items, head : SUBSET Items, gids : Nat, support : Nat]

TypeOK ==
  /\ job \in Job /\ algorithm \in Algorithms
  /\ phase \in {"choose", "read", "mine", "done", "failed"}
  /\ bodyAt \in 1 .. Len(bodies) + 1 /\ headAt \in 1 .. Len(heads) + 1
  /\ groups \in Nat
  /\ bodyMap \in HeadTable /\ headMap \in HeadTable /\ pairs \in [Items -> HeadTable]
  /\ work \in Seq(Call)
  /\ rules \in Seq(Rule)

Nowhere == [i \in Items |-> {}]

Init ==
  /\ job \in Jobs /\ algorithm = "None" /\ phase = "choose"
  /\ bodies = <<>> /\ heads = <<>> /\ bodyAt = 1 /\ headAt = 1 /\ groups = 0
  /\ bodyMap = Nowhere /\ headMap = Nowhere /\ pairs = [i \in Items |-> Nowhere]
  /\ work = <<>> /\ rules = <<>>

-----------------------------------------------------------------------------
(* Choosing the algorithm.                                                 *)

CanHandle(a, j) ==
  /\ a # "None" /\ ~j.clusters /\ ~j.disjunction
  /\ j.crossing => a = "AndCross"

Defaults(j) == IF j.task = "rules" THEN {"NoCross", "AndCross"} ELSE {"Itemsets"}

(* NoCross is tried before AndCross.                                       *)
Chosen(j) ==
  IF CanHandle(j.preferred, j) THEN j.preferred
  ELSE IF "NoCross" \in Defaults(j) /\ CanHandle("NoCross", j) THEN "NoCross"
  ELSE IF \E a \in Defaults(j) : CanHandle(a, j)
         THEN CHOOSE a \in Defaults(j) : CanHandle(a, j)
  ELSE "None"

SortedGids(a) == a \in {"NoCross", "AndCross"}

(* The tables whose rows no ORDER BY sorts are stored by group.            *)
GroupedTables ==
  \A j \in Jobs :
    j.task = "rules" => Chosen(j) = "None" \/ SortedGids(Chosen(j)) \/ ByGid(j.rows)

(* buildHead of CARE takes no head that is an item of the body, which a   *)
(* minerule with different body and head attributes could have.            *)
CareDisjoint ==
  \A j \in Jobs : Chosen(j) = "Care" /\ ~j.same =>
    \A k, l \in DOMAIN j.rows : j.rows[k].body /\ j.rows[l].head => j.rows[k].item # j.rows[l].item

(* Without an algorithm, and for itemsets, whose empty head list violates  *)
(* an assertion of PrepareDataUtils, the program ends.                     *)
RefuseUnhandled ==
  /\ phase = "choose" /\ Chosen(job) = "None"
  /\ phase' = "failed"
  /\ UNCHANGED <<job, algorithm, cursors, maps, work, rules>>

Refuse ==
  /\ phase = "choose"
  /\ Chosen(job) = "None" \/ job.task = "itemsets"
  /\ phase' = "failed"
  /\ UNCHANGED <<job, algorithm, cursors, maps, work, rules>>

Joined(t) == Ordered(Pairs(t), JoinedRows(t, job.same, job.cross), TRUE)

Prepare ==
  LET a == Chosen(job) IN
  /\ phase = "choose" /\ a # "None" /\ job.task = "rules"
  /\ algorithm' = a
  /\ bodies' = IF a = "AndCross" THEN Joined(job.rows)
               ELSE Ordered(job.rows, BodyRows(job.rows), SortedGids(a))
  /\ heads' = IF a = "AndCross" THEN <<>>
              ELSE Ordered(job.rows, HeadRows(job.rows), SortedGids(a))
  /\ phase' = IF a = "NoCross" /\ (bodies' = <<>> \/ heads' = <<>>)
                THEN "failed"           \* cannot find the initial gid
                ELSE "read"
  /\ UNCHANGED <<job, bodyAt, headAt, groups, maps, work, rules>>

-----------------------------------------------------------------------------
(* Reading: one step is one iteration of the loop over the groups.         *)

Gid == bodies[bodyAt].gid
ItemsOf(rows) == {r.item : r \in rows}
BodyItems == ItemsOf(Loaded(bodies, Gid, bodyAt))

(* Where the head cursor finds the group, and the head items it loads.     *)
HeadFound == FindGid(heads, Gid, headAt)
HeadItems ==
  IF Found(heads, Gid, HeadFound) THEN ItemsOf(Loaded(heads, Gid, HeadFound)) ELSE {}

AddGid(map, items, gid) == [i \in Items |-> IF i \in items THEN map[i] \cup {gid} ELSE map[i]]

Reading(as) ==
  /\ phase = "read" /\ algorithm \in as /\ ~AfterLast(bodies, bodyAt)
  /\ groups' = groups + 1
  /\ bodyAt' = LoadEnd(bodies, Gid, bodyAt)
  /\ UNCHANGED <<job, algorithm, phase, bodies, heads, work, rules>>

AdvanceHead == headAt' = LoadEnd(heads, Gid, HeadFound)

(* NoCross: every head of the group is a head of every body of the group.  *)
ReadNoCross ==
  /\ Reading({"NoCross"}) /\ AdvanceHead
  /\ bodyMap' = AddGid(bodyMap, BodyItems, groups)
  /\ pairs' = [i \in Items |->
       IF i \in BodyItems
         THEN AddGid(pairs[i], IF job.same THEN HeadItems \ {i} ELSE HeadItems, groups)
         ELSE pairs[i]]
  /\ UNCHANGED headMap

(* AndCross: the joined rows say which heads each body has.                *)
ReadAndCross ==
  LET joined == Loaded(bodies, Gid, bodyAt)
      headsOf(i) == {r.head : r \in {q \in joined : q.body = i}}
  IN
  /\ Reading({"AndCross"})
  /\ bodyMap' = AddGid(bodyMap, {r.body : r \in joined}, groups + 1)
  /\ pairs' = [i \in Items |-> AddGid(pairs[i], headsOf(i), groups + 1)]
  /\ UNCHANGED <<headMap, headAt>>

ReadCare ==
  /\ Reading({"Care"}) /\ AdvanceHead
  /\ bodyMap' = AddGid(bodyMap, BodyItems, groups)
  /\ headMap' = AddGid(headMap, HeadItems, groups)
  /\ UNCHANGED pairs

ReadItemsets ==
  /\ Reading({"Itemsets"})
  /\ bodyMap' = AddGid(bodyMap, BodyItems, groups)
  /\ UNCHANGED <<headMap, headAt, pairs>>

-----------------------------------------------------------------------------
(* The threshold is support * totalGroups.  The breadth first miners take  *)
(* what reaches it, BitString::moreThan what exceeds its integral part.    *)
Threshold == job.num * TotGroups(job.rows)
Reaches(n) == n * job.den >= Threshold
MoreThan(n) == n > Threshold \div job.den

Mapped(q, Op(_)) == [k \in DOMAIN q |-> Op(q[k])]

StartMining(a, calls) ==
  /\ phase = "read" /\ algorithm = a /\ AfterLast(bodies, bodyAt)
  /\ phase' = "mine" /\ work' = calls
  /\ UNCHANGED <<job, algorithm, cursors, headMap, rules>>

(* pruneMap drops the infrequent heads of each body, and then the bodies   *)
(* without heads; generateRules queues the bodies that are left.           *)
PruneBodies ==
  LET kept == [i \in Items |-> [j \in Items |->
                 IF Reaches(Size(pairs[i][j])) THEN pairs[i][j] ELSE {}]]
      left == {i \in Items : \E j \in Items : kept[i][j] # {}}
      Queued(i) == [call |-> "body", body |-> {i}, gids |-> bodyMap[i], last |-> i,
                    table |-> kept[i]]
  IN
  /\ \E a \in {"NoCross", "AndCross"} : StartMining(a, Mapped(InOrder(left), Queued))
  /\ pairs' = [i \in Items |-> IF i \in left THEN kept[i] ELSE Nowhere]
  /\ bodyMap' = [i \in Items |-> IF i \in left THEN bodyMap[i] ELSE {}]

(* CARE keeps the frequent bodies, by increasing support, and all heads.   *)
PruneCare ==
  LET vb == {i \in Items : MoreThan(Size(bodyMap[i]))}
      vh == {i \in Items : headMap[i] # {}}
  IN
  /\ StartMining("Care",
       <<[call |-> "buildRules", body |-> {}, gids |-> {},
          vb |-> OrderedBy(vb, [i \in Items |-> Size(bodyMap[i])]),
          vh |-> InOrder(vh), max |-> job.maxBody, at |-> 0]>>)
  /\ UNCHANGED <<bodyMap, pairs>>

(* generateStartItemSets extracts nothing.                                 *)
PruneItemsets == StartMining("Itemsets", <<>>) /\ UNCHANGED <<bodyMap, pairs>>

-----------------------------------------------------------------------------
(* Mining: one step is one call.  Connection::insert drops the rules whose *)
(* cardinalities are out of bounds.                                        *)
Inserted(c) ==
  /\ Size(c.body) \in job.minBody .. job.maxBody
  /\ Size(c.head) \in job.minHead .. job.maxHead

AsRule(c) == [body |-> c.body, head |-> c.head, gids |-> Size(c.gids), support |-> c.support]

Calling(name, calls, found) ==
  /\ phase = "mine" /\ work # <<>> /\ Head(work).call = name
  /\ work' = calls
  /\ rules' = rules \o Selected(Mapped(found, AsRule), {k \in DOMAIN found : Inserted(found[k])})
  /\ UNCHANGED <<job, algorithm, phase, cursors, maps>>

(* The heads of a longer body: the NoCross constructor of NewRule takes    *)
(* those of the last body, the AndCross one intersects them.               *)
LongerTable(table, j) ==
  IF algorithm = "NoCross" THEN pairs[j]
  ELSE [h \in Items |-> table[h] \cap pairs[j][h]]

(* An iteration of generateRules: heads for the body, and longer bodies    *)
(* at the end of the queue.                                                *)
GenerateRules ==
  LET b == Head(work)
      longer == {j \in Items : /\ Size(b.body) < job.maxBody /\ j > b.last
                               /\ pairs[j] # Nowhere
                               /\ Reaches(Size(b.gids \cap bodyMap[j]))}
      Queued(j) == [call |-> "body", body |-> b.body \cup {j},
                    gids |-> b.gids \cap bodyMap[j], last |-> j,
                    table |-> LongerTable(b.table, j)]
      heading == [call |-> "addHead", body |-> b.body, head |-> {}, gids |-> b.gids,
                  support |-> Size(b.gids), from |-> 0, table |-> b.table]
  IN Calling("body", <<heading>> \o Tail(work) \o Mapped(InOrder(longer), Queued), <<>>)

FromHead(c) == {j \in Items : j >= c.from}

(* addHead extends the head by each later one, and calls itself.           *)
AddHead ==
  LET c == Head(work)
      next == {j \in FromHead(c) :
                 /\ Size(c.head) < job.maxHead /\ c.table[j] # {}
                 /\ ~(algorithm = "NoCross" /\ job.same /\ j \in c.body)
                 /\ Reaches(Size(c.gids \cap c.table[j]))}
      Longer(j) == [c EXCEPT !.head = @ \cup {j}, !.gids = @ \cap c.table[j], !.from = j + 1]
      calls == Mapped(InOrder(next), Longer)
  IN Calling("addHead", calls \o Tail(work), calls)

(* Whether the recursion over the items goes on.                           *)
Deepens(c) == c.max > 1

(* The heads of v after position at that buildHead keeps.                  *)
KeptHeads(v, at, body, gids) ==
  Selected(v, {k \in at + 1 .. Len(v) : v[k] \notin body /\ MoreThan(Size(gids \cap headMap[v[k]]))})

(* buildRules: the frequent extensions of a body; buildHead is called for  *)
(* each one, and then buildRules with the heads that buildHead kept.       *)
BuildRules ==
  LET c == Head(work)
      Gathered(j) == IF c.body = {} THEN bodyMap[j] ELSE c.gids \cap bodyMap[j]
      vb == Selected(c.vb, {k \in c.at + 1 .. Len(c.vb) : MoreThan(Size(Gathered(c.vb[k])))})
      Heading(j) == [call |-> "buildHead", body |-> c.body \cup {j}, head |-> {},
                     gids |-> Gathered(j), support |-> Size(Gathered(j)),
                     v |-> c.vh, max |-> job.maxHead, at |-> 0]
      Deeper(j, k) == [call |-> "buildRules", body |-> c.body \cup {j}, gids |-> Gathered(j),
                       vb |-> vb, vh |-> KeptHeads(c.vh, 0, c.body \cup {j}, Gathered(j)),
                       max |-> c.max - 1, at |-> k]
      deeper == IF Deepens(c) THEN [k \in DOMAIN vb |-> Deeper(vb[k], k)] ELSE <<>>
  IN Calling("buildRules", Mapped(vb, Heading) \o deeper \o Tail(work), <<>>)

BuildHead ==
  LET c == Head(work)
      v == KeptHeads(c.v, c.at, c.body, c.gids)
      Longer(h, k) == [c EXCEPT !.head = @ \cup {h}, !.gids = @ \cap headMap[h],
                                !.v = v, !.max = @ - 1, !.at = k]
      found == [k \in DOMAIN v |-> Longer(v[k], k)]
  IN Calling("buildHead", (IF Deepens(c) THEN found ELSE <<>>) \o Tail(work), found)

(* connection.finalize(), and back to executeMinerule.                     *)
Finish ==
  /\ phase = "mine" /\ work = <<>>
  /\ phase' = "done"
  /\ UNCHANGED <<job, algorithm, cursors, maps, work, rules>>

Next ==
  \/ Refuse \/ Prepare
  \/ ReadNoCross \/ ReadAndCross \/ ReadCare \/ ReadItemsets
  \/ PruneBodies \/ PruneCare \/ PruneItemsets
  \/ GenerateRules \/ AddHead \/ BuildRules \/ BuildHead
  \/ Finish

Spec == Init /\ [][Next]_vars /\ WF_vars(Next)

-----------------------------------------------------------------------------
(* What the rules of the minerule are, from the rows of the source table.  *)

RowsOf(g, side) ==
  {job.rows[k].item : k \in {i \in DOMAIN job.rows :
     /\ job.rows[i].gid = g
     /\ IF side = "body" THEN job.rows[i].body ELSE job.rows[i].head}}

(* The items with each of which group g lets body item b be combined.      *)
PartnersOf(g, b) ==
  {h \in RowsOf(g, "head") : <<b, h>> \in job.cross /\ ~(job.same /\ b = h)}

(* Group g supports the body: without a condition across body and head it  *)
(* has the items, with one it has them in pairs with some head.            *)
HasBody(g, B) ==
  /\ B \subseteq RowsOf(g, "body")
  /\ algorithm = "AndCross" => \A b \in B : PartnersOf(g, b) # {}

HasRule(g, B, H) ==
  /\ B \subseteq RowsOf(g, "body") /\ H \subseteq RowsOf(g, "head")
  /\ \A b \in B : \A h \in H : <<b, h>> \in job.cross /\ ~(job.same /\ b = h)

SupportOf(Has(_)) == Size({g \in Groups : Has(g)})

Enough(n) == IF algorithm = "Care" THEN MoreThan(n) ELSE Reaches(n)

Counted(B, H) ==
  [body |-> B, head |-> H,
   gids |-> SupportOf(LAMBDA g : HasRule(g, B, H)), support |-> SupportOf(LAMBDA g : HasBody(g, B))]

Expected ==
  {r \in {Counted(B, H) : B \in (SUBSET Items) \ {{}}, H \in (SUBSET Items) \ {{}}} :
     /\ Size(r.body) \in job.minBody .. job.maxBody
     /\ Size(r.head) \in job.minHead .. job.maxHead
     /\ r.gids > 0 /\ Enough(r.gids)}

(* The number the reading loop gives to the group g.                       *)
NumberOf(g) ==
  (IF algorithm = "AndCross" THEN 1 ELSE 0) + Size({bodies[i].gid : i \in
     {k \in DOMAIN bodies : bodies[k].gid < g}})

GroupsRead == {bodies[i].gid : i \in 1 .. bodyAt - 1}

(* The two cursors stay in step: the gids of every body and of every head  *)
(* are the numbers of the groups read so far that hold it (Transaction.hpp *)
(* loads a table in group sized chunks, whatever the other table holds).   *)
Aligned ==
  phase = "read" /\ algorithm # "AndCross" =>
    \A i \in Items :
      /\ bodyMap[i] = {NumberOf(g) : g \in {h \in GroupsRead : i \in RowsOf(h, "body")}}
      /\ algorithm = "Care" =>
           headMap[i] = {NumberOf(g) : g \in {h \in GroupsRead : i \in RowsOf(h, "head")}}

(* The rules inserted are those of the minerule, each once, with the       *)
(* number of groups that support it and its body, when the rows came by    *)
(* group.  The result tables have no key that would keep a rule out.       *)
Exact ==
  phase = "done" /\ algorithm # "Itemsets" =>
    /\ {rules[k] : k \in DOMAIN rules} = Expected
    /\ Len(rules) = Size(Expected)

(* An extraction that gives up, although a rule miner could handle the     *)
(* minerule, has no rule to find.                                          *)
NothingLost ==
  phase = "failed" /\ job.task = "rules" /\ ~job.clusters /\ ~job.disjunction
    => Expected = {}

(* The loops end: the queue and the vectors of items run out.              *)
Ends == <>(phase \in {"done", "failed"})
=============================================================================
