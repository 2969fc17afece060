-------------------------- MODULE IncrementalMining --------------------------
(***************************************************************************)
(* What executeIncrementalAlgorithm makes of past results: the filter for  *)
(* item dependent conditions, the combination of several results, and the  *)
(* constructive and the destructive tree, which count the past rules again *)
(* on the groups of the source table.                                      *)
(*                                                                         *)
(* A row says which of the two parts of the new condition and of the past  *)
(* one it satisfies.  A tree has a node for every prefix of a past body,   *)
(* and below it one for every prefix of a head; the functions bodySupp and *)
(* ruleSupp hold the support of the nodes.  A path, a body and a head are  *)
(* sets: past results are taken to have their items in one order, which is *)
(* not so for results of CARE combined with those of another miner.        *)
(***************************************************************************)
EXTENDS SourceData, Integers

CONSTANTS
  Groups,  \* the values of the group attributes
  Items,   \* the values of the body and of the head attributes
  Jobs     \* a minerule, its source table, and the past minerules it is answered from

ASSUME SourceAssumption ==
  Groups \subseteq Nat /\ Items \subseteq Nat /\ IsFiniteSet(Items)

Sides == {"body", "head"}
Clause == [body : SUBSET Items, head : SUBSET Items]
Condition == [clauses : Seq(Clause), written : BOOLEAN, sides : SUBSET Sides]
Minerule == [condition : Condition, num : Nat \ {0}, den : Nat \ {0},
             conf : Nat \X Nat, body : Nat \X Nat, head : Nat \X Nat]
PastRow == [gid : Groups, item : Items, body : BOOLEAN, head : BOOLEAN,
            pastBody : BOOLEAN, pastHead : BOOLEAN]

(* A clause holds the items its item dependent predicates accept.  sides   *)
(* are those a context dependent condition names; written is FALSE without *)
(* a mining condition.  formula is a disjunction of conjunctions of pasts. *)
Job ==
  [rows : Seq(PastRow), itemDependent : BOOLEAN, relationship : {"Dominance", "Combination"},
   option : {"Constructive", "Destructive", "Autochoose"}, new : Minerule,
   pasts : Seq(Minerule), formula : Seq(Seq(Nat))]

ASSUME JobsAssumption == Jobs \subseteq Job /\ 0 \notin Groups

VARIABLES
  job, algorithm, phase,
  results,             \* the rules of each past result
  left,                \* the rules of the past result that are still to be read
  query, cursor,       \* the queries over the source table, and the cursors over them
  chunk,               \* the groups DestrTree holds, and which one it reads next
  bodySupp, ruleSupp,  \* the supports of the nodes of the tree
  disjunct, conjunct, curConj, union,   \* where ResultCombinator is
  rules                \* the rules inserted into the new result

tree == <<bodySupp, ruleSupp>>
combination == <<disjunct, conjunct, curConj, union>>
reading == <<query, cursor, chunk>>
vars == <<job, algorithm, phase, results, left, reading, tree, combination, rules>>

NoGroup == 0   \* ItemType(), which precedes every group

Rule == [body : SUBSET Items, head : SUBSET Items, gids : Int, support : Int]
Queries == {"b", "h", "bOut", "hOut"}

TypeOK ==
  /\ job \in Job /\ results \in Seq(SUBSET Rule) /\ left \subseteq Rule
  /\ algorithm \in {"None", "Filter", "Combinator", "Constructive", "Destructive"}
  /\ phase \in {"choose", "load", "read", "filter", "combine", "write", "done", "extraction", "failed", "crashed"}
  /\ \A q \in Queries : cursor[q] \in 1 .. Len(query[q]) + 1
  /\ \A B \in DOMAIN bodySupp : B \subseteq Items /\ bodySupp[B] \in Int
  /\ \A p \in DOMAIN ruleSupp : p[1] \in DOMAIN bodySupp /\ p[2] \subseteq Items /\ ruleSupp[p] \in Int
  /\ curConj \subseteq Rule /\ union \subseteq Rule /\ rules \subseteq Rule

-----------------------------------------------------------------------------
(* What a condition means: the rows and the clauses of the minerule.       *)

AsPast(t) == [k \in DOMAIN t |-> [t[k] EXCEPT !.body = t[k].pastBody, !.head = t[k].pastHead]]

ItemsOf(t, g, side) ==
  {t[k].item : k \in {i \in DOMAIN t : t[i].gid = g /\ t[i][side]}}

Supports(t, S, side) == {g \in Groups : S \subseteq ItemsOf(t, g, side)}

Accepts(condition, B, H) ==
  \E k \in DOMAIN condition.clauses : B \subseteq condition.clauses[k].body /\ H \subseteq condition.clauses[k].head

Frequent(m, n) == n * m.den >= m.num * TotGroups(job.rows)
Confident(c, r) == r.gids * c[2] >= c[1] * r.support
Within(r, m) ==
  /\ Size(r.body) \in m.body[1] .. m.body[2]
  /\ Size(r.head) \in m.head[1] .. m.head[2]

Counts(t, B, H) ==
  [body |-> B, head |-> H, support |-> Size(Supports(t, B, "body")),
   gids |-> Size(Supports(t, B, "body") \cap Supports(t, H, "head"))]

(* The rules that minerule m finds in the table t.                         *)
Answer(m, t) ==
  LET sides == ((SUBSET Items) \ {{}}) \X ((SUBSET Items) \ {{}})
      accepted == {p \in sides : p[1] \cap p[2] = {} /\ Accepts(m.condition, p[1], p[2])}
  IN {r \in {Counts(t, p[1], p[2]) : p \in accepted} :
        r.gids > 0 /\ Frequent(m, r.gids) /\ Within(r, m)}

-----------------------------------------------------------------------------
Empty == <<>>   \* a tree without nodes
NoRules == {}

Init ==
  /\ job \in Jobs /\ algorithm = "None" /\ phase = "choose"
  /\ results = <<>> /\ left = NoRules
  /\ query = [q \in Queries |-> <<>>] /\ cursor = [q \in Queries |-> 1]
  /\ chunk = [gb |-> NoGroup, b |-> {}, bOut |-> {}, gh |-> NoGroup, h |-> {}, hOut |-> {},
              newBody |-> TRUE, newHead |-> TRUE]
  /\ bodySupp = Empty /\ ruleSupp = Empty
  /\ disjunct = 1 /\ conjunct = 1 /\ curConj = NoRules /\ union = NoRules
  /\ rules = NoRules

(* newIncrementalAlgorithm; without one, executeMinerule extracts anew.    *)
Algorithm ==
  IF job.itemDependent
    THEN IF job.relationship = "Combination" THEN "Combinator" ELSE "Filter"
  ELSE IF ~job.new.condition.written \/ Len(job.new.condition.clauses) > 1 THEN "None"
  ELSE IF job.option = "Destructive" THEN "Destructive" ELSE "Constructive"

(* Queries that are the past condition but not the new one: an empty past  *)
(* part makes no SQL, and an empty new part excludes nothing.              *)
NotQuery2(t, side) ==
  {k \in DOMAIN t : side \in job.new.condition.sides => ~t[k][side]}

QueryFails ==
  \E side \in Sides : job.pasts[1].condition.written /\ side \notin job.pasts[1].condition.sides

ByGroup(t, rows) == Ordered(t, rows, TRUE)

PrepareTree(a) ==
  LET past == AsPast(job.rows)
      t == IF a = "Constructive" THEN job.rows ELSE past
      lost(rows, side) ==
        IF a = "Constructive" THEN <<>> ELSE ByGroup(past, rows \cap NotQuery2(job.rows, side))
  IN query' = [b |-> ByGroup(t, BodyRows(t)), h |-> ByGroup(t, HeadRows(t)),
               bOut |-> lost(BodyRows(past), "body"), hOut |-> lost(HeadRows(past), "head")]

Choose ==
  /\ phase = "choose"
  /\ algorithm' = Algorithm
  /\ results' = [k \in DOMAIN job.pasts |-> Answer(job.pasts[k], AsPast(job.rows))]
  /\ left' = results'[1]
  /\ CASE Algorithm = "None" -> phase' = "extraction" /\ UNCHANGED query
       [] Algorithm = "Filter" -> phase' = "filter" /\ UNCHANGED query
       [] Algorithm = "Combinator" -> phase' = "combine" /\ UNCHANGED query
       [] Algorithm = "Destructive" /\ QueryFails -> phase' = "failed" /\ UNCHANGED query
       [] OTHER -> phase' = "load" /\ PrepareTree(Algorithm)
  /\ UNCHANGED <<job, cursor, chunk, tree, combination, rules>>

-----------------------------------------------------------------------------
(* IDIncrementalAlgorithm.  The past result is read from the confidence of *)
(* the past minerule on; the connection drops what is too short or long.   *)

(* QueryResult::Iterator yields the rules in an order of the database.     *)
NextRule == CHOOSE r \in left : TRUE

AnyClause(r) ==
  /\ \E k \in DOMAIN job.new.condition.clauses : r.body \subseteq job.new.condition.clauses[k].body
  /\ \E k \in DOMAIN job.new.condition.clauses : r.head \subseteq job.new.condition.clauses[k].head
CheckInValidRules(r) == Accepts(job.new.condition, r.body, r.head)

FilterRule ==
  LET r == NextRule IN
  /\ phase = "filter" /\ left # NoRules
  /\ left' = left \ {r}
  /\ rules' = IF /\ Confident(job.pasts[1].conf, r)
                 /\ CheckInValidRules(r) /\ Within(r, job.new)
              THEN rules \cup {r} ELSE rules
  /\ UNCHANGED <<job, algorithm, phase, results, reading, tree, combination>>

FilterEnd ==
  /\ phase = "filter" /\ left = NoRules
  /\ phase' = "done"
  /\ UNCHANGED <<job, algorithm, results, left, reading, tree, combination, rules>>

-----------------------------------------------------------------------------
(* ResultCombinator: load reads one past result, from the thresholds of    *)
(* its minerule on; rules are compared by body and head.                   *)

Load(i) == {r \in results[i] : Confident(job.pasts[i].conf, r)}
SameRule(r, s) == r.body = s.body /\ r.head = s.head
Intersect(R, S) == {r \in R : \E s \in S : SameRule(r, s)}
UniteFirst(R, S) == IF R = {} THEN S ELSE R
Unite(R, S) == R \cup {s \in S : ~\E r \in R : SameRule(r, s)}

Combining ==
  /\ phase = "combine" /\ disjunct <= Len(job.formula)
  /\ UNCHANGED <<job, algorithm, phase, results, left, reading, tree, rules>>

LoadConjunct ==
  LET conjuncts == job.formula[disjunct] IN
  /\ Combining /\ conjunct <= Len(conjuncts)
  /\ curConj' = IF conjunct = 1 THEN Load(conjuncts[1])
                ELSE Intersect(curConj, Load(conjuncts[conjunct]))
  /\ conjunct' = conjunct + 1
  /\ UNCHANGED <<disjunct, union>>

UniteConjunct ==
  /\ Combining /\ conjunct > Len(job.formula[disjunct])
  /\ union' = Unite(union, curConj)
  /\ curConj' = NoRules /\ conjunct' = 1 /\ disjunct' = disjunct + 1

SaveCombination ==
  /\ phase = "combine" /\ disjunct > Len(job.formula)
  /\ rules' = {r \in union : Within(r, job.new)}
  /\ phase' = "done"
  /\ UNCHANGED <<job, algorithm, results, left, reading, tree, combination>>

-----------------------------------------------------------------------------
(* The trees.                                                              *)

Prefixes(S) == {{j \in S : j <= i} : i \in S}

(* insertItemSetB gives the support to the last node only, insertItemSetH  *)
(* also to the nodes it creates on the way.                                *)
InsertBody(B, s) ==
  [N \in DOMAIN bodySupp \cup Prefixes(B) |->
     IF N = B THEN s ELSE IF N \in DOMAIN bodySupp THEN bodySupp[N] ELSE 0]
InsertHead(B, H, s) ==
  [p \in DOMAIN ruleSupp \cup ({B} \X Prefixes(H)) |->
     IF p = <<B, H>> \/ p \notin DOMAIN ruleSupp THEN s ELSE ruleSupp[p]]

(* insertRulesInStructure: one iteration per past rule.                    *)
Insert ==
  LET r == NextRule
      destructive == algorithm = "Destructive"
  IN
  /\ phase = "load" /\ left # NoRules
  /\ left' = left \ {r}
  /\ bodySupp' = InsertBody(r.body, IF destructive THEN r.support ELSE 0)
  /\ ruleSupp' = InsertHead(r.body, r.head, IF destructive THEN r.gids ELSE 0)
  /\ UNCHANGED <<job, algorithm, phase, results, reading, combination, rules>>

StartReading ==
  /\ phase = "load" /\ left = NoRules
  /\ phase' = "read"
  /\ UNCHANGED <<job, algorithm, results, left, reading, tree, combination, rules>>

ItemsIn(q, g, k) == {r.item : r \in Loaded(q, g, k)}

Add(f, nodes, n) == [x \in DOMAIN f |-> IF x \in nodes THEN f[x] + n ELSE f[x]]

(* ConstrTree: an iteration reads a group of bodies, and its heads if the  *)
(* head cursor is there.  Without heads left nothing is counted at all.    *)
ReadConstructive ==
  LET b == query["b"]
      h == query["h"]
      g == b[cursor["b"]].gid
      body == ItemsIn(b, g, cursor["b"])
      headLeft == ~AfterLast(h, cursor["h"])
      withHead == headLeft /\ h[cursor["h"]].gid = g
      head == ItemsIn(h, g, cursor["h"])
  IN
  /\ phase = "read" /\ algorithm = "Constructive" /\ ~AfterLast(b, cursor["b"])
  /\ cursor' = [cursor EXCEPT !["b"] = LoadEnd(b, g, @),
                              !["h"] = IF withHead THEN LoadEnd(h, g, @) ELSE @]
  /\ bodySupp' = IF headLeft THEN Add(bodySupp, {N \in DOMAIN bodySupp : N \subseteq body}, 1)
                 ELSE bodySupp
  /\ ruleSupp' = IF withHead
                 THEN Add(ruleSupp, {p \in DOMAIN ruleSupp : p[1] \subseteq body /\ p[2] \subseteq head}, 1)
                 ELSE ruleSupp
  /\ UNCHANGED <<job, algorithm, phase, results, left, query, chunk, combination, rules>>

(* DestrTree: what the group gives up is what it supported under the past  *)
(* condition, with an item that no longer satisfies the new one.           *)
LostBodies == {N \in DOMAIN bodySupp : N \subseteq chunk'.b /\ N \cap chunk'.bOut # {}}
LostByBody ==
  {p \in DOMAIN ruleSupp : /\ p[1] \subseteq chunk'.b /\ p[2] \subseteq chunk'.h
                           /\ p[1] \cap chunk'.bOut # {}}
LostRules ==
  {p \in DOMAIN ruleSupp : /\ p[1] \subseteq chunk'.b /\ p[2] \subseteq chunk'.h
                           /\ (p[1] \cap chunk'.bOut # {}) \/ p[2] \cap chunk'.hOut # {}}

(* A group without heads, or without bodies, makes findRulesInTree follow  *)
(* a null pointer as soon as a node of the tree asks for them.             *)
FollowsNull ==
  \/ chunk'.gb > chunk'.gh /\ DOMAIN bodySupp # {}
  \/ chunk'.gb < chunk'.gh /\ \E p \in DOMAIN ruleSupp : p[1] \subseteq chunk'.b

OnwardBehind(g, other) == g < other
Onward(g, other) == g <= other

ReadDestructive ==
  LET atBody == chunk.newBody /\ ~AfterLast(query["b"], cursor["b"])
      atHead == chunk.newHead /\ ~AfterLast(query["h"], cursor["h"])
      gb == IF atBody THEN query["b"][cursor["b"]].gid ELSE chunk.gb
      gh == IF atHead THEN query["h"][cursor["h"]].gid ELSE chunk.gh
      loads == (IF atBody THEN {"b", "bOut"} ELSE {}) \cup (IF atHead THEN {"h", "hOut"} ELSE {})
      gidOf(q) == IF q \in {"b", "bOut"} THEN gb ELSE gh
  IN
  /\ phase = "read" /\ algorithm = "Destructive"
  /\ cursor' = [q \in Queries |-> IF q \in loads THEN LoadEnd(query[q], gidOf(q), cursor[q])
                                  ELSE cursor[q]]
  /\ chunk' =
       [gb |-> gb, gh |-> gh,
        b |-> IF atBody THEN ItemsIn(query["b"], gb, cursor["b"]) ELSE chunk.b,
        bOut |-> IF atBody THEN ItemsIn(query["bOut"], gb, cursor["bOut"]) ELSE chunk.bOut,
        h |-> IF atHead THEN ItemsIn(query["h"], gh, cursor["h"]) ELSE chunk.h,
        hOut |-> IF atHead THEN ItemsIn(query["hOut"], gh, cursor["hOut"]) ELSE chunk.hOut,
        newBody |-> Onward(gb, gh), newHead |-> Onward(gh, gb)]
  /\ IF FollowsNull
       THEN phase' = "crashed" /\ UNCHANGED tree
       ELSE /\ bodySupp' = IF gb <= gh THEN Add(bodySupp, LostBodies, -1) ELSE bodySupp
            /\ ruleSupp' = IF gb = gh THEN Add(ruleSupp, LostRules, -1) ELSE ruleSupp
            /\ phase' = IF AfterLast(query["b"], cursor'["b"]) /\ AfterLast(query["h"], cursor'["h"])
                          THEN "write" ELSE "read"
  /\ UNCHANGED <<job, algorithm, results, left, query, combination, rules>>

(* extractRules writes every node of the tree with enough support.         *)
EndReading ==
  /\ phase = "read" /\ algorithm = "Constructive" /\ AfterLast(query["b"], cursor["b"])
  /\ phase' = "write"
  /\ UNCHANGED <<job, algorithm, results, left, reading, tree, combination, rules>>

ExtractRules ==
  /\ phase = "write"
  /\ phase' = "done"
  /\ rules' = {[body |-> p[1], head |-> p[2], gids |-> ruleSupp[p], support |-> bodySupp[p[1]]] :
                 p \in {n \in DOMAIN ruleSupp : Frequent(job.new, ruleSupp[n])}}
  /\ UNCHANGED <<job, algorithm, results, left, reading, tree, combination>>

Next ==
  \/ Choose
  \/ FilterRule \/ FilterEnd
  \/ LoadConjunct \/ UniteConjunct \/ SaveCombination
  \/ Insert \/ StartReading \/ ReadConstructive \/ EndReading \/ ReadDestructive \/ ExtractRules

Spec == Init /\ [][Next]_vars /\ WF_vars(Next)

-----------------------------------------------------------------------------
(* What the optimizer has established of a job.  The past minerules ask    *)
(* for no more support and take no narrower cardinalities, and what the    *)
(* new condition accepts the past one accepts, or one conjunction of the   *)
(* pasts and only that.  Conditions over items are in the clauses, those   *)
(* over their context in the rows.                                         *)
AsksNoMore(past, new) ==
  /\ past.num * new.den <= new.num * past.den
  /\ past.body[1] <= new.body[1] /\ new.body[2] <= past.body[2]
  /\ past.head[1] <= new.head[1] /\ new.head[2] <= past.head[2]

TakesAll(condition) ==
  \E k \in DOMAIN condition.clauses : condition.clauses[k] = [body |-> Items, head |-> Items]

InContext(j) ==
  /\ \A k \in DOMAIN j.rows : /\ j.rows[k].body => j.rows[k].pastBody
                              /\ j.rows[k].head => j.rows[k].pastHead
  /\ Len(j.new.condition.clauses) <= 1 =>
       TakesAll(j.new.condition) /\ TakesAll(j.pasts[1].condition)

AcceptedByPasts(j, B, H) ==
  \E d \in DOMAIN j.formula :
    /\ j.formula[d] # <<>>
    /\ \A c \in DOMAIN j.formula[d] : Accepts(j.pasts[j.formula[d][c]].condition, B, H)

OverItems(j) ==
  /\ AsPast(j.rows) = j.rows
  /\ \A B, H \in SUBSET Items :
       IF j.relationship = "Combination"
         THEN Accepts(j.new.condition, B, H) <=> AcceptedByPasts(j, B, H)
         ELSE Accepts(j.new.condition, B, H) => Accepts(j.pasts[1].condition, B, H)

Answerable(j) ==
  /\ j.pasts # <<>> /\ \A k \in DOMAIN j.pasts : AsksNoMore(j.pasts[k], j.new)
  /\ \A d \in DOMAIN j.formula : \A c \in DOMAIN j.formula[d] : j.formula[d][c] \in DOMAIN j.pasts
  /\ IF j.itemDependent THEN OverItems(j) ELSE InContext(j)

JobsAnswerable == \A j \in Jobs : Answerable(j)

-----------------------------------------------------------------------------
GroupsOf(t, side) == {t[k].gid : k \in {i \in DOMAIN t : t[i][side]}}

(* The tables the trees are right for.  The constructive one has a single  *)
(* look at the head cursor for each body group.  The destructive one needs *)
(* both sides in both conditions, the same groups in both queries, and no  *)
(* item that one row of a group lets through and another does not.         *)
HeadsInStep ==
  LET b == GroupsOf(job.rows, "body")
      h == GroupsOf(job.rows, "head")
  IN h \subseteq b /\ \A g \in b : \E f \in h : g <= f
BothInStep ==
  LET past == AsPast(job.rows) IN
  /\ job.new.condition.sides = Sides /\ ~QueryFails
  /\ GroupsOf(past, "body") = GroupsOf(past, "head")
  /\ \A i, j \in DOMAIN job.rows : \A side \in Sides :
       /\ job.rows[i].gid = job.rows[j].gid /\ job.rows[i].item = job.rows[j].item
       /\ past[i][side] /\ past[j][side]
       => job.rows[i][side] = job.rows[j][side]
InStep ==
  CASE Algorithm = "Constructive" -> HeadsInStep
    [] Algorithm = "Destructive" -> BothInStep
    [] OTHER -> TRUE

(* While the trees are adjusted, the support of a past rule and of its     *)
(* body counts the groups that were read and satisfy the new condition,    *)
(* and in the destructive tree those not yet read that satisfied the past  *)
(* one.                                                                    *)
Counted ==
  LET readGroups == {query["b"][i].gid : i \in 1 .. cursor["b"] - 1}
      new == job.rows
      past == AsPast(job.rows)
      Holding(S, side) ==
        (Supports(new, S, side) \cap readGroups)
          \cup (IF algorithm = "Destructive" THEN Supports(past, S, side) \ readGroups ELSE {})
  IN phase \in {"read", "write"} /\ InStep =>
       \A r \in results[1] :
         /\ bodySupp[r.body] = Size(Holding(r.body, "body"))
         /\ ruleSupp[<<r.body, r.head>>] = Size(Holding(r.body, "body") \cap Holding(r.head, "head"))

(* The nodes that insertItemSetH creates on the way to a head get the      *)
(* support of the whole rule: they are right if each is a past rule too.   *)
HeadsFromOne == Algorithm = "Destructive" => job.pasts[1].head[1] <= 1

(* Every rule written is one the new condition accepts, with the numbers   *)
(* of groups that support it and its body.                                 *)
Sound ==
  phase = "done" /\ InStep /\ HeadsFromOne =>
    \A r \in rules : /\ r = Counts(job.rows, r.body, r.head)
                     /\ Accepts(job.new.condition, r.body, r.head)

(* No rule of the new minerule is lost, if the past minerules ask for no   *)
(* more confidence than the new one.                                       *)
Complete ==
  /\ phase = "done" /\ InStep
  /\ \A k \in DOMAIN job.pasts : job.pasts[k].conf = job.new.conf
  => {r \in Answer(job.new, job.rows) : Confident(job.new.conf, r)} \subseteq rules

(* An incremental algorithm ends, and neither tree follows a null pointer  *)
(* or reads on forever, if its queries are in step.                        *)
Ends == InStep ~> phase \in {"done", "extraction"}
=============================================================================
