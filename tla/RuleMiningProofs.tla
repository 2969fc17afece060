-------------------------- MODULE RuleMiningProofs --------------------------
(***************************************************************************)
(* What holds of every extraction of rules and of every matching, for any  *)
(* source tables, minerules, groups and items.                             *)
(***************************************************************************)
EXTENDS RuleMatching, SourceDataProofs

LEMMA TableOfRows ==
  ASSUME NEW t \in Seq(SourceRow)
  PROVE  Table(t)
<1>1. Len(t) \in Nat /\ DOMAIN t = 1 .. Len(t) /\ \A k \in 1 .. Len(t) : t[k] \in SourceRow
  OBVIOUS
<1>2. \A k \in DOMAIN t : t[k].gid \in Nat
  BY <1>1, SourceAssumption DEF SourceRow
<1>3. t \in Seq({t[k] : k \in DOMAIN t})
  BY <1>1
<1>4. QED  BY <1>2, <1>3 DEF Table

JobInv == job \in Jobs

LEMMA JobTable ==
  ASSUME JobInv
  PROVE  /\ job.rows \in Seq(SourceRow) /\ Table(job.rows)
         /\ DOMAIN job.rows = 1 .. Len(job.rows) /\ Len(job.rows) \in Nat
<1>1. job.rows \in Seq(SourceRow)
  BY JobsAssumption DEF JobInv, Job
<1>2. QED  BY <1>1, TableOfRows

LEMMA JobStep ==
  ASSUME JobInv, [MineAndMatch]_<<vars, matchVars>>
  PROVE  JobInv'
BY DEF JobInv, MineAndMatch, vars, matchVars, Next, Refuse, Prepare, ReadNoCross, ReadAndCross,
       ReadCare, ReadItemsets, Reading, PruneBodies, PruneCare, PruneItemsets, StartMining,
       GenerateRules, AddHead, BuildRules, BuildHead, Calling, Finish, OpenSourceTable, MatchStep,
       ReadsGroup, MatchRuleTransaction, MatchItemTransaction, NoMoreHeads, NoMoreGroups,
       PrintMatches, SaveMatches

-----------------------------------------------------------------------------
(* An extraction that gives up.                                            *)

FailedInv ==
  phase = "failed" =>
    \/ Chosen(job) = "None" \/ job.task = "itemsets"
    \/ BodyRows(job.rows) = {} \/ HeadRows(job.rows) = {}

(* A query without rows had none to return.                                *)
LEMMA EmptyQuery ==
  ASSUME NEW t, Table(t), NEW rows \in SUBSET DOMAIN t, NEW sorted \in BOOLEAN,
         Ordered(t, rows, sorted) = <<>>
  PROVE  rows = {}
<1> DEFINE q == Ordered(t, rows, sorted)
<1>1. \A k \in rows : \E i \in 1 .. Len(q) : q[i] = t[k]
  BY OrderedProperties
<1>2. Len(q) = 0
  OBVIOUS
<1> HIDE DEF q
<1>3. QED  BY <1>1, <1>2

LEMMA PreparedFails ==
  ASSUME JobInv, Prepare
  PROVE  FailedInv'
<1>1. Table(job.rows) /\ BodyRows(job.rows) \in SUBSET DOMAIN job.rows
      /\ HeadRows(job.rows) \in SUBSET DOMAIN job.rows
  BY JobTable DEF BodyRows, HeadRows
<1>2. job' = job /\ (phase' = "failed" => Chosen(job) = "NoCross" /\ (bodies' = <<>> \/ heads' = <<>>))
  BY DEF Prepare
<1>3. CASE phase' = "failed"
  <2>1. /\ bodies' = Ordered(job.rows, BodyRows(job.rows), TRUE)
        /\ heads' = Ordered(job.rows, HeadRows(job.rows), TRUE)
    BY <1>2, <1>3 DEF Prepare, SortedGids
  <2>2. BodyRows(job.rows) = {} \/ HeadRows(job.rows) = {}
    BY <1>1, <1>2, <1>3, <2>1, EmptyQuery
  <2>3. QED  BY <1>2, <2>2 DEF FailedInv
<1>4. QED  BY <1>3 DEF FailedInv

LEMMA FailedStep ==
  ASSUME JobInv, FailedInv, [MineAndMatch]_<<vars, matchVars>>
  PROVE  FailedInv'
<1>1. CASE Prepare
  BY <1>1, PreparedFails
<1>2. CASE Refuse
  BY <1>2 DEF Refuse, FailedInv
<1>3. CASE ~Prepare /\ ~Refuse
  <2>1. job' = job /\ (phase' = phase \/ phase' # "failed")
    BY <1>3 DEF MineAndMatch, vars, matchVars, Next, ReadNoCross, ReadAndCross,
         ReadCare, ReadItemsets, Reading, PruneBodies, PruneCare, PruneItemsets, StartMining,
         GenerateRules, AddHead, BuildRules, BuildHead, Calling, Finish, OpenSourceTable,
         MatchStep, ReadsGroup, MatchRuleTransaction, MatchItemTransaction, NoMoreHeads,
         NoMoreGroups, PrintMatches, SaveMatches
  <2>2. QED  BY <2>1 DEF FailedInv
<1>4. QED  BY <1>1, <1>2, <1>3

LEMMA NoRowsNoRule ==
  ASSUME BodyRows(job.rows) = {} \/ HeadRows(job.rows) = {}
  PROVE  Expected = {}
<1>1. ASSUME NEW B \in (SUBSET Items) \ {{}}, NEW H \in (SUBSET Items) \ {{}}
      PROVE  Counted(B, H).gids = 0
  <2>1. \A g : RowsOf(g, "body") = {} \/ RowsOf(g, "head") = {}
    BY DEF RowsOf, BodyRows, HeadRows
  <2>2. ASSUME NEW g \in Groups, HasRule(g, B, H)  PROVE FALSE
    <3>1. B \subseteq RowsOf(g, "body") /\ H \subseteq RowsOf(g, "head")
      BY <2>2 DEF HasRule
    <3>2. B # {} /\ H # {}
      OBVIOUS
    <3>3. QED  BY <2>1, <3>1, <3>2
  <2>3. Counted(B, H).gids = Size({g \in Groups : HasRule(g, B, H)})
    BY DEF Counted, SupportOf
  <2>4. {g \in Groups : HasRule(g, B, H)} = {}
    BY <2>2
  <2>5. QED  BY <2>3, <2>4, FS_EmptySet DEF Size
<1>2. QED  BY <1>1 DEF Expected

LEMMA Handled ==
  ASSUME job.task = "rules", ~job.clusters, ~job.disjunction
  PROVE  Chosen(job) # "None"
<1>1. CanHandle("AndCross", job) /\ "AndCross" \in Defaults(job)
  BY DEF CanHandle, Defaults
<1>2. \A a : CanHandle(a, job) => a # "None"
  BY DEF CanHandle
<1>3. QED  BY <1>1, <1>2 DEF Chosen

(* An extraction that gives up although a rule miner could handle the      *)
(* minerule has no rule to find: only an empty body or head query ends one *)
(* (executeMinerule, BFSWithGidsNoCross::execute).                         *)
THEOREM GivesUpOnNothing == MatchSpec => []NothingLost
<1>1. MatchInit => JobInv /\ FailedInv
  BY DEF MatchInit, Init, JobInv, FailedInv
<1>2. JobInv /\ FailedInv /\ [MineAndMatch]_<<vars, matchVars>> => JobInv' /\ FailedInv'
  BY JobStep, FailedStep
<1>3. FailedInv => NothingLost
  BY Handled, NoRowsNoRule DEF FailedInv, NothingLost
<1>4. QED  BY <1>1, <1>2, <1>3, PTL DEF MatchSpec

-----------------------------------------------------------------------------
(* Reading the source data group by group.                                 *)

Reads == phase = "read" /\ algorithm # "AndCross"

(* The queries read, the cursors between two groups and the head cursor    *)
(* never beyond the groups read, and the counter of the groups.            *)
QueriesInv ==
  Reads =>
    /\ algorithm = Chosen(job) /\ algorithm # "None" /\ job.task = "rules"
    /\ bodies = Ordered(job.rows, BodyRows(job.rows), SortedGids(algorithm))
    /\ heads = Ordered(job.rows, HeadRows(job.rows), SortedGids(algorithm))

CursorsInv ==
  Reads =>
    /\ BetweenGroups(bodies, bodyAt) /\ NotBeyond(heads, headAt, GroupsRead)
    /\ groups = Size(GroupsRead)

StartInv ==
  phase = "choose" =>
    bodyAt = 1 /\ headAt = 1 /\ groups = 0 /\ bodyMap = Nowhere /\ headMap = Nowhere

ReadInv == JobInv /\ StartInv /\ QueriesInv /\ CursorsInv /\ Aligned

LEMMA QueriesRead ==
  ASSUME JobInv, QueriesInv, GroupedTables, Reads
  PROVE  /\ Result(bodies) /\ ByGid(bodies) /\ Result(heads) /\ ByGid(heads)
         /\ DOMAIN bodies = 1 .. Len(bodies)
         /\ \A g : /\ ItemsOf(GroupRows(bodies, g)) = RowsOf(g, "body")
                  /\ ItemsOf(GroupRows(heads, g)) = RowsOf(g, "head")
<1>1. Table(job.rows) /\ BodyRows(job.rows) \in SUBSET DOMAIN job.rows
      /\ HeadRows(job.rows) \in SUBSET DOMAIN job.rows /\ SortedGids(algorithm) \in BOOLEAN
  BY JobTable DEF BodyRows, HeadRows, SortedGids
<1>2. SortedGids(algorithm) \/ ByGid(job.rows)
  BY DEF GroupedTables, JobInv, QueriesInv, Reads
<1>3. ByGid(bodies) /\ ByGid(heads)
  BY <1>1, <1>2, OrderedProperties DEF QueriesInv
<1>4. /\ Result(bodies)
      /\ \A g : GroupRows(bodies, g) = GroupRowsOf(job.rows, BodyRows(job.rows), g)
  BY <1>1, OrderedGroups DEF QueriesInv
<1>5. /\ Result(heads)
      /\ \A g : GroupRows(heads, g) = GroupRowsOf(job.rows, HeadRows(job.rows), g)
  BY <1>1, OrderedGroups DEF QueriesInv
<1>6. ASSUME NEW g
      PROVE  /\ ItemsOf(GroupRowsOf(job.rows, BodyRows(job.rows), g))
                  = RowsOf(g, "body")
             /\ ItemsOf(GroupRowsOf(job.rows, HeadRows(job.rows), g))
                  = RowsOf(g, "head")
  BY DEF ItemsOf, RowsOf, BodyRows, HeadRows, GroupRowsOf
<1>7. DOMAIN bodies = 1 .. Len(bodies)
  BY <1>1, OrderedProperties DEF QueriesInv
<1>8. QED  BY <1>3, <1>4, <1>5, <1>6, <1>7

(* The group read next is larger than those read, and its number is their  *)
(* count; the two cursors reach its rows and stop behind them.             *)
LEMMA GroupRead ==
  ASSUME ReadInv, GroupedTables, Reads, ~AfterLast(bodies, bodyAt)
  PROVE  /\ Gid \notin GroupsRead /\ IsFiniteSet(GroupsRead) /\ NumberOf(Gid) = groups
         /\ BodyItems = RowsOf(Gid, "body") /\ HeadItems = RowsOf(Gid, "head")
         /\ LET e == LoadEnd(bodies, Gid, bodyAt)
            IN  BetweenGroups(bodies, e) /\ GidsBefore(bodies, e) = GroupsRead \cup {Gid}
         /\ NotBeyond(heads, headAt, GroupsRead \cup {Gid})
         /\ NotBeyond(heads, LoadEnd(heads, Gid, HeadFound), GroupsRead \cup {Gid})
<1> DEFINE e == LoadEnd(bodies, Gid, bodyAt)
<1>1. /\ Result(bodies) /\ ByGid(bodies) /\ Result(heads) /\ ByGid(heads)
      /\ DOMAIN bodies = 1 .. Len(bodies)
      /\ \A g : /\ ItemsOf(GroupRows(bodies, g)) = RowsOf(g, "body")
               /\ ItemsOf(GroupRows(heads, g)) = RowsOf(g, "head")
  BY QueriesRead DEF ReadInv
<1>2. /\ BetweenGroups(bodies, bodyAt) /\ NotBeyond(heads, headAt, GroupsRead)
      /\ groups = Size(GroupsRead)
  BY DEF ReadInv, CursorsInv
<1>3. GroupsRead = GidsBefore(bodies, bodyAt) /\ Gid = bodies[bodyAt].gid
  BY DEF GroupsRead, GidsBefore, Gid
<1>4. /\ Gid \in Nat /\ \A g \in GroupsRead : g \in Nat /\ g < Gid
      /\ IsFiniteSet(GroupsRead) /\ Loaded(bodies, Gid, bodyAt) = GroupRows(bodies, Gid)
      /\ BetweenGroups(bodies, e) /\ GidsBefore(bodies, e) = GroupsRead \cup {Gid}
      /\ {k \in 1 .. Len(bodies) : bodies[k].gid < Gid} = 1 .. bodyAt - 1
  BY <1>1, <1>2, <1>3, NextGroup
<1>5. /\ NotBeyond(heads, LoadEnd(heads, Gid, HeadFound), GroupsRead \cup {Gid})
      /\ Loaded(heads, Gid, HeadFound) = GroupRows(heads, Gid)
      /\ Found(heads, Gid, HeadFound) <=> GroupRows(heads, Gid) # {}
  BY <1>1, <1>2, <1>4, NextHeads DEF HeadFound
<1> HIDE DEF e
<1>6. HeadItems = RowsOf(Gid, "head")
  <2>1. ItemsOf({}) = {}
    BY DEF ItemsOf
  <2>2. QED  BY <1>1, <1>5, <2>1 DEF HeadItems
<1>7. BodyItems = RowsOf(Gid, "body")
  BY <1>1, <1>4 DEF BodyItems
<1>8. Gid \notin GroupsRead
  BY <1>4
<1>9. NumberOf(Gid) = groups
  <2>1. Size(GroupsRead) \in Nat
    BY <1>4, FS_CardinalityType DEF Size
  <2>2. NumberOf(Gid) = 0 + Size(GroupsRead)
    BY <1>1, <1>4 DEF NumberOf, GroupsRead, Reads
  <2>3. QED  BY <1>2, <2>1, <2>2
<1>10. NotBeyond(heads, headAt, GroupsRead \cup {Gid})
  BY <1>2 DEF NotBeyond
<1>11. QED  BY <1>4, <1>5, <1>6, <1>7, <1>8, <1>9, <1>10 DEF e

LEMMA GroupCounted ==
  ASSUME ReadInv, GroupedTables, Reading({"NoCross", "Care", "Itemsets"}),
         headAt' = headAt \/ AdvanceHead
  PROVE  /\ QueriesInv' /\ CursorsInv' /\ StartInv'
         /\ GroupsRead' = GroupsRead \cup {Gid}
         /\ \A g : NumberOf(g)' = NumberOf(g)
         /\ \A g : RowsOf(g, "body")' = RowsOf(g, "body") /\ RowsOf(g, "head")' = RowsOf(g, "head")
<1>1. /\ Reads /\ Reads' /\ ~AfterLast(bodies, bodyAt) /\ phase' = "read"
      /\ job' = job /\ algorithm' = algorithm /\ bodies' = bodies /\ heads' = heads
      /\ groups' = groups + 1 /\ bodyAt' = LoadEnd(bodies, Gid, bodyAt)
  BY DEF Reading, Reads
<1>2. /\ Gid \notin GroupsRead /\ IsFiniteSet(GroupsRead)
      /\ BetweenGroups(bodies, bodyAt') /\ GidsBefore(bodies, bodyAt') = GroupsRead \cup {Gid}
      /\ NotBeyond(heads, headAt, GroupsRead \cup {Gid})
      /\ NotBeyond(heads, LoadEnd(heads, Gid, HeadFound), GroupsRead \cup {Gid})
  BY <1>1, GroupRead
<1>3. GroupsRead' = GroupsRead \cup {Gid}
  BY <1>1, <1>2 DEF GroupsRead, GidsBefore
<1>4. groups' = Size(GroupsRead')
  <2>1. Size(GroupsRead \cup {Gid}) = Size(GroupsRead) + 1
    BY <1>2, FS_AddElement DEF Size
  <2>2. QED  BY <1>1, <1>3, <2>1 DEF ReadInv, CursorsInv
<1>5. NotBeyond(heads, headAt', GroupsRead \cup {Gid})
  BY <1>2 DEF AdvanceHead
<1>6. CursorsInv'
  BY <1>1, <1>2, <1>3, <1>4, <1>5 DEF CursorsInv
<1>7. QueriesInv'
  BY <1>1 DEF QueriesInv, ReadInv
<1>8. StartInv'
  BY <1>1 DEF StartInv
<1>9. \A g : NumberOf(g)' = NumberOf(g)
  BY <1>1 DEF NumberOf
<1>10. \A g : RowsOf(g, "body")' = RowsOf(g, "body") /\ RowsOf(g, "head")' = RowsOf(g, "head")
  BY <1>1 DEF RowsOf
<1>11. QED  BY <1>3, <1>6, <1>7, <1>8, <1>9, <1>10

(* The gids of the items, as far as the groups in G tell.                  *)
GidsOf(side, i, G) == {NumberOf(g) : g \in {h \in G : i \in RowsOf(h, side)}}

LEMMA GidAdded ==
  ASSUME NEW map, NEW side, NumberOf(Gid) = groups,
         \A i \in Items : map[i] = GidsOf(side, i, GroupsRead)
  PROVE  \A i \in Items : AddGid(map, RowsOf(Gid, side), groups)[i]
                              = GidsOf(side, i, GroupsRead \cup {Gid})
BY DEF AddGid, GidsOf

LEMMA AlignedStep ==
  ASSUME ReadInv, GroupedTables, ReadNoCross \/ ReadCare \/ ReadItemsets
  PROVE  Aligned'
<1>1. Reading({"NoCross", "Care", "Itemsets"}) /\ (headAt' = headAt \/ AdvanceHead)
  BY DEF ReadNoCross, ReadCare, ReadItemsets, Reading
<1>2. /\ GroupsRead' = GroupsRead \cup {Gid}
      /\ \A g : NumberOf(g)' = NumberOf(g)
      /\ \A g : RowsOf(g, "body")' = RowsOf(g, "body") /\ RowsOf(g, "head")' = RowsOf(g, "head")
  BY <1>1, GroupCounted
<1>3. Reads /\ ~AfterLast(bodies, bodyAt) /\ algorithm' = algorithm
  BY <1>1 DEF Reading, Reads
<1>4. NumberOf(Gid) = groups /\ BodyItems = RowsOf(Gid, "body") /\ HeadItems = RowsOf(Gid, "head")
  BY <1>3, GroupRead
<1>5. ASSUME NEW i \in Items
      PROVE  bodyMap'[i] = GidsOf("body", i, GroupsRead \cup {Gid})
  <2>1. bodyMap' = AddGid(bodyMap, BodyItems, groups)
    BY DEF ReadNoCross, ReadCare, ReadItemsets
  <2>2. \A j \in Items : bodyMap[j] = GidsOf("body", j, GroupsRead)
    BY <1>3 DEF ReadInv, Aligned, Reads, GidsOf
  <2>3. QED  BY <1>4, <2>1, <2>2, GidAdded
<1>6. ASSUME NEW i \in Items, algorithm = "Care"
      PROVE  headMap'[i] = GidsOf("head", i, GroupsRead \cup {Gid})
  <2>1. headMap' = AddGid(headMap, HeadItems, groups)
    BY <1>6 DEF ReadNoCross, ReadCare, ReadItemsets, Reading
  <2>2. \A j \in Items : headMap[j] = GidsOf("head", j, GroupsRead)
    BY <1>3, <1>6 DEF ReadInv, Aligned, Reads, GidsOf
  <2>3. QED  BY <1>4, <2>1, <2>2, GidAdded
<1>7. QED  BY <1>2, <1>3, <1>5, <1>6 DEF Aligned, GidsOf

LEMMA ReadStarts ==
  ASSUME ReadInv, Prepare
  PROVE  StartInv' /\ QueriesInv' /\ CursorsInv' /\ Aligned'
<1>1. /\ phase = "choose" /\ phase' \in {"read", "failed"} /\ algorithm' = Chosen(job)
      /\ job' = job /\ job.task = "rules" /\ Chosen(job) # "None"
      /\ bodyAt' = 1 /\ headAt' = 1 /\ groups' = 0 /\ bodyMap' = Nowhere /\ headMap' = Nowhere
      /\ Reads' =>
           /\ bodies' = Ordered(job.rows, BodyRows(job.rows), SortedGids(algorithm'))
           /\ heads' = Ordered(job.rows, HeadRows(job.rows), SortedGids(algorithm'))
  BY DEF Prepare, ReadInv, StartInv, maps, Reads
<1>2. StartInv' /\ QueriesInv'
  BY <1>1 DEF StartInv, QueriesInv, Reads
<1>3. GroupsRead' = {}
  BY <1>1 DEF GroupsRead
<1>4. CASE Reads'
  <2>1. Len(bodies') \in Nat /\ Len(heads') \in Nat
    <3>1. Table(job.rows) /\ BodyRows(job.rows) \in SUBSET DOMAIN job.rows
          /\ HeadRows(job.rows) \in SUBSET DOMAIN job.rows /\ SortedGids(algorithm') \in BOOLEAN
      BY JobTable DEF BodyRows, HeadRows, SortedGids, ReadInv
    <3>2. QED  BY <1>1, <1>4, <3>1, OrderedGroups DEF Result
  <2>2. CursorsInv'
    <3>1. BetweenGroups(bodies', 1) /\ NotBeyond(heads', 1, {}) /\ Size({}) = 0
      BY <2>1, FS_EmptySet DEF BetweenGroups, NotBeyond, Size
    <3>2. QED  BY <1>1, <1>3, <3>1 DEF CursorsInv
  <2>3. Aligned'
    BY <1>1, <1>3 DEF Aligned, Nowhere
  <2>4. QED  BY <1>2, <2>2, <2>3
<1>5. CASE ~Reads'
  BY <1>2, <1>5 DEF CursorsInv, Aligned, Reads
<1>6. QED  BY <1>4, <1>5

LEMMA Elsewhere ==
  ASSUME [MineAndMatch]_<<vars, matchVars>>, ~Prepare, ~(ReadNoCross \/ ReadCare \/ ReadItemsets)
  PROVE  UNCHANGED vars \/ (~Reads' /\ phase' # "choose")
BY DEF MineAndMatch, vars, matchVars, Next, Refuse, ReadAndCross, Reading, PruneBodies, PruneCare,
       PruneItemsets, StartMining, GenerateRules, AddHead, BuildRules, BuildHead, Calling, Finish,
       OpenSourceTable, MatchStep, ReadsGroup, MatchRuleTransaction, MatchItemTransaction,
       NoMoreHeads, NoMoreGroups, PrintMatches, SaveMatches, Reads

LEMMA ReadStep ==
  ASSUME ReadInv, GroupedTables, [MineAndMatch]_<<vars, matchVars>>
  PROVE  ReadInv'
<1>1. JobInv'
  BY JobStep DEF ReadInv
<1>2. CASE Prepare
  BY <1>1, <1>2, ReadStarts DEF ReadInv
<1>3. CASE ReadNoCross \/ ReadCare \/ ReadItemsets
  <2>1. Reading({"NoCross", "Care", "Itemsets"}) /\ (headAt' = headAt \/ AdvanceHead)
    BY <1>3 DEF ReadNoCross, ReadCare, ReadItemsets, Reading
  <2>2. QED  BY <1>1, <1>3, <2>1, GroupCounted, AlignedStep DEF ReadInv
<1>4. CASE UNCHANGED vars
  <2>1. GroupsRead' = GroupsRead /\ \A g : NumberOf(g)' = NumberOf(g)
    BY <1>4 DEF vars, GroupsRead, NumberOf
  <2>2. \A g : RowsOf(g, "body")' = RowsOf(g, "body") /\ RowsOf(g, "head")' = RowsOf(g, "head")
    BY <1>4 DEF vars, RowsOf
  <2>3. Aligned'
    BY <1>4, <2>1, <2>2 DEF vars, Aligned, ReadInv
  <2>4. StartInv' /\ QueriesInv' /\ CursorsInv'
    BY <1>4, <2>1 DEF vars, ReadInv, StartInv, QueriesInv, CursorsInv, Reads
  <2>5. QED  BY <1>1, <2>3, <2>4 DEF ReadInv
<1>5. CASE ~Reads' /\ phase' # "choose"
  BY <1>1, <1>5 DEF ReadInv, StartInv, QueriesInv, CursorsInv, Aligned, Reads
<1>6. QED  BY <1>2, <1>3, <1>4, <1>5, Elsewhere

(* The cursors over the body and the head query stay in step, whatever     *)
(* groups only one of them has: the gids of every body, and of every head  *)
(* in CARE, are the numbers of the groups read that hold it (Transaction's *)
(* findGid, loadBody and loadHead).  CARE does not ask for sorted gids.    *)
THEOREM CursorsInStep == GroupedTables => (MatchSpec => []Aligned)
<1> SUFFICES ASSUME GroupedTables  PROVE MatchSpec => []Aligned
  OBVIOUS
<1>1. MatchInit => ReadInv
  BY DEF MatchInit, Init, ReadInv, JobInv, StartInv, QueriesInv, CursorsInv, Aligned, Reads
<1>2. ReadInv /\ [MineAndMatch]_<<vars, matchVars>> => ReadInv'
  BY ReadStep
<1>3. ReadInv => Aligned
  BY DEF ReadInv
<1>4. QED  BY <1>1, <1>2, <1>3, PTL DEF MatchSpec

-----------------------------------------------------------------------------
(* The rules that are inserted.                                            *)

(* Bodies and heads of the same attributes share no item.                  *)
Apart(r) == job.same => r.body \cap r.head = {}

RuleFits(r) == r.body # {} /\ r.head # {} /\ Apart(r)
RulesInv == IsList(rules) /\ \A k \in 1 .. Len(rules) : RuleFits(rules[k])

(* AndCross: no item is a head of itself, and those of a body are no heads *)
(* in its table.                                                           *)
OwnHead(table, i) == algorithm = "AndCross" /\ job.same => table[i] = {}
PairsInv ==
  /\ \A i \in Items : OwnHead(pairs[i], i)
  /\ \A i \in Items : IsFiniteSet(bodyMap[i])

CallFits(c) ==
  /\ c.call \in {"body", "addHead", "buildRules", "buildHead"}
  /\ c.body \in SUBSET Items
  /\ c.call \in {"addHead", "buildHead"} => Apart(c)
  /\ c.call \in {"body", "addHead"} =>
       algorithm \in {"NoCross", "AndCross"} /\ \A i \in c.body : OwnHead(c.table, i)
  /\ c.call = "buildRules" => c.vb \in Seq(Items) /\ c.vh \in Seq(Items) /\ c.at \in Nat
  /\ c.call = "buildHead" => c.v \in Seq(Items) /\ c.at \in Nat
WorkInv == IsList(work) /\ \A k \in 1 .. Len(work) : CallFits(work[k])

JoinInv ==
  /\ phase = "choose" => bodyAt = 1 /\ work = <<>> /\ pairs = [i \in Items |-> Nowhere]
  /\ phase = "read" /\ algorithm = "AndCross" =>
       bodies = Joined(job.rows) /\ bodyAt \in 1 .. Len(bodies) + 1

MinerInv == JobInv /\ RulesInv /\ PairsInv /\ WorkInv /\ JoinInv

LEMMA EmptyList == IsList(<<>>) /\ Len(<<>>) = 0
<1>1. <<>> \in Seq({<<>>[k] : k \in DOMAIN <<>>}) /\ Len(<<>>) = 0
  BY EmptySeq
<1>2. QED  BY <1>1 DEF IsList

LEMMA SubsetFinite ==
  ASSUME NEW S \in SUBSET Items
  PROVE  S \in SUBSET Nat /\ IsFiniteSet(S)
BY SourceAssumption, FS_Subset

(* What is inserted by a call, if the calls found have disjoint bodies and *)
(* heads.                                                                  *)
LEMMA CallInserts ==
  ASSUME JobInv, RulesInv, NEW name, NEW calls, NEW found, Calling(name, calls, found),
         NEW n \in Nat, found = [k \in 1 .. n |-> found[k]], \A k \in 1 .. n : Apart(found[k])
  PROVE  RulesInv'
<1> DEFINE kept == {k \in DOMAIN found : Inserted(found[k])}
           all == [k \in DOMAIN found |-> AsRule(found[k])]
           new == Selected(all, kept)
<1>1. DOMAIN found = 1 .. n
  OBVIOUS
<1>2. rules' = rules \o new /\ job' = job
  BY DEF Calling, Mapped
<1>3. kept \in SUBSET Nat /\ IsFiniteSet(kept) /\ kept \subseteq 1 .. n
  <2>1. kept \subseteq 1 .. n
    BY <1>1
  <2> HIDE DEF kept
  <2>2. IsFiniteSet(1 .. n)
    <3>1. 1 \in Int /\ n \in Int
      OBVIOUS
    <3>2. QED  BY <3>1, FS_Interval
  <2>3. QED  BY <2>1, <2>2, FS_Subset
<1>4. \A k \in kept : RuleFits(all[k])
  <2>1. ASSUME NEW k \in kept  PROVE RuleFits(all[k])
    <3>1. k \in 1 .. n /\ Inserted(found[k]) /\ Apart(found[k])
      BY <1>1
    <3>2. all[k].body = found[k].body /\ all[k].head = found[k].head
      BY <1>1, <3>1 DEF AsRule
    <3>3. 0 \notin job.minBody .. job.maxBody /\ 0 \notin job.minHead .. job.maxHead
      <4>1. /\ job.minBody \in Nat \ {0} /\ job.maxBody \in Nat
            /\ job.minHead \in Nat \ {0} /\ job.maxHead \in Nat
        BY JobsAssumption DEF JobInv, Job
      <4>2. QED  BY <4>1
    <3>4. Size({}) = 0
      BY FS_EmptySet DEF Size
    <3>5. found[k].body # {} /\ found[k].head # {}
      BY <3>1, <3>3, <3>4 DEF Inserted
    <3> HIDE DEF all
    <3>6. QED  BY <3>1, <3>2, <3>5 DEF RuleFits, Apart
  <2>2. QED  BY <2>1
<1> HIDE DEF kept, all
<1>5. SelectedFrom(new, all, kept)
  BY <1>3, SelectedProperties
<1> HIDE DEF new
<1>6. IsList(new) /\ \A k \in 1 .. Len(new) : RuleFits(new[k])
  BY <1>4, <1>5 DEF SelectedFrom
<1>7. IsList(rules \o new) /\ \A k \in 1 .. Len(rules \o new) : RuleFits((rules \o new)[k])
  <2>1. IsList(rules \o new) /\ From(rules \o new, rules, new)
    BY <1>6, ListConcat DEF RulesInv
  <2>2. QED  BY <1>6, <2>1 DEF RulesInv, From
<1>8. QED  BY <1>2, <1>7 DEF RulesInv, RuleFits, Apart

LEMMA CallInsertsNothing ==
  ASSUME JobInv, RulesInv, NEW name, NEW calls, Calling(name, calls, <<>>)
  PROVE  RulesInv'
<1> DEFINE none == <<>>
<1>1. none = [k \in 1 .. 0 |-> none[k]] /\ 0 \in Nat /\ \A k \in 1 .. 0 : Apart(none[k])
  OBVIOUS
<1>2. Calling(name, calls, none)
  OBVIOUS
<1> HIDE DEF none
<1>3. QED  BY <1>1, <1>2, CallInserts

(* What is queued by a call.                                               *)
LEMMA CallQueues ==
  ASSUME WorkInv, NEW name, NEW calls, NEW found, Calling(name, calls, found),
         NEW new, IsList(new), \A k \in 1 .. Len(new) : CallFits(new[k]),
         calls = new \o Tail(work)
  PROVE  WorkInv'
<1>1. work # <<>> /\ work' = new \o Tail(work) /\ job' = job /\ algorithm' = algorithm
  BY DEF Calling
<1>2. IsList(Tail(work)) /\ \A k \in 1 .. Len(Tail(work)) : CallFits(Tail(work)[k])
  BY <1>1, ListTail DEF WorkInv, From
<1>3. /\ IsList(new \o Tail(work))
      /\ \A k \in 1 .. Len(new \o Tail(work)) : CallFits((new \o Tail(work))[k])
  <2> DEFINE rest == Tail(work)
  <2> HIDE DEF rest
  <2>1. IsList(new \o rest) /\ From(new \o rest, new, rest)
    BY <1>2, ListConcat DEF rest
  <2>2. \A l \in 1 .. Len(rest) : CallFits(rest[l])
    BY <1>2 DEF rest
  <2>3. QED  BY <2>1, <2>2 DEF rest, From
<1>4. QED  BY <1>1, <1>3 DEF WorkInv, CallFits, OwnHead, Apart

LEMMA FirstCall ==
  ASSUME WorkInv, work # <<>>
  PROVE  CallFits(Head(work))
BY ListTail DEF WorkInv

LEMMA AddHeadStep ==
  ASSUME MinerInv, AddHead
  PROVE  RulesInv' /\ WorkInv'
<1> DEFINE c == Head(work)
           next == {j \in FromHead(c) :
                      /\ Size(c.head) < job.maxHead /\ c.table[j] # {}
                      /\ ~(algorithm = "NoCross" /\ job.same /\ j \in c.body)
                      /\ Reaches(Size(c.gids \cap c.table[j]))}
           Longer(j) == [c EXCEPT !.head = @ \cup {j}, !.gids = @ \cap c.table[j], !.from = j + 1]
           calls == Mapped(InOrder(next), Longer)
<1>1. Calling("addHead", calls \o Tail(work), calls)
  BY DEF AddHead
<1>2. work # <<>> /\ c.call = "addHead"
  BY <1>1 DEF Calling
<1>3. CallFits(c)
  BY <1>2, FirstCall DEF MinerInv
<1>4. next \in SUBSET Items
  BY DEF FromHead
<1>5. Size(next) \in Nat /\ InOrder(next) \in [1 .. Size(next) -> next]
  <2> HIDE DEF next
  <2>1. QED  BY <1>4, SubsetFinite, InOrderProperties
<1>6. \A j \in next : c.table[j] # {} /\ ~(algorithm = "NoCross" /\ job.same /\ j \in c.body)
  OBVIOUS
<1> DEFINE n == Size(next)
<1>7. calls = [k \in 1 .. n |-> Longer(InOrder(next)[k])]
  BY <1>5 DEF Mapped
<1> HIDE DEF next, calls
<1>8. ASSUME NEW j \in next  PROVE CallFits(Longer(j))
  <2>1. /\ Longer(j).call = c.call /\ Longer(j).body = c.body /\ Longer(j).table = c.table
        /\ Longer(j).head = c.head \cup {j}
    OBVIOUS
  <2>2. ASSUME job.same  PROVE j \notin c.body
    <3>1. algorithm \in {"NoCross", "AndCross"} /\ \A i \in c.body : OwnHead(c.table, i)
      BY <1>2, <1>3 DEF CallFits
    <3>2. QED  BY <1>6, <2>2, <3>1 DEF OwnHead
  <2> HIDE DEF Longer, c
  <2>3. Apart(Longer(j))
    BY <1>2, <1>3, <2>1, <2>2 DEF Apart, CallFits
  <2>4. QED  BY <1>2, <1>3, <2>1, <2>3 DEF CallFits
<1>9. \A k \in 1 .. n : CallFits(calls[k]) /\ Apart(calls[k])
  <2>1. ASSUME NEW k \in 1 .. n  PROVE CallFits(calls[k]) /\ Apart(calls[k])
    <3>1. calls[k] = Longer(InOrder(next)[k]) /\ InOrder(next)[k] \in next
      BY <1>5, <1>7
    <3>2. calls[k].call = "addHead"
      BY <1>2, <3>1
    <3> HIDE DEF Longer
    <3>3. QED  BY <1>8, <3>1, <3>2 DEF CallFits
  <2>2. QED  BY <2>1
<1>10. calls = [k \in 1 .. n |-> calls[k]] /\ n \in Nat
  BY <1>5, <1>7
<1> HIDE DEF n, c
<1>11. IsList(calls) /\ Len(calls) = n
  BY <1>10, ListOf
<1>12. RulesInv'
  BY <1>1, <1>9, <1>10, CallInserts DEF MinerInv
<1>13. WorkInv'
  BY <1>1, <1>9, <1>11, CallQueues DEF MinerInv
<1>14. QED  BY <1>12, <1>13

LEMMA OneCall ==
  ASSUME NEW c
  PROVE  IsList(<<c>>) /\ Len(<<c>>) = 1 /\ <<c>>[1] = c
<1>1. <<c>> \in Seq({c}) /\ Len(<<c>>) = 1 /\ <<c>>[1] = c /\ DOMAIN <<c>> = {1}
  OBVIOUS
<1>2. {<<c>>[k] : k \in DOMAIN <<c>>} = {c}
  BY <1>1
<1>3. QED  BY <1>1, <1>2 DEF IsList

LEMMA GenerateRulesStep ==
  ASSUME MinerInv, GenerateRules
  PROVE  RulesInv' /\ WorkInv'
<1> DEFINE b == Head(work)
           longer == {j \in Items : /\ Size(b.body) < job.maxBody /\ j > b.last
                                    /\ pairs[j] # Nowhere
                                    /\ Reaches(Size(b.gids \cap bodyMap[j]))}
           Queued(j) == [call |-> "body", body |-> b.body \cup {j},
                         gids |-> b.gids \cap bodyMap[j], last |-> j,
                         table |-> LongerTable(b.table, j)]
           heading == [call |-> "addHead", body |-> b.body, head |-> {}, gids |-> b.gids,
                       support |-> Size(b.gids), from |-> 0, table |-> b.table]
           queued == Mapped(InOrder(longer), Queued)
           rest == Tail(work)
<1>1. Calling("body", <<heading>> \o rest \o queued, <<>>)
  BY DEF GenerateRules
<1>2. work # <<>> /\ b.call = "body"
  BY <1>1 DEF Calling
<1>3. CallFits(b)
  BY <1>2, FirstCall DEF MinerInv
<1>4. algorithm \in {"NoCross", "AndCross"} /\ b.body \in SUBSET Items
      /\ \A i \in b.body : OwnHead(b.table, i)
  BY <1>2, <1>3 DEF CallFits
<1>5. longer \in SUBSET Items
  OBVIOUS
<1>6. Size(longer) \in Nat /\ InOrder(longer) \in [1 .. Size(longer) -> longer]
  <2> HIDE DEF longer
  <2>1. QED  BY <1>5, SubsetFinite, InOrderProperties
<1> DEFINE n == Size(longer)
<1>7. queued = [k \in 1 .. n |-> Queued(InOrder(longer)[k])]
  BY <1>6 DEF Mapped
<1> HIDE DEF longer, queued
<1>8. ASSUME NEW j \in Items  PROVE CallFits(Queued(j))
  <2>1. /\ Queued(j).call = "body" /\ Queued(j).body = b.body \cup {j}
        /\ Queued(j).table = LongerTable(b.table, j)
    OBVIOUS
  <2>2. ASSUME NEW i \in b.body \cup {j}  PROVE OwnHead(LongerTable(b.table, j), i)
    <3>1. ASSUME algorithm = "AndCross", job.same  PROVE LongerTable(b.table, j)[i] = {}
      <4>1. i \in Items /\ LongerTable(b.table, j)[i] = b.table[i] \cap pairs[j][i]
        BY <1>4, <3>1 DEF LongerTable
      <4>2. CASE i = j
        BY <3>1, <4>1, <4>2 DEF MinerInv, PairsInv, OwnHead
      <4>3. CASE i \in b.body
        BY <1>4, <3>1, <4>1, <4>3 DEF OwnHead
      <4>4. QED  BY <2>2, <4>2, <4>3
    <3>2. QED  BY <3>1 DEF OwnHead
  <2> HIDE DEF Queued, b
  <2>3. QED  BY <1>4, <2>1, <2>2 DEF CallFits
<1>9. \A k \in 1 .. n : CallFits(queued[k])
  <2> HIDE DEF Queued
  <2>1. QED  BY <1>5, <1>6, <1>7, <1>8
<1>10. CallFits(heading)
  <2>1. /\ heading.call = "addHead" /\ heading.body = b.body /\ heading.table = b.table
        /\ heading.head = {}
    OBVIOUS
  <2> HIDE DEF heading, b
  <2>2. QED  BY <1>4, <2>1 DEF CallFits, Apart
<1>11. IsList(queued) /\ Len(queued) = n
  <2>1. queued = [k \in 1 .. n |-> queued[k]] /\ n \in Nat
    BY <1>6, <1>7
  <2> HIDE DEF n
  <2>2. QED  BY <2>1, ListOf
<1> HIDE DEF n, Queued, heading, b
<1>12. RulesInv'
  BY <1>1, CallInsertsNothing DEF MinerInv
<1>13. IsList(rest) /\ \A k \in 1 .. Len(rest) : CallFits(rest[k])
  BY <1>2, ListTail DEF MinerInv, WorkInv, From
<1>14. IsList(<<heading>>) /\ \A k \in 1 .. Len(<<heading>>) : CallFits(<<heading>>[k])
  BY <1>10, OneCall
<1> HIDE DEF rest
<1> DEFINE first == <<heading>>
           second == first \o rest
<1>15. IsList(second) /\ \A k \in 1 .. Len(second) : CallFits(second[k])
  <2> HIDE DEF first
  <2>1. IsList(second) /\ From(second, first, rest)
    BY <1>13, <1>14, ListConcat DEF first
  <2>2. QED  BY <1>13, <1>14, <2>1 DEF From, first
<1>16. work' = second \o queued /\ job' = job /\ algorithm' = algorithm
  BY <1>1 DEF Calling
<1> HIDE DEF second
<1>17. /\ IsList(second \o queued)
       /\ \A k \in 1 .. Len(second \o queued) : CallFits((second \o queued)[k])
  <2>1. IsList(second \o queued) /\ From(second \o queued, second, queued)
    BY <1>11, <1>15, ListConcat
  <2>2. QED  BY <1>9, <1>11, <1>15, <2>1 DEF From
<1>18. WorkInv'
  BY <1>16, <1>17 DEF WorkInv, CallFits, OwnHead, Apart
<1>19. QED  BY <1>12, <1>18

(* buildHead keeps heads that are not in the body.                         *)
LEMMA KeptHeadsApart ==
  ASSUME NEW v \in Seq(Items), NEW at \in Nat, NEW body, NEW gids
  PROVE  /\ KeptHeads(v, at, body, gids) \in Seq(Items)
         /\ \A k \in 1 .. Len(KeptHeads(v, at, body, gids)) : KeptHeads(v, at, body, gids)[k] \notin body
<1> DEFINE kept == {k \in at + 1 .. Len(v) : v[k] \notin body /\ MoreThan(Size(gids \cap headMap[v[k]]))}
           r == KeptHeads(v, at, body, gids)
<1>1. r = Selected(v, kept)
  BY DEF KeptHeads
<1>2. Len(v) \in Nat /\ \A k \in 1 .. Len(v) : v[k] \in Items
  BY LenProperties, ElementOfSeq
<1>3. kept \in SUBSET Nat /\ IsFiniteSet(kept) /\ \A k \in kept : v[k] \in Items /\ v[k] \notin body
  <2>1. kept \subseteq 1 .. Len(v) /\ \A k \in kept : v[k] \notin body
    BY <1>2
  <2> HIDE DEF kept
  <2>2. 1 \in Int /\ Len(v) \in Int
    BY <1>2
  <2>3. IsFiniteSet(1 .. Len(v))
    BY <2>2, FS_Interval
  <2>4. IsFiniteSet(kept)
    BY <2>1, <2>3, FS_Subset
  <2>5. \A k \in kept : v[k] \in Items
    BY <1>2, <2>1
  <2>6. kept \in SUBSET Nat
    BY <1>2, <2>1
  <2>7. QED  BY <2>1, <2>4, <2>5, <2>6
<1> HIDE DEF kept, r
<1>4. SelectedFrom(r, v, kept)
  BY <1>1, <1>3, SelectedProperties
<1>5. IsList(r) /\ \A k \in 1 .. Len(r) : r[k] \in Items /\ r[k] \notin body
  BY <1>3, <1>4 DEF SelectedFrom
<1>6. r \in Seq(Items)
  BY <1>5, ListInSet
<1>7. QED  BY <1>5, <1>6 DEF r

(* Calls in a list that can all be made.                                   *)
CallsFit(q) == IsList(q) /\ \A k \in 1 .. Len(q) : CallFits(q[k])

LEMMA NoCallsFit == CallsFit(<<>>)
BY EmptyList DEF CallsFit

LEMMA MoreCallsFit ==
  ASSUME NEW p, NEW q, CallsFit(p), CallsFit(q)
  PROVE  CallsFit(p \o q)
<1>1. IsList(p \o q) /\ From(p \o q, p, q)
  BY ListConcat DEF CallsFit
<1>2. QED  BY <1>1 DEF CallsFit, From

LEMMA CallsListed ==
  ASSUME NEW n \in Nat, NEW q, q = [k \in 1 .. n |-> q[k]], \A k \in 1 .. n : CallFits(q[k])
  PROVE  CallsFit(q) /\ Len(q) = n
BY ListOf DEF CallsFit

(* buildRules: buildHead for the frequent extensions of the body, and then *)
(* buildRules again.                                                       *)
LEMMA BuildRulesStep ==
  ASSUME MinerInv, BuildRules
  PROVE  RulesInv' /\ WorkInv'
<1> DEFINE c == Head(work)
           Gathered(j) == IF c.body = {} THEN bodyMap[j] ELSE c.gids \cap bodyMap[j]
           kept == {k \in c.at + 1 .. Len(c.vb) : MoreThan(Size(Gathered(c.vb[k])))}
           vb == Selected(c.vb, kept)
           Heading(j) == [call |-> "buildHead", body |-> c.body \cup {j}, head |-> {},
                          gids |-> Gathered(j), support |-> Size(Gathered(j)),
                          v |-> c.vh, max |-> job.maxHead, at |-> 0]
           Deeper(j, k) == [call |-> "buildRules", body |-> c.body \cup {j}, gids |-> Gathered(j),
                            vb |-> vb, vh |-> KeptHeads(c.vh, 0, c.body \cup {j}, Gathered(j)),
                            max |-> c.max - 1, at |-> k]
           all == [k \in DOMAIN vb |-> Deeper(vb[k], k)]
           deeper == IF Deepens(c) THEN all ELSE <<>>
           shallow == Mapped(vb, Heading)
<1>1. Calling("buildRules", shallow \o deeper \o Tail(work), <<>>)
  BY DEF BuildRules
<1>2. work # <<>> /\ c.call = "buildRules"
  BY <1>1 DEF Calling
<1>3. CallFits(c)
  BY <1>2, FirstCall DEF MinerInv
<1>4. c.body \in SUBSET Items /\ c.vb \in Seq(Items) /\ c.vh \in Seq(Items) /\ c.at \in Nat
  BY <1>2, <1>3 DEF CallFits
<1> HIDE DEF c
<1>5. Len(c.vb) \in Nat /\ \A k \in 1 .. Len(c.vb) : c.vb[k] \in Items
  BY <1>4, LenProperties, ElementOfSeq
<1>6. kept \in SUBSET Nat /\ IsFiniteSet(kept) /\ \A k \in kept : c.vb[k] \in Items
  <2>1. kept \subseteq 1 .. Len(c.vb)
    BY <1>4, <1>5
  <2> HIDE DEF kept
  <2>2. 1 \in Int /\ Len(c.vb) \in Int
    BY <1>5
  <2>3. IsFiniteSet(1 .. Len(c.vb))
    BY <2>2, FS_Interval
  <2>4. IsFiniteSet(kept)
    BY <2>1, <2>3, FS_Subset
  <2>5. \A k \in kept : c.vb[k] \in Items
    BY <1>5, <2>1
  <2>6. kept \in SUBSET Nat
    BY <1>5, <2>1
  <2>7. QED  BY <2>4, <2>5, <2>6
<1> HIDE DEF kept
<1>7. SelectedFrom(vb, c.vb, kept)
  BY <1>6, SelectedProperties
<1> DEFINE n == Len(vb)
<1> HIDE DEF vb
<1>8. IsList(vb) /\ \A k \in 1 .. n : vb[k] \in Items
  BY <1>6, <1>7 DEF SelectedFrom
<1>9. n \in Nat /\ DOMAIN vb = 1 .. n /\ vb \in Seq(Items)
  BY <1>8, ListDomain, ListInSet
<1> HIDE DEF n
<1>10. shallow = [k \in 1 .. n |-> Heading(vb[k])] /\ all = [k \in 1 .. n |-> Deeper(vb[k], k)]
  BY <1>9 DEF Mapped
<1> HIDE DEF shallow, all
<1>11. ASSUME NEW j \in Items  PROVE CallFits(Heading(j))
  <2>1. /\ Heading(j).call = "buildHead" /\ Heading(j).body = c.body \cup {j}
        /\ Heading(j).head = {} /\ Heading(j).v = c.vh /\ Heading(j).at = 0
    OBVIOUS
  <2> HIDE DEF Heading
  <2>2. QED  BY <1>4, <2>1 DEF CallFits, Apart
<1>12. ASSUME NEW j \in Items, NEW k \in Nat  PROVE CallFits(Deeper(j, k))
  <2> DEFINE vh == KeptHeads(c.vh, 0, c.body \cup {j}, Gathered(j))
  <2>1. /\ Deeper(j, k).call = "buildRules" /\ Deeper(j, k).body = c.body \cup {j}
        /\ Deeper(j, k).vb = vb /\ Deeper(j, k).vh = vh /\ Deeper(j, k).at = k
    OBVIOUS
  <2>2. vh \in Seq(Items)
    BY <1>4, KeptHeadsApart
  <2> HIDE DEF Deeper, vh
  <2>3. QED  BY <1>4, <1>9, <2>1, <2>2 DEF CallFits
<1> HIDE DEF Heading, Deeper
<1>13. CallsFit(shallow)
  <2>1. shallow = [k \in 1 .. n |-> shallow[k]] /\ \A k \in 1 .. n : CallFits(shallow[k])
    BY <1>8, <1>10, <1>11 DEF n
  <2>2. QED  BY <1>9, <2>1, CallsListed
<1>14. CallsFit(all)
  <2>1. all = [k \in 1 .. n |-> all[k]] /\ \A k \in 1 .. n : CallFits(all[k])
    BY <1>8, <1>9, <1>10, <1>12 DEF n
  <2>2. QED  BY <1>9, <2>1, CallsListed
<1>15. CallsFit(deeper)
  BY <1>14, NoCallsFit
<1> HIDE DEF deeper
<1> DEFINE new == shallow \o deeper
<1>16. CallsFit(new)
  BY <1>13, <1>15, MoreCallsFit
<1>17. Calling("buildRules", new \o Tail(work), <<>>)
  BY <1>1
<1> HIDE DEF new
<1>18. RulesInv'
  BY <1>17, CallInsertsNothing DEF MinerInv
<1>19. WorkInv'
  BY <1>16, <1>17, CallQueues DEF MinerInv, CallsFit
<1>20. QED  BY <1>18, <1>19

LEMMA BuildHeadStep ==
  ASSUME MinerInv, BuildHead
  PROVE  RulesInv' /\ WorkInv'
<1> DEFINE c == Head(work)
           v == KeptHeads(c.v, c.at, c.body, c.gids)
           Longer(h, k) == [c EXCEPT !.head = @ \cup {h}, !.gids = @ \cap headMap[h],
                                     !.v = v, !.max = @ - 1, !.at = k]
           found == [k \in DOMAIN v |-> Longer(v[k], k)]
           deeper == IF Deepens(c) THEN found ELSE <<>>
<1>1. Calling("buildHead", deeper \o Tail(work), found)
  BY DEF BuildHead
<1>2. work # <<>> /\ c.call = "buildHead"
  BY <1>1 DEF Calling
<1>3. CallFits(c)
  BY <1>2, FirstCall DEF MinerInv
<1>4. c.body \in SUBSET Items /\ c.v \in Seq(Items) /\ c.at \in Nat /\ Apart(c)
  BY <1>2, <1>3 DEF CallFits
<1>5. v \in Seq(Items) /\ \A k \in 1 .. Len(v) : v[k] \notin c.body
  BY <1>4, KeptHeadsApart
<1> DEFINE n == Len(v)
<1>6. n \in Nat /\ DOMAIN v = 1 .. n
  BY <1>5, LenProperties
<1>7. found = [k \in 1 .. n |-> Longer(v[k], k)]
  BY <1>6
<1> HIDE DEF v, found
<1>8. ASSUME NEW h, h \notin c.body, NEW k \in Nat
      PROVE  CallFits(Longer(h, k)) /\ Apart(Longer(h, k))
  <2>1. /\ Longer(h, k).call = c.call /\ Longer(h, k).body = c.body
        /\ Longer(h, k).head = c.head \cup {h} /\ Longer(h, k).v = v /\ Longer(h, k).at = k
    OBVIOUS
  <2> HIDE DEF Longer, c
  <2>2. Apart(Longer(h, k))
    BY <1>4, <1>8, <2>1 DEF Apart
  <2>3. QED  BY <1>2, <1>4, <1>5, <2>1, <2>2 DEF CallFits
<1> HIDE DEF Longer, n
<1>9. \A k \in 1 .. n : CallFits(found[k]) /\ Apart(found[k])
  BY <1>5, <1>6, <1>7, <1>8 DEF n
<1>10. found = [k \in 1 .. n |-> found[k]]
  BY <1>7
<1>11. CallsFit(deeper)
  BY <1>6, <1>9, <1>10, CallsListed, NoCallsFit
<1> HIDE DEF deeper, c
<1>12. RulesInv'
  BY <1>1, <1>6, <1>9, <1>10, CallInserts DEF MinerInv
<1>13. WorkInv'
  BY <1>1, <1>11, CallQueues DEF MinerInv, CallsFit
<1>14. QED  BY <1>12, <1>13

LEMMA PruneBodiesStep ==
  ASSUME MinerInv, PruneBodies
  PROVE  WorkInv' /\ PairsInv'
<1> DEFINE kept == [i \in Items |-> [j \in Items |->
                      IF Reaches(Size(pairs[i][j])) THEN pairs[i][j] ELSE {}]]
           left == {i \in Items : \E j \in Items : kept[i][j] # {}}
           Queued(i) == [call |-> "body", body |-> {i}, gids |-> bodyMap[i], last |-> i,
                         table |-> kept[i]]
           calls == Mapped(InOrder(left), Queued)
<1>1. /\ \E a \in {"NoCross", "AndCross"} : StartMining(a, calls)
      /\ pairs' = [i \in Items |-> IF i \in left THEN kept[i] ELSE Nowhere]
      /\ bodyMap' = [i \in Items |-> IF i \in left THEN bodyMap[i] ELSE {}]
  BY DEF PruneBodies
<1>2. /\ algorithm \in {"NoCross", "AndCross"} /\ work' = calls
      /\ job' = job /\ algorithm' = algorithm
  BY <1>1 DEF StartMining
<1>3. \A i \in Items : OwnHead(kept[i], i)
  BY DEF MinerInv, PairsInv, OwnHead
<1>4. left \in SUBSET Items
  OBVIOUS
<1>5. Size(left) \in Nat /\ InOrder(left) \in [1 .. Size(left) -> left]
  <2> HIDE DEF left
  <2>1. QED  BY <1>4, SubsetFinite, InOrderProperties
<1> HIDE DEF left
<1>6. PairsInv'
  <2>1. ASSUME NEW i \in Items  PROVE OwnHead(pairs'[i], i)
    <3>1. pairs'[i] = kept[i] \/ pairs'[i] = Nowhere
      BY <1>1
    <3>2. OwnHead(Nowhere, i)
      BY DEF OwnHead, Nowhere
    <3> HIDE DEF kept
    <3>3. QED  BY <1>3, <3>1, <3>2
  <2>2. ASSUME NEW i \in Items  PROVE IsFiniteSet(bodyMap'[i])
    <3>1. bodyMap'[i] = bodyMap[i] \/ bodyMap'[i] = {}
      BY <1>1
    <3>2. QED  BY <3>1, FS_EmptySet DEF MinerInv, PairsInv
  <2>3. QED  BY <1>2, <2>1, <2>2 DEF PairsInv, OwnHead
<1> DEFINE n == Size(left)
<1>7. calls = [k \in 1 .. n |-> Queued(InOrder(left)[k])]
  BY <1>5 DEF Mapped
<1> HIDE DEF calls, kept
<1>8. ASSUME NEW i \in Items  PROVE CallFits(Queued(i))
  <2>1. Queued(i).call = "body" /\ Queued(i).body = {i} /\ Queued(i).table = kept[i]
    OBVIOUS
  <2> HIDE DEF Queued
  <2>2. QED  BY <1>2, <1>3, <2>1 DEF CallFits
<1> HIDE DEF Queued
<1>9. calls = [k \in 1 .. n |-> calls[k]] /\ \A k \in 1 .. n : CallFits(calls[k])
  BY <1>4, <1>5, <1>7, <1>8
<1> HIDE DEF n
<1>10. CallsFit(calls)
  BY <1>5, <1>9, CallsListed DEF n
<1>11. WorkInv'
  BY <1>2, <1>10 DEF CallsFit, WorkInv, CallFits, OwnHead, Apart
<1>12. QED  BY <1>6, <1>11

LEMMA OrderedByKey ==
  ASSUME NEW S \in SUBSET Items, NEW key, \A i \in S : key[i] \in Nat
  PROVE  OrderedBy(S, key) \in Seq(Items)
<1> DEFINE P == {<<key[i], i>> : i \in S}
           listed == Listed[P]
<1>1. P \in SUBSET (Nat \X Nat) /\ \A p \in P : p[2] \in Items
  BY SourceAssumption
<1>2. IsFiniteSet(P)
  <2> DEFINE f == [i \in S |-> <<key[i], i>>]
  <2>1. f \in Surjection(S, P)
    BY DEF Surjection
  <2>2. IsFiniteSet(S)
    BY SubsetFinite
  <2> HIDE DEF f
  <2>3. QED  BY <2>1, <2>2, FS_Surjection
<1> HIDE DEF P
<1>3. Size(P) \in Nat /\ listed \in [1 .. Size(P) -> P]
  BY <1>1, <1>2, ListedProperties
<1>4. OrderedBy(S, key) = [k \in 1 .. Size(P) |-> listed[k][2]]
  BY <1>3 DEF OrderedBy, P
<1> HIDE DEF listed
<1>5. OrderedBy(S, key) \in [1 .. Size(P) -> Items]
  BY <1>1, <1>3, <1>4
<1> HIDE DEF OrderedBy
<1>6. QED  BY <1>3, <1>5

LEMMA PruneCareStep ==
  ASSUME MinerInv, PruneCare
  PROVE  WorkInv'
<1> DEFINE vb == {i \in Items : MoreThan(Size(bodyMap[i]))}
           vh == {i \in Items : headMap[i] # {}}
           key == [i \in Items |-> Size(bodyMap[i])]
           c == [call |-> "buildRules", body |-> {}, gids |-> {},
                 vb |-> OrderedBy(vb, key), vh |-> InOrder(vh), max |-> job.maxBody, at |-> 0]
<1>1. StartMining("Care", <<c>>)
  BY DEF PruneCare
<1>2. vb \in SUBSET Items /\ vh \in SUBSET Items
  OBVIOUS
<1>3. \A i \in vb : key[i] \in Nat
  BY FS_CardinalityType DEF MinerInv, PairsInv, Size
<1> HIDE DEF vb, vh, key
<1>4. OrderedBy(vb, key) \in Seq(Items)
  BY <1>2, <1>3, OrderedByKey
<1>5. InOrder(vh) \in Seq(Items)
  <2>1. InOrder(vh) \in Seq(vh)
    BY <1>2, SubsetFinite, InOrderProperties
  <2>2. QED  BY <1>2, <2>1, SeqMonotonic
<1>6. /\ c.call = "buildRules" /\ c.body = {} /\ c.at = 0
      /\ c.vb = OrderedBy(vb, key) /\ c.vh = InOrder(vh)
  OBVIOUS
<1> HIDE DEF c
<1>7. CallFits(c)
  BY <1>4, <1>5, <1>6 DEF CallFits
<1>8. CallsFit(<<c>>)
  BY <1>7, OneCall DEF CallsFit
<1>9. work' = <<c>> /\ job' = job /\ algorithm' = algorithm
  BY <1>1 DEF StartMining
<1>10. QED  BY <1>8, <1>9 DEF CallsFit, WorkInv, CallFits, OwnHead, Apart

LEMMA GidFinite ==
  ASSUME NEW map, NEW items, NEW gid, \A i \in Items : IsFiniteSet(map[i])
  PROVE  \A i \in Items : IsFiniteSet(AddGid(map, items, gid)[i])
BY FS_AddElement DEF AddGid

(* The joined rows leave an item out of its own heads.                     *)
LEMMA ReadAndCrossStep ==
  ASSUME MinerInv, ReadAndCross
  PROVE  PairsInv' /\ JoinInv'
<1> DEFINE joined == Loaded(bodies, Gid, bodyAt)
           headsOf(i) == {r.head : r \in {q \in joined : q.body = i}}
<1>1. /\ Reading({"AndCross"})
      /\ bodyMap' = AddGid(bodyMap, {r.body : r \in joined}, groups + 1)
      /\ pairs' = [i \in Items |-> AddGid(pairs[i], headsOf(i), groups + 1)]
  BY DEF ReadAndCross
<1>2. /\ phase = "read" /\ algorithm = "AndCross" /\ ~AfterLast(bodies, bodyAt)
      /\ bodyAt' = LoadEnd(bodies, Gid, bodyAt) /\ bodies' = bodies
      /\ job' = job /\ algorithm' = algorithm /\ phase' = phase
  BY <1>1 DEF Reading
<1>3. bodies = Joined(job.rows) /\ bodyAt \in 1 .. Len(bodies) + 1 /\ job.rows \in Seq(SourceRow)
  BY <1>2, JobTable DEF MinerInv, JoinInv
<1>4. /\ Result(bodies)
      /\ \A g : GroupRows(bodies, g) = JoinedOf(job.rows, job.same, job.cross, g)
  BY <1>3, TableOfRows, JoinedGroups DEF Joined
<1>5. /\ LoadEnd(bodies, Gid, bodyAt) \in bodyAt .. Len(bodies) + 1
      /\ \A i \in bodyAt .. LoadEnd(bodies, Gid, bodyAt) - 1 : bodies[i].gid = Gid
  BY <1>3, <1>4, LoadEndProperties
<1>6. joined \subseteq GroupRows(bodies, Gid)
  BY <1>3, <1>4, <1>5 DEF Loaded, GroupRows, Result
<1> HIDE DEF joined
<1>7. ASSUME job.same, NEW r \in joined  PROVE r.body # r.head
  <2>1. r \in JoinedOf(job.rows, job.same, job.cross, Gid)
    BY <1>4, <1>6
  <2>2. PICK i, j \in DOMAIN job.rows :
          JoinsAt(job.rows, i, j, job.same, job.cross) /\ r = PairAt(job.rows, i, j)
    BY <2>1 DEF JoinedOf
  <2>3. job.rows[i].item # job.rows[j].item
    BY <1>7, <2>2 DEF JoinsAt, Joins
  <2>4. QED  BY <2>2, <2>3 DEF PairAt
<1>8. ASSUME NEW i \in Items  PROVE OwnHead(pairs'[i], i)
  <2>1. ASSUME job.same  PROVE i \notin headsOf(i)
    BY <1>7, <2>1
  <2>2. pairs'[i] = AddGid(pairs[i], headsOf(i), groups + 1)
    BY <1>1
  <2> HIDE DEF headsOf
  <2>3. job.same => pairs'[i][i] = pairs[i][i]
    BY <2>1, <2>2 DEF AddGid
  <2>4. QED  BY <1>2, <2>3 DEF MinerInv, PairsInv, OwnHead
<1>9. \A i \in Items : IsFiniteSet(bodyMap'[i])
  BY <1>1, GidFinite DEF MinerInv, PairsInv
<1>10. PairsInv'
  BY <1>2, <1>8, <1>9 DEF PairsInv, OwnHead
<1>11. JoinInv'
  <2>1. LoadEnd(bodies, Gid, bodyAt) \in 1 .. Len(bodies) + 1
    BY <1>3, <1>4, <1>5 DEF Result
  <2>2. QED  BY <1>2, <1>3, <2>1 DEF JoinInv, Joined
<1>12. QED  BY <1>10, <1>11

LEMMA MinerStep ==
  ASSUME MinerInv, [MineAndMatch]_<<vars, matchVars>>
  PROVE  MinerInv'
<1>1. JobInv'
  BY JobStep DEF MinerInv
<1>2. CASE GenerateRules \/ AddHead \/ BuildRules \/ BuildHead
  <2>1. RulesInv' /\ WorkInv'
    BY <1>2, GenerateRulesStep, AddHeadStep, BuildRulesStep, BuildHeadStep
  <2>2. /\ job' = job /\ algorithm' = algorithm /\ phase' = "mine"
        /\ pairs' = pairs /\ bodyMap' = bodyMap
    BY <1>2 DEF GenerateRules, AddHead, BuildRules, BuildHead, Calling, maps
  <2>3. PairsInv' /\ JoinInv'
    BY <2>2 DEF MinerInv, PairsInv, JoinInv, OwnHead
  <2>4. QED  BY <1>1, <2>1, <2>3 DEF MinerInv
<1>3. CASE PruneBodies \/ PruneCare \/ PruneItemsets
  <2>1. /\ job' = job /\ algorithm' = algorithm /\ phase' = "mine" /\ rules' = rules
    BY <1>3 DEF PruneBodies, PruneCare, PruneItemsets, StartMining
  <2>2. RulesInv' /\ JoinInv'
    BY <2>1 DEF MinerInv, RulesInv, RuleFits, Apart, JoinInv
  <2>3. CASE PruneBodies
    BY <1>1, <2>2, <2>3, PruneBodiesStep DEF MinerInv
  <2>4. CASE PruneCare \/ PruneItemsets
    <3>1. pairs' = pairs /\ bodyMap' = bodyMap
      BY <2>4 DEF PruneCare, PruneItemsets
    <3>2. PairsInv'
      BY <2>1, <3>1 DEF MinerInv, PairsInv, OwnHead
    <3>3. PruneItemsets => work' = <<>>
      BY DEF PruneItemsets, StartMining
    <3>4. WorkInv'
      BY <2>4, <3>3, PruneCareStep, EmptyList DEF WorkInv
    <3>5. QED  BY <1>1, <2>2, <3>2, <3>4 DEF MinerInv
  <2>5. QED  BY <1>3, <2>3, <2>4
<1>4. CASE ReadNoCross \/ ReadCare \/ ReadItemsets \/ ReadAndCross
  <2>1. /\ job' = job /\ algorithm' = algorithm /\ phase' = "read" /\ rules' = rules
        /\ work' = work
    BY <1>4 DEF ReadNoCross, ReadCare, ReadItemsets, ReadAndCross, Reading
  <2>2. RulesInv' /\ WorkInv'
    BY <2>1 DEF MinerInv, RulesInv, RuleFits, Apart, WorkInv, CallFits, OwnHead
  <2>3. CASE ReadAndCross
    BY <1>1, <2>2, <2>3, ReadAndCrossStep DEF MinerInv
  <2>4. CASE ReadNoCross \/ ReadCare \/ ReadItemsets
    <3>1. algorithm # "AndCross" /\ bodyMap' = AddGid(bodyMap, BodyItems, groups)
      BY <2>4 DEF ReadNoCross, ReadCare, ReadItemsets, Reading
    <3>2. \A i \in Items : IsFiniteSet(bodyMap'[i])
      BY <3>1, GidFinite DEF MinerInv, PairsInv
    <3>3. PairsInv' /\ JoinInv'
      BY <2>1, <3>1, <3>2 DEF PairsInv, OwnHead, JoinInv
    <3>4. QED  BY <1>1, <2>2, <3>3 DEF MinerInv
  <2>5. QED  BY <1>4, <2>3, <2>4
<1>5. CASE Prepare
  <2>1. /\ job' = job /\ phase = "choose" /\ phase' \in {"read", "failed"} /\ bodyAt' = bodyAt
        /\ rules' = rules /\ work' = work /\ pairs' = pairs /\ bodyMap' = bodyMap
        /\ algorithm' = "AndCross" => bodies' = Joined(job.rows)
    BY <1>5 DEF Prepare, maps
  <2>2. work = <<>> /\ bodyAt = 1 /\ pairs = [i \in Items |-> Nowhere]
    BY <2>1 DEF MinerInv, JoinInv
  <2>3. RulesInv'
    BY <2>1 DEF MinerInv, RulesInv, RuleFits, Apart
  <2>4. WorkInv'
    BY <2>1, <2>2, EmptyList DEF WorkInv
  <2>5. PairsInv'
    BY <2>1, <2>2 DEF MinerInv, PairsInv, OwnHead, Nowhere
  <2>6. JoinInv'
    <3>1. job.rows \in Seq(SourceRow)
      BY JobTable DEF MinerInv
    <3>2. Result(Joined(job.rows))
      BY <3>1, TableOfRows, JoinedGroups DEF Joined
    <3>3. Len(Joined(job.rows)) \in Nat
      BY <3>2 DEF Result
    <3>4. 1 \in 1 .. Len(Joined(job.rows)) + 1
      BY <3>3
    <3>5. QED  BY <2>1, <2>2, <3>4 DEF JoinInv, Joined
  <2>7. QED  BY <1>1, <2>3, <2>4, <2>5, <2>6 DEF MinerInv
<1>6. CASE \/ UNCHANGED vars
           \/ Refuse \/ Finish \/ OpenSourceTable
  <2>1. /\ job' = job /\ algorithm' = algorithm /\ rules' = rules /\ work' = work
        /\ pairs' = pairs /\ bodyMap' = bodyMap /\ bodies' = bodies /\ bodyAt' = bodyAt
        /\ phase' = phase \/ phase' \notin {"choose", "read"}
    BY <1>6 DEF vars, Refuse, Finish, OpenSourceTable, cursors, maps
  <2>2. RulesInv' /\ WorkInv'
    BY <2>1 DEF MinerInv, RulesInv, RuleFits, Apart, WorkInv, CallFits, OwnHead
  <2>3. PairsInv' /\ JoinInv'
    BY <2>1 DEF MinerInv, PairsInv, OwnHead, JoinInv, Joined
  <2>4. QED  BY <1>1, <2>2, <2>3 DEF MinerInv
<1>7. MatchStep => UNCHANGED vars
  BY DEF MatchStep, ReadsGroup, MatchRuleTransaction, MatchItemTransaction, NoMoreHeads,
         NoMoreGroups, PrintMatches, SaveMatches
<1>8. UNCHANGED <<vars, matchVars>> => UNCHANGED vars
  BY DEF vars, matchVars
<1>9. QED  BY <1>2, <1>3, <1>4, <1>5, <1>6, <1>7, <1>8 DEF MineAndMatch, Next

LEMMA MinerStarts ==
  ASSUME MatchInit
  PROVE  MinerInv
<1>1. /\ job \in Jobs /\ phase = "choose" /\ bodyAt = 1 /\ work = <<>> /\ rules = <<>>
      /\ bodyMap = Nowhere /\ pairs = [i \in Items |-> Nowhere]
  BY DEF MatchInit, Init
<1>2. RulesInv /\ WorkInv
  BY <1>1, EmptyList DEF RulesInv, WorkInv
<1>3. PairsInv
  BY <1>1, FS_EmptySet DEF PairsInv, OwnHead, Nowhere
<1>4. QED  BY <1>1, <1>2, <1>3 DEF MinerInv, JobInv, JoinInv

-----------------------------------------------------------------------------
(* Matching.                                                               *)

Opened == matching # "idle"

TargetInv ==
  Opened =>
    /\ phase = "left" /\ target \in Seq(SourceRow) /\ full \in BOOLEAN
    /\ job.crossing => full
    /\ bodyRows = IF full THEN Joined(target) ELSE Ordered(target, BodyRows(target), TRUE)
    /\ ~full => headRows = Ordered(target, HeadRows(target), TRUE)

(* The items that mr-match compares with a rule for the group g.           *)
BodyItemsOf(g) ==
  IF full THEN {q.body : q \in GroupRows(bodyRows, g)} ELSE ItemsOf(GroupRows(bodyRows, g))
HeadItemsOf(g) ==
  IF full THEN {q.head : q \in GroupRows(bodyRows, g)} ELSE ItemsOf(GroupRows(headRows, g))
FitsGroup(r, g) == Matches(r, BodyItemsOf(g), HeadItemsOf(g))

GroupsMatched == GidsBefore(bodyRows, bodyRow)
Headless(g) == ~full /\ GroupRows(bodyRows, g) # {} /\ GroupRows(headRows, g) = {}

(* Each rule has the groups compared so far that fit it, in their order;   *)
(* the loop is left behind the last group or behind one without heads.     *)
LoopInv ==
  /\ ~Opened => bodyRow = 1 /\ headRow = 1
  /\ Opened =>
       /\ BetweenGroups(bodyRows, bodyRow)
       /\ ~full => NotBeyond(headRows, headRow, GroupsMatched)
       /\ \A k \in DOMAIN rules :
            matches[k] = InOrder({g \in GroupsMatched : FitsGroup(rules[k], g)})
  /\ matching \in {"print", "done"} =>
       AfterLast(bodyRows, bodyRow) \/ \E g : Headless(g)

LEMMA ItemsOfRows ==
  ASSUME NEW t, NEW g
  PROVE  /\ ItemsOf(GroupRowsOf(t, BodyRows(t), g)) = ItemsIn(t, g, "body")
         /\ ItemsOf(GroupRowsOf(t, HeadRows(t), g)) = ItemsIn(t, g, "head")
BY DEF ItemsOf, GroupRowsOf, BodyRows, HeadRows, ItemsIn

LEMMA TargetQueries ==
  ASSUME TargetInv, Opened
  PROVE  /\ Result(bodyRows) /\ ByGid(bodyRows)
         /\ ~full => Result(headRows) /\ ByGid(headRows)
         /\ \A g : full =>
              GroupRows(bodyRows, g) = JoinedOf(target, job.same, job.cross, g)
         /\ \A g : ~full =>
              /\ ItemsOf(GroupRows(bodyRows, g)) = ItemsIn(target, g, "body")
              /\ ItemsOf(GroupRows(headRows, g)) = ItemsIn(target, g, "head")
<1>1. target \in Seq(SourceRow) /\ Table(target)
  BY TableOfRows DEF TargetInv
<1>2. CASE full
  <2>1. bodyRows = Ordered(Pairs(target), JoinedRows(target, job.same, job.cross), TRUE)
    BY <1>2 DEF TargetInv, Joined
  <2>2. QED  BY <1>1, <1>2, <2>1, JoinedGroups
<1>3. CASE ~full
  <2>1. BodyRows(target) \in SUBSET DOMAIN target /\ HeadRows(target) \in SUBSET DOMAIN target
    BY DEF BodyRows, HeadRows
  <2>2. /\ bodyRows = Ordered(target, BodyRows(target), TRUE)
        /\ headRows = Ordered(target, HeadRows(target), TRUE)
    BY <1>3 DEF TargetInv
  <2>3. ByGid(bodyRows) /\ ByGid(headRows)
    BY <1>1, <2>1, <2>2, OrderedProperties
  <2>4. /\ Result(bodyRows)
        /\ \A g : GroupRows(bodyRows, g) = GroupRowsOf(target, BodyRows(target), g)
    BY <1>1, <2>1, <2>2, OrderedGroups
  <2>5. /\ Result(headRows)
        /\ \A g : GroupRows(headRows, g) = GroupRowsOf(target, HeadRows(target), g)
    BY <1>1, <2>1, <2>2, OrderedGroups
  <2>6. QED  BY <1>3, <2>3, <2>4, <2>5, ItemsOfRows
<1>4. QED  BY <1>2, <1>3

LEMMA OpensTable ==
  ASSUME MinerInv, LoopInv, OpenSourceTable
  PROVE  TargetInv' /\ LoopInv'
<1>1. /\ matching = "idle" /\ matching' = "read" /\ phase' = "left"
      /\ job' = job /\ rules' = rules /\ bodyRow' = bodyRow /\ headRow' = headRow
      /\ target' \in {job.rows} \cup OtherTables /\ full' \in RequiresCrossProduct
      /\ bodyRows' = IF full' THEN Joined(target')
                              ELSE Ordered(target', BodyRows(target'), TRUE)
      /\ headRows' = IF full' THEN <<>> ELSE Ordered(target', HeadRows(target'), TRUE)
      /\ matches' = [k \in DOMAIN rules |-> <<>>]
  BY DEF OpenSourceTable
<1>2. TargetInv'
  <2>1. target' \in Seq(SourceRow)
    BY <1>1, JobTable, TablesAssumption DEF MinerInv
  <2>2. full' \in BOOLEAN /\ (job.crossing => full')
    BY <1>1 DEF RequiresCrossProduct
  <2>3. QED  BY <1>1, <2>1, <2>2 DEF TargetInv, Joined
<1>3. Result(bodyRows') /\ (~full' => Result(headRows'))
  <2>1. Opened'
    BY <1>1 DEF Opened
  <2>2. (Result(bodyRows) /\ (~full => Result(headRows)))'
    BY <1>2, <2>1, TargetQueries, PTL
  <2>3. QED  BY <2>2
<1>4. bodyRow = 1 /\ headRow = 1
  BY <1>1 DEF LoopInv, Opened
<1>5. GroupsMatched' = {}
  BY <1>1, <1>4 DEF GroupsMatched, GidsBefore
<1>6. BetweenGroups(bodyRows', 1) /\ (~full' => NotBeyond(headRows', 1, {}))
  BY <1>3 DEF BetweenGroups, NotBeyond, Result
<1>7. InOrder({}) = <<>>
  <2>1. {} \in SUBSET Nat /\ IsFiniteSet({}) /\ Size({}) = 0
    BY FS_EmptySet DEF Size
  <2>2. InOrder({}) \in Seq({}) /\ Len(InOrder({})) = 0
    BY <2>1, InOrderProperties
  <2>3. QED  BY <2>2, EmptySeq
<1>8. \A k \in DOMAIN rules : matches'[k] = <<>>
  BY <1>1
<1>9. QED  BY <1>1, <1>2, <1>4, <1>5, <1>6, <1>7, <1>8 DEF LoopInv, Opened

(* The group read next is larger than those matched, and the items loaded  *)
(* for it are its items.                                                   *)
LEMMA NextMatch ==
  ASSUME TargetInv, LoopInv, Opened, ~AfterLast(bodyRows, bodyRow)
  PROVE  /\ MatchGid \in Nat /\ \A g \in GroupsMatched : g \in Nat /\ g < MatchGid
         /\ IsFiniteSet(GroupsMatched)
         /\ Loaded(bodyRows, MatchGid, bodyRow) = GroupRows(bodyRows, MatchGid)
         /\ GroupRows(bodyRows, MatchGid) # {}
         /\ BetweenGroups(bodyRows, LoadEnd(bodyRows, MatchGid, bodyRow))
         /\ GidsBefore(bodyRows, LoadEnd(bodyRows, MatchGid, bodyRow)) = GroupsMatched \cup {MatchGid}
         /\ ~full => LET found == FindGid(headRows, MatchGid, headRow) IN
              /\ NotBeyond(headRows, found, GroupsMatched \cup {MatchGid})
              /\ NotBeyond(headRows, LoadEnd(headRows, MatchGid, found), GroupsMatched \cup {MatchGid})
              /\ Loaded(headRows, MatchGid, found) = GroupRows(headRows, MatchGid)
              /\ Found(headRows, MatchGid, found) <=> GroupRows(headRows, MatchGid) # {}
<1>1. /\ Result(bodyRows) /\ ByGid(bodyRows)
      /\ ~full => Result(headRows) /\ ByGid(headRows)
  BY TargetQueries
<1>2. /\ BetweenGroups(bodyRows, bodyRow)
      /\ ~full => NotBeyond(headRows, headRow, GroupsMatched)
  BY DEF LoopInv
<1>3. MatchGid = bodyRows[bodyRow].gid /\ GroupsMatched = GidsBefore(bodyRows, bodyRow)
  BY DEF MatchGid, GroupsMatched
<1>4. /\ MatchGid \in Nat /\ \A g \in GroupsMatched : g \in Nat /\ g < MatchGid
      /\ IsFiniteSet(GroupsMatched)
      /\ Loaded(bodyRows, MatchGid, bodyRow) = GroupRows(bodyRows, MatchGid)
      /\ BetweenGroups(bodyRows, LoadEnd(bodyRows, MatchGid, bodyRow))
      /\ GidsBefore(bodyRows, LoadEnd(bodyRows, MatchGid, bodyRow)) = GroupsMatched \cup {MatchGid}
  BY <1>1, <1>2, <1>3, NextGroup
<1>5. GroupRows(bodyRows, MatchGid) # {}
  <2>1. bodyRow \in 1 .. Len(bodyRows)
    BY <1>1, <1>2 DEF BetweenGroups, AfterLast, Result
  <2>2. bodyRows[bodyRow] \in GroupRows(bodyRows, MatchGid)
    BY <1>3, <2>1 DEF GroupRows
  <2>3. QED  BY <2>2
<1>6. ASSUME ~full
      PROVE  LET found == FindGid(headRows, MatchGid, headRow) IN
             /\ NotBeyond(headRows, found, GroupsMatched \cup {MatchGid})
             /\ NotBeyond(headRows, LoadEnd(headRows, MatchGid, found), GroupsMatched \cup {MatchGid})
             /\ Loaded(headRows, MatchGid, found) = GroupRows(headRows, MatchGid)
             /\ Found(headRows, MatchGid, found) <=> GroupRows(headRows, MatchGid) # {}
  BY <1>1, <1>2, <1>4, <1>6, NextHeads
<1>7. QED  BY <1>4, <1>5, <1>6

(* What reading a group leaves alone.                                      *)
LEMMA GroupLeaves ==
  ASSUME ReadsGroup
  PROVE  /\ Opened /\ matching = "read" /\ ~AfterLast(bodyRows, bodyRow)
         /\ job' = job /\ phase' = phase /\ rules' = rules /\ full' = full /\ target' = target
         /\ bodyRows' = bodyRows /\ headRows' = headRows
         /\ bodyRow' = LoadEnd(bodyRows, MatchGid, bodyRow)
         /\ \A r, g : FitsGroup(r, g)' = FitsGroup(r, g)
         /\ \A g : Headless(g)' = Headless(g)
<1>1. /\ matching = "read" /\ ~AfterLast(bodyRows, bodyRow)
      /\ job' = job /\ phase' = phase /\ rules' = rules /\ full' = full /\ target' = target
      /\ bodyRows' = bodyRows /\ headRows' = headRows
      /\ bodyRow' = LoadEnd(bodyRows, MatchGid, bodyRow)
  BY DEF ReadsGroup, vars
<1>2. \A r, g : FitsGroup(r, g)' = FitsGroup(r, g)
  BY <1>1 DEF FitsGroup, BodyItemsOf, HeadItemsOf
<1>3. \A g : Headless(g)' = Headless(g)
  BY <1>1 DEF Headless
<1>4. QED  BY <1>1, <1>2, <1>3 DEF Opened

(* A rule that fits the next group gets it as its last one.                *)
LEMMA GroupAppended ==
  ASSUME NEW G \in SUBSET Nat, IsFiniteSet(G), NEW g \in Nat, \A h \in G : h < g,
         NEW P \in SUBSET (G \cup {g})
  PROVE  InOrder(P) = IF g \in P THEN Append(InOrder(P \cap G), g) ELSE InOrder(P \cap G)
<1>1. P \cap G \in SUBSET Nat /\ IsFiniteSet(P \cap G) /\ \A h \in P \cap G : h < g
  BY FS_Subset
<1>2. InOrder((P \cap G) \cup {g}) = Append(InOrder(P \cap G), g)
  BY <1>1, InOrderAppend
<1>3. g \in P => P = (P \cap G) \cup {g}
  OBVIOUS
<1>4. g \notin P => P = P \cap G
  OBVIOUS
<1>5. QED  BY <1>2, <1>3, <1>4

LEMMA MatchesGroup ==
  ASSUME TargetInv, LoopInv, ReadsGroup, NEW items, NEW others,
         MatchAll(MatchGid, items, others),
         items = BodyItemsOf(MatchGid), others = HeadItemsOf(MatchGid),
         matching' = "read", ~full => NotBeyond(headRows, headRow', GroupsMatched \cup {MatchGid})
  PROVE  LoopInv'
<1>1. /\ Opened /\ ~AfterLast(bodyRows, bodyRow) /\ rules' = rules /\ full' = full
      /\ bodyRows' = bodyRows /\ headRows' = headRows
      /\ bodyRow' = LoadEnd(bodyRows, MatchGid, bodyRow)
      /\ \A r, g : FitsGroup(r, g)' = FitsGroup(r, g)
  BY GroupLeaves
<1>2. /\ MatchGid \in Nat /\ \A g \in GroupsMatched : g \in Nat /\ g < MatchGid
      /\ IsFiniteSet(GroupsMatched)
      /\ BetweenGroups(bodyRows, LoadEnd(bodyRows, MatchGid, bodyRow))
      /\ GidsBefore(bodyRows, LoadEnd(bodyRows, MatchGid, bodyRow)) = GroupsMatched \cup {MatchGid}
  BY <1>1, NextMatch
<1>3. GroupsMatched' = GroupsMatched \cup {MatchGid}
  BY <1>1, <1>2 DEF GroupsMatched
<1>4. ASSUME NEW k \in DOMAIN rules
      PROVE  matches'[k] = InOrder({g \in GroupsMatched \cup {MatchGid} : FitsGroup(rules[k], g)})
  <2> DEFINE P == {g \in GroupsMatched \cup {MatchGid} : FitsGroup(rules[k], g)}
             S == {g \in GroupsMatched : FitsGroup(rules[k], g)}
  <2>1. matches[k] = InOrder(S)
    BY <1>1 DEF LoopInv
  <2>2. MatchGid \in P <=> Matches(rules[k], items, others)
    BY DEF FitsGroup
  <2>3. matches'[k] = IF MatchGid \in P THEN Append(matches[k], MatchGid) ELSE matches[k]
    BY <2>2 DEF MatchAll
  <2>4. P \in SUBSET (GroupsMatched \cup {MatchGid}) /\ P \cap GroupsMatched = S
    OBVIOUS
  <2>5. GroupsMatched \in SUBSET Nat /\ \A h \in GroupsMatched : h < MatchGid
    BY <1>2
  <2> HIDE DEF P, S
  <2>6. InOrder(P) = IF MatchGid \in P THEN Append(InOrder(S), MatchGid) ELSE InOrder(S)
    BY <1>2, <2>4, <2>5, GroupAppended
  <2>7. matches'[k] = InOrder(P)
    BY <2>1, <2>3, <2>6
  <2>8. QED  BY <2>7 DEF P
<1>5. QED  BY <1>1, <1>2, <1>3, <1>4 DEF LoopInv, Opened

LEMMA RuleTransaction ==
  ASSUME TargetInv, LoopInv, MatchRuleTransaction
  PROVE  LoopInv'
<1>1. /\ ReadsGroup /\ full /\ matching' = matching
      /\ MatchAll(MatchGid, {q.body : q \in Loaded(bodyRows, MatchGid, bodyRow)},
                            {q.head : q \in Loaded(bodyRows, MatchGid, bodyRow)})
  BY DEF MatchRuleTransaction
<1>2. Opened /\ matching = "read" /\ ~AfterLast(bodyRows, bodyRow)
  BY <1>1, GroupLeaves
<1>3. Loaded(bodyRows, MatchGid, bodyRow) = GroupRows(bodyRows, MatchGid)
  BY <1>2, NextMatch
<1>4. MatchAll(MatchGid, BodyItemsOf(MatchGid), HeadItemsOf(MatchGid))
  BY <1>1, <1>3 DEF BodyItemsOf, HeadItemsOf
<1>5. QED  BY <1>1, <1>2, <1>4, MatchesGroup

LEMMA ItemTransaction ==
  ASSUME TargetInv, LoopInv, MatchItemTransaction
  PROVE  LoopInv'
<1> DEFINE found == FindGid(headRows, MatchGid, headRow)
<1>1. /\ ReadsGroup /\ ~full /\ matching' = matching
      /\ headRow' = LoadEnd(headRows, MatchGid, found)
      /\ MatchAll(MatchGid, ItemsOf(Loaded(bodyRows, MatchGid, bodyRow)),
                            ItemsOf(Loaded(headRows, MatchGid, found)))
  BY DEF MatchItemTransaction
<1>2. Opened /\ matching = "read" /\ ~AfterLast(bodyRows, bodyRow)
  BY <1>1, GroupLeaves
<1>3. /\ Loaded(bodyRows, MatchGid, bodyRow) = GroupRows(bodyRows, MatchGid)
      /\ Loaded(headRows, MatchGid, found) = GroupRows(headRows, MatchGid)
      /\ NotBeyond(headRows, LoadEnd(headRows, MatchGid, found), GroupsMatched \cup {MatchGid})
  BY <1>1, <1>2, NextMatch
<1>4. MatchAll(MatchGid, BodyItemsOf(MatchGid), HeadItemsOf(MatchGid))
  BY <1>1, <1>3 DEF BodyItemsOf, HeadItemsOf
<1>5. QED  BY <1>1, <1>2, <1>3, <1>4, MatchesGroup

(* No rule fits a group without heads.                                     *)
LEMMA NoHeads ==
  ASSUME RulesInv, TargetInv, LoopInv, NoMoreHeads
  PROVE  LoopInv'
<1> DEFINE found == FindGid(headRows, MatchGid, headRow)
<1>1. /\ ReadsGroup /\ ~full /\ ~Found(headRows, MatchGid, found)
      /\ headRow' = found /\ matching' = "print" /\ matches' = matches
  BY DEF NoMoreHeads
<1>2. /\ Opened /\ ~AfterLast(bodyRows, bodyRow) /\ rules' = rules /\ full' = full
      /\ bodyRows' = bodyRows /\ headRows' = headRows
      /\ bodyRow' = LoadEnd(bodyRows, MatchGid, bodyRow)
      /\ \A r, g : FitsGroup(r, g)' = FitsGroup(r, g)
      /\ \A g : Headless(g)' = Headless(g)
  BY <1>1, GroupLeaves
<1>3. /\ GroupRows(bodyRows, MatchGid) # {}
      /\ BetweenGroups(bodyRows, LoadEnd(bodyRows, MatchGid, bodyRow))
      /\ GidsBefore(bodyRows, LoadEnd(bodyRows, MatchGid, bodyRow)) = GroupsMatched \cup {MatchGid}
      /\ NotBeyond(headRows, found, GroupsMatched \cup {MatchGid})
      /\ GroupRows(headRows, MatchGid) = {}
  BY <1>1, <1>2, NextMatch
<1>4. Headless(MatchGid)
  BY <1>1, <1>3 DEF Headless
<1>5. GroupsMatched' = GroupsMatched \cup {MatchGid}
  BY <1>2, <1>3 DEF GroupsMatched
<1>6. ASSUME NEW k \in DOMAIN rules
      PROVE  matches'[k] = InOrder({g \in GroupsMatched \cup {MatchGid} : FitsGroup(rules[k], g)})
  <2>1. rules[k].head # {}
    BY ListDomain DEF RulesInv, RuleFits
  <2>2. HeadItemsOf(MatchGid) = {}
    BY <1>1, <1>3 DEF HeadItemsOf, ItemsOf
  <2>3. ~FitsGroup(rules[k], MatchGid)
    BY <2>1, <2>2 DEF FitsGroup, Matches
  <2>4. {g \in GroupsMatched \cup {MatchGid} : FitsGroup(rules[k], g)}
          = {g \in GroupsMatched : FitsGroup(rules[k], g)}
    BY <2>3
  <2>5. QED  BY <1>1, <1>2, <2>4 DEF LoopInv
<1> HIDE DEF found
<1>7. /\ BetweenGroups(bodyRows', bodyRow') /\ NotBeyond(headRows', headRow', GroupsMatched')
  BY <1>1, <1>2, <1>3, <1>5
<1>8. \A k \in DOMAIN rules' :
        matches'[k] = InOrder({g \in GroupsMatched' : FitsGroup(rules[k], g)'})
  BY <1>2, <1>5, <1>6
<1>9. QED  BY <1>1, <1>2, <1>4, <1>7, <1>8 DEF LoopInv, Opened

MatchInv == MinerInv /\ TargetInv /\ LoopInv

LEMMA MatchingStep ==
  ASSUME MatchInv, [MineAndMatch]_<<vars, matchVars>>
  PROVE  MatchInv'
<1>1. MinerInv'
  BY MinerStep DEF MatchInv
<1>2. CASE OpenSourceTable
  BY <1>1, <1>2, OpensTable DEF MatchInv
<1>3. CASE MatchRuleTransaction \/ MatchItemTransaction \/ NoMoreHeads
  <2>1. ReadsGroup
    BY <1>3 DEF MatchRuleTransaction, MatchItemTransaction, NoMoreHeads
  <2>2. /\ Opened /\ job' = job /\ phase' = phase /\ full' = full /\ target' = target
        /\ bodyRows' = bodyRows /\ headRows' = headRows
    BY <2>1, GroupLeaves
  <2>3. TargetInv'
    BY <2>2 DEF MatchInv, TargetInv, Joined
  <2>4. LoopInv'
    BY <1>3, RuleTransaction, ItemTransaction, NoHeads DEF MatchInv, MinerInv
  <2>5. QED  BY <1>1, <2>3, <2>4 DEF MatchInv
<1>4. CASE NoMoreGroups \/ PrintMatches \/ SaveMatches
  <2>1. /\ UNCHANGED <<vars, target, full, bodyRows, headRows, bodyRow, headRow, matches>>
        /\ Opened /\ Opened'
        /\ matching' \in {"print", "done"} =>
             AfterLast(bodyRows, bodyRow) \/ matching \in {"print", "done"}
    BY <1>4 DEF NoMoreGroups, PrintMatches, SaveMatches, Opened
  <2>2. job' = job /\ phase' = phase /\ rules' = rules
    BY <2>1 DEF vars
  <2>3. TargetInv'
    BY <2>1, <2>2 DEF MatchInv, TargetInv, Joined
  <2>4. /\ \A r, g : FitsGroup(r, g)' = FitsGroup(r, g)
        /\ \A g : Headless(g)' = Headless(g)
        /\ GroupsMatched' = GroupsMatched
    BY <2>1 DEF FitsGroup, BodyItemsOf, HeadItemsOf, Headless, GroupsMatched
  <2>5. LoopInv'
    BY <2>1, <2>2, <2>4 DEF MatchInv, LoopInv
  <2>6. QED  BY <1>1, <2>3, <2>5 DEF MatchInv
<1>5. CASE (Next /\ UNCHANGED matchVars) \/ UNCHANGED <<vars, matchVars>>
  <2>1. /\ matching' = matching /\ target' = target /\ full' = full /\ bodyRows' = bodyRows
        /\ headRows' = headRows /\ bodyRow' = bodyRow /\ headRow' = headRow /\ matches' = matches
    BY <1>5 DEF matchVars
  <2>2. CASE Opened
    <3>1. UNCHANGED vars
      <4>1. phase = "left"
        BY <2>2 DEF MatchInv, TargetInv
      <4>2. ~Next
        BY <4>1 DEF Next, Refuse, Prepare, ReadNoCross, ReadAndCross, ReadCare, ReadItemsets,
             Reading, PruneBodies, PruneCare, PruneItemsets, StartMining, GenerateRules, AddHead,
             BuildRules, BuildHead, Calling, Finish
      <4>3. QED  BY <1>5, <4>2
    <3>2. job' = job /\ phase' = phase /\ rules' = rules
      BY <3>1 DEF vars
    <3>3. TargetInv'
      BY <2>1, <3>2 DEF MatchInv, TargetInv, Joined, Opened
    <3>4. /\ \A r, g : FitsGroup(r, g)' = FitsGroup(r, g)
          /\ \A g : Headless(g)' = Headless(g)
          /\ GroupsMatched' = GroupsMatched
      BY <2>1 DEF FitsGroup, BodyItemsOf, HeadItemsOf, Headless, GroupsMatched
    <3>5. LoopInv'
      BY <2>1, <3>2, <3>4 DEF MatchInv, LoopInv, Opened
    <3>6. QED  BY <1>1, <3>3, <3>5 DEF MatchInv
  <2>3. CASE ~Opened
    <3>1. TargetInv' /\ LoopInv'
      BY <2>1, <2>3 DEF MatchInv, TargetInv, LoopInv, Opened
    <3>2. QED  BY <1>1, <3>1 DEF MatchInv
  <2>4. QED  BY <2>2, <2>3
<1>6. QED  BY <1>2, <1>3, <1>4, <1>5 DEF MineAndMatch, MatchStep

-----------------------------------------------------------------------------
(* The groups that fit a rule and those in which it holds.                 *)

Holds(r, g) ==
  /\ r.body \subseteq ItemsIn(target, g, "body") /\ r.head \subseteq ItemsIn(target, g, "head")
  /\ \A b \in r.body : \A h \in r.head : <<b, h>> \in job.cross /\ ~(job.same /\ b = h)

LEMMA ItemRow ==
  ASSUME NEW g, NEW side \in {"body", "head"}, NEW i \in ItemsIn(target, g, side)
  PROVE  \E k \in DOMAIN target : target[k].gid = g /\ target[k].item = i /\ target[k][side]
BY DEF ItemsIn

(* The rows of the joined table have the items of the groups.              *)
LEMMA JoinedItems ==
  ASSUME TargetInv, Opened, full, NEW g
  PROVE  /\ \A b \in ItemsIn(target, g, "body") : \A h \in ItemsIn(target, g, "head") :
              <<b, h>> \in job.cross /\ ~(job.same /\ b = h) =>
                b \in BodyItemsOf(g) /\ h \in HeadItemsOf(g)
         /\ BodyItemsOf(g) \subseteq ItemsIn(target, g, "body")
         /\ HeadItemsOf(g) \subseteq ItemsIn(target, g, "head")
<1> DEFINE rows == GroupRows(bodyRows, g)
<1>1. rows = JoinedOf(target, job.same, job.cross, g)
  BY TargetQueries
<1>2. BodyItemsOf(g) = {q.body : q \in rows} /\ HeadItemsOf(g) = {q.head : q \in rows}
  BY DEF BodyItemsOf, HeadItemsOf
<1> HIDE DEF rows
<1>3. ASSUME NEW b \in ItemsIn(target, g, "body"), NEW h \in ItemsIn(target, g, "head"),
             <<b, h>> \in job.cross, ~(job.same /\ b = h)
      PROVE  b \in BodyItemsOf(g) /\ h \in HeadItemsOf(g)
  <2>1. PICK i \in DOMAIN target : target[i].gid = g /\ target[i].item = b /\ target[i].body
    BY ItemRow
  <2>2. PICK j \in DOMAIN target : target[j].gid = g /\ target[j].item = h /\ target[j].head
    BY ItemRow
  <2>3. JoinsAt(target, i, j, job.same, job.cross)
    BY <1>3, <2>1, <2>2 DEF JoinsAt, Joins
  <2>4. PairAt(target, i, j) \in rows
    BY <1>1, <2>1, <2>3 DEF JoinedOf
  <2>5. PairAt(target, i, j).body = b /\ PairAt(target, i, j).head = h
    BY <2>1, <2>2 DEF PairAt
  <2>6. QED  BY <1>2, <2>4, <2>5
<1>4. ASSUME NEW q \in rows
      PROVE  q.body \in ItemsIn(target, g, "body") /\ q.head \in ItemsIn(target, g, "head")
  <2>1. PICK i, j \in DOMAIN target :
          /\ JoinsAt(target, i, j, job.same, job.cross) /\ target[i].gid = g
          /\ q = PairAt(target, i, j)
    BY <1>1, <1>4 DEF JoinedOf
  <2>2. /\ target[i].body /\ target[j].head /\ target[j].gid = g
        /\ q.body = target[i].item /\ q.head = target[j].item
    BY <2>1 DEF JoinsAt, Joins, PairAt
  <2>3. QED  BY <2>1, <2>2 DEF ItemsIn
<1>5. QED  BY <1>2, <1>3, <1>4

LEMMA HoldingFits ==
  ASSUME TargetInv, Opened, NEW r, RuleFits(r), NEW g, Holds(r, g)
  PROVE  FitsGroup(r, g)
<1>1. CASE full
  <2>1. PICK a \in r.body, c \in r.head : TRUE
    BY DEF RuleFits
  <2>2. \A b \in r.body : \A h \in r.head : b \in BodyItemsOf(g) /\ h \in HeadItemsOf(g)
    BY <1>1, JoinedItems DEF Holds
  <2>3. QED  BY <2>1, <2>2 DEF FitsGroup, Matches
<1>2. CASE ~full
  <2>1. BodyItemsOf(g) = ItemsIn(target, g, "body") /\ HeadItemsOf(g) = ItemsIn(target, g, "head")
    BY <1>2, TargetQueries DEF BodyItemsOf, HeadItemsOf
  <2>2. QED  BY <2>1 DEF FitsGroup, Matches, Holds
<1>3. QED  BY <1>1, <1>2

(* Without a condition across body and head a rule holds where it fits.    *)
LEMMA FittingHolds ==
  ASSUME JobInv, TargetInv, Opened, ~job.crossing, NEW r, RuleFits(r), NEW g, FitsGroup(r, g)
  PROVE  Holds(r, g)
<1>1. BodyItemsOf(g) \subseteq ItemsIn(target, g, "body")
      /\ HeadItemsOf(g) \subseteq ItemsIn(target, g, "head")
  <2>1. CASE full
    BY <2>1, JoinedItems
  <2>2. CASE ~full
    BY <2>2, TargetQueries DEF BodyItemsOf, HeadItemsOf
  <2>3. QED  BY <2>1, <2>2
<1>2. r.body \subseteq ItemsIn(target, g, "body") /\ r.head \subseteq ItemsIn(target, g, "head")
  BY <1>1 DEF FitsGroup, Matches
<1>3. ASSUME NEW side \in {"body", "head"}, NEW i \in ItemsIn(target, g, side)  PROVE i \in Items
  <2>1. PICK k \in DOMAIN target : target[k].item = i
    BY ItemRow
  <2>2. target[k] \in SourceRow
    BY DEF TargetInv
  <2>3. QED  BY <2>1, <2>2 DEF SourceRow
<1>4. job.cross = Items \X Items
  BY JobsAssumption DEF JobInv
<1>5. \A b \in r.body : \A h \in r.head : <<b, h>> \in job.cross /\ ~(job.same /\ b = h)
  <2>1. \A b \in r.body : b \in Items
    BY <1>2, <1>3
  <2>2. \A h \in r.head : h \in Items
    BY <1>2, <1>3
  <2>3. \A b \in r.body : \A h \in r.head : ~(job.same /\ b = h)
    BY DEF RuleFits, Apart
  <2>4. QED  BY <1>4, <2>1, <2>2, <2>3
<1>6. QED  BY <1>2, <1>5 DEF Holds

(* A rule only fits a group of the query.                                  *)
LEMMA FittingGroup ==
  ASSUME TargetInv, Opened, NEW r, RuleFits(r), NEW g, FitsGroup(r, g)
  PROVE  g \in Groups /\ \E i \in 1 .. Len(bodyRows) : bodyRows[i].gid = g
<1>1. PICK b : b \in BodyItemsOf(g)
  BY DEF RuleFits, FitsGroup, Matches
<1>2. b \in ItemsIn(target, g, "body")
  <2>1. CASE full
    BY <1>1, <2>1, JoinedItems
  <2>2. CASE ~full
    BY <1>1, <2>2, TargetQueries DEF BodyItemsOf
  <2>3. QED  BY <2>1, <2>2
<1>3. PICK k \in DOMAIN target : target[k].gid = g
  BY <1>2, ItemRow
<1>4. target[k] \in SourceRow
  BY DEF TargetInv
<1>5. g \in Groups
  BY <1>3, <1>4 DEF SourceRow
<1>6. GroupRows(bodyRows, g) # {}
  BY <1>1 DEF BodyItemsOf, ItemsOf
<1>7. QED  BY <1>5, <1>6 DEF GroupRows

Holding(r) == {g \in Groups : Holds(r, g)}
Fitting(r) == {g \in GroupsMatched : FitsGroup(r, g)}

LEMMA HoldingFinite ==
  ASSUME TargetInv, Opened, NEW r, RuleFits(r)
  PROVE  Holding(r) \in SUBSET Nat /\ IsFiniteSet(Holding(r))
<1> DEFINE G == {bodyRows[i].gid : i \in 1 .. (Len(bodyRows) + 1) - 1}
<1>1. Result(bodyRows) /\ Len(bodyRows) \in Nat
  BY TargetQueries DEF Result
<1>2. IsFiniteSet(G)
  <2>1. Len(bodyRows) + 1 \in 1 .. Len(bodyRows) + 1
    BY <1>1
  <2>2. QED  BY <1>1, <2>1, GidsFinite
<1>3. (Len(bodyRows) + 1) - 1 = Len(bodyRows)
  BY <1>1
<1>4. Holding(r) \subseteq G
  <2>1. ASSUME NEW g \in Holding(r)  PROVE \E i \in 1 .. Len(bodyRows) : bodyRows[i].gid = g
    BY HoldingFits, FittingGroup DEF Holding
  <2>2. QED  BY <1>3, <2>1
<1> HIDE DEF G
<1>5. QED  BY <1>2, <1>4, FS_Subset, SourceAssumption DEF Holding

LEMMA MatchedFinite ==
  ASSUME TargetInv, LoopInv, Opened, NEW r
  PROVE  Fitting(r) \in SUBSET Nat /\ IsFiniteSet(Fitting(r))
<1>1. Result(bodyRows) /\ bodyRow \in 1 .. Len(bodyRows) + 1
  BY TargetQueries DEF LoopInv, BetweenGroups
<1>2. IsFiniteSet(GroupsMatched)
  BY <1>1, GidsFinite DEF GroupsMatched, GidsBefore
<1>3. GroupsMatched \in SUBSET Nat
  BY <1>1 DEF GroupsMatched, GidsBefore, Result
<1>4. QED  BY <1>2, <1>3, FS_Subset DEF Fitting

(* The groups compared come before the others.                             *)
LEMMA FittingFirst ==
  ASSUME JobInv, TargetInv, LoopInv, Opened, ~job.crossing, NEW r, RuleFits(r)
  PROVE  /\ Fitting(r) \in SUBSET Holding(r)
         /\ \A i \in Fitting(r) : \A j \in Holding(r) : j <= i => j \in Fitting(r)
<1>1. Fitting(r) \in SUBSET Holding(r)
  BY FittingHolds, FittingGroup DEF Fitting, Holding
<1>2. ASSUME NEW i \in Fitting(r), NEW j \in Holding(r), j <= i  PROVE j \in Fitting(r)
  <2>1. FitsGroup(r, j)
    BY HoldingFits DEF Holding
  <2>2. PICK l \in 1 .. Len(bodyRows) : bodyRows[l].gid = j
    BY <2>1, FittingGroup
  <2>3. PICK k \in 1 .. bodyRow - 1 : bodyRows[k].gid = i
    BY DEF Fitting, GroupsMatched, GidsBefore
  <2>4. /\ Len(bodyRows) \in Nat /\ bodyRow \in 1 .. Len(bodyRows) + 1
        /\ \A m \in bodyRow .. Len(bodyRows) : bodyRows[k].gid < bodyRows[m].gid
    BY <2>3, TargetQueries DEF Result, LoopInv, BetweenGroups
  <2>5. i \in Nat /\ j \in Nat
    BY <1>1, HoldingFinite
  <2>6. l < bodyRow
    BY <1>2, <2>2, <2>3, <2>4, <2>5
  <2>7. l \in 1 .. bodyRow - 1
    BY <2>4, <2>6
  <2>8. j \in GroupsMatched
    BY <2>2, <2>7 DEF GroupsMatched, GidsBefore
  <2>9. QED  BY <2>1, <2>8 DEF Fitting
<1>3. QED  BY <1>1, <1>2

(* At the end every group was compared, or one had no heads.               *)
LEMMA AllCompared ==
  ASSUME TargetInv, LoopInv, matching = "done", full \/ HeadsInEveryGroup,
         NEW r, RuleFits(r)
  PROVE  Holding(r) \in SUBSET Fitting(r)
<1>1. Opened
  BY DEF Opened
<1>2. AfterLast(bodyRows, bodyRow)
  <2>1. ASSUME NEW g, Headless(g)  PROVE FALSE
    <3>1. /\ ItemsOf(GroupRows(bodyRows, g)) = ItemsIn(target, g, "body")
          /\ ItemsOf(GroupRows(headRows, g)) = ItemsIn(target, g, "head")
      BY <1>1, <2>1, TargetQueries DEF Headless
    <3>2. ItemsIn(target, g, "body") # {} /\ ItemsIn(target, g, "head") = {}
      BY <2>1, <3>1 DEF Headless, ItemsOf
    <3>3. g \in Groups
      <4>1. PICK i : i \in ItemsIn(target, g, "body")
        BY <3>2
      <4>2. PICK k \in DOMAIN target : target[k].gid = g
        BY <4>1, ItemRow
      <4>3. target[k] \in SourceRow
        BY <1>1 DEF TargetInv
      <4>4. QED  BY <4>2, <4>3 DEF SourceRow
    <3>4. QED  BY <2>1, <3>2, <3>3 DEF HeadsInEveryGroup, Headless
  <2>2. QED  BY <2>1 DEF LoopInv
<1>3. ASSUME NEW g \in Holding(r)  PROVE g \in Fitting(r)
  <2>1. FitsGroup(r, g)
    BY <1>1, HoldingFits DEF Holding
  <2>2. PICK l \in 1 .. Len(bodyRows) : bodyRows[l].gid = g
    BY <1>1, <2>1, FittingGroup
  <2>3. bodyRow \in 1 .. Len(bodyRows) + 1 /\ Len(bodyRows) \in Nat
    BY <1>1, TargetQueries DEF LoopInv, BetweenGroups, Result
  <2>4. l \in 1 .. bodyRow - 1
    BY <1>2, <2>3 DEF AfterLast
  <2>5. g \in GroupsMatched
    BY <2>2, <2>4 DEF GroupsMatched, GidsBefore
  <2>6. QED  BY <2>1, <2>5 DEF Fitting
<1>4. QED  BY <1>3

LEMMA InitialSequence ==
  ASSUME NEW S \in SUBSET Nat, IsFiniteSet(S), NEW T \in SUBSET S,
         \A i \in T : \A j \in S : j <= i => j \in T
  PROVE  /\ Len(InOrder(T)) <= Len(InOrder(S))
         /\ InOrder(T) = SubSeq(InOrder(S), 1, Len(InOrder(T)))
<1> DEFINE p == InOrder(T)
           q == InOrder(S)
<1>1. T \in SUBSET Nat
  OBVIOUS
<1>2. /\ IsFiniteSet(T) /\ Size(T) <= Size(S)
      /\ \A k \in 1 .. Size(T) : p[k] = q[k]
  BY InOrderInitial
<1>3. /\ p \in Seq(T) /\ Len(p) = Size(T) /\ Size(T) \in Nat
      /\ q \in Seq(S) /\ Len(q) = Size(S) /\ Size(S) \in Nat
  BY <1>1, <1>2, InOrderProperties
<1> HIDE DEF p, q
<1> DEFINE n == Size(T)
           first == SubSeq(q, 1, n)
<1>4. \A i \in 1 .. n : q[i] \in S
  BY <1>2, <1>3, ElementOfSeq
<1> HIDE DEF n
<1>5. n \in Int /\ 1 \in Int /\ n >= 0
  BY <1>3 DEF n
<1>6. /\ first \in Seq(S) /\ Len(first) = IF 1 <= n THEN n - 1 + 1 ELSE 0
      /\ \A i \in 1 .. n - 1 + 1 : first[i] = q[1 + i - 1]
  BY <1>4, <1>5, SubSeqProperties
<1> HIDE DEF first
<1>7. Len(first) = n /\ \A i \in 1 .. n : first[i] = q[i]
  BY <1>5, <1>6
<1>8. p = [i \in 1 .. n |-> p[i]] /\ first = [i \in 1 .. n |-> first[i]]
  BY <1>3, <1>6, <1>7, LenProperties DEF n
<1>9. \A i \in 1 .. n : p[i] = first[i]
  BY <1>2, <1>7 DEF n
<1>10. p = first
  BY <1>8, <1>9
<1>11. QED  BY <1>2, <1>3, <1>10 DEF first, p, q, n

LEMMA MatchedAll ==
  ASSUME MatchInv
  PROVE  Matched
<1> SUFFICES ASSUME matching = "done", NEW k \in DOMAIN rules
             PROVE  LET holding == HoldingGroups(target, rules[k])
                        IsPrefix(s, t) == Len(s) <= Len(t) /\ s = SubSeq(t, 1, Len(s))
                    IN /\ ~job.crossing => IsPrefix(matches[k], holding)
                       /\ full \/ HeadsInEveryGroup =>
                            \A i \in DOMAIN holding : \E j \in DOMAIN matches[k] :
                              matches[k][j] = holding[i]
  BY DEF Matched
<1> DEFINE r == rules[k]
<1>1. JobInv /\ RulesInv /\ TargetInv /\ LoopInv /\ Opened
  BY DEF MatchInv, MinerInv, Opened
<1>2. RuleFits(r)
  BY <1>1, ListDomain DEF RulesInv
<1>3. HoldingGroups(target, r) = InOrder(Holding(r))
  BY DEF HoldingGroups, Holding, Holds
<1>4. matches[k] = InOrder(Fitting(r))
  BY <1>1 DEF LoopInv, Fitting
<1> HIDE DEF r
<1>5. Holding(r) \in SUBSET Nat /\ IsFiniteSet(Holding(r))
  BY <1>1, <1>2, HoldingFinite
<1>6. ASSUME ~job.crossing
      PROVE  /\ Len(matches[k]) <= Len(InOrder(Holding(r)))
             /\ matches[k] = SubSeq(InOrder(Holding(r)), 1, Len(matches[k]))
  <2>1. /\ Fitting(r) \in SUBSET Holding(r)
        /\ \A i \in Fitting(r) : \A j \in Holding(r) : j <= i => j \in Fitting(r)
    BY <1>1, <1>2, <1>6, FittingFirst
  <2>2. QED  BY <1>4, <1>5, <2>1, InitialSequence
<1>7. ASSUME full \/ HeadsInEveryGroup, NEW i \in DOMAIN InOrder(Holding(r))
      PROVE  \E j \in DOMAIN matches[k] : matches[k][j] = InOrder(Holding(r))[i]
  <2> DEFINE g == InOrder(Holding(r))[i]
  <2>1. InOrder(Holding(r)) \in [1 .. Size(Holding(r)) -> Holding(r)]
    BY <1>5, InOrderProperties
  <2>2. g \in Holding(r)
    BY <1>7, <2>1
  <2> HIDE DEF g
  <2>3. g \in Fitting(r)
    BY <1>1, <1>2, <1>7, <2>2, AllCompared
  <2>4. Fitting(r) \in SUBSET Nat /\ IsFiniteSet(Fitting(r))
    BY <1>1, MatchedFinite
  <2>5. /\ InOrder(Fitting(r)) \in [1 .. Size(Fitting(r)) -> Fitting(r)]
        /\ Size(Upto(Fitting(r), g)) \in 1 .. Size(Fitting(r))
        /\ InOrder(Fitting(r))[Size(Upto(Fitting(r), g))] = g
    BY <2>3, <2>4, InOrderProperties
  <2>6. Size(Upto(Fitting(r), g)) \in DOMAIN matches[k]
    BY <1>4, <2>5
  <2>7. QED  BY <1>4, <2>5, <2>6 DEF g
<1>8. QED  BY <1>3, <1>6, <1>7 DEF r

(* mr-match lists for each rule groups in which it holds, in order, and    *)
(* all of them when every group with bodies has heads or the rows come in  *)
(* pairs; without a condition across body and head never another group     *)
(* (matchWithCrossProduct, matchWithoutCrossProduct).                      *)
THEOREM MatchedGroups == MatchSpec => []Matched
<1>1. MatchInit => MatchInv
  <2>1. MatchInit => TargetInv /\ LoopInv
    BY DEF MatchInit, TargetInv, LoopInv, Opened
  <2>2. QED  BY <2>1, MinerStarts DEF MatchInv
<1>2. MatchInv /\ [MineAndMatch]_<<vars, matchVars>> => MatchInv'
  BY MatchingStep
<1>3. MatchInv => Matched
  BY MatchedAll
<1>4. QED  BY <1>1, <1>2, <1>3, PTL DEF MatchSpec

-----------------------------------------------------------------------------
(* The members of a list, and lists without a repetition.                  *)
Members(q) == {q[k] : k \in 1 .. Len(q)}
Distinct(q) == \A k, l \in 1 .. Len(q) : q[k] = q[l] => k = l

LEMMA ConcatAt ==
  ASSUME NEW p, NEW q, IsList(p), IsList(q)
  PROVE  /\ IsList(p \o q) /\ Len(p) \in Nat /\ Len(q) \in Nat /\ Len(p \o q) = Len(p) + Len(q)
         /\ \A k \in 1 .. Len(p) : k \in 1 .. Len(p \o q) /\ (p \o q)[k] = p[k]
         /\ \A k \in 1 .. Len(q) :
              Len(p) + k \in 1 .. Len(p \o q) /\ (p \o q)[Len(p) + k] = q[k]
         /\ \A k \in 1 .. Len(p \o q) :
              k \in 1 .. Len(p) \/ \E l \in 1 .. Len(q) : k = Len(p) + l
<1> DEFINE members == {p[k] : k \in DOMAIN p} \cup {q[k] : k \in DOMAIN q}
           joined == p \o q
<1>1. p \in Seq(members) /\ q \in Seq(members)
  BY SeqMonotonic DEF IsList
<1>2. Len(p) \in Nat /\ Len(q) \in Nat
  BY ListDomain
<1>3. IsList(joined)
  BY ListConcat
<1> HIDE DEF members
<1>4. /\ Len(joined) = Len(p) + Len(q)
      /\ \A k \in 1 .. Len(p) + Len(q) :
           joined[k] = IF k <= Len(p) THEN p[k] ELSE q[k - Len(p)]
  BY <1>1, ConcatProperties
<1> HIDE DEF joined
<1>5. \A k \in 1 .. Len(p) : k \in 1 .. Len(joined) /\ joined[k] = p[k]
  BY <1>2, <1>4
<1>6. \A k \in 1 .. Len(q) :
        /\ Len(p) + k \in 1 .. Len(p) + Len(q) /\ ~(Len(p) + k <= Len(p))
        /\ (Len(p) + k) - Len(p) = k
  BY <1>2
<1>7. \A k \in 1 .. Len(q) : joined[Len(p) + k] = q[k]
  BY <1>4, <1>6
<1>8. ASSUME NEW k \in 1 .. Len(joined), k \notin 1 .. Len(p)
      PROVE  \E l \in 1 .. Len(q) : k = Len(p) + l
  <2>1. k - Len(p) \in 1 .. Len(q) /\ k = Len(p) + (k - Len(p))
    BY <1>2, <1>4, <1>8
  <2>2. QED  BY <2>1
<1>9. QED  BY <1>2, <1>3, <1>4, <1>5, <1>6, <1>7, <1>8 DEF joined

LEMMA ConcatMembers ==
  ASSUME NEW p, NEW q, IsList(p), IsList(q)
  PROVE  Members(p \o q) = Members(p) \cup Members(q)
<1> DEFINE joined == p \o q
<1>1. /\ \A k \in 1 .. Len(p) : k \in 1 .. Len(joined) /\ joined[k] = p[k]
      /\ \A k \in 1 .. Len(q) :
           Len(p) + k \in 1 .. Len(joined) /\ joined[Len(p) + k] = q[k]
      /\ \A k \in 1 .. Len(joined) :
           k \in 1 .. Len(p) \/ \E l \in 1 .. Len(q) : k = Len(p) + l
  BY ConcatAt
<1> HIDE DEF joined
<1>2. ASSUME NEW m \in Members(joined)  PROVE m \in Members(p) \cup Members(q)
  <2>1. PICK k \in 1 .. Len(joined) : m = joined[k]
    BY DEF Members
  <2>2. CASE k \in 1 .. Len(p)
    BY <1>1, <2>1, <2>2 DEF Members
  <2>3. CASE k \notin 1 .. Len(p)
    <3>1. PICK l \in 1 .. Len(q) : k = Len(p) + l
      BY <1>1, <2>3
    <3>2. QED  BY <1>1, <2>1, <3>1 DEF Members
  <2>4. QED  BY <2>2, <2>3
<1>3. Members(p) \subseteq Members(joined)
  BY <1>1 DEF Members
<1>4. ASSUME NEW m \in Members(q)  PROVE m \in Members(joined)
  <2>1. PICK k \in 1 .. Len(q) : m = q[k]
    BY DEF Members
  <2>2. Len(p) + k \in 1 .. Len(joined) /\ m = joined[Len(p) + k]
    BY <1>1, <2>1
  <2>3. QED  BY <2>2 DEF Members
<1>5. QED  BY <1>2, <1>3, <1>4 DEF joined

LEMMA ConcatDistinct ==
  ASSUME NEW p, NEW q, IsList(p), IsList(q), Distinct(p), Distinct(q),
         Members(p) \cap Members(q) = {}
  PROVE  Distinct(p \o q)
<1> DEFINE joined == p \o q
<1>1. /\ \A k \in 1 .. Len(p) : joined[k] = p[k]
      /\ \A k \in 1 .. Len(q) : joined[Len(p) + k] = q[k]
      /\ \A k \in 1 .. Len(joined) :
           k \in 1 .. Len(p) \/ \E l \in 1 .. Len(q) : k = Len(p) + l
  BY ConcatAt
<1> HIDE DEF joined
<1>2. \A k \in 1 .. Len(p) : \A l \in 1 .. Len(q) : p[k] # q[l]
  BY DEF Members
<1>3. ASSUME NEW k \in 1 .. Len(joined), NEW l \in 1 .. Len(joined), joined[k] = joined[l]
      PROVE  k = l
  <2>1. CASE k \in 1 .. Len(p) /\ l \in 1 .. Len(p)
    BY <1>1, <1>3, <2>1 DEF Distinct
  <2>2. CASE k \in 1 .. Len(p) /\ l \notin 1 .. Len(p)
    BY <1>1, <1>2, <1>3, <2>2
  <2>3. CASE k \notin 1 .. Len(p) /\ l \in 1 .. Len(p)
    BY <1>1, <1>2, <1>3, <2>3
  <2>4. CASE k \notin 1 .. Len(p) /\ l \notin 1 .. Len(p)
    <3>1. PICK i \in 1 .. Len(q) : k = Len(p) + i
      BY <1>1, <2>4
    <3>2. PICK j \in 1 .. Len(q) : l = Len(p) + j
      BY <1>1, <2>4
    <3>3. q[i] = q[j]
      BY <1>1, <1>3, <3>1, <3>2
    <3>4. QED  BY <3>1, <3>2, <3>3 DEF Distinct
  <2>5. QED  BY <2>1, <2>2, <2>3, <2>4
<1>4. QED  BY <1>3 DEF Distinct, joined

(* What is selected are the members at the positions, once each.           *)
LEMMA SelectedMembers ==
  ASSUME NEW q, NEW S \in SUBSET Nat, IsFiniteSet(S)
  PROVE  /\ IsList(Selected(q, S)) /\ Members(Selected(q, S)) = {q[i] : i \in S}
         /\ (\A i, j \in S : q[i] = q[j] => i = j) => Distinct(Selected(q, S))
<1> DEFINE r == Selected(q, S)
           at == InOrder(S)
<1>1. /\ Size(S) \in Nat /\ at \in [1 .. Size(S) -> S]
      /\ \A k \in 1 .. Size(S) : Size(Upto(S, at[k])) = k
      /\ \A i \in S : Size(Upto(S, i)) \in 1 .. Size(S) /\ at[Size(Upto(S, i))] = i
  BY InOrderProperties
<1>2. r = [k \in 1 .. Size(S) |-> q[at[k]]]
  BY <1>1 DEF Selected
<1>3. IsList(r) /\ Len(r) = Size(S)
  BY SelectedProperties DEF SelectedFrom
<1> HIDE DEF r, at
<1>4. \A m : m \in Members(r) <=> m \in {q[i] : i \in S}
  <2>1. ASSUME NEW k \in 1 .. Len(r)  PROVE r[k] \in {q[i] : i \in S}
    BY <1>1, <1>2, <1>3
  <2>2. ASSUME NEW i \in S  PROVE \E k \in 1 .. Len(r) : r[k] = q[i]
    BY <1>1, <1>2, <1>3
  <2>3. QED  BY <2>1, <2>2 DEF Members
<1>5. ASSUME \A i, j \in S : q[i] = q[j] => i = j,
             NEW k \in 1 .. Len(r), NEW l \in 1 .. Len(r), r[k] = r[l]
      PROVE  k = l
  <2>1. at[k] \in S /\ at[l] \in S /\ q[at[k]] = q[at[l]]
    BY <1>1, <1>2, <1>3, <1>5
  <2>2. at[k] = at[l]
    BY <1>5, <2>1
  <2>3. QED  BY <1>1, <1>3, <2>2
<1>6. QED  BY <1>3, <1>4, <1>5 DEF Distinct, r

LEMMA InOrderMembers ==
  ASSUME NEW S \in SUBSET Nat, IsFiniteSet(S)
  PROVE  /\ Size(S) \in Nat /\ Len(InOrder(S)) = Size(S) /\ DOMAIN InOrder(S) = 1 .. Size(S)
         /\ Members(InOrder(S)) = S /\ Distinct(InOrder(S))
<1> DEFINE at == InOrder(S)
<1>1. /\ Size(S) \in Nat /\ at \in [1 .. Size(S) -> S] /\ Len(at) = Size(S)
      /\ \A k \in 1 .. Size(S) : Size(Upto(S, at[k])) = k
      /\ \A i \in S : Size(Upto(S, i)) \in 1 .. Size(S) /\ at[Size(Upto(S, i))] = i
  BY InOrderProperties
<1> HIDE DEF at
<1>2. Distinct(at)
  BY <1>1 DEF Distinct
<1>3. \A m : m \in Members(at) <=> m \in S
  BY <1>1 DEF Members
<1>4. QED  BY <1>1, <1>2, <1>3 DEF at

-----------------------------------------------------------------------------
(* The rules that a call has yet to find.                                  *)

Extends(S, base, later) == base \subseteq S /\ S \ base \subseteq later
After(v, at) == {v[k] : k \in at + 1 .. Len(v)}
Later(c) ==
  CASE c.call = "body" -> {j \in Items : j > c.last}
    [] c.call = "addHead" -> {j \in Items : j >= c.from}
    [] c.call = "buildRules" -> After(c.vb, c.at)
    [] c.call = "buildHead" -> After(c.v, c.at)
Finds(c, r) ==
  IF c.call \in {"body", "buildRules"}
    THEN Extends(r.body, c.body, Later(c)) /\ (c.call = "buildRules" => r.body # c.body)
    ELSE r.body = c.body /\ Extends(r.head, c.head, Later(c)) /\ r.head # c.head

Owes(c) == {r \in Expected : Finds(c, r)}
OwedBy(q) == UNION {Owes(q[k]) : k \in 1 .. Len(q)}
Separate(q) == \A k, l \in 1 .. Len(q) : k # l => Owes(q[k]) \cap Owes(q[l]) = {}

LEMMA Owed ==
  ASSUME NEW q, NEW r
  PROVE  r \in OwedBy(q) <=> \E k \in 1 .. Len(q) : r \in Owes(q[k])
BY DEF OwedBy

LEMMA OwedConcat ==
  ASSUME NEW p, NEW q, IsList(p), IsList(q)
  PROVE  /\ OwedBy(p \o q) = OwedBy(p) \cup OwedBy(q)
         /\ Separate(p) /\ Separate(q) /\ OwedBy(p) \cap OwedBy(q) = {} => Separate(p \o q)
<1> DEFINE joined == p \o q
<1>1. /\ \A k \in 1 .. Len(p) : k \in 1 .. Len(joined) /\ joined[k] = p[k]
      /\ \A k \in 1 .. Len(q) :
           Len(p) + k \in 1 .. Len(joined) /\ joined[Len(p) + k] = q[k]
      /\ \A k \in 1 .. Len(joined) :
           k \in 1 .. Len(p) \/ \E l \in 1 .. Len(q) : k = Len(p) + l
  BY ConcatAt
<1> HIDE DEF joined
<1>2. \A r : r \in OwedBy(joined) <=> r \in OwedBy(p) \/ r \in OwedBy(q)
  <2>1. ASSUME NEW r, r \in OwedBy(joined)  PROVE r \in OwedBy(p) \/ r \in OwedBy(q)
    <3>1. PICK k \in 1 .. Len(joined) : r \in Owes(joined[k])
      BY <2>1, Owed
    <3>2. CASE k \in 1 .. Len(p)
      BY <1>1, <3>1, <3>2, Owed
    <3>3. CASE \E l \in 1 .. Len(q) : k = Len(p) + l
      BY <1>1, <3>1, <3>3, Owed
    <3>4. QED  BY <1>1, <3>2, <3>3
  <2>2. ASSUME NEW r, r \in OwedBy(p) \/ r \in OwedBy(q)  PROVE r \in OwedBy(joined)
    <3>1. CASE r \in OwedBy(p)
      <4>1. PICK k \in 1 .. Len(p) : r \in Owes(p[k])
        BY <3>1, Owed
      <4>2. QED  BY <1>1, <4>1, Owed
    <3>2. CASE r \in OwedBy(q)
      <4>1. PICK k \in 1 .. Len(q) : r \in Owes(q[k])
        BY <3>2, Owed
      <4>2. QED  BY <1>1, <4>1, Owed
    <3>3. QED  BY <2>2, <3>1, <3>2
  <2>3. QED  BY <2>1, <2>2
<1>3. ASSUME Separate(p), Separate(q), OwedBy(p) \cap OwedBy(q) = {},
             NEW k \in 1 .. Len(joined), NEW l \in 1 .. Len(joined), k # l
      PROVE  Owes(joined[k]) \cap Owes(joined[l]) = {}
  <2>1. \A i \in 1 .. Len(p) : \A j \in 1 .. Len(q) : Owes(p[i]) \cap Owes(q[j]) = {}
    BY <1>3, Owed
  <2>2. CASE k \in 1 .. Len(p) /\ l \in 1 .. Len(p)
    BY <1>1, <1>3, <2>2 DEF Separate
  <2>3. CASE k \in 1 .. Len(p) /\ l \notin 1 .. Len(p)
    BY <1>1, <2>1, <2>3
  <2>4. CASE k \notin 1 .. Len(p) /\ l \in 1 .. Len(p)
    BY <1>1, <2>1, <2>4
  <2>5. CASE k \notin 1 .. Len(p) /\ l \notin 1 .. Len(p)
    BY <1>1, <1>3, <2>5 DEF Separate
  <2>6. QED  BY <2>2, <2>3, <2>4, <2>5
<1>4. OwedBy(joined) = OwedBy(p) \cup OwedBy(q)
  BY <1>2
<1>5. QED  BY <1>3, <1>4 DEF Separate, joined

LEMMA OwedFirst ==
  ASSUME NEW q, IsList(q), q # <<>>, Separate(q)
  PROVE  /\ IsList(Tail(q)) /\ Separate(Tail(q))
         /\ OwedBy(q) = Owes(Head(q)) \cup OwedBy(Tail(q))
         /\ Owes(Head(q)) \cap OwedBy(Tail(q)) = {}
<1> DEFINE members == {q[k] : k \in DOMAIN q}
           rest == Tail(q)
<1>1. q \in Seq(members)
  BY DEF IsList
<1>2. 1 \in 1 .. Len(q) /\ Head(q) = q[1] /\ IsList(rest)
  BY ListTail
<1> HIDE DEF members
<1>3. Len(q) \in Nat /\ Len(rest) = Len(q) - 1 /\ \A k \in 1 .. Len(rest) : rest[k] = q[k + 1]
  BY <1>1, LenProperties, HeadTailProperties
<1> HIDE DEF rest
<1>4. \A k \in 1 .. Len(rest) : k + 1 \in 1 .. Len(q) /\ k + 1 # 1
  BY <1>2, <1>3
<1>5. \A k \in 1 .. Len(q) : k # 1 => k - 1 \in 1 .. Len(rest) /\ (k - 1) + 1 = k
  BY <1>2, <1>3
<1>6. Separate(rest)
  <2>1. ASSUME NEW k \in 1 .. Len(rest), NEW l \in 1 .. Len(rest), k # l
        PROVE  Owes(rest[k]) \cap Owes(rest[l]) = {}
    <3>1. k + 1 # l + 1
      BY <1>3, <2>1
    <3>2. QED  BY <1>3, <1>4, <3>1 DEF Separate
  <2>2. QED  BY <2>1 DEF Separate
<1>7. \A r : r \in OwedBy(q) <=> r \in Owes(q[1]) \/ r \in OwedBy(rest)
  <2>1. ASSUME NEW r, r \in OwedBy(q)  PROVE r \in Owes(q[1]) \/ r \in OwedBy(rest)
    <3>1. PICK k \in 1 .. Len(q) : r \in Owes(q[k])
      BY <2>1, Owed
    <3>2. CASE k = 1
      BY <3>1, <3>2
    <3>3. CASE k # 1
      BY <1>3, <1>5, <3>1, <3>3, Owed
    <3>4. QED  BY <3>2, <3>3
  <2>2. ASSUME NEW r, r \in Owes(q[1])  PROVE r \in OwedBy(q)
    BY <1>2, <2>2, Owed
  <2>3. ASSUME NEW r, r \in OwedBy(rest)  PROVE r \in OwedBy(q)
    <3>1. PICK k \in 1 .. Len(rest) : r \in Owes(rest[k])
      BY <2>3, Owed
    <3>2. QED  BY <1>3, <1>4, <3>1, Owed
  <2>4. QED  BY <2>1, <2>2, <2>3
<1>8. ASSUME NEW r, r \in Owes(q[1]), r \in OwedBy(rest)  PROVE FALSE
  <2>1. PICK k \in 1 .. Len(rest) : r \in Owes(rest[k])
    BY <1>8, Owed
  <2>2. r \in Owes(q[k + 1]) /\ k + 1 \in 1 .. Len(q) /\ k + 1 # 1
    BY <1>3, <1>4, <2>1
  <2>3. QED  BY <1>2, <1>8, <2>2 DEF Separate
<1>9. OwedBy(q) = Owes(q[1]) \cup OwedBy(rest) /\ Owes(q[1]) \cap OwedBy(rest) = {}
  BY <1>7, <1>8
<1>10. QED  BY <1>2, <1>6, <1>9 DEF rest

LEMMA OwedNone == IsList(<<>>) /\ Separate(<<>>) /\ OwedBy(<<>>) = {} /\ Members(<<>>) = {} /\ Distinct(<<>>)
<1>1. IsList(<<>>) /\ Len(<<>>) = 0
  BY EmptyList
<1>2. \A k \in 1 .. Len(<<>>) : FALSE
  BY <1>1
<1>3. QED  BY <1>1, <1>2, Owed DEF Separate, Members, Distinct

LEMMA OwedOne ==
  ASSUME NEW c
  PROVE  IsList(<<c>>) /\ Separate(<<c>>) /\ OwedBy(<<c>>) = Owes(c)
<1> DEFINE one == <<c>>
<1>1. IsList(one) /\ Len(one) = 1 /\ one[1] = c
  BY OneCall
<1> HIDE DEF one
<1>2. \A k \in 1 .. Len(one) : k = 1
  BY <1>1
<1>3. 1 \in 1 .. Len(one)
  BY <1>1
<1>4. \A r : r \in OwedBy(one) <=> r \in Owes(c)
  BY <1>1, <1>2, <1>3, Owed
<1>5. Separate(one)
  BY <1>2 DEF Separate
<1>6. QED  BY <1>1, <1>4, <1>5 DEF one

(* The rules inserted and those that the calls have yet to find are the    *)
(* rules of the minerule, each once.                                       *)
Accounts(calls, found) ==
  /\ IsList(calls) /\ Separate(calls) /\ IsList(found) /\ Distinct(found)
  /\ Members(found) \cap OwedBy(calls) = {}
  /\ Members(found) \cup OwedBy(calls) = Expected

(* The first call hands what it owes on to the calls in p and q, but for   *)
(* the rules in new.                                                       *)
LEMMA CallDone ==
  ASSUME Accounts(work, rules), work # <<>>,
         NEW p, NEW q, NEW new, IsList(p), IsList(q), IsList(new),
         Separate(p), Separate(q), Distinct(new), OwedBy(p) \cap OwedBy(q) = {},
         Members(new) \cap (OwedBy(p) \cup OwedBy(q)) = {},
         Members(new) \cup OwedBy(p) \cup OwedBy(q) = Owes(Head(work))
  PROVE  Accounts((p \o Tail(work)) \o q, rules \o new)
<1> DEFINE c == Head(work)
           rest == Tail(work)
           first == p \o rest
           calls == first \o q
           all == rules \o new
<1>1. /\ IsList(rest) /\ Separate(rest) /\ OwedBy(work) = Owes(c) \cup OwedBy(rest)
      /\ Owes(c) \cap OwedBy(rest) = {}
  BY OwedFirst DEF Accounts
<1>2. /\ Members(new) \cup OwedBy(p) \cup OwedBy(q) = Owes(c)
  OBVIOUS
<1> HIDE DEF c, rest
<1>3. OwedBy(p) \cap OwedBy(rest) = {}
  BY <1>1, <1>2
<1>4. IsList(first) /\ OwedBy(first) = OwedBy(p) \cup OwedBy(rest) /\ Separate(first)
  <2>1. IsList(first)
    BY <1>1, ListConcat
  <2>2. QED  BY <1>1, <1>3, <2>1, OwedConcat
<1> HIDE DEF first
<1>5. OwedBy(first) \cap OwedBy(q) = {}
  BY <1>1, <1>2, <1>4
<1>6. IsList(calls) /\ OwedBy(calls) = OwedBy(first) \cup OwedBy(q) /\ Separate(calls)
  <2>1. IsList(calls)
    BY <1>4, ListConcat
  <2>2. QED  BY <1>4, <1>5, <2>1, OwedConcat
<1>7. Members(rules) \cap Members(new) = {}
  BY <1>1, <1>2 DEF Accounts
<1>8. IsList(all) /\ Members(all) = Members(rules) \cup Members(new) /\ Distinct(all)
  BY <1>7, ListConcat, ConcatMembers, ConcatDistinct DEF Accounts
<1> HIDE DEF calls, all
<1>9. Members(all) \cap OwedBy(calls) = {}
  BY <1>1, <1>2, <1>4, <1>6, <1>8 DEF Accounts
<1>10. Members(all) \cup OwedBy(calls) = Expected
  BY <1>1, <1>2, <1>4, <1>6, <1>8 DEF Accounts
<1>11. Accounts(calls, all)
  BY <1>6, <1>8, <1>9, <1>10 DEF Accounts
<1>12. QED  BY <1>11 DEF calls, all, first, rest

-----------------------------------------------------------------------------
(* Every larger set is reached through one of its members: the one that    *)
(* comes first in the list w, after which lat has the others.              *)

Orders(w, lat) == \A k, l \in 1 .. Len(w) : w[l] \in lat[k] <=> l > k

LEMMA Branches ==
  ASSUME NEW w, IsList(w), NEW lat, Orders(w, lat), NEW base, NEW S,
         base \subseteq S, S # base, S \ base \subseteq Members(w)
  PROVE  \E k \in 1 .. Len(w) : w[k] \notin base /\ Extends(S, base \cup {w[k]}, lat[k])
<1> DEFINE K == {k \in 1 .. Len(w) : w[k] \in S \ base}
<1>1. Len(w) \in Nat
  BY ListDomain
<1>2. K \in SUBSET Nat /\ K # {}
  <2>1. PICK x \in S : x \notin base
    OBVIOUS
  <2>2. PICK l \in 1 .. Len(w) : x = w[l]
    BY <2>1 DEF Members
  <2>3. l \in K
    BY <2>1, <2>2
  <2>4. K \subseteq Nat
    BY <1>1
  <2>5. QED  BY <2>3, <2>4
<1> DEFINE k == Least(K)
<1>3. k \in K /\ \A l \in K : k <= l
  <2> HIDE DEF K
  <2>1. QED  BY <1>2, LeastProperties
<1> HIDE DEF k
<1>4. k \in 1 .. Len(w) /\ w[k] \in S /\ w[k] \notin base
  BY <1>3
<1>5. ASSUME NEW x \in S, x \notin base \cup {w[k]}  PROVE x \in lat[k]
  <2>1. PICK l \in 1 .. Len(w) : x = w[l]
    BY <1>5 DEF Members
  <2>2. l \in K /\ l # k
    BY <1>5, <2>1
  <2>3. l > k
    BY <1>1, <1>3, <1>4, <2>1, <2>2
  <2>4. QED  BY <1>4, <2>1, <2>3 DEF Orders
<1>6. QED  BY <1>4, <1>5 DEF Extends

LEMMA BranchesApart ==
  ASSUME NEW w, IsList(w), Distinct(w), NEW lat, Orders(w, lat), NEW base,
         base \cap Members(w) = {}, NEW S, NEW k \in 1 .. Len(w), NEW l \in 1 .. Len(w), k # l,
         Extends(S, base \cup {w[k]}, lat[k]), Extends(S, base \cup {w[l]}, lat[l])
  PROVE  FALSE
<1>1. Len(w) \in Nat
  BY ListDomain
<1>2. ASSUME NEW i \in 1 .. Len(w), NEW j \in 1 .. Len(w), i < j,
             Extends(S, base \cup {w[i]}, lat[i]), Extends(S, base \cup {w[j]}, lat[j])
      PROVE  FALSE
  <2>1. w[i] \in S /\ w[i] \notin base /\ w[i] # w[j]
    BY <1>1, <1>2 DEF Extends, Members, Distinct
  <2>2. w[i] \in lat[j]
    BY <1>2, <2>1 DEF Extends
  <2>3. i > j
    BY <2>2 DEF Orders
  <2>4. QED  BY <1>1, <1>2, <2>3
<1>3. k < l \/ l < k
  BY <1>1
<1>4. QED  BY <1>2, <1>3

(* The items of a list come after a position of it, and the numbers of a   *)
(* set in order after another.                                             *)
LEMMA ListOrders ==
  ASSUME NEW w, IsList(w), Distinct(w),
         NEW lat, \A k \in 1 .. Len(w) : lat[k] = After(w, k)
  PROVE  Orders(w, lat)
<1>1. Len(w) \in Nat
  BY ListDomain
<1>2. ASSUME NEW k \in 1 .. Len(w), NEW l \in 1 .. Len(w)
      PROVE  w[l] \in After(w, k) <=> l > k
  <2>1. ASSUME w[l] \in After(w, k)  PROVE l > k
    <3>1. PICK m \in k + 1 .. Len(w) : w[l] = w[m]
      BY <2>1 DEF After
    <3>2. m \in 1 .. Len(w) /\ m > k
      BY <1>1, <3>1
    <3>3. l = m
      BY <3>1, <3>2 DEF Distinct
    <3>4. QED  BY <3>2, <3>3
  <2>2. ASSUME l > k  PROVE w[l] \in After(w, k)
    <3>1. l \in k + 1 .. Len(w)
      BY <1>1, <2>2
    <3>2. QED  BY <3>1 DEF After
  <2>3. QED  BY <2>1, <2>2
<1>3. QED  BY <1>2 DEF Orders

LEMMA NumberOrders ==
  ASSUME NEW S \in SUBSET Nat, IsFiniteSet(S),
         NEW lat, \A k \in 1 .. Size(S) : \A i \in S : i \in lat[k] <=> i > InOrder(S)[k]
  PROVE  Orders(InOrder(S), lat)
<1> DEFINE at == InOrder(S)
<1>1. /\ Size(S) \in Nat /\ at \in [1 .. Size(S) -> S] /\ Len(at) = Size(S)
      /\ \A k \in 1 .. Size(S) : Size(Upto(S, at[k])) = k
  BY InOrderProperties
<1>2. ASSUME NEW k \in 1 .. Size(S), NEW l \in 1 .. Size(S), at[l] < at[k]  PROVE l < k
  <2>1. at[l] \in S /\ at[k] \in S
    BY <1>1
  <2>2. Size(Upto(S, at[l])) < Size(Upto(S, at[k]))
    BY <1>2, <2>1, UptoGrows
  <2>3. QED  BY <1>1, <2>2
<1> HIDE DEF at
<1>3. ASSUME NEW k \in 1 .. Size(S), NEW l \in 1 .. Size(S)
      PROVE  at[l] > at[k] <=> l > k
  <2>1. at[k] \in S /\ at[l] \in S /\ k \in Nat /\ l \in Nat
    BY <1>1
  <2>2. at[l] > at[k] => l > k
    <3>1. at[k] \in Nat /\ at[l] \in Nat
      BY <2>1
    <3>2. at[l] > at[k] => ~(l < k) /\ l # k
      BY <1>2, <3>1
    <3>3. QED  BY <2>1, <3>2
  <2>3. l > k => at[l] # at[k] /\ ~(at[l] < at[k])
    BY <1>1, <1>2, <2>1
  <2>4. at[k] \in Nat /\ at[l] \in Nat
    BY <2>1
  <2>5. QED  BY <2>2, <2>3, <2>4
<1>4. \A k \in 1 .. Size(S) : at[k] \in S
  BY <1>1
<1>5. QED  BY <1>1, <1>3, <1>4 DEF Orders, at

-----------------------------------------------------------------------------
(* Longer heads: a rule for each item in w, and the calls for longer ones. *)
HeadCall(d, c, i, later) ==
  d.call = c.call /\ d.body = c.body /\ d.head = c.head \cup {i} /\ Later(d) = later

LEMMA HeadOwes ==
  ASSUME NEW c, c.call \in {"addHead", "buildHead"}
  PROVE  \A r : r \in Owes(c) <=> /\ r \in Expected /\ r.body = c.body
                                 /\ Extends(r.head, c.head, Later(c)) /\ r.head # c.head
BY DEF Owes, Finds

(* The calls, one for each item in w, take all the heads that the call c   *)
(* has to find.                                                            *)
LongerHeads(c, w, lat, calls) ==
  /\ c.call \in {"addHead", "buildHead"}
  /\ IsList(w) /\ Distinct(w) /\ c.head \cap Members(w) = {} /\ Members(w) \subseteq Later(c)
  /\ Orders(w, lat) /\ \A k \in 1 .. Len(w) : lat[k] \subseteq Later(c)
  /\ \A r \in Owes(c) : r.head \ c.head \subseteq Members(w)
  /\ Len(calls) = Len(w) /\ \A k \in 1 .. Len(w) : HeadCall(calls[k], c, w[k], lat[k])
ByItem(c, w) ==
  {r \in Expected : r.body = c.body /\ \E k \in 1 .. Len(w) : r.head = c.head \cup {w[k]}}

LEMMA HeadsBranch ==
  ASSUME NEW c, NEW w, NEW lat, NEW calls, LongerHeads(c, w, lat, calls)
  PROVE  /\ Separate(calls) /\ ByItem(c, w) \cap OwedBy(calls) = {}
         /\ ByItem(c, w) \cup OwedBy(calls) = Owes(c)
<1> DEFINE new == {r \in Expected : r.body = c.body
                                    /\ \E k \in 1 .. Len(w) : r.head = c.head \cup {w[k]}}
<1> /\ c.call \in {"addHead", "buildHead"}
    /\ IsList(w) /\ Distinct(w) /\ c.head \cap Members(w) = {} /\ Members(w) \subseteq Later(c)
    /\ Orders(w, lat) /\ \A k \in 1 .. Len(w) : lat[k] \subseteq Later(c)
    /\ \A r \in Owes(c) : r.head \ c.head \subseteq Members(w)
    /\ Len(calls) = Len(w) /\ \A k \in 1 .. Len(w) : HeadCall(calls[k], c, w[k], lat[k])
  BY DEF LongerHeads
<1>1. \A r : r \in Owes(c) <=> /\ r \in Expected /\ r.body = c.body
                              /\ Extends(r.head, c.head, Later(c)) /\ r.head # c.head
  BY HeadOwes
<1>2. ASSUME NEW k \in 1 .. Len(w), NEW r
      PROVE  r \in Owes(calls[k]) <=>
               /\ r \in Expected /\ r.body = c.body
               /\ Extends(r.head, c.head \cup {w[k]}, lat[k]) /\ r.head # c.head \cup {w[k]}
  <2> DEFINE d == calls[k]
  <2>1. d.call \in {"addHead", "buildHead"} /\ d.body = c.body
        /\ d.head = c.head \cup {w[k]} /\ Later(d) = lat[k]
    BY DEF HeadCall
  <2> HIDE DEF d
  <2>2. r \in Owes(d) <=> /\ r \in Expected /\ r.body = d.body
                          /\ Extends(r.head, d.head, Later(d)) /\ r.head # d.head
    BY <2>1, SMTT(30) DEF Owes, Finds
  <2>3. QED  BY <2>1, <2>2 DEF d
<1>3. \A k \in 1 .. Len(w) : w[k] \in Later(c) /\ w[k] \notin c.head
  BY DEF Members
<1>4. Separate(calls)
  <2>1. ASSUME NEW k \in 1 .. Len(w), NEW l \in 1 .. Len(w), k # l,
               NEW r, r \in Owes(calls[k]), r \in Owes(calls[l])
        PROVE  FALSE
    <3>1. /\ Extends(r.head, c.head \cup {w[k]}, lat[k])
          /\ Extends(r.head, c.head \cup {w[l]}, lat[l])
      BY <1>2, <2>1
    <3>2. QED  BY <2>1, <3>1, BranchesApart
  <2>2. QED  BY <2>1 DEF Separate
<1>5. ASSUME NEW r \in new, NEW l \in 1 .. Len(w), r \in Owes(calls[l])  PROVE FALSE
  <2>1. PICK k \in 1 .. Len(w) : r.head = c.head \cup {w[k]}
    BY <1>5
  <2>2. w[l] \in r.head /\ r.head # c.head \cup {w[l]}
    BY <1>2, <1>5 DEF Extends
  <2>3. w[l] = w[k]
    BY <1>3, <2>1, <2>2
  <2>4. QED  BY <2>1, <2>2, <2>3
<1>6. ASSUME NEW r \in new  PROVE r \in Owes(c)
  <2>1. PICK k \in 1 .. Len(w) : r.head = c.head \cup {w[k]}
    BY <1>6
  <2>2. Extends(r.head, c.head, Later(c)) /\ r.head # c.head
    BY <1>3, <2>1 DEF Extends
  <2>3. QED  BY <1>1, <1>6, <2>2
<1>7. ASSUME NEW k \in 1 .. Len(w), NEW r, r \in Owes(calls[k])  PROVE r \in Owes(c)
  <2>1. Extends(r.head, c.head \cup {w[k]}, lat[k]) /\ r \in Expected /\ r.body = c.body
    BY <1>2, <1>7
  <2>2. Extends(r.head, c.head, Later(c)) /\ r.head # c.head
    BY <1>3, <2>1 DEF Extends
  <2>3. QED  BY <1>1, <2>1, <2>2
<1>8. ASSUME NEW r \in Owes(c)  PROVE r \in new \/ \E k \in 1 .. Len(w) : r \in Owes(calls[k])
  <2>1. r \in Expected /\ r.body = c.body /\ c.head \subseteq r.head /\ r.head # c.head
    BY <1>1 DEF Extends
  <2>2. PICK k \in 1 .. Len(w) : Extends(r.head, c.head \cup {w[k]}, lat[k])
    BY <2>1, Branches
  <2>3. CASE r.head = c.head \cup {w[k]}
    BY <2>1, <2>3
  <2>4. CASE r.head # c.head \cup {w[k]}
    BY <1>2, <2>1, <2>2, <2>4
  <2>5. QED  BY <2>3, <2>4
<1> HIDE DEF Owes
<1>9. \A r : r \in OwedBy(calls) <=> \E k \in 1 .. Len(w) : r \in Owes(calls[k])
  BY Owed
<1>10. QED  BY <1>4, <1>5, <1>6, <1>7, <1>8, <1>9 DEF ByItem

(* Longer bodies, breadth first: the heads of this body, and the bodies    *)
(* with an item in w.                                                      *)
BodyCall(d, c, i, later) ==
  d.call = c.call /\ d.body = c.body \cup {i} /\ Later(d) = later

LongerBodies(c, w, lat, calls) ==
  /\ c.call \in {"body", "buildRules"}
  /\ IsList(w) /\ Distinct(w) /\ c.body \cap Members(w) = {} /\ Members(w) \subseteq Later(c)
  /\ Orders(w, lat) /\ \A k \in 1 .. Len(w) : lat[k] \subseteq Later(c)
  /\ \A r \in Owes(c) : r.body \ c.body \subseteq Members(w)
  /\ Len(calls) = Len(w) /\ \A k \in 1 .. Len(w) : BodyCall(calls[k], c, w[k], lat[k])
OfBody(B) == {r \in Expected : r.body = B}

LEMMA BodiesBranch ==
  ASSUME NEW c, NEW w, NEW lat, NEW calls, LongerBodies(c, w, lat, calls), c.call = "body"
  PROVE  /\ Separate(calls) /\ OfBody(c.body) \cap OwedBy(calls) = {}
         /\ OfBody(c.body) \cup OwedBy(calls) = Owes(c)
<1> DEFINE own == {r \in Expected : r.body = c.body}
<1> /\ IsList(w) /\ Distinct(w) /\ c.body \cap Members(w) = {} /\ Members(w) \subseteq Later(c)
    /\ Orders(w, lat) /\ \A k \in 1 .. Len(w) : lat[k] \subseteq Later(c)
    /\ \A r \in Owes(c) : r.body \ c.body \subseteq Members(w)
    /\ Len(calls) = Len(w) /\ \A k \in 1 .. Len(w) : BodyCall(calls[k], c, w[k], lat[k])
  BY DEF LongerBodies
<1>1. \A r : r \in Owes(c) <=> r \in Expected /\ Extends(r.body, c.body, Later(c))
  BY DEF Owes, Finds
<1>2. ASSUME NEW k \in 1 .. Len(w), NEW r
      PROVE  r \in Owes(calls[k]) <=>
               r \in Expected /\ Extends(r.body, c.body \cup {w[k]}, lat[k])
  BY DEF BodyCall, Owes, Finds
<1>3. \A k \in 1 .. Len(w) : w[k] \in Later(c) /\ w[k] \notin c.body
  BY DEF Members
<1>4. Separate(calls)
  <2>1. ASSUME NEW k \in 1 .. Len(w), NEW l \in 1 .. Len(w), k # l,
               NEW r, r \in Owes(calls[k]), r \in Owes(calls[l])
        PROVE  FALSE
    <3>1. /\ Extends(r.body, c.body \cup {w[k]}, lat[k])
          /\ Extends(r.body, c.body \cup {w[l]}, lat[l])
      BY <1>2, <2>1
    <3>2. QED  BY <2>1, <3>1, BranchesApart
  <2>2. QED  BY <2>1 DEF Separate
<1>5. ASSUME NEW r \in own, NEW l \in 1 .. Len(w), r \in Owes(calls[l])  PROVE FALSE
  BY <1>2, <1>3, <1>5 DEF Extends
<1>6. ASSUME NEW r \in own  PROVE r \in Owes(c)
  BY <1>1, <1>6 DEF Extends
<1>7. ASSUME NEW k \in 1 .. Len(w), NEW r, r \in Owes(calls[k])  PROVE r \in Owes(c)
  <2>1. Extends(r.body, c.body \cup {w[k]}, lat[k]) /\ r \in Expected
    BY <1>2, <1>7
  <2>2. Extends(r.body, c.body, Later(c))
    BY <1>3, <2>1 DEF Extends
  <2>3. QED  BY <1>1, <2>1, <2>2
<1>8. ASSUME NEW r \in Owes(c)  PROVE r \in own \/ \E k \in 1 .. Len(w) : r \in Owes(calls[k])
  <2>1. r \in Expected /\ c.body \subseteq r.body
    BY <1>1 DEF Extends
  <2>2. CASE r.body # c.body
    <3>1. PICK k \in 1 .. Len(w) : Extends(r.body, c.body \cup {w[k]}, lat[k])
      BY <2>1, <2>2, Branches
    <3>2. QED  BY <1>2, <2>1, <3>1
  <2>3. QED  BY <2>1, <2>2
<1>9. \A r : r \in OwedBy(calls) <=> \E k \in 1 .. Len(w) : r \in Owes(calls[k])
  BY Owed
<1>10. QED  BY <1>4, <1>5, <1>6, <1>7, <1>8, <1>9 DEF OfBody

(* Longer bodies, depth first: the heads of each longer body, and the      *)
(* bodies that are longer still.                                           *)
HeadingCall(d, c, i) ==
  /\ d.call = "buildHead" /\ d.body = c.body \cup {i}
  /\ \A r \in Expected : r.body = d.body => Extends(r.head, d.head, Later(d)) /\ r.head # d.head

LEMMA DepthBranch ==
  ASSUME NEW c, NEW w, NEW lat, NEW calls, LongerBodies(c, w, lat, calls), c.call = "buildRules",
         NEW headings, Len(headings) = Len(w),
         \A k \in 1 .. Len(w) : HeadingCall(headings[k], c, w[k])
  PROVE  /\ Separate(headings) /\ Separate(calls) /\ OwedBy(headings) \cap OwedBy(calls) = {}
         /\ OwedBy(headings) \cup OwedBy(calls) = Owes(c)
         /\ \A r \in Owes(c) : \E k \in 1 .. Len(w) : Extends(r.body, c.body \cup {w[k]}, lat[k])
<1> /\ IsList(w) /\ Distinct(w) /\ c.body \cap Members(w) = {} /\ Members(w) \subseteq Later(c)
    /\ Orders(w, lat) /\ \A k \in 1 .. Len(w) : lat[k] \subseteq Later(c)
    /\ \A r \in Owes(c) : r.body \ c.body \subseteq Members(w)
    /\ Len(calls) = Len(w) /\ \A k \in 1 .. Len(w) : BodyCall(calls[k], c, w[k], lat[k])
  BY DEF LongerBodies
<1>1. \A r : r \in Owes(c) <=>
        r \in Expected /\ Extends(r.body, c.body, Later(c)) /\ r.body # c.body
  BY DEF Owes, Finds
<1>2. ASSUME NEW k \in 1 .. Len(w), NEW r
      PROVE  r \in Owes(calls[k]) <=>
               /\ r \in Expected /\ Extends(r.body, c.body \cup {w[k]}, lat[k])
               /\ r.body # c.body \cup {w[k]}
  BY DEF BodyCall, Owes, Finds
<1>3. ASSUME NEW k \in 1 .. Len(w), NEW r
      PROVE  r \in Owes(headings[k]) <=> r \in Expected /\ r.body = c.body \cup {w[k]}
  BY DEF HeadingCall, Owes, Finds
<1>4. \A k \in 1 .. Len(w) : w[k] \in Later(c) /\ w[k] \notin c.body
  BY DEF Members
<1>5. Separate(calls)
  <2>1. ASSUME NEW k \in 1 .. Len(w), NEW l \in 1 .. Len(w), k # l,
               NEW r, r \in Owes(calls[k]), r \in Owes(calls[l])
        PROVE  FALSE
    <3>1. /\ Extends(r.body, c.body \cup {w[k]}, lat[k])
          /\ Extends(r.body, c.body \cup {w[l]}, lat[l])
      BY <1>2, <2>1
    <3>2. QED  BY <2>1, <3>1, BranchesApart
  <2>2. QED  BY <2>1 DEF Separate
<1>6. Separate(headings)
  <2>1. ASSUME NEW k \in 1 .. Len(w), NEW l \in 1 .. Len(w), k # l,
               NEW r, r \in Owes(headings[k]), r \in Owes(headings[l])
        PROVE  FALSE
    <3>1. w[k] = w[l]
      BY <1>3, <1>4, <2>1
    <3>2. QED  BY <2>1, <3>1 DEF Distinct
  <2>2. QED  BY <2>1 DEF Separate
<1>7. ASSUME NEW k \in 1 .. Len(w), NEW l \in 1 .. Len(w),
             NEW r, r \in Owes(headings[k]), r \in Owes(calls[l])
      PROVE  FALSE
  <2>1. r.body = c.body \cup {w[k]} /\ w[l] \in r.body /\ r.body # c.body \cup {w[l]}
    BY <1>2, <1>3, <1>7 DEF Extends
  <2>2. w[k] = w[l]
    BY <1>4, <2>1
  <2>3. QED  BY <2>1, <2>2
<1>8. ASSUME NEW k \in 1 .. Len(w), NEW r, r \in Owes(headings[k])  PROVE r \in Owes(c)
  <2>1. r \in Expected /\ r.body = c.body \cup {w[k]}
    BY <1>3, <1>8
  <2>2. Extends(r.body, c.body, Later(c)) /\ r.body # c.body
    BY <1>4, <2>1 DEF Extends
  <2>3. QED  BY <1>1, <2>1, <2>2
<1>9. ASSUME NEW k \in 1 .. Len(w), NEW r, r \in Owes(calls[k])  PROVE r \in Owes(c)
  <2>1. Extends(r.body, c.body \cup {w[k]}, lat[k]) /\ r \in Expected
    BY <1>2, <1>9
  <2>2. Extends(r.body, c.body, Later(c)) /\ r.body # c.body
    BY <1>4, <2>1 DEF Extends
  <2>3. QED  BY <1>1, <2>1, <2>2
<1>10. ASSUME NEW r \in Owes(c)
       PROVE  \E k \in 1 .. Len(w) :
                /\ Extends(r.body, c.body \cup {w[k]}, lat[k])
                /\ r \in Owes(headings[k]) \/ r \in Owes(calls[k])
  <2>1. r \in Expected /\ c.body \subseteq r.body /\ r.body # c.body
    BY <1>1 DEF Extends
  <2>2. PICK k \in 1 .. Len(w) : Extends(r.body, c.body \cup {w[k]}, lat[k])
    BY <2>1, Branches
  <2>3. r \in Owes(headings[k]) \/ r \in Owes(calls[k])
    BY <1>2, <1>3, <2>1, <2>2
  <2>4. QED  BY <2>2, <2>3
<1>11. \A r : r \in OwedBy(calls) <=> \E k \in 1 .. Len(w) : r \in Owes(calls[k])
  BY Owed
<1>12. \A r : r \in OwedBy(headings) <=> \E k \in 1 .. Len(w) : r \in Owes(headings[k])
  BY Owed
<1>13. OwedBy(headings) \cap OwedBy(calls) = {}
  BY <1>7, <1>11, <1>12
<1>14. OwedBy(headings) \cup OwedBy(calls) = Owes(c)
  BY <1>8, <1>9, <1>10, <1>11, <1>12
<1>15. QED  BY <1>5, <1>6, <1>10, <1>13, <1>14

-----------------------------------------------------------------------------
(* The groups in which a body or a rule is found, and their numbers.       *)

Queried ==
  /\ algorithm = Chosen(job) /\ algorithm # "None"
  /\ bodies = IF algorithm = "AndCross" THEN Joined(job.rows)
              ELSE Ordered(job.rows, BodyRows(job.rows), SortedGids(algorithm))
  /\ algorithm # "AndCross" =>
       heads = Ordered(job.rows, HeadRows(job.rows), SortedGids(algorithm))

Grouped == {bodies[k].gid : k \in DOMAIN bodies}
Numbers(S) == {NumberOf(g) : g \in S}
WithBody(B) == {g \in Groups : HasBody(g, B)}
WithRule(B, H) == {g \in Groups : HasRule(g, B, H)}
WithHead(h) == {g \in Groups : h \in RowsOf(g, "head")}
GroupsOf(B, H) == IF H = {} THEN WithBody(B) ELSE WithRule(B, H)

LEMMA ChosenHandles ==
  ASSUME JobInv, Chosen(job) # "None"
  PROVE  CanHandle(Chosen(job), job)
BY DEF Chosen

(* Only AndCross is chosen for a condition across body and head.           *)
LEMMA AllCross ==
  ASSUME JobInv, Queried, algorithm # "AndCross"
  PROVE  job.cross = Items \X Items
<1>1. ~job.crossing
  BY ChosenHandles DEF Queried, CanHandle
<1>2. QED  BY <1>1, JobsAssumption DEF JobInv

LEMMA RowOf ==
  ASSUME JobInv, NEW g, NEW side \in {"body", "head"}, NEW i \in RowsOf(g, side)
  PROVE  /\ g \in Groups /\ i \in Items /\ job.rows # <<>>
         /\ \E k \in DOMAIN job.rows :
              job.rows[k].gid = g /\ job.rows[k].item = i /\ job.rows[k][side]
<1>1. PICK k \in DOMAIN job.rows :
        job.rows[k].gid = g /\ job.rows[k].item = i /\ job.rows[k][side]
  BY DEF RowsOf
<1>2. job.rows \in Seq(SourceRow) /\ DOMAIN job.rows = 1 .. Len(job.rows)
  BY JobTable
<1>3. job.rows[k] \in SourceRow
  BY <1>1, <1>2, ElementOfSeq
<1>4. g \in Groups /\ i \in Items
  BY <1>1, <1>3 DEF SourceRow
<1>5. job.rows # <<>>
  <2>1. Len(<<>>) = 0
    BY EmptySeq
  <2>2. QED  BY <1>1, <1>2, <2>1
<1>6. QED  BY <1>1, <1>4, <1>5

LEMMA Products ==
  /\ \A a, b \in Nat : a * b \in Nat /\ (a > 0 /\ b > 0 => a * b > 0)
  /\ \A a, b, c \in Nat : a <= b => a * c <= b * c
  /\ \A a \in Nat : \A b \in Nat \ {0} : a \div b \in Nat
  /\ \A a \in Nat : 0 * a = 0
OBVIOUS

LEMMA GroupsCounted ==
  ASSUME JobInv
  PROVE  /\ TotGroups(job.rows) \in Nat
         /\ job.rows # <<>> => TotGroups(job.rows) > 0
<1> DEFINE G == {job.rows[i].gid : i \in DOMAIN job.rows}
           f == [i \in DOMAIN job.rows |-> job.rows[i].gid]
<1>1. job.rows \in Seq(SourceRow) /\ DOMAIN job.rows = 1 .. Len(job.rows) /\ Len(job.rows) \in Nat
  BY JobTable
<1>2. f \in Surjection(DOMAIN job.rows, G)
  BY DEF Surjection
<1>3. IsFiniteSet(DOMAIN job.rows)
  <2>1. 1 \in Int /\ Len(job.rows) \in Int
    BY <1>1
  <2>2. QED  BY <1>1, <2>1, FS_Interval
<1> HIDE DEF f
<1>4. IsFiniteSet(G)
  BY <1>2, <1>3, FS_Surjection
<1>5. Cardinality(G) \in Nat /\ (Cardinality(G) = 0 => G = {})
  BY <1>4, FS_CardinalityType, FS_EmptySet
<1>6. G = {} => job.rows = <<>>
  <2>1. G = {} => DOMAIN job.rows = {}
    OBVIOUS
  <2>2. DOMAIN job.rows = {} => Len(job.rows) = 0
    <3>1. Len(job.rows) # 0 => 1 \in 1 .. Len(job.rows)
      BY <1>1
    <3>2. QED  BY <1>1, <3>1
  <2>3. Len(job.rows) = 0 => job.rows = <<>>
    BY <1>1, EmptySeq
  <2>4. QED  BY <2>1, <2>2, <2>3
<1>7. TotGroups(job.rows) = Cardinality(G)
  BY DEF TotGroups
<1> HIDE DEF G
<1>8. QED  BY <1>5, <1>6, <1>7

LEMMA QueryRows ==
  ASSUME JobInv, Queried
  PROVE  /\ Result(bodies) /\ DOMAIN bodies = 1 .. Len(bodies)
         /\ algorithm = "AndCross" =>
              /\ ByGid(bodies)
              /\ \A g : GroupRows(bodies, g) = JoinedOf(job.rows, job.same, job.cross, g)
         /\ algorithm # "AndCross" =>
              \A g : ItemsOf(GroupRows(bodies, g)) = RowsOf(g, "body")
<1>1. /\ job.rows \in Seq(SourceRow) /\ Table(job.rows)
      /\ BodyRows(job.rows) \in SUBSET DOMAIN job.rows /\ SortedGids(algorithm) \in BOOLEAN
  BY JobTable DEF BodyRows, SortedGids
<1>2. CASE algorithm = "AndCross"
  <2>1. bodies = Ordered(Pairs(job.rows), JoinedRows(job.rows, job.same, job.cross), TRUE)
    BY <1>2 DEF Queried, Joined
  <2>2. /\ Result(bodies) /\ ByGid(bodies) /\ DOMAIN bodies = 1 .. Len(bodies)
        /\ \A g : GroupRows(bodies, g) = JoinedOf(job.rows, job.same, job.cross, g)
    BY <1>1, <2>1, JoinedGroups
  <2>3. QED  BY <1>2, <2>2
<1>3. CASE algorithm # "AndCross"
  <2>1. bodies = Ordered(job.rows, BodyRows(job.rows), SortedGids(algorithm))
    BY <1>3 DEF Queried
  <2>2. /\ Result(bodies)
        /\ \A g : GroupRows(bodies, g) = GroupRowsOf(job.rows, BodyRows(job.rows), g)
    BY <1>1, <2>1, OrderedGroups
  <2>3. \A g : ItemsOf(GroupRowsOf(job.rows, BodyRows(job.rows), g)) = RowsOf(g, "body")
    BY DEF ItemsOf, RowsOf, BodyRows, GroupRowsOf
  <2>4. DOMAIN bodies = 1 .. Len(bodies)
    BY <1>1, <2>1, OrderedProperties
  <2>5. QED  BY <1>3, <2>2, <2>3, <2>4
<1>4. QED  BY <1>2, <1>3

LEMMA GroupedHas ==
  ASSUME JobInv, Queried, NEW g, GroupRows(bodies, g) # {}
  PROVE  g \in Grouped
BY QueryRows DEF GroupRows, Grouped

LEMMA GroupedFinite ==
  ASSUME JobInv, Queried
  PROVE  Grouped \in SUBSET Nat /\ IsFiniteSet(Grouped)
<1>1. Result(bodies) /\ DOMAIN bodies = 1 .. Len(bodies) /\ Len(bodies) \in Nat
  BY QueryRows DEF Result
<1>2. Len(bodies) + 1 \in 1 .. Len(bodies) + 1 /\ (Len(bodies) + 1) - 1 = Len(bodies)
  BY <1>1
<1>3. IsFiniteSet({bodies[i].gid : i \in 1 .. (Len(bodies) + 1) - 1})
  BY <1>1, <1>2, GidsFinite
<1>4. IsFiniteSet(Grouped)
  BY <1>1, <1>2, <1>3 DEF Grouped
<1>5. Grouped \in SUBSET Nat
  BY <1>1 DEF Grouped, Result
<1>6. QED  BY <1>4, <1>5

(* The joined rows have the rules of one body item and one head item.      *)
LEMMA JoinedRules ==
  ASSUME JobInv, Queried, algorithm = "AndCross", NEW g
  PROVE  /\ \A q \in GroupRows(bodies, g) :
              q.body \in Items /\ q.head \in Items /\ HasRule(g, {q.body}, {q.head})
         /\ \A i, h : HasRule(g, {i}, {h}) =>
              \E q \in GroupRows(bodies, g) : q.body = i /\ q.head = h
<1> DEFINE t == job.rows
<1>1. GroupRows(bodies, g) = JoinedOf(t, job.same, job.cross, g)
  BY QueryRows
<1> HIDE DEF t
<1>2. ASSUME NEW q \in JoinedOf(t, job.same, job.cross, g)
      PROVE  q.body \in Items /\ q.head \in Items /\ HasRule(g, {q.body}, {q.head})
  <2>1. PICK i, j \in DOMAIN t :
          /\ JoinsAt(t, i, j, job.same, job.cross) /\ t[i].gid = g
          /\ q = PairAt(t, i, j)
    BY DEF JoinedOf
  <2>2. /\ t[i].body /\ t[j].head /\ t[j].gid = g
        /\ q.body = t[i].item /\ q.head = t[j].item
        /\ <<q.body, q.head>> \in job.cross /\ ~(job.same /\ q.body = q.head)
    BY <2>1 DEF JoinsAt, Joins, PairAt
  <2>3. q.body \in RowsOf(g, "body") /\ q.head \in RowsOf(g, "head")
    BY <2>1, <2>2 DEF RowsOf, t
  <2>4. QED  BY <2>2, <2>3, RowOf DEF HasRule
<1>3. ASSUME NEW i, NEW h, HasRule(g, {i}, {h})
      PROVE  \E q \in JoinedOf(t, job.same, job.cross, g) : q.body = i /\ q.head = h
  <2>1. /\ i \in RowsOf(g, "body") /\ h \in RowsOf(g, "head")
        /\ <<i, h>> \in job.cross /\ ~(job.same /\ i = h)
    BY <1>3 DEF HasRule
  <2>2. PICK k \in DOMAIN t : t[k].gid = g /\ t[k].item = i /\ t[k].body
    BY <2>1, RowOf DEF t
  <2>3. PICK l \in DOMAIN t : t[l].gid = g /\ t[l].item = h /\ t[l].head
    BY <2>1, RowOf DEF t
  <2>4. JoinsAt(t, k, l, job.same, job.cross)
    BY <2>1, <2>2, <2>3 DEF JoinsAt, Joins
  <2>5. PairAt(t, k, l) \in JoinedOf(t, job.same, job.cross, g)
    BY <2>2, <2>4 DEF JoinedOf
  <2>6. PairAt(t, k, l).body = i /\ PairAt(t, k, l).head = h
    BY <2>2, <2>3 DEF PairAt
  <2>7. QED  BY <2>5, <2>6
<1>4. \A q : q \in GroupRows(bodies, g) <=> q \in JoinedOf(t, job.same, job.cross, g)
  BY <1>1
<1>5. \A q \in GroupRows(bodies, g) :
        q.body \in Items /\ q.head \in Items /\ HasRule(g, {q.body}, {q.head})
  BY <1>2, <1>4
<1>6. ASSUME NEW i, NEW h, HasRule(g, {i}, {h})
      PROVE  \E q \in GroupRows(bodies, g) : q.body = i /\ q.head = h
  <2>1. PICK q \in JoinedOf(t, job.same, job.cross, g) : q.body = i /\ q.head = h
    BY <1>3, <1>6
  <2>2. QED  BY <1>4, <2>1
<1>7. QED  BY <1>5, <1>6

LEMMA BodyGrouped ==
  ASSUME JobInv, Queried, NEW B, B # {}
  PROVE  WithBody(B) \subseteq Grouped
<1>1. ASSUME NEW g \in WithBody(B)  PROVE g \in Grouped
  <2>1. PICK b : b \in B
    OBVIOUS
  <2>2. b \in RowsOf(g, "body") /\ (algorithm = "AndCross" => PartnersOf(g, b) # {})
    BY <1>1, <2>1 DEF WithBody, HasBody
  <2>3. CASE algorithm = "AndCross"
    <3>1. PICK h : h \in PartnersOf(g, b)
      BY <2>2, <2>3
    <3>2. HasRule(g, {b}, {h})
      BY <2>2, <3>1 DEF PartnersOf, HasRule
    <3>3. QED  BY <2>3, <3>2, JoinedRules, GroupedHas
  <2>4. CASE algorithm # "AndCross"
    <3>1. b \in ItemsOf(GroupRows(bodies, g))
      BY <2>2, <2>4, QueryRows
    <3>2. GroupRows(bodies, g) # {}
      BY <3>1 DEF ItemsOf
    <3>3. QED  BY <3>2, GroupedHas
  <2>5. QED  BY <2>3, <2>4
<1>2. QED  BY <1>1

LEMMA RuleHasBody ==
  ASSUME NEW B, NEW H, H # {}
  PROVE  WithRule(B, H) \subseteq WithBody(B)
<1>1. PICK h : h \in H
  OBVIOUS
<1>2. ASSUME NEW g \in WithRule(B, H)  PROVE g \in WithBody(B)
  <2>1. HasRule(g, B, H)
    BY <1>2 DEF WithRule
  <2>2. \A b \in B : h \in PartnersOf(g, b)
    BY <1>1, <2>1 DEF HasRule, PartnersOf
  <2>3. QED  BY <1>2, <2>1, <2>2 DEF WithRule, WithBody, HasRule, HasBody
<1>3. QED  BY <1>2

(* A smaller group has a smaller number.                                   *)
LEMMA NumberGrows ==
  ASSUME JobInv, Queried, NEW g \in Grouped, NEW h \in Grouped, g < h
  PROVE  NumberOf(g) # NumberOf(h)
<1> DEFINE less(n) == {bodies[i].gid : i \in {k \in DOMAIN bodies : bodies[k].gid < n}}
<1>1. Grouped \in SUBSET Nat /\ IsFiniteSet(Grouped)
  BY GroupedFinite
<1>2. less(g) \in SUBSET less(h) /\ less(h) \in SUBSET Grouped
  <2>1. \A i \in DOMAIN bodies : bodies[i].gid < g => bodies[i].gid < h
    <3>1. \A i \in DOMAIN bodies : bodies[i].gid \in Nat
      BY <1>1 DEF Grouped
    <3>2. g \in Nat /\ h \in Nat
      BY <1>1
    <3>3. QED  BY <3>1, <3>2
  <2>2. QED  BY <2>1 DEF Grouped
<1>3. g \in less(h) /\ g \notin less(g)
  <2>1. PICK i \in DOMAIN bodies : bodies[i].gid = g
    BY DEF Grouped
  <2>2. g \in Nat
    BY <1>1
  <2>3. g \in less(h)
    BY <2>1
  <2>4. g \notin less(g)
    BY <2>2
  <2>5. QED  BY <2>3, <2>4
<1>4. /\ NumberOf(g) = (IF algorithm = "AndCross" THEN 1 ELSE 0) + Size(less(g))
      /\ NumberOf(h) = (IF algorithm = "AndCross" THEN 1 ELSE 0) + Size(less(h))
  BY DEF NumberOf
<1> HIDE DEF less
<1>5. IsFiniteSet(less(h)) /\ IsFiniteSet(less(g))
  BY <1>1, <1>2, FS_Subset
<1>6. Size(less(g)) \in Nat /\ Size(less(h)) \in Nat /\ Size(less(g)) # Size(less(h))
  BY <1>2, <1>3, <1>5, FS_Subset, FS_CardinalityType DEF Size
<1>7. QED  BY <1>4, <1>6

LEMMA NumberInjective ==
  ASSUME JobInv, Queried, NEW g \in Grouped, NEW h \in Grouped, NumberOf(g) = NumberOf(h)
  PROVE  g = h
<1>1. g \in Nat /\ h \in Nat
  BY GroupedFinite
<1>2. g < h \/ h < g \/ g = h
  BY <1>1
<1>3. QED  BY <1>2, NumberGrows

LEMMA NumbersCap ==
  ASSUME JobInv, Queried, NEW S \in SUBSET Grouped, NEW T \in SUBSET Grouped
  PROVE  Numbers(S) \cap Numbers(T) = Numbers(S \cap T)
<1>1. ASSUME NEW n \in Numbers(S), n \in Numbers(T)  PROVE n \in Numbers(S \cap T)
  <2>1. PICK g \in S : n = NumberOf(g)
    BY DEF Numbers
  <2>2. PICK h \in T : n = NumberOf(h)
    BY <1>1 DEF Numbers
  <2>3. g = h
    BY <2>1, <2>2, NumberInjective
  <2>4. QED  BY <2>1, <2>2, <2>3 DEF Numbers
<1>2. Numbers(S \cap T) \subseteq Numbers(S) \cap Numbers(T)
  BY DEF Numbers
<1>3. QED  BY <1>1, <1>2

LEMMA NumbersSize ==
  ASSUME JobInv, Queried, NEW S \in SUBSET Grouped
  PROVE  /\ IsFiniteSet(S) /\ Size(S) \in Nat /\ Size(Numbers(S)) = Size(S)
         /\ Numbers(S) = {} <=> S = {}
         /\ Size(S) > 0 <=> S # {}
<1> DEFINE f == [g \in S |-> NumberOf(g)]
<1>1. IsFiniteSet(S) /\ Size(S) \in Nat
  BY GroupedFinite, FS_Subset, FS_CardinalityType DEF Size
<1>2. f \in Surjection(S, Numbers(S))
  BY DEF Surjection, Numbers
<1>3. \A g, h \in S : f[g] = f[h] => g = h
  BY NumberInjective
<1>4. f \in Bijection(S, Numbers(S))
  <2> HIDE DEF f
  <2>1. f \in [S -> Numbers(S)]
    BY <1>2 DEF Surjection
  <2>2. f \in Injection(S, Numbers(S))
    BY <1>3, <2>1 DEF Injection, IsInjective, f
  <2>3. QED  BY <1>2, <2>2 DEF Bijection
<1>5. ExistsBijection(S, Numbers(S))
  BY <1>4 DEF ExistsBijection
<1>6. Size(Numbers(S)) = Size(S)
  BY <1>1, <1>5, FS_Bijection DEF Size
<1>7. Numbers(S) = {} <=> S = {}
  BY DEF Numbers
<1>8. Size(S) = 0 <=> S = {}
  BY <1>1, FS_EmptySet DEF Size
<1>9. QED  BY <1>1, <1>6, <1>7, <1>8

-----------------------------------------------------------------------------
(* More items, fewer groups.                                               *)

LEMMA LongerHead ==
  ASSUME NEW B, NEW H, NEW h
  PROVE  GroupsOf(B, H \cup {h}) = GroupsOf(B, H) \cap WithRule(B, {h})
<1>1. GroupsOf(B, H \cup {h}) = WithRule(B, H \cup {h})
  BY DEF GroupsOf
<1>2. CASE H = {}
  <2>1. GroupsOf(B, H) = WithBody(B) /\ H \cup {h} = {h}
    BY <1>2 DEF GroupsOf
  <2>2. WithRule(B, {h}) \subseteq WithBody(B)
    BY RuleHasBody
  <2>3. QED  BY <1>1, <2>1, <2>2
<1>3. CASE H # {}
  <2>1. WithRule(B, H \cup {h}) = WithRule(B, H) \cap WithRule(B, {h})
    BY DEF WithRule, HasRule
  <2>2. QED  BY <1>1, <1>3, <2>1 DEF GroupsOf
<1>4. QED  BY <1>2, <1>3

(* Without a condition across body and head a head is found by itself.     *)
LEMMA HeadByItself ==
  ASSUME JobInv, Queried, algorithm # "AndCross", NEW B, NEW h, job.same => h \notin B
  PROVE  WithRule(B, {h}) = WithBody(B) \cap WithHead(h)
<1>1. job.cross = Items \X Items
  BY AllCross
<1>2. ASSUME NEW g, B \subseteq RowsOf(g, "body"), h \in RowsOf(g, "head")
      PROVE  \A b \in B : <<b, h>> \in job.cross /\ ~(job.same /\ b = h)
  BY <1>1, <1>2, RowOf
<1>3. ASSUME NEW g \in Groups
      PROVE  HasRule(g, B, {h}) <=> HasBody(g, B) /\ h \in RowsOf(g, "head")
  BY <1>2 DEF HasRule, HasBody
<1>4. QED  BY <1>3 DEF WithRule, WithBody, WithHead

LEMMA FewerGroups ==
  ASSUME JobInv, Queried, NEW T \in SUBSET Grouped, NEW S \in SUBSET T
  PROVE  (Reaches(Size(S)) => Reaches(Size(T))) /\ (MoreThan(Size(S)) => MoreThan(Size(T)))
<1>1. IsFiniteSet(T) /\ Size(T) \in Nat
  BY NumbersSize
<1>2. Size(S) \in Nat /\ Size(S) <= Size(T)
  BY <1>1, FS_Subset, FS_CardinalityType DEF Size
<1>3. job.num \in Nat /\ job.den \in Nat \ {0} /\ TotGroups(job.rows) \in Nat
  <2>1. job.num \in Nat /\ job.den \in Nat \ {0}
    BY JobsAssumption DEF JobInv, Job
  <2>2. QED  BY <2>1, GroupsCounted
<1>4. Size(S) * job.den <= Size(T) * job.den
  BY <1>1, <1>2, <1>3, Products
<1>5. Threshold \in Nat
  BY <1>3, Products DEF Threshold
<1>6. Threshold \div job.den \in Nat
  BY <1>3, <1>5, Products
<1>7. Size(S) * job.den \in Nat /\ Size(T) * job.den \in Nat
  BY <1>1, <1>2, <1>3, Products
<1>8. Reaches(Size(S)) => Reaches(Size(T))
  BY <1>4, <1>5, <1>7 DEF Reaches
<1>9. MoreThan(Size(S)) => MoreThan(Size(T))
  BY <1>1, <1>2, <1>6 DEF MoreThan
<1>10. QED  BY <1>8, <1>9

(* What is enough is some group.                                           *)
LEMMA EnoughIsSome ==
  ASSUME JobInv, Queried, NEW S \in SUBSET Grouped
  PROVE  /\ Reaches(Size(S)) /\ job.rows # <<>> => S # {}
         /\ MoreThan(Size(S)) => S # {}
<1>1. /\ job.num \in Nat \ {0} /\ job.den \in Nat \ {0} /\ TotGroups(job.rows) \in Nat
      /\ job.rows # <<>> => TotGroups(job.rows) > 0
  <2>1. job.num \in Nat \ {0} /\ job.den \in Nat \ {0}
    BY JobsAssumption DEF JobInv, Job
  <2>2. QED  BY <2>1, GroupsCounted
<1>2. Threshold \in Nat /\ (job.rows # <<>> => Threshold > 0)
  BY <1>1, Products DEF Threshold
<1>3. Threshold \div job.den \in Nat
  BY <1>1, <1>2, Products
<1>4. S = {} => Size(S) = 0
  BY FS_EmptySet DEF Size
<1>5. Reaches(0) => ~(Threshold > 0)
  BY <1>1, <1>2, Products DEF Reaches
<1>6. ~MoreThan(0)
  BY <1>3 DEF MoreThan
<1>7. QED  BY <1>2, <1>4, <1>5, <1>6

-----------------------------------------------------------------------------
(* Reading the groups: the heads of each body.                             *)

(* The groups read so far, as numbers, for each body and each head of it.  *)
PairsRead ==
  phase = "read" /\ algorithm \in {"NoCross", "AndCross"} =>
    \A i, h \in Items : pairs[i][h] = Numbers({g \in GroupsRead : HasRule(g, {i}, {h})})
JoinedRead ==
  phase = "read" /\ algorithm = "AndCross" =>
    /\ BetweenGroups(bodies, bodyAt) /\ groups = Size(GroupsRead)
    /\ \A i \in Items : bodyMap[i] = Numbers({g \in GroupsRead : HasBody(g, {i})})

QueriedInv ==
  /\ phase \in {"read", "mine"} => Queried
  /\ phase \in {"choose", "read"} => rules = <<>>

PairInv == QueriedInv /\ PairsRead /\ JoinedRead

LEMMA SameSearch ==
  ASSUME job' = job, algorithm' = algorithm, bodies' = bodies
  PROVE  /\ \A S : Numbers(S)' = Numbers(S)
         /\ \A g, B : HasBody(g, B)' = HasBody(g, B)
         /\ \A g, B, H : HasRule(g, B, H)' = HasRule(g, B, H)
         /\ \A g : NumberOf(g)' = NumberOf(g)
BY DEF Numbers, NumberOf, HasBody, HasRule, RowsOf, PartnersOf

LEMMA NumbersAdd ==
  ASSUME NEW S, NEW g
  PROVE  Numbers(S \cup {g}) = Numbers(S) \cup {NumberOf(g)}
BY DEF Numbers

LEMMA GroupAdded ==
  ASSUME NEW G, NEW g, NEW P, P \subseteq G \cup {g}
  PROVE  Numbers(P) = Numbers(P \cap G) \cup (IF g \in P THEN {NumberOf(g)} ELSE {})
<1>1. CASE g \in P
  <2>1. P = (P \cap G) \cup {g}
    BY <1>1
  <2>2. QED  BY <1>1, <2>1, NumbersAdd
<1>2. CASE g \notin P
  <2>1. P = P \cap G
    BY <1>2
  <2>2. QED  BY <1>2, <2>1
<1>3. QED  BY <1>1, <1>2

LEMMA PairsByGroup ==
  ASSUME PairsRead, phase = "read", algorithm \in {"NoCross", "AndCross"},
         NEW i \in Items, NEW h \in Items, NEW g
  PROVE  Numbers({k \in GroupsRead \cup {g} : HasRule(k, {i}, {h})})
           = pairs[i][h] \cup (IF HasRule(g, {i}, {h}) THEN {NumberOf(g)} ELSE {})
<1> DEFINE P == {k \in GroupsRead \cup {g} : HasRule(k, {i}, {h})}
<1>1. P \subseteq GroupsRead \cup {g} /\ (g \in P <=> HasRule(g, {i}, {h}))
  OBVIOUS
<1>2. P \cap GroupsRead = {k \in GroupsRead : HasRule(k, {i}, {h})}
  OBVIOUS
<1>3. pairs[i][h] = Numbers({k \in GroupsRead : HasRule(k, {i}, {h})})
  BY DEF PairsRead
<1> HIDE DEF P
<1>4. Numbers(P) = Numbers(P \cap GroupsRead) \cup (IF g \in P THEN {NumberOf(g)} ELSE {})
  BY <1>1, GroupAdded
<1>5. QED  BY <1>1, <1>2, <1>3, <1>4 DEF P

LEMMA ReadNoCrossPairs ==
  ASSUME ReadInv, GroupedTables, PairInv, ReadNoCross
  PROVE  PairsRead'
<1>1. Reading({"NoCross"}) /\ AdvanceHead
  BY DEF ReadNoCross
<1>2. /\ phase = "read" /\ algorithm = "NoCross" /\ ~AfterLast(bodies, bodyAt) /\ Reads
      /\ job' = job /\ algorithm' = algorithm /\ bodies' = bodies
      /\ Reading({"NoCross", "Care", "Itemsets"})
  BY <1>1 DEF Reading, Reads
<1>3. GroupsRead' = GroupsRead \cup {Gid}
  BY <1>1, <1>2, GroupCounted
<1>4. NumberOf(Gid) = groups /\ BodyItems = RowsOf(Gid, "body") /\ HeadItems = RowsOf(Gid, "head")
  BY <1>2, GroupRead
<1>5. job.cross = Items \X Items
  BY <1>2, AllCross DEF ReadInv, PairInv, QueriedInv
<1>6. ASSUME NEW i \in Items, NEW h \in Items
      PROVE  pairs'[i][h] = Numbers({g \in GroupsRead \cup {Gid} : HasRule(g, {i}, {h})})
  <2>1. pairs' = [k \in Items |->
          IF k \in BodyItems
            THEN AddGid(pairs[k], IF job.same THEN HeadItems \ {k} ELSE HeadItems, groups)
            ELSE pairs[k]]
    BY DEF ReadNoCross
  <2>2. HasRule(Gid, {i}, {h}) <=>
          i \in BodyItems /\ h \in (IF job.same THEN HeadItems \ {i} ELSE HeadItems)
    <3>1. <<i, h>> \in job.cross
      BY <1>5
    <3>2. QED  BY <1>4, <3>1 DEF HasRule
  <2>3. pairs'[i][h] = pairs[i][h] \cup (IF HasRule(Gid, {i}, {h}) THEN {groups} ELSE {})
    BY <2>1, <2>2 DEF AddGid
  <2>4. QED  BY <1>2, <1>4, <2>3, PairsByGroup DEF PairInv
<1>7. /\ \A S : Numbers(S)' = Numbers(S)
      /\ \A g, B, H : HasRule(g, B, H)' = HasRule(g, B, H)
  BY <1>2, SameSearch
<1>8. \A i, h \in Items : {g \in GroupsRead : HasRule(g, {i}, {h})}'
                             = {g \in GroupsRead \cup {Gid} : HasRule(g, {i}, {h})}
  BY <1>3, <1>7
<1>9. QED  BY <1>6, <1>7, <1>8 DEF PairsRead

LEMMA ReadAndCrossPairs ==
  ASSUME JobInv, PairInv, ReadAndCross
  PROVE  PairsRead' /\ JoinedRead'
<1> DEFINE joined == Loaded(bodies, Gid, bodyAt)
           headsOf(i) == {r.head : r \in {q \in joined : q.body = i}}
           e == LoadEnd(bodies, Gid, bodyAt)
<1>1. /\ Reading({"AndCross"})
      /\ bodyMap' = AddGid(bodyMap, {r.body : r \in joined}, groups + 1)
      /\ pairs' = [i \in Items |-> AddGid(pairs[i], headsOf(i), groups + 1)]
  BY DEF ReadAndCross
<1>2. /\ phase = "read" /\ algorithm = "AndCross" /\ ~AfterLast(bodies, bodyAt)
      /\ job' = job /\ algorithm' = algorithm /\ bodies' = bodies
      /\ bodyAt' = e /\ groups' = groups + 1
  BY <1>1 DEF Reading
<1>3. Queried /\ BetweenGroups(bodies, bodyAt) /\ groups = Size(GroupsRead)
  BY <1>2 DEF PairInv, QueriedInv, JoinedRead
<1>4. Result(bodies) /\ ByGid(bodies) /\ DOMAIN bodies = 1 .. Len(bodies)
  BY <1>2, <1>3, QueryRows
<1>5. GroupsRead = GidsBefore(bodies, bodyAt) /\ Gid = bodies[bodyAt].gid
  BY DEF GroupsRead, GidsBefore, Gid
<1>6. /\ Gid \in Nat /\ \A g \in GroupsRead : g \in Nat /\ g < Gid
      /\ IsFiniteSet(GroupsRead) /\ joined = GroupRows(bodies, Gid)
      /\ BetweenGroups(bodies, e) /\ GidsBefore(bodies, e) = GroupsRead \cup {Gid}
      /\ {k \in 1 .. Len(bodies) : bodies[k].gid < Gid} = 1 .. bodyAt - 1
  BY <1>2, <1>3, <1>4, <1>5, NextGroup
<1>7. Gid \notin GroupsRead
  BY <1>6
<1>8. Size(GroupsRead) \in Nat /\ Size(GroupsRead \cup {Gid}) = Size(GroupsRead) + 1
  BY <1>6, <1>7, FS_AddElement, FS_CardinalityType DEF Size
<1>9. NumberOf(Gid) = groups + 1
  <2>1. NumberOf(Gid) = 1 + Size(GroupsRead)
    BY <1>2, <1>4, <1>6 DEF NumberOf, GroupsRead
  <2>2. QED  BY <1>3, <1>8, <2>1
<1>10. GroupsRead' = GroupsRead \cup {Gid}
  BY <1>2, <1>6 DEF GroupsRead, GidsBefore
<1> HIDE DEF joined, e
<1>11. ASSUME NEW i \in Items, NEW h \in Items
       PROVE  pairs'[i][h] = Numbers({g \in GroupsRead \cup {Gid} : HasRule(g, {i}, {h})})
  <2>1. h \in headsOf(i) <=> HasRule(Gid, {i}, {h})
    <3>1. ASSUME h \in headsOf(i)  PROVE HasRule(Gid, {i}, {h})
      BY <1>2, <1>3, <1>6, <3>1, JoinedRules
    <3>2. ASSUME HasRule(Gid, {i}, {h})  PROVE h \in headsOf(i)
      <4>1. \A k, l : HasRule(Gid, {k}, {l}) =>
              \E q \in GroupRows(bodies, Gid) : q.body = k /\ q.head = l
        BY <1>2, <1>3, JoinedRules
      <4>2. \E q \in GroupRows(bodies, Gid) : q.body = i /\ q.head = h
        BY <3>2, <4>1
      <4>3. QED  BY <1>6, <4>2
    <3>3. QED  BY <3>1, <3>2
  <2>2. pairs'[i] = AddGid(pairs[i], headsOf(i), groups + 1)
    BY <1>1
  <2> HIDE DEF headsOf
  <2>3. pairs'[i][h] = pairs[i][h] \cup (IF HasRule(Gid, {i}, {h}) THEN {groups + 1} ELSE {})
    BY <2>1, <2>2 DEF AddGid
  <2>4. QED  BY <1>2, <1>9, <2>3, PairsByGroup DEF PairInv
<1>12. ASSUME NEW i \in Items
       PROVE  bodyMap'[i] = Numbers({g \in GroupsRead \cup {Gid} : HasBody(g, {i})})
  <2> DEFINE P == {g \in GroupsRead \cup {Gid} : HasBody(g, {i})}
             of == {r.body : r \in joined}
  <2>1. i \in of <=> HasBody(Gid, {i})
    <3>1. ASSUME i \in of  PROVE HasBody(Gid, {i})
      <4>1. PICK q \in GroupRows(bodies, Gid) : q.body = i
        BY <1>6, <3>1
      <4>2. HasRule(Gid, {i}, {q.head})
        BY <1>2, <1>3, <4>1, JoinedRules
      <4>3. i \in RowsOf(Gid, "body") /\ q.head \in PartnersOf(Gid, i)
        BY <4>2 DEF HasRule, PartnersOf
      <4>4. QED  BY <4>3 DEF HasBody
    <3>2. ASSUME HasBody(Gid, {i})  PROVE i \in of
      <4>1. PICK h : h \in PartnersOf(Gid, i)
        BY <1>2, <3>2 DEF HasBody
      <4>2. HasRule(Gid, {i}, {h})
        BY <3>2, <4>1 DEF HasBody, HasRule, PartnersOf
      <4>3. PICK q \in GroupRows(bodies, Gid) : q.body = i
        BY <1>2, <1>3, <4>2, JoinedRules
      <4>4. QED  BY <1>6, <4>3
    <3>3. QED  BY <3>1, <3>2
  <2>2. bodyMap' = AddGid(bodyMap, of, groups + 1)
    BY <1>1
  <2> HIDE DEF of
  <2>3. bodyMap'[i] = bodyMap[i] \cup (IF HasBody(Gid, {i}) THEN {groups + 1} ELSE {})
    BY <2>1, <2>2 DEF AddGid
  <2>4. bodyMap[i] = Numbers({g \in GroupsRead : HasBody(g, {i})})
    BY <1>2 DEF PairInv, JoinedRead
  <2>5. P \subseteq GroupsRead \cup {Gid} /\ (Gid \in P <=> HasBody(Gid, {i}))
        /\ P \cap GroupsRead = {g \in GroupsRead : HasBody(g, {i})}
    OBVIOUS
  <2> HIDE DEF P
  <2>6. Numbers(P) = Numbers(P \cap GroupsRead) \cup (IF Gid \in P THEN {NumberOf(Gid)} ELSE {})
    BY <2>5, GroupAdded
  <2>7. QED  BY <1>9, <2>3, <2>4, <2>5, <2>6 DEF P
<1>13. /\ \A S : Numbers(S)' = Numbers(S)
       /\ \A g, B : HasBody(g, B)' = HasBody(g, B)
       /\ \A g, B, H : HasRule(g, B, H)' = HasRule(g, B, H)
  BY <1>2, SameSearch
<1>14. \A i, h \in Items : {g \in GroupsRead : HasRule(g, {i}, {h})}'
                             = {g \in GroupsRead \cup {Gid} : HasRule(g, {i}, {h})}
  BY <1>10, <1>13
<1>15. \A i \in Items : {g \in GroupsRead : HasBody(g, {i})}'
                          = {g \in GroupsRead \cup {Gid} : HasBody(g, {i})}
  BY <1>10, <1>13
<1>16. PairsRead'
  BY <1>11, <1>13, <1>14 DEF PairsRead
<1>17. groups' = Size(GroupsRead')
  BY <1>2, <1>3, <1>8, <1>10
<1>18. JoinedRead'
  BY <1>2, <1>6, <1>12, <1>13, <1>15, <1>17 DEF JoinedRead
<1>19. QED  BY <1>16, <1>18

LEMMA PreparePairs ==
  ASSUME MinerInv, ReadInv, PairInv, Prepare
  PROVE  PairInv'
<1>1. /\ phase = "choose" /\ phase' \in {"read", "failed"} /\ algorithm' = Chosen(job)
      /\ job' = job /\ Chosen(job) # "None" /\ rules' = rules
      /\ bodyAt' = 1 /\ groups' = 0 /\ bodyMap' = Nowhere /\ pairs' = [i \in Items |-> Nowhere]
  BY DEF Prepare, ReadInv, StartInv, MinerInv, JoinInv, maps
<1>2. /\ bodies' = IF algorithm' = "AndCross" THEN Joined(job.rows)
                   ELSE Ordered(job.rows, BodyRows(job.rows), SortedGids(algorithm'))
      /\ heads' = IF algorithm' = "AndCross" THEN <<>>
                  ELSE Ordered(job.rows, HeadRows(job.rows), SortedGids(algorithm'))
  BY DEF Prepare
<1>3. QueriedInv'
  <2>1. Queried'
    BY <1>1, <1>2 DEF Queried, Joined
  <2>2. rules' = <<>>
    BY <1>1 DEF PairInv, QueriedInv
  <2>3. QED  BY <2>1, <2>2 DEF QueriedInv
<1>4. GroupsRead' = {}
  BY <1>1 DEF GroupsRead
<1>5. Numbers({})' = {}
  BY DEF Numbers
<1>6. PairsRead'
  <2>1. \A i, h \in Items : {g \in GroupsRead : HasRule(g, {i}, {h})}' = {}
    BY <1>4
  <2>2. \A i, h \in Items : pairs'[i][h] = {}
    BY <1>1 DEF Nowhere
  <2>3. QED  BY <1>5, <2>1, <2>2 DEF PairsRead
<1>7. JoinedRead'
  <2>1. \A i \in Items : {g \in GroupsRead : HasBody(g, {i})}' = {}
    BY <1>4
  <2>2. \A i \in Items : bodyMap'[i] = {}
    BY <1>1 DEF Nowhere
  <2>3. ASSUME algorithm' = "AndCross"  PROVE BetweenGroups(bodies', 1)
    <3>1. bodies' = Ordered(Pairs(job.rows), JoinedRows(job.rows, job.same, job.cross), TRUE)
      BY <1>2, <2>3 DEF Joined
    <3>2. Result(bodies')
      BY <3>1, JobTable, JoinedGroups DEF MinerInv
    <3>3. QED  BY <3>2 DEF Result, BetweenGroups
  <2>4. Size({}) = 0
    BY FS_EmptySet DEF Size
  <2>5. QED  BY <1>1, <1>4, <1>5, <2>1, <2>2, <2>3, <2>4 DEF JoinedRead
<1>8. QED  BY <1>3, <1>6, <1>7 DEF PairInv

LEMMA PairStep ==
  ASSUME MinerInv, ReadInv, PairInv, GroupedTables, [MineAndMatch]_<<vars, matchVars>>
  PROVE  PairInv'
<1>1. CASE Prepare
  BY <1>1, PreparePairs
<1>2. CASE ReadNoCross \/ ReadAndCross
  <2>1. /\ job' = job /\ algorithm' = algorithm /\ phase' = phase /\ rules' = rules
        /\ bodies' = bodies /\ heads' = heads /\ phase = "read"
    BY <1>2 DEF ReadNoCross, ReadAndCross, Reading
  <2>2. QueriedInv'
    BY <2>1 DEF PairInv, QueriedInv, Queried, Joined
  <2>3. CASE ReadNoCross
    <3>1. algorithm = "NoCross"
      BY <2>3 DEF ReadNoCross, Reading
    <3>2. PairsRead' /\ JoinedRead'
      BY <2>1, <2>3, <3>1, ReadNoCrossPairs DEF JoinedRead
    <3>3. QED  BY <2>2, <3>2 DEF PairInv
  <2>4. CASE ReadAndCross
    <3>1. PairsRead' /\ JoinedRead'
      BY <2>4, ReadAndCrossPairs DEF MinerInv
    <3>2. QED  BY <2>2, <3>1 DEF PairInv
  <2>5. QED  BY <1>2, <2>3, <2>4
<1>3. CASE ReadCare \/ ReadItemsets
  <2>1. /\ job' = job /\ algorithm' = algorithm /\ phase' = phase /\ rules' = rules
        /\ bodies' = bodies /\ heads' = heads /\ algorithm \in {"Care", "Itemsets"}
    BY <1>3 DEF ReadCare, ReadItemsets, Reading
  <2>2. QueriedInv'
    BY <2>1 DEF PairInv, QueriedInv, Queried, Joined
  <2>3. PairsRead' /\ JoinedRead'
    BY <2>1 DEF PairsRead, JoinedRead
  <2>4. QED  BY <2>2, <2>3 DEF PairInv
<1>4. CASE PruneBodies \/ PruneCare \/ PruneItemsets
  <2>1. /\ job' = job /\ algorithm' = algorithm /\ phase = "read" /\ phase' = "mine"
        /\ bodies' = bodies /\ heads' = heads
    BY <1>4 DEF PruneBodies, PruneCare, PruneItemsets, StartMining, cursors
  <2>2. QueriedInv'
    BY <2>1 DEF PairInv, QueriedInv, Queried, Joined
  <2>3. PairsRead' /\ JoinedRead'
    BY <2>1 DEF PairsRead, JoinedRead
  <2>4. QED  BY <2>2, <2>3 DEF PairInv
<1>5. CASE GenerateRules \/ AddHead \/ BuildRules \/ BuildHead
  <2>1. /\ job' = job /\ algorithm' = algorithm /\ phase = "mine" /\ phase' = "mine"
        /\ bodies' = bodies /\ heads' = heads
    BY <1>5 DEF GenerateRules, AddHead, BuildRules, BuildHead, Calling, cursors
  <2>2. QueriedInv'
    BY <2>1 DEF PairInv, QueriedInv, Queried, Joined
  <2>3. PairsRead' /\ JoinedRead'
    BY <2>1 DEF PairsRead, JoinedRead
  <2>4. QED  BY <2>2, <2>3 DEF PairInv
<1>6. CASE Refuse \/ Finish \/ OpenSourceTable
  <2>1. phase' \notin {"choose", "read", "mine"}
    BY <1>6 DEF Refuse, Finish, OpenSourceTable
  <2>2. QED  BY <2>1 DEF PairInv, QueriedInv, PairsRead, JoinedRead
<1>7. CASE UNCHANGED vars
  <2>1. /\ job' = job /\ algorithm' = algorithm /\ phase' = phase /\ rules' = rules
        /\ bodies' = bodies /\ heads' = heads /\ bodyAt' = bodyAt /\ groups' = groups
        /\ pairs' = pairs /\ bodyMap' = bodyMap
    BY <1>7 DEF vars
  <2>2. QueriedInv'
    BY <2>1 DEF PairInv, QueriedInv, Queried, Joined
  <2>3. /\ \A S : Numbers(S)' = Numbers(S)
        /\ \A g, B : HasBody(g, B)' = HasBody(g, B)
        /\ \A g, B, H : HasRule(g, B, H)' = HasRule(g, B, H)
        /\ GroupsRead' = GroupsRead
    BY <2>1, SameSearch DEF GroupsRead
  <2>4. /\ \A i, h \in Items : {g \in GroupsRead : HasRule(g, {i}, {h})}'
                                = {g \in GroupsRead : HasRule(g, {i}, {h})}
        /\ \A i \in Items : {g \in GroupsRead : HasBody(g, {i})}'
                             = {g \in GroupsRead : HasBody(g, {i})}
    BY <2>3
  <2>5. PairsRead' /\ JoinedRead'
    BY <2>1, <2>3, <2>4 DEF PairInv, PairsRead, JoinedRead
  <2>6. QED  BY <2>2, <2>5 DEF PairInv
<1>8. MatchStep => UNCHANGED vars
  BY DEF MatchStep, ReadsGroup, MatchRuleTransaction, MatchItemTransaction, NoMoreHeads,
         NoMoreGroups, PrintMatches, SaveMatches
<1>9. UNCHANGED <<vars, matchVars>> => UNCHANGED vars
  BY DEF vars, matchVars
<1>10. QED  BY <1>1, <1>2, <1>3, <1>4, <1>5, <1>6, <1>7, <1>8, <1>9 DEF MineAndMatch, Next

LEMMA PairStarts ==
  ASSUME MatchInit
  PROVE  PairInv
BY DEF MatchInit, Init, PairInv, QueriedInv, PairsRead, JoinedRead

LEMMA AllRead ==
  ASSUME MinerInv, ReadInv, PairInv, phase = "read", AfterLast(bodies, bodyAt)
  PROVE  Queried /\ GroupsRead = Grouped
<1>1. Queried
  BY DEF PairInv, QueriedInv
<1>2. Result(bodies) /\ DOMAIN bodies = 1 .. Len(bodies)
  BY <1>1, QueryRows DEF MinerInv
<1>3. bodyAt \in 1 .. Len(bodies) + 1
  <2>1. CASE algorithm = "AndCross"
    BY <2>1 DEF MinerInv, JoinInv
  <2>2. CASE algorithm # "AndCross"
    BY <2>2 DEF ReadInv, CursorsInv, Reads, BetweenGroups
  <2>3. QED  BY <2>1, <2>2
<1>4. bodyAt - 1 = Len(bodies)
  BY <1>2, <1>3 DEF AfterLast, Result
<1>5. QED  BY <1>1, <1>2, <1>4 DEF GroupsRead, Grouped

-----------------------------------------------------------------------------
(* The rules of the minerule.                                              *)

LEMMA ExpectedRule ==
  ASSUME NEW r \in Expected
  PROVE  /\ r.body \in SUBSET Items /\ r.head \in SUBSET Items /\ r.body # {} /\ r.head # {}
         /\ r = Counted(r.body, r.head)
         /\ Size(r.body) \in job.minBody .. job.maxBody
         /\ Size(r.head) \in job.minHead .. job.maxHead
         /\ r.gids = Size(WithRule(r.body, r.head)) /\ r.gids > 0 /\ Enough(r.gids)
<1>1. PICK B \in (SUBSET Items) \ {{}}, H \in (SUBSET Items) \ {{}} : r = Counted(B, H)
  BY DEF Expected
<1>2. r.body = B /\ r.head = H /\ r.gids = Size(WithRule(B, H))
  BY <1>1 DEF Counted, SupportOf, WithRule
<1>3. /\ Size(r.body) \in job.minBody .. job.maxBody
      /\ Size(r.head) \in job.minHead .. job.maxHead
      /\ r.gids > 0 /\ Enough(r.gids)
  BY DEF Expected
<1>4. QED  BY <1>1, <1>2, <1>3

LEMMA CountedRule ==
  ASSUME NEW B \in (SUBSET Items) \ {{}}, NEW H \in (SUBSET Items) \ {{}}
  PROVE  /\ Counted(B, H) = [body |-> B, head |-> H, gids |-> Size(WithRule(B, H)),
                             support |-> Size(WithBody(B))]
         /\ Counted(B, H) \in Expected <=>
              /\ Size(B) \in job.minBody .. job.maxBody /\ Size(H) \in job.minHead .. job.maxHead
              /\ Size(WithRule(B, H)) > 0 /\ Enough(Size(WithRule(B, H)))
<1>1. Counted(B, H) = [body |-> B, head |-> H, gids |-> Size(WithRule(B, H)),
                       support |-> Size(WithBody(B))]
  BY DEF Counted, SupportOf, WithRule, WithBody
<1>2. QED  BY <1>1 DEF Expected

LEMMA RuleGrouped ==
  ASSUME JobInv, Queried, NEW B, B # {}, NEW H
  PROVE  GroupsOf(B, H) \in SUBSET Grouped /\ (H # {} => WithRule(B, H) \in SUBSET Grouped)
BY BodyGrouped, RuleHasBody DEF GroupsOf

(* The groups of a rule are groups of each smaller one.                    *)
LEMMA ReachesPart ==
  ASSUME JobInv, Queried, NEW r \in Expected,
         NEW B \in SUBSET r.body, B # {}, NEW H \in SUBSET r.head, NEW S, S = GroupsOf(B, H)
  PROVE  /\ S \in SUBSET Grouped /\ S # {} /\ IsFiniteSet(S)
         /\ algorithm = "Care" => MoreThan(Size(S))
         /\ algorithm # "Care" => Reaches(Size(S))
<1> DEFINE all == WithRule(r.body, r.head)
<1>1. /\ r.body # {} /\ r.head # {} /\ r.gids = Size(all) /\ Size(all) > 0 /\ Enough(Size(all))
  BY ExpectedRule
<1>2. S \in SUBSET Grouped /\ all \in SUBSET Grouped
  BY <1>1, RuleGrouped
<1>3. all \subseteq S
  <2>1. WithRule(r.body, r.head) \subseteq WithBody(r.body)
    BY <1>1, RuleHasBody
  <2>2. WithBody(r.body) \subseteq WithBody(B)
    BY DEF WithBody, HasBody
  <2>3. WithRule(r.body, r.head) \subseteq WithRule(B, H)
    BY DEF WithRule, HasRule
  <2>4. QED  BY <2>1, <2>2, <2>3 DEF GroupsOf
<1> HIDE DEF all
<1>4. all # {} /\ IsFiniteSet(S)
  BY <1>1, <1>2, NumbersSize
<1>5. (Reaches(Size(all)) => Reaches(Size(S))) /\ (MoreThan(Size(all)) => MoreThan(Size(S)))
  BY <1>2, <1>3, FewerGroups
<1>6. QED  BY <1>1, <1>2, <1>3, <1>4, <1>5 DEF Enough

(* The sets of gids that a call narrows down.                              *)
LEMMA NarrowBody ==
  ASSUME JobInv, Queried, NEW B, B # {}, NEW j
  PROVE  /\ Numbers(WithBody(B)) \cap Numbers(WithBody({j})) = Numbers(WithBody(B \cup {j}))
         /\ Size(Numbers(WithBody(B))) = Size(WithBody(B))
<1>1. WithBody(B) \in SUBSET Grouped /\ WithBody({j}) \in SUBSET Grouped
  BY BodyGrouped
<1>2. WithBody(B) \cap WithBody({j}) = WithBody(B \cup {j})
  BY DEF WithBody, HasBody
<1>3. Numbers(WithBody(B)) \cap Numbers(WithBody({j})) = Numbers(WithBody(B) \cap WithBody({j}))
  BY <1>1, NumbersCap
<1>4. Size(Numbers(WithBody(B))) = Size(WithBody(B))
  BY <1>1, NumbersSize
<1>5. QED  BY <1>2, <1>3, <1>4

(* gids leave of the groups of the body those in which h is a head of it.  *)
Narrows(gids, B, h) == Numbers(WithBody(B)) \cap gids = Numbers(WithRule(B, {h}))
GidsRight(gids, B, H) == gids = Numbers(GroupsOf(B, H))

LEMMA NarrowHead ==
  ASSUME JobInv, Queried, NEW B, B # {}, NEW H, NEW h, NEW old, GidsRight(old, B, H),
         NEW gids, Narrows(gids, B, h)
  PROVE  GidsRight(old \cap gids, B, H \cup {h})
<1>1. /\ WithBody(B) \in SUBSET Grouped /\ GroupsOf(B, H) \in SUBSET Grouped
      /\ WithRule(B, {h}) \in SUBSET Grouped
  BY BodyGrouped, RuleGrouped
<1>2. GroupsOf(B, H) \subseteq WithBody(B)
  BY RuleHasBody DEF GroupsOf
<1>3. Numbers(GroupsOf(B, H)) \subseteq Numbers(WithBody(B))
  BY <1>2 DEF Numbers
<1>4. Numbers(GroupsOf(B, H)) \cap gids = Numbers(GroupsOf(B, H)) \cap Numbers(WithRule(B, {h}))
  BY <1>3 DEF Narrows
<1>5. Numbers(GroupsOf(B, H)) \cap Numbers(WithRule(B, {h}))
        = Numbers(GroupsOf(B, H) \cap WithRule(B, {h}))
  BY <1>1, NumbersCap
<1>6. GroupsOf(B, H) \cap WithRule(B, {h}) = GroupsOf(B, H \cup {h})
  BY LongerHead
<1>7. QED  BY <1>4, <1>5, <1>6 DEF GidsRight

-----------------------------------------------------------------------------
(* The tables of the heads, once the groups are read.                      *)

HeadGroups(h) == WithHead(h) \cap Grouped

PairsRight ==
  \A i \in Items :
    /\ pairs[i] # Nowhere => bodyMap[i] = Numbers(WithBody({i}))
    /\ \A h \in Items : pairs[i][h] = IF Reaches(Size(WithRule({i}, {h})))
                                        THEN Numbers(WithRule({i}, {h})) ELSE {}
MapsRight ==
  \A i \in Items :
    bodyMap[i] = Numbers(WithBody({i})) /\ headMap[i] = Numbers(HeadGroups(i))

(* The table of a body has the gids of each frequent head of it.           *)
TableRight(B, table) ==
  \A h \in Items : ~(algorithm = "NoCross" /\ job.same /\ h \in B) =>
    /\ table[h] # {} => Numbers(WithBody(B)) \cap table[h] = Numbers(WithRule(B, {h}))
    /\ Reaches(Size(WithRule(B, {h}))) /\ WithRule(B, {h}) # {} => table[h] # {}

(* The frequent heads of one item.                                         *)
FrequentHeads(i, table) ==
  \A h \in Items : table[h] = IF Reaches(Size(WithRule({i}, {h})))
                                THEN Numbers(WithRule({i}, {h})) ELSE {}

LEMMA FrequentTable ==
  ASSUME JobInv, Queried, NEW i \in Items, NEW table, FrequentHeads(i, table)
  PROVE  TableRight({i}, table)
<1>1. ASSUME NEW h \in Items
      PROVE  /\ table[h] # {} =>
                  Numbers(WithBody({i})) \cap table[h] = Numbers(WithRule({i}, {h}))
             /\ Reaches(Size(WithRule({i}, {h}))) /\ WithRule({i}, {h}) # {} => table[h] # {}
  <2> DEFINE S == WithRule({i}, {h})
  <2>1. S \in SUBSET Grouped /\ S \subseteq WithBody({i})
    BY RuleGrouped, RuleHasBody
  <2>2. Numbers(S) \subseteq Numbers(WithBody({i}))
    BY <2>1 DEF Numbers
  <2>3. table[h] = IF Reaches(Size(S)) THEN Numbers(S) ELSE {}
    BY DEF FrequentHeads
  <2> HIDE DEF S
  <2>4. S # {} => Numbers(S) # {}
    BY DEF Numbers
  <2>5. /\ table[h] # {} => Numbers(WithBody({i})) \cap table[h] = Numbers(S)
        /\ Reaches(Size(S)) /\ S # {} => table[h] # {}
    BY <2>2, <2>3, <2>4
  <2>6. QED  BY <2>5 DEF S
<1>2. QED  BY <1>1 DEF TableRight

LEMMA PairTable ==
  ASSUME JobInv, Queried, PairsRight, NEW i \in Items
  PROVE  TableRight({i}, pairs[i])
BY FrequentTable DEF PairsRight, FrequentHeads

LEMMA LongerTableRight ==
  ASSUME JobInv, Queried, PairsRight, algorithm \in {"NoCross", "AndCross"},
         NEW B, B # {}, NEW j \in Items, NEW table, TableRight(B, table)
  PROVE  TableRight(B \cup {j}, LongerTable(table, j))
<1> DEFINE body == B \cup {j}
           longer == LongerTable(table, j)
<1>1. TableRight({j}, pairs[j])
  BY PairTable
<1>2. Numbers(WithBody(body)) = Numbers(WithBody(B)) \cap Numbers(WithBody({j}))
  BY NarrowBody
<1>3. ASSUME NEW h \in Items, ~(algorithm = "NoCross" /\ job.same /\ h \in body)
      PROVE  /\ longer[h] # {} => Numbers(WithBody(body)) \cap longer[h] = Numbers(WithRule(body, {h}))
             /\ Reaches(Size(WithRule(body, {h}))) /\ WithRule(body, {h}) # {} => longer[h] # {}
  <2> DEFINE S == WithRule(B, {h})
             T == WithRule({j}, {h})
  <2>1. WithRule(body, {h}) = S \cap T
    BY DEF WithRule, HasRule
  <2>2. S \in SUBSET Grouped /\ T \in SUBSET Grouped
    BY RuleGrouped
  <2>3. /\ ~(algorithm = "NoCross" /\ job.same /\ h \in {j})
        /\ ~(algorithm = "NoCross" /\ job.same /\ h \in B)
    BY <1>3
  <2>4. /\ pairs[j][h] # {} => Numbers(WithBody({j})) \cap pairs[j][h] = Numbers(T)
        /\ Reaches(Size(T)) /\ T # {} => pairs[j][h] # {}
    BY <1>1, <2>3 DEF TableRight
  <2>5. /\ table[h] # {} => Numbers(WithBody(B)) \cap table[h] = Numbers(S)
        /\ Reaches(Size(S)) /\ S # {} => table[h] # {}
    BY <2>3 DEF TableRight
  <2>6. Numbers(S) \cap Numbers(T) = Numbers(S \cap T)
    BY <2>2, NumbersCap
  <2>7. Reaches(Size(S \cap T)) /\ S \cap T # {} =>
          /\ Reaches(Size(S)) /\ S # {} /\ Reaches(Size(T)) /\ T # {} /\ Numbers(S \cap T) # {}
    <3>1. S \cap T \in SUBSET S /\ S \cap T \in SUBSET T
      OBVIOUS
    <3>2. S \cap T # {} => Numbers(S \cap T) # {}
      BY DEF Numbers
    <3> HIDE DEF S, T
    <3>3. QED  BY <2>2, <3>1, <3>2, FewerGroups
  <2>8. CASE algorithm = "AndCross"
    <3>1. longer[h] = table[h] \cap pairs[j][h]
      BY <2>8 DEF LongerTable
    <3> HIDE DEF S, T, longer, body
    <3>2. ASSUME table[h] # {}, pairs[j][h] # {}
          PROVE  Numbers(WithBody(body)) \cap longer[h] = Numbers(S \cap T)
      BY <1>2, <2>4, <2>5, <2>6, <3>1, <3>2
    <3>3. longer[h] # {} => table[h] # {} /\ pairs[j][h] # {}
      BY <3>1
    <3>4. ASSUME Reaches(Size(S \cap T)), S \cap T # {}  PROVE longer[h] # {}
      <4>1. table[h] # {} /\ pairs[j][h] # {} /\ Numbers(S \cap T) # {}
        BY <2>4, <2>5, <2>7, <3>4
      <4>2. QED  BY <3>2, <4>1
    <3>5. QED  BY <2>1, <3>2, <3>3, <3>4 DEF body
  <2>9. CASE algorithm = "NoCross"
    <3>1. longer[h] = pairs[j][h]
      BY <2>9 DEF LongerTable
    <3>2. S = WithBody(B) \cap WithHead(h) /\ T = WithBody({j}) \cap WithHead(h)
      BY <2>3, <2>9, HeadByItself
    <3>3. WithBody(B) \in SUBSET Grouped /\ WithBody({j}) \in SUBSET Grouped
      BY BodyGrouped
    <3>4. WithBody(B) \cap T = S \cap T
      BY <3>2
    <3>5. Numbers(WithBody(B)) \cap Numbers(T) = Numbers(S \cap T)
      <4> HIDE DEF S, T
      <4>1. QED  BY <2>2, <3>3, <3>4, NumbersCap
    <3> HIDE DEF S, T, longer, body
    <3>6. longer[h] # {} => Numbers(WithBody(body)) \cap longer[h] = Numbers(S \cap T)
      BY <1>2, <2>4, <3>1, <3>5
    <3>7. QED  BY <2>1, <2>4, <2>7, <3>1, <3>6 DEF body
  <2>10. QED  BY <2>8, <2>9
<1>4. QED  BY <1>3 DEF TableRight

-----------------------------------------------------------------------------
(* The calls still to be made, and the rules found so far.                 *)

(* A call has the groups of the body, or of the body and the head, that it *)
(* extends, by items it has not got.                                       *)
HeadRight(c) ==
  /\ c.body \in (SUBSET Items) \ {{}} /\ c.head \in SUBSET Items
  /\ c.gids = Numbers(GroupsOf(c.body, c.head)) /\ c.support = Size(WithBody(c.body))
TablesRight(c) ==
  /\ algorithm \in {"NoCross", "AndCross"} /\ job.rows # <<>> /\ TableRight(c.body, c.table)

BodyRight(c) ==
  /\ c.body \in (SUBSET Items) \ {{}} /\ TablesRight(c)
  /\ c.gids = Numbers(WithBody(c.body))
  /\ c.last \in Items /\ \A j \in c.body : j <= c.last
AddHeadRight(c) ==
  HeadRight(c) /\ TablesRight(c) /\ c.from \in Nat /\ \A h \in c.head : h < c.from
BuildRulesRight(c) ==
  /\ algorithm = "Care" /\ c.body \in SUBSET Items
  /\ c.body # {} => c.gids = Numbers(WithBody(c.body))
  /\ Distinct(c.vb) /\ Distinct(c.vh) /\ c.body \cap After(c.vb, c.at) = {}
  /\ c.max \in Nat \ {0} /\ Size(c.body) + c.max = job.maxBody
  /\ \A r \in Owes(c) : r.head \subseteq Members(c.vh)
BuildHeadRight(c) ==
  /\ algorithm = "Care" /\ HeadRight(c)
  /\ Distinct(c.v) /\ c.head \cap After(c.v, c.at) = {}
  /\ c.max \in Nat \ {0} /\ Size(c.head) + c.max = job.maxHead

Right(c) ==
  /\ c.call = "body" => BodyRight(c)
  /\ c.call = "addHead" => AddHeadRight(c)
  /\ c.call = "buildRules" => BuildRulesRight(c)
  /\ c.call = "buildHead" => BuildHeadRight(c)
AllRight(q) == \A k \in 1 .. Len(q) : Right(q[k])

TablesKept ==
  /\ algorithm \in {"NoCross", "AndCross"} => PairsRight
  /\ algorithm = "Care" => MapsRight
SearchInv ==
  /\ phase = "mine" /\ algorithm # "Itemsets" =>
       TablesKept /\ AllRight(work) /\ Accounts(work, rules)
  /\ Exact

LEMMA SameRules ==
  ASSUME job' = job, algorithm' = algorithm, bodies' = bodies
  PROVE  /\ Expected' = Expected
         /\ \A c : Owes(c)' = Owes(c)
         /\ \A w, found : Accounts(w, found)' = Accounts(w, found)
         /\ \A c : Right(c)' = Right(c)
         /\ pairs' = pairs /\ bodyMap' = bodyMap /\ headMap' = headMap => TablesKept' = TablesKept
<1>1. /\ \A S : Numbers(S)' = Numbers(S)
      /\ \A g, B : HasBody(g, B)' = HasBody(g, B)
      /\ \A g, B, H : HasRule(g, B, H)' = HasRule(g, B, H)
      /\ \A g, side : RowsOf(g, side)' = RowsOf(g, side)
  BY SameSearch DEF RowsOf
<1>2. /\ \A B : WithBody(B)' = WithBody(B)
      /\ \A B, H : WithRule(B, H)' = WithRule(B, H)
      /\ \A h : HeadGroups(h)' = HeadGroups(h)
  BY <1>1 DEF WithBody, WithRule, WithHead, HeadGroups, Grouped
<1>3. \A B, H : GroupsOf(B, H)' = GroupsOf(B, H)
  BY <1>2 DEF GroupsOf
<1>4. \A n : Reaches(n)' = Reaches(n) /\ MoreThan(n)' = MoreThan(n) /\ Enough(n)' = Enough(n)
  BY DEF Reaches, MoreThan, Enough, Threshold
<1>5. \A B, H : Counted(B, H)' = Counted(B, H)
  BY <1>1 DEF Counted, SupportOf
<1>6. Expected' = Expected
  BY <1>4, <1>5 DEF Expected
<1>7. \A c : Owes(c)' = Owes(c)
  BY <1>6 DEF Owes, Finds, Later
<1>8. \A q : OwedBy(q)' = OwedBy(q) /\ Separate(q)' = Separate(q)
  BY <1>7 DEF OwedBy, Separate
<1>9. \A w, found : Accounts(w, found)' = Accounts(w, found)
  BY <1>6, <1>8 DEF Accounts
<1>10. \A B, table : TableRight(B, table)' = TableRight(B, table)
  BY <1>1, <1>2, <1>4 DEF TableRight
<1>11. \A c : HeadRight(c)' = HeadRight(c) /\ TablesRight(c)' = TablesRight(c)
  BY <1>1, <1>2, <1>3, <1>10 DEF HeadRight, TablesRight
<1>12. \A c : BodyRight(c)' = BodyRight(c) /\ AddHeadRight(c)' = AddHeadRight(c)
  BY <1>1, <1>2, <1>11 DEF BodyRight, AddHeadRight
<1>13. \A c : BuildRulesRight(c)' = BuildRulesRight(c) /\ BuildHeadRight(c)' = BuildHeadRight(c)
  BY <1>1, <1>2, <1>7, <1>11 DEF BuildRulesRight, BuildHeadRight
<1>14. \A c : Right(c)' = Right(c)
  BY <1>12, <1>13 DEF Right
<1>15. ASSUME pairs' = pairs, bodyMap' = bodyMap, headMap' = headMap
       PROVE  TablesKept' = TablesKept
  <2>1. PairsRight' = PairsRight /\ MapsRight' = MapsRight
    BY <1>1, <1>2, <1>4, <1>15 DEF PairsRight, MapsRight
  <2>2. QED  BY <2>1 DEF TablesKept
<1>16. QED  BY <1>6, <1>7, <1>9, <1>14, <1>15

(* CARE leaves out heads that are items of the body.                       *)
LEMMA HeadsApart ==
  ASSUME JobInv, Queried, CareDisjoint, algorithm = "Care",
         NEW r \in Expected, NEW i \in r.body, NEW h \in r.head
  PROVE  i # h
<1>1. r.gids = Size(WithRule(r.body, r.head)) /\ r.gids > 0 /\ r.body # {} /\ r.head # {}
  BY ExpectedRule
<1>2. WithRule(r.body, r.head) \in SUBSET Grouped
  BY <1>1, RuleGrouped
<1>3. WithRule(r.body, r.head) # {}
  BY <1>1, <1>2, NumbersSize
<1>4. PICK g : g \in WithRule(r.body, r.head)
  BY <1>3
<1>5. i \in RowsOf(g, "body") /\ h \in RowsOf(g, "head") /\ ~(job.same /\ i = h)
  BY <1>4 DEF WithRule, HasRule
<1>6. PICK k \in DOMAIN job.rows : job.rows[k].item = i /\ job.rows[k].body
  BY <1>5, RowOf
<1>7. PICK l \in DOMAIN job.rows : job.rows[l].item = h /\ job.rows[l].head
  BY <1>5, RowOf
<1>8. Chosen(job) = "Care" /\ job \in Jobs
  BY DEF Queried, JobInv
<1>9. QED  BY <1>5, <1>6, <1>7, <1>8 DEF CareDisjoint

(* What a call inserts: the rules of the calls found that are in bounds.   *)
RulesOf(new, found, n) ==
  /\ IsList(new)
  /\ \A r : r \in Members(new) <=> \E k \in 1 .. n : Inserted(found[k]) /\ r = AsRule(found[k])
  /\ (\A k, l \in 1 .. n : AsRule(found[k]) = AsRule(found[l]) => k = l) => Distinct(new)

LEMMA CallInserted ==
  ASSUME NEW name, NEW calls, NEW found, Calling(name, calls, found),
         NEW n \in Nat, DOMAIN found = 1 .. n
  PROVE  work' = calls /\ \E new : rules' = rules \o new /\ RulesOf(new, found, n)
<1> DEFINE kept == {k \in DOMAIN found : Inserted(found[k])}
           all == [k \in DOMAIN found |-> AsRule(found[k])]
           new == Selected(all, kept)
<1>1. work' = calls /\ rules' = rules \o new
  BY DEF Calling, Mapped
<1>2. \A k \in 1 .. n : all[k] = AsRule(found[k]) /\ (k \in kept <=> Inserted(found[k]))
  OBVIOUS
<1>3. kept \subseteq 1 .. n
  OBVIOUS
<1> HIDE DEF kept, all
<1>4. kept \in SUBSET Nat /\ IsFiniteSet(kept)
  <2>1. 1 \in Int /\ n \in Int
    OBVIOUS
  <2>2. IsFiniteSet(1 .. n)
    BY <2>1, FS_Interval
  <2>3. IsFiniteSet(kept)
    BY <1>3, <2>2, FS_Subset
  <2>4. QED  BY <1>3, <2>3
<1>5. /\ IsList(new) /\ Members(new) = {all[i] : i \in kept}
      /\ (\A i, j \in kept : all[i] = all[j] => i = j) => Distinct(new)
  BY <1>4, SelectedMembers
<1> HIDE DEF new
<1>6. \A r : r \in Members(new) <=> \E k \in 1 .. n : Inserted(found[k]) /\ r = AsRule(found[k])
  BY <1>2, <1>3, <1>5
<1>7. (\A k, l \in 1 .. n : AsRule(found[k]) = AsRule(found[l]) => k = l) => Distinct(new)
  BY <1>2, <1>3, <1>5
<1>8. RulesOf(new, found, n)
  BY <1>5, <1>6, <1>7 DEF RulesOf
<1>9. QED  BY <1>1, <1>8

LEMMA CallInsertsNone ==
  ASSUME NEW name, NEW calls, Calling(name, calls, <<>>)
  PROVE  \E new : /\ work' = calls /\ rules' = rules \o new
                  /\ IsList(new) /\ Members(new) = {} /\ Distinct(new)
<1> DEFINE none == <<>>
<1>1. DOMAIN none = 1 .. 0 /\ 0 \in Nat /\ Calling(name, calls, none)
  OBVIOUS
<1> HIDE DEF none
<1>2. PICK new : work' = calls /\ rules' = rules \o new /\ RulesOf(new, none, 0)
  BY <1>1, CallInserted
<1>3. \A k \in 1 .. 0 : FALSE
  OBVIOUS
<1>4. IsList(new) /\ Members(new) = {} /\ Distinct(new)
  BY <1>2, <1>3 DEF RulesOf
<1>5. QED  BY <1>2, <1>4

(* A call for a longer head: the rule it stands for is one of the minerule *)
(* if it is in bounds.                                                     *)
FoundHead(d, c, h) ==
  /\ h \in Items /\ h \notin c.head /\ d.body = c.body /\ d.head = c.head \cup {h}
  /\ d.gids = Numbers(WithRule(c.body, d.head)) /\ d.support = c.support
  /\ Size(d.gids) > 0 /\ Enough(Size(d.gids))

LEMMA FoundRule ==
  ASSUME JobInv, Queried, NEW c, HeadRight(c), NEW h, NEW d, FoundHead(d, c, h)
  PROVE  /\ AsRule(d) = Counted(c.body, c.head \cup {h})
         /\ AsRule(d).body = c.body /\ AsRule(d).head = c.head \cup {h}
         /\ Inserted(d) <=> AsRule(d) \in Expected
<1> DEFINE B == c.body
           H == c.head \cup {h}
<1>1. /\ B \in (SUBSET Items) \ {{}} /\ H \in (SUBSET Items) \ {{}} /\ c.support = Size(WithBody(B))
      /\ d.body = B /\ d.head = H /\ d.gids = Numbers(WithRule(B, H)) /\ d.support = c.support
      /\ Size(d.gids) > 0 /\ Enough(Size(d.gids))
  BY DEF HeadRight, FoundHead
<1>2. AsRule(d) = [body |-> B, head |-> H, gids |-> Size(d.gids), support |-> Size(WithBody(B))]
  BY <1>1 DEF AsRule
<1>3. Inserted(d) <=> /\ Size(B) \in job.minBody .. job.maxBody
                      /\ Size(H) \in job.minHead .. job.maxHead
  BY <1>1 DEF Inserted
<1> HIDE DEF B, H
<1>4. Size(d.gids) = Size(WithRule(B, H))
  <2>1. WithRule(B, H) \in SUBSET Grouped
    BY <1>1, RuleGrouped
  <2>2. QED  BY <1>1, <2>1, NumbersSize
<1>5. /\ Counted(B, H) = [body |-> B, head |-> H, gids |-> Size(WithRule(B, H)),
                          support |-> Size(WithBody(B))]
      /\ Counted(B, H) \in Expected <=>
           /\ Size(B) \in job.minBody .. job.maxBody /\ Size(H) \in job.minHead .. job.maxHead
           /\ Size(WithRule(B, H)) > 0 /\ Enough(Size(WithRule(B, H)))
  BY <1>1, CountedRule
<1>6. AsRule(d) = Counted(B, H)
  BY <1>2, <1>4, <1>5
<1>7. AsRule(d).body = B /\ AsRule(d).head = H
  BY <1>2
<1>8. Inserted(d) <=> AsRule(d) \in Expected
  BY <1>1, <1>3, <1>4, <1>5, <1>6
<1>9. QED  BY <1>6, <1>7, <1>8 DEF B, H

(* addHead and buildHead: the first call is done when it has inserted the  *)
(* rules of the heads it found and made the calls for the longer ones.     *)
LEMMA HeadsDone ==
  ASSUME JobInv, Queried, Accounts(work, rules), work # <<>>,
         NEW c, c = Head(work), HeadRight(c),
         NEW w, NEW lat, NEW found, LongerHeads(c, w, lat, found), IsList(found),
         \A k \in 1 .. Len(w) : FoundHead(found[k], c, w[k]),
         NEW deeper, deeper = found \/ (deeper = <<>> /\ OwedBy(found) = {}),
         Calling(c.call, deeper \o Tail(work), found)
  PROVE  Accounts(work', rules')
<1>0. IsList(w) /\ Distinct(w) /\ Len(found) = Len(w)
  BY DEF LongerHeads
<1>1. Len(w) \in Nat /\ DOMAIN found = 1 .. Len(w)
  BY <1>0, ListDomain
<1>2. PICK new : /\ work' = deeper \o Tail(work) /\ rules' = rules \o new
                 /\ RulesOf(new, found, Len(w))
  BY <1>1, CallInserted
<1>3. ASSUME NEW k \in 1 .. Len(w)
      PROVE  /\ AsRule(found[k]) = Counted(c.body, c.head \cup {w[k]})
             /\ AsRule(found[k]).body = c.body /\ AsRule(found[k]).head = c.head \cup {w[k]}
             /\ Inserted(found[k]) <=> AsRule(found[k]) \in Expected
             /\ w[k] \notin c.head
  <2> DEFINE d == found[k]
             h == w[k]
  <2>1. FoundHead(d, c, h)
    OBVIOUS
  <2>2. h \notin c.head
    BY <2>1 DEF FoundHead
  <2> HIDE DEF d, h
  <2>3. /\ AsRule(d) = Counted(c.body, c.head \cup {h})
        /\ AsRule(d).body = c.body /\ AsRule(d).head = c.head \cup {h}
        /\ Inserted(d) <=> AsRule(d) \in Expected
    BY <2>1, FoundRule
  <2>4. QED  BY <2>2, <2>3 DEF d, h
<1>4. Distinct(new)
  <2>1. ASSUME NEW k \in 1 .. Len(w), NEW l \in 1 .. Len(w), AsRule(found[k]) = AsRule(found[l])
        PROVE  k = l
    <3>1. c.head \cup {w[k]} = c.head \cup {w[l]} /\ w[k] \notin c.head
      BY <1>3, <2>1
    <3>2. w[k] = w[l]
      BY <3>1
    <3>3. QED  BY <1>0, <3>2 DEF Distinct
  <2>2. QED  BY <1>2, <2>1 DEF RulesOf
<1> DEFINE own == ByItem(c, w)
<1>5. Members(new) = own
  <2>1. ASSUME NEW r \in Members(new)  PROVE r \in own
    <3>1. PICK k \in 1 .. Len(w) : Inserted(found[k]) /\ r = AsRule(found[k])
      BY <1>2 DEF RulesOf
    <3>2. QED  BY <1>3, <3>1 DEF ByItem
  <2>2. ASSUME NEW r \in own  PROVE r \in Members(new)
    <3>1. PICK k \in 1 .. Len(w) : r.head = c.head \cup {w[k]}
      BY DEF ByItem
    <3>2. r = Counted(r.body, r.head) /\ r.body = c.body /\ r \in Expected
      BY ExpectedRule DEF ByItem
    <3>3. r = AsRule(found[k])
      BY <1>3, <3>1, <3>2
    <3>4. Inserted(found[k])
      BY <1>3, <3>2, <3>3
    <3>5. QED  BY <1>2, <3>3, <3>4 DEF RulesOf
  <2>3. QED  BY <2>1, <2>2
<1>7. Separate(found) /\ own \cap OwedBy(found) = {} /\ own \cup OwedBy(found) = Owes(c)
  BY HeadsBranch
<1> HIDE DEF own
<1>8. /\ IsList(deeper) /\ Separate(deeper) /\ OwedBy(deeper) = OwedBy(found)
  BY <1>7, OwedNone
<1> DEFINE none == <<>>
<1>9. IsList(none) /\ Separate(none) /\ OwedBy(none) = {}
  BY OwedNone
<1>10. (deeper \o Tail(work)) \o none = deeper \o Tail(work)
  <2>1. IsList(Tail(work))
    BY ListTail DEF Accounts
  <2>2. IsList(deeper \o Tail(work))
    BY <1>8, <2>1, ListConcat
  <2>3. QED  BY <2>2, ConcatEmptySeq DEF IsList
<1> HIDE DEF none
<1>11. Accounts((deeper \o Tail(work)) \o none, rules \o new)
  BY <1>2, <1>4, <1>5, <1>7, <1>8, <1>9, CallDone DEF RulesOf
<1>12. QED  BY <1>2, <1>10, <1>11

LEMMA RightRest ==
  ASSUME NEW q, IsList(q), q # <<>>, AllRight(q)
  PROVE  Right(Head(q)) /\ IsList(Tail(q)) /\ AllRight(Tail(q))
BY ListTail DEF AllRight, From

LEMMA RightConcat ==
  ASSUME NEW p, NEW q, IsList(p), IsList(q), AllRight(p), AllRight(q)
  PROVE  AllRight(p \o q)
<1>1. From(p \o q, p, q)
  BY ListConcat
<1>2. QED  BY <1>1 DEF AllRight, From

Mining ==
  /\ JobInv /\ Queried /\ WorkInv /\ TablesKept /\ AllRight(work) /\ Accounts(work, rules)

LEMMA AddHeadSearch ==
  ASSUME Mining, AddHead
  PROVE  AllRight(work') /\ Accounts(work', rules')
<1> DEFINE c == Head(work)
           next == {j \in FromHead(c) :
                      /\ Size(c.head) < job.maxHead /\ c.table[j] # {}
                      /\ ~(algorithm = "NoCross" /\ job.same /\ j \in c.body)
                      /\ Reaches(Size(c.gids \cap c.table[j]))}
           Longer(j) == [c EXCEPT !.head = @ \cup {j}, !.gids = @ \cap c.table[j], !.from = j + 1]
           w == InOrder(next)
           calls == Mapped(w, Longer)
           lat == [k \in 1 .. Size(next) |-> {j \in Items : j > w[k]}]
<1>1. Calling("addHead", calls \o Tail(work), calls)
  BY DEF AddHead
<1>2. work # <<>> /\ c.call = "addHead" /\ IsList(work) /\ JobInv /\ Queried
  BY <1>1 DEF Calling, Mining, Accounts
<1>3. Right(c) /\ IsList(Tail(work)) /\ AllRight(Tail(work))
  BY <1>2, RightRest DEF Mining
<1>4. HeadRight(c) /\ TablesRight(c) /\ c.from \in Nat /\ \A h \in c.head : h < c.from
  BY <1>2, <1>3 DEF Right, AddHeadRight
<1>5. /\ c.body \in (SUBSET Items) \ {{}} /\ c.head \in SUBSET Items
      /\ c.gids = Numbers(GroupsOf(c.body, c.head)) /\ c.support = Size(WithBody(c.body))
      /\ algorithm \in {"NoCross", "AndCross"} /\ job.rows # <<>> /\ TableRight(c.body, c.table)
  BY <1>4 DEF HeadRight, TablesRight
<1>6. next \in SUBSET Items /\ next \in SUBSET Nat /\ IsFiniteSet(next)
  <2>1. next \in SUBSET Items
    BY DEF FromHead
  <2> HIDE DEF next
  <2>2. QED  BY <2>1, SubsetFinite
<1>7. /\ \A j \in next : /\ j \in Items /\ j >= c.from /\ c.table[j] # {}
                         /\ ~(algorithm = "NoCross" /\ job.same /\ j \in c.body)
                         /\ Reaches(Size(c.gids \cap c.table[j]))
      /\ \A j \in Items : ( /\ j >= c.from /\ Size(c.head) < job.maxHead /\ c.table[j] # {}
                            /\ ~(algorithm = "NoCross" /\ job.same /\ j \in c.body)
                            /\ Reaches(Size(c.gids \cap c.table[j])) ) => j \in next
  BY DEF FromHead
<1> DEFINE n == Size(next)
<1> HIDE DEF next
<1>8. /\ n \in Nat /\ Len(w) = n /\ DOMAIN w = 1 .. n /\ Members(w) = next /\ Distinct(w)
      /\ IsList(w) /\ \A k \in 1 .. n : w[k] \in next
  <2>1. /\ n \in Nat /\ Len(w) = n /\ DOMAIN w = 1 .. n /\ Members(w) = next /\ Distinct(w)
    BY <1>6, InOrderMembers
  <2>2. w \in [1 .. n -> next]
    BY <1>6, InOrderProperties
  <2>3. IsList(w)
    BY <2>1, <2>2, ListOf
  <2>4. QED  BY <2>1, <2>2, <2>3
<1>9. Orders(w, lat)
  <2>1. \A k \in 1 .. n : \A i \in next : i \in lat[k] <=> i > w[k]
    BY <1>6
  <2> HIDE DEF lat
  <2>2. QED  BY <1>6, <2>1, NumberOrders
<1>10. calls = [k \in 1 .. n |-> Longer(w[k])]
  BY <1>8 DEF Mapped
<1>11. \A k \in 1 .. n : lat[k] = {j \in Items : j > w[k]}
  OBVIOUS
<1> HIDE DEF calls, lat, w, n
(* The gids of the longer heads.                                           *)
<1>12. ASSUME NEW j \in Items, ~(algorithm = "NoCross" /\ job.same /\ j \in c.body),
              c.table[j] # {}
       PROVE  c.gids \cap c.table[j] = Numbers(GroupsOf(c.body, c.head \cup {j}))
  <2>1. Numbers(WithBody(c.body)) \cap c.table[j] = Numbers(WithRule(c.body, {j}))
    BY <1>5, <1>12 DEF TableRight
  <2>2. Narrows(c.table[j], c.body, j) /\ GidsRight(c.gids, c.body, c.head) /\ c.body # {}
    BY <1>5, <2>1 DEF Narrows, GidsRight
  <2>3. GidsRight(c.gids \cap c.table[j], c.body, c.head \cup {j})
    BY <1>2, <2>2, NarrowHead
  <2>4. QED  BY <2>3 DEF GidsRight
<1>13. ASSUME NEW j \in next
       PROVE  /\ HeadCall(Longer(j), c, j, {i \in Items : i > j}) /\ FoundHead(Longer(j), c, j)
              /\ Right(Longer(j))
  <2> DEFINE d == Longer(j)
             H == c.head \cup {j}
  <2>1. /\ d.call = "addHead" /\ d.body = c.body /\ d.head = H
        /\ d.gids = c.gids \cap c.table[j] /\ d.from = j + 1 /\ d.support = c.support
        /\ d.table = c.table
    BY <1>2
  <2>2. /\ j \in Items /\ j \in Nat /\ j >= c.from /\ c.table[j] # {}
        /\ ~(algorithm = "NoCross" /\ job.same /\ j \in c.body)
        /\ Reaches(Size(c.gids \cap c.table[j]))
    BY <1>6, <1>7
  <2> HIDE DEF d
  <2>3. d.gids = Numbers(GroupsOf(c.body, H))
    BY <1>12, <2>1, <2>2
  <2>4. H # {} /\ H \in SUBSET Items /\ GroupsOf(c.body, H) = WithRule(c.body, H)
    BY <1>5, <2>2 DEF GroupsOf
  <2>5. \A i \in Items : i \in Nat
    BY SourceAssumption
  <2>6. j \notin c.head /\ \A h \in H : h < d.from
    <3>1. \A h \in c.head : h \in Nat /\ h < c.from
      BY <1>4, <1>5, <2>5
    <3> HIDE DEF c
    <3>2. QED  BY <1>4, <2>1, <2>2, <3>1
  <2>7. Later(d) = {i \in Items : i > j}
    <3>1. Later(d) = {i \in Items : i >= d.from}
      BY <2>1 DEF Later
    <3>2. \A i \in Items : i >= d.from <=> i > j
      BY <2>1, <2>2, <2>5
    <3>3. QED  BY <3>1, <3>2
  <2>8. Size(d.gids) > 0 /\ Reaches(Size(d.gids))
    <3> DEFINE S == WithRule(c.body, H)
    <3>1. S \in SUBSET Grouped
      BY <1>2, <1>5, <2>4, RuleGrouped
    <3>2. d.gids = Numbers(S) /\ Reaches(Size(d.gids))
      BY <2>1, <2>2, <2>3, <2>4
    <3> HIDE DEF S
    <3>3. Size(d.gids) = Size(S) /\ (Size(S) > 0 <=> S # {})
      BY <1>2, <3>1, <3>2, NumbersSize
    <3>4. S # {}
      BY <1>2, <1>5, <3>1, <3>2, <3>3, EnoughIsSome
    <3>5. QED  BY <3>2, <3>3, <3>4
  <2>9. Enough(Size(d.gids))
    BY <1>5, <2>8 DEF Enough
  <2> HIDE DEF H
  <2>10. HeadCall(d, c, j, {i \in Items : i > j})
    BY <1>2, <2>1, <2>7 DEF HeadCall, H
  <2>11. FoundHead(d, c, j)
    BY <2>1, <2>2, <2>3, <2>4, <2>6, <2>8, <2>9 DEF FoundHead, H
  <2>12. HeadRight(d) /\ TablesRight(d)
    BY <1>5, <2>1, <2>3, <2>4 DEF HeadRight, TablesRight
  <2>13. Right(d)
    <3>1. d.from \in Nat
      BY <2>1, <2>2
    <3>2. \A h \in d.head : h < d.from
      BY <2>1, <2>6
    <3>3. QED  BY <2>1, <2>12, <3>1, <3>2 DEF Right, AddHeadRight
  <2>14. QED  BY <2>10, <2>11, <2>13 DEF d
<1> HIDE DEF Longer
(* Every frequent head is found.                                           *)
<1>14. ASSUME NEW r \in Owes(c)  PROVE r.head \ c.head \subseteq next
  <2>1. /\ r \in Expected /\ r.body = c.body /\ c.head \subseteq r.head /\ r.head # c.head
        /\ r.head \ c.head \subseteq Later(c)
    BY <1>2, HeadOwes DEF Extends
  <2>2. Later(c) = {j \in Items : j >= c.from}
    BY <1>2 DEF Later
  <2>3. /\ r.head \in SUBSET Items /\ Size(r.head) \in job.minHead .. job.maxHead
        /\ r = Counted(r.body, r.head) /\ r.body # {}
        /\ r.gids = Size(WithRule(r.body, r.head)) /\ r.gids > 0
    BY <2>1, ExpectedRule
  <2>4. Size(c.head) < job.maxHead
    <3>1. IsFiniteSet(r.head)
      BY <2>3, SubsetFinite
    <3>2. /\ Size(c.head) \in Nat /\ Size(r.head) \in Nat /\ Size(c.head) <= Size(r.head)
          /\ Size(c.head) # Size(r.head)
      BY <2>1, <3>1, FS_Subset, FS_CardinalityType DEF Size
    <3>3. job.minHead \in Nat /\ job.maxHead \in Nat
      BY <1>2, JobsAssumption DEF JobInv, Job
    <3> HIDE DEF c
    <3>4. QED  BY <2>3, <3>2, <3>3
  <2>5. ASSUME NEW j \in r.head, j \notin c.head  PROVE j \in next
    <3>1. j \in Items /\ j >= c.from
      BY <2>1, <2>2, <2>5
    <3>2. /\ WithRule(c.body, {j}) # {} /\ Reaches(Size(WithRule(c.body, {j})))
      <4> DEFINE S == GroupsOf(c.body, {j})
      <4>1. {j} \in SUBSET r.head /\ c.body \in SUBSET r.body /\ c.body # {}
        BY <1>5, <2>1
      <4>2. S = GroupsOf(c.body, {j}) /\ S = WithRule(c.body, {j}) /\ algorithm # "Care"
        BY <1>5 DEF GroupsOf
      <4> HIDE DEF S
      <4>3. S # {} /\ Reaches(Size(S))
        BY <1>2, <2>1, <4>1, <4>2, ReachesPart
      <4>4. QED  BY <4>2, <4>3
    <3>3. ~(job.same /\ j \in c.body)
      <4>1. PICK g : g \in WithRule(r.body, r.head)
        <5>1. WithRule(r.body, r.head) \in SUBSET Grouped
          BY <1>2, <2>3, <2>5, RuleGrouped
        <5>2. QED  BY <1>2, <2>3, <5>1, NumbersSize
      <4>2. QED  BY <2>1, <4>1 DEF WithRule, HasRule
    <3>4. c.table[j] # {}
      BY <1>5, <3>1, <3>2, <3>3 DEF TableRight
    <3>5. Reaches(Size(c.gids \cap c.table[j]))
      <4> DEFINE H == c.head \cup {j}
                 S == GroupsOf(c.body, H)
      <4>1. H \in SUBSET r.head /\ c.body \in SUBSET r.body /\ c.body # {}
        BY <1>5, <2>1, <2>5
      <4>2. S \in SUBSET Grouped /\ Reaches(Size(S))
        <5>1. S = GroupsOf(c.body, H) /\ algorithm # "Care"
          BY <1>5
        <5> HIDE DEF S, H
        <5>2. QED  BY <1>2, <2>1, <4>1, <5>1, ReachesPart
      <4>3. c.gids \cap c.table[j] = Numbers(S)
        BY <1>12, <3>1, <3>3, <3>4
      <4> HIDE DEF S
      <4>4. Size(Numbers(S)) = Size(S)
        BY <1>2, <4>2, NumbersSize
      <4>5. QED  BY <4>2, <4>3, <4>4
    <3>6. QED  BY <1>7, <2>4, <3>1, <3>3, <3>4, <3>5
  <2>6. QED  BY <2>5
<1>15. LongerHeads(c, w, lat, calls)
  <2>1. Later(c) = {j \in Items : j >= c.from}
    BY <1>2 DEF Later
  <2>2. c.head \cap Members(w) = {}
    BY <1>8, <1>13 DEF FoundHead
  <2>3. Members(w) \subseteq Later(c)
    BY <1>7, <1>8, <2>1
  <2>4. \A k \in 1 .. Len(w) : lat[k] \subseteq Later(c)
    <3>1. ASSUME NEW k \in 1 .. n, NEW j \in Items, j > w[k]  PROVE j >= c.from
      <4>1. w[k] \in Nat /\ w[k] >= c.from /\ j \in Nat
        BY <1>6, <1>7, <1>8, SourceAssumption
      <4> HIDE DEF c
      <4>2. QED  BY <1>4, <3>1, <4>1
    <3>2. QED  BY <1>8, <1>11, <2>1, <3>1
  <2>5. Len(calls) = Len(w) /\ \A k \in 1 .. Len(w) : HeadCall(calls[k], c, w[k], lat[k])
    <3>1. Len(calls) = n
      BY <1>8, <1>10
    <3>2. \A k \in 1 .. n : HeadCall(calls[k], c, w[k], lat[k])
      BY <1>8, <1>10, <1>11, <1>13
    <3>3. QED  BY <1>8, <3>1, <3>2
  <2>6. QED  BY <1>2, <1>8, <1>9, <1>14, <2>2, <2>3, <2>4, <2>5 DEF LongerHeads
<1>16. IsList(calls)
  BY <1>8, <1>10, ListOf
<1>17. \A k \in 1 .. Len(w) : FoundHead(calls[k], c, w[k])
  BY <1>8, <1>10, <1>13
<1>18. Accounts(work', rules')
  BY <1>1, <1>2, <1>4, <1>15, <1>16, <1>17, HeadsDone DEF Mining
<1>19. AllRight(calls)
  BY <1>8, <1>10, <1>13, <1>15 DEF AllRight, LongerHeads
<1>20. AllRight(work')
  BY <1>1, <1>3, <1>16, <1>19, RightConcat DEF Calling
<1>21. QED  BY <1>18, <1>20

-----------------------------------------------------------------------------
(* CARE.                                                                   *)

(* The items of v after a position that satisfy a condition, in its order. *)
Picked(v, at, P) == Selected(v, {k \in at + 1 .. Len(v) : v[k] \in P})

LEMMA PickedMembers ==
  ASSUME NEW v \in Seq(Items), NEW at \in Nat, Distinct(v), NEW P, NEW kept, kept = Picked(v, at, P)
  PROVE  /\ kept \in Seq(Items) /\ IsList(kept) /\ Distinct(kept)
         /\ Members(kept) = After(v, at) \cap P
<1> DEFINE S == {k \in at + 1 .. Len(v) : v[k] \in P}
<1>1. Len(v) \in Nat /\ \A k \in 1 .. Len(v) : v[k] \in Items
  BY LenProperties, ElementOfSeq
<1>2. S \subseteq 1 .. Len(v)
  BY <1>1
<1>3. kept = Selected(v, S) /\ {v[i] : i \in S} = After(v, at) \cap P
  BY DEF After, Picked
<1> HIDE DEF S
<1>4. S \in SUBSET Nat /\ IsFiniteSet(S)
  <2>1. 1 \in Int /\ Len(v) \in Int
    BY <1>1
  <2>2. IsFiniteSet(1 .. Len(v))
    BY <2>1, FS_Interval
  <2>3. IsFiniteSet(S)
    BY <1>2, <2>2, FS_Subset
  <2>4. QED  BY <1>1, <1>2, <2>3
<1>5. /\ IsList(kept) /\ Members(kept) = {v[i] : i \in S}
      /\ (\A i, j \in S : v[i] = v[j] => i = j) => Distinct(kept)
  <2> DEFINE q == Selected(v, S)
  <2>1. /\ IsList(q) /\ Members(q) = {v[i] : i \in S}
        /\ (\A i, j \in S : v[i] = v[j] => i = j) => Distinct(q)
    BY <1>4, SelectedMembers
  <2>2. kept = q
    BY <1>3
  <2> HIDE DEF q
  <2>3. QED  BY <2>1, <2>2
<1>6. Distinct(kept)
  BY <1>2, <1>5 DEF Distinct
<1>7. kept \in Seq(Items)
  <2>1. \A k \in 1 .. Len(kept) : kept[k] \in Items
    BY <1>1, <1>2, <1>5 DEF Members
  <2>2. QED  BY <1>5, <2>1, ListInSet
<1>8. QED  BY <1>3, <1>5, <1>6, <1>7

LEMMA KeptMembers ==
  ASSUME NEW v \in Seq(Items), NEW at \in Nat, Distinct(v), NEW body, NEW gids
  PROVE  LET kept == KeptHeads(v, at, body, gids) IN
         /\ kept \in Seq(Items) /\ IsList(kept) /\ Distinct(kept)
         /\ \A h : h \in Members(kept) <=>
                     /\ h \in After(v, at) /\ h \notin body /\ MoreThan(Size(gids \cap headMap[h]))
<1> DEFINE P == {h \in Items : h \notin body /\ MoreThan(Size(gids \cap headMap[h]))}
           kept == KeptHeads(v, at, body, gids)
<1>1. Len(v) \in Nat /\ \A k \in 1 .. Len(v) : v[k] \in Items
  BY LenProperties, ElementOfSeq
<1>2. \A k \in at + 1 .. Len(v) :
        v[k] \notin body /\ MoreThan(Size(gids \cap headMap[v[k]])) <=> v[k] \in P
  <2>1. \A k \in at + 1 .. Len(v) : v[k] \in Items
    BY <1>1
  <2>2. \A i \in Items : i \notin body /\ MoreThan(Size(gids \cap headMap[i])) <=> i \in P
    OBVIOUS
  <2> HIDE DEF P
  <2>3. QED  BY <2>1, <2>2
<1>3. kept = Picked(v, at, P)
  <2> HIDE DEF P
  <2>1. {k \in at + 1 .. Len(v) : v[k] \notin body /\ MoreThan(Size(gids \cap headMap[v[k]]))}
          = {k \in at + 1 .. Len(v) : v[k] \in P}
    BY <1>2
  <2>2. QED  BY <2>1 DEF KeptHeads, Picked
<1>4. \A h \in After(v, at) : h \in Items
  BY <1>1 DEF After
<1>5. /\ kept \in Seq(Items) /\ IsList(kept) /\ Distinct(kept)
      /\ Members(kept) = After(v, at) \cap P
  <2> HIDE DEF P, kept
  <2>1. QED  BY <1>3, PickedMembers
<1> HIDE DEF kept
<1>6. \A h : h \in Members(kept) <=>
                /\ h \in After(v, at) /\ h \notin body /\ MoreThan(Size(gids \cap headMap[h]))
  BY <1>4, <1>5
<1>7. QED  BY <1>5, <1>6 DEF kept

(* The gids of a head leave of those of a body the ones of the rule.       *)
LEMMA MapNarrows ==
  ASSUME JobInv, Queried, MapsRight, algorithm = "Care",
         NEW B, B # {}, NEW h \in Items, h \notin B
  PROVE  Narrows(headMap[h], B, h)
<1>1. headMap[h] = Numbers(HeadGroups(h))
  BY DEF MapsRight
<1>2. WithBody(B) \in SUBSET Grouped /\ HeadGroups(h) \in SUBSET Grouped
  BY BodyGrouped DEF HeadGroups
<1>3. Numbers(WithBody(B)) \cap Numbers(HeadGroups(h)) = Numbers(WithBody(B) \cap HeadGroups(h))
  BY <1>2, NumbersCap
<1>4. WithRule(B, {h}) = WithBody(B) \cap WithHead(h)
  BY HeadByItself
<1>5. WithBody(B) \cap HeadGroups(h) = WithRule(B, {h})
  BY <1>2, <1>4 DEF HeadGroups
<1>6. QED  BY <1>1, <1>3, <1>5 DEF Narrows

(* buildHead keeps every head of a rule.                                   *)
LEMMA HeadKept ==
  ASSUME JobInv, Queried, CareDisjoint, MapsRight, algorithm = "Care",
         NEW r \in Expected, NEW B \in SUBSET r.body, B # {}, NEW H \in SUBSET r.head,
         NEW h \in r.head, NEW gids, GidsRight(gids, B, H)
  PROVE  h \notin B /\ MoreThan(Size(gids \cap headMap[h]))
<1> DEFINE J == H \cup {h}
           S == GroupsOf(B, J)
<1>1. h \notin B
  BY HeadsApart
<1>2. h \in Items
  BY ExpectedRule
<1>3. GidsRight(gids \cap headMap[h], B, J)
  BY <1>1, <1>2, MapNarrows, NarrowHead
<1>4. J \in SUBSET r.head
  OBVIOUS
<1>5. gids \cap headMap[h] = Numbers(S)
  BY <1>3 DEF GidsRight
<1>6. S = GroupsOf(B, J)
  OBVIOUS
<1> HIDE DEF J, S
<1>7. S \in SUBSET Grouped /\ MoreThan(Size(S))
  BY <1>4, <1>6, ReachesPart
<1>8. Size(Numbers(S)) = Size(S)
  BY <1>7, NumbersSize
<1>9. QED  BY <1>1, <1>5, <1>7, <1>8

(* A longer set than the bound allows is no body or head of a rule.        *)
LEMMA Longest ==
  ASSUME NEW S \in SUBSET Items, NEW base \in SUBSET S, base # S
  PROVE  /\ Size(base) \in Nat /\ Size(S) \in Nat /\ Size(base) < Size(S)
         /\ \A i : i \notin base => Size(base \cup {i}) = Size(base) + 1
<1>1. IsFiniteSet(S) /\ IsFiniteSet(base)
  BY SubsetFinite
<1>2. /\ Size(base) \in Nat /\ Size(S) \in Nat /\ Size(base) <= Size(S) /\ Size(base) # Size(S)
  BY <1>1, FS_Subset, FS_CardinalityType DEF Size
<1>3. \A i : i \notin base => Size(base \cup {i}) = Size(base) + 1
  BY <1>1, FS_AddElement DEF Size
<1>4. QED  BY <1>2, <1>3

LEMMA OneMore ==
  ASSUME NEW base \in SUBSET Items, NEW i, i \notin base
  PROVE  Size(base) \in Nat /\ Size(base \cup {i}) = Size(base) + 1
<1>1. IsFiniteSet(base)
  BY SubsetFinite
<1>2. QED  BY <1>1, FS_AddElement, FS_CardinalityType DEF Size

LEMMA BuildHeadSearch ==
  ASSUME Mining, CareDisjoint, BuildHead
  PROVE  AllRight(work') /\ Accounts(work', rules')
<1> DEFINE c == Head(work)
           v == KeptHeads(c.v, c.at, c.body, c.gids)
           Longer(h, k) == [c EXCEPT !.head = @ \cup {h}, !.gids = @ \cap headMap[h],
                                     !.v = v, !.max = @ - 1, !.at = k]
           found == [k \in DOMAIN v |-> Longer(v[k], k)]
           deeper == IF Deepens(c) THEN found ELSE <<>>
           lat == [k \in 1 .. Len(v) |-> After(v, k)]
<1>1. Calling("buildHead", deeper \o Tail(work), found)
  BY DEF BuildHead
<1>2. work # <<>> /\ c.call = "buildHead" /\ IsList(work) /\ JobInv /\ Queried
  BY <1>1 DEF Calling, Mining, Accounts
<1>3. Right(c) /\ IsList(Tail(work)) /\ AllRight(Tail(work))
  BY <1>2, RightRest DEF Mining
<1>4. c.v \in Seq(Items) /\ c.at \in Nat
  BY <1>2, FirstCall DEF CallFits, Mining
<1>5. /\ algorithm = "Care" /\ HeadRight(c)
      /\ Distinct(c.v) /\ c.head \cap After(c.v, c.at) = {}
      /\ c.max \in Nat \ {0} /\ Size(c.head) + c.max = job.maxHead
  BY <1>2, <1>3 DEF Right, BuildHeadRight
<1>6. /\ c.body \in (SUBSET Items) \ {{}} /\ c.head \in SUBSET Items
      /\ GidsRight(c.gids, c.body, c.head) /\ c.support = Size(WithBody(c.body))
      /\ MapsRight
  BY <1>5 DEF HeadRight, GidsRight, Mining, TablesKept
<1>7. /\ v \in Seq(Items) /\ IsList(v) /\ Distinct(v)
      /\ \A h : h \in Members(v) <=>
           h \in After(c.v, c.at) /\ h \notin c.body /\ MoreThan(Size(c.gids \cap headMap[h]))
  BY <1>4, <1>5, KeptMembers
<1> DEFINE n == Len(v)
<1>8. n \in Nat /\ DOMAIN v = 1 .. n /\ \A k \in 1 .. n : v[k] \in Items /\ v[k] \in Members(v)
  <2> HIDE DEF v
  <2>1. n \in Nat /\ DOMAIN v = 1 .. n
    BY <1>7, ListDomain
  <2>2. \A k \in 1 .. n : v[k] \in Items
    BY <1>7, ElementOfSeq
  <2>3. QED  BY <2>1, <2>2 DEF Members
<1>9. found = [k \in 1 .. n |-> Longer(v[k], k)] /\ \A k \in 1 .. n : lat[k] = After(v, k)
  BY <1>8
<1> HIDE DEF v, found, lat
<1>10. Later(c) = After(c.v, c.at)
  BY <1>2 DEF Later
<1>11. Orders(v, lat)
  BY <1>7, <1>9, ListOrders
<1>12. ASSUME NEW k \in 1 .. n
       PROVE  /\ HeadCall(found[k], c, v[k], lat[k]) /\ FoundHead(found[k], c, v[k])
              /\ c.max > 1 => Right(found[k])
              /\ c.max = 1 => Owes(found[k]) = {}
  <2> DEFINE h == v[k]
             d == Longer(h, k)
             H == c.head \cup {h}
  <2>1. found[k] = d
    BY <1>9
  <2>2. /\ d.call = "buildHead" /\ d.body = c.body /\ d.head = H
        /\ d.gids = c.gids \cap headMap[h] /\ d.support = c.support
        /\ d.v = v /\ d.max = c.max - 1 /\ d.at = k
    BY <1>2
  <2>3. /\ h \in Items /\ h \in After(c.v, c.at) /\ h \notin c.body /\ h \notin c.head
        /\ MoreThan(Size(c.gids \cap headMap[h])) /\ h \in Members(v)
    BY <1>5, <1>7, <1>8
  <2> HIDE DEF d, h
  <2>4. GidsRight(d.gids, c.body, H)
    BY <1>2, <1>5, <1>6, <2>2, <2>3, MapNarrows, NarrowHead
  <2>5. H # {} /\ H \in SUBSET Items /\ GroupsOf(c.body, H) = WithRule(c.body, H)
    BY <1>6, <2>3 DEF GroupsOf
  <2>6. Later(d) = After(v, k)
    BY <2>2 DEF Later
  <2>7. Size(d.gids) > 0 /\ Enough(Size(d.gids))
    <3> DEFINE S == WithRule(c.body, H)
    <3>1. S \in SUBSET Grouped
      BY <1>2, <1>6, <2>5, RuleGrouped
    <3>2. d.gids = Numbers(S) /\ MoreThan(Size(d.gids))
      BY <2>2, <2>3, <2>4, <2>5 DEF GidsRight
    <3> HIDE DEF S
    <3>3. Size(d.gids) = Size(S) /\ (Size(S) > 0 <=> S # {})
      BY <1>2, <3>1, <3>2, NumbersSize
    <3>4. S # {}
      BY <1>2, <3>1, <3>2, <3>3, EnoughIsSome
    <3>5. QED  BY <1>5, <3>2, <3>3, <3>4 DEF Enough
  <2> HIDE DEF H
  <2>8. HeadCall(d, c, h, lat[k])
    BY <1>2, <1>9, <2>2, <2>6 DEF HeadCall, H
  <2>9. FoundHead(d, c, h)
    BY <2>2, <2>3, <2>4, <2>5, <2>7 DEF FoundHead, H, GidsRight
  <2>10. Size(c.head) \in Nat /\ Size(H) = Size(c.head) + 1
    BY <1>6, <2>3, OneMore DEF H
  <2>11. ASSUME c.max > 1  PROVE Right(d)
    <3>1. HeadRight(d)
      BY <1>6, <2>2, <2>4, <2>5 DEF HeadRight, GidsRight
    <3>2. d.max \in Nat \ {0} /\ Size(d.head) + d.max = job.maxHead
      <4>1. c.max - 1 \in Nat \ {0} /\ (Size(c.head) + 1) + (c.max - 1) = Size(c.head) + c.max
        BY <1>5, <2>10, <2>11
      <4>2. QED  BY <1>5, <2>2, <2>10, <4>1
    <3>3. d.head \cap After(v, k) = {}
      <4>1. h \notin After(v, k)
        <5>1. v[k] \in lat[k] <=> k > k
          BY <1>11 DEF Orders
        <5>2. ~(k > k)
          BY <1>8
        <5>3. QED  BY <1>9, <5>1, <5>2 DEF h
      <4>2. After(v, k) \subseteq Members(v)
        BY <1>8 DEF After, Members
      <4>3. Members(v) \subseteq After(c.v, c.at)
        BY <1>7
      <4>4. QED  BY <1>5, <2>2, <4>1, <4>2, <4>3 DEF H
    <3>4. BuildHeadRight(d)
      BY <1>5, <1>7, <2>2, <3>1, <3>2, <3>3 DEF BuildHeadRight
    <3>5. QED  BY <2>2, <3>4 DEF Right
  <2>12. ASSUME c.max = 1, NEW r \in Owes(d)  PROVE FALSE
    <3>1. r \in Expected /\ H \subseteq r.head /\ r.head # H
      BY <2>2, HeadOwes DEF Extends
    <3>2. r.head \in SUBSET Items /\ Size(r.head) \in job.minHead .. job.maxHead
      BY <3>1, ExpectedRule
    <3>3. Size(H) \in Nat /\ Size(r.head) \in Nat /\ Size(H) < Size(r.head)
      BY <3>1, <3>2, Longest
    <3>4. job.minHead \in Nat /\ job.maxHead \in Nat
      BY <1>2, JobsAssumption DEF JobInv, Job
    <3>5. Size(H) = job.maxHead
      BY <1>5, <2>10, <2>12
    <3>6. QED  BY <3>2, <3>3, <3>4, <3>5
  <2>13. QED  BY <2>1, <2>8, <2>9, <2>11, <2>12 DEF h
<1> HIDE DEF Longer, n
<1>13. ASSUME NEW r \in Owes(c)  PROVE r.head \ c.head \subseteq Members(v)
  <2>1. /\ r \in Expected /\ r.body = c.body /\ c.head \subseteq r.head
        /\ r.head \ c.head \subseteq After(c.v, c.at)
    BY <1>2, <1>10, HeadOwes DEF Extends
  <2>2. ASSUME NEW h \in r.head, h \notin c.head  PROVE h \in Members(v)
    <3>1. c.body \in SUBSET r.body /\ c.body # {} /\ c.head \in SUBSET r.head
      BY <1>6, <2>1
    <3> DEFINE B == c.body
               H == c.head
               gids == c.gids
    <3> HIDE DEF B, H, gids
    <3>4. r \in Expected /\ B \in SUBSET r.body /\ B # {} /\ H \in SUBSET r.head
          /\ GidsRight(gids, B, H)
      BY <1>6, <2>1, <3>1 DEF B, H, gids
    <3>2. h \notin B /\ MoreThan(Size(gids \cap headMap[h]))
      BY <1>2, <1>5, <1>6, <2>2, <3>4, HeadKept
    <3>3. QED  BY <1>7, <2>1, <2>2, <3>2 DEF B, H, gids
  <2>3. QED  BY <2>2
<1>14. LongerHeads(c, v, lat, found)
  <2>1. c.head \cap Members(v) = {} /\ Members(v) \subseteq Later(c)
    BY <1>5, <1>7, <1>10
  <2>2. \A k \in 1 .. Len(v) : lat[k] \subseteq Later(c)
    <3>1. \A k \in 1 .. n : After(v, k) \subseteq Members(v)
      BY <1>8 DEF After, Members, n
    <3>2. QED  BY <1>9, <2>1, <3>1 DEF n
  <2>3. Len(found) = Len(v) /\ \A k \in 1 .. Len(v) : HeadCall(found[k], c, v[k], lat[k])
    BY <1>8, <1>9, <1>12 DEF n
  <2>4. QED  BY <1>2, <1>7, <1>11, <1>13, <2>1, <2>2, <2>3 DEF LongerHeads
<1>15. IsList(found) /\ Len(found) = n
  BY <1>8, <1>9, ListOf
<1>16. \A k \in 1 .. Len(v) : FoundHead(found[k], c, v[k])
  BY <1>12 DEF n
<1>17. deeper = found \/ (deeper = <<>> /\ OwedBy(found) = {})
  <2>1. CASE c.max > 1
    BY <2>1 DEF Deepens
  <2>2. CASE ~(c.max > 1)
    <3>1. c.max = 1
      BY <1>5, <2>2
    <3>2. OwedBy(found) = {}
      BY <1>12, <1>15, <3>1, Owed
    <3>3. QED  BY <2>2, <3>2 DEF Deepens
  <2>3. QED  BY <2>1, <2>2
<1>18. AllRight(deeper) /\ IsList(deeper)
  <2>1. CASE Deepens(c)
    BY <1>12, <1>15, <2>1 DEF AllRight, Deepens
  <2>2. CASE ~Deepens(c)
    <3>1. deeper = <<>> /\ IsList(<<>>) /\ Len(<<>>) = 0
      BY <2>2, EmptyList
    <3>2. \A k \in 1 .. 0 : FALSE
      OBVIOUS
    <3>3. AllRight(<<>>)
      BY <3>1, <3>2 DEF AllRight
    <3>4. QED  BY <3>1, <3>3
  <2>3. QED  BY <2>1, <2>2
<1> HIDE DEF deeper
<1>19. Accounts(work', rules')
  BY <1>1, <1>2, <1>5, <1>14, <1>15, <1>16, <1>17, HeadsDone DEF Mining
<1>20. AllRight(work')
  BY <1>1, <1>3, <1>18, RightConcat DEF Calling
<1>21. QED  BY <1>19, <1>20

LEMMA NoHead == Size({}) = 0
BY FS_EmptySet DEF Size

(* The call of buildHead for the body B, and that of buildRules.           *)
Heads(d, B, vh) ==
  /\ d.call = "buildHead" /\ d.body = B /\ d.head = {} /\ d.gids = Numbers(WithBody(B))
  /\ d.support = Size(WithBody(B)) /\ d.v = vh /\ d.max = job.maxHead /\ d.at = 0
Deepened(d, c, B, vb, k) ==
  /\ d.call = "buildRules" /\ d.body = B /\ d.gids = Numbers(WithBody(B))
  /\ d.vb = vb /\ d.vh = KeptHeads(c.vh, 0, B, Numbers(WithBody(B)))
  /\ d.max = c.max - 1 /\ d.at = k

LEMMA HeadsRight ==
  ASSUME JobInv, algorithm = "Care", NEW d, NEW B \in (SUBSET Items) \ {{}},
         NEW vh, Distinct(vh), Heads(d, B, vh)
  PROVE  Right(d)
<1>1. HeadRight(d)
  BY DEF HeadRight, Heads, GroupsOf
<1>2. job.maxHead \in Nat \ {0}
  <2>1. job.minHead \in Nat \ {0} /\ job.maxHead \in Nat /\ job.minHead <= job.maxHead
    BY JobsAssumption DEF JobInv, Job
  <2>2. QED  BY <2>1
<1>3. Size({}) + job.maxHead = job.maxHead
  BY <1>2, NoHead
<1>4. BuildHeadRight(d)
  BY <1>1, <1>2, <1>3 DEF BuildHeadRight, Heads
<1>5. QED  BY <1>4 DEF Right, Heads

LEMMA RulesOwes ==
  ASSUME NEW c, c.call = "buildRules"
  PROVE  /\ Later(c) = After(c.vb, c.at)
         /\ \A r : r \in Owes(c) <=>
              /\ r \in Expected /\ Extends(r.body, c.body, Later(c)) /\ r.body # c.body
BY DEF Owes, Finds, Later

(* A rule with a longer body of the call is one the call owes.             *)
LEMMA LongerOwed ==
  ASSUME NEW c, c.call = "buildRules", NEW j, j \in Later(c), j \notin c.body,
         NEW later, later \subseteq Later(c),
         NEW r \in Expected, Extends(r.body, c.body \cup {j}, later)
  PROVE  r \in Owes(c)
<1>1. c.body \subseteq r.body /\ j \in r.body /\ r.body \ c.body \subseteq later \cup {j}
  BY DEF Extends
<1>2. QED  BY <1>1, RulesOwes DEF Extends

LEMMA BuildRulesSearch ==
  ASSUME Mining, CareDisjoint, BuildRules
  PROVE  AllRight(work') /\ Accounts(work', rules')
<1> DEFINE c == Head(work)
           Gathered(j) == IF c.body = {} THEN bodyMap[j] ELSE c.gids \cap bodyMap[j]
           vb == Selected(c.vb, {k \in c.at + 1 .. Len(c.vb) : MoreThan(Size(Gathered(c.vb[k])))})
           Heading(j) == [call |-> "buildHead", body |-> c.body \cup {j}, head |-> {},
                          gids |-> Gathered(j), support |-> Size(Gathered(j)),
                          v |-> c.vh, max |-> job.maxHead, at |-> 0]
           Deeper(j, k) == [call |-> "buildRules", body |-> c.body \cup {j}, gids |-> Gathered(j),
                            vb |-> vb, vh |-> KeptHeads(c.vh, 0, c.body \cup {j}, Gathered(j)),
                            max |-> c.max - 1, at |-> k]
           all == [k \in DOMAIN vb |-> Deeper(vb[k], k)]
           deeper == IF Deepens(c) THEN all ELSE <<>>
           headings == Mapped(vb, Heading)
           lat == [k \in 1 .. Len(vb) |-> After(vb, k)]
           P == {j \in Items : MoreThan(Size(Gathered(j)))}
<1>1. Calling("buildRules", headings \o deeper \o Tail(work), <<>>)
  BY DEF BuildRules
<1>2. work # <<>> /\ c.call = "buildRules" /\ IsList(work) /\ JobInv /\ Queried
  BY <1>1 DEF Calling, Mining, Accounts
<1>3. Right(c) /\ IsList(Tail(work)) /\ AllRight(Tail(work))
  BY <1>2, RightRest DEF Mining
<1>4. c.vb \in Seq(Items) /\ c.vh \in Seq(Items) /\ c.at \in Nat
  BY <1>2, FirstCall DEF CallFits, Mining
<1>5. BuildRulesRight(c)
  BY <1>2, <1>3 DEF Right
<1>6. /\ algorithm = "Care" /\ c.body \in SUBSET Items
      /\ c.body # {} => c.gids = Numbers(WithBody(c.body))
      /\ Distinct(c.vb) /\ Distinct(c.vh) /\ c.body \cap After(c.vb, c.at) = {}
      /\ c.max \in Nat \ {0} /\ Size(c.body) + c.max = job.maxBody
      /\ \A r \in Owes(c) : r.head \subseteq Members(c.vh)
  BY <1>5 DEF BuildRulesRight
<1>7. MapsRight
  BY <1>6 DEF Mining, TablesKept
<1> DEFINE W(j) == WithBody(c.body \cup {j})
<1>8. ASSUME NEW j \in Items
      PROVE  Gathered(j) = Numbers(W(j)) /\ Size(Gathered(j)) = Size(W(j))
  <2>1. bodyMap[j] = Numbers(WithBody({j}))
    BY <1>7 DEF MapsRight
  <2>2. CASE c.body = {}
    <3>1. c.body \cup {j} = {j} /\ {j} # {}
      BY <2>2
    <3>2. Size(Numbers(WithBody({j}))) = Size(WithBody({j}))
      BY <1>2, <3>1, NarrowBody
    <3>3. QED  BY <2>1, <2>2, <3>1, <3>2
  <2>3. CASE c.body # {}
    <3> DEFINE B == c.body
    <3>1. B # {} /\ B \cup {j} # {} /\ c.gids = Numbers(WithBody(B))
      BY <1>6, <2>3
    <3> HIDE DEF B
    <3>2. Numbers(WithBody(B)) \cap Numbers(WithBody({j})) = Numbers(WithBody(B \cup {j}))
      BY <1>2, <3>1, NarrowBody
    <3>3. Size(Numbers(WithBody(B \cup {j}))) = Size(WithBody(B \cup {j}))
      BY <1>2, <3>1, NarrowBody
    <3>4. Gathered(j) = c.gids \cap bodyMap[j]
      BY <2>3
    <3> HIDE DEF Gathered
    <3>5. QED  BY <2>1, <3>1, <3>2, <3>3, <3>4 DEF B
  <2>4. QED  BY <2>2, <2>3
<1>9. /\ vb \in Seq(Items) /\ IsList(vb) /\ Distinct(vb)
      /\ Members(vb) = After(c.vb, c.at) \cap P
  <2>1. \A k \in c.at + 1 .. Len(c.vb) : MoreThan(Size(Gathered(c.vb[k]))) <=> c.vb[k] \in P
    <3>1. \A k \in c.at + 1 .. Len(c.vb) : c.vb[k] \in Items
      <4>1. Len(c.vb) \in Nat /\ \A k \in 1 .. Len(c.vb) : c.vb[k] \in Items
        BY <1>4, LenProperties, ElementOfSeq
      <4> HIDE DEF c
      <4>2. QED  BY <1>4, <4>1
    <3> HIDE DEF c, Gathered
    <3>2. QED  BY <3>1
  <2>2. vb = Picked(c.vb, c.at, P)
    <3> HIDE DEF P, Gathered
    <3>1. {k \in c.at + 1 .. Len(c.vb) : MoreThan(Size(Gathered(c.vb[k])))}
            = {k \in c.at + 1 .. Len(c.vb) : c.vb[k] \in P}
      BY <2>1
    <3>2. QED  BY <3>1 DEF Picked
  <2> HIDE DEF c, vb, P
  <2>3. QED  BY <1>4, <1>6, <2>2, PickedMembers
<1> DEFINE n == Len(vb)
<1> HIDE DEF vb
<1>10. n \in Nat /\ DOMAIN vb = 1 .. n /\ \A k \in 1 .. n : vb[k] \in Items /\ vb[k] \in Members(vb)
  <2>1. n \in Nat /\ DOMAIN vb = 1 .. n
    BY <1>9, ListDomain
  <2>2. \A k \in 1 .. n : vb[k] \in Items
    BY <1>9, ElementOfSeq
  <2>3. QED  BY <2>1, <2>2 DEF Members
<1>11. /\ headings = [k \in 1 .. n |-> Heading(vb[k])] /\ all = [k \in 1 .. n |-> Deeper(vb[k], k)]
       /\ \A k \in 1 .. n : lat[k] = After(vb, k)
  BY <1>10 DEF Mapped
<1> HIDE DEF headings, all, lat
<1>12. Later(c) = After(c.vb, c.at)
  BY <1>2, RulesOwes
<1>13. Orders(vb, lat)
  BY <1>9, <1>11, ListOrders
<1>14. /\ c.body \cap Members(vb) = {} /\ Members(vb) \subseteq Later(c)
       /\ \A k \in 1 .. n : lat[k] \subseteq Members(vb) /\ lat[k] \subseteq Later(c)
  <2>1. c.body \cap Members(vb) = {} /\ Members(vb) \subseteq Later(c)
    BY <1>6, <1>9, <1>12
  <2>2. \A k \in 1 .. n : After(vb, k) \subseteq Members(vb)
    BY <1>10 DEF After, Members
  <2>3. QED  BY <1>11, <2>1, <2>2
<1> DEFINE B(k) == c.body \cup {vb[k]}
<1>15. ASSUME NEW k \in 1 .. n
       PROVE  /\ Heads(headings[k], B(k), c.vh) /\ Deepened(all[k], c, B(k), vb, k)
              /\ B(k) \in (SUBSET Items) \ {{}} /\ vb[k] \notin c.body /\ vb[k] \in Later(c)
              /\ GidsRight(Numbers(WithBody(B(k))), B(k), {})
  <2> DEFINE j == vb[k]
  <2>1. headings[k] = Heading(j) /\ all[k] = Deeper(j, k) /\ j \in Items /\ j \in Members(vb)
    BY <1>10, <1>11
  <2>2. Gathered(j) = Numbers(WithBody(c.body \cup {j}))
        /\ Size(Gathered(j)) = Size(WithBody(c.body \cup {j}))
    BY <1>8, <2>1
  <2> HIDE DEF j
  <2>3. Heads(Heading(j), c.body \cup {j}, c.vh) /\ Deepened(Deeper(j, k), c, c.body \cup {j}, vb, k)
    <3> HIDE DEF Gathered
    <3>1. QED  BY <2>2 DEF Heads, Deepened
  <2>4. j \notin c.body /\ j \in Later(c) /\ c.body \cup {j} \in (SUBSET Items) \ {{}}
    BY <1>6, <1>14, <2>1
  <2>5. QED  BY <2>1, <2>3, <2>4 DEF j, GidsRight, GroupsOf
<1> HIDE DEF Heading, Deeper, Gathered, n
(* The headings.                                                           *)
<1>16. ASSUME NEW k \in 1 .. n
       PROVE  Right(headings[k]) /\ HeadingCall(headings[k], c, vb[k])
  <2> DEFINE d == headings[k]
  <2>1. Heads(d, B(k), c.vh)
    BY <1>15
  <2> HIDE DEF d
  <2>2. Right(d)
    BY <1>2, <1>6, <1>15, <2>1, HeadsRight
  <2>3. /\ d.call = "buildHead" /\ d.body = B(k) /\ d.head = {}
        /\ d.v = c.vh /\ d.at = 0
    BY <2>1 DEF Heads
  <2>4. Later(d) = After(c.vh, 0)
    BY <2>3 DEF Later
  <2>5. ASSUME NEW r \in Expected, r.body = B(k)
        PROVE  Extends(r.head, {}, Later(d)) /\ r.head # {}
    <3>1. Extends(r.body, c.body \cup {vb[k]}, {})
      BY <2>5 DEF Extends
    <3>2. r \in Owes(c)
      BY <1>2, <1>15, <3>1, LongerOwed
    <3>3. r.head \subseteq Members(c.vh) /\ Members(c.vh) = After(c.vh, 0)
      BY <1>6, <3>2 DEF Members, After
    <3>4. r.head # {}
      BY ExpectedRule
    <3>5. QED  BY <2>4, <3>3, <3>4 DEF Extends
  <2>6. HeadingCall(d, c, vb[k])
    BY <2>3, <2>5 DEF HeadingCall
  <2>7. QED  BY <2>2, <2>6 DEF d
(* The longer bodies.                                                      *)
<1>17. ASSUME NEW k \in 1 .. n
       PROVE  /\ BodyCall(all[k], c, vb[k], lat[k])
              /\ c.max > 1 => Right(all[k])
              /\ c.max = 1 => Owes(all[k]) = {}
  <2> DEFINE d == all[k]
             C == B(k)
             gids == Numbers(WithBody(C))
             vh == KeptHeads(c.vh, 0, C, gids)
  <2>1. /\ d.call = "buildRules" /\ d.body = C /\ d.gids = gids /\ d.vb = vb
        /\ d.vh = vh /\ d.max = c.max - 1 /\ d.at = k
    BY <1>15 DEF Deepened
  <2>2. C \in (SUBSET Items) \ {{}} /\ GidsRight(gids, C, {}) /\ c.body \subseteq C
    BY <1>15
  <2>3. Later(d) = lat[k]
    BY <1>11, <2>1, RulesOwes
  <2>4. BodyCall(d, c, vb[k], lat[k])
    BY <1>2, <2>1, <2>3 DEF BodyCall
  <2>5. Size(c.body) \in Nat /\ Size(C) = Size(c.body) + 1
    BY <1>6, <1>15, OneMore
  <2>6. /\ vh \in Seq(Items) /\ Distinct(vh)
        /\ \A h : h \in Members(vh) <=>
             h \in After(c.vh, 0) /\ h \notin C /\ MoreThan(Size(gids \cap headMap[h]))
    <3>1. 0 \in Nat
      OBVIOUS
    <3> HIDE DEF c, C, gids
    <3>2. QED  BY <1>4, <1>6, <3>1, KeptMembers
  <2>7. ASSUME NEW r \in Owes(d)
        PROVE  /\ r \in Expected /\ r \in Owes(c) /\ C \in SUBSET r.body /\ r.body # C
               /\ r.head \subseteq Members(vh)
    <3>1. r \in Expected /\ Extends(r.body, C, lat[k]) /\ r.body # C
      <4> HIDE DEF d, C, vh, gids
      <4>1. r \in Expected /\ Extends(r.body, d.body, Later(d)) /\ r.body # d.body
        BY <2>1, <2>7, RulesOwes
      <4>2. QED  BY <2>1, <2>3, <4>1
    <3>2. r \in Owes(c)
      BY <1>2, <1>14, <1>15, <3>1, LongerOwed
    <3>3. C \in SUBSET r.body
      BY <3>1 DEF Extends
    <3>4. ASSUME NEW h \in r.head  PROVE h \in Members(vh)
      <4>1. h \in After(c.vh, 0)
        BY <1>6, <3>2, <3>4 DEF Members, After
      <4>2. r \in Expected /\ C \in SUBSET r.body /\ C # {} /\ {} \in SUBSET r.head
            /\ GidsRight(gids, C, {})
        BY <2>2, <3>1, <3>3
      <4> HIDE DEF C, gids
      <4>3. h \notin C /\ MoreThan(Size(gids \cap headMap[h]))
        BY <1>2, <1>6, <1>7, <3>4, <4>2, HeadKept
      <4>4. QED  BY <2>6, <4>1, <4>3
    <3>5. QED  BY <3>1, <3>2, <3>3, <3>4
  <2> HIDE DEF d, C, gids, vh
  <2>8. ASSUME c.max > 1  PROVE Right(d)
    <3>1. c.max - 1 \in Nat \ {0} /\ Size(C) + (c.max - 1) = job.maxBody
      <4>1. c.max - 1 \in Nat \ {0} /\ (Size(c.body) + 1) + (c.max - 1) = Size(c.body) + c.max
        BY <1>6, <2>5, <2>8
      <4>2. QED  BY <1>6, <2>5, <4>1
    <3>2. C \cap After(vb, k) = {}
      <4>1. vb[k] \notin After(vb, k)
        <5>1. vb[k] \in lat[k] <=> k > k
          BY <1>13 DEF Orders, n
        <5>2. ~(k > k)
          BY <1>10
        <5>3. QED  BY <1>11, <5>1, <5>2
      <4>2. c.body \cap After(vb, k) = {}
        BY <1>11, <1>14
      <4>3. QED  BY <4>1, <4>2 DEF C
    <3>3. BuildRulesRight(d)
      BY <1>6, <1>9, <2>1, <2>2, <2>6, <2>7, <3>1, <3>2 DEF BuildRulesRight, gids
    <3>4. QED  BY <2>1, <3>3 DEF Right
  <2>9. ASSUME c.max = 1, NEW r \in Owes(d)  PROVE FALSE
    <3>1. r \in Expected /\ C \in SUBSET r.body /\ r.body # C
      BY <2>7, <2>9
    <3>2. r.body \in SUBSET Items /\ Size(r.body) \in job.minBody .. job.maxBody
      BY <3>1, ExpectedRule
    <3>3. Size(C) \in Nat /\ Size(r.body) \in Nat /\ Size(C) < Size(r.body)
      BY <3>1, <3>2, Longest
    <3>4. job.minBody \in Nat /\ job.maxBody \in Nat
      BY <1>2, JobsAssumption DEF JobInv, Job
    <3>5. Size(C) = job.maxBody
      BY <1>6, <2>5, <2>9
    <3>6. QED  BY <3>2, <3>3, <3>4, <3>5
  <2>10. QED  BY <2>4, <2>8, <2>9 DEF d
<1>18. ASSUME NEW r \in Owes(c)  PROVE r.body \ c.body \subseteq Members(vb)
  <2>1. /\ r \in Expected /\ c.body \subseteq r.body /\ r.body \ c.body \subseteq After(c.vb, c.at)
    BY <1>2, <1>12, <1>18, RulesOwes DEF Extends
  <2>2. ASSUME NEW j \in r.body, j \notin c.body  PROVE j \in Members(vb)
    <3> DEFINE C == c.body \cup {j}
               S == GroupsOf(C, {})
    <3>1. C \in SUBSET r.body /\ C # {} /\ {} \in SUBSET r.head /\ S = GroupsOf(C, {})
          /\ S = WithBody(C)
      BY <2>1, <2>2 DEF GroupsOf
    <3> HIDE DEF C, S
    <3>2. MoreThan(Size(S))
      BY <1>2, <1>6, <2>1, <3>1, ReachesPart
    <3>3. j \in Items
      BY <2>1, <2>2, ExpectedRule
    <3>4. Size(Gathered(j)) = Size(S)
      BY <1>8, <3>1, <3>3 DEF C
    <3>5. j \in P
      BY <3>2, <3>3, <3>4
    <3>6. QED  BY <1>9, <2>1, <2>2, <3>5
  <2>3. QED  BY <2>2
<1> HIDE DEF P, B
<1>19. IsList(headings) /\ IsList(all) /\ Len(headings) = n /\ Len(all) = n
  <2>1. headings = [k \in 1 .. n |-> headings[k]] /\ all = [k \in 1 .. n |-> all[k]]
    BY <1>11 DEF n
  <2>2. QED  BY <1>10, <2>1, ListOf DEF n
<1>20. LongerBodies(c, vb, lat, all)
  BY <1>2, <1>9, <1>13, <1>14, <1>17, <1>18, <1>19 DEF LongerBodies, n
<1>21. /\ Separate(headings) /\ Separate(all) /\ OwedBy(headings) \cap OwedBy(all) = {}
       /\ OwedBy(headings) \cup OwedBy(all) = Owes(c)
  <2>1. Len(headings) = Len(vb) /\ \A k \in 1 .. Len(vb) : HeadingCall(headings[k], c, vb[k])
    BY <1>16, <1>19 DEF n
  <2> HIDE DEF c
  <2>2. QED  BY <1>2, <1>20, <2>1, DepthBranch
<1>22. deeper = all \/ (deeper = <<>> /\ OwedBy(all) = {})
  <2>1. CASE c.max > 1
    BY <2>1 DEF Deepens
  <2>2. CASE ~(c.max > 1)
    <3>1. c.max = 1
      BY <1>6, <2>2
    <3>2. OwedBy(all) = {}
      BY <1>17, <1>19, <3>1, Owed
    <3>3. QED  BY <2>2, <3>2 DEF Deepens
  <2>3. QED  BY <2>1, <2>2
<1>23. /\ IsList(deeper) /\ Separate(deeper) /\ OwedBy(deeper) = OwedBy(all)
  BY <1>19, <1>21, <1>22, OwedNone
<1>24. AllRight(deeper) /\ AllRight(headings)
  <2>1. AllRight(headings)
    BY <1>16, <1>19 DEF AllRight
  <2>2. CASE Deepens(c)
    BY <1>17, <1>19, <2>1, <2>2 DEF AllRight, Deepens
  <2>3. CASE ~Deepens(c)
    <3>1. deeper = <<>> /\ Len(<<>>) = 0
      BY <2>3, EmptyList
    <3>2. \A k \in 1 .. 0 : FALSE
      OBVIOUS
    <3>3. AllRight(<<>>)
      BY <3>1, <3>2 DEF AllRight
    <3>4. QED  BY <2>1, <3>1, <3>3
  <2>4. QED  BY <2>2, <2>3
<1> HIDE DEF deeper
<1> DEFINE p == headings \o deeper
<1>25. IsList(p) /\ Separate(p) /\ OwedBy(p) = Owes(c)
  BY <1>19, <1>21, <1>23, ListConcat, OwedConcat
<1>26. AllRight(p)
  BY <1>19, <1>23, <1>24, RightConcat
<1>27. Calling("buildRules", p \o Tail(work), <<>>)
  BY <1>1
<1> HIDE DEF p
<1>28. PICK new : /\ work' = p \o Tail(work) /\ rules' = rules \o new
                  /\ IsList(new) /\ Members(new) = {} /\ Distinct(new)
  BY <1>27, CallInsertsNone
<1> DEFINE none == <<>>
<1>29. IsList(none) /\ Separate(none) /\ OwedBy(none) = {}
  BY OwedNone
<1>30. (p \o Tail(work)) \o none = p \o Tail(work)
  <2>1. IsList(p \o Tail(work))
    BY <1>3, <1>25, ListConcat
  <2>2. QED  BY <2>1, ConcatEmptySeq DEF IsList
<1> HIDE DEF none
<1>31. Accounts((p \o Tail(work)) \o none, rules \o new)
  <2>1. Accounts(work, rules)
    BY DEF Mining
  <2>2. Members(new) \cup OwedBy(p) \cup OwedBy(none) = Owes(Head(work))
    BY <1>25, <1>28, <1>29
  <2>3. QED  BY <1>2, <1>25, <1>28, <1>29, <2>1, <2>2, CallDone
<1>32. AllRight(work')
  BY <1>3, <1>25, <1>26, <1>28, RightConcat
<1>33. QED  BY <1>28, <1>30, <1>31, <1>32

-----------------------------------------------------------------------------
(* The breadth first miners' bodies.                                       *)

LEMMA BodyOwes ==
  ASSUME NEW c, c.call = "body"
  PROVE  /\ Later(c) = {j \in Items : j > c.last}
         /\ \A r : r \in Owes(c) <=> r \in Expected /\ Extends(r.body, c.body, Later(c))
BY DEF Owes, Finds, Later

(* The item j makes the frequent body B one of the bodies of r.            *)
LEMMA BodyKept ==
  ASSUME JobInv, Queried, PairsRight, algorithm \in {"NoCross", "AndCross"},
         NEW r \in Expected, NEW B \in SUBSET r.body, B # {}, B # r.body,
         NEW j \in r.body, j \notin B, NEW gids, gids = Numbers(WithBody(B))
  PROVE  /\ Size(B) < job.maxBody /\ pairs[j] # Nowhere /\ Reaches(Size(gids \cap bodyMap[j]))
<1>1. /\ r.body \in SUBSET Items /\ r.head \in SUBSET Items /\ r.head # {}
      /\ Size(r.body) \in job.minBody .. job.maxBody
  BY ExpectedRule
<1>2. Size(B) < job.maxBody
  <2>1. Size(B) \in Nat /\ Size(r.body) \in Nat /\ Size(B) < Size(r.body)
    BY <1>1, Longest
  <2>2. job.minBody \in Nat /\ job.maxBody \in Nat
    BY JobsAssumption DEF JobInv, Job
  <2>3. QED  BY <1>1, <2>1, <2>2
<1>3. j \in Items /\ algorithm # "Care"
  BY <1>1
<1>4. pairs[j] # Nowhere
  <2>1. PICK h : h \in r.head
    BY <1>1
  <2> DEFINE J == {j}
             H == {h}
             S == GroupsOf(J, H)
  <2>2. J \in SUBSET r.body /\ J # {} /\ H \in SUBSET r.head /\ S = GroupsOf(J, H) /\ h \in Items
        /\ S = WithRule({j}, {h})
    BY <1>1, <2>1 DEF GroupsOf
  <2>6. pairs[j][h] = IF Reaches(Size(S)) THEN Numbers(S) ELSE {}
    <3>1. S = WithRule({j}, {h}) /\ h \in Items
      BY <2>2
    <3> HIDE DEF S
    <3>2. QED  BY <1>3, <3>1 DEF PairsRight
  <2> HIDE DEF J, H, S
  <2>3. S # {} /\ Reaches(Size(S))
    BY <1>3, <2>2, ReachesPart
  <2>4. pairs[j][h] = Numbers(S) /\ Numbers(S) # {}
    <3>1. Numbers(S) # {}
      BY <2>3 DEF Numbers
    <3>2. QED  BY <2>3, <2>6, <3>1
  <2>5. QED  BY <2>2, <2>4 DEF Nowhere
<1>5. Reaches(Size(gids \cap bodyMap[j]))
  <2> DEFINE C == B \cup {j}
             S == GroupsOf(C, {})
  <2>1. C \in SUBSET r.body /\ C # {} /\ {} \in SUBSET r.head /\ S = GroupsOf(C, {})
        /\ S = WithBody(C)
    BY DEF GroupsOf
  <2>2. gids \cap bodyMap[j] = Numbers(WithBody(C))
    BY <1>3, <1>4, NarrowBody DEF PairsRight
  <2> HIDE DEF C, S
  <2>3. Reaches(Size(S))
    BY <1>3, <2>1, ReachesPart
  <2>4. Size(Numbers(WithBody(C))) = Size(WithBody(C))
    BY <2>1, NarrowBody
  <2>5. QED  BY <2>1, <2>2, <2>3, <2>4
<1>6. QED  BY <1>2, <1>4, <1>5

LEMMA GenerateRulesSearch ==
  ASSUME Mining, GenerateRules
  PROVE  AllRight(work') /\ Accounts(work', rules')
<1> DEFINE b == Head(work)
           longer == {j \in Items : /\ Size(b.body) < job.maxBody /\ j > b.last
                                    /\ pairs[j] # Nowhere
                                    /\ Reaches(Size(b.gids \cap bodyMap[j]))}
           Queued(j) == [call |-> "body", body |-> b.body \cup {j},
                         gids |-> b.gids \cap bodyMap[j], last |-> j,
                         table |-> LongerTable(b.table, j)]
           heading == [call |-> "addHead", body |-> b.body, head |-> {}, gids |-> b.gids,
                       support |-> Size(b.gids), from |-> 0, table |-> b.table]
           w == InOrder(longer)
           queued == Mapped(w, Queued)
           lat == [k \in 1 .. Size(longer) |-> {j \in Items : j > w[k]}]
<1>1. Calling("body", <<heading>> \o Tail(work) \o queued, <<>>)
  BY DEF GenerateRules
<1>2. work # <<>> /\ b.call = "body" /\ IsList(work) /\ JobInv /\ Queried
  BY <1>1 DEF Calling, Mining, Accounts
<1>3. Right(b) /\ IsList(Tail(work)) /\ AllRight(Tail(work))
  BY <1>2, RightRest DEF Mining
<1>4. BodyRight(b)
  BY <1>2, <1>3 DEF Right
<1>5. /\ b.body \in (SUBSET Items) \ {{}} /\ TablesRight(b) /\ b.gids = Numbers(WithBody(b.body))
      /\ b.last \in Items /\ \A j \in b.body : j <= b.last
  BY <1>4 DEF BodyRight
<1>6. /\ algorithm \in {"NoCross", "AndCross"} /\ job.rows # <<>> /\ TableRight(b.body, b.table)
      /\ PairsRight
  BY <1>5 DEF TablesRight, Mining, TablesKept
<1>7. longer \in SUBSET Items /\ longer \in SUBSET Nat /\ IsFiniteSet(longer)
  <2>1. longer \in SUBSET Items
    OBVIOUS
  <2> HIDE DEF longer
  <2>2. QED  BY <2>1, SubsetFinite
<1>8. /\ \A j \in longer : j \in Items /\ j > b.last /\ pairs[j] # Nowhere
      /\ \A j \in Items : ( /\ Size(b.body) < job.maxBody /\ j > b.last /\ pairs[j] # Nowhere
                            /\ Reaches(Size(b.gids \cap bodyMap[j])) ) => j \in longer
  OBVIOUS
<1> DEFINE n == Size(longer)
<1> HIDE DEF longer
<1>9. /\ n \in Nat /\ Len(w) = n /\ DOMAIN w = 1 .. n /\ Members(w) = longer /\ Distinct(w)
      /\ IsList(w) /\ \A k \in 1 .. n : w[k] \in longer
  <2>1. /\ n \in Nat /\ Len(w) = n /\ DOMAIN w = 1 .. n /\ Members(w) = longer /\ Distinct(w)
    BY <1>7, InOrderMembers
  <2>2. w \in [1 .. n -> longer]
    BY <1>7, InOrderProperties
  <2>3. IsList(w)
    BY <2>1, <2>2, ListOf
  <2>4. QED  BY <2>1, <2>2, <2>3
<1>10. Orders(w, lat)
  <2>1. \A k \in 1 .. n : \A i \in longer : i \in lat[k] <=> i > w[k]
    BY <1>7
  <2> HIDE DEF lat
  <2>2. QED  BY <1>7, <2>1, NumberOrders
<1>11. /\ queued = [k \in 1 .. n |-> Queued(w[k])]
       /\ \A k \in 1 .. n : lat[k] = {j \in Items : j > w[k]}
  BY <1>9 DEF Mapped
<1> HIDE DEF queued, lat, w, n
<1>12. Later(b) = {j \in Items : j > b.last}
  BY <1>2, BodyOwes
<1>13. \A j \in Items : j \in Nat
  BY SourceAssumption
(* The heads of the body.                                                  *)
<1>14. Right(heading) /\ Owes(heading) = OfBody(b.body)
  <2> DEFINE d == heading
  <2>1. /\ d.call = "addHead" /\ d.body = b.body /\ d.head = {} /\ d.gids = b.gids
        /\ d.support = Size(b.gids) /\ d.from = 0 /\ d.table = b.table
    OBVIOUS
  <2> HIDE DEF d, heading
  <2>2. Size(b.gids) = Size(WithBody(b.body))
    BY <1>2, <1>5, NarrowBody
  <2>3. HeadRight(d) /\ TablesRight(d)
    BY <1>5, <1>6, <2>1, <2>2 DEF HeadRight, TablesRight, GroupsOf
  <2>4. Right(d)
    BY <2>1, <2>3 DEF Right, AddHeadRight
  <2>5. Later(d) = Items
    <3>1. Later(d) = {j \in Items : j >= 0}
      BY <2>1 DEF Later
    <3>2. QED  BY <1>13, <3>1
  <2>6. \A r : r \in Owes(d) <=>
          r \in Expected /\ r.body = b.body /\ Extends(r.head, {}, Items) /\ r.head # {}
    <3>1. \A r : r \in Owes(d) <=> /\ r \in Expected /\ r.body = d.body
                                  /\ Extends(r.head, d.head, Later(d)) /\ r.head # d.head
      <4>1. d.call \in {"addHead", "buildHead"}
        BY <2>1
      <4>2. QED  BY <4>1, HeadOwes
    <3>2. QED  BY <2>1, <2>5, <3>1
  <2>7. \A r \in Expected : Extends(r.head, {}, Items) /\ r.head # {}
    BY ExpectedRule DEF Extends
  <2>8. QED  BY <2>4, <2>6, <2>7 DEF d, OfBody
<1> HIDE DEF heading
(* The longer bodies.                                                      *)
<1>15. ASSUME NEW j \in longer
       PROVE  /\ BodyCall(Queued(j), b, j, {i \in Items : i > j}) /\ Right(Queued(j))
              /\ j \notin b.body
  <2> DEFINE d == Queued(j)
             B == b.body
             C == B \cup {j}
  <2>1. /\ d.call = "body" /\ d.body = C /\ d.gids = b.gids \cap bodyMap[j] /\ d.last = j
        /\ d.table = LongerTable(b.table, j)
    OBVIOUS
  <2> HIDE DEF d, Queued
  <2>2. j \in Items /\ j > b.last /\ bodyMap[j] = Numbers(WithBody({j}))
    BY <1>6, <1>8, <1>15 DEF PairsRight
  <2>3. \A i \in b.body : i <= j /\ i # j
    <3>1. j \in Nat /\ b.last \in Nat /\ \A i \in b.body : i \in Nat /\ i <= b.last
      BY <1>5, <1>13, <2>2
    <3> HIDE DEF b
    <3>2. QED  BY <2>2, <3>1
  <2>4. B # {} /\ TableRight(B, b.table) /\ b.gids = Numbers(WithBody(B))
    BY <1>5, <1>6
  <2>5. BodyCall(d, b, j, {i \in Items : i > j})
    <3>1. Later(d) = {i \in Items : i > j}
      BY <2>1, BodyOwes
    <3>2. QED  BY <1>2, <2>1, <3>1 DEF BodyCall
  <2>6. C \in (SUBSET Items) \ {{}} /\ (\A i \in C : i <= j) /\ j \notin B
    BY <1>5, <1>13, <2>2, <2>3
  <2> HIDE DEF B
  <2>7. d.gids = Numbers(WithBody(C))
    <3>1. Numbers(WithBody(B)) \cap Numbers(WithBody({j})) = Numbers(WithBody(C))
      BY <1>2, <2>4, NarrowBody
    <3> HIDE DEF C, b
    <3>2. QED  BY <2>1, <2>2, <2>4, <3>1
  <2>8. TableRight(C, d.table)
    BY <1>2, <1>6, <2>1, <2>2, <2>4, LongerTableRight
  <2> HIDE DEF C
  <2>9. BodyRight(d)
    BY <1>6, <2>1, <2>2, <2>6, <2>7, <2>8 DEF BodyRight, TablesRight
  <2>10. Right(d)
    BY <2>1, <2>9 DEF Right
  <2>11. QED  BY <2>5, <2>6, <2>10 DEF d, B
<1> HIDE DEF Queued
<1>16. ASSUME NEW r \in Owes(b)  PROVE r.body \ b.body \subseteq longer
  <2>1. /\ r \in Expected /\ b.body \subseteq r.body /\ r.body \ b.body \subseteq Later(b)
    BY <1>2, <1>16, BodyOwes DEF Extends
  <2>2. ASSUME NEW j \in r.body, j \notin b.body  PROVE j \in longer
    <3> DEFINE B == b.body
               gids == b.gids
    <3>1. /\ r \in Expected /\ B \in SUBSET r.body /\ B # {} /\ B # r.body /\ j \notin B
          /\ gids = Numbers(WithBody(B))
      BY <1>5, <2>1, <2>2
    <3> HIDE DEF B, gids
    <3>2. Size(B) < job.maxBody /\ pairs[j] # Nowhere /\ Reaches(Size(gids \cap bodyMap[j]))
      BY <1>2, <1>6, <2>2, <3>1, BodyKept
    <3>3. j \in Items /\ j > b.last
      BY <1>12, <2>1, <2>2
    <3>4. QED  BY <1>8, <3>2, <3>3 DEF B, gids
  <2>3. QED  BY <2>2
<1>17. LongerBodies(b, w, lat, queued)
  <2>1. b.body \cap Members(w) = {}
    BY <1>9, <1>15
  <2>2. Members(w) \subseteq Later(b)
    BY <1>8, <1>9, <1>12
  <2>3. \A k \in 1 .. Len(w) : lat[k] \subseteq Later(b)
    <3>1. ASSUME NEW k \in 1 .. n, NEW j \in Items, j > w[k]  PROVE j > b.last
      <4>1. w[k] \in Nat /\ w[k] > b.last /\ j \in Nat /\ b.last \in Nat
        BY <1>5, <1>7, <1>8, <1>9, <1>13, <3>1
      <4> HIDE DEF b
      <4>2. QED  BY <3>1, <4>1
    <3>2. QED  BY <1>9, <1>11, <1>12, <3>1
  <2>4. Len(queued) = Len(w) /\ \A k \in 1 .. Len(w) : BodyCall(queued[k], b, w[k], lat[k])
    <3>1. Len(queued) = n
      BY <1>9, <1>11
    <3>2. \A k \in 1 .. n : BodyCall(queued[k], b, w[k], lat[k])
      BY <1>9, <1>11, <1>15
    <3>3. QED  BY <1>9, <3>1, <3>2
  <2>5. \A r \in Owes(b) : r.body \ b.body \subseteq Members(w)
    BY <1>9, <1>16
  <2>6. QED  BY <1>2, <1>9, <1>10, <2>1, <2>2, <2>3, <2>4, <2>5 DEF LongerBodies
<1>18. /\ Separate(queued) /\ OfBody(b.body) \cap OwedBy(queued) = {}
       /\ OfBody(b.body) \cup OwedBy(queued) = Owes(b)
  <2> HIDE DEF b
  <2>1. QED  BY <1>2, <1>17, BodiesBranch
<1>19. IsList(queued) /\ Len(queued) = n /\ AllRight(queued)
  <2>1. IsList(queued) /\ Len(queued) = n
    BY <1>9, <1>11, ListOf
  <2>2. AllRight(queued)
    BY <1>9, <1>11, <1>15, <2>1 DEF AllRight
  <2>3. QED  BY <2>1, <2>2
<1> DEFINE p == <<heading>>
<1>20. IsList(p) /\ Separate(p) /\ OwedBy(p) = OfBody(b.body) /\ AllRight(p)
  <2>1. IsList(p) /\ Len(p) = 1 /\ p[1] = heading
    BY OneCall
  <2>2. Separate(p) /\ OwedBy(p) = Owes(heading)
    BY OwedOne
  <2> HIDE DEF p
  <2>3. AllRight(p)
    BY <1>14, <2>1 DEF AllRight
  <2>4. QED  BY <1>14, <2>1, <2>2, <2>3
<1>21. Calling("body", p \o Tail(work) \o queued, <<>>)
  BY <1>1
<1> HIDE DEF p
<1>22. PICK new : /\ work' = p \o Tail(work) \o queued /\ rules' = rules \o new
                  /\ IsList(new) /\ Members(new) = {} /\ Distinct(new)
  BY <1>21, CallInsertsNone
<1>23. Accounts(p \o Tail(work) \o queued, rules \o new)
  <2>1. Accounts(work, rules)
    BY DEF Mining
  <2>2. Members(new) \cup OwedBy(p) \cup OwedBy(queued) = Owes(Head(work))
    BY <1>18, <1>20, <1>22
  <2>3. OwedBy(p) \cap OwedBy(queued) = {}
    BY <1>18, <1>20
  <2>4. QED  BY <1>2, <1>18, <1>19, <1>20, <1>22, <2>1, <2>2, <2>3, CallDone
<1>24. AllRight(work')
  <2> DEFINE first == p \o Tail(work)
  <2>1. IsList(first) /\ AllRight(first)
    BY <1>3, <1>20, ListConcat, RightConcat
  <2> HIDE DEF first
  <2>2. AllRight(first \o queued)
    BY <1>19, <2>1, RightConcat
  <2>3. QED  BY <1>22, <2>2 DEF first
<1>25. QED  BY <1>22, <1>23, <1>24

-----------------------------------------------------------------------------
(* The first calls.                                                        *)

LEMMA OrderedMembers ==
  ASSUME NEW S \in SUBSET Items, NEW key, \A i \in S : key[i] \in Nat
  PROVE  LET q == OrderedBy(S, key) IN IsList(q) /\ Members(q) = S /\ Distinct(q)
<1> DEFINE P == {<<key[i], i>> : i \in S}
           listed == Listed[P]
           q == OrderedBy(S, key)
<1>1. P \in SUBSET (Nat \X Nat) /\ (\A i \in S : <<key[i], i>> \in P)
      /\ \A p \in P : p[2] \in S /\ p = <<key[p[2]], p[2]>>
  <2>1. \A i \in S : i \in Nat /\ key[i] \in Nat
    BY SourceAssumption
  <2>2. P \in SUBSET (Nat \X Nat)
    BY <2>1
  <2>3. \A i \in S : <<key[i], i>> \in P
    OBVIOUS
  <2>4. \A p \in P : p[2] \in S /\ p = <<key[p[2]], p[2]>>
    OBVIOUS
  <2>5. QED  BY <2>2, <2>3, <2>4
<1>2. IsFiniteSet(P)
  <2> DEFINE f == [i \in S |-> <<key[i], i>>]
  <2>1. f \in Surjection(S, P)
    BY DEF Surjection
  <2>2. IsFiniteSet(S)
    BY SubsetFinite
  <2> HIDE DEF f
  <2>3. QED  BY <2>1, <2>2, FS_Surjection
<1> DEFINE n == Size(P)
<1>3. n \in Nat /\ listed \in [1 .. n -> P]
      /\ (\A p \in P : \E k \in 1 .. n : listed[k] = p)
      /\ \A k, l \in 1 .. n : k < l => listed[k] # listed[l]
  <2> HIDE DEF P
  <2>1. QED  BY <1>1, <1>2, ListedProperties
<1>4. q = [k \in 1 .. n |-> listed[k][2]]
  BY <1>3 DEF OrderedBy
<1> HIDE DEF P, listed, n, q
<1>5. IsList(q) /\ Len(q) = n
  BY <1>3, <1>4, ListOf
<1>6. Members(q) = S
  <2>1. ASSUME NEW k \in 1 .. n  PROVE q[k] \in S
    BY <1>1, <1>3, <1>4
  <2>2. ASSUME NEW i \in S  PROVE \E k \in 1 .. n : q[k] = i
    <3>1. PICK k \in 1 .. n : listed[k] = <<key[i], i>>
      BY <1>1, <1>3
    <3>2. q[k] = i
      BY <1>4, <3>1
    <3>3. QED  BY <3>2
  <2>3. QED  BY <1>5, <2>1, <2>2 DEF Members
<1>7. Distinct(q)
  <2>1. ASSUME NEW k \in 1 .. n, NEW l \in 1 .. n, q[k] = q[l]  PROVE k = l
    <3>1. listed[k][2] = listed[l][2] /\ listed[k] \in P /\ listed[l] \in P
      BY <1>3, <1>4, <2>1
    <3>2. listed[k] = listed[l]
      BY <1>1, <3>1
    <3>3. ~(k < l) /\ ~(l < k)
      BY <1>3, <3>2
    <3>4. QED  BY <1>3, <3>3
  <2>2. QED  BY <1>5, <2>1 DEF Distinct
<1>8. QED  BY <1>5, <1>6, <1>7 DEF q

(* After the last group the gids of an item are those of its groups.       *)
LEMMA MapsRead ==
  ASSUME MinerInv, ReadInv, PairInv, phase = "read", AfterLast(bodies, bodyAt),
         NEW i \in Items
  PROVE  /\ bodyMap[i] = Numbers(WithBody({i}))
         /\ algorithm = "Care" => headMap[i] = Numbers(HeadGroups(i))
         /\ algorithm \in {"NoCross", "AndCross"} =>
              \A h \in Items : pairs[i][h] = Numbers(WithRule({i}, {h}))
<1>1. JobInv /\ Queried /\ GroupsRead = Grouped
  BY AllRead DEF MinerInv
<1>2. \A g : \A side \in {"body", "head"} : \A j \in RowsOf(g, side) : g \in Groups
  BY <1>1, RowOf
<1>3. {g \in Grouped : HasBody(g, {i})} = WithBody({i})
  <2>1. WithBody({i}) \subseteq Grouped
    BY <1>1, BodyGrouped
  <2>2. \A g : HasBody(g, {i}) => g \in Groups
    BY <1>2 DEF HasBody
  <2>3. QED  BY <2>1, <2>2 DEF WithBody
<1>4. bodyMap[i] = Numbers(WithBody({i}))
  <2>1. CASE algorithm = "AndCross"
    BY <1>1, <1>3, <2>1 DEF PairInv, JoinedRead
  <2>2. CASE algorithm # "AndCross"
    <3>1. bodyMap[i] = {NumberOf(g) : g \in {h \in Grouped : i \in RowsOf(h, "body")}}
      BY <1>1, <2>2 DEF ReadInv, Aligned
    <3>2. {h \in Grouped : i \in RowsOf(h, "body")} = WithBody({i})
      BY <1>3, <2>2 DEF HasBody
    <3>3. QED  BY <3>1, <3>2 DEF Numbers
  <2>3. QED  BY <2>1, <2>2
<1>5. ASSUME algorithm = "Care"  PROVE headMap[i] = Numbers(HeadGroups(i))
  <2>1. headMap[i] = {NumberOf(g) : g \in {h \in Grouped : i \in RowsOf(h, "head")}}
    BY <1>1, <1>5 DEF ReadInv, Aligned
  <2>2. {h \in Grouped : i \in RowsOf(h, "head")} = HeadGroups(i)
    BY <1>2 DEF HeadGroups, WithHead
  <2>3. QED  BY <2>1, <2>2 DEF Numbers
<1>6. ASSUME algorithm \in {"NoCross", "AndCross"}, NEW h \in Items
      PROVE  pairs[i][h] = Numbers(WithRule({i}, {h}))
  <2>1. {g \in Grouped : HasRule(g, {i}, {h})} = WithRule({i}, {h})
    <3>1. WithRule({i}, {h}) \subseteq Grouped
      BY <1>1, RuleGrouped
    <3>2. \A g : HasRule(g, {i}, {h}) => g \in Groups
      BY <1>2 DEF HasRule
    <3>3. QED  BY <3>1, <3>2 DEF WithRule
  <2>2. pairs[i][h] = Numbers({g \in GroupsRead : HasRule(g, {i}, {h})})
    BY <1>6 DEF PairInv, PairsRead
  <2>3. QED  BY <1>1, <2>1, <2>2
<1>7. QED  BY <1>4, <1>5, <1>6

(* A single call that owes everything, before any rule is inserted.        *)
LEMMA FirstAccount ==
  ASSUME NEW calls, IsList(calls), Separate(calls), OwedBy(calls) = Expected
  PROVE  Accounts(calls, <<>>)
<1> DEFINE none == <<>>
<1>1. IsList(none) /\ Members(none) = {} /\ Distinct(none)
  BY OwedNone
<1> HIDE DEF none
<1>2. Accounts(calls, none)
  BY <1>1 DEF Accounts
<1>3. QED  BY <1>2 DEF none

LEMMA PruneCareSearch ==
  ASSUME MinerInv, ReadInv, PairInv, PruneCare
  PROVE  TablesKept' /\ AllRight(work') /\ Accounts(work', rules')
<1> DEFINE vb == {i \in Items : MoreThan(Size(bodyMap[i]))}
           vh == {i \in Items : headMap[i] # {}}
           key == [i \in Items |-> Size(bodyMap[i])]
           c == [call |-> "buildRules", body |-> {}, gids |-> {},
                 vb |-> OrderedBy(vb, key), vh |-> InOrder(vh), max |-> job.maxBody, at |-> 0]
<1>1. StartMining("Care", <<c>>)
  BY DEF PruneCare
<1>2. /\ phase = "read" /\ algorithm = "Care" /\ AfterLast(bodies, bodyAt) /\ work' = <<c>>
      /\ job' = job /\ algorithm' = algorithm /\ bodies' = bodies /\ rules' = rules
      /\ headMap' = headMap /\ bodyMap' = bodyMap /\ pairs' = pairs
  BY <1>1 DEF StartMining, cursors, PruneCare
<1>3. JobInv /\ Queried /\ rules = <<>>
  BY <1>2, AllRead DEF MinerInv, PairInv, QueriedInv
<1>4. MapsRight
  BY <1>2, MapsRead DEF MapsRight
<1>5. TablesKept'
  <2>1. TablesKept
    BY <1>2, <1>4 DEF TablesKept
  <2>2. TablesKept' = TablesKept
    BY <1>2, SameRules
  <2>3. QED  BY <2>1, <2>2
<1>6. IsList(c.vb) /\ Members(c.vb) = vb /\ Distinct(c.vb)
  <2>1. vb \in SUBSET Items /\ \A i \in vb : key[i] \in Nat
    BY FS_CardinalityType DEF MinerInv, PairsInv, Size
  <2> HIDE DEF vb, key
  <2>2. QED  BY <2>1, OrderedMembers
<1>7. Members(c.vh) = vh /\ Distinct(c.vh)
  <2>1. vh \in SUBSET Items
    OBVIOUS
  <2> HIDE DEF vh
  <2>2. vh \in SUBSET Nat /\ IsFiniteSet(vh)
    BY <2>1, SubsetFinite
  <2>3. QED  BY <2>2, InOrderMembers
<1>8. \A i \in Items : (MoreThan(Size(bodyMap[i])) => i \in vb) /\ (headMap[i] # {} => i \in vh)
  OBVIOUS
<1>9. c.call = "buildRules" /\ c.body = {} /\ c.max = job.maxBody /\ c.at = 0
  OBVIOUS
<1> HIDE DEF c, vb, vh, key
<1>10. Later(c) = vb
  <2>1. Later(c) = After(c.vb, 0)
    BY <1>9 DEF Later
  <2>2. After(c.vb, 0) = Members(c.vb)
    BY DEF After, Members
  <2>3. QED  BY <1>6, <2>1, <2>2
(* Every rule of the minerule is one the call owes.                        *)
<1>11. ASSUME NEW r \in Expected  PROVE r.body \subseteq vb /\ r.head \subseteq vh
  <2>1. r.body \in SUBSET Items /\ r.head \in SUBSET Items /\ r.body # {} /\ r.head # {}
    BY ExpectedRule
  <2>2. ASSUME NEW i \in r.body  PROVE i \in vb
    <3> DEFINE B == {i}
               S == GroupsOf(B, {})
    <3>1. B \in SUBSET r.body /\ B # {} /\ {} \in SUBSET r.head /\ S = GroupsOf(B, {})
          /\ S = WithBody({i}) /\ i \in Items
      BY <2>1 DEF GroupsOf
    <3> HIDE DEF B, S
    <3>2. S \in SUBSET Grouped /\ MoreThan(Size(S))
      BY <1>2, <1>3, <3>1, ReachesPart
    <3>3. Size(bodyMap[i]) = Size(S)
      BY <1>3, <1>4, <3>1, <3>2, NumbersSize DEF MapsRight
    <3>4. QED  BY <1>8, <3>1, <3>2, <3>3
  <2>3. ASSUME NEW h \in r.head  PROVE h \in vh
    <3> DEFINE H == {h}
               S == GroupsOf(r.body, H)
    <3>1. r.body \in SUBSET r.body /\ r.body # {} /\ H \in SUBSET r.head /\ S = GroupsOf(r.body, H)
          /\ S = WithRule(r.body, {h}) /\ h \in Items
      BY <2>1 DEF GroupsOf
    <3>2. S \in SUBSET Grouped /\ S # {}
      <4> HIDE DEF H, S
      <4>1. QED  BY <1>3, <3>1, ReachesPart
    <3>3. S \subseteq HeadGroups(h)
      BY <3>1, <3>2 DEF WithRule, HasRule, HeadGroups, WithHead
    <3>4. Numbers(HeadGroups(h)) # {}
      BY <3>2, <3>3 DEF Numbers
    <3>5. QED  BY <1>4, <1>8, <3>1, <3>4 DEF MapsRight
  <2>4. QED  BY <2>2, <2>3
<1>12. Owes(c) = Expected
  <2>1. \A r : r \in Owes(c) <=> r \in Expected /\ Extends(r.body, c.body, Later(c)) /\ r.body # c.body
    BY <1>9, RulesOwes
  <2>2. \A r \in Expected : Extends(r.body, {}, vb) /\ r.body # {}
    BY <1>11, ExpectedRule DEF Extends
  <2>3. QED  BY <1>9, <1>10, <2>1, <2>2
<1>13. Right(c)
  <2>1. job.maxBody \in Nat \ {0}
    <3>1. job.minBody \in Nat \ {0} /\ job.maxBody \in Nat /\ job.minBody <= job.maxBody
      BY <1>3, JobsAssumption DEF JobInv, Job
    <3>2. QED  BY <3>1
  <2>2. Size({}) + job.maxBody = job.maxBody
    BY <2>1, NoHead
  <2>3. BuildRulesRight(c)
    BY <1>2, <1>6, <1>7, <1>9, <1>11, <1>12, <2>1, <2>2 DEF BuildRulesRight
  <2>4. QED  BY <1>9, <2>3 DEF Right
<1> DEFINE calls == <<c>>
<1>14. IsList(calls) /\ Separate(calls) /\ OwedBy(calls) = Owes(c) /\ Len(calls) = 1 /\ calls[1] = c
  BY OwedOne, OneCall
<1>15. work' = calls
  BY <1>2
<1> HIDE DEF calls
<1>16. AllRight(calls)
  BY <1>13, <1>14 DEF AllRight
<1>17. Accounts(calls, <<>>)
  BY <1>12, <1>14, FirstAccount
<1>18. QED  BY <1>2, <1>3, <1>5, <1>15, <1>16, <1>17

LEMMA PruneBodiesSearch ==
  ASSUME MinerInv, ReadInv, PairInv, PruneBodies
  PROVE  TablesKept' /\ AllRight(work') /\ Accounts(work', rules')
<1> DEFINE kept == [i \in Items |-> [j \in Items |->
                      IF Reaches(Size(pairs[i][j])) THEN pairs[i][j] ELSE {}]]
           left == {i \in Items : \E j \in Items : kept[i][j] # {}}
           Queued(i) == [call |-> "body", body |-> {i}, gids |-> bodyMap[i], last |-> i,
                         table |-> kept[i]]
           w == InOrder(left)
           calls == Mapped(w, Queued)
           lat == [k \in 1 .. Size(left) |-> {j \in Items : j > w[k]}]
           c == [call |-> "body", body |-> {}, last |-> 0 - 1]
<1>1. /\ \E a \in {"NoCross", "AndCross"} : StartMining(a, calls)
      /\ pairs' = [i \in Items |-> IF i \in left THEN kept[i] ELSE Nowhere]
      /\ bodyMap' = [i \in Items |-> IF i \in left THEN bodyMap[i] ELSE {}]
  BY DEF PruneBodies
<1>2. /\ phase = "read" /\ algorithm \in {"NoCross", "AndCross"} /\ AfterLast(bodies, bodyAt)
      /\ work' = calls /\ job' = job /\ algorithm' = algorithm /\ bodies' = bodies
      /\ rules' = rules
  BY <1>1 DEF StartMining, cursors
<1>3. JobInv /\ Queried /\ rules = <<>>
  BY <1>2, AllRead DEF MinerInv, PairInv, QueriedInv
<1>4. \A i \in Items : /\ bodyMap[i] = Numbers(WithBody({i}))
                       /\ \A h \in Items : pairs[i][h] = Numbers(WithRule({i}, {h}))
  BY <1>2, MapsRead
<1>5. ASSUME NEW i \in Items  PROVE FrequentHeads(i, kept[i])
  <2>1. ASSUME NEW h \in Items
        PROVE  kept[i][h] = IF Reaches(Size(WithRule({i}, {h})))
                              THEN Numbers(WithRule({i}, {h})) ELSE {}
    <3> DEFINE S == WithRule({i}, {h})
    <3>1. kept[i][h] = IF Reaches(Size(pairs[i][h])) THEN pairs[i][h] ELSE {}
      OBVIOUS
    <3>2. pairs[i][h] = Numbers(S)
      BY <1>4
    <3>3. S \in SUBSET Grouped
      BY <1>3, RuleGrouped
    <3> HIDE DEF S, kept
    <3>4. Size(Numbers(S)) = Size(S)
      BY <1>3, <3>3, NumbersSize
    <3>5. QED  BY <3>1, <3>2, <3>4 DEF S
  <2> HIDE DEF kept
  <2>2. QED  BY <2>1 DEF FrequentHeads
<1>6. /\ left \in SUBSET Items
      /\ \A i \in Items : i \in left <=> \E h \in Items : kept[i][h] # {}
  OBVIOUS
<1> HIDE DEF left, kept
<1>7. left \in SUBSET Nat /\ IsFiniteSet(left)
  BY <1>6, SubsetFinite
<1> DEFINE n == Size(left)
<1>8. /\ n \in Nat /\ Len(w) = n /\ DOMAIN w = 1 .. n /\ Members(w) = left /\ Distinct(w)
      /\ IsList(w) /\ \A k \in 1 .. n : w[k] \in left
  <2>1. /\ n \in Nat /\ Len(w) = n /\ DOMAIN w = 1 .. n /\ Members(w) = left /\ Distinct(w)
    BY <1>7, InOrderMembers
  <2>2. w \in [1 .. n -> left]
    BY <1>7, InOrderProperties
  <2>3. IsList(w)
    BY <2>1, <2>2, ListOf
  <2>4. QED  BY <2>1, <2>2, <2>3
<1>9. Orders(w, lat)
  <2>1. \A k \in 1 .. n : \A i \in left : i \in lat[k] <=> i > w[k]
    BY <1>6
  <2> HIDE DEF lat
  <2>2. QED  BY <1>7, <2>1, NumberOrders
<1>10. /\ calls = [k \in 1 .. n |-> Queued(w[k])]
       /\ \A k \in 1 .. n : lat[k] = {j \in Items : j > w[k]}
  BY <1>8 DEF Mapped
<1>11. c.call = "body" /\ c.body = {} /\ c.last = 0 - 1
  OBVIOUS
<1> HIDE DEF calls, lat, w, n, c
<1>12. \A j \in Items : j \in Nat
  BY SourceAssumption
(* The tables that pruneMap leaves.                                        *)
<1>13. TablesKept'
  <2>1. /\ \A S : Numbers(S)' = Numbers(S)
        /\ \A B : WithBody(B)' = WithBody(B)
        /\ \A B, H : WithRule(B, H)' = WithRule(B, H)
        /\ \A m : Reaches(m)' = Reaches(m)
    BY <1>2, SameSearch DEF WithBody, WithRule, Reaches, Threshold
  <2>2. ASSUME NEW i \in Items
        PROVE  /\ pairs'[i] # Nowhere => bodyMap'[i] = Numbers(WithBody({i}))
               /\ \A h \in Items : pairs'[i][h] = IF Reaches(Size(WithRule({i}, {h})))
                                                   THEN Numbers(WithRule({i}, {h})) ELSE {}
    <3>1. \A h \in Items : pairs'[i][h] = kept[i][h]
      <4>1. CASE i \in left
        BY <1>1, <4>1
      <4>2. CASE i \notin left
        BY <1>1, <1>6, <4>2 DEF Nowhere
      <4>3. QED  BY <4>1, <4>2
    <3>2. pairs'[i] # Nowhere => bodyMap'[i] = bodyMap[i]
      BY <1>1
    <3>3. QED  BY <1>4, <1>5, <3>1, <3>2 DEF FrequentHeads
  <2>3. PairsRight'
    BY <2>1, <2>2 DEF PairsRight
  <2>4. QED  BY <1>2, <2>3 DEF TablesKept
(* The bodies queued.                                                      *)
<1>14. ASSUME NEW i \in left
       PROVE  BodyCall(Queued(i), c, i, {j \in Items : j > i}) /\ Right(Queued(i))
  <2> DEFINE d == Queued(i)
  <2>1. /\ d.call = "body" /\ d.body = {i} /\ d.gids = bodyMap[i] /\ d.last = i
        /\ d.table = kept[i]
    OBVIOUS
  <2> HIDE DEF d, Queued
  <2>2. i \in Items /\ i \in Nat
    BY <1>6, <1>7
  <2>3. Later(d) = {j \in Items : j > i}
    BY <2>1, BodyOwes
  <2>4. BodyCall(d, c, i, {j \in Items : j > i})
    BY <1>11, <2>1, <2>3 DEF BodyCall
  <2>5. job.rows # <<>>
    <3>1. PICK h \in Items : kept[i][h] # {}
      BY <1>6, <2>2
    <3>2. kept[i][h] \subseteq Numbers(WithRule({i}, {h}))
      BY <1>5, <2>2 DEF FrequentHeads
    <3>3. PICK g : g \in WithRule({i}, {h})
      BY <3>1, <3>2 DEF Numbers
    <3>4. i \in RowsOf(g, "body")
      BY <3>3 DEF WithRule, HasRule
    <3>5. QED  BY <1>3, <3>4, RowOf
  <2>6. TableRight({i}, d.table)
    BY <1>3, <1>5, <2>1, <2>2, FrequentTable
  <2>7. d.gids = Numbers(WithBody({i}))
    BY <1>4, <2>1, <2>2
  <2>8. BodyRight(d)
    <3>1. {i} \in (SUBSET Items) \ {{}} /\ \A j \in {i} : j <= i
      BY <2>2
    <3>2. QED  BY <1>2, <2>1, <2>2, <2>5, <2>6, <2>7, <3>1 DEF BodyRight, TablesRight
  <2>9. Right(d)
    BY <2>1, <2>8 DEF Right
  <2>10. QED  BY <2>4, <2>9 DEF d
<1> HIDE DEF Queued
(* Every rule of the minerule is one they owe.                             *)
<1>15. ASSUME NEW r \in Expected  PROVE r.body \subseteq left
  <2>1. r.body \in SUBSET Items /\ r.head \in SUBSET Items /\ r.head # {}
    BY ExpectedRule
  <2>2. ASSUME NEW i \in r.body  PROVE i \in left
    <3>1. PICK h : h \in r.head
      BY <2>1
    <3> DEFINE B == {i}
               H == {h}
               S == GroupsOf(B, H)
    <3>2. B \in SUBSET r.body /\ B # {} /\ H \in SUBSET r.head /\ S = GroupsOf(B, H)
          /\ S = WithRule({i}, {h}) /\ i \in Items /\ h \in Items
      BY <2>1, <2>2, <3>1 DEF GroupsOf
    <3>3. kept[i][h] = IF Reaches(Size(S)) THEN Numbers(S) ELSE {}
      <4>1. i \in Items /\ h \in Items /\ S = WithRule({i}, {h})
        BY <3>2
      <4> HIDE DEF S
      <4>2. QED  BY <1>5, <4>1 DEF FrequentHeads
    <3> HIDE DEF B, H, S
    <3>4. S # {} /\ Reaches(Size(S))
      BY <1>2, <1>3, <3>2, ReachesPart
    <3>5. kept[i][h] # {}
      BY <3>3, <3>4 DEF Numbers
    <3>6. QED  BY <1>6, <3>2, <3>5
  <2>3. QED  BY <2>2
<1>16. Later(c) = Items
  <2>1. Later(c) = {j \in Items : j > 0 - 1}
    BY <1>11 DEF Later
  <2>2. QED  BY <1>12, <2>1
<1>17. Owes(c) = Expected /\ OfBody({}) = {}
  <2>1. \A r : r \in Owes(c) <=> r \in Expected /\ Extends(r.body, c.body, Later(c))
    BY <1>11, BodyOwes
  <2>2. \A r \in Expected : Extends(r.body, {}, Items) /\ r.body # {}
    BY ExpectedRule DEF Extends
  <2>3. QED  BY <1>11, <1>16, <2>1, <2>2 DEF OfBody
<1>18. LongerBodies(c, w, lat, calls)
  <2>1. Members(w) \subseteq Later(c) /\ \A k \in 1 .. Len(w) : lat[k] \subseteq Later(c)
    BY <1>6, <1>8, <1>10, <1>16
  <2>2. Len(calls) = Len(w) /\ \A k \in 1 .. Len(w) : BodyCall(calls[k], c, w[k], lat[k])
    <3>1. Len(calls) = n
      BY <1>8, <1>10
    <3>2. \A k \in 1 .. n : BodyCall(calls[k], c, w[k], lat[k])
      BY <1>8, <1>10, <1>14
    <3>3. QED  BY <1>8, <3>1, <3>2
  <2>3. \A r \in Owes(c) : r.body \ c.body \subseteq Members(w)
    BY <1>8, <1>15, <1>17
  <2>4. QED  BY <1>8, <1>9, <1>11, <2>1, <2>2, <2>3 DEF LongerBodies
<1>19. /\ Separate(calls) /\ OfBody(c.body) \cup OwedBy(calls) = Owes(c)
  BY <1>11, <1>18, BodiesBranch
<1>20. IsList(calls) /\ Len(calls) = n /\ AllRight(calls)
  <2>1. IsList(calls) /\ Len(calls) = n
    BY <1>8, <1>10, ListOf
  <2>2. AllRight(calls)
    BY <1>8, <1>10, <1>14, <2>1 DEF AllRight
  <2>3. QED  BY <2>1, <2>2
<1>21. Accounts(calls, <<>>)
  BY <1>11, <1>17, <1>19, <1>20, FirstAccount
<1>22. QED  BY <1>2, <1>3, <1>13, <1>20, <1>21

-----------------------------------------------------------------------------
(* The rules found at the end.                                             *)

LEMMA FinishSearch ==
  ASSUME MinerInv, SearchInv, Finish
  PROVE  SearchInv'
<1>1. /\ phase = "mine" /\ work = <<>> /\ phase' = "done" /\ rules' = rules
      /\ job' = job /\ algorithm' = algorithm /\ bodies' = bodies
  BY DEF Finish, cursors
<1>2. ASSUME algorithm # "Itemsets"
      PROVE  {rules[k] : k \in DOMAIN rules} = Expected /\ Len(rules) = Size(Expected)
  <2> DEFINE none == <<>>
  <2>1. Accounts(none, rules) /\ OwedBy(none) = {}
    BY <1>1, <1>2, OwedNone DEF SearchInv
  <2> HIDE DEF none
  <2>2. IsList(rules) /\ Distinct(rules) /\ Members(rules) = Expected
    BY <2>1 DEF Accounts
  <2> DEFINE n == Len(rules)
  <2>3. n \in Nat /\ DOMAIN rules = 1 .. n
    BY <2>2, ListDomain
  <2>4. rules \in Bijection(1 .. n, Expected)
    <3>1. rules = [k \in 1 .. n |-> rules[k]]
      BY <2>2, <2>3 DEF IsList
    <3>2. \A k \in 1 .. n : rules[k] \in Expected
      BY <2>2 DEF Members
    <3>3. \A r \in Expected : \E k \in 1 .. n : rules[k] = r
      BY <2>2 DEF Members
    <3>4. \A k, l \in 1 .. n : rules[k] = rules[l] => k = l
      BY <2>2 DEF Distinct
    <3> HIDE DEF n
    <3>5. rules \in [1 .. n -> Expected]
      BY <3>1, <3>2
    <3>6. QED  BY <3>3, <3>4, <3>5 DEF Bijection, Injection, Surjection, IsInjective
  <2>5. Size(Expected) = n
    <3> HIDE DEF n
    <3>1. ExistsBijection(1 .. n, Expected)
      BY <2>4 DEF ExistsBijection
    <3>2. QED  BY <2>3, <3>1, FS_CountingElements DEF Size
  <2>6. QED  BY <2>2, <2>3, <2>5 DEF Members
<1>3. Expected' = Expected
  BY <1>1, SameRules
<1>4. Exact'
  BY <1>1, <1>2, <1>3 DEF Exact
<1>5. QED  BY <1>1, <1>4 DEF SearchInv

LEMMA SearchStep ==
  ASSUME MinerInv, ReadInv, PairInv, SearchInv, CareDisjoint,
         [MineAndMatch]_<<vars, matchVars>>
  PROVE  SearchInv'
<1>1. CASE GenerateRules \/ AddHead \/ BuildRules \/ BuildHead
  <2>1. /\ phase = "mine" /\ phase' = "mine" /\ job' = job /\ algorithm' = algorithm
        /\ bodies' = bodies /\ pairs' = pairs /\ bodyMap' = bodyMap /\ headMap' = headMap
    BY <1>1 DEF GenerateRules, AddHead, BuildRules, BuildHead, Calling, cursors, maps
  <2>2. Exact'
    BY <2>1 DEF Exact
  <2>3. ASSUME algorithm # "Itemsets"
        PROVE  TablesKept' /\ AllRight(work)' /\ Accounts(work, rules)'
    <3>1. Mining
      BY <2>1, <2>3 DEF Mining, SearchInv, MinerInv, PairInv, QueriedInv
    <3>2. AllRight(work') /\ Accounts(work', rules')
      BY <1>1, <3>1, GenerateRulesSearch, AddHeadSearch, BuildRulesSearch, BuildHeadSearch
    <3>3. TablesKept'
      BY <2>1, <3>1, SameRules DEF Mining
    <3>4. (\A w, found : Accounts(w, found)' = Accounts(w, found)) /\ \A c : Right(c)' = Right(c)
      BY <2>1, SameRules
    <3>5. AllRight(work)'
      BY <3>2, <3>4 DEF AllRight
    <3>6. Accounts(work, rules)'
      BY <3>2, <3>4
    <3>7. QED  BY <3>3, <3>5, <3>6
  <2>4. QED  BY <2>1, <2>2, <2>3 DEF SearchInv
<1>2. CASE PruneBodies \/ PruneCare
  <2>1. /\ phase' = "mine" /\ job' = job /\ algorithm' = algorithm /\ bodies' = bodies
    BY <1>2 DEF PruneBodies, PruneCare, StartMining, cursors
  <2>2. TablesKept' /\ AllRight(work') /\ Accounts(work', rules')
    BY <1>2, PruneBodiesSearch, PruneCareSearch
  <2>3. (\A w, found : Accounts(w, found)' = Accounts(w, found)) /\ \A c : Right(c)' = Right(c)
    BY <2>1, SameRules
  <2>4. AllRight(work)'
    BY <2>2, <2>3 DEF AllRight
  <2>5. Accounts(work, rules)'
    BY <2>2, <2>3
  <2>6. QED  BY <2>1, <2>2, <2>4, <2>5 DEF SearchInv, Exact
<1>3. CASE PruneItemsets
  BY <1>3 DEF PruneItemsets, StartMining, SearchInv, Exact
<1>4. CASE Refuse \/ Prepare \/ ReadNoCross \/ ReadAndCross \/ ReadCare \/ ReadItemsets \/ OpenSourceTable
  <2>1. phase' \notin {"mine", "done"}
    BY <1>4 DEF Refuse, Prepare, ReadNoCross, ReadAndCross, ReadCare, ReadItemsets, Reading,
                OpenSourceTable
  <2>2. QED  BY <2>1 DEF SearchInv, Exact
<1>5. CASE Finish
  BY <1>5, FinishSearch
<1>6. CASE UNCHANGED vars
  <2>1. /\ phase' = phase /\ job' = job /\ algorithm' = algorithm /\ bodies' = bodies
        /\ pairs' = pairs /\ bodyMap' = bodyMap /\ headMap' = headMap
        /\ work' = work /\ rules' = rules
    BY <1>6 DEF vars
  <2>2. /\ Expected' = Expected /\ TablesKept' = TablesKept
        /\ (\A w, found : Accounts(w, found)' = Accounts(w, found)) /\ \A c : Right(c)' = Right(c)
    BY <2>1, SameRules
  <2>3. Exact'
    BY <2>1, <2>2 DEF SearchInv, Exact
  <2>4. AllRight(work)' <=> AllRight(work)
    BY <2>1, <2>2 DEF AllRight
  <2>5. Accounts(work, rules)' <=> Accounts(work, rules)
    BY <2>1, <2>2
  <2>6. QED  BY <2>1, <2>2, <2>3, <2>4, <2>5 DEF SearchInv
<1>7. MatchStep => UNCHANGED vars
  BY DEF MatchStep, ReadsGroup, MatchRuleTransaction, MatchItemTransaction, NoMoreHeads,
         NoMoreGroups, PrintMatches, SaveMatches
<1>8. UNCHANGED <<vars, matchVars>> => UNCHANGED vars
  BY DEF vars, matchVars
<1>9. QED  BY <1>1, <1>2, <1>3, <1>4, <1>5, <1>6, <1>7, <1>8 DEF MineAndMatch, Next

(* The miners insert the rules of the minerule and no others, each of them *)
(* once and with its counts (BFSWithGidsNoCross.cpp, BFSWithGidsAndCross.cpp *)
(* and CareMiner.cpp, through Connection::insert), whenever the rows come  *)
(* by group and CARE's heads are not items of the bodies.                  *)
THEOREM ExactRules == GroupedTables /\ CareDisjoint => (MatchSpec => []Exact)
<1> SUFFICES ASSUME GroupedTables, CareDisjoint  PROVE MatchSpec => []Exact
  OBVIOUS
<1> DEFINE Inv == MinerInv /\ ReadInv /\ PairInv /\ SearchInv
<1>1. MatchInit => Inv
  <2>1. MatchInit => ReadInv
    BY DEF MatchInit, Init, ReadInv, JobInv, StartInv, QueriesInv, CursorsInv, Aligned, Reads
  <2>2. MatchInit => SearchInv
    BY DEF MatchInit, Init, SearchInv, Exact
  <2>3. QED  BY <2>1, <2>2, MinerStarts, PairStarts
<1>2. Inv /\ [MineAndMatch]_<<vars, matchVars>> => Inv'
  BY MinerStep, ReadStep, PairStep, SearchStep
<1>3. Inv => Exact
  BY DEF SearchInv
<1>4. QED  BY <1>1, <1>2, <1>3, PTL DEF MatchSpec
=============================================================================
