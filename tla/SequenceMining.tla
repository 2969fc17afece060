---------------------------- MODULE SequenceMining ----------------------------
(***************************************************************************)
(* STSMiner, which answers MINE SEQUENCE level by level: the frequent      *)
(* items, the pairs of items that follow one another within the allowed    *)
(* gaps, and then the patterns that two patterns of the level below make   *)
(* when the tail of the one is the front of the other.                     *)
(*                                                                         *)
(* A source table gives each group its rows in the order of the ORDER BY   *)
(* attributes.  The conditions are on attributes of the elements: BEGIN,   *)
(* END and MID of the HAVING clause, and no distance functions.  The rows  *)
(* are written to the result tables directly.                              *)
(***************************************************************************)
EXTENDS Ordering

CONSTANTS
  Groups,    \* the values of the group attributes
  Items,     \* the values of the body and of the head attributes
  Jobs,      \* a table, a minerule, and how often the program is killed while it mines
  Unbounded  \* std::numeric_limits<int>::max()

ASSUME SourceAssumption ==
  Groups \subseteq Nat /\ Items \subseteq Nat /\ IsFiniteSet(Items)

Element == [item : Items, kept : BOOLEAN]   \* a row, and whether WHERE keeps it
Bem == [type : {"BEGIN", "MID", "END"}, items : SUBSET Items, min : Nat, max : Nat]
Job == [rows : [Groups -> Seq(Element)], distinct : BOOLEAN, gaps : Nat \X Nat,
        length : (Nat \ {0}) \X Nat, num : Nat \ {0}, den : Nat \ {0},
        bem : Seq(Bem), overwrite : BOOLEAN, kills : Nat]

ASSUME SequenceAssumption ==
  /\ Jobs \subseteq Job /\ IsFiniteSet(Groups)
  /\ Unbounded \in Nat /\ \A m \in Jobs : m.length[2] <= Unbounded   \* lengths are ints

VARIABLES
  job, phase,
  tables,       \* the tables of the program that exist in the database
  saved,        \* the rows of the result tables
  source,       \* the rows of the source table of the run
  level,        \* the length of the patterns that are being extracted
  patterns,     \* the patterns of the level below: bvptr, results, pos_lists, bem_vect
  new,          \* those found so far on this level
  todo,         \* the candidate pairs of this level that are still to be read
  closed,       \* closed_seq
  bemCf,        \* the conditions some candidate of this level can satisfy
  kills, failures

memory == <<source, level, patterns, new, todo, closed, bemCf>>
vars == <<job, phase, tables, saved, memory, kills, failures>>

SourceTable == 0      \* and a number k from 2 on is the table _Seqk
GroupNumbers == 1     \* TEMP_GRPID

Row == [gid : Groups, item : Items, pos : Nat, run : Nat]
End == [gid : Groups, pos : Nat, run : Nat]
Pattern ==
  [items : Seq(Items), ids : Nat \X Nat, ends : SUBSET End, groups : SUBSET Groups,
   bits : SUBSET Nat, counts : Seq(Nat \X Nat)]
Saved == [items : Seq(Items), groups : SUBSET Groups]

TypeOK ==
  /\ job \in Job /\ tables \subseteq Nat /\ saved \in Seq(Saved) /\ source \subseteq Row
  /\ phase \in {"start", "source", "number", "numbered", "singletons", "level", "pairs",
                "finish", "done", "failed"}
  /\ patterns \in Seq(Pattern) /\ new \in Seq(Pattern)
  /\ todo \in Seq((1 .. Len(patterns)) \X (1 .. Len(patterns)))
  /\ closed \subseteq 1 .. Len(patterns) /\ bemCf \subseteq DOMAIN job.bem
  /\ level <= job.length[2] /\ kills <= job.kills

-----------------------------------------------------------------------------
grpId_count == Size({g \in Groups : job.rows[g] # <<>>})
Frequent(n) == n * job.den >= job.num * grpId_count

context_free_BEM == job.bem # <<>>
Mids == {j \in DOMAIN job.bem : job.bem[j].type = "MID"}
AtLeast(j) == IF job.bem[j].min > 1 THEN job.bem[j].min ELSE 1
active_count == \E j \in Mids : AtLeast(j) # 1 \/ job.bem[j].max # Unbounded
max_MIN_COUNT == \E j \in Mids : AtLeast(j) > 1   \* it is more than 1

(* The gap between two positions: DISTINCT counts a run of equal items once. *)
At(p) == IF job.distinct THEN p.run ELSE p.pos
Gap(p, q) == At(p) < At(q) /\ At(q) - At(p) - 1 \in job.gaps[1] .. job.gaps[2]

Init ==
  /\ job \in Jobs /\ phase = "start"
  /\ tables = {} /\ saved = <<>> /\ kills = 0 /\ failures = 0
  /\ source = {} /\ level = 1 /\ patterns = <<>> /\ new = <<>> /\ todo = <<>>
  /\ closed = {} /\ bemCf = {}

Forget ==
  /\ source' = {} /\ level' = 1 /\ patterns' = <<>> /\ new' = <<>> /\ todo' = <<>>
  /\ closed' = {} /\ bemCf' = {}

(* The constructor and initialize: createResultTables.                     *)
KeepsRows == saved
CreateResultTables == IF job.overwrite THEN <<>> ELSE saved
Start ==
  /\ phase = "start"
  /\ phase' = "source"
  /\ saved' = CreateResultTables
  /\ UNCHANGED <<job, tables, memory, kills, failures>>

(* The handlers of mineRules drop the tables of the last two levels; k is  *)
(* 3 on the first ones already.  That of setSeqIDProp, before them, drops  *)
(* the group numbers: no other failure does.                               *)
DropOneTable(k) == tables \ {SourceTable, k}
KeepSource(k) == tables \ {k, k - 1}
DropResultsTables(k) == tables \ {SourceTable, k, k - 1}
NumbersDropped == {n \in {GroupNumbers} : phase = "number"}
Fail ==
  /\ tables' = DropResultsTables(IF level < 3 THEN 3 ELSE level) \ NumbersDropped
  /\ saved' = <<>> /\ phase' = "failed" /\ failures' = failures + 1
  /\ Forget

-----------------------------------------------------------------------------
(* extract1Sequences: the rows WHERE keeps are numbered within the group,  *)
(* and the runs of equal items are over all the rows.                      *)
RowsOf(g) ==
  LET t == job.rows[g] IN
  {[gid |-> g, item |-> t[i].item, pos |-> Size({j \in 1 .. i : t[j].kept}),
    run |-> Size({j \in 1 .. i : j = 1 \/ t[j].item # t[j - 1].item})] :
     i \in {j \in DOMAIN t : t[j].kept}}

(* sourceFilter keeps the groups with an element for every condition.      *)
FilterAny(g) == \E i \in DOMAIN job.rows[g] : \A j \in DOMAIN job.bem : job.rows[g][i].item \in job.bem[j].items
SourceFilter(g) ==
  \A j \in DOMAIN job.bem : \E i \in DOMAIN job.rows[g] : job.rows[g][i].item \in job.bem[j].items

CreateSource ==
  /\ phase = "source" /\ SourceTable \notin tables
  /\ source' = UNION {RowsOf(g) : g \in {h \in Groups : SourceFilter(h)}}
  /\ tables' = tables \cup {SourceTable}
  /\ phase' = IF source' = {} THEN "finish" ELSE "number"
  /\ UNCHANGED <<job, saved, level, patterns, new, todo, closed, bemCf, kills, failures>>

(* setSeqIDProp makes and drops a table of the group numbers.              *)
CreateNumbers ==
  /\ phase = "number" /\ GroupNumbers \notin tables
  /\ tables' = tables \cup {GroupNumbers}
  /\ phase' = "numbered"
  /\ UNCHANGED <<job, saved, memory, kills, failures>>

DropNumbers ==
  /\ phase = "numbered"
  /\ tables' = tables \ {GroupNumbers}
  /\ phase' = "singletons"
  /\ UNCHANGED <<job, saved, memory, kills, failures>>

FailSource ==
  /\ \/ phase = "source" /\ SourceTable \in tables
     \/ phase = "number" /\ GroupNumbers \in tables
     \/ phase = "level" /\ level \in tables
  /\ Fail
  /\ UNCHANGED <<job, kills>>

-----------------------------------------------------------------------------
(* initbemvect, and createBitVectors for an item.                          *)
Bits(i) == {j \in DOMAIN job.bem : i \in job.bem[j].items}
Holds(bits, counts) ==
  /\ bits = DOMAIN job.bem
  /\ active_count => \A j \in Mids : counts[j][1] + counts[j][2] \in AtLeast(j) .. job.bem[j].max

GroupsWith(i) == {r.gid : r \in {s \in source : s.item = i}}
Singleton(i) ==
  [items |-> <<i>>, ids |-> <<0, 0>>, ends |-> {}, bits |-> Bits(i),
   groups |-> IF Bits(i) = DOMAIN job.bem THEN GroupsWith(i) ELSE {},
   counts |-> [j \in DOMAIN job.bem |-> IF j \in Bits(i) \cap Mids THEN <<1, 1>> ELSE <<0, 0>>]]

(* pruning1Seq: the frequent items, numbered by the table _Seq1.           *)
Pruning1Seq == InOrder({i \in Items : GroupsWith(i) # {} /\ Frequent(Size(GroupsWith(i)))})

Singletons ==
  LET items == Pruning1Seq IN [k \in DOMAIN items |-> Singleton(items[k])]

AsSaved(p) == [items |-> p.items, groups |-> p.groups]
SaveAll(ps, which) ==
  LET at == InOrder({i \in which : Frequent(Size(ps[i].groups))}) IN
  [k \in DOMAIN at |-> AsSaved(ps[at[k]])]

SavesSingletons == job.length[1] < 2 /\ ~max_MIN_COUNT

ExtractSingletons ==
  /\ phase = "singletons"
  /\ patterns' = Singletons
  /\ LET n == Len(patterns')
         deeper == n > 1 /\ job.length[2] > 1
     IN /\ phase' = IF deeper THEN "level" ELSE "finish"
        /\ level' = IF deeper THEN 2 ELSE 1
        /\ tables' = IF deeper THEN tables ELSE tables \ {SourceTable}
        /\ saved' = IF deeper \/ ~SavesSingletons THEN saved
                    ELSE saved \o SaveAll(patterns', 1 .. n)
  /\ UNCHANGED <<job, source, new, todo, closed, bemCf, kills, failures>>

-----------------------------------------------------------------------------
(* The rows of the second item that follow one of the first.               *)
Following(i, j) ==
  {r \in source : r.item = j /\ \E s \in source : s.item = i /\ s.gid = r.gid /\ Gap(s, r)}
EndsOf(rows) == {[gid |-> r.gid, pos |-> r.pos, run |-> r.run] : r \in rows}

(* The query of extract2Sequences has a row for each of them, that of      *)
(* extractKSequences one for each overlap.                                 *)
IsCandidate(p, q) ==
  IF level = 2 THEN Following(p.items[1], q.items[1]) # {} ELSE p.ids[2] = q.ids[1]
Candidates ==
  {c \in (DOMAIN patterns) \X (DOMAIN patterns) : IsCandidate(patterns[c[1]], patterns[c[2]])}

StartLevel ==
  /\ phase = "level" /\ level \notin tables
  /\ tables' = tables \cup {level}
  /\ todo' = Listed[Candidates]
  /\ closed' = 1 .. Len(patterns)
  /\ new' = <<>> /\ bemCf' = {}
  /\ phase' = "pairs"
  /\ UNCHANGED <<job, saved, source, level, patterns, kills, failures>>

(* init_bem_bit_vector: BEGIN of the first, END of the last, MID of any.   *)
AnyBits(p, q) == p.bits \cup q.bits
InferBits(p, q) ==
  {j \in p.bits : job.bem[j].type = "BEGIN"} \cup {j \in q.bits : job.bem[j].type = "END"}
    \cup (Mids \cap (p.bits \cup q.bits))
InferCounts(p, q) ==
  [j \in DOMAIN job.bem |->
     IF level = 2 THEN <<IF j \in Mids \cap p.bits THEN 1 ELSE 0, IF j \in Mids \cap q.bits THEN 1 ELSE 0>>
     ELSE <<p.counts[j][1] + p.counts[j][2], q.counts[j][2]>>]
StillPossible(bits, counts) ==
  {j \in bits : j \in Mids /\ active_count => counts[j][1] + counts[j][2] <= job.bem[j].max}

CheckFirstEnd(p, q) ==
  {e \in q.ends :
     LET ends == {f \in p.ends : f.gid = e.gid} IN
     ends # {} /\ Gap(CHOOSE f \in ends : \A h \in ends : At(f) <= At(h), e)}

(* check_pos_lists_with_gap: an end of the second pattern stays if the     *)
(* first end of the other one that is not too far away is not too near.    *)
CheckPosLists(p, q) ==
  {e \in q.ends :
     LET near == {f \in p.ends : f.gid = e.gid /\ At(f) + job.gaps[2] + 1 >= At(e)} IN
     near # {} /\ Gap(CHOOSE f \in near : \A h \in near : At(f) <= At(h), e)}

Extended(p, q, c) ==
  LET ends == IF level = 2 THEN EndsOf(Following(p.items[1], q.items[1])) ELSE CheckPosLists(p, q)
      bits == InferBits(p, q)
      counts == InferCounts(p, q)
  IN [items |-> Append(p.items, q.items[Len(q.items)]), ids |-> c, ends |-> ends, bits |-> bits,
      groups |-> IF Holds(bits, counts) THEN {e.gid : e \in ends} ELSE {}, counts |-> counts]

(* pruningSeq2 counts the ends, pruningSeqK the groups that have one.      *)
Kept(p) == Frequent(IF level = 2 THEN Size(p.ends) ELSE Size({e.gid : e \in p.ends}))

(* saveSequenceData: a pattern is not closed if a longer one has as many   *)
(* groups.  pruningSeq2 passes the address of check_bem, which is true.    *)
NoLongerClosed(p, c) ==
  {i \in {c[1], c[2]} :
     /\ level = 2 \/ p.groups # {} \/ ~Holds(patterns[i].bits, patterns[i].counts)
     /\ Size(patterns[i].groups) = Size(p.groups)}

ReadCandidate ==
  LET c == Head(todo)
      p == Extended(patterns[c[1]], patterns[c[2]], c)
  IN
  /\ phase = "pairs" /\ todo # <<>>
  /\ todo' = Tail(todo)
  /\ bemCf' = bemCf \cup StillPossible(p.bits, p.counts)
  /\ new' = IF Kept(p) THEN Append(new, p) ELSE new
  /\ closed' = IF Kept(p) THEN closed \ NoLongerClosed(p, c) ELSE closed
  /\ UNCHANGED <<job, phase, tables, saved, source, level, patterns, kills, failures>>

(* The end of pruningSeq2 and of pruningSeqK, and what mineRules makes of  *)
(* their answer.                                                           *)
SavesBelow == IF level = 2 THEN SavesSingletons ELSE job.length[1] < level
Last == level = job.length[2]
GoesOn == new # <<>> /\ bemCf = DOMAIN job.bem

EndLevel ==
  LET below == IF SavesBelow THEN SaveAll(patterns, closed) ELSE <<>>
      last == GoesOn /\ Last
  IN
  /\ phase = "pairs" /\ todo = <<>>
  /\ saved' = saved \o below
                \o (IF last /\ job.length[1] <= level THEN SaveAll(new, 1 .. Len(new)) ELSE <<>>)
  /\ tables' = IF level = 2 THEN tables \ {SourceTable} ELSE tables \ {level - 1}
  /\ patterns' = IF last THEN <<>> ELSE new
  /\ new' = <<>> /\ closed' = {}
  /\ IF GoesOn /\ ~last THEN level' = level + 1 /\ phase' = "level"
     ELSE level' = level /\ phase' = "finish"
  /\ UNCHANGED <<job, source, todo, bemCf, kills, failures>>

(* k has already been incremented when its table is dropped.               *)
LastTablesBehind == {SourceTable, IF level <= 2 THEN 2 ELSE level - 1}
LastTables == {SourceTable, IF level < 2 THEN 2 ELSE level}
Finish ==
  /\ phase = "finish"
  /\ tables' = tables \ LastTables
  /\ phase' = "done"
  /\ UNCHANGED <<job, saved, memory, kills, failures>>

-----------------------------------------------------------------------------
(* The program is killed, or it failed, and its user starts it again.      *)
Kill ==
  /\ phase \notin {"start", "done", "failed"} /\ kills < job.kills
  /\ kills' = kills + 1
  /\ phase' = "start"
  /\ Forget
  /\ UNCHANGED <<job, tables, saved, failures>>

Again ==
  /\ phase = "failed" /\ failures <= 3 * job.kills
  /\ phase' = "start"
  /\ UNCHANGED <<job, tables, saved, memory, kills, failures>>

Mine ==
  \/ Start \/ CreateSource \/ CreateNumbers \/ DropNumbers \/ FailSource
  \/ ExtractSingletons \/ StartLevel \/ ReadCandidate \/ EndLevel \/ Finish \/ Again

Next == Mine \/ Kill
Spec == Init /\ [][Next]_vars /\ WF_vars(Mine)

-----------------------------------------------------------------------------
(* What the minerule asks for, from the table.                             *)
Occurs(s, g, f) ==
  \A k \in DOMAIN s : f[k].item = s[k] /\ (k > 1 => Gap(f[k - 1], f[k]))
Occurrences(s, g) == {f \in [1 .. Len(s) -> RowsOf(g)] : Occurs(s, g, f)}
SupportOf(s) == {g \in Groups : Occurrences(s, g) # {}}

Satisfies(s) ==
  \A j \in DOMAIN job.bem :
    CASE job.bem[j].type = "BEGIN" -> s[1] \in job.bem[j].items
      [] job.bem[j].type = "END" -> s[Len(s)] \in job.bem[j].items
      [] OTHER -> Size({k \in DOMAIN s : s[k] \in job.bem[j].items}) \in AtLeast(j) .. job.bem[j].max

Fresh == job.overwrite \/ kills = 0   \* no rows of a killed run are in the way

(* A pattern is kept with the last positions of all its occurrences in the *)
(* groups that are left, and the next level finds its occurrences there.   *)
EndsExact ==
  phase = "pairs" =>
    \A i \in DOMAIN new :
      new[i].ends =
        {e \in EndsOf(source) : \E f \in Occurrences(new[i].items, e.gid) : f[level].pos = e.pos}

(* Minerules that allow a length of 1, and for a MID condition one element *)
(* that meets it: the single items are written without asking.             *)
OneIsAllowed ==
  \A m \in Jobs :
    /\ m.length[2] >= 1
    /\ \A j \in DOMAIN m.bem : m.bem[j].type = "MID" => m.bem[j].max >= 1

(* Every sequence written has the length, the conditions and the support   *)
(* the minerule asks for, with exactly the groups it occurs in.            *)
Exact ==
  phase = "done" /\ Fresh =>
    \A i \in DOMAIN saved :
      LET s == saved[i] IN
      /\ Len(s.items) \in job.length[1] .. job.length[2] /\ Satisfies(s.items)
      /\ s.groups = SupportOf(s.items) /\ Frequent(Size(s.groups))

(* A sequence some group has that is not written is part of one that is,   *)
(* and that occurs in as many groups; unless a single item is frequent.    *)
Part(s, t) == \E k \in 0 .. Len(t) - Len(s) : SubSeq(t, k + 1, k + Len(s)) = s
AllSequences == UNION {[1 .. n -> Items] : n \in job.length[1] .. job.length[2]}
Complete ==
  phase = "done" /\ (job.length[2] = 1 \/ Len(Pruning1Seq) # 1) =>
    \A s \in AllSequences :
      Satisfies(s) /\ SupportOf(s) # {} /\ Frequent(Size(SupportOf(s))) =>
        \E i \in DOMAIN saved : Part(s, saved[i].items) /\ Size(saved[i].groups) = Size(SupportOf(s))

(* No sequence is written twice.                                           *)
NoneTwice ==
  Fresh => \A i, j \in DOMAIN saved : saved[i].items = saved[j].items => i = j

(* A finished run leaves none of its tables, even if it follows others     *)
(* that were killed.                                                       *)
NothingLeft == phase = "done" => tables = {}

(* The tables a killed run left make at most two later runs fail.          *)
FailsTwice == failures <= 2 * kills

(* The user gets an answer in the end.                                     *)
Ends == <>(phase = "done")
=============================================================================
